CONSTANTS
  Devices <- ThreeDevices
  Inventory <- Contents
  Locators <- SomeLocators
  Limits = {3, 30, 255}
  Shorter = {0, 1}
  Direct = {0}
  MaxRead = 32
SPECIFICATION FairSpec
INVARIANTS ReadExactly FrusComplete
PROPERTIES ReadsEnd
CHECK_DEADLOCK FALSE
