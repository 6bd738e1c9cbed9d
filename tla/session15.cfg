CONSTANTS
  Offers = {{"md2", "password"}, {"md5"}, {"password"}, {"oem"}, {"oem", "none"}, {"none"}}
  Passwords = {TRUE, FALSE}
  SeqMod = 4
  Window = 3
  MaxConnects = 3
  MaxCommands = 3
  MaxFaults = 3
SPECIFICATION FairSpec
INVARIANTS SessionAccepted ConnectsUnlessMD2OrOEM
PROPERTIES Connect15Returns
CHECK_DEADLOCK FALSE
