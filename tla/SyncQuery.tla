----------------------------- MODULE SyncQuery -----------------------------
(***************************************************************************)
(* What UDPClient.Exchange promises its callers (udpclient.go:118-121):    *)
(* a synchronous query.  One query is in progress at a time; each query    *)
(* transmits its request at most once, is never retried, and ends exactly  *)
(* once, either with an error or with the answer to a request which was    *)
(* transmitted before.  If the network does not duplicate datagrams, no    *)
(* answer is handed out twice.                                             *)
(*                                                                         *)
(* The promise deliberately does not say that the answer belongs to the    *)
(* query that receives it: the code does not check that.                   *)
(***************************************************************************)
CONSTANTS Calls,       \* the invocations of Exchange
          None,        \* "no call"
          Err,         \* a query that ended with an error
          Duplicates   \* whether the network may deliver a reply twice

VARIABLES busy,        \* the query in progress, or None
          sent,        \* the requests that were transmitted
          result       \* [Calls -> None, Err or the request whose answer it is]

vars == <<busy, sent, result>>

Init == /\ busy = None
        /\ sent = {}
        /\ result = [c \in Calls |-> None]

\* A query begins: no other one is in progress.
Begin(c) ==
    /\ busy = None
    /\ result[c] = None
    /\ busy' = c
    /\ UNCHANGED <<sent, result>>

\* The query in progress transmits its request, once.
Transmit(c) ==
    /\ busy = c
    /\ c \notin sent
    /\ sent' = sent \cup {c}
    /\ UNCHANGED <<busy, result>>

\* The query in progress ends with the answer to request d.
Answer(c, d) ==
    /\ busy = c
    /\ {c, d} \subseteq sent
    /\ Duplicates \/ \A x \in Calls : result[x] # d
    /\ result' = [result EXCEPT ![c] = d]
    /\ busy' = None
    /\ UNCHANGED sent

\* A query ends with an error, in progress or before it could begin.
Fail(c) ==
    /\ result[c] = None
    /\ result' = [result EXCEPT ![c] = Err]
    /\ busy' = IF busy = c THEN None ELSE busy
    /\ UNCHANGED sent

Next == \E c \in Calls :
            \/ Begin(c)
            \/ Transmit(c)
            \/ Fail(c)
            \/ \E d \in Calls : Answer(c, d)

Spec == Init /\ [][Next]_vars
=============================================================================
