------------------------ MODULE RFC2136Nameservers ------------------------
(***************************************************************************)
(* How the RFC 2136 provider chooses among several name servers            *)
(* (provider/rfc2136/rfc2136.go: getNextNameserver, SendMessage, List).    *)
(* A message or a zone transfer is tried as often as there are servers.    *)
(***************************************************************************)
EXTENDS Integers, FiniteSets

CONSTANTS
  N,           \* the number of name servers, 0..N-1
  Strategies,  \* the strategies to look at: "random", "round-robin", "disabled"
  MaxFlips     \* bound on servers going down or coming back

Servers == 0..N - 1
None == -1

VARIABLES
  strategy,  \* loadBalancingStrategy
  counter,
  lastErr,   \* r.lastErr is set
  op,        \* the operation under way: "none", "send", "list"
  tries,     \* i of its loop
  failed,    \* its lastErr is set
  result,    \* of the last operation: "none", "ok", "error"
  last,      \* the server used last
  up,        \* the servers that answer
  steady,    \* those that have answered all through the last operation
  flips

vars == <<strategy, counter, lastErr, op, tries, failed, result, last, up, steady, flips>>

Init ==
  /\ strategy \in Strategies
  /\ counter = 0 /\ lastErr = FALSE
  /\ op = "none" /\ tries = 0 /\ failed = FALSE /\ result = "none" /\ last = None
  /\ up \in SUBSET Servers /\ steady = {} /\ flips = 0

Start ==
  /\ op = "none"
  /\ op' \in {"send", "list"}
  /\ tries' = 0 /\ failed' = FALSE /\ result' = "none"
  /\ steady' = up
  /\ UNCHANGED <<strategy, counter, lastErr, last, up, flips>>

(* getNextNameserver: the server and the new counter.                      *)
Advance(c) == (c + 1) % N

(* A mutant of NextServers: the counter does not move after an error.      *)
NextServersStuck ==
  CASE strategy = "random" -> {<<s, counter>> : s \in Servers \ {counter}}
    [] strategy = "round-robin" -> {<<counter, Advance(counter)>>}
    [] OTHER -> {<<counter, counter>>}

NextServers ==
  CASE strategy = "random" -> {<<s, counter>> : s \in Servers \ {counter}}
    [] strategy = "round-robin" -> {<<counter, Advance(counter)>>}
    [] OTHER -> LET c == IF lastErr THEN Advance(counter) ELSE counter IN {<<c, c>>}

(* A try that is answered.  List returns an error all the same if an       *)
(* earlier try failed.                                                     *)
Answered ==
  /\ op # "none"
  /\ \E n \in NextServers :
       /\ n[1] \in up
       /\ last' = n[1] /\ counter' = n[2]
  /\ op' = "none"
  /\ result' = IF op = "list" /\ failed THEN "error" ELSE "ok"
  /\ lastErr' = (op = "list" /\ failed)
  /\ UNCHANGED <<strategy, tries, failed, up, steady, flips>>

(* A try that is not.                                                      *)
Unanswered ==
  /\ op # "none"
  /\ \E n \in NextServers :
       /\ n[1] \notin up
       /\ last' = n[1] /\ counter' = n[2]
  /\ lastErr' = TRUE /\ failed' = TRUE
  /\ tries' = tries + 1
  /\ op' = IF tries' = N THEN "none" ELSE op
  /\ result' = IF tries' = N THEN "error" ELSE result
  /\ UNCHANGED <<strategy, up, steady, flips>>

Flip ==
  /\ flips < MaxFlips
  /\ flips' = flips + 1
  /\ \E s \in Servers :
       up' = IF s \in up THEN up \ {s} ELSE up \union {s}
  /\ steady' = IF op = "none" THEN steady ELSE steady \intersect up'
  /\ UNCHANGED <<strategy, counter, lastErr, op, tries, failed, result, last>>

Next == Start \/ Answered \/ Unanswered \/ Flip

-----------------------------------------------------------------------------
(* A message is given up only if no server answered all the time.         *)
GivenUp == op = "send" /\ op' = "none" /\ result' = "error"
SendStep == GivenUp => steady = {}
===========================================================================
