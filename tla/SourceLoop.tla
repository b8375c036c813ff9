----------------------------- MODULE SourceLoop -----------------------------
(***************************************************************************)
(* A source in a running process: the objects of the cluster change one by *)
(* one, the informers' caches follow, each kind by itself, and every run   *)
(* publishes what the source makes of the caches, unless it returns an     *)
(* error (controller/controller.go: RunOnce stops).  Some sources also     *)
(* call the API server or a resolver during a run, which may fail.         *)
(***************************************************************************)
EXTENDS SourceScripts

CONSTANT MaxFaults   \* bound on runs with failing calls

VARIABLES
  source,     \* the source in use, the same all the time
  at,         \* the state of the cluster
  seen,       \* kind |-> the state of the cluster its cache is in
  published,  \* the endpoints of the last run without an error
  faults,
  fresh       \* there was a run since the caches last changed

SourceInit ==
  /\ source \in Sources
  /\ at = 1
  /\ seen = [k \in Kinds[source] |-> 1]   \* WaitForCacheSync
  /\ published = {}
  /\ faults = 0 /\ fresh = FALSE

ObjectsChange ==
  /\ at < Len(Scripts[source])
  /\ at' = at + 1
  /\ seen' = [k \in Kinds[source] |-> IF k \in Live[source] THEN at' ELSE seen[k]]
  /\ fresh' = FALSE
  /\ UNCHANGED <<source, published, faults>>

CacheFollows ==
  /\ \E k \in Kinds[source] : seen[k] < at /\ seen' = [seen EXCEPT ![k] = @ + 1]
  /\ fresh' = FALSE
  /\ UNCHANGED <<source, at, published, faults>>

Cluster(i) == Scripts[source][i]
Cached == [k \in DOMAIN Cluster(1) |-> IF k \in Kinds[source] THEN Cluster(seen[k])[k] ELSE Cluster(1)[k]]

Publish(c) == \E r \in Results(source, c) : published' = IF r.err THEN published ELSE r.eps

Run ==
  /\ Publish(Cached)
  /\ fresh' = TRUE
  /\ UNCHANGED <<source, at, seen, faults>>

CallFails ==
  /\ source \in CallsOut /\ faults < MaxFaults
  /\ faults' = faults + 1
  /\ Publish([Cached EXCEPT !.fail = TRUE])
  /\ fresh' = FALSE
  /\ UNCHANGED <<source, at, seen>>

SourceNext == ObjectsChange \/ CacheFollows \/ Run \/ CallFails

-----------------------------------------------------------------------------
(* The records that endpoints stand for, and those that the objects ask    *)
(* for, taken one by one: those of an object in error are left out.        *)
Answers(S) == UNION {{<<e.name, e.type, t>> : t \in e.tgts} : e \in S}
Alone(s, c, k, o) == [j \in DOMAIN c |-> IF j = k THEN {o} ELSE IF j \in Primary[s] THEN {} ELSE c[j]]
Wanted(s, c) ==
  UNION {UNION {Answers(r.eps) : r \in Results(s, Alone(s, c, ko[1], ko[2]))}
           : ko \in UNION {{<<k, o>> : o \in c[k]} : k \in Primary[s]}}
AskedFor == [s \in Sources |-> [i \in DOMAIN Scripts[s] |-> Wanted(s, Scripts[s][i])]]

(* What is published is what the objects ask for, each for itself: the    *)
(* targets of all objects for a name, however their endpoints are merged,  *)
(* and whatever another object has wrong; except that with some sources    *)
(* one object in error stops all.                                          *)
Settled ==
  \/ Answers(published) = AskedFor[source][at]
  \/ source \in StoppedByOne /\ \A r \in Results(source, Cluster(at)) : r.err

(* A name that the cluster has asked for all the time, from the oldest     *)
(* state in a cache to the present one, is not dropped: not by caches that *)
(* are in different states, nor by a call that fails.                      *)
NamesOf(S) == {a[1] : a \in S}
AllTheTime(n) == \A i \in 1..at : (\A k \in Kinds[source] : i < seen[k]) \/ n \in NamesOf(AskedFor[source][i])
KeepsNames ==
  source \notin Withdraws =>
    \A e \in published : AllTheTime(e.name) => e.name \in {d.name : d \in published'}
=============================================================================
