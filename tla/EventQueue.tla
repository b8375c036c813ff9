----------------------------- MODULE EventQueue -----------------------------
(***************************************************************************)
(* The emitter of Kubernetes events (pkg/events/controller.go): the run    *)
(* loop adds one event for every object behind a changed record, a worker  *)
(* creates them through the API server and tries again, after a delay,     *)
(* what has failed.                                                        *)
(***************************************************************************)
EXTENDS Integers, Sequences, FiniteSets

CONSTANTS
  Changes,             \* the sequence of changes: [reason, refs]
  emitEvents,          \* the reasons that are reported
  Missing,             \* the objects whose namespace does not exist any more
  maxQueuedEvents,
  maxRetriesPerEvent

VARIABLES
  change,    \* the next change to be reported
  queue,     \* the work queue: pairs of change and object
  waiting,   \* the events that wait for their next try
  current,   \* the event the worker has taken
  requeues,  \* NumRequeues of the rate limiter, event |-> number
  tried,     \* event |-> number of calls made for it, as far as two too many
  made,      \* the events the API server has
  closing    \* the queue is shut down

vars == <<change, queue, waiting, current, requeues, tried, made, closing>>
Nothing == <<>>
Events == UNION {{<<i, r>> : r \in Changes[i].refs} : i \in DOMAIN Changes}

Init ==
  /\ change = 1 /\ queue = <<>> /\ waiting = {} /\ current = Nothing
  /\ requeues = [e \in Events |-> 0] /\ tried = [e \in Events |-> 0]
  /\ made = {} /\ closing = FALSE

(* Add: a full queue takes nothing, one that is not takes all events of    *)
(* the change.  Nothing is taken after the shutdown.                       *)
Orders(S) == {s \in [1..Cardinality(S) -> S] : \A e \in S : \E i \in DOMAIN s : s[i] = e}
Taken(i) ==
  IF Len(queue) >= maxQueuedEvents \/ Changes[i].reason \notin emitEvents \/ closing THEN {}
  ELSE {<<i, r>> : r \in Changes[i].refs}
Add ==
  /\ change <= Len(Changes)
  /\ change' = change + 1
  /\ \E s \in Orders(Taken(change)) : queue' = queue \o s
  /\ UNCHANGED <<waiting, current, requeues, tried, made, closing>>

(* processNextWorkItem, as far as the call                                 *)
Get ==
  /\ current = Nothing /\ queue # <<>>
  /\ current' = Head(queue) /\ queue' = Tail(queue)
  /\ UNCHANGED <<change, waiting, requeues, tried, made, closing>>

(* Mutants of Retry: the count of tries is lost; one try is missing.       *)
RetryForgets ==
  /\ waiting' = IF closing THEN waiting ELSE waiting \union {current}
  /\ requeues' = [requeues EXCEPT ![current] = 0]
RetryOnceLess ==
  IF requeues[current] < maxRetriesPerEvent - 1
  THEN /\ waiting' = IF closing THEN waiting ELSE waiting \union {current}
       /\ requeues' = [requeues EXCEPT ![current] = @ + 1]
  ELSE /\ requeues' = [requeues EXCEPT ![current] = 0]
       /\ UNCHANGED waiting

(* AddRateLimited, which does nothing after the shutdown, or Forget        *)
Retry ==
  IF requeues[current] < maxRetriesPerEvent
  THEN /\ waiting' = IF closing THEN waiting ELSE waiting \union {current}
       /\ requeues' = [requeues EXCEPT ![current] = @ + 1]
  ELSE /\ requeues' = [requeues EXCEPT ![current] = 0]
       /\ UNCHANGED waiting

(* The answer: created, no namespace, or an error, with or without the     *)
(* event being created.                                                    *)
Answer ==
  /\ current # Nothing /\ current' = Nothing
  /\ tried' = [tried EXCEPT ![current] = IF @ < maxRetriesPerEvent + 2 THEN @ + 1 ELSE @]
  /\ IF current[2] \in Missing
     THEN requeues' = [requeues EXCEPT ![current] = 0] /\ UNCHANGED <<waiting, made>>
     ELSE \/ /\ current \notin made /\ ~closing
             /\ made' = made \union {current}
             /\ requeues' = [requeues EXCEPT ![current] = 0]
             /\ UNCHANGED waiting
          \/ /\ made' \in {made} \union IF closing THEN {} ELSE {made \union {current}}
             /\ Retry
  /\ UNCHANGED <<change, queue, closing>>

(* The delay of an event ends.                                             *)
Due ==
  /\ \E e \in waiting : waiting' = waiting \ {e} /\ queue' = Append(queue, e)
  /\ UNCHANGED <<change, current, requeues, tried, made, closing>>

(* ShutDownWithDrain, when the context is done: calls fail from now on,    *)
(* the worker empties the queue, what waits is given up.                   *)
ShutDown ==
  /\ ~closing /\ closing' = TRUE
  /\ waiting' = {}
  /\ UNCHANGED <<change, queue, current, requeues, tried, made>>

Next == Add \/ Get \/ Answer \/ Due \/ ShutDown

-----------------------------------------------------------------------------
Pending == waiting \union {queue[i] : i \in DOMAIN queue} \union ({current} \ {Nothing})

(* Every event comes to an end, even if the API server never answers.      *)
Ended == Pending = {}

(* An event that was taken and has been given up without being created has *)
(* been tried as often as is allowed, no more and no less.                 *)
GivenUpInTime ==
  \A e \in Events :
    /\ tried[e] <= maxRetriesPerEvent + 1
    /\ tried[e] > 0 /\ e \notin Pending \union made /\ ~closing /\ e[2] \notin Missing
         => tried[e] = maxRetriesPerEvent + 1
=============================================================================
