----------------------------- MODULE Scheduler -----------------------------
(***************************************************************************)
(* The run loop of the controller (controller/controller.go: Run,          *)
(* RunOnce, ScheduleRunOnce, ShouldRunOnce) and the way Execute            *)
(* (controller/execute.go) starts it.                                      *)
(*                                                                         *)
(* Two kinds of goroutine share nextRunAt and lastRunAt under runAtMutex:  *)
(* the run loop, and the informer callbacks that call ScheduleRunOnce when *)
(* a Kubernetes object changes.  A step of the model is at most one        *)
(* critical section.  time.Now() is read BEFORE ScheduleRunOnce and        *)
(* ShouldRunOnce take the lock, so the value they use can be old, and it   *)
(* is read INSIDE the critical section of RunOnce.                         *)
(*                                                                         *)
(* Time is counted in seconds, the period of the loop's ticker.            *)
(***************************************************************************)
EXTENDS Integers

CONSTANTS
  Handlers,              \* goroutines that may be inside an informer callback
  Interval,              \* Controller.Interval
  MinEventSyncInterval,  \* Controller.MinEventSyncInterval
  EventDelay,            \* the 5 seconds of ScheduleRunOnce
  StartTime,             \* the time at which the first process starts
  MaxTime                \* bound: the clock stops here

(* Go's zero time.Time, year 1, is further in the past than any interval.  *)
ZeroTime == 0

ASSUME IntervalsAssumption ==
  /\ Interval \in Nat /\ MinEventSyncInterval \in Nat /\ EventDelay \in Nat
  /\ StartTime \in Nat /\ MaxTime \in Nat
  /\ MinEventSyncInterval =< StartTime /\ StartTime =< MaxTime

Time == Nat

(* A callback that is not running; any other value of a callback is the    *)
(* time.Now() it has read.                                                 *)
Idle == -1

VARIABLES
  now,             \* the wall clock
  tick,            \* the ticker's channel (capacity 1) holds a tick
  cancelled,       \* the context is done: SIGTERM has been received
  handler,         \* handler[h]: Idle, or the time callback h has read
  pc,              \* where the run loop is
  checkedAt,       \* time.Now() as passed to ShouldRunOnce
  nextRunAt,
  lastRunAt,
  prevRunAt,       \* lastRunAt before its last assignment (history variable)
  unseen           \* times passed to ScheduleRunOnce since a run was last
                   \* granted or the source last read (history variable)

loopVars == <<pc, checkedAt, lastRunAt, prevRunAt>>
vars == <<now, tick, cancelled, handler, nextRunAt, unseen, loopVars>>

-----------------------------------------------------------------------------
earliest(s, t) == IF t < s THEN t ELSE s
latest(s, t)   == IF t > s THEN t ELSE s

(* Mutants of ScheduleRunOnce: it debounces, forgetting the run that was   *)
(* due; it ignores the event; it does not throttle.                        *)
ScheduleDebounced(t) ==
  nextRunAt' = latest(lastRunAt + MinEventSyncInterval, t + EventDelay)
ScheduleIgnored(t) ==
  nextRunAt' = latest(lastRunAt + MinEventSyncInterval, nextRunAt)
ScheduleUnthrottled(t) ==
  nextRunAt' = earliest(t + EventDelay, nextRunAt)

(* controller.go:158.  What a callback or Execute leaves in nextRunAt.     *)
ScheduleRunOnce(t) ==
  nextRunAt' = latest(lastRunAt + MinEventSyncInterval,
                      earliest(t + EventDelay, nextRunAt))

(* The state of a freshly started process: the zero Controller.            *)
Fresh ==
  [tick |-> FALSE, cancelled |-> FALSE, handler |-> [h \in Handlers |-> Idle],
   pc |-> "boot", checkedAt |-> ZeroTime, nextRunAt |-> ZeroTime,
   lastRunAt |-> ZeroTime, prevRunAt |-> ZeroTime, unseen |-> {}]

Init ==
  /\ now = StartTime
  /\ tick = Fresh.tick /\ cancelled = Fresh.cancelled /\ handler = Fresh.handler
  /\ pc = Fresh.pc /\ checkedAt = Fresh.checkedAt
  /\ nextRunAt = Fresh.nextRunAt /\ lastRunAt = Fresh.lastRunAt
  /\ prevRunAt = Fresh.prevRunAt /\ unseen = Fresh.unseen

Alive == pc \notin {"stopped", "exited"}

(* The clock, and the ticker Run creates once Execute has reached it: the  *)
(* channel keeps one tick, later ones are dropped.                         *)
Tick ==
  /\ now < MaxTime
  /\ now' = now + 1
  /\ tick' = (Alive /\ pc # "boot")
  /\ UNCHANGED <<cancelled, handler, nextRunAt, unseen, loopVars>>

(* execute.go:141.  Execute asks for a first run and enters Run.           *)
Boot ==
  /\ pc = "boot"
  /\ ScheduleRunOnce(now)
  /\ pc' = "loop"
  /\ UNCHANGED <<now, tick, cancelled, handler, unseen, checkedAt, lastRunAt,
                 prevRunAt>>

(* execute.go:138.  An object changes; its informer invokes the callback,  *)
(* which reads the clock ...                                               *)
EventArrives(h) ==
  /\ Alive
  /\ handler[h] = Idle
  /\ handler' = [handler EXCEPT ![h] = now]
  /\ UNCHANGED <<now, tick, cancelled, nextRunAt, unseen, loopVars>>

(* ... and then waits for the lock.                                        *)
EventSchedules(h) ==
  /\ Alive
  /\ handler[h] # Idle
  /\ ScheduleRunOnce(handler[h])
  /\ unseen' = unseen \union {handler[h]}
  /\ handler' = [handler EXCEPT ![h] = Idle]
  /\ UNCHANGED <<now, tick, cancelled, loopVars>>

(* controller.go:186.  The argument of ShouldRunOnce.                      *)
ReadClock ==
  /\ pc = "loop"
  /\ checkedAt' = now
  /\ pc' = "check"
  /\ UNCHANGED <<now, tick, cancelled, handler, nextRunAt, unseen, lastRunAt,
                 prevRunAt>>

(* controller.go:170.                                                      *)
ShouldRunOnce ==
  /\ pc = "check"
  /\ \/ /\ checkedAt < nextRunAt
        /\ pc' = "select"
        /\ UNCHANGED <<nextRunAt, unseen>>
     \/ /\ checkedAt >= nextRunAt
        /\ nextRunAt' = checkedAt + Interval
        /\ unseen' = {}
        /\ pc' = "stamp"
  /\ UNCHANGED <<now, tick, cancelled, handler, checkedAt, lastRunAt, prevRunAt>>

(* controller.go:72.  RunOnce notes when it began.                         *)
StampRun ==
  /\ pc = "stamp"
  /\ lastRunAt' = now
  /\ prevRunAt' = lastRunAt
  /\ pc' = "records"
  /\ UNCHANGED <<now, tick, cancelled, handler, nextRunAt, unseen, checkedAt>>

(* controller.go:187.  RunOnce returns an error: after a SoftError the loop *)
(* goes on (the count of them only feeds a gauge and the log), any other   *)
(* error makes Run return and Execute calls log.Fatal.                     *)
RunFails == pc' \in {"select", "exited"}

(* controller.go:76.                                                       *)
RegistryRecords ==
  /\ pc = "records"
  /\ \/ pc' = "source"
     \/ RunFails
  /\ UNCHANGED <<now, tick, cancelled, handler, nextRunAt, unseen, checkedAt,
                 lastRunAt, prevRunAt>>

(* controller.go:89.  Reading the source takes in every change made so far.*)
SourceEndpoints ==
  /\ pc = "source"
  /\ \/ /\ pc' = "apply"
        /\ unseen' = {}
     \/ RunFails /\ UNCHANGED unseen
  /\ UNCHANGED <<now, tick, cancelled, handler, nextRunAt, checkedAt, lastRunAt,
                 prevRunAt>>

(* controller.go:101-136 and 195-201.  Adjust, plan and apply.             *)
AdjustPlanApply ==
  /\ pc = "apply"
  /\ \/ pc' = "select"
     \/ RunFails
  /\ UNCHANGED <<now, tick, cancelled, handler, nextRunAt, unseen, checkedAt,
                 lastRunAt, prevRunAt>>

(* controller.go:203.  Both cases of the select may be ready.              *)
TickerFires ==
  /\ pc = "select"
  /\ tick
  /\ tick' = FALSE
  /\ pc' = "loop"
  /\ UNCHANGED <<now, cancelled, handler, nextRunAt, unseen, checkedAt,
                 lastRunAt, prevRunAt>>

ContextDone ==
  /\ pc = "select"
  /\ cancelled
  /\ pc' = "stopped"
  /\ UNCHANGED <<now, tick, cancelled, handler, nextRunAt, unseen, checkedAt,
                 lastRunAt, prevRunAt>>

(* execute.go:209.  SIGTERM cancels the context at any time.               *)
Sigterm ==
  /\ Alive
  /\ ~cancelled
  /\ cancelled' = TRUE
  /\ UNCHANGED <<now, tick, handler, nextRunAt, unseen, loopVars>>

(* The kubelet restarts a container that has ended.                        *)
Restart ==
  /\ ~Alive
  /\ tick' = Fresh.tick /\ cancelled' = Fresh.cancelled
  /\ handler' = Fresh.handler
  /\ pc' = Fresh.pc /\ checkedAt' = Fresh.checkedAt
  /\ nextRunAt' = Fresh.nextRunAt /\ lastRunAt' = Fresh.lastRunAt
  /\ prevRunAt' = Fresh.prevRunAt /\ unseen' = Fresh.unseen
  /\ UNCHANGED now

Next ==
  \/ Tick \/ Boot \/ ReadClock \/ ShouldRunOnce \/ StampRun
  \/ RegistryRecords \/ SourceEndpoints \/ AdjustPlanApply
  \/ TickerFires \/ ContextDone \/ Sigterm \/ Restart
  \/ \E h \in Handlers : EventArrives(h) \/ EventSchedules(h)

Spec == Init /\ [][Next]_vars

-----------------------------------------------------------------------------
PCs == {"boot", "loop", "check", "stamp", "records", "source", "apply",
        "select", "stopped", "exited"}

(* Every variable stays in its range; the times of the past are past.      *)
TypeOK ==
  /\ now \in Time /\ StartTime =< now
  /\ tick \in BOOLEAN /\ cancelled \in BOOLEAN
  /\ handler \in [Handlers -> Time \union {Idle}]
  /\ pc \in PCs
  /\ checkedAt \in Time /\ checkedAt =< now
  /\ nextRunAt \in Time
  /\ lastRunAt \in Time /\ lastRunAt =< now
  /\ prevRunAt \in Time /\ prevRunAt =< lastRunAt
  /\ unseen \subseteq Time

(* The longest time between the start of a run and the next.               *)
LongestPause == latest(Interval, MinEventSyncInterval)

(* The throttle ScheduleRunOnce and ShouldRunOnce put between two runs.     *)
ShortestPause == earliest(Interval, MinEventSyncInterval)

(* No amount of events postpones a run: while the loop is not between      *)
(* ShouldRunOnce and RunOnce's stamp, the next run is due at most          *)
(* max(Interval, MinEventSyncInterval) after the start of the last one,    *)
(* whatever ScheduleRunOnce calls arrived since and however the last run   *)
(* ended.                                                                  *)
NoStarvation ==
  pc # "stamp" => nextRunAt =< lastRunAt + LongestPause

(* An event is never lost to the scheduler: as long as no run that may see *)
(* it has been granted, the next run is due no later than 5 seconds after  *)
(* the event, or MinEventSyncInterval after the last run if that is later. *)
(* The time by which an event is due only depends on the event itself,     *)
(* never on the later ones that were batched with it.                      *)
EventDeadline ==
  \A t \in unseen :
    nextRunAt =< latest(lastRunAt + MinEventSyncInterval, t + EventDelay)

(* Throttling: of any three consecutive runs, the third starts at least    *)
(* min(Interval, MinEventSyncInterval) after the first.                    *)
ThreeRunSpacing ==
  [][StampRun => lastRunAt' - prevRunAt >= ShortestPause]_vars

(* "ScheduleRunOnce makes sure execution happens at most once per          *)
(* interval" (controller.go:157), the interval being MinEventSyncInterval: *)
(* two consecutive runs of a process are that far apart, unless Interval   *)
(* is shorter.  A callback that gets the lock between ShouldRunOnce and    *)
(* RunOnce's stamp counts from the run before the one just granted.        *)
MinEventSpacing ==
  [][StampRun /\ lastRunAt # ZeroTime =>
       lastRunAt' - lastRunAt >= ShortestPause]_vars
=============================================================================
