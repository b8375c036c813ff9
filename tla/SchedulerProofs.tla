-------------------------- MODULE SchedulerProofs --------------------------
(***************************************************************************)
(* For every value of the intervals: the next run is never starved, no     *)
(* event is forgotten, and three consecutive runs are throttled.           *)
(***************************************************************************)
EXTENDS Scheduler, TLAPS

(* Between ShouldRunOnce and RunOnce's stamp, nextRunAt counts from the    *)
(* granted check and no longer from lastRunAt.                             *)
GrantInv ==
  /\ pc \in {"check", "stamp"} => lastRunAt =< checkedAt
  /\ pc = "stamp" =>
       nextRunAt =< latest(checkedAt + Interval,
                           lastRunAt + MinEventSyncInterval)

(* nextRunAt is far enough from the last run but one; in the window above  *)
(* it is already far enough from the last run.                             *)
SpacingInv ==
  /\ pc \notin {"boot", "stamp"} => nextRunAt >= prevRunAt + ShortestPause
  /\ pc = "stamp" => /\ nextRunAt >= lastRunAt + ShortestPause
                     /\ checkedAt >= prevRunAt + ShortestPause

(* The inductive invariant.                                                *)
IInv == TypeOK /\ NoStarvation /\ EventDeadline /\ GrantInv /\ SpacingInv

USE DEF Time, ZeroTime, Idle, earliest, latest, LongestPause, ShortestPause,
        loopVars

(* A fresh Controller satisfies the inductive invariant.                   *)
LEMMA InitIInv == Init => IInv
  BY IntervalsAssumption
  DEF Init, Fresh, IInv, TypeOK, NoStarvation, EventDeadline, GrantInv,
      SpacingInv, PCs

(* ScheduleRunOnce keeps every bound on nextRunAt, wherever the loop is.   *)
LEMMA ScheduleKeeps ==
  ASSUME IInv, NEW t \in Time, ScheduleRunOnce(t),
         UNCHANGED <<lastRunAt, prevRunAt, checkedAt>>
  PROVE  /\ nextRunAt' \in Time
         /\ nextRunAt' >= lastRunAt + MinEventSyncInterval
         /\ nextRunAt' =< latest(lastRunAt + MinEventSyncInterval,
                                 t + EventDelay)
         /\ nextRunAt' =< latest(lastRunAt + MinEventSyncInterval, nextRunAt)
  BY IntervalsAssumption DEF IInv, TypeOK, ScheduleRunOnce

(* Every step of the loop, of a callback and of the clock preserves it.    *)
LEMMA NextIInv == IInv /\ [Next]_vars => IInv'
  <1> SUFFICES ASSUME IInv, [Next]_vars PROVE IInv'
    OBVIOUS
  <1> USE IntervalsAssumption
  <1>1. CASE Tick
    BY <1>1 DEF Tick, Alive, IInv, TypeOK, NoStarvation, EventDeadline, GrantInv,
                SpacingInv, PCs
  <1>2. CASE Boot
    <2>1. now \in Time
      BY DEF IInv, TypeOK
    <2>2. /\ nextRunAt' \in Time
          /\ nextRunAt' >= lastRunAt + MinEventSyncInterval
          /\ nextRunAt' =< latest(lastRunAt + MinEventSyncInterval, nextRunAt)
      BY <1>2, <2>1, ScheduleKeeps DEF Boot
    <2> QED
      BY <1>2, <2>2
      DEF Boot, IInv, TypeOK, NoStarvation, EventDeadline, GrantInv, SpacingInv, PCs
  <1>3. CASE ReadClock
    BY <1>3 DEF ReadClock, IInv, TypeOK, NoStarvation, EventDeadline, GrantInv,
                SpacingInv, PCs
  <1>4. CASE ShouldRunOnce
    <2>1. CASE checkedAt < nextRunAt /\ UNCHANGED <<nextRunAt, unseen>>
      BY <1>4, <2>1 DEF ShouldRunOnce, IInv, TypeOK, NoStarvation, EventDeadline,
                        GrantInv, SpacingInv, PCs
    <2>2. CASE /\ checkedAt >= nextRunAt /\ pc' = "stamp"
               /\ nextRunAt' = checkedAt + Interval /\ unseen' = {}
      BY <1>4, <2>2 DEF ShouldRunOnce, IInv, TypeOK, NoStarvation, EventDeadline,
                        GrantInv, SpacingInv, PCs
    <2> QED
      BY <1>4, <2>1, <2>2 DEF ShouldRunOnce
  <1>5. CASE StampRun
    BY <1>5 DEF StampRun, IInv, TypeOK, NoStarvation, EventDeadline, GrantInv,
                SpacingInv, PCs
  <1>6. CASE RegistryRecords
    BY <1>6 DEF RegistryRecords, RunFails, IInv, TypeOK, NoStarvation,
                EventDeadline, GrantInv, SpacingInv, PCs
  <1>7. CASE SourceEndpoints
    BY <1>7 DEF SourceEndpoints, RunFails, IInv, TypeOK, NoStarvation,
                EventDeadline, GrantInv, SpacingInv, PCs
  <1>8. CASE AdjustPlanApply
    BY <1>8 DEF AdjustPlanApply, RunFails, IInv, TypeOK, NoStarvation,
                EventDeadline, GrantInv, SpacingInv, PCs
  <1>9. CASE TickerFires \/ ContextDone \/ Sigterm
    BY <1>9 DEF TickerFires, ContextDone, Sigterm, Alive, IInv, TypeOK,
                NoStarvation, EventDeadline, GrantInv, SpacingInv, PCs
  <1>10. CASE Restart
    BY <1>10 DEF Restart, Fresh, Alive, IInv, TypeOK, NoStarvation,
                 EventDeadline, GrantInv, SpacingInv, PCs
  <1>11. ASSUME NEW h \in Handlers, EventArrives(h) PROVE IInv'
    BY <1>11 DEF EventArrives, Alive, IInv, TypeOK, NoStarvation, EventDeadline,
                 GrantInv, SpacingInv, PCs
  <1>12. ASSUME NEW h \in Handlers, EventSchedules(h) PROVE IInv'
    <2>1. handler[h] \in Time
      BY <1>12 DEF EventSchedules, IInv, TypeOK
    <2>2. /\ nextRunAt' \in Time
          /\ nextRunAt' >= lastRunAt + MinEventSyncInterval
          /\ nextRunAt' =< latest(lastRunAt + MinEventSyncInterval,
                                  handler[h] + EventDelay)
          /\ nextRunAt' =< latest(lastRunAt + MinEventSyncInterval, nextRunAt)
      BY <1>12, <2>1, ScheduleKeeps DEF EventSchedules
    <2>3. TypeOK'
      BY <1>12, <2>1, <2>2 DEF EventSchedules, Alive, IInv, TypeOK, PCs
    <2>4. NoStarvation'
      BY <1>12, <2>2 DEF EventSchedules, IInv, TypeOK, NoStarvation
    <2>5. EventDeadline'
      BY <1>12, <2>1, <2>2 DEF EventSchedules, IInv, TypeOK, EventDeadline
    <2>6. GrantInv'
      BY <1>12, <2>2 DEF EventSchedules, IInv, TypeOK, GrantInv
    <2>7. SpacingInv'
      BY <1>12, <2>2 DEF EventSchedules, IInv, TypeOK, SpacingInv
    <2> QED
      BY <2>3, <2>4, <2>5, <2>6, <2>7 DEF IInv
  <1>13. CASE UNCHANGED vars
    BY <1>13 DEF vars, IInv, TypeOK, NoStarvation, EventDeadline, GrantInv,
                 SpacingInv, PCs
  <1> QED
    BY <1>1, <1>2, <1>3, <1>4, <1>5, <1>6, <1>7, <1>8, <1>9, <1>10, <1>11,
       <1>12, <1>13 DEF Next

(* The inductive invariant holds in every reachable state.                 *)
THEOREM SchedulerInvariant == Spec => []IInv
  BY InitIInv, NextIInv, PTL DEF Spec

(* The variables of the run loop keep their types (controller.go: the      *)
(* fields of Controller and the locals of Run).                            *)
THEOREM SchedulerTypeOK == Spec => []TypeOK
  BY SchedulerInvariant, PTL DEF IInv

(* ScheduleRunOnce cannot postpone the next run beyond the longer of the   *)
(* two intervals, for any number of callbacks and any intervals.           *)
THEOREM SchedulerNoStarvation == Spec => []NoStarvation
  BY SchedulerInvariant, PTL DEF IInv

(* Every event is due within 5 seconds, or within MinEventSyncInterval of  *)
(* the last run, until a run is granted or the source is read.             *)
THEOREM SchedulerEventDeadline == Spec => []EventDeadline
  BY SchedulerInvariant, PTL DEF IInv

(* RunOnce starts at most twice within the shorter of the two intervals.   *)
THEOREM SchedulerThreeRunSpacing == Spec => ThreeRunSpacing
  <1>1. IInv /\ [Next]_vars =>
          [StampRun => lastRunAt' - prevRunAt >= ShortestPause]_vars
    BY IntervalsAssumption DEF IInv, TypeOK, SpacingInv, StampRun
  <1> QED
    BY <1>1, SchedulerInvariant, PTL DEF Spec, ThreeRunSpacing
=============================================================================
