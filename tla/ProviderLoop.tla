---------------------------- MODULE ProviderLoop ----------------------------
(***************************************************************************)
(* One ExternalDNS process and the API of one DNS service, through any one *)
(* of the providers: a run reads the records, plans, and makes the calls   *)
(* of the provider one by one.  Every call may fail, or succeed with its   *)
(* answer lost; the process may crash between two calls; then the next run *)
(* starts from what is there.                                              *)
(*                                                                         *)
(* Records(p, zone) is the set of endpoints the provider returns and       *)
(* ApplyChanges(p, changes, zone) the stages of calls it makes, both from  *)
(* the module of the provider.  All records of managed types belong to     *)
(* this process; those of other types ("Foreign") do not.                  *)
(***************************************************************************)
EXTENDS ProviderCalls

CONSTANTS
  Providers,
  Records(_, _),          \* Provider.Records
  ApplyChanges(_, _, _),  \* Provider.ApplyChanges
  AdjustEndpoints(_, _),  \* Provider.AdjustEndpoints
  ManagedTypes,           \* --managed-record-types
  Wants,                  \* provider |-> the sets of endpoints its source may want
  Foreign,                \* provider |-> records that are not ours
  KeepsOldTargets,        \* the providers that may leave old targets behind
  OtherTTLs,              \* those that may leave TTLs other than the wanted ones
  Restless,               \* those whose plan then never becomes empty
  NotAtomic,              \* those that bare a name if a call fails in between
  DeletesFirst,           \* those that delete old records before creating new ones
  MaxFaults,              \* bound on failing calls, lost answers and crashes
  MaxWantChanges          \* bound on the changes of the source

ASSUME ProviderLoopAssumption == MaxFaults \in Nat /\ MaxWantChanges \in Nat

VARIABLES
  provider, \* the provider in use, the same all the time
  zone,     \* the records of the service
  want,     \* what the source wants now
  pc,       \* "idle", "plan", "run"
  view,     \* what Records returned
  asked,    \* what was wanted when the run was planned
  stages,   \* the jobs that are left, stage by stage
  phases,   \* what is left of the current job
  clean,    \* no call of this run has failed
  faults, wantChanges

vars == <<provider, zone, want, pc, view, asked, stages, phases, clean, faults, wantChanges>>

Init ==
  /\ provider \in Providers
  /\ zone = Foreign[provider]
  /\ want \in Wants[provider]
  /\ pc = "idle" /\ view = {} /\ asked = {} /\ stages = <<>> /\ phases = <<>> /\ clean = TRUE
  /\ faults = 0 /\ wantChanges = 0

Read ==
  /\ pc = "idle"
  /\ pc' = "plan"
  /\ view' = Records(provider, zone)
  /\ UNCHANGED <<provider, zone, want, asked, stages, phases, clean, faults, wantChanges>>

(* The plan for records that are all ours: those of managed types.  If     *)
(* there are several endpoints for a key the planner keeps the last one,   *)
(* whichever that is, except that it deletes all of a name nobody wants.   *)
Desired == AdjustEndpoints(provider, want)
NeedsUpdate(new, old) == new.tgts # old.tgts \/ (new.ttl > 0 /\ new.ttl # old.ttl)
Planned(all, current) ==
  LET old(e) == CHOOSE d \in current : KeyOf(d) = KeyOf(e)
      keys == {KeyOf(d) : d \in current}
      updates == {e \in Desired : KeyOf(e) \in keys /\ NeedsUpdate(e, old(e))}
  IN  [create    |-> {e \in Desired : KeyOf(e) \notin keys},
       updateOld |-> {old(e) : e \in updates},
       updateNew |-> updates,
       delete    |-> {d \in current : KeyOf(d) \notin {KeyOf(e) : e \in Desired}}
                    \union {d \in all : d.name \notin {e.name : e \in Desired}}]

(* The sets that hold one of the endpoints of V for each of their keys.    *)
OnePerKey(V) ==
  {S \in SUBSET V : /\ {KeyOf(e) : e \in S} = {KeyOf(e) : e \in V}
                    /\ \A d, e \in S : KeyOf(d) = KeyOf(e) => d = e}

NonEmpty(seq) == SelectSeq(seq, LAMBDA S : S # {})
Jobs(stage) == {NonEmpty(job) : job \in stage} \ {<<>>}

Plan ==
  /\ pc = "plan"
  /\ view' = {}
  /\ clean' = TRUE
  /\ pc' = "run"
  /\ LET all == {e \in view : e.type \in ManagedTypes}
     IN  \E current \in OnePerKey(all) :
           stages' = LET todo == ApplyChanges(provider, Planned(all, current), zone)
                     IN  NonEmpty([i \in DOMAIN todo |-> Jobs(todo[i])])
  /\ asked' = Desired
  /\ UNCHANGED <<provider, zone, want, phases, faults, wantChanges>>

(* When a job is done, any other of the stage is next, then the next stage.*)
NextJob ==
  /\ pc = "run" /\ phases = <<>>
  /\ \/ /\ stages # <<>>
        /\ \E job \in stages[1] :
             phases' = job /\ stages' = NonEmpty([stages EXCEPT ![1] = @ \ {job}])
        /\ UNCHANGED pc
     \/ /\ stages = <<>>
        /\ pc' = "idle"
        /\ UNCHANGED <<stages, phases>>
  /\ UNCHANGED <<provider, zone, want, view, asked, clean, faults, wantChanges>>

(* The zones a call may lead to: none if what it needs does not exist.     *)
Found(c) == IF c.find = {} THEN {{}} ELSE {{r} : r \in {x \in zone : KeyOf(x) \in c.find}}
Added(c) == IF c.ttls = {} THEN {c.add} ELSE {{[r EXCEPT !.ttl = t] : r \in c.add} : t \in c.ttls}
Effects(c) ==
  {({r \in zone : KeyOf(r) \notin c.clear} \ (c.del \union found)) \union add \union
     {[r EXCEPT !.tgt = e.tgt, !.ttl = IF e.ttl > 0 THEN e.ttl ELSE @] : <<r, e>> \in found \X c.edit}
     : found \in Found(c), add \in Added(c)}
Possible(c) == /\ c.must \subseteq zone
               /\ \A r \in zone \ c.del : KeyOf(r) \notin c.free
Outcomes(c) == IF Possible(c) THEN Effects(c) ELSE {}

Rest(c) == NonEmpty([phases EXCEPT ![1] = @ \ {c}])

CallSucceeds ==
  /\ phases # <<>>
  /\ \E c \in phases[1] : zone' \in Outcomes(c) /\ phases' = Rest(c)
  /\ UNCHANGED <<provider, want, pc, view, asked, stages, clean, faults, wantChanges>>

(* What is left of the job, and of the others, after a call has failed.    *)
RestAfter(c) ==
  IF c.onerr \in {"stop", "zone"} THEN <<>> ELSE NonEmpty(c.instead) \o Rest(c)
StagesAfter(c) == IF c.onerr = "stop" THEN <<>> ELSE stages

(* The call is impossible, or the API fails, with or without effect.       *)
CallFails ==
  /\ phases # <<>>
  /\ \E c \in phases[1] :
       /\ \/ Outcomes(c) = {} /\ UNCHANGED <<zone, faults>>
          \/ /\ faults < MaxFaults /\ faults' = faults + 1
             /\ zone' \in {zone} \union Outcomes(c)
       /\ phases' = RestAfter(c) /\ stages' = StagesAfter(c)
  /\ clean' = FALSE
  /\ UNCHANGED <<provider, want, pc, view, asked, wantChanges>>

Crash ==
  /\ pc # "idle" /\ faults < MaxFaults
  /\ faults' = faults + 1
  /\ pc' = "idle" /\ view' = {} /\ asked' = {}
  /\ stages' = <<>> /\ phases' = <<>>
  /\ UNCHANGED <<provider, zone, want, clean, wantChanges>>

WantChanges ==
  /\ wantChanges < MaxWantChanges
  /\ wantChanges' = wantChanges + 1
  /\ want' \in Wants[provider]
  /\ UNCHANGED <<provider, zone, pc, view, asked, stages, phases, clean, faults>>

Next == Read \/ Plan \/ NextJob \/ CallSucceeds \/ CallFails \/ Crash \/ WantChanges

(* The run loop goes on.  One of its steps is possible in every state, so  *)
(* that weak fairness amounts to this (and TLC need not compute ENABLED).  *)
Spec == Init /\ [][Next]_vars
             /\ []<><<Read \/ Plan \/ NextJob \/ CallSucceeds \/ CallFails>>_vars

-----------------------------------------------------------------------------
Managed == zone \ Foreign[provider]

(* Records of other types, at the same names and in the same zones, stay   *)
(* as they are, whatever is created, replaced or deleted beside them.      *)
NoCollateral == Foreign[provider] \subseteq zone

(* Whatever fails on the way, the service ends up with the wanted records  *)
(* and no others, and with the wanted TTLs where one is configured; except *)
(* that some providers leave old targets or other TTLs behind.             *)
AsWanted(e) ==
  /\ \A t \in e.tgts : \E r \in Matching(zone, e) :
       r.tgt = t /\ (e.ttl > 0 /\ provider \notin OtherTTLs => r.ttl = e.ttl)
  /\ provider \notin KeepsOldTargets => Targets(Matching(zone, e)) = e.tgts
Synchronised ==
  <>[](/\ {KeyOf(r) : r \in Managed} = {KeyOf(e) : e \in Hosted(Desired)}
       /\ \A e \in Hosted(Desired) : AsWanted(e))

(* The provider comes to rest: what it returns for what it has written is  *)
(* what was wanted, so that no further call is made, unless it leaves      *)
(* something behind that the plan finds again and again.                   *)
Quiet == <>[](provider \in Restless \/ phases = <<>>)

(* A name that the run is to keep or change never loses its last record,   *)
(* even if calls fail; with some providers as long as none has failed, and *)
(* with those that delete first not even then.                             *)
InService ==
  [][/\ pc = "run" /\ provider \notin DeletesFirst
     /\ provider \in NotAtomic => clean'
     => \A e \in asked :
       Matching(zone, e) # {} => {r \in zone' : KeyOf(r) = KeyOf(e)} # {}]_vars
=============================================================================
