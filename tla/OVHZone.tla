------------------------------ MODULE OVHZone ------------------------------
(***************************************************************************)
(* A zone at OVH: its records are edited one by one through the API and    *)
(* published with a new serial by a refresh call, which the name servers   *)
(* follow later (provider/ovh/ovh.go: records, handleSingleZoneUpdate,     *)
(* refresh).  The provider caches the records it has read together with    *)
(* the serial of that time, and uses them as long as the name server       *)
(* answers with this serial.                                               *)
(***************************************************************************)
EXTENDS Integers, FiniteSets

CONSTANTS
  Names,      \* the records of the zone, each wanted or not
  MaxFaults,  \* bound on failed calls and crashes
  MaxEdits    \* bound on the changes of what is wanted

VARIABLES
  api,        \* the records as the API has them
  serial,     \* the serial of the zone as the API has it
  published,  \* the serial the name servers answer with
  cache,      \* the cached records, with a serial, or none
  want, pc,
  known,      \* lastRunRecords
  calls,      \* the records still to be created or deleted
  faults, edits

vars == <<api, published, serial, cache, want, pc, known, calls, faults, edits>>
NoCache == [serial |-> -1, records |-> {}]

Init ==
  /\ api = {} /\ published = 0 /\ serial = 0
  /\ cache = NoCache
  /\ want \in SUBSET Names
  /\ pc = "idle" /\ known = {} /\ calls = {}
  /\ faults = 0 /\ edits = 0

(* records: from the cache if the name server has the cached serial.       *)
Records ==
  /\ pc = "idle" /\ pc' = "apply"
  /\ IF cache.serial = published
     THEN known' = cache.records /\ UNCHANGED cache
     ELSE known' = api /\ cache' = [serial |-> serial, records |-> api]
  /\ UNCHANGED <<api, published, serial, want, calls, faults, edits>>

(* ApplyChanges: the difference to what was read.                          *)
Differs == (want \ known) \union (known \ want)
ApplyChanges ==
  /\ pc = "apply"
  /\ calls' = Differs
  /\ pc' = IF Differs = {} THEN "idle" ELSE "calls"
  /\ known' = {}
  /\ UNCHANGED <<api, published, serial, cache, want, faults, edits>>

Toggle(n) == IF n \in api THEN api \ {n} ELSE api \union {n}

(* change, in an errgroup                                                  *)
Change ==
  /\ pc = "calls"
  /\ \E n \in calls :
       /\ api' = Toggle(n)
       /\ calls' = calls \ {n}
       /\ pc' = IF calls' = {} THEN "refresh" ELSE "calls"
  /\ UNCHANGED <<published, serial, cache, want, known, faults, edits>>

(* One call fails, with or without effect: no refresh.                     *)
ChangeFails ==
  /\ pc = "calls" /\ faults < MaxFaults
  /\ \E n \in calls : api' \in {api, Toggle(n)}
  /\ calls' = {} /\ pc' = "idle"
  /\ cache' = NoCache
  /\ faults' = faults + 1
  /\ UNCHANGED <<published, serial, want, known, edits>>

(* A mutant of Refresh: the cache stays.                                   *)
RefreshKeepsCache ==
  /\ pc = "refresh" /\ pc' = "idle"
  /\ serial' = serial + 1
  /\ UNCHANGED <<api, published, cache, want, known, calls, faults, edits>>

(* refresh: the zone is to be published.                                   *)
Refresh ==
  /\ pc = "refresh" /\ pc' = "idle"
  /\ cache' = NoCache
  /\ serial' = serial + 1
  /\ UNCHANGED <<api, published, want, known, calls, faults, edits>>

RefreshFails ==
  /\ pc = "refresh" /\ pc' = "idle" /\ faults < MaxFaults
  /\ cache' = NoCache
  /\ serial' \in {serial, serial + 1}
  /\ faults' = faults + 1
  /\ UNCHANGED <<api, published, want, known, calls, edits>>

(* The name servers follow.                                                *)
Publish ==
  /\ published < serial
  /\ published' = serial
  /\ UNCHANGED <<api, serial, cache, want, pc, known, calls, faults, edits>>

Crash ==
  /\ pc # "idle" /\ faults < MaxFaults
  /\ faults' = faults + 1
  /\ pc' = "idle" /\ known' = {} /\ calls' = {} /\ cache' = NoCache
  /\ UNCHANGED <<api, published, serial, want, edits>>

SourceChanges ==
  /\ edits < MaxEdits
  /\ edits' = edits + 1
  /\ want' \in SUBSET Names
  /\ UNCHANGED <<api, published, serial, cache, pc, known, calls, faults>>

Next == \/ Records \/ ApplyChanges \/ Change \/ ChangeFails \/ Refresh \/ RefreshFails
        \/ Publish \/ Crash \/ SourceChanges

-----------------------------------------------------------------------------
(* The records a run works with are those the API has at that time, even   *)
(* if they come from the cache: a cache does not outlive a change that was *)
(* made and that the name servers do not answer with yet, or never will.   *)
KnownIsCurrent == pc = "apply" => known = api
=============================================================================
