-------------------------------- MODULE Plan --------------------------------
(***************************************************************************)
(* The planner (plan/plan.go, plan/conflict.go, plan/policy.go): what      *)
(* Calculate does with a list of current and a list of desired endpoints.  *)
(*                                                                         *)
(* An endpoint is a record                                                 *)
(*   [name, sid, type, tgt, ttl, ps, owner, res]                           *)
(* with its DNS name as spelled, set identifier, record type, targets,     *)
(* TTL (0 when not configured), provider-specific properties, and the      *)
(* owner and resource labels ("" when absent).  A list of targets is its   *)
(* rank in the order of Targets.IsLess, so that equal targets have equal   *)
(* ranks.  Current endpoints come as a set, with at most one per row and   *)
(* record type; desired endpoints come as a sequence, because ties between *)
(* equal targets go to the earlier one.                                    *)
(***************************************************************************)
EXTENDS Integers, Sequences

CONSTANTS
  NormalizeDNSName(_),  \* internal/idna: one spelling for each name
  FilteredNames,        \* the names MatchAllDomainFilters accepts
  ManagedTypes          \* ManagedRecords minus ExcludeRecords

Policies == {"sync", "upsert-only", "create-only"}

(* endpoint.go: Endpoint                                                   *)
Endpoints ==
  [name : STRING, sid : STRING, type : STRING, tgt : Nat, ttl : Nat,
   ps : SUBSET STRING, owner : STRING, res : STRING]

(* endpoint.go: Key                                                        *)
Key(e) == <<e.name, e.sid, e.type>>

(* plan.go: newPlanKey                                                     *)
PlanKey(e) == <<NormalizeDNSName(e.name), e.sid>>

(* plan.go: filterRecordsForPlan, IsManagedRecord                          *)
InPlan(e) == e.name \in FilteredNames /\ e.type \in ManagedTypes

(* A mutant of FilterByOwner: the endpoints of all owners pass.            *)
AllOwners(id, S) == S

(* endpoint.go: IsOwnedBy, FilterEndpointsByOwnerID                        *)
IsOwnedBy(e, id) == e.owner = id
FilterByOwner(id, S) == {e \in S : IsOwnedBy(e, id)}

-----------------------------------------------------------------------------
(* conflict.go: PerResource.  The candidates of a row are the set of their *)
(* positions in the list of desired endpoints.                             *)

(* slices.MinFunc: the first of the candidates with the least targets.     *)
ResolveCreate(list, candidates) ==
  list[CHOOSE i \in candidates :
         \A j \in candidates : \/ list[i].tgt < list[j].tgt
                               \/ list[i].tgt = list[j].tgt /\ i =< j]

(* A mutant of ResolveUpdate: the holder has no privilege.                 *)
ResolveAnew(current, list, candidates) == ResolveCreate(list, candidates)

(* The resource that holds the name keeps it as long as it wants it.       *)
ResolveUpdate(current, list, candidates) ==
  LET mine == {i \in candidates : list[i].res = current.res}
  IN  ResolveCreate(list, IF mine # {} THEN mine ELSE candidates)

(* A mutant of ResolveRecordTypes: no rule for CNAMEs.                     *)
ResolveAllTypes(list, candidates, type) ==
  {i \in candidates : list[i].type = type}

(* The candidates of a row for one record type: those of type CNAME are    *)
(* dropped when another type is wanted too.                                *)
ResolveRecordTypes(list, candidates, type) ==
  {i \in candidates :
     /\ list[i].type = type
     /\ type = "CNAME" => \A j \in candidates : list[j].type = "CNAME"}

-----------------------------------------------------------------------------
(* The parameters of a Plan that differ between controllers: its OwnerID   *)
(* and OldOwnerID ("" when not set) and its policy.                        *)

(* plan.go: appendEndpointUpdates                                          *)
NeedsUpdate(p, update, current) ==
  \/ update.ttl > 0 /\ update.ttl # current.ttl
  \/ update.tgt # current.tgt
  \/ update.ps # current.ps
  \/ p.oldOwnerID # "" /\ current.owner # p.oldOwnerID

(* A mutant of InheritOwner: the owner is lost.                            *)
ForgetOwner(from, to) == to

(* plan.go: inheritOwner                                                   *)
InheritOwner(from, to) == [to EXCEPT !.owner = from.owner]

NoChanges == [create |-> {}, updateOld |-> {}, updateNew |-> {}, delete |-> {}]

(* plan.go: appendTakenDNSNameChanges.  New types may join a row only if   *)
(* this controller owns all that is there.                                 *)
OwnersMatch(p, current) ==
  p.ownerID # "" => \A c \in current : IsOwnedBy(c, p.ownerID)

(* A mutant of MissingTypes: types that are there count as missing.        *)
WantedTypes(current, list, candidates) == {list[i].type : i \in candidates}

(* The types a row wants and does not have.                                *)
MissingTypes(current, list, candidates) ==
  {list[i].type : i \in candidates} \ {c.type : c \in current}

(* plan.go: calculateChanges up to the policies.  A row is the current and *)
(* the desired endpoints of one plan key.  The three cases of the code     *)
(* (name free, name released, name taken) differ only in which of the      *)
(* parts below can be non-empty.                                           *)
RowChanges(p, current, list, candidates) ==
  LET wanted(type) == ResolveRecordTypes(list, candidates, type)
      update(c) == ResolveUpdate(c, list, wanted(c.type))
      updated == {c \in current :
                    wanted(c.type) # {} /\ NeedsUpdate(p, update(c), c)}
      created == {t \in MissingTypes(current, list, candidates) :
                    wanted(t) # {} /\ OwnersMatch(p, current)}
  IN  [create    |-> {ResolveCreate(list, wanted(t)) : t \in created},
       updateOld |-> updated,
       updateNew |-> {InheritOwner(c, update(c)) : c \in updated},
       delete    |-> {c \in current : wanted(c.type) = {}}]

(* A mutant of ApplyPolicy: upsert-only is taken for sync.                 *)
ApplyLaxPolicy(policy, ch) ==
  IF policy = "create-only" THEN [NoChanges EXCEPT !.create = ch.create] ELSE ch

(* policy.go                                                               *)
ApplyPolicy(policy, ch) ==
  CASE policy = "sync"        -> ch
    [] policy = "upsert-only" -> [ch EXCEPT !.delete = {}]
    [] policy = "create-only" -> [NoChanges EXCEPT !.create = ch.create]

(* A mutant of FilterChanges: changes to records of all owners stay.       *)
KeepChanges(id, ch) == ch

(* plan.go:229: updates and deletes of records of other owners are dropped.*)
FilterChanges(id, ch) ==
  IF id = "" THEN ch
  ELSE [ch EXCEPT !.updateOld = FilterByOwner(id, @),
                  !.updateNew = FilterByOwner(id, @),
                  !.delete    = FilterByOwner(id, @)]

(* plan.go: Calculate                                                      *)
Calculate(p, current, desired) ==
  LET cur == {e \in current : InPlan(e)}
      des == {i \in DOMAIN desired : InPlan(desired[i])}
      keys == {PlanKey(e) : e \in cur} \union {PlanKey(desired[i]) : i \in des}
      rows == {RowChanges(p, {e \in cur : PlanKey(e) = k}, desired,
                          {i \in des : PlanKey(desired[i]) = k}) : k \in keys}
      all == [create    |-> UNION {r.create    : r \in rows},
              updateOld |-> UNION {r.updateOld : r \in rows},
              updateNew |-> UNION {r.updateNew : r \in rows},
              delete    |-> UNION {r.delete    : r \in rows}]
  IN  FilterChanges(p.ownerID, ApplyPolicy(p.policy, all))

(* What the registries create is theirs (registry/txt/registry.go:345).    *)
Claimed(p, E) == {[e EXCEPT !.owner = p.ownerID] : e \in E}

(* plan.go: HasChanges                                                     *)
HasChanges(ch) ==
  ch.create # {} \/ ch.delete # {} \/ ch.updateNew # ch.updateOld
=============================================================================
