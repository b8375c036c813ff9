------------------------------ MODULE PlanLoop ------------------------------
(***************************************************************************)
(* The planner in a closed loop: the changes of a plan are carried out to  *)
(* the letter, and the next plan starts from their result.  This isolates  *)
(* what Calculate alone is responsible for; Reconcile.tla puts the TXT     *)
(* registry, its cache, a fallible provider and other controllers between  *)
(* two plans.                                                              *)
(***************************************************************************)
EXTENDS Plan

CONSTANTS
  Plans,         \* the parameters of a Plan to consider
  CurrentSets,   \* the sets of records a zone may hold at first
  DesiredLists   \* the lists a source may return

SameRow(d, e) == PlanKey(d) = PlanKey(e)

(* At most one record per row and type.                                    *)
OnePerType(S) == \A d, e \in S : SameRow(d, e) /\ d.type = e.type => d = e

(* The names of the records found and of the endpoints wanted.             *)
NamesInUse ==
  {e.name : e \in UNION CurrentSets}
    \union UNION {{s[i].name : i \in DOMAIN s} : s \in DesiredLists}

(* A zone has no two records of one row and type, and the domain filter    *)
(* looks at the normalised name (domain_filter.go: normalizeDomain), so    *)
(* that it takes all spellings of a name or none.                          *)
ASSUME PlanLoopAssumption ==
  /\ \A p \in Plans : p.policy \in Policies
  /\ DesiredLists \subseteq Seq(Endpoints)
  /\ \A S \in CurrentSets : OnePerType(S)
  /\ \A m, n \in NamesInUse :
       NormalizeDNSName(m) = NormalizeDNSName(n) /\ m \in FilteredNames
         => n \in FilteredNames

VARIABLES plan, current, desired, synced
vars == <<plan, current, desired, synced>>

(* External: a registry and a provider that do exactly what they are told, *)
(* the registry labelling what it creates with its owner id.               *)
CarryOut(ch) ==
  (current \ (ch.delete \union ch.updateOld))
    \union ch.updateNew
    \union {[e EXCEPT !.owner = plan.ownerID] : e \in ch.create}

Init ==
  /\ plan \in Plans
  /\ current \in CurrentSets
  /\ desired \in DesiredLists
  /\ synced = FALSE

(* controller.go:107-121                                                   *)
Sync ==
  /\ ~synced
  /\ current' = CarryOut(Calculate(plan, current, desired))
  /\ synced' = TRUE
  /\ UNCHANGED <<plan, desired>>

(* The source returns another list for the next run.                       *)
SourceChanges ==
  /\ synced
  /\ desired' \in DesiredLists
  /\ synced' = FALSE
  /\ UNCHANGED <<plan, current>>

Next == Sync \/ SourceChanges

Spec == Init /\ [][Next]_vars

-----------------------------------------------------------------------------
(* The records this plan may touch: managed, inside the domain filter, and *)
(* carrying its owner id when it has one.                                  *)
Ours(e) == InPlan(e) /\ (plan.ownerID = "" \/ IsOwnedBy(e, plan.ownerID))

(* At most one record per row and type: what the planTable takes for       *)
(* granted of its current records (a later one would hide an earlier one)  *)
(* is preserved by carrying out any plan.                                  *)
RowsUnique == OnePerType(current)

(* One run is enough: after carrying out a plan, planning again with the   *)
(* same desired endpoints changes nothing, whatever the policy, the        *)
(* conflicts between resources and the owners of the records found.        *)
Converged ==
  synced => ~HasChanges(Calculate(plan, current, desired))

(* A record of another owner, of an unmanaged type or outside the domain   *)
(* filter is neither changed nor deleted, and nothing is created beside a  *)
(* managed record of another owner on the same name.                       *)
OthersUntouched ==
  [][\A e \in current : ~Ours(e) =>
       /\ e \in current'
       /\ InPlan(e) => \A d \in current' \ current :
                         SameRow(d, e) => \E c \in current :
                                            SameRow(c, d) /\ c.type = d.type]_vars

(* RFC 1034 3.6.2 (conflict.go:58): under the sync policy a plan never     *)
(* leaves a CNAME beside another managed record of the same row, unless    *)
(* they were there before.                                                 *)
CnameAlone(S) ==
  \A d, e \in {c \in S : InPlan(c)} :
    SameRow(d, e) /\ d.type = "CNAME" => e.type = "CNAME"
CnameExclusive ==
  [][plan.policy = "sync" /\ CnameAlone(current) => CnameAlone(current')]_vars

(* No flapping between resources (conflict.go:44): a resource that holds a *)
(* name and still wants it, for the same type, keeps it, even if another   *)
(* resource wants it with lesser targets.  A CNAME can lose to an A.       *)
ResourceKeepsName ==
  [][\A e \in current :
       /\ Sync /\ Ours(e) /\ e.type # "CNAME"
       /\ \E i \in DOMAIN desired :
            /\ InPlan(desired[i]) /\ SameRow(desired[i], e)
            /\ desired[i].type = e.type /\ desired[i].res = e.res
       => \E c \in current' : SameRow(c, e) /\ c.type = e.type /\ c.res = e.res]_vars

(* What a policy forbids does not happen to any record (policy.go): with   *)
(* upsert-only no record disappears, with create-only none changes.        *)
PolicyRespected ==
  [][/\ plan.policy = "create-only" => current \subseteq current'
     /\ plan.policy = "upsert-only" =>
          \A e \in current : \E c \in current' : SameRow(c, e) /\ c.type = e.type]_vars
=============================================================================
