--------------------------- MODULE PlanLoopProofs ---------------------------
(***************************************************************************)
(* The properties of PlanLoop.tla for any plan parameters, any records     *)
(* found and any lists wanted.  Each follows from what one Sync makes of   *)
(* the records: it keeps some, replaces some in their row and type, and    *)
(* adds types that were missing from a row.                                *)
(***************************************************************************)
EXTENDS PlanLoop, PlanProofs

(* The values the variables take.                                          *)
PlanTypes ==
  /\ plan \in Plans /\ desired \in DesiredLists
  /\ \A e \in current : e.name \in NamesInUse

(* What replaces a record, and what becomes of a missing type.             *)
Updated(c) == InheritOwner(c, UpdateFor(desired, c))
Created(k, t) ==
  [ResolveCreate(desired, WantedFor(desired, k, t)) EXCEPT !.owner = plan.ownerID]

Kept(x) ==
  /\ x \in current
  /\ x \notin PlanUpdates(plan, current, desired)
  /\ x \notin PlanDeletes(plan, current, desired)
IsUpdated(x) == \E c \in PlanUpdates(plan, current, desired) : x = Updated(c)
IsCreated(x) == \E k, t : Creates(plan, current, desired, k, t) /\ x = Created(k, t)

(* The parameters are what the lemmas on plans ask for.                    *)
LEMMA PlanArguments ==
  ASSUME PlanTypes
  PROVE  plan.policy \in Policies /\ desired \in Lists
  BY PlanLoopAssumption DEF PlanTypes, Lists

(* The records after a Sync.                                               *)
LEMMA SyncParts ==
  ASSUME PlanTypes, Sync
  PROVE  \A x : x \in current' <=> Kept(x) \/ IsUpdated(x) \/ IsCreated(x)
  <1> DEFINE ch == Calculate(plan, current, desired)
  <1>1. current' = (current \ (ch.delete \union ch.updateOld)) \union ch.updateNew
                     \union {[e EXCEPT !.owner = plan.ownerID] : e \in ch.create}
    BY DEF Sync, CarryOut
  <1>2. /\ ch.updateOld = PlanUpdates(plan, current, desired)
        /\ ch.updateNew = {InheritOwner(c, UpdateFor(desired, c)) :
                             c \in PlanUpdates(plan, current, desired)}
        /\ ch.delete = PlanDeletes(plan, current, desired)
        /\ \A x : x \in ch.create <=>
                    \E k, t : /\ Creates(plan, current, desired, k, t)
                              /\ x = ResolveCreate(desired, WantedFor(desired, k, t))
    BY PlanArguments, CalculateParts
  <1> HIDE DEF ch
  <1> TAKE x
  <1>3. Kept(x) <=> x \in current \ (ch.delete \union ch.updateOld)
    BY <1>2 DEF Kept
  <1>4. IsUpdated(x) <=> x \in ch.updateNew
    BY <1>2 DEF IsUpdated, Updated
  <1>5. IsCreated(x) <=> \E e \in ch.create : x = [e EXCEPT !.owner = plan.ownerID]
    BY <1>2 DEF IsCreated, Created
  <1> QED
    BY <1>1, <1>3, <1>4, <1>5

(* A replaced record stays in its row and type, and inside the filter.     *)
LEMMA UpdatedFits ==
  ASSUME PlanTypes, NEW c \in PlanUpdates(plan, current, desired)
  PROVE  /\ c \in current /\ InPlan(c) /\ Ours(c)
         /\ WantedFor(desired, PlanKey(c), c.type) # {}
         /\ InPlan(Updated(c)) /\ PlanKey(Updated(c)) = PlanKey(c)
         /\ Updated(c).type = c.type /\ Updated(c).owner = c.owner
         /\ Updated(c).res = UpdateFor(desired, c).res
         /\ \E i \in DOMAIN desired : Updated(c).name = desired[i].name
  <1>1. /\ c \in current /\ InPlan(c) /\ Mine(plan, c)
        /\ WantedFor(desired, PlanKey(c), c.type) # {}
    BY DEF PlanUpdates, Stale
  <1>2. Ours(c)
    BY <1>1 DEF Ours, Mine
  <1> QED
    BY <1>1, <1>2, PlanArguments, UpdateKeepsRow DEF Updated

(* A created record is in the row and of the type that missed it.          *)
LEMMA CreatedFits ==
  ASSUME PlanTypes, NEW k, NEW t, Creates(plan, current, desired, k, t)
  PROVE  /\ InPlan(Created(k, t)) /\ PlanKey(Created(k, t)) = k
         /\ Created(k, t).type = t /\ Created(k, t).owner = plan.ownerID
         /\ Created(k, t).res = ResolveCreate(desired, WantedFor(desired, k, t)).res
         /\ WantedFor(desired, k, t) # {}
         /\ \E i \in DOMAIN desired : Created(k, t).name = desired[i].name
  <1> DEFINE x == ResolveCreate(desired, WantedFor(desired, k, t))
  <1>1. WantedFor(desired, k, t) # {}
    BY DEF Creates
  <1>2. /\ x \in Endpoints /\ \E i \in DOMAIN desired : x = desired[i]
        /\ InPlan(x) /\ PlanKey(x) = k /\ x.type = t
    BY <1>1, PlanArguments, CreateFits
  <1> HIDE DEF x
  <1>3. /\ [x EXCEPT !.owner = plan.ownerID].name = x.name
        /\ [x EXCEPT !.owner = plan.ownerID].sid = x.sid
        /\ [x EXCEPT !.owner = plan.ownerID].type = x.type
        /\ [x EXCEPT !.owner = plan.ownerID].res = x.res
        /\ [x EXCEPT !.owner = plan.ownerID].owner = plan.ownerID
    BY <1>2 DEF Endpoints
  <1>4. /\ InPlan([x EXCEPT !.owner = plan.ownerID])
        /\ PlanKey([x EXCEPT !.owner = plan.ownerID]) = k
    BY <1>2, <1>3 DEF InPlan, PlanKey
  <1> QED
    BY <1>1, <1>2, <1>3, <1>4 DEF Created, x

-----------------------------------------------------------------------------
LEMMA TypesInit == Init => PlanTypes
  BY DEF Init, PlanTypes, NamesInUse

LEMMA TypesStep ==
  ASSUME PlanTypes, [Next]_vars
  PROVE  PlanTypes'
  <1>1. CASE UNCHANGED vars
    BY <1>1 DEF vars, PlanTypes
  <1>2. CASE SourceChanges
    BY <1>2 DEF SourceChanges, PlanTypes
  <1>3. CASE Sync
    <2>1. plan' \in Plans /\ desired' \in DesiredLists
      BY <1>3 DEF Sync, PlanTypes
    <2>2. \A i \in DOMAIN desired : desired[i].name \in NamesInUse
      BY DEF PlanTypes, NamesInUse
    <2>3. ASSUME NEW x \in current'
          PROVE  x.name \in NamesInUse
      <3>1. Kept(x) \/ IsUpdated(x) \/ IsCreated(x)
        BY <1>3, SyncParts
      <3>2. CASE Kept(x)
        BY <3>2 DEF Kept, PlanTypes
      <3>3. CASE IsUpdated(x)
        BY <2>2, <3>3, UpdatedFits DEF IsUpdated
      <3>4. CASE IsCreated(x)
        BY <2>2, <3>4, CreatedFits DEF IsCreated
      <3> QED
        BY <3>1, <3>2, <3>3, <3>4
    <2> QED
      BY <2>1, <2>3 DEF PlanTypes
  <1> QED
    BY <1>1, <1>2, <1>3 DEF Next

-----------------------------------------------------------------------------
(* One record per row and type.                                            *)
LEMMA UniqueStep ==
  ASSUME PlanTypes, RowsUnique, [Next]_vars
  PROVE  RowsUnique'
  <1>1. CASE current' = current
    BY <1>1 DEF RowsUnique, OnePerType, SameRow
  <1>2. CASE Sync
    <2> SUFFICES ASSUME NEW d \in current', NEW e \in current',
                        PlanKey(d) = PlanKey(e), d.type = e.type
                 PROVE  d = e
      BY DEF RowsUnique, OnePerType, SameRow
    <2>1. /\ Kept(d) \/ IsUpdated(d) \/ IsCreated(d)
          /\ Kept(e) \/ IsUpdated(e) \/ IsCreated(e)
      BY <1>2, SyncParts
    <2>2. \A x, y \in current : PlanKey(x) = PlanKey(y) /\ x.type = y.type => x = y
      BY DEF RowsUnique, OnePerType, SameRow
    (* The row of a created record has no record of its type.              *)
    <2>3. ASSUME NEW k, NEW t, Creates(plan, current, desired, k, t), NEW c \in current,
                 PlanKey(c) = k
          PROVE  c.type # t
      <3>1. PICK i \in DOMAIN desired : InPlan(desired[i]) /\ PlanKey(desired[i]) = k
                                         /\ desired[i].type = t
        BY <2>3 DEF Creates, Candidates
      <3>2. CASE c.type = t
        <4>1. desired[i].name \in NamesInUse /\ c.name \in NamesInUse
          BY DEF PlanTypes, NamesInUse
        <4>2. NormalizeDNSName(c.name) = NormalizeDNSName(desired[i].name)
          BY <2>3, <3>1 DEF PlanKey
        <4>3. InPlan(c)
          BY <3>1, <3>2, <4>1, <4>2, PlanLoopAssumption DEF InPlan
        <4> QED
          BY <2>3, <4>3 DEF Creates, RowOf
      <3> QED
        BY <3>2
    <2>4. ASSUME NEW x, NEW y, Kept(x), IsUpdated(y), PlanKey(x) = PlanKey(y), x.type = y.type
          PROVE  FALSE
      BY <2>2, <2>4, UpdatedFits DEF Kept, IsUpdated
    <2>5. ASSUME NEW x, NEW y, IsCreated(y), PlanKey(x) = PlanKey(y), x.type = y.type,
                 Kept(x) \/ IsUpdated(x)
          PROVE  FALSE
      <3>1. PICK k, t : Creates(plan, current, desired, k, t) /\ y = Created(k, t)
        BY <2>5 DEF IsCreated
      <3>2. PlanKey(x) = k /\ x.type = t
        BY <2>5, <3>1, CreatedFits
      <3>3. PICK c \in current : PlanKey(c) = k /\ c.type = t
        BY <2>5, <3>2, UpdatedFits DEF Kept, IsUpdated
      <3> QED
        BY <2>3, <3>1, <3>3
    <2>6. CASE Kept(d) /\ Kept(e)
      BY <2>2, <2>6 DEF Kept
    <2>7. CASE IsUpdated(d) /\ IsUpdated(e)
      BY <2>2, <2>7, UpdatedFits DEF IsUpdated
    <2>8. CASE IsCreated(d) /\ IsCreated(e)
      BY <2>8, CreatedFits DEF IsCreated
    <2> QED
      BY <2>1, <2>4, <2>5, <2>6, <2>7, <2>8
  <1> QED
    BY <1>1, <1>2 DEF Next, SourceChanges, vars

(* What the planTable takes for granted of its current records, at most    *)
(* one per row and type, is preserved by carrying out any plan.            *)
THEOREM PlanLoopRowsUnique == Spec => []RowsUnique
  <1>1. Init => PlanTypes /\ RowsUnique
    BY TypesInit, PlanLoopAssumption DEF Init, RowsUnique
  <1>2. PlanTypes /\ RowsUnique /\ [Next]_vars => (PlanTypes /\ RowsUnique)'
    BY TypesStep, UniqueStep
  <1> QED
    BY <1>1, <1>2, PTL DEF Spec

-----------------------------------------------------------------------------
(* One Sync is enough.                                                     *)

(* A record that a Sync has written is what the next plan would write.     *)
LEMMA WrittenStable ==
  ASSUME PlanTypes, NEW x, IsUpdated(x) \/ IsCreated(x)
  PROVE  InheritOwner(x, UpdateFor(desired, x)) = x
  <1>1. desired \in Lists
    BY PlanArguments
  <1>2. ASSUME NEW u \in Endpoints, NEW o, x = [u EXCEPT !.owner = o],
               UpdateFor(desired, x) = u
        PROVE  InheritOwner(x, UpdateFor(desired, x)) = x
    BY <1>2 DEF InheritOwner, Endpoints
  <1>3. CASE IsUpdated(x)
    <2>1. PICK c \in PlanUpdates(plan, current, desired) : x = Updated(c)
      BY <1>3 DEF IsUpdated
    <2> DEFINE W == WantedFor(desired, PlanKey(c), c.type)
               u == UpdateFor(desired, c)
    <2>2. /\ PlanKey(x) = PlanKey(c) /\ x.type = c.type /\ x.res = u.res /\ W # {}
      BY <2>1, UpdatedFits
    <2>3. u = ResolveUpdate(c, desired, W)
      BY DEF UpdateFor
    <2>4. UpdateFor(desired, x) = ResolveUpdate(x, desired, W)
      BY <2>2 DEF UpdateFor
    <2>5. W \in SUBSET DOMAIN desired
      BY WantedSubset
    <2>6. u \in Endpoints /\ x = [u EXCEPT !.owner = c.owner]
      BY <1>1, <2>1, <2>2, UpdateKeepsRow DEF Updated, InheritOwner
    <2> HIDE DEF W, u
    <2>7. ResolveUpdate(x, desired, W) = ResolveUpdate(c, desired, W)
      BY <1>1, <2>2, <2>3, <2>5, UpdateStable
    <2> QED
      BY <1>2, <2>3, <2>4, <2>6, <2>7
  <1>4. CASE IsCreated(x)
    <2>1. PICK k, t : Creates(plan, current, desired, k, t) /\ x = Created(k, t)
      BY <1>4 DEF IsCreated
    <2> DEFINE W == WantedFor(desired, k, t)
               u == ResolveCreate(desired, W)
    <2>2. PlanKey(x) = k /\ x.type = t /\ x.res = u.res /\ W # {}
      BY <2>1, CreatedFits
    <2>3. UpdateFor(desired, x) = ResolveUpdate(x, desired, W)
      BY <2>2 DEF UpdateFor
    <2>4. W \in SUBSET DOMAIN desired
      BY WantedSubset
    <2>5. u \in Endpoints /\ x = [u EXCEPT !.owner = plan.ownerID]
      BY <1>1, <2>1, <2>2, CreateFits DEF Created
    <2> HIDE DEF W
    <2>6. ResolveUpdate(x, desired, W) = u
      BY <1>1, <2>2, <2>4, CreateStable
    <2> HIDE DEF u
    <2> QED
      BY <1>2, <2>3, <2>5, <2>6
  <1> QED
    BY <1>3, <1>4

(* A type that is wanted is there after a Sync, or a record of another     *)
(* owner keeps it away.                                                    *)
LEMMA NothingMissing ==
  ASSUME PlanTypes, Sync, NEW k, NEW t
  PROVE  ~Creates(plan, current', desired, k, t)
  <1> SUFFICES ASSUME Creates(plan, current', desired, k, t) PROVE FALSE
    OBVIOUS
  <1>1. /\ \E i \in Candidates(desired, k) : desired[i].type = t
        /\ \A c \in current' : InPlan(c) /\ PlanKey(c) = k => c.type # t
        /\ WantedFor(desired, k, t) # {}
        /\ OwnersMatch(plan, RowOf(current', k))
    BY DEF Creates, RowOf
  <1>2. \A x : Kept(x) \/ IsUpdated(x) \/ IsCreated(x) => x \in current'
    BY SyncParts
  <1>3. ASSUME NEW c \in current, InPlan(c), PlanKey(c) = k
        PROVE  c.type # t
    <2> SUFFICES ASSUME c.type = t PROVE FALSE
      OBVIOUS
    <2>1. c \notin PlanDeletes(plan, current, desired)
      BY <1>1, <1>3 DEF PlanDeletes
    <2>2. CASE c \in PlanUpdates(plan, current, desired)
      BY <1>1, <1>2, <1>3, <2>2, UpdatedFits DEF IsUpdated
    <2>3. CASE c \notin PlanUpdates(plan, current, desired)
      BY <1>1, <1>2, <1>3, <2>1, <2>3 DEF Kept
    <2> QED
      BY <2>2, <2>3
  <1>4. CASE OwnersMatch(plan, RowOf(current, k))
    <2>1. Creates(plan, current, desired, k, t)
      BY <1>1, <1>3, <1>4 DEF Creates, RowOf
    <2> QED
      BY <1>1, <1>2, <2>1, CreatedFits DEF IsCreated
  <1>5. CASE ~OwnersMatch(plan, RowOf(current, k))
    <2>1. PICK c \in RowOf(current, k) : plan.ownerID # "" /\ ~IsOwnedBy(c, plan.ownerID)
      BY <1>5 DEF OwnersMatch
    <2>2. c \in current /\ InPlan(c) /\ PlanKey(c) = k /\ ~Mine(plan, c)
      BY <2>1 DEF RowOf, Mine
    <2>3. c \in RowOf(current', k)
      BY <1>2, <2>2 DEF Kept, PlanUpdates, PlanDeletes, RowOf
    <2> QED
      BY <1>1, <2>1, <2>3 DEF OwnersMatch
  <1> QED
    BY <1>4, <1>5

LEMMA ConvergedStep ==
  ASSUME PlanTypes, Converged, [Next]_vars
  PROVE  Converged'
  <1>1. CASE UNCHANGED vars
    BY <1>1 DEF vars, Converged
  <1>2. CASE SourceChanges
    BY <1>2 DEF SourceChanges, Converged
  <1>3. CASE Sync
    <2> DEFINE ch == Calculate(plan, current', desired)
    <2>1. /\ ch.updateOld = PlanUpdates(plan, current', desired)
          /\ ch.updateNew = {InheritOwner(c, UpdateFor(desired, c)) :
                               c \in PlanUpdates(plan, current', desired)}
          /\ ch.delete = PlanDeletes(plan, current', desired)
          /\ \A x : x \in ch.create <=>
                      \E k, t : /\ Creates(plan, current', desired, k, t)
                                /\ x = ResolveCreate(desired, WantedFor(desired, k, t))
      BY PlanArguments, CalculateParts
    <2> HIDE DEF ch
    <2>2. ch.create = {}
      BY <1>3, <2>1, NothingMissing
    <2>3. ASSUME NEW x \in current', InPlan(x), Mine(plan, x), plan.policy = "sync"
          PROVE  WantedFor(desired, PlanKey(x), x.type) # {}
      <3>1. CASE Kept(x)
        BY <2>3, <3>1 DEF Kept, PlanDeletes
      <3>2. CASE IsUpdated(x)
        BY <3>2, UpdatedFits DEF IsUpdated
      <3>3. CASE IsCreated(x)
        BY <3>3, CreatedFits DEF IsCreated
      <3> QED
        BY <1>3, <3>1, <3>2, <3>3, SyncParts
    <2>4. ch.delete = {}
      BY <2>1, <2>3 DEF PlanDeletes
    <2>5. ASSUME NEW x \in PlanUpdates(plan, current', desired)
          PROVE  InheritOwner(x, UpdateFor(desired, x)) = x
      <3>1. ~Kept(x)
        BY <2>5 DEF Kept, PlanUpdates
      <3>2. x \in current'
        BY <2>5 DEF PlanUpdates
      <3> QED
        BY <1>3, <3>1, <3>2, SyncParts, WrittenStable
    <2>6. ch.updateNew = ch.updateOld
      BY <2>1, <2>5
    <2> QED
      BY <1>3, <2>2, <2>4, <2>6 DEF Sync, Converged, HasChanges, ch
  <1> QED
    BY <1>1, <1>2, <1>3 DEF Next

(* After carrying out a plan, planning again with the same desired         *)
(* endpoints changes nothing, whatever the policy, the conflicts between   *)
(* resources and the owners of the records found (plan.go: Calculate).     *)
THEOREM PlanLoopConverged == Spec => []Converged
  <1>1. Init => PlanTypes /\ Converged
    BY TypesInit DEF Init, Converged
  <1>2. PlanTypes /\ Converged /\ [Next]_vars => (PlanTypes /\ Converged)'
    BY TypesStep, ConvergedStep
  <1> QED
    BY <1>1, <1>2, PTL DEF Spec

-----------------------------------------------------------------------------
(* What a step may never do.  Every action property holds because only a   *)
(* Sync changes the records.                                               *)
LEMMA OnlySync ==
  ASSUME [Next]_vars
  PROVE  (plan' = plan /\ current' = current) \/ Sync
  BY DEF Next, SourceChanges, vars

(* A record of another owner, of an unmanaged type or outside the domain   *)
(* filter is neither changed nor deleted, and nothing is created beside a  *)
(* managed record of another owner on the same name (plan.go:229, 252).    *)
THEOREM PlanLoopOthersUntouched == Spec => OthersUntouched
  <1> DEFINE Untouched ==
        \A e \in current : ~Ours(e) =>
          /\ e \in current'
          /\ InPlan(e) => \A d \in current' \ current :
                            SameRow(d, e) => \E c \in current :
                                               SameRow(c, d) /\ c.type = d.type
  <1>1. ASSUME PlanTypes, Sync PROVE Untouched
    <2> SUFFICES ASSUME NEW e \in current, ~Ours(e)
                 PROVE  /\ e \in current'
                        /\ InPlan(e) => \A d \in current' \ current :
                             SameRow(d, e) => \E c \in current :
                                                SameRow(c, d) /\ c.type = d.type
      OBVIOUS
    <2>1. e \in current'
      BY <1>1, SyncParts DEF Kept, PlanUpdates, PlanDeletes, Mine, Ours
    <2>2. ASSUME InPlan(e), NEW d \in current' \ current, SameRow(d, e)
          PROVE  \E c \in current : SameRow(c, d) /\ c.type = d.type
      <3>1. IsUpdated(d) \/ IsCreated(d)
        BY <1>1, SyncParts DEF Kept
      <3>2. CASE IsUpdated(d)
        BY <1>1, <3>2, UpdatedFits DEF IsUpdated, SameRow
      <3>3. CASE IsCreated(d)
        <4>1. PICK k, t : Creates(plan, current, desired, k, t) /\ d = Created(k, t)
          BY <3>3 DEF IsCreated
        <4>2. e \in RowOf(current, k)
          BY <1>1, <2>2, <4>1, CreatedFits DEF RowOf, SameRow
        <4> QED
          BY <2>2, <4>1, <4>2 DEF Creates, OwnersMatch, Ours
      <3> QED
        BY <3>1, <3>2, <3>3
    <2> QED
      BY <2>1, <2>2
  <1>2. ASSUME current' = current PROVE Untouched
    BY <1>2
  <1>3. PlanTypes /\ [Next]_vars => [Untouched]_vars
    BY <1>1, <1>2, OnlySync
  <1> QED
    BY <1>3, TypesInit, TypesStep, PTL DEF Spec, OthersUntouched

(* Under the sync policy a plan never leaves a CNAME beside another        *)
(* managed record of the same row, unless they were there before           *)
(* (conflict.go:58).                                                       *)
THEOREM PlanLoopCnameExclusive == Spec => CnameExclusive
  <1> DEFINE Exclusive ==
        plan.policy = "sync" /\ CnameAlone(current) => CnameAlone(current')
  <1>1. ASSUME PlanTypes, Sync, plan.policy = "sync", CnameAlone(current),
               NEW d \in current', NEW e \in current', InPlan(d), InPlan(e),
               PlanKey(d) = PlanKey(e), d.type = "CNAME", e.type # "CNAME"
        PROVE  FALSE
    <2> DEFINE k == PlanKey(d)
    <2>1. /\ Kept(d) \/ IsUpdated(d) \/ IsCreated(d)
          /\ Kept(e) \/ IsUpdated(e) \/ IsCreated(e)
      BY <1>1, SyncParts
    <2>2. ASSUME NEW x, NEW y, x \in current, y \in current, InPlan(x), InPlan(y),
                 PlanKey(x) = PlanKey(y), x.type = "CNAME", y.type # "CNAME"
          PROVE  FALSE
      BY <1>1, <2>2 DEF CnameAlone, SameRow
    (* CNAMEs and other types are never wanted together.                   *)
    <2>3. ASSUME WantedFor(desired, k, "CNAME") # {}, WantedFor(desired, k, e.type) # {}
          PROVE  FALSE
      BY <1>1, <2>3 DEF WantedFor, ResolveRecordTypes
    <2>4. \A x : IsUpdated(x) => /\ WantedFor(desired, PlanKey(x), x.type) # {}
                                 /\ \E c \in current : /\ InPlan(c) /\ c.type = x.type
                                                       /\ PlanKey(c) = PlanKey(x)
      BY <1>1, UpdatedFits DEF IsUpdated
    <2>5. \A x : IsCreated(x) => /\ WantedFor(desired, PlanKey(x), x.type) # {}
                                 /\ OwnersMatch(plan, RowOf(current, PlanKey(x)))
      <3> SUFFICES ASSUME NEW x, IsCreated(x)
                   PROVE  /\ WantedFor(desired, PlanKey(x), x.type) # {}
                          /\ OwnersMatch(plan, RowOf(current, PlanKey(x)))
        OBVIOUS
      <3>1. PICK j, t : Creates(plan, current, desired, j, t) /\ x = Created(j, t)
        BY DEF IsCreated
      <3> QED
        BY <1>1, <3>1, CreatedFits DEF Creates
    (* A record kept beside a created one is ours, and so still wanted.    *)
    <2>6. ASSUME NEW x, NEW y, IsCreated(x), Kept(y), InPlan(y), PlanKey(x) = PlanKey(y)
          PROVE  WantedFor(desired, PlanKey(y), y.type) # {}
      <3>1. y \in RowOf(current, PlanKey(x)) /\ y \in current
        BY <2>6 DEF Kept, RowOf
      <3>2. Mine(plan, y)
        BY <2>5, <2>6, <3>1 DEF OwnersMatch, Mine
      <3> QED
        BY <1>1, <2>6, <3>2 DEF Kept, PlanDeletes
    <2>7. Kept(d) => d \in current
      BY DEF Kept
    <2>8. Kept(e) => e \in current
      BY DEF Kept
    <2>9. CASE IsCreated(d) /\ Kept(e)
      BY <1>1, <2>3, <2>5, <2>6, <2>9
    <2>10. CASE IsCreated(e) /\ Kept(d)
      BY <1>1, <2>3, <2>5, <2>6, <2>10
    <2>11. CASE (IsUpdated(d) \/ IsCreated(d)) /\ (IsUpdated(e) \/ IsCreated(e))
      BY <1>1, <2>3, <2>4, <2>5, <2>11
    <2>12. CASE (Kept(d) \/ IsUpdated(d)) /\ (Kept(e) \/ IsUpdated(e))
      BY <1>1, <2>2, <2>4, <2>7, <2>8, <2>12
    <2> QED
      BY <2>1, <2>9, <2>10, <2>11, <2>12
  <1>2. ASSUME PlanTypes, Sync PROVE Exclusive
    BY <1>1, <1>2 DEF CnameAlone, SameRow
  <1>3. ASSUME current' = current PROVE Exclusive
    BY <1>3
  <1>4. PlanTypes /\ [Next]_vars => [Exclusive]_vars
    BY <1>2, <1>3, OnlySync
  <1> QED
    BY <1>4, TypesInit, TypesStep, PTL DEF Spec, CnameExclusive

(* A resource that holds a name and still wants it, for the same type,     *)
(* keeps it, even if another resource wants it with lesser targets         *)
(* (conflict.go:44).                                                       *)
THEOREM PlanLoopResourceKeepsName == Spec => ResourceKeepsName
  <1> DEFINE Keeps ==
        \A e \in current :
          /\ Sync /\ Ours(e) /\ e.type # "CNAME"
          /\ \E i \in DOMAIN desired :
               /\ InPlan(desired[i]) /\ SameRow(desired[i], e)
               /\ desired[i].type = e.type /\ desired[i].res = e.res
          => \E c \in current' : SameRow(c, e) /\ c.type = e.type /\ c.res = e.res
  <1>1. ASSUME PlanTypes, NEW e \in current, Sync, e.type # "CNAME",
               NEW i \in DOMAIN desired, InPlan(desired[i]), SameRow(desired[i], e),
               desired[i].type = e.type, desired[i].res = e.res
        PROVE  \E c \in current' : SameRow(c, e) /\ c.type = e.type /\ c.res = e.res
    <2> DEFINE W == WantedFor(desired, PlanKey(e), e.type)
    <2>1. i \in W
      BY <1>1 DEF WantedFor, ResolveRecordTypes, Candidates, SameRow
    <2>2. W \in SUBSET DOMAIN desired /\ desired \in Lists
      BY <1>1, WantedSubset, PlanArguments
    <2>3. UpdateFor(desired, e).res = e.res
      <3>1. UpdateFor(desired, e) = ResolveUpdate(e, desired, W)
        BY DEF UpdateFor
      <3> HIDE DEF W
      <3>2. PICK j \in W : /\ ResolveUpdate(e, desired, W) = desired[j]
                           /\ (\E n \in W : desired[n].res = e.res) => desired[j].res = e.res
        BY <2>1, <2>2, ResolveUpdatePicks
      <3> QED
        BY <1>1, <2>1, <3>1, <3>2
    <2>4. e \notin PlanDeletes(plan, current, desired)
      BY <2>1 DEF PlanDeletes
    <2>5. CASE e \in PlanUpdates(plan, current, desired)
      <3>1. Updated(e) \in current'
        BY <1>1, <2>5, SyncParts DEF IsUpdated
      <3> QED
        BY <1>1, <2>3, <2>5, <3>1, UpdatedFits DEF SameRow
    <2>6. CASE e \notin PlanUpdates(plan, current, desired)
      <3>1. e \in current'
        BY <1>1, <2>4, <2>6, SyncParts DEF Kept
      <3> QED
        BY <3>1 DEF SameRow
    <2> QED
      BY <2>5, <2>6
  <1>2. PlanTypes => Keeps
    BY <1>1
  <1>3. PlanTypes /\ [Next]_vars => [Keeps]_vars
    BY <1>2
  <1> QED
    BY <1>3, TypesInit, TypesStep, PTL DEF Spec, ResourceKeepsName

(* With upsert-only no record disappears, with create-only none changes    *)
(* (policy.go).                                                            *)
THEOREM PlanLoopPolicyRespected == Spec => PolicyRespected
  <1> DEFINE Respected ==
        /\ plan.policy = "create-only" => current \subseteq current'
        /\ plan.policy = "upsert-only" =>
             \A e \in current : \E c \in current' : SameRow(c, e) /\ c.type = e.type
  <1>1. ASSUME PlanTypes, Sync PROVE Respected
    <2>1. ASSUME NEW e \in current, plan.policy = "create-only"
          PROVE  e \in current'
      BY <1>1, <2>1, SyncParts DEF Kept, PlanUpdates, PlanDeletes
    <2>2. ASSUME NEW e \in current, plan.policy = "upsert-only"
          PROVE  \E c \in current' : SameRow(c, e) /\ c.type = e.type
      <3>1. CASE e \in PlanUpdates(plan, current, desired)
        <4>1. Updated(e) \in current'
          BY <1>1, <3>1, SyncParts DEF IsUpdated
        <4> QED
          BY <1>1, <3>1, <4>1, UpdatedFits DEF SameRow
      <3>2. CASE e \notin PlanUpdates(plan, current, desired)
        <4>1. e \in current'
          BY <1>1, <2>2, <3>2, SyncParts DEF Kept, PlanDeletes
        <4> QED
          BY <4>1 DEF SameRow
      <3> QED
        BY <3>1, <3>2
    <2> QED
      BY <2>1, <2>2
  <1>2. ASSUME current' = current PROVE Respected
    BY <1>2 DEF SameRow
  <1>3. PlanTypes /\ [Next]_vars => [Respected]_vars
    BY <1>1, <1>2, OnlySync
  <1> QED
    BY <1>3, TypesInit, TypesStep, PTL DEF Spec, PolicyRespected
=============================================================================
