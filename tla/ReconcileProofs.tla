-------------------------- MODULE ReconcileProofs --------------------------
(***************************************************************************)
(* For any number of processes, any sources, zones and policies, with or   *)
(* without cache:                                                          *)
(*  - ownership marks and records come and go together;                    *)
(*  - on a provider that checks what an update replaces, no process        *)
(*    changes or deletes a record it does not hold.                        *)
(*                                                                         *)
(* Both rest on the shape of a batch: whatever it does to a record, it     *)
(* also does to its TXT record, and for a record that is updated or        *)
(* deleted it names the TXT record it expects, with its own owner id.      *)
(***************************************************************************)
EXTENDS Reconcile, PlanProofs

-----------------------------------------------------------------------------
(* The shape of a batch.                                                   *)

BatchCells(b) ==
  \A e \in b.create \union b.updateNew \union b.delete :
    e.cell \in {Rec(e.cell[2]), Txt(e.cell[2])} /\ IsKey(e.cell[2])

(* A TXT record is written together with its record, and a record is       *)
(* deleted together with its TXT record.                                   *)
BatchPaired(b) ==
  /\ \A e \in b.create    : Rec(e.cell[2]) \in Cells(b.create)
  /\ \A e \in b.updateNew : Rec(e.cell[2]) \in Cells(b.updateNew)
  /\ \A e \in b.delete    : Txt(e.cell[2]) \in Cells(b.delete)

(* What is updated or deleted is claimed to be held by the owner id.       *)
Claims(id, E, k) == \E d \in E : d.cell = Txt(k) /\ d.val.tgt.owner = id
BatchOwned(id, b) ==
  /\ \A e \in b.updateNew : Claims(id, b.updateOld, e.cell[2])
  /\ \A e \in b.delete    : Claims(id, b.delete, e.cell[2])

(* The key of a cell, and the cells of entries.                            *)
LEMMA CellKeys ==
  ASSUME NEW k
  PROVE  Rec(k)[2] = k /\ Txt(k)[2] = k /\ Rec(k)[1] = "rec" /\ Txt(k)[1] = "txt"
  BY DEF Rec, Txt

LEMMA EntryCells ==
  ASSUME NEW p, NEW e
  PROVE  /\ RecEntry(e).cell = Rec(Key(e)) /\ TXTEntry(p, e).cell = Txt(Key(e))
         /\ IsKey(Key(e))
  BY DEF RecEntry, TXTEntry, Key, IsKey

(* The entries WithTXT makes are pairs.                                    *)
LEMMA WithTXTPairs ==
  ASSUME NEW p, NEW E, NEW d \in WithTXT(p, E)
  PROVE  \E e \in E : /\ d.cell[2] = Key(e)
                      /\ d.cell \in {Rec(Key(e)), Txt(Key(e))}
                      /\ RecEntry(e) \in WithTXT(p, E)
                      /\ TXTEntry(p, e) \in WithTXT(p, E)
  <1>1. PICK e \in E : d = RecEntry(e) \/ d = TXTEntry(p, e)
    BY DEF WithTXT
  <1>2. RecEntry(e) \in WithTXT(p, E) /\ TXTEntry(p, e) \in WithTXT(p, E)
    BY <1>1 DEF WithTXT
  <1>3. d.cell \in {Rec(Key(e)), Txt(Key(e))}
    BY <1>1, EntryCells
  <1>4. d.cell[2] = Key(e)
    BY <1>3, CellKeys
  <1> QED
    BY <1>2, <1>3, <1>4

(* Every batch of the registry has the shape.                              *)
LEMMA BatchShape ==
  ASSUME NEW p, NEW existing0, NEW ch
  PROVE  BatchCells(Batch(p, existing0, ch)) /\ BatchPaired(Batch(p, existing0, ch))
  <1> DEFINE b == Batch(p, existing0, ch)
             new == Claimed(p, ch.create)
  <1>1. /\ b.create = {RecEntry(e) : e \in new} \union
                      {TXTEntry(p, e) : e \in {d \in new : Key(d) \notin existing0}}
        /\ b.updateNew = WithTXT(p, FilterByOwner(p.ownerID, ch.updateNew))
        /\ b.delete = WithTXT(p, FilterByOwner(p.ownerID, ch.delete))
    BY DEF Batch
  <1> HIDE DEF b, new
  <1>2. \A d \in b.create : /\ d.cell \in {Rec(d.cell[2]), Txt(d.cell[2])} /\ IsKey(d.cell[2])
                            /\ Rec(d.cell[2]) \in Cells(b.create)
    <2> TAKE d \in b.create
    <2>1. PICK e \in new : d = RecEntry(e) \/ d = TXTEntry(p, e)
      BY <1>1
    <2>2. RecEntry(e) \in b.create
      BY <1>1, <2>1
    <2>3. d.cell \in {Rec(Key(e)), Txt(Key(e))} /\ RecEntry(e).cell = Rec(Key(e))
      BY <2>1, EntryCells
    <2>4. d.cell[2] = Key(e)
      BY <2>3, CellKeys
    <2> QED
      BY <2>2, <2>3, <2>4, EntryCells DEF Cells
  <1>3. \A d \in b.updateNew : /\ d.cell \in {Rec(d.cell[2]), Txt(d.cell[2])} /\ IsKey(d.cell[2])
                               /\ Rec(d.cell[2]) \in Cells(b.updateNew)
    <2> TAKE d \in b.updateNew
    <2>1. PICK e : /\ d.cell[2] = Key(e) /\ d.cell \in {Rec(Key(e)), Txt(Key(e))}
                   /\ RecEntry(e) \in b.updateNew
      BY <1>1, WithTXTPairs
    <2> QED
      BY <2>1, EntryCells DEF Cells
  <1>4. \A d \in b.delete : /\ d.cell \in {Rec(d.cell[2]), Txt(d.cell[2])} /\ IsKey(d.cell[2])
                            /\ Txt(d.cell[2]) \in Cells(b.delete)
    <2> TAKE d \in b.delete
    <2>1. PICK e : /\ d.cell[2] = Key(e) /\ d.cell \in {Rec(Key(e)), Txt(Key(e))}
                   /\ TXTEntry(p, e) \in b.delete
      BY <1>1, WithTXTPairs
    <2> QED
      BY <2>1, EntryCells DEF Cells
  <1>5. BatchCells(b)
    BY <1>2, <1>3, <1>4 DEF BatchCells
  <1>6. BatchPaired(b)
    BY <1>2, <1>3, <1>4 DEF BatchPaired
  <1> QED
    BY <1>5, <1>6 DEF b

(* A batch made from a plan claims everything it updates or deletes.       *)
LEMMA BatchClaims ==
  ASSUME OneSpelling, NEW p, ConfigOK(p), NEW current, NEW list \in Lists,
         NEW existing0
  PROVE  BatchOwned(p.ownerID,
                    Batch(p, existing0, Calculate(p, current, list)))
  <1> DEFINE ch == Calculate(p, current, list)
             b == Batch(p, existing0, ch)
             id == p.ownerID
  <1>1. /\ b.updateOld = WithTXT(p, FilterByOwner(id, ch.updateOld))
        /\ b.updateNew = WithTXT(p, FilterByOwner(id, ch.updateNew))
        /\ b.delete = WithTXT(p, FilterByOwner(id, ch.delete))
    BY DEF Batch
  <1>2. ASSUME NEW e, e.owner = id
        PROVE  TXTEntry(p, e).cell = Txt(Key(e)) /\ TXTEntry(p, e).val.tgt.owner = id
    BY <1>2 DEF TXTEntry, Migrated
  <1> HIDE DEF b, ch, id
  <1>3. ASSUME NEW d \in b.delete
        PROVE  Claims(id, b.delete, d.cell[2])
    <2>1. PICK e \in FilterByOwner(id, ch.delete) :
            d.cell[2] = Key(e) /\ TXTEntry(p, e) \in b.delete
      <3> DEFINE E == FilterByOwner(id, ch.delete)
      <3>1. d \in WithTXT(p, E) /\ WithTXT(p, E) = b.delete
        BY <1>1
      <3> HIDE DEF E
      <3>2. \E e \in E : d.cell[2] = Key(e) /\ TXTEntry(p, e) \in WithTXT(p, E)
        BY <3>1, WithTXTPairs
      <3> QED
        BY <3>1, <3>2 DEF E
    <2>2. e.owner = id
      BY <2>1 DEF FilterByOwner, IsOwnedBy
    <2> QED
      BY <1>2, <2>1, <2>2 DEF Claims
  <1>4. ASSUME NEW d \in b.updateNew
        PROVE  Claims(id, b.updateOld, d.cell[2])
    <2>1. PICK x \in FilterByOwner(id, ch.updateNew) : d.cell[2] = Key(x)
      <3> DEFINE E == FilterByOwner(id, ch.updateNew)
      <3>1. d \in WithTXT(p, E)
        BY <1>1
      <3> HIDE DEF E
      <3>2. \E x \in E : d.cell[2] = Key(x) /\ TXTEntry(p, x) \in WithTXT(p, E)
        BY <3>1, WithTXTPairs
      <3> QED
        BY <3>2 DEF E
    <2>2. x \in ch.updateNew /\ x.owner = id
      BY <2>1 DEF FilterByOwner, IsOwnedBy
    <2>3. PICK c \in ch.updateOld : Key(c) = Key(x) /\ c.owner = x.owner
      BY <2>2, UpdatesInPlace DEF ch
    <2>4. c.owner = id /\ c \in FilterByOwner(id, ch.updateOld)
      BY <2>2, <2>3 DEF FilterByOwner, IsOwnedBy
    <2>5. TXTEntry(p, c) \in b.updateOld
      BY <1>1, <2>4 DEF WithTXT
    <2> QED
      BY <1>2, <2>1, <2>3, <2>4, <2>5 DEF Claims
  <1> QED
    BY <1>3, <1>4 DEF BatchOwned, b, ch, id

(* The shape survives splitting by names, since a record and its TXT       *)
(* record have the same name.                                              *)
LEMMA GroupShape ==
  ASSUME NEW b, NEW N
  PROVE  /\ BatchCells(b) => BatchCells(Group(b, N))
         /\ BatchPaired(b) => BatchPaired(Group(b, N))
         /\ \A id : BatchOwned(id, b) => BatchOwned(id, Group(b, N))
  <1> DEFINE g == Group(b, N)
  <1>1. /\ g.create    = {e \in b.create    : NameOf(e) \in N}
        /\ g.updateOld = {e \in b.updateOld : NameOf(e) \in N}
        /\ g.updateNew = {e \in b.updateNew : NameOf(e) \in N}
        /\ g.delete    = {e \in b.delete    : NameOf(e) \in N}
    BY DEF Group
  <1>2. ASSUME NEW d, NEW e, d.cell \in {Rec(e.cell[2]), Txt(e.cell[2])}
        PROVE  NameOf(d) = NameOf(e)
    BY <1>2 DEF NameOf, Rec, Txt
  <1> HIDE DEF g
  <1>3. BatchCells(b) => BatchCells(g)
    BY <1>1 DEF BatchCells
  <1>4. BatchPaired(b) => BatchPaired(g)
    BY <1>1, <1>2 DEF BatchPaired, Cells
  <1>5. \A id : BatchOwned(id, b) => BatchOwned(id, g)
    BY <1>1, <1>2 DEF BatchOwned, Claims
  <1> QED
    BY <1>3, <1>4, <1>5 DEF g

-----------------------------------------------------------------------------
(* What a batch does to a zone.                                            *)

(* In a zone of records and TXT records, the records and TXT records of a  *)
(* key are where one expects them.                                         *)
LEMMA ZoneKeys ==
  ASSUME NEW z, ZoneCells(z)
  PROVE  \A k : /\ k \in RecKeys(z) <=> Rec(k) \in DOMAIN z
                /\ k \in TxtKeys(z) <=> Txt(k) \in DOMAIN z
  <1> TAKE k
  <1>1. ASSUME NEW d \in DOMAIN z
        PROVE  /\ d[1] = "rec" => d = Rec(d[2])
               /\ d[1] = "txt" => d = Txt(d[2])
    BY CellKeys DEF ZoneCells
  <1>2. k \in RecKeys(z) <=> Rec(k) \in DOMAIN z
    BY <1>1, CellKeys DEF RecKeys
  <1>3. k \in TxtKeys(z) <=> Txt(k) \in DOMAIN z
    BY <1>1, CellKeys DEF TxtKeys
  <1> QED
    BY <1>2, <1>3

(* The cells in use after a batch.                                         *)
LEMMA ApplyDomain ==
  ASSUME NEW z, NEW b
  PROVE  DOMAIN ApplyBatch(z, b)
           = (DOMAIN z \union Cells(b.create \union b.updateNew)) \ Cells(b.delete)
  BY DEF ApplyBatch

(* A batch of the right shape keeps records and TXT records together.      *)
LEMMA ApplyKeepsPaired ==
  ASSUME NEW z, ZoneCells(z), Paired(z),
         NEW b, BatchCells(b), BatchPaired(b)
  PROVE  ZoneCells(ApplyBatch(z, b)) /\ Paired(ApplyBatch(z, b))
  <1> DEFINE y == ApplyBatch(z, b)
             W == Cells(b.create \union b.updateNew)
  <1>1. DOMAIN y = (DOMAIN z \union W) \ Cells(b.delete)
    BY ApplyDomain
  <1> HIDE DEF y
  <1>2. ZoneCells(y)
    BY <1>1 DEF ZoneCells, BatchCells, Cells
  <1>3. \A k : Rec(k) \in Cells(b.delete) => Txt(k) \in Cells(b.delete)
    BY CellKeys DEF BatchPaired, Cells
  <1>4. \A k : Txt(k) \in W => Rec(k) \in W
    BY CellKeys DEF BatchPaired, Cells
  <1>5. \A k : Txt(k) \in DOMAIN z => Rec(k) \in DOMAIN z
    BY ZoneKeys DEF Paired
  <1>6. \A k : Txt(k) \in DOMAIN y => Rec(k) \in DOMAIN y
    BY <1>1, <1>3, <1>4, <1>5
  <1>7. Paired(y)
    BY <1>2, <1>6, ZoneKeys DEF Paired
  <1> QED
    BY <1>2, <1>7 DEF y

(* A batch of which nothing is left.                                       *)
LEMMA GroupNone ==
  ASSUME NEW b
  PROVE  Group(b, {}) = EmptyBatch
  BY DEF Group, EmptyBatch

-----------------------------------------------------------------------------
(* The inductive invariant: every batch under way has the shape, and so    *)
(* the zone keeps records and TXT records together.                        *)
ShapeInv ==
  \A c \in Controllers : BatchCells(batch[c]) /\ BatchPaired(batch[c])
IInv == TypeOK /\ NoOrphanTXT /\ ShapeInv

(* It holds at first.                                                      *)
LEMMA InitInv == Init => IInv
  <1> SUFFICES ASSUME Init PROVE IInv
    OBVIOUS
  <1>1. ZoneCells(zone) /\ Paired(zone)
    BY ReconcileAssumption DEF Init
  <1>2. /\ DOMAIN src = Controllers /\ DOMAIN view = Controllers
        /\ DOMAIN existing = Controllers /\ DOMAIN batch = Controllers
        /\ DOMAIN cache = Controllers
    BY DEF Init
  <1>3. /\ sourceChanges \in 0..MaxSourceChanges
        /\ pc \in [Controllers -> {"idle", "plan", "submit", "split"}]
        /\ missed \in [Controllers -> BOOLEAN]
    <2>1. sourceChanges = 0 /\ MaxSourceChanges \in Nat
      BY ReconcileAssumption DEF Init
    <2>2. pc \in [Controllers -> {"idle", "plan", "submit", "split"}]
      BY DEF Init
    <2>3. missed \in [Controllers -> BOOLEAN]
      BY DEF Init
    <2> QED
      BY <2>1, <2>2, <2>3
  <1>4. \A c \in Controllers :
          /\ src[c] \in SourceLists[c]
          /\ pc[c] # "plan" => view[c] = {} /\ existing[c] = {}
          /\ pc[c] \notin {"submit", "split"} => batch[c] = EmptyBatch
          /\ pc[c] = "split" => Provider = "aws"
          /\ ~Caching => cache[c] = NoCache
    BY DEF Init
  <1>5. TypeOK
    BY <1>1, <1>2, <1>3, <1>4 DEF TypeOK
  <1>6. ShapeInv
    BY DEF Init, ShapeInv, EmptyBatch, BatchCells, BatchPaired
  <1> QED
    BY <1>1, <1>5, <1>6 DEF IInv, NoOrphanTXT

(* The batches keep their shape.                                           *)
LEMMA ShapeStep ==
  ASSUME TypeOK, ShapeInv, [Next]_vars
  PROVE  ShapeInv'
  <1> DEFINE Good(b) == BatchCells(b) /\ BatchPaired(b)
  <1> SUFFICES ASSUME NEW d \in Controllers
               PROVE  Good(batch'[d])
    BY DEF ShapeInv
  <1>1. Good(batch[d]) /\ DOMAIN batch = Controllers
    BY DEF ShapeInv, TypeOK
  <1>2. Good(EmptyBatch)
    BY DEF EmptyBatch, BatchCells, BatchPaired
  <1> HIDE DEF Good
  <1>3. CASE UNCHANGED batch
    BY <1>1, <1>3
  <1>4. ASSUME NEW c \in Controllers, batch' = [batch EXCEPT ![c] = EmptyBatch]
        PROVE  Good(batch'[d])
    BY <1>1, <1>2, <1>4
  <1>5. ASSUME NEW c \in Controllers, PlanChanges(c)
        PROVE  Good(batch'[d])
    <2> DEFINE ch == Calculate(Config[c], view[c], src[c])
    <2>1. CASE batch' = [batch EXCEPT ![c] = Batch(Config[c], existing[c], ch)]
      <3>1. Good(Batch(Config[c], existing[c], ch))
        BY BatchShape DEF Good
      <3> HIDE DEF ch
      <3> QED
        BY <1>1, <2>1, <3>1
    <2> QED
      BY <1>3, <1>5, <2>1 DEF PlanChanges
  <1>6. ASSUME NEW c \in Controllers, NEW n, GroupSent(c, n)
        PROVE  Good(batch'[d])
    <2>1. batch' = [batch EXCEPT ![c] = Group(batch[c], Names(batch[c]) \ {n})]
      BY <1>6 DEF GroupSent
    <2>2. Good(batch[c])
      BY DEF ShapeInv, Good
    <2>3. Good(Group(batch[c], Names(batch[c]) \ {n}))
      BY <2>2, GroupShape DEF Good
    <2> QED
      BY <1>1, <2>1, <2>3
  <1>7. CASE UNCHANGED vars
    BY <1>3, <1>7 DEF vars, procVars
  <1>8. CASE Next
    <2>1. PICK c \in Controllers :
            \/ ReadRecords(c) \/ PlanChanges(c) \/ SubmitApplied(c) \/ SubmitFailed(c)
            \/ SourceFails(c) \/ SplitBatch(c)
            \/ \E n \in FilteredNames : GroupApplied(c, n) \/ GroupFailed(c, n)
            \/ CacheExpires(c) \/ Restart(c) \/ SourceChanges(c)
      BY <1>8 DEF Next
    <2>2. CASE \/ ReadRecords(c) \/ SourceFails(c) \/ SplitBatch(c)
               \/ CacheExpires(c) \/ SourceChanges(c)
      BY <1>3, <2>2
         DEF ReadRecords, SourceFails, SplitBatch, CacheExpires, SourceChanges,
             procVars
    <2>3. CASE SubmitApplied(c) \/ SubmitFailed(c) \/ Restart(c)
      BY <1>3, <1>4, <2>3 DEF SubmitApplied, SubmitFailed, Restart
    <2>4. CASE PlanChanges(c)
      BY <1>5, <2>4
    <2>5. CASE \E n \in FilteredNames : GroupApplied(c, n) \/ GroupFailed(c, n)
      BY <1>6, <2>5 DEF GroupApplied, GroupFailed
    <2> QED
      BY <2>1, <2>2, <2>3, <2>4, <2>5
  <1> QED
    BY <1>7, <1>8

(* Only an applied batch, whole or of one name, changes the zone.          *)
LEMMA ZoneStep ==
  ASSUME [Next]_vars
  PROVE  \/ zone' = zone
         \/ \E c \in Controllers :
              \/ SubmitApplied(c)
              \/ \E n \in FilteredNames : GroupApplied(c, n)
  BY DEF Next, ReadRecords, PlanChanges, SourceFails, SubmitFailed, SplitBatch,
         GroupFailed, CacheExpires, Restart, SourceChanges, vars

(* The zone keeps records and TXT records together.                        *)
LEMMA PairedStep ==
  ASSUME TypeOK, NoOrphanTXT, ShapeInv, [Next]_vars
  PROVE  ZoneCells(zone') /\ Paired(zone')
  <1>1. ZoneCells(zone) /\ Paired(zone)
    BY DEF TypeOK, NoOrphanTXT
  <1>2. CASE zone' = zone
    BY <1>1, <1>2
  <1>3. ASSUME NEW c \in Controllers, SubmitApplied(c)
        PROVE  ZoneCells(zone') /\ Paired(zone')
    <2>1. zone' = ApplyBatch(zone, batch[c])
      BY <1>3 DEF SubmitApplied
    <2>2. BatchCells(batch[c]) /\ BatchPaired(batch[c])
      BY DEF ShapeInv
    <2> QED
      BY <1>1, <2>1, <2>2, ApplyKeepsPaired
  <1>4. ASSUME NEW c \in Controllers, NEW n \in FilteredNames, GroupApplied(c, n)
        PROVE  ZoneCells(zone') /\ Paired(zone')
    <2>1. zone' = ApplyBatch(zone, Group(batch[c], {n}))
      BY <1>4 DEF GroupApplied
    <2>2. /\ BatchCells(Group(batch[c], {n}))
          /\ BatchPaired(Group(batch[c], {n}))
      BY GroupShape DEF ShapeInv
    <2> QED
      BY <1>1, <2>1, <2>2, ApplyKeepsPaired
  <1> QED
    BY <1>2, <1>3, <1>4, ZoneStep

(* What TypeOK says of one process.                                        *)
ProcOK(c) ==
  /\ src[c] \in SourceLists[c]
  /\ pc[c] # "plan" => view[c] = {} /\ existing[c] = {}
  /\ pc[c] \notin {"submit", "split"} => batch[c] = EmptyBatch
  /\ pc[c] = "split" => Provider = "aws"
  /\ ~Caching => cache[c] = NoCache

(* The processes keep to their types.                                      *)
LEMMA ProcStep ==
  ASSUME TypeOK, NEW c \in Controllers,
         NEW d \in Controllers,
         \/ ReadRecords(c) \/ PlanChanges(c) \/ SubmitApplied(c) \/ SubmitFailed(c)
         \/ SourceFails(c) \/ SplitBatch(c)
         \/ \E n \in FilteredNames : GroupApplied(c, n) \/ GroupFailed(c, n)
         \/ CacheExpires(c) \/ Restart(c) \/ SourceChanges(c)
  PROVE  ProcOK(d)'
  <1>1. /\ ProcOK(d) /\ ProcOK(c)
        /\ DOMAIN src = Controllers /\ DOMAIN pc = Controllers
        /\ DOMAIN view = Controllers /\ DOMAIN existing = Controllers
        /\ DOMAIN batch = Controllers /\ DOMAIN cache = Controllers
    BY DEF TypeOK, ProcOK
  <1>2. CASE ReadRecords(c)
    <2>1. ~Caching => cache'[d] = NoCache
      BY <1>1, <1>2 DEF ReadRecords, ProcOK, NoCache
    <2> QED
      BY <1>1, <1>2, <2>1 DEF ReadRecords, ProcOK
  <1>3. CASE PlanChanges(c)
    <2> DEFINE ch == Calculate(Config[c], view[c], src[c])
               b == Batch(Config[c], existing[c], ch)
               after == CacheAfter(Config[c], cache[c].eps, ch)
    <2>1. /\ \/ /\ pc' = [pc EXCEPT ![c] = "idle"]
                /\ UNCHANGED <<batch, cache>>
             \/ /\ pc' = [pc EXCEPT ![c] = "submit"]
                /\ batch' = [batch EXCEPT ![c] = b]
                /\ cache' = [cache EXCEPT ![c].eps =
                     IF cache[c].filled THEN after ELSE cache[c].eps]
          /\ view' = [view EXCEPT ![c] = {}]
          /\ existing' = [existing EXCEPT ![c] = {}]
          /\ UNCHANGED src
          /\ pc[c] = "plan"
      BY <1>3 DEF PlanChanges
    <2> HIDE DEF after, b
    <2>2. ~Caching => cache'[d] = NoCache
      <3>1. CASE cache' = cache \/ c # d
        BY <1>1, <2>1, <3>1 DEF ProcOK
      <3>2. CASE /\ c = d
                 /\ cache' = [cache EXCEPT ![c].eps =
                      IF cache[c].filled THEN after ELSE cache[c].eps]
        <4> SUFFICES ASSUME ~Caching PROVE cache'[d] = NoCache
          OBVIOUS
        <4>1. cache[c] = NoCache
          BY <1>1 DEF ProcOK
        <4>2. cache'[d] = [NoCache EXCEPT !.eps =
                             IF NoCache.filled THEN after ELSE NoCache.eps]
          BY <1>1, <3>2, <4>1
        <4> QED
          BY <4>2 DEF NoCache
      <3> QED
        BY <2>1, <3>1, <3>2
    <2> QED
      BY <1>1, <2>1, <2>2 DEF ProcOK
  <1>4. CASE SubmitApplied(c)
    BY <1>1, <1>4 DEF SubmitApplied, ProcOK, MaySplit
  <1>5. CASE SubmitFailed(c)
    BY <1>1, <1>5 DEF SubmitFailed, ProcOK
  <1>6. CASE SplitBatch(c)
    BY <1>1, <1>6 DEF SplitBatch, ProcOK, MaySplit
  <1>7. CASE \E n \in FilteredNames : GroupApplied(c, n) \/ GroupFailed(c, n)
    <2>1. PICK n \in FilteredNames : GroupSent(c, n)
      BY <1>7 DEF GroupApplied, GroupFailed
    <2> DEFINE N == Names(batch[c])
    <2>2. /\ batch' = [batch EXCEPT ![c] = Group(batch[c], N \ {n})]
          /\ pc' = [pc EXCEPT ![c] = IF N = {n} THEN "idle" ELSE "split"]
          /\ pc[c] = "split"
          /\ UNCHANGED <<src, view, existing, cache>>
      BY <2>1 DEF GroupSent
    <2> HIDE DEF N
    <2>3. N = {n} => Group(batch[c], N \ {n}) = EmptyBatch
      <3>1. N = {n} => N \ {n} = {}
        OBVIOUS
      <3> QED
        BY <3>1, GroupNone
    <2> QED
      BY <1>1, <2>2, <2>3 DEF ProcOK
  <1>8. CASE CacheExpires(c)
    <2>1. ~Caching => cache'[d] = NoCache
      BY <1>1, <1>8 DEF CacheExpires, ProcOK, NoCache
    <2> QED
      BY <1>1, <1>8, <2>1 DEF CacheExpires, ProcOK
  <1>9. CASE Restart(c)
    BY <1>1, <1>9 DEF Restart, ProcOK
  <1>10. CASE SourceChanges(c)
    BY <1>1, <1>10 DEF SourceChanges, ProcOK, procVars
  <1>11. CASE SourceFails(c)
    BY <1>1, <1>11 DEF SourceFails, ProcOK
  <1> QED
    BY <1>2, <1>3, <1>4, <1>5, <1>6, <1>7, <1>8, <1>9, <1>10, <1>11

(* TypeOK is kept, given that the zone is.                                 *)
LEMMA TypeStep ==
  ASSUME TypeOK, [Next]_vars, ZoneCells(zone')
  PROVE  TypeOK'
  <1>1. CASE UNCHANGED vars
    BY <1>1 DEF TypeOK, vars, procVars
  <1>2. CASE Next
    <2>1. PICK c \in Controllers :
            \/ ReadRecords(c) \/ PlanChanges(c) \/ SubmitApplied(c) \/ SubmitFailed(c)
            \/ SourceFails(c) \/ SplitBatch(c)
            \/ \E n \in FilteredNames : GroupApplied(c, n) \/ GroupFailed(c, n)
            \/ CacheExpires(c) \/ Restart(c) \/ SourceChanges(c)
      BY <1>2 DEF Next
    <2>2. \A d \in Controllers : ProcOK(d)'
      BY <2>1, ProcStep
    <2>3. sourceChanges' \in 0..MaxSourceChanges
      <3>1. sourceChanges \in 0..MaxSourceChanges /\ MaxSourceChanges \in Nat
        BY ReconcileAssumption DEF TypeOK
      <3>2. \/ sourceChanges' = sourceChanges
            \/ sourceChanges < MaxSourceChanges /\ sourceChanges' = sourceChanges + 1
        BY <2>1 DEF ReadRecords, PlanChanges, SourceFails, SubmitApplied,
                    SubmitFailed, SplitBatch, GroupApplied, GroupFailed,
                    GroupSent, CacheExpires, Restart, SourceChanges
      <3> QED
        BY <3>1, <3>2
    <2>4. pc' \in [Controllers -> {"idle", "plan", "submit", "split"}]
      <3>1. pc \in [Controllers -> {"idle", "plan", "submit", "split"}]
        BY DEF TypeOK
      <3>2. \/ pc' = pc
            \/ \E v \in {"idle", "plan", "submit", "split"} :
                 pc' = [pc EXCEPT ![c] = v]
        BY <2>1 DEF ReadRecords, PlanChanges, SourceFails, SubmitApplied,
                    SubmitFailed, SplitBatch, GroupApplied, GroupFailed,
                    GroupSent, CacheExpires, Restart, SourceChanges, procVars
      <3> QED
        BY <3>1, <3>2
    <2>5. missed' \in [Controllers -> BOOLEAN]
      <3>1. missed \in [Controllers -> BOOLEAN] /\ Caching \in BOOLEAN
        BY ReconcileAssumption DEF TypeOK
      <3>2. \/ missed' = missed
            \/ missed' = [missed EXCEPT ![c] = FALSE]
            \/ missed' = [missed EXCEPT ![c] = Caching]
        BY <2>1 DEF ReadRecords, PlanChanges, SourceFails, SubmitApplied,
                    SubmitFailed, SplitBatch, GroupApplied, GroupFailed,
                    GroupSent, CacheExpires, Restart, SourceChanges, procVars
      <3> QED
        BY <3>1, <3>2
    <2>6. /\ DOMAIN src' = Controllers /\ DOMAIN view' = Controllers
          /\ DOMAIN existing' = Controllers /\ DOMAIN batch' = Controllers
          /\ DOMAIN cache' = Controllers
      <3>1. /\ DOMAIN src = Controllers /\ DOMAIN view = Controllers
            /\ DOMAIN existing = Controllers /\ DOMAIN batch = Controllers
            /\ DOMAIN cache = Controllers
        BY DEF TypeOK
      <3>2. DOMAIN src' = Controllers /\ DOMAIN view' = Controllers
        BY <2>1, <3>1
           DEF ReadRecords, PlanChanges, SourceFails, SubmitApplied,
               SubmitFailed, SplitBatch, GroupApplied, GroupFailed,
               GroupSent, CacheExpires, Restart, SourceChanges, procVars
      <3>3. DOMAIN existing' = Controllers /\ DOMAIN batch' = Controllers
        BY <2>1, <3>1
           DEF ReadRecords, PlanChanges, SourceFails, SubmitApplied,
               SubmitFailed, SplitBatch, GroupApplied, GroupFailed,
               GroupSent, CacheExpires, Restart, SourceChanges, procVars
      <3>4. DOMAIN cache' = Controllers
        BY <2>1, <3>1
           DEF ReadRecords, PlanChanges, SourceFails, SubmitApplied,
               SubmitFailed, SplitBatch, GroupApplied, GroupFailed,
               GroupSent, CacheExpires, Restart, SourceChanges, procVars
      <3> QED
        BY <3>2, <3>3, <3>4
    <2> QED
      BY <2>2, <2>3, <2>4, <2>5, <2>6 DEF TypeOK, ProcOK
  <1> QED
    BY <1>1, <1>2

(* The invariant is inductive.                                             *)
LEMMA StepInv == IInv /\ [Next]_vars => IInv'
  <1> SUFFICES ASSUME IInv, [Next]_vars PROVE IInv'
    OBVIOUS
  <1>1. TypeOK /\ NoOrphanTXT /\ ShapeInv
    BY DEF IInv
  <1>2. ZoneCells(zone') /\ Paired(zone')
    BY <1>1, PairedStep
  <1>3. TypeOK'
    BY <1>1, <1>2, TypeStep
  <1>4. ShapeInv'
    BY <1>1, ShapeStep
  <1> QED
    BY <1>2, <1>3, <1>4 DEF IInv, NoOrphanTXT

(* In every state the zone holds records and TXT records only, and the     *)
(* processes keep to the types of Reconcile.tla, for every provider, with  *)
(* or without cache.                                                       *)
THEOREM ReconcileTypeOK == Spec => []TypeOK
  <1>1. IInv => TypeOK
    BY DEF IInv
  <1> QED
    BY <1>1, InitInv, StepInv, PTL DEF Spec

(* Whatever batches fail, cross or are split: no TXT record stays behind   *)
(* without its record (registry.go: ApplyChanges).                         *)
THEOREM ReconcileNoOrphanTXT == Spec => []NoOrphanTXT
  <1>1. IInv => NoOrphanTXT
    BY DEF IInv
  <1> QED
    BY <1>1, InitInv, StepInv, PTL DEF Spec

-----------------------------------------------------------------------------
(* With one spelling for each name, every batch under way also claims what *)
(* it updates or deletes.                                                  *)
OwnedInv ==
  \A c \in Controllers : BatchOwned(Config[c].ownerID, batch[c])

LEMMA OwnedInit == Init => OwnedInv
  BY DEF Init, OwnedInv, EmptyBatch, BatchOwned

LEMMA OwnedStep ==
  ASSUME OneSpelling, TypeOK, OwnedInv, [Next]_vars
  PROVE  OwnedInv'
  <1> DEFINE Good(c, b) == BatchOwned(Config[c].ownerID, b)
  <1> SUFFICES ASSUME NEW d \in Controllers
               PROVE  Good(d, batch'[d])
    BY DEF OwnedInv
  <1>1. Good(d, batch[d]) /\ DOMAIN batch = Controllers
    BY DEF OwnedInv, TypeOK
  <1>2. \A c \in Controllers : Good(c, EmptyBatch)
    BY DEF EmptyBatch, BatchOwned
  <1>3. CASE UNCHANGED batch
    BY <1>1, <1>3
  <1>4. ASSUME NEW c \in Controllers, NEW b, Good(c, b),
               batch' = [batch EXCEPT ![c] = b]
        PROVE  Good(d, batch'[d])
    <2> HIDE DEF Good
    <2> QED
      BY <1>1, <1>4
  <1>5. ASSUME NEW c \in Controllers, PlanChanges(c)
        PROVE  Good(d, batch'[d])
    <2> DEFINE ch == Calculate(Config[c], view[c], src[c])
               b == Batch(Config[c], existing[c], ch)
    <2>1. ConfigOK(Config[c]) /\ src[c] \in Lists
      BY ReconcileAssumption DEF ConfigOK, TypeOK, Lists
    <2>2. Good(c, b)
      BY <2>1, BatchClaims
    <2>3. batch' = batch \/ batch' = [batch EXCEPT ![c] = b]
      BY <1>5 DEF PlanChanges
    <2> HIDE DEF b, Good
    <2> QED
      BY <1>3, <1>4, <2>2, <2>3
  <1>6. ASSUME NEW c \in Controllers, NEW n, GroupSent(c, n)
        PROVE  Good(d, batch'[d])
    <2> DEFINE b == Group(batch[c], Names(batch[c]) \ {n})
    <2>1. batch' = [batch EXCEPT ![c] = b]
      BY <1>6 DEF GroupSent
    <2>2. Good(c, b)
      BY GroupShape DEF OwnedInv
    <2> HIDE DEF b, Good
    <2> QED
      BY <1>4, <2>1, <2>2
  <1> HIDE DEF Good
  <1>7. CASE UNCHANGED vars
    BY <1>3, <1>7 DEF vars, procVars
  <1>8. CASE Next
    <2>1. PICK c \in Controllers :
            \/ ReadRecords(c) \/ PlanChanges(c) \/ SubmitApplied(c) \/ SubmitFailed(c)
            \/ SourceFails(c) \/ SplitBatch(c)
            \/ \E n \in FilteredNames : GroupApplied(c, n) \/ GroupFailed(c, n)
            \/ CacheExpires(c) \/ Restart(c) \/ SourceChanges(c)
      BY <1>8 DEF Next
    <2>2. CASE \/ ReadRecords(c) \/ SourceFails(c) \/ SplitBatch(c)
               \/ CacheExpires(c) \/ SourceChanges(c)
      BY <1>3, <2>2
         DEF ReadRecords, SourceFails, SplitBatch, CacheExpires, SourceChanges,
             procVars
    <2>3. CASE SubmitApplied(c) \/ SubmitFailed(c) \/ Restart(c)
      BY <1>2, <1>3, <1>4, <2>3 DEF SubmitApplied, SubmitFailed, Restart
    <2>4. CASE PlanChanges(c)
      BY <1>5, <2>4
    <2>5. CASE \E n \in FilteredNames : GroupApplied(c, n) \/ GroupFailed(c, n)
      BY <1>6, <2>5 DEF GroupApplied, GroupFailed
    <2> QED
      BY <2>1, <2>2, <2>3, <2>4, <2>5
  <1> QED
    BY <1>7, <1>8

(* A TXT record that the zone holds says who the owner is.                 *)
LEMMA ClaimHeld ==
  ASSUME NEW z, ZoneCells(z), NEW k, NEW id, NEW E, Claims(id, E, k),
         \A e \in E : Holds(z, e)
  PROVE  LabelsOf(z, k).owner = id
  <1>1. PICK d \in E : d.cell = Txt(k) /\ d.val.tgt.owner = id
    BY DEF Claims
  <1>2. Txt(k) \in DOMAIN z /\ z[Txt(k)].tgt = d.val.tgt
    BY <1>1 DEF Holds
  <1>3. k \in TxtKeys(z)
    BY <1>2, ZoneKeys
  <1> QED
    BY <1>1, <1>2, <1>3 DEF LabelsOf

(* A record that a valid batch changes or removes was held by its owner.   *)
LEMMA ApplyKeepsForeign ==
  ASSUME Provider = "inmemory",
         NEW z, ZoneCells(z), NEW b, ValidBatch(z, b),
         NEW id, BatchOwned(id, b), NEW k, Rec(k) \in DOMAIN z
  PROVE  \/ /\ Rec(k) \in DOMAIN ApplyBatch(z, b)
            /\ ApplyBatch(z, b)[Rec(k)] = z[Rec(k)]
         \/ LabelsOf(z, k).owner = id
  <1>1. CASE Rec(k) \in Cells(b.delete)
    <2>1. Claims(id, b.delete, k)
      BY <1>1, CellKeys DEF BatchOwned, Cells
    <2>2. \A e \in b.delete : Holds(z, e)
      BY DEF ValidBatch
    <2> QED
      BY <2>1, <2>2, ClaimHeld
  <1>2. CASE Rec(k) \in Cells(b.updateNew)
    <2>1. Claims(id, b.updateOld, k)
      BY <1>2, CellKeys DEF BatchOwned, Cells
    <2>2. \A e \in b.updateOld : Holds(z, e)
      BY DEF ValidBatch, UpdatesValid
    <2> QED
      BY <2>1, <2>2, ClaimHeld
  <1>3. CASE Rec(k) \notin Cells(b.delete) /\ Rec(k) \notin Cells(b.updateNew)
    <2>1. Rec(k) \notin Cells(b.create)
      BY DEF ValidBatch
    <2>2. Rec(k) \notin Cells(b.create \union b.updateNew)
      BY <1>3, <2>1 DEF Cells
    <2> QED
      BY <1>3, <2>2 DEF ApplyBatch
  <1> QED
    BY <1>1, <1>2, <1>3

(* Every step keeps the records of others.                                 *)
LEMMA ForeignStep ==
  ASSUME Provider = "inmemory", TypeOK, NoOrphanTXT, ShapeInv, OwnedInv,
         [Next]_vars
  PROVE  KeepsForeign
  <1>1. ZoneCells(zone) /\ ZoneCells(zone')
    BY PairedStep DEF TypeOK
  <1>2. CASE zone' = zone
    BY <1>2 DEF KeepsForeign
  <1>3. ASSUME NEW c \in Controllers, SubmitApplied(c)
        PROVE  KeepsForeign
    <2> SUFFICES ASSUME NEW k \in RecKeys(zone)
                 PROVE  \/ k \in RecKeys(zone') /\ zone'[Rec(k)] = zone[Rec(k)]
                        \/ LabelsOf(zone, k).owner = Config[c].ownerID
      BY <1>3 DEF KeepsForeign
    <2>1. zone' = ApplyBatch(zone, batch[c]) /\ ValidBatch(zone, batch[c])
      BY <1>3 DEF SubmitApplied
    <2>2. BatchOwned(Config[c].ownerID, batch[c])
      BY DEF OwnedInv
    <2>3. Rec(k) \in DOMAIN zone
      BY <1>1, ZoneKeys
    <2>4. \/ Rec(k) \in DOMAIN zone' /\ zone'[Rec(k)] = zone[Rec(k)]
          \/ LabelsOf(zone, k).owner = Config[c].ownerID
      BY <1>1, <2>1, <2>2, <2>3, ApplyKeepsForeign
    <2> QED
      BY <1>1, <2>4, ZoneKeys
  <1>4. ASSUME NEW c \in Controllers, NEW n \in FilteredNames, GroupApplied(c, n)
        PROVE  FALSE
    BY <1>4 DEF GroupApplied, GroupSent, TypeOK
  <1> QED
    BY <1>2, <1>3, <1>4, ZoneStep

(* On a provider that checks what an update replaces, and as long as names *)
(* have one spelling, a record that changes or disappears was held by the  *)
(* process whose batch is applied (docs/faq.md:99), for any number of      *)
(* processes, with or without cache.                                       *)
THEOREM ReconcileForeignRecordsKept ==
  ASSUME Provider = "inmemory", OneSpelling
  PROVE  Spec => ForeignRecordsKept
  <1>1. Init => IInv /\ OwnedInv
    BY InitInv, OwnedInit
  <1>2. IInv /\ OwnedInv /\ [Next]_vars => (IInv /\ OwnedInv)'
    BY StepInv, OwnedStep DEF IInv
  <1>3. IInv /\ OwnedInv /\ [Next]_vars => [KeepsForeign]_vars
    BY ForeignStep DEF IInv
  <1> QED
    BY <1>1, <1>2, <1>3, PTL DEF Spec, ForeignRecordsKept

-----------------------------------------------------------------------------
(***************************************************************************)
(* Ownership in a shared zone, for any number of processes, sources and    *)
(* zones, as long as every name has one spelling:                          *)
(*  - what a process reads, from the zone or from its cache, has one       *)
(*    endpoint for each key;                                               *)
(*  - the processes implement Ownership.tla, on a provider that checks     *)
(*    what an update replaces, and on one that does not (Route 53) if they *)
(*    have no cache and owner ids of their own.                            *)
(***************************************************************************)
(* The endpoint Registry.Records makes of one record.                      *)
RecordAt(p, z, k) ==
  [name |-> k[1], sid |-> k[2], type |-> k[3],
   tgt |-> z[Rec(k)].tgt, ttl |-> z[Rec(k)].ttl,
   ps |-> IF NeedsForceUpdate(p, z, k)
          THEN z[Rec(k)].ps \union {ForceUpdate} ELSE z[Rec(k)].ps,
   owner |-> Migrated(p, LabelsOf(z, k).owner),
   res |-> LabelsOf(z, k).res]

(* The keys of the records of a zone are keys.                             *)
LEMMA ZoneIsKeys ==
  ASSUME NEW z, ZoneCells(z), NEW k \in RecKeys(z)
  PROVE  IsKey(k)
  <1>1. Rec(k) \in DOMAIN z
    BY ZoneKeys
  <1> QED
    BY <1>1, CellKeys DEF ZoneCells

(* Registry.Records: one endpoint for each record of the zone.             *)
LEMMA RecordsParts ==
  ASSUME NEW p, NEW z, ZoneCells(z)
  PROVE  /\ \A k \in RecKeys(z) : /\ RecordAt(p, z, k) \in Records(p, z)
                                  /\ Key(RecordAt(p, z, k)) = k
         /\ \A e \in Records(p, z) : /\ Key(e) \in RecKeys(z)
                                     /\ e = RecordAt(p, z, Key(e))
         /\ UniqueKeys(Records(p, z))
  <1>1. Records(p, z) = {RecordAt(p, z, k) : k \in RecKeys(z)}
    BY DEF Records, RecordAt
  <1>2. \A k \in RecKeys(z) : Key(RecordAt(p, z, k)) = k
    <2> TAKE k \in RecKeys(z)
    <2>1. k = <<k[1], k[2], k[3]>>
      BY ZoneIsKeys DEF IsKey
    <2>2. Key(RecordAt(p, z, k)) = <<k[1], k[2], k[3]>>
      BY DEF Key, RecordAt
    <2> QED
      BY <2>1, <2>2
  <1>3. \A e \in Records(p, z) : Key(e) \in RecKeys(z) /\ e = RecordAt(p, z, Key(e))
    BY <1>1, <1>2
  <1>4. UniqueKeys(Records(p, z))
    BY <1>3 DEF UniqueKeys
  <1> QED
    BY <1>1, <1>2, <1>3, <1>4

(* The cache after a plan made for what it holds: the endpoints that stay, *)
(* the created ones and the new versions of the updated ones.              *)
LEMMA CacheAfterParts ==
  ASSUME NEW p, ConfigOK(p), NEW E, UniqueKeys(E), NEW list \in Lists
  PROVE  LET ch == Calculate(p, E, list)
         IN  \A x : x \in CacheAfter(p, E, ch) <=>
                      \/ x \in E /\ x \notin ch.updateOld /\ x \notin ch.delete
                      \/ x \in Claimed(p, ch.create)
                      \/ x \in ch.updateNew
  <1> DEFINE ch == Calculate(p, E, list)
             new == Claimed(p, ch.create)
  <1>1. /\ ch.updateOld \subseteq E /\ ch.delete \subseteq E
        /\ FilterByOwner(p.ownerID, ch.updateOld) = ch.updateOld
        /\ FilterByOwner(p.ownerID, ch.updateNew) = ch.updateNew
        /\ FilterByOwner(p.ownerID, ch.delete) = ch.delete
    BY PlanOwns
  <1>2. \A x \in new : \A e \in E : Key(x) # Key(e)
    BY CreatesFresh
  <1> HIDE DEF ch, new
  <1>3. CacheAfter(p, E, ch)
          = RemoveFromCache(RemoveFromCache(E \union new, ch.delete), ch.updateOld)
              \union ch.updateNew
    BY <1>1 DEF CacheAfter, new
  <1>4. ASSUME NEW x, NEW R, R \subseteq E
        PROVE  /\ x \in E => ((\E r \in R : Key(x) = Key(r) /\ x.tgt = r.tgt) <=> x \in R)
               /\ x \in new => ~ \E r \in R : Key(x) = Key(r) /\ x.tgt = r.tgt
    BY <1>2, <1>4 DEF UniqueKeys
  <1>5. \A x : x \in RemoveFromCache(RemoveFromCache(E \union new, ch.delete), ch.updateOld)
                 <=> \/ x \in E /\ x \notin ch.updateOld /\ x \notin ch.delete
                     \/ x \in new
    BY <1>1, <1>2, <1>4 DEF RemoveFromCache
  <1> QED
    BY <1>3, <1>5 DEF ch, new

(* It has one endpoint for each key again.                                 *)
LEMMA CacheAfterUnique ==
  ASSUME OneSpelling, NEW p, ConfigOK(p), NEW E, UniqueKeys(E), NEW list \in Lists
  PROVE  UniqueKeys(CacheAfter(p, E, Calculate(p, E, list)))
  <1> DEFINE ch == Calculate(p, E, list)
             new == Claimed(p, ch.create)
             stays == {e \in E : e \notin ch.updateOld /\ e \notin ch.delete}
  <1>1. \A x : x \in CacheAfter(p, E, ch) <=> x \in stays \/ x \in new \/ x \in ch.updateNew
    BY CacheAfterParts
  <1>2. (\A x \in new : \A e \in E : Key(x) # Key(e)) /\ UniqueKeys(new)
    BY CreatesFresh
  <1>3. \A x \in ch.updateNew : \E c \in ch.updateOld :
          Key(c) = Key(x) /\ x = InheritOwner(c, UpdateFor(list, c))
    BY UpdatesInPlace
  <1>4. ch.updateOld \subseteq E
    BY PlanOwns
  <1> HIDE DEF ch, new
  <1>5. ASSUME NEW x \in stays, NEW y \in ch.updateNew PROVE Key(x) # Key(y)
    BY <1>3, <1>4 DEF UniqueKeys
  <1>6. ASSUME NEW x \in ch.updateNew, NEW y \in ch.updateNew, Key(x) = Key(y) PROVE x = y
    BY <1>3, <1>4, <1>6 DEF UniqueKeys
  <1>7. ASSUME NEW x \in new, NEW y \in ch.updateNew PROVE Key(x) # Key(y)
    BY <1>2, <1>3, <1>4
  <1>8. \A x \in stays : x \in E
    OBVIOUS
  <1> HIDE DEF stays
  <1>9. ASSUME NEW x \in CacheAfter(p, E, ch), NEW y \in CacheAfter(p, E, ch), Key(x) = Key(y)
        PROVE  x = y
    BY <1>1, <1>2, <1>5, <1>6, <1>7, <1>8, <1>9 DEF UniqueKeys
  <1> QED
    BY <1>9 DEF UniqueKeys, ch

-----------------------------------------------------------------------------
(* A step is a step of one process, and leaves the others as they are.     *)
StepOf(c) ==
  \/ ReadRecords(c) \/ PlanChanges(c) \/ SubmitApplied(c) \/ SubmitFailed(c)
  \/ SourceFails(c) \/ SplitBatch(c)
  \/ \E n \in FilteredNames : GroupApplied(c, n) \/ GroupFailed(c, n)
  \/ CacheExpires(c) \/ Restart(c) \/ SourceChanges(c)

LEMMA StepOfOne ==
  ASSUME [Next]_vars
  PROVE  UNCHANGED vars \/ \E c \in Controllers : StepOf(c)
  BY DEF Next, StepOf

LEMMA OthersIdle ==
  ASSUME TypeOK, NEW c \in Controllers, StepOf(c), NEW d \in Controllers, d # c
  PROVE  /\ pc'[d] = pc[d] /\ view'[d] = view[d] /\ existing'[d] = existing[d]
         /\ batch'[d] = batch[d] /\ cache'[d] = cache[d] /\ missed'[d] = missed[d]
  <1>1. /\ DOMAIN pc = Controllers /\ DOMAIN view = Controllers
        /\ DOMAIN existing = Controllers /\ DOMAIN batch = Controllers
        /\ DOMAIN cache = Controllers /\ DOMAIN missed = Controllers
    BY DEF TypeOK
  <1>2. CASE ReadRecords(c)
    BY <1>1, <1>2 DEF ReadRecords
  <1>3. CASE PlanChanges(c)
    BY <1>1, <1>3 DEF PlanChanges
  <1>4. CASE SubmitApplied(c) \/ SubmitFailed(c)
    BY <1>1, <1>4 DEF SubmitApplied, SubmitFailed
  <1>5. CASE SourceFails(c) \/ SplitBatch(c)
    BY <1>1, <1>5 DEF SourceFails, SplitBatch
  <1>6. CASE \E n \in FilteredNames : GroupApplied(c, n) \/ GroupFailed(c, n)
    BY <1>1, <1>6 DEF GroupApplied, GroupFailed, GroupSent
  <1>7. CASE CacheExpires(c) \/ Restart(c) \/ SourceChanges(c)
    BY <1>1, <1>7 DEF CacheExpires, Restart, SourceChanges, procVars
  <1> QED
    BY <1>2, <1>3, <1>4, <1>5, <1>6, <1>7 DEF StepOf

-----------------------------------------------------------------------------
(* What a process has read has one endpoint for each key, is what its      *)
(* cache holds until it has planned, and covers the TXT records it saw.    *)
ViewOK(c) ==
  /\ UniqueKeys(view[c]) /\ UniqueKeys(cache[c].eps)
  /\ pc[c] = "plan" /\ cache[c].filled => cache[c].eps = view[c]
  /\ existing[c] \subseteq {Key(e) : e \in view[c]}
ViewInv == \A c \in Controllers : ViewOK(c)

LEMMA ViewInit == Init => ViewInv
  BY DEF Init, ViewInv, ViewOK, UniqueKeys, NoCache

LEMMA ViewStep ==
  ASSUME OneSpelling, TypeOK, NoOrphanTXT, ViewInv, [Next]_vars
  PROVE  ViewInv'
  <1> SUFFICES ASSUME NEW d \in Controllers PROVE ViewOK(d)'
    BY DEF ViewInv
  <1>1. ViewOK(d)
    BY DEF ViewInv
  <1>2. CASE UNCHANGED vars
    BY <1>1, <1>2 DEF vars, procVars, ViewOK
  <1>3. ASSUME NEW c \in Controllers, StepOf(c), c # d
        PROVE  ViewOK(d)'
    BY <1>1, <1>3, OthersIdle DEF ViewOK
  <1>4. ASSUME view'[d] = {}, existing'[d] = {}, pc'[d] # "plan",
               UniqueKeys(cache'[d].eps)
        PROVE  ViewOK(d)'
    BY <1>4 DEF ViewOK, UniqueKeys
  <1>5. ASSUME view'[d] = view[d], existing'[d] = existing[d],
               pc'[d] = "plan" => pc[d] = "plan",
               cache'[d].eps = cache[d].eps, cache'[d].filled = cache[d].filled
        PROVE  ViewOK(d)'
    BY <1>1, <1>5 DEF ViewOK
  <1>6. /\ DOMAIN pc = Controllers /\ DOMAIN view = Controllers
        /\ DOMAIN existing = Controllers /\ DOMAIN cache = Controllers
    BY DEF TypeOK
  <1>7. CASE ReadRecords(d)
    <2>1. /\ pc'[d] = "plan" /\ pc[d] = "idle"
          /\ \/ /\ cache[d].filled /\ view'[d] = cache[d].eps /\ existing'[d] = {}
                /\ cache'[d] = cache[d]
             \/ /\ view'[d] = Records(Config[d], zone) /\ existing'[d] = TxtKeys(zone)
                /\ cache'[d] = IF Caching
                               THEN [filled |-> TRUE, fresh |-> TRUE, eps |-> view'[d]]
                               ELSE NoCache
      BY <1>6, <1>7 DEF ReadRecords
    <2>2. CASE view'[d] = cache[d].eps /\ existing'[d] = {} /\ cache'[d] = cache[d]
      BY <1>1, <2>2 DEF ViewOK
    <2>3. CASE /\ view'[d] = Records(Config[d], zone) /\ existing'[d] = TxtKeys(zone)
               /\ cache'[d] = IF Caching
                              THEN [filled |-> TRUE, fresh |-> TRUE, eps |-> view'[d]]
                              ELSE NoCache
      <3>1. ZoneCells(zone) /\ TxtKeys(zone) \subseteq RecKeys(zone)
        BY DEF TypeOK, NoOrphanTXT, Paired
      <3>2. UniqueKeys(view'[d])
        BY <2>3, <3>1, RecordsParts
      <3>3. existing'[d] \subseteq {Key(e) : e \in view'[d]}
        BY <2>3, <3>1, RecordsParts
      <3>4. /\ UniqueKeys(cache'[d].eps)
            /\ cache'[d].filled => cache'[d].eps = view'[d]
        <4>1. CASE Caching
          BY <2>3, <3>2, <4>1
        <4>2. CASE ~Caching
          BY <2>3, <4>2 DEF NoCache, UniqueKeys
        <4> QED
          BY <4>1, <4>2
      <3> QED
        BY <3>2, <3>3, <3>4 DEF ViewOK
    <2> QED
      BY <2>1, <2>2, <2>3
  <1>8. CASE PlanChanges(d)
    <2> DEFINE ch == Calculate(Config[d], view[d], src[d])
               after == CacheAfter(Config[d], cache[d].eps, ch)
    <2>1. /\ pc[d] = "plan" /\ pc'[d] # "plan" /\ view'[d] = {} /\ existing'[d] = {}
          /\ \/ cache'[d] = cache[d]
             \/ cache' = [cache EXCEPT ![d].eps =
                            IF cache[d].filled THEN after ELSE cache[d].eps]
      BY <1>6, <1>8 DEF PlanChanges
    <2>2. cache[d].filled => UniqueKeys(after)
      <3>1. ConfigOK(Config[d]) /\ src[d] \in Lists
        BY ReconcileAssumption DEF ConfigOK, TypeOK, Lists
      <3>2. cache[d].filled => cache[d].eps = view[d] /\ UniqueKeys(view[d])
        BY <1>1, <2>1 DEF ViewOK
      <3> QED
        BY <3>1, <3>2, CacheAfterUnique
    <2> HIDE DEF ch, after
    <2>3. \/ cache'[d].eps = cache[d].eps
          \/ cache[d].filled /\ cache'[d].eps = after
      <3>1. CASE cache'[d] = cache[d]
        BY <3>1
      <3>2. CASE cache' = [cache EXCEPT ![d].eps =
                             IF cache[d].filled THEN after ELSE cache[d].eps]
        <4>1. cache'[d] = [cache[d] EXCEPT !.eps =
                             IF cache[d].filled THEN after ELSE cache[d].eps]
          BY <1>6, <3>2
        <4>2. cache'[d].eps = IF cache[d].filled THEN after ELSE cache[d].eps
          BY <4>1
        <4> QED
          BY <4>2
      <3> QED
        BY <2>1, <3>1, <3>2
    <2>4. UniqueKeys(cache'[d].eps)
      BY <1>1, <2>2, <2>3 DEF ViewOK
    <2> QED
      BY <1>4, <2>1, <2>4
  <1>9. CASE Restart(d)
    <2>1. UniqueKeys(cache'[d].eps)
      BY <1>6, <1>9 DEF Restart, NoCache, UniqueKeys
    <2> QED
      BY <1>4, <1>6, <1>9, <2>1 DEF Restart
  <1>10. CASE SourceFails(d)
    BY <1>1, <1>4, <1>6, <1>10 DEF SourceFails, ViewOK
  <1>11. CASE CacheExpires(d)
    BY <1>5, <1>6, <1>11 DEF CacheExpires
  <1>12. CASE SubmitApplied(d) \/ SubmitFailed(d) \/ SplitBatch(d) \/ SourceChanges(d)
    BY <1>5, <1>6, <1>12
       DEF SubmitApplied, SubmitFailed, SplitBatch, SourceChanges, procVars
  <1>13. CASE \E n \in FilteredNames : GroupApplied(d, n) \/ GroupFailed(d, n)
    BY <1>5, <1>6, <1>13 DEF GroupApplied, GroupFailed, GroupSent
  <1>14. StepOf(d) => ViewOK(d)'
    BY <1>7, <1>8, <1>9, <1>10, <1>11, <1>12, <1>13 DEF StepOf
  <1> QED
    BY <1>2, <1>3, <1>14, StepOfOne

(* What Registry.Records returns, from the zone or from a cache to which   *)
(* batches that were never applied have been added, has no two endpoints   *)
(* with the same key, for any processes, sources and zones, on either      *)
(* provider.                                                               *)
THEOREM ReconcileViewUnique ==
  ASSUME OneSpelling
  PROVE  Spec => []ViewUnique
  <1>1. Init => IInv /\ ViewInv
    BY InitInv, ViewInit
  <1>2. IInv /\ ViewInv /\ [Next]_vars => (IInv /\ ViewInv)'
    BY StepInv, ViewStep DEF IInv
  <1>3. ViewInv => ViewUnique
    BY DEF ViewInv, ViewOK, ViewUnique, UniqueKeys
  <1> QED
    BY <1>1, <1>2, <1>3, PTL DEF Spec

-----------------------------------------------------------------------------
(* Whatever a batch does to a record, it also does to its TXT record, and  *)
(* the TXT records it writes name its own owner.                           *)
Whole(E) == \A e \in E : Rec(e.cell[2]) \in Cells(E) /\ Txt(e.cell[2]) \in Cells(E)
Marked(id, E) == \A e \in E : \A k : e.cell = Txt(k) => e.val.tgt.owner = id
BatchWhole(b) == Whole(b.create) /\ Whole(b.updateNew) /\ Whole(b.delete)
BatchMarks(id, b) == Marked(id, b.create) /\ Marked(id, b.updateNew)
WholeInv ==
  \A c \in Controllers :
    BatchWhole(batch[c]) /\ BatchMarks(Config[c].ownerID, batch[c])

(* The entries of endpoints of this owner.                                 *)
LEMMA WithTXTWhole ==
  ASSUME NEW p, NEW E, \A e \in E : e.owner = p.ownerID
  PROVE  Whole(WithTXT(p, E)) /\ Marked(p.ownerID, WithTXT(p, E))
  <1>1. ASSUME NEW d \in WithTXT(p, E)
        PROVE  /\ Rec(d.cell[2]) \in Cells(WithTXT(p, E))
               /\ Txt(d.cell[2]) \in Cells(WithTXT(p, E))
    <2>1. PICK e \in E : /\ d.cell[2] = Key(e)
                         /\ RecEntry(e) \in WithTXT(p, E)
                         /\ TXTEntry(p, e) \in WithTXT(p, E)
      BY WithTXTPairs
    <2> QED
      BY <2>1, EntryCells DEF Cells
  <1>2. ASSUME NEW d \in WithTXT(p, E), NEW k, d.cell = Txt(k)
        PROVE  d.val.tgt.owner = p.ownerID
    <2>1. PICK e \in E : d = RecEntry(e) \/ d = TXTEntry(p, e)
      BY DEF WithTXT
    <2>2. d = TXTEntry(p, e)
      BY <1>2, <2>1, EntryCells, CellKeys
    <2>3. d.val.tgt.owner = Migrated(p, e.owner)
      BY <2>2 DEF TXTEntry
    <2> QED
      BY <2>3 DEF Migrated
  <1> QED
    BY <1>1, <1>2 DEF Whole, Marked

(* A batch made from a plan is whole: a TXT record that was there when the *)
(* zone was read belongs to a record that the plan does not create.        *)
LEMMA BatchMade ==
  ASSUME NEW p, ConfigOK(p), NEW E, NEW list \in Lists,
         NEW seen, seen \subseteq {Key(e) : e \in E}
  PROVE  LET ch == Calculate(p, E, list)
             b == Batch(p, seen, ch)
         IN  /\ b.create = WithTXT(p, Claimed(p, ch.create))
             /\ b.updateOld = WithTXT(p, ch.updateOld)
             /\ b.updateNew = WithTXT(p, ch.updateNew)
             /\ b.delete = WithTXT(p, ch.delete)
             /\ BatchWhole(b) /\ BatchMarks(p.ownerID, b)
  <1> DEFINE ch == Calculate(p, E, list)
             b == Batch(p, seen, ch)
             new == Claimed(p, ch.create)
  <1>1. /\ \A x \in new : \A e \in E : Key(x) # Key(e)
        /\ \A x \in new : x.owner = p.ownerID
    BY CreatesFresh
  <1>2. {d \in new : Key(d) \notin seen} = new
    <2> HIDE DEF new
    <2> QED
      BY <1>1
  <1>3. b.create = WithTXT(p, new)
    <2>1. b.create = {RecEntry(e) : e \in new} \union
                       {TXTEntry(p, e) : e \in {d \in new : Key(d) \notin seen}}
      BY DEF Batch
    <2> HIDE DEF new, b
    <2> QED
      BY <1>2, <2>1 DEF WithTXT
  <1>4. /\ FilterByOwner(p.ownerID, ch.updateOld) = ch.updateOld
        /\ FilterByOwner(p.ownerID, ch.updateNew) = ch.updateNew
        /\ FilterByOwner(p.ownerID, ch.delete) = ch.delete
    BY PlanOwns
  <1>5. /\ b.updateOld = WithTXT(p, ch.updateOld)
        /\ b.updateNew = WithTXT(p, ch.updateNew)
        /\ b.delete = WithTXT(p, ch.delete)
    <2>1. /\ b.updateOld = WithTXT(p, FilterByOwner(p.ownerID, ch.updateOld))
          /\ b.updateNew = WithTXT(p, FilterByOwner(p.ownerID, ch.updateNew))
          /\ b.delete = WithTXT(p, FilterByOwner(p.ownerID, ch.delete))
      BY DEF Batch
    <2> HIDE DEF b, ch
    <2> QED
      BY <1>4, <2>1
  <1> HIDE DEF b, ch, new
  <1>6. \A x \in ch.updateNew \union ch.delete : x.owner = p.ownerID
    BY <1>4 DEF FilterByOwner, IsOwnedBy
  <1>7. Whole(b.create) /\ Marked(p.ownerID, b.create)
    BY <1>1, <1>3, WithTXTWhole
  <1>8. Whole(b.updateNew) /\ Marked(p.ownerID, b.updateNew)
    BY <1>5, <1>6, WithTXTWhole
  <1>9. Whole(b.delete)
    BY <1>5, <1>6, WithTXTWhole
  <1> QED
    BY <1>3, <1>5, <1>7, <1>8, <1>9 DEF BatchWhole, BatchMarks, b, ch, new

(* Splitting by names keeps batches whole.                                 *)
LEMMA GroupWhole ==
  ASSUME NEW b, NEW N, NEW id, BatchWhole(b), BatchMarks(id, b)
  PROVE  BatchWhole(Group(b, N)) /\ BatchMarks(id, Group(b, N))
  <1>1. ASSUME NEW E, Whole(E)
        PROVE  Whole({e \in E : NameOf(e) \in N})
    <2> DEFINE F == {e \in E : NameOf(e) \in N}
    <2>1. ASSUME NEW e \in F, NEW x \in {Rec(e.cell[2]), Txt(e.cell[2])}
          PROVE  x \in Cells(F)
      <3>1. PICK d \in E : d.cell = x
        BY <1>1, <2>1 DEF Whole, Cells
      <3>2. d.cell[2] = e.cell[2]
        BY <2>1, <3>1, CellKeys
      <3>3. NameOf(d) = NameOf(e)
        BY <3>2 DEF NameOf
      <3>4. d \in F
        BY <2>1, <3>3
      <3> QED
        BY <3>1, <3>4 DEF Cells
    <2> HIDE DEF F
    <2>2. Whole(F)
      BY <2>1 DEF Whole
    <2> QED
      BY <2>2 DEF F
  <1>2. ASSUME NEW E, Marked(id, E)
        PROVE  Marked(id, {e \in E : NameOf(e) \in N})
    BY <1>2 DEF Marked
  <1> QED
    BY <1>1, <1>2 DEF BatchWhole, BatchMarks, Group

LEMMA WholeInit == Init => WholeInv
  BY DEF Init, WholeInv, EmptyBatch, BatchWhole, BatchMarks, Whole, Marked

LEMMA WholeStep ==
  ASSUME TypeOK, ViewInv, WholeInv, [Next]_vars
  PROVE  WholeInv'
  <1> DEFINE Good(c, b) == BatchWhole(b) /\ BatchMarks(Config[c].ownerID, b)
  <1> SUFFICES ASSUME NEW d \in Controllers PROVE Good(d, batch'[d])
    BY DEF WholeInv
  <1>1. Good(d, batch[d]) /\ DOMAIN batch = Controllers
    BY DEF WholeInv, TypeOK
  <1>2. Good(d, EmptyBatch)
    BY DEF EmptyBatch, BatchWhole, BatchMarks, Whole, Marked
  <1>3. CASE PlanChanges(d)
    <2> DEFINE b == Batch(Config[d], existing[d], Calculate(Config[d], view[d], src[d]))
    <2>1. batch'[d] = batch[d] \/ batch'[d] = b
      BY <1>1, <1>3 DEF PlanChanges
    <2>2. ConfigOK(Config[d]) /\ src[d] \in Lists
      BY ReconcileAssumption DEF ConfigOK, TypeOK, Lists
    <2>3. existing[d] \subseteq {Key(e) : e \in view[d]}
      BY DEF ViewInv, ViewOK
    <2>4. Good(d, b)
      BY <2>2, <2>3, BatchMade
    <2> HIDE DEF b, Good
    <2> QED
      BY <1>1, <2>1, <2>4
  <1>4. ASSUME NEW n, GroupSent(d, n)
        PROVE  Good(d, batch'[d])
    <2>1. batch'[d] = Group(batch[d], Names(batch[d]) \ {n})
      BY <1>1, <1>4 DEF GroupSent
    <2> QED
      BY <1>1, <2>1, GroupWhole
  <1> HIDE DEF Good
  <1>5. CASE batch'[d] = batch[d] \/ batch'[d] = EmptyBatch
    BY <1>1, <1>2, <1>5
  <1>6. CASE UNCHANGED vars
    BY <1>5, <1>6 DEF vars, procVars
  <1>7. ASSUME NEW c \in Controllers, StepOf(c), c # d
        PROVE  Good(d, batch'[d])
    BY <1>5, <1>7, OthersIdle
  <1>8. CASE StepOf(d)
    <2>1. CASE \/ ReadRecords(d) \/ SourceFails(d) \/ SplitBatch(d)
               \/ CacheExpires(d) \/ SourceChanges(d)
      BY <1>5, <2>1
         DEF ReadRecords, SourceFails, SplitBatch, CacheExpires, SourceChanges,
             procVars
    <2>2. CASE SubmitApplied(d) \/ SubmitFailed(d) \/ Restart(d)
      BY <1>1, <1>5, <2>2 DEF SubmitApplied, SubmitFailed, Restart
    <2>3. CASE \E n \in FilteredNames : GroupApplied(d, n) \/ GroupFailed(d, n)
      BY <1>4, <2>3 DEF GroupApplied, GroupFailed
    <2> QED
      BY <1>3, <1>8, <2>1, <2>2, <2>3 DEF StepOf
  <1> QED
    BY <1>6, <1>7, <1>8, StepOfOne

-----------------------------------------------------------------------------
(* What one batch may do to one record.                                    *)

(* The record of k is in the zone, and id is its owner.                    *)
Held(z, k, id) == Rec(k) \in DOMAIN z /\ LabelsOf(z, k).owner = id

(* The record of k and its TXT record are the same in both zones.          *)
SameAt(z, y, k) ==
  /\ Rec(k) \in DOMAIN z <=> Rec(k) \in DOMAIN y
  /\ Txt(k) \in DOMAIN z <=> Txt(k) \in DOMAIN y
  /\ Rec(k) \in DOMAIN z => y[Rec(k)] = z[Rec(k)]
  /\ Txt(k) \in DOMAIN z => y[Txt(k)] = z[Txt(k)]

(* The keys of a batch.                                                    *)
BatchKeys(b) == {e.cell[2] : e \in b.create \union b.updateNew \union b.delete}

(* Labels depend on the TXT record only.                                   *)
LEMMA SameLabels ==
  ASSUME NEW z, ZoneCells(z), NEW y, ZoneCells(y), NEW k, SameAt(z, y, k)
  PROVE  LabelsOf(y, k) = LabelsOf(z, k)
  <1>1. k \in TxtKeys(z) <=> k \in TxtKeys(y)
    BY ZoneKeys DEF SameAt
  <1>2. k \in TxtKeys(z) => y[Txt(k)] = z[Txt(k)]
    BY ZoneKeys DEF SameAt
  <1> QED
    BY <1>1, <1>2 DEF LabelsOf

(* A batch leaves the records of other keys alone.                         *)
LEMMA ApplyElsewhere ==
  ASSUME NEW z, NEW b, NEW k, k \notin BatchKeys(b)
  PROVE  SameAt(z, ApplyBatch(z, b), k)
  <1>1. \A E \in {b.create, b.updateNew, b.delete} :
          Rec(k) \notin Cells(E) /\ Txt(k) \notin Cells(E)
    BY CellKeys DEF BatchKeys, Cells
  <1>2. Rec(k) \notin Cells(b.create \union b.updateNew)
        /\ Txt(k) \notin Cells(b.create \union b.updateNew)
    BY <1>1 DEF Cells
  <1> QED
    BY <1>1, <1>2 DEF SameAt, ApplyBatch

(* A cell that is written has the value of one of its entries.             *)
LEMMA ApplyWritten ==
  ASSUME NEW z, NEW b, NEW d \in Cells(b.create \union b.updateNew),
         d \notin Cells(b.delete)
  PROVE  /\ d \in DOMAIN ApplyBatch(z, b)
         /\ \E e \in b.create \union b.updateNew :
              e.cell = d /\ ApplyBatch(z, b)[d] = e.val
  BY DEF ApplyBatch, Cells

(* A batch takes the records that were free or held by its owner, and      *)
(* leaves them free or held by it.                                         *)
LEMMA ApplyTouches ==
  ASSUME NEW z, ZoneCells(z), NEW b, ZoneCells(ApplyBatch(z, b)), ValidBatch(z, b),
         BatchWhole(b), NEW id, BatchMarks(id, b), BatchOwned(id, b),
         \A e \in b.updateNew : Held(z, e.cell[2], id),
         NEW k \in BatchKeys(b)
  PROVE  /\ Rec(k) \in DOMAIN z => LabelsOf(z, k).owner = id
         /\ Rec(k) \in DOMAIN ApplyBatch(z, b) => LabelsOf(ApplyBatch(z, b), k).owner = id
         /\ Rec(k) \in DOMAIN ApplyBatch(z, b) <=>
              \E e \in b.create \union b.updateNew : e.cell[2] = k
  <1> DEFINE y == ApplyBatch(z, b)
             W == b.create \union b.updateNew
  <1>1. PICK e \in b.create \union b.updateNew \union b.delete : e.cell[2] = k
    BY DEF BatchKeys
  <1>2. ASSUME NEW d \in b.delete, d.cell[2] = k
        PROVE  /\ LabelsOf(z, k).owner = id /\ Rec(k) \notin DOMAIN y
               /\ \A x \in W : x.cell[2] # k
    <2>1. Claims(id, b.delete, k)
      BY <1>2 DEF BatchOwned
    <2>2. \A x \in b.delete : Holds(z, x)
      BY DEF ValidBatch
    <2>3. LabelsOf(z, k).owner = id
      BY <2>1, <2>2, ClaimHeld
    <2>4. Rec(k) \in Cells(b.delete)
      BY <1>2 DEF BatchWhole, Whole
    <2>5. Rec(k) \notin DOMAIN y
      BY <2>4, ApplyDomain
    <2>6. ASSUME NEW x \in W, x.cell[2] = k PROVE FALSE
      <3>1. Rec(k) \in Cells(W)
        BY <2>6 DEF BatchWhole, Whole, Cells
      <3> QED
        BY <2>4, <3>1 DEF ValidBatch, NoOverlap
    <2> QED
      BY <2>3, <2>5, <2>6
  <1>3. ASSUME NEW d \in W, d.cell[2] = k
        PROVE  LabelsOf(y, k).owner = id /\ Rec(k) \in DOMAIN y
    <2>1. Rec(k) \in Cells(W) /\ Txt(k) \in Cells(W)
      BY <1>3 DEF BatchWhole, Whole, Cells
    <2>2. Cells(W) \intersect Cells(b.delete) = {}
      BY DEF ValidBatch, NoOverlap
    <2>3. Rec(k) \in DOMAIN y
      BY <2>1, <2>2, ApplyWritten
    <2>4. PICK x \in W : x.cell = Txt(k) /\ y[Txt(k)] = x.val
      <3>1. Txt(k) \notin Cells(b.delete)
        BY <2>1, <2>2
      <3>2. \E x \in b.create \union b.updateNew :
              x.cell = Txt(k) /\ ApplyBatch(z, b)[Txt(k)] = x.val
        BY <2>1, <3>1, ApplyWritten
      <3> QED
        BY <3>2
    <2>5. Txt(k) \in DOMAIN y
      BY <2>1, <2>2, ApplyWritten
    <2>6. y[Txt(k)].tgt.owner = id
      BY <2>4 DEF BatchMarks, Marked
    <2>7. k \in TxtKeys(y)
      BY <2>5, ZoneKeys
    <2> HIDE DEF y
    <2> QED
      BY <2>3, <2>6, <2>7 DEF LabelsOf
  <1>4. ASSUME NEW d \in b.create, d.cell[2] = k
        PROVE  Rec(k) \notin DOMAIN z
    <2>1. Rec(k) \in Cells(b.create)
      BY <1>4 DEF BatchWhole, Whole
    <2> QED
      BY <2>1 DEF ValidBatch
  <1>5. ASSUME NEW d \in b.updateNew, d.cell[2] = k
        PROVE  LabelsOf(z, k).owner = id
    BY <1>5 DEF Held
  <1> HIDE DEF y
  <1>6. Rec(k) \in DOMAIN z => LabelsOf(z, k).owner = id
    BY <1>1, <1>2, <1>4, <1>5
  <1>7. Rec(k) \in DOMAIN y => LabelsOf(y, k).owner = id
    BY <1>1, <1>2, <1>3
  <1>8. Rec(k) \in DOMAIN y <=> \E d \in W : d.cell[2] = k
    BY <1>1, <1>2, <1>3
  <1> QED
    BY <1>6, <1>7, <1>8 DEF y

(* If the provider checks what an update replaces, an update is for a      *)
(* record held.                                                            *)
LEMMA ClaimsHeld ==
  ASSUME Provider = "inmemory", NEW z, ZoneCells(z), NEW b, ValidBatch(z, b),
         NEW id, BatchOwned(id, b), BatchWhole(b),
         NEW e \in b.updateNew
  PROVE  Held(z, e.cell[2], id)
  <1>1. Claims(id, b.updateOld, e.cell[2])
    BY DEF BatchOwned
  <1>2. \A d \in b.updateOld : Holds(z, d)
    BY DEF ValidBatch, UpdatesValid
  <1>3. LabelsOf(z, e.cell[2]).owner = id
    BY <1>1, <1>2, ClaimHeld
  <1>4. Rec(e.cell[2]) \in DOMAIN z
    BY DEF BatchWhole, Whole, ValidBatch, UpdatesValid
  <1> QED
    BY <1>3, <1>4 DEF Held

-----------------------------------------------------------------------------
(* The refinement of Ownership.tla.                                        *)

(* From zone z to zone y, owner id claims free records and changes or      *)
(* releases its own.                                                       *)
OwnerStep(id, z, y) ==
  \A k : \/ SameAt(z, y, k)
         \/ /\ Rec(k) \in DOMAIN z => LabelsOf(z, k).owner = id
            /\ Rec(k) \in DOMAIN y => LabelsOf(y, k).owner = id

LEMMA ApplyOwner ==
  ASSUME NEW z, ZoneCells(z), NEW b, ZoneCells(ApplyBatch(z, b)), ValidBatch(z, b),
         BatchWhole(b), NEW id, BatchMarks(id, b), BatchOwned(id, b),
         \A e \in b.updateNew : Held(z, e.cell[2], id)
  PROVE  OwnerStep(id, z, ApplyBatch(z, b))
  <1> DEFINE y == ApplyBatch(z, b)
  <1>1. ASSUME NEW k, k \notin BatchKeys(b) PROVE SameAt(z, y, k)
    BY <1>1, ApplyElsewhere
  <1>2. ASSUME NEW k \in BatchKeys(b)
        PROVE  /\ Rec(k) \in DOMAIN z => LabelsOf(z, k).owner = id
               /\ Rec(k) \in DOMAIN y => LabelsOf(y, k).owner = id
    BY ApplyTouches
  <1> HIDE DEF y
  <1>3. OwnerStep(id, z, y)
    BY <1>1, <1>2 DEF OwnerStep
  <1> QED
    BY <1>3 DEF y

(* Such a step is one the promise allows.                                  *)
LEMMA PromiseStep ==
  ASSUME ZoneCells(zone), ZoneCells(zone'), NEW c \in Controllers,
         OwnerStep(Config[c].ownerID, zone, zone')
  PROVE  Promise!Next
  <1> DEFINE id == Config[c].ownerID
  <1>1. /\ Promise!Used = RecKeys(zone) /\ (Promise!Used)' = RecKeys(zone')
    BY DEF Promise!Used, Holder
  <1>2. \A k : /\ k \in RecKeys(zone) => /\ Holder[k] = LabelsOf(zone, k).owner
                                         /\ Content[k] = zone[Rec(k)]
               /\ k \in RecKeys(zone') => /\ Holder'[k] = LabelsOf(zone', k).owner
                                          /\ Content'[k] = zone'[Rec(k)]
    BY DEF Holder, Content
  <1>3. \A k : /\ k \in RecKeys(zone) <=> Rec(k) \in DOMAIN zone
               /\ k \in RecKeys(zone') <=> Rec(k) \in DOMAIN zone'
    BY ZoneKeys
  <1>4. ASSUME NEW k
        PROVE  Promise!Unchanged(k) \/ Promise!MayTouch(id, k)
    <2>1. CASE SameAt(zone, zone', k)
      <3>1. LabelsOf(zone', k) = LabelsOf(zone, k)
        BY <2>1, SameLabels
      <3>2. Promise!Unchanged(k)
        BY <1>1, <1>2, <1>3, <2>1, <3>1 DEF SameAt, Promise!Unchanged
      <3> QED
        BY <3>2
    <2>2. CASE /\ Rec(k) \in DOMAIN zone => LabelsOf(zone, k).owner = id
               /\ Rec(k) \in DOMAIN zone' => LabelsOf(zone', k).owner = id
      <3>1. Promise!MayTouch(id, k)
        BY <1>1, <1>2, <1>3, <2>2 DEF Promise!MayTouch
      <3> QED
        BY <3>1
    <2> QED
      BY <2>1, <2>2 DEF OwnerStep
  <1>5. Promise!Step(id)
    BY <1>4 DEF Promise!Step
  <1> QED
    BY <1>5 DEF Promise!Next

(* On a provider that checks updates, every batch that is applied is one.  *)
LEMMA OwnerStepChecked ==
  ASSUME Provider = "inmemory", IInv, OwnedInv, WholeInv, [Next]_vars
  PROVE  [Promise!Next]_<<Holder, Content>>
  <1>1. ZoneCells(zone) /\ ZoneCells(zone')
    BY PairedStep DEF IInv, TypeOK
  <1>2. CASE zone' = zone
    BY <1>2 DEF Holder, Content
  <1>3. ASSUME NEW c \in Controllers, SubmitApplied(c)
        PROVE  Promise!Next
    <2> DEFINE b == batch[c]
               id == Config[c].ownerID
    <2>1. zone' = ApplyBatch(zone, b) /\ ValidBatch(zone, b)
      BY <1>3 DEF SubmitApplied
    <2>2. BatchOwned(id, b) /\ BatchWhole(b) /\ BatchMarks(id, b)
      BY DEF OwnedInv, WholeInv
    <2> HIDE DEF b
    <2>3. \A e \in b.updateNew : Held(zone, e.cell[2], id)
      BY <1>1, <2>1, <2>2, ClaimsHeld
    <2>4. OwnerStep(id, zone, zone')
      BY <1>1, <2>1, <2>2, <2>3, ApplyOwner
    <2> QED
      BY <1>1, <2>4, PromiseStep
  <1>4. ASSUME NEW c \in Controllers, NEW n \in FilteredNames, GroupApplied(c, n)
        PROVE  FALSE
    BY <1>4 DEF GroupApplied, GroupSent, IInv, TypeOK
  <1> QED
    BY <1>2, <1>3, <1>4, ZoneStep

(* On a provider that checks what an update replaces, the processes        *)
(* implement the promise of Ownership.tla, with caches however stale,      *)
(* failed batches and restarts, migrations and shared owner ids included:  *)
(* in each step one owner claims free records and changes its own.         *)
THEOREM ReconcileOwnershipKept ==
  ASSUME Provider = "inmemory", OneSpelling
  PROVE  Spec => OwnershipKept
  <1> DEFINE Inv == IInv /\ OwnedInv /\ ViewInv /\ WholeInv
  <1>1. Init => Inv
    BY InitInv, OwnedInit, ViewInit, WholeInit
  <1>2. Inv /\ [Next]_vars => Inv'
    BY StepInv, OwnedStep, ViewStep, WholeStep DEF IInv
  <1>3. Init => Promise!Init
    BY DEF Promise!Init, Promise!Used, Holder, Content
  <1>4. Inv /\ [Next]_vars => [Promise!Next]_<<Holder, Content>>
    BY OwnerStepChecked
  <1> HIDE DEF Inv
  <1> QED
    BY <1>1, <1>2, <1>3, <1>4, PTL DEF Spec, OwnershipKept, Promise!Spec

-----------------------------------------------------------------------------
(* Route 53 does not check what an UPSERT replaces.  Without a cache, what *)
(* a process has read as its own stays its own until its batch is applied, *)
(* because nobody else may touch it: if no other process has its owner id, *)
(* and if it takes over no records of an old one.                          *)
DistinctOwners ==
  \A c, d \in Controllers : Config[c].ownerID = Config[d].ownerID => c = d
NoMigration == \A c \in Controllers : Config[c].oldOwnerID = ""

HoldsView(c, z) ==
  \A e \in view[c] : e.owner = Config[c].ownerID => Held(z, Key(e), Config[c].ownerID)
HoldsBatch(id, b, z) == \A e \in b.updateNew : Held(z, e.cell[2], id)
HeldInv ==
  \A c \in Controllers :
    HoldsView(c, zone) /\ HoldsBatch(Config[c].ownerID, batch[c], zone)

LEMMA HeldInit == Init => HeldInv
  BY DEF Init, HeldInv, HoldsView, HoldsBatch, EmptyBatch

(* What somebody holds survives the steps of other owners.                 *)
LEMMA HeldStays ==
  ASSUME NEW z, ZoneCells(z), NEW y, ZoneCells(y), NEW id, NEW other, other # id,
         OwnerStep(other, z, y), NEW k, Held(z, k, id)
  PROVE  Held(y, k, id)
  <1>1. SameAt(z, y, k)
    BY DEF OwnerStep, Held
  <1> QED
    BY <1>1, SameLabels DEF SameAt, Held

(* The part of a batch with the names in N.                                *)
LEMMA GroupParts ==
  ASSUME NEW b, NEW N
  PROVE  /\ Group(b, N).updateNew \subseteq b.updateNew
         /\ \A k \in BatchKeys(Group(b, N)) : k[1] \in N
         /\ \A e \in Group(b, N).updateNew : e.cell[2] \in BatchKeys(Group(b, N))
  BY DEF Group, BatchKeys, NameOf

(* An applied batch, whole or of one name, is a step of its owner.         *)
LEMMA BatchSteps ==
  ASSUME IInv, OwnedInv, WholeInv, HeldInv, NEW c \in Controllers,
         NEW b, \/ b = batch[c]
                \/ \E n : b = Group(batch[c], {n}),
         ValidBatch(zone, b), zone' = ApplyBatch(zone, b), ZoneCells(zone')
  PROVE  /\ OwnerStep(Config[c].ownerID, zone, zone')
         /\ \A e \in b.updateNew : Held(zone', e.cell[2], Config[c].ownerID)
         /\ \A k : k \notin BatchKeys(b) => SameAt(zone, zone', k)
  <1> DEFINE id == Config[c].ownerID
  <1>1. ZoneCells(zone)
    BY DEF IInv, TypeOK
  <1>2. /\ BatchOwned(id, batch[c]) /\ BatchWhole(batch[c]) /\ BatchMarks(id, batch[c])
        /\ HoldsBatch(id, batch[c], zone)
    BY DEF OwnedInv, WholeInv, HeldInv
  <1>3. BatchOwned(id, b) /\ BatchWhole(b) /\ BatchMarks(id, b) /\ HoldsBatch(id, b, zone)
    <2>1. CASE b = batch[c]
      BY <1>2, <2>1
    <2>2. ASSUME NEW n, b = Group(batch[c], {n})
          PROVE  /\ BatchOwned(id, b) /\ BatchWhole(b) /\ BatchMarks(id, b)
                 /\ HoldsBatch(id, b, zone)
      <3> DEFINE g == Group(batch[c], {n})
      <3>1. BatchOwned(id, g)
        BY <1>2, GroupShape
      <3>2. BatchWhole(g) /\ BatchMarks(id, g)
        BY <1>2, GroupWhole
      <3>3. HoldsBatch(id, g, zone)
        BY <1>2, GroupParts DEF HoldsBatch
      <3> HIDE DEF g
      <3> QED
        BY <2>2, <3>1, <3>2, <3>3 DEF g
    <2> QED
      BY <2>1, <2>2
  <1>4. OwnerStep(id, zone, zone')
    BY <1>1, <1>3, ApplyOwner DEF HoldsBatch
  <1>5. ASSUME NEW e \in b.updateNew PROVE Held(zone', e.cell[2], id)
    <2>1. e.cell[2] \in BatchKeys(b)
      BY DEF BatchKeys
    <2>2. /\ Rec(e.cell[2]) \in DOMAIN zone' => LabelsOf(zone', e.cell[2]).owner = id
          /\ Rec(e.cell[2]) \in DOMAIN zone' <=>
               \E d \in b.create \union b.updateNew : d.cell[2] = e.cell[2]
      BY <1>1, <1>3, <2>1, ApplyTouches DEF HoldsBatch
    <2> QED
      BY <2>2 DEF Held
  <1>6. \A k : k \notin BatchKeys(b) => SameAt(zone, zone', k)
    BY ApplyElsewhere
  <1> QED
    BY <1>4, <1>5, <1>6

(* The updates of a plan are for endpoints the process has read as its own.*)
LEMMA PlanHolds ==
  ASSUME OneSpelling, NEW p, ConfigOK(p), NEW E, NEW list \in Lists, NEW seen,
         seen \subseteq {Key(e) : e \in E}, NEW z,
         \A e \in E : e.owner = p.ownerID => Held(z, Key(e), p.ownerID)
  PROVE  HoldsBatch(p.ownerID, Batch(p, seen, Calculate(p, E, list)), z)
  <1> DEFINE ch == Calculate(p, E, list)
             b == Batch(p, seen, ch)
  <1>1. b.updateNew = WithTXT(p, ch.updateNew)
    BY BatchMade
  <1>2. /\ ch.updateOld \subseteq E
        /\ FilterByOwner(p.ownerID, ch.updateOld) = ch.updateOld
    BY PlanOwns
  <1>3. \A x \in ch.updateNew : \E c \in ch.updateOld : Key(c) = Key(x)
    BY UpdatesInPlace
  <1> HIDE DEF ch, b
  <1>4. ASSUME NEW d \in b.updateNew PROVE Held(z, d.cell[2], p.ownerID)
    <2>1. PICK x \in ch.updateNew : d.cell[2] = Key(x)
      <3> DEFINE N == ch.updateNew
      <3>1. d \in WithTXT(p, N)
        BY <1>1
      <3> HIDE DEF N
      <3>2. \E x \in N : d.cell[2] = Key(x) /\ TXTEntry(p, x) \in WithTXT(p, N)
        BY <3>1, WithTXTPairs
      <3> QED
        BY <3>2 DEF N
    <2>2. PICK c \in ch.updateOld : Key(c) = Key(x)
      BY <1>3
    <2>3. c \in E /\ c.owner = p.ownerID
      BY <1>2 DEF FilterByOwner, IsOwnedBy
    <2> QED
      BY <2>1, <2>2, <2>3
  <1> QED
    BY <1>4 DEF HoldsBatch, b, ch

(* An applied batch, by c: what its owner step is.                         *)
LEMMA ZoneStepOf ==
  ASSUME IInv, OwnedInv, WholeInv, HeldInv, ZoneCells(zone'),
         NEW c \in Controllers, StepOf(c)
  PROVE  zone' = zone \/ OwnerStep(Config[c].ownerID, zone, zone')
  <1>1. CASE SubmitApplied(c)
    BY <1>1, BatchSteps DEF SubmitApplied
  <1>2. ASSUME NEW n \in FilteredNames, GroupApplied(c, n)
        PROVE  OwnerStep(Config[c].ownerID, zone, zone')
    BY <1>2, BatchSteps DEF GroupApplied
  <1>3. CASE \/ ReadRecords(c) \/ PlanChanges(c) \/ SubmitFailed(c) \/ SourceFails(c)
             \/ SplitBatch(c) \/ CacheExpires(c) \/ Restart(c) \/ SourceChanges(c)
             \/ \E n \in FilteredNames : GroupFailed(c, n)
    BY <1>3 DEF ReadRecords, PlanChanges, SourceFails, SubmitFailed, SplitBatch,
         GroupFailed, CacheExpires, Restart, SourceChanges
  <1> QED
    BY <1>1, <1>2, <1>3 DEF StepOf

LEMMA HeldStep ==
  ASSUME ~Caching, OneSpelling, DistinctOwners, NoMigration,
         IInv, OwnedInv, ViewInv, WholeInv, HeldInv, [Next]_vars
  PROVE  HeldInv'
  <1> SUFFICES ASSUME NEW d \in Controllers
               PROVE  HoldsView(d, zone)' /\ HoldsBatch(Config[d].ownerID, batch'[d], zone')
    BY DEF HeldInv
  <1> DEFINE id == Config[d].ownerID
             Goal == HoldsView(d, zone)' /\ HoldsBatch(id, batch'[d], zone')
  <1>0. TypeOK /\ ZoneCells(zone) /\ ZoneCells(zone')
    BY PairedStep DEF IInv, TypeOK
  <1>1. HoldsView(d, zone) /\ HoldsBatch(id, batch[d], zone)
    BY DEF HeldInv
  <1>2. CASE UNCHANGED vars
    BY <1>1, <1>2 DEF vars, procVars, HoldsView, HoldsBatch
  <1>3. ASSUME NEW c \in Controllers, StepOf(c), c # d
        PROVE  Goal
    <2>1. view'[d] = view[d] /\ batch'[d] = batch[d]
      BY <1>0, <1>3, OthersIdle
    <2>2. CASE zone' = zone
      BY <1>1, <2>1, <2>2 DEF HoldsView, HoldsBatch
    <2>3. CASE OwnerStep(Config[c].ownerID, zone, zone')
      <3>1. Config[c].ownerID # id
        BY <1>3 DEF DistinctOwners
      <3>2. \A k : Held(zone, k, id) => Held(zone', k, id)
        BY <1>0, <2>3, <3>1, HeldStays
      <3> QED
        BY <1>1, <2>1, <3>2 DEF HoldsView, HoldsBatch
    <2> QED
      BY <1>0, <1>3, <2>2, <2>3, ZoneStepOf
  <1>4. ASSUME zone' = zone, view'[d] = view[d] \/ view'[d] = {},
               batch'[d] = batch[d] \/ batch'[d] = EmptyBatch
        PROVE  Goal
    BY <1>1, <1>4 DEF HoldsView, HoldsBatch, EmptyBatch
  <1>5. /\ DOMAIN pc = Controllers /\ DOMAIN view = Controllers
        /\ DOMAIN batch = Controllers
    BY <1>0 DEF TypeOK
  <1>6. CASE ReadRecords(d)
    <2>1. /\ batch' = batch /\ zone' = zone
          /\ view'[d] = cache[d].eps \/ view'[d] = Records(Config[d], zone)
      BY <1>5, <1>6 DEF ReadRecords
    <2>2. cache[d].eps = {}
      BY <1>0 DEF TypeOK, NoCache
    <2>3. ASSUME NEW e \in Records(Config[d], zone), e.owner = id
          PROVE  Held(zone, Key(e), id)
      <3>1. Key(e) \in RecKeys(zone) /\ e = RecordAt(Config[d], zone, Key(e))
        BY <1>0, RecordsParts
      <3>2. e.owner = Migrated(Config[d], LabelsOf(zone, Key(e)).owner)
        BY <3>1 DEF RecordAt
      <3>3. LabelsOf(zone, Key(e)).owner = id
        BY <2>3, <3>2 DEF Migrated, NoMigration
      <3> QED
        BY <1>0, <3>1, <3>3, ZoneKeys DEF Held
    <2> QED
      BY <1>1, <2>1, <2>2, <2>3 DEF HoldsView, HoldsBatch
  <1>7. CASE PlanChanges(d)
    <2> DEFINE b == Batch(Config[d], existing[d], Calculate(Config[d], view[d], src[d]))
    <2>1. /\ zone' = zone /\ view'[d] = {}
          /\ batch'[d] = batch[d] \/ batch'[d] = b
      BY <1>5, <1>7 DEF PlanChanges
    <2>2. ConfigOK(Config[d]) /\ src[d] \in Lists
      BY <1>0, ReconcileAssumption DEF ConfigOK, TypeOK, Lists
    <2>3. existing[d] \subseteq {Key(e) : e \in view[d]}
      BY DEF ViewInv, ViewOK
    <2>4. HoldsBatch(id, b, zone)
      BY <1>1, <2>2, <2>3, PlanHolds DEF HoldsView
    <2> HIDE DEF b
    <2> QED
      BY <1>1, <2>1, <2>4 DEF HoldsView
  <1>8. CASE SubmitApplied(d)
    <2>1. /\ pc[d] = "submit" /\ view' = view /\ zone' = ApplyBatch(zone, batch[d])
          /\ ValidBatch(zone, batch[d])
          /\ batch'[d] = batch[d] \/ batch'[d] = EmptyBatch
      BY <1>5, <1>8 DEF SubmitApplied
    <2>2. view'[d] = {}
      BY <1>0, <2>1 DEF TypeOK
    <2>3. HoldsBatch(id, batch[d], zone')
      BY <1>0, <2>1, BatchSteps DEF HoldsBatch
    <2> QED
      BY <2>1, <2>2, <2>3 DEF HoldsView, HoldsBatch, EmptyBatch
  <1>9. ASSUME NEW n \in FilteredNames, GroupApplied(d, n)
        PROVE  Goal
    <2> DEFINE g == Group(batch[d], {n})
               rest == Group(batch[d], Names(batch[d]) \ {n})
    <2>1. /\ pc[d] = "split" /\ view' = view /\ zone' = ApplyBatch(zone, g)
          /\ ValidBatch(zone, g) /\ batch'[d] = rest
      BY <1>5, <1>9 DEF GroupApplied, GroupSent
    <2>2. view'[d] = {}
      BY <1>0, <2>1 DEF TypeOK
    <2>3. \A k : k \notin BatchKeys(g) => SameAt(zone, zone', k)
      BY <1>0, <2>1, BatchSteps
    <2>4. ASSUME NEW e \in rest.updateNew PROVE Held(zone', e.cell[2], id)
      <3>1. e \in batch[d].updateNew /\ e.cell[2][1] # n
        BY GroupParts
      <3>2. e.cell[2] \notin BatchKeys(g)
        BY <3>1, GroupParts
      <3>3. SameAt(zone, zone', e.cell[2]) /\ Held(zone, e.cell[2], id)
        BY <1>1, <2>3, <3>1, <3>2 DEF HoldsBatch
      <3> QED
        BY <1>0, <3>3, SameLabels DEF SameAt, Held
    <2> HIDE DEF g, rest
    <2> QED
      BY <2>1, <2>2, <2>4 DEF HoldsView, HoldsBatch
  <1>10. ASSUME NEW n \in FilteredNames, GroupFailed(d, n)
         PROVE  Goal
    <2> DEFINE rest == Group(batch[d], Names(batch[d]) \ {n})
    <2>1. view' = view /\ zone' = zone /\ batch'[d] = rest
      BY <1>5, <1>10 DEF GroupFailed, GroupSent
    <2>2. rest.updateNew \subseteq batch[d].updateNew
      BY GroupParts
    <2> HIDE DEF rest
    <2> QED
      BY <1>1, <2>1, <2>2 DEF HoldsView, HoldsBatch
  <1>11. CASE \/ SubmitFailed(d) \/ SourceFails(d) \/ SplitBatch(d) \/ CacheExpires(d)
              \/ Restart(d) \/ SourceChanges(d)
    BY <1>4, <1>5, <1>11
       DEF SubmitFailed, SourceFails, SplitBatch, CacheExpires, Restart,
           SourceChanges, procVars
  <1>12. CASE StepOf(d)
    BY <1>6, <1>7, <1>8, <1>9, <1>10, <1>11, <1>12 DEF StepOf
  <1> QED
    BY <1>2, <1>3, <1>12, StepOfOne

(* Without a cache every step is one the promise allows, and keeps the     *)
(* records of others.                                                      *)
LEMMA UncachedStep ==
  ASSUME IInv, OwnedInv, WholeInv, HeldInv, [Next]_vars
  PROVE  [Promise!Next]_<<Holder, Content>> /\ KeepsForeign
  <1>1. ZoneCells(zone) /\ ZoneCells(zone')
    BY PairedStep DEF IInv, TypeOK
  <1>2. CASE zone' = zone
    <2>1. <<Holder, Content>>' = <<Holder, Content>>
      BY <1>2 DEF Holder, Content
    <2>2. KeepsForeign
      BY <1>2 DEF KeepsForeign
    <2> QED
      BY <2>1, <2>2
  <1>3. ASSUME NEW c \in Controllers, NEW b,
               \/ SubmitApplied(c) /\ b = batch[c]
               \/ \E n \in FilteredNames :
                    GroupApplied(c, n) /\ b = Group(batch[c], {n})
        PROVE  Promise!Next /\ KeepsForeign
    <2>1. zone' = ApplyBatch(zone, b) /\ ValidBatch(zone, b)
      BY <1>3 DEF SubmitApplied, GroupApplied
    <2>2. /\ OwnerStep(Config[c].ownerID, zone, zone')
          /\ \A k : k \notin BatchKeys(b) => SameAt(zone, zone', k)
      BY <1>1, <1>3, <2>1, BatchSteps
    <2>3. \A k \in BatchKeys(b) : SubmitApplied(c) \/ GroupApplied(c, k[1])
      BY <1>3, GroupParts
    <2>4. ASSUME NEW k \in RecKeys(zone)
          PROVE  \/ k \in RecKeys(zone') /\ zone'[Rec(k)] = zone[Rec(k)]
                 \/ /\ SubmitApplied(c) \/ GroupApplied(c, k[1])
                    /\ LabelsOf(zone, k).owner = Config[c].ownerID
      <3>1. Rec(k) \in DOMAIN zone
        BY <1>1, ZoneKeys
      <3>2. CASE SameAt(zone, zone', k)
        BY <1>1, <3>1, <3>2, ZoneKeys DEF SameAt
      <3>3. CASE ~SameAt(zone, zone', k)
        <4>1. k \in BatchKeys(b)
          BY <2>2, <3>3
        <4>2. LabelsOf(zone, k).owner = Config[c].ownerID
          BY <2>2, <3>1, <3>3 DEF OwnerStep
        <4> QED
          BY <2>3, <4>1, <4>2
      <3> QED
        BY <3>2, <3>3
    <2> QED
      BY <1>1, <2>2, <2>4, PromiseStep DEF KeepsForeign
  <1> QED
    BY <1>2, <1>3, ZoneStep

(* Without a cache, on Route 53 as well, where an update replaces whatever *)
(* is there and a failed batch is sent again name by name: the processes   *)
(* implement the promise of Ownership.tla, provided their owner ids differ *)
(* and none migrates records.                                              *)
THEOREM UncachedOwnershipKept ==
  ASSUME ~Caching, OneSpelling, DistinctOwners, NoMigration
  PROVE  Spec => OwnershipKept
  <1> DEFINE Inv == IInv /\ OwnedInv /\ ViewInv /\ WholeInv /\ HeldInv
  <1>1. Init => Inv
    BY InitInv, OwnedInit, ViewInit, WholeInit, HeldInit
  <1>2. Inv /\ [Next]_vars => Inv'
    BY StepInv, OwnedStep, ViewStep, WholeStep, HeldStep DEF IInv
  <1>3. Init => Promise!Init
    BY DEF Promise!Init, Promise!Used, Holder, Content
  <1>4. Inv /\ [Next]_vars => [Promise!Next]_<<Holder, Content>>
    BY UncachedStep
  <1> HIDE DEF Inv
  <1> QED
    BY <1>1, <1>2, <1>3, <1>4, PTL DEF Spec, OwnershipKept, Promise!Spec

(* Under the same conditions no process changes or deletes a record that   *)
(* another one holds (docs/faq.md:99), whichever way a batch is sent.      *)
THEOREM UncachedForeignRecordsKept ==
  ASSUME ~Caching, OneSpelling, DistinctOwners, NoMigration
  PROVE  Spec => ForeignRecordsKept
  <1> DEFINE Inv == IInv /\ OwnedInv /\ ViewInv /\ WholeInv /\ HeldInv
  <1>1. Init => Inv
    BY InitInv, OwnedInit, ViewInit, WholeInit, HeldInit
  <1>2. Inv /\ [Next]_vars => Inv'
    BY StepInv, OwnedStep, ViewStep, WholeStep, HeldStep DEF IInv
  <1>3. Inv /\ [Next]_vars => [KeepsForeign]_vars
    BY UncachedStep
  <1> HIDE DEF Inv
  <1> QED
    BY <1>1, <1>2, <1>3, PTL DEF Spec, ForeignRecordsKept

-----------------------------------------------------------------------------
(***************************************************************************)
(* The write-through cache of the TXT registry (registry.go: addToCache,   *)
(* removeFromCache), on a provider that checks what an update replaces:    *)
(* for any number of processes with owner ids of their own, as long as     *)
(* every batch of a process has been applied, the endpoints it owns in its *)
(* cache are exactly the ones it would read from the zone.                 *)
(*                                                                         *)
(* Between the change of the cache and the change of the zone the two      *)
(* differ by the batch that is under way; ExactSubmit says how.            *)
(***************************************************************************)
(* The keys of the records there are at first or may be wanted.            *)
WantedKeys(c) == UNION {{Key(s[i]) : i \in DOMAIN s} : s \in SourceLists[c]}
KeysInUse ==
  (UNION {WantedKeys(c) : c \in Controllers})
    \union (UNION {RecKeys(z) : z \in InitialZones})

(* A record whose owner is known from an old TXT record only is the only   *)
(* one with its name and type: Records asks whether the name of its new    *)
(* TXT record is taken, by whatever set identifier (registry.go:270).      *)
LegacyUnshared ==
  \A j, k \in KeysInUse :
    /\ <<k[1], k[2]>> \in DOMAIN LegacyTXT
    /\ j[1] = k[1] /\ j[3] = k[3]
      => j = k

LEMMA InUse ==
  /\ \A z \in InitialZones : RecKeys(z) \subseteq KeysInUse
  /\ \A c \in Controllers : \A s \in SourceLists[c] :
       \A i \in DOMAIN s : Key(s[i]) \in KeysInUse
  <1>1. ASSUME NEW c \in Controllers, NEW s \in SourceLists[c], NEW i \in DOMAIN s
        PROVE  Key(s[i]) \in WantedKeys(c)
    <2> DEFINE K(t) == {Key(t[j]) : j \in DOMAIN t}
    <2>1. Key(s[i]) \in K(s)
      OBVIOUS
    <2>2. WantedKeys(c) = UNION {K(t) : t \in SourceLists[c]}
      BY DEF WantedKeys
    <2> HIDE DEF K
    <2>3. K(s) \in {K(t) : t \in SourceLists[c]}
      OBVIOUS
    <2> QED
      BY <2>1, <2>2, <2>3
  <1>2. \A c \in Controllers : WantedKeys(c) \subseteq KeysInUse
    BY DEF KeysInUse
  <1>3. \A z \in InitialZones : RecKeys(z) \subseteq KeysInUse
    BY DEF KeysInUse
  <1> QED
    BY <1>1, <1>2, <1>3

(* An endpoint has these fields and no others.                             *)
Shaped(e) ==
  e = [name |-> e.name, sid |-> e.sid, type |-> e.type, tgt |-> e.tgt,
       ttl |-> e.ttl, ps |-> e.ps, owner |-> e.owner, res |-> e.res]

LEMMA NewOwnerShaped ==
  ASSUME NEW u \in Endpoints, NEW o
  PROVE  Shaped([u EXCEPT !.owner = o])
  <1>1. [u EXCEPT !.owner = o]
          = [name |-> u.name, sid |-> u.sid, type |-> u.type, tgt |-> u.tgt,
             ttl |-> u.ttl, ps |-> u.ps, owner |-> o, res |-> u.res]
    BY DEF Endpoints
  <1> QED
    BY <1>1 DEF Shaped

(* What a plan creates, and the new versions it writes, are endpoints.     *)
LEMMA PlanShaped ==
  ASSUME NEW p, ConfigOK(p), NEW E, NEW list \in Lists
  PROVE  LET ch == Calculate(p, E, list)
         IN  /\ \A x \in Claimed(p, ch.create) :
                  Shaped(x) /\ \E i \in DOMAIN list : Key(x) = Key(list[i])
             /\ \A x \in ch.updateNew : Shaped(x)
  <1> DEFINE ch == Calculate(p, E, list)
             new(c) == InheritOwner(c, UpdateFor(list, c))
  <1>1. ASSUME NEW x \in Claimed(p, ch.create)
        PROVE  Shaped(x) /\ \E i \in DOMAIN list : Key(x) = Key(list[i])
    <2>1. PICK i \in DOMAIN list : x = [list[i] EXCEPT !.owner = p.ownerID]
      BY CreatesFresh
    <2>2. list[i] \in Endpoints
      BY DEF Lists
    <2>3. Key(x) = Key(list[i])
      BY <2>1, <2>2 DEF Key, Endpoints
    <2> QED
      BY <2>1, <2>2, <2>3, NewOwnerShaped
  <1>2. ASSUME NEW x \in ch.updateNew PROVE Shaped(x)
    <2>1. PICK c \in PlanUpdates(p, E, list) : x = new(c)
      <3>1. ch.updateNew = {new(c) : c \in PlanUpdates(p, E, list)}
        BY CalculateParts DEF ConfigOK
      <3> HIDE DEF ch, new
      <3> QED
        BY <3>1
    <2>2. WantedFor(list, PlanKey(c), c.type) # {}
      BY DEF PlanUpdates, Stale
    <2>3. UpdateFor(list, c) \in Endpoints
      BY <2>2, UpdateKeepsRow
    <2> QED
      BY <2>1, <2>3, NewOwnerShaped DEF InheritOwner
  <1> QED
    BY <1>1, <1>2

-----------------------------------------------------------------------------
(* The keys that can occur.                                                *)
CreatesInUse(b) == \A e \in b.create : e.cell[2] \in KeysInUse
KeysInv ==
  RecKeys(zone) \subseteq KeysInUse /\ \A c \in Controllers : CreatesInUse(batch[c])

LEMMA KeysInit == Init => KeysInv
  <1> SUFFICES ASSUME Init PROVE KeysInv
    OBVIOUS
  <1>1. RecKeys(zone) \subseteq KeysInUse
    BY InUse DEF Init
  <1>2. \A c \in Controllers : CreatesInUse(batch[c])
    BY DEF Init, CreatesInUse, EmptyBatch
  <1> QED
    BY <1>1, <1>2 DEF KeysInv

LEMMA KeysStep ==
  ASSUME Provider = "inmemory", IInv, ViewInv, KeysInv, [Next]_vars
  PROVE  KeysInv'
  <1>0. TypeOK /\ ZoneCells(zone) /\ ZoneCells(zone')
    BY PairedStep DEF IInv, TypeOK
  <1>1. RecKeys(zone') \subseteq KeysInUse
    <2>1. CASE zone' = zone
      BY <2>1 DEF KeysInv
    <2>2. ASSUME NEW c \in Controllers, SubmitApplied(c)
          PROVE  RecKeys(zone') \subseteq KeysInUse
      <3> DEFINE b == batch[c]
      <3>1. zone' = ApplyBatch(zone, b) /\ ValidBatch(zone, b)
        BY <2>2 DEF SubmitApplied
      <3>2. CreatesInUse(b) /\ RecKeys(zone) \subseteq KeysInUse
        BY DEF KeysInv
      <3> HIDE DEF b
      <3> SUFFICES ASSUME NEW k \in RecKeys(zone') PROVE k \in KeysInUse
        OBVIOUS
      <3>3. Rec(k) \in DOMAIN zone'
        BY <1>0, ZoneKeys
      <3>4. Rec(k) \in DOMAIN zone \/ \E e \in b.create \union b.updateNew : e.cell = Rec(k)
        <4>1. Rec(k) \in DOMAIN zone \union Cells(b.create \union b.updateNew)
          BY <3>1, <3>3, ApplyDomain
        <4> QED
          BY <4>1 DEF Cells
      <3>5. (\E e \in b.updateNew : e.cell = Rec(k)) => Rec(k) \in DOMAIN zone
        BY <3>1 DEF ValidBatch, UpdatesValid, Cells
      <3>6. CASE Rec(k) \in DOMAIN zone
        BY <1>0, <3>2, <3>6, ZoneKeys
      <3>7. ASSUME NEW e \in b.create, e.cell = Rec(k) PROVE k \in KeysInUse
        BY <3>2, <3>7, CellKeys DEF CreatesInUse
      <3> QED
        BY <3>4, <3>5, <3>6, <3>7
    <2>3. ASSUME NEW c \in Controllers, NEW n \in FilteredNames, GroupApplied(c, n)
          PROVE  FALSE
      BY <1>0, <2>3 DEF GroupApplied, GroupSent, TypeOK
    <2> QED
      BY <2>1, <2>2, <2>3, ZoneStep
  <1>2. ASSUME NEW d \in Controllers PROVE CreatesInUse(batch'[d])
    <2>0. CreatesInUse(batch[d]) /\ CreatesInUse(EmptyBatch) /\ DOMAIN batch = Controllers
      BY <1>0 DEF KeysInv, CreatesInUse, EmptyBatch, TypeOK
    <2>1. CASE batch'[d] = batch[d] \/ batch'[d] = EmptyBatch
      BY <2>0, <2>1
    <2>2. CASE PlanChanges(d)
      <3> DEFINE ch == Calculate(Config[d], view[d], src[d])
                 b == Batch(Config[d], existing[d], ch)
                 new == Claimed(Config[d], ch.create)
      <3>1. batch'[d] = batch[d] \/ batch'[d] = b
        BY <2>0, <2>2 DEF PlanChanges
      <3>2. ConfigOK(Config[d]) /\ src[d] \in Lists /\ src[d] \in SourceLists[d]
        BY <1>0, ReconcileAssumption DEF ConfigOK, TypeOK, Lists
      <3>3. existing[d] \subseteq {Key(e) : e \in view[d]}
        BY DEF ViewInv, ViewOK
      <3>4. b.create = WithTXT(Config[d], new)
        BY <3>2, <3>3, BatchMade
      <3>5. \A x \in new : \E i \in DOMAIN src[d] : Key(x) = Key(src[d][i])
        BY <3>2, PlanShaped
      <3> HIDE DEF b, new
      <3>6. ASSUME NEW e \in b.create PROVE e.cell[2] \in KeysInUse
        <4>1. PICK x \in new : e.cell[2] = Key(x)
          <5>1. e \in WithTXT(Config[d], new)
            BY <3>4
          <5>2. \E x \in new : /\ e.cell[2] = Key(x)
                               /\ TXTEntry(Config[d], x) \in WithTXT(Config[d], new)
            BY <5>1, WithTXTPairs
          <5> QED
            BY <5>2
        <4>2. PICK i \in DOMAIN src[d] : Key(x) = Key(src[d][i])
          BY <3>5
        <4> QED
          BY <3>2, <4>1, <4>2, InUse
      <3> QED
        BY <2>0, <3>1, <3>6 DEF CreatesInUse
    <2>3. ASSUME NEW n \in FilteredNames, GroupSent(d, n) PROVE FALSE
      BY <1>0, <2>3 DEF GroupSent, TypeOK
    <2>4. CASE UNCHANGED vars
      BY <2>1, <2>4 DEF vars, procVars
    <2>5. ASSUME NEW c \in Controllers, StepOf(c), c # d
          PROVE  CreatesInUse(batch'[d])
      BY <1>0, <2>1, <2>5, OthersIdle
    <2>6. CASE StepOf(d)
      <3>1. CASE \/ ReadRecords(d) \/ SourceFails(d) \/ SplitBatch(d)
                 \/ CacheExpires(d) \/ SourceChanges(d)
        BY <2>1, <3>1 DEF ReadRecords, SourceFails, SplitBatch, CacheExpires,
                          SourceChanges, procVars
      <3>2. CASE SubmitApplied(d) \/ SubmitFailed(d) \/ Restart(d)
        BY <2>0, <2>1, <3>2 DEF SubmitApplied, SubmitFailed, Restart
      <3>3. CASE \E n \in FilteredNames : GroupApplied(d, n) \/ GroupFailed(d, n)
        BY <2>3, <3>3 DEF GroupApplied, GroupFailed
      <3> QED
        BY <2>2, <2>6, <3>1, <3>2, <3>3 DEF StepOf
    <2> QED
      BY <2>4, <2>5, <2>6, StepOfOne
  <1> QED
    BY <1>1, <1>2 DEF KeysInv

-----------------------------------------------------------------------------
(* What a process reads of one record.                                     *)
OwnedAt(id, z, k) == Rec(k) \in DOMAIN z /\ LabelsOf(z, k).owner = id

LEMMA OwnedRecords ==
  ASSUME NoMigration, NEW c \in Controllers, NEW z, ZoneCells(z)
  PROVE  /\ \A e \in Owned(c, Records(Config[c], z)) :
              /\ OwnedAt(Config[c].ownerID, z, Key(e))
              /\ e = RecordAt(Config[c], z, Key(e))
         /\ \A k : OwnedAt(Config[c].ownerID, z, k) =>
              /\ RecordAt(Config[c], z, k) \in Owned(c, Records(Config[c], z))
              /\ Key(RecordAt(Config[c], z, k)) = k
  <1> DEFINE p == Config[c]
  <1>1. \A k : RecordAt(p, z, k).owner = LabelsOf(z, k).owner
    BY DEF RecordAt, Migrated, NoMigration
  <1>2. ASSUME NEW e \in Owned(c, Records(p, z))
        PROVE  OwnedAt(p.ownerID, z, Key(e)) /\ e = RecordAt(p, z, Key(e))
    <2>1. e \in Records(p, z) /\ e.owner = p.ownerID
      BY DEF Owned, FilterByOwner, IsOwnedBy
    <2>2. Key(e) \in RecKeys(z) /\ e = RecordAt(p, z, Key(e))
      BY <2>1, RecordsParts
    <2>3. LabelsOf(z, Key(e)).owner = p.ownerID
      BY <1>1, <2>1, <2>2
    <2> QED
      BY <2>2, <2>3, ZoneKeys DEF OwnedAt
  <1>3. ASSUME NEW k, OwnedAt(p.ownerID, z, k)
        PROVE  /\ RecordAt(p, z, k) \in Owned(c, Records(p, z))
               /\ Key(RecordAt(p, z, k)) = k
    <2>1. k \in RecKeys(z) /\ LabelsOf(z, k).owner = p.ownerID
      BY <1>3, ZoneKeys DEF OwnedAt
    <2>2. RecordAt(p, z, k) \in Records(p, z) /\ Key(RecordAt(p, z, k)) = k
      BY <2>1, RecordsParts
    <2> QED
      BY <1>1, <2>1, <2>2 DEF Owned, FilterByOwner, IsOwnedBy
  <1> QED
    BY <1>2, <1>3

(* Of an owned record that does not change a process reads the same.       *)
LEMMA RecordStays ==
  ASSUME LegacyUnshared, NEW p, p.ownerID # "",
         NEW z, ZoneCells(z), Paired(z), RecKeys(z) \subseteq KeysInUse,
         NEW y, ZoneCells(y), Paired(y), RecKeys(y) \subseteq KeysInUse,
         NEW k, SameAt(z, y, k), OwnedAt(p.ownerID, z, k)
  PROVE  OwnedAt(p.ownerID, y, k) /\ RecordAt(p, y, k) = RecordAt(p, z, k)
  <1>1. LabelsOf(y, k) = LabelsOf(z, k)
    BY SameLabels
  <1>2. OwnedAt(p.ownerID, y, k)
    BY <1>1 DEF OwnedAt, SameAt
  <1>3. ASSUME NEW x, ZoneCells(x), Paired(x), RecKeys(x) \subseteq KeysInUse,
               OwnedAt(p.ownerID, x, k), NEW j \in TxtKeys(x),
               <<j[1], j[3]>> = <<k[1], k[3]>>
        PROVE  k \in TxtKeys(x)
    <2> SUFFICES ASSUME k \notin TxtKeys(x) PROVE FALSE
      OBVIOUS
    <2>1. j \in KeysInUse /\ k \in KeysInUse
      BY <1>3, ZoneKeys DEF Paired, OwnedAt
    <2>2. <<k[1], k[2]>> \in DOMAIN LegacyTXT
      BY <1>3 DEF OwnedAt, LabelsOf, NoLabels
    <2>3. j = k
      BY <1>3, <2>1, <2>2 DEF LegacyUnshared
    <2> QED
      BY <2>3
  <1>4. k \in TxtKeys(z) <=> k \in TxtKeys(y)
    BY ZoneKeys DEF SameAt
  <1>5. NeedsForceUpdate(p, y, k) <=> NeedsForceUpdate(p, z, k)
    <2> DEFINE Free(x) == \A j \in TxtKeys(x) : <<j[1], j[3]>> # <<k[1], k[3]>>
    <2>1. Free(z) <=> k \notin TxtKeys(z)
      BY <1>3
    <2>2. Free(y) <=> k \notin TxtKeys(y)
      BY <1>2, <1>3
    <2>3. \A x : NeedsForceUpdate(p, x, k) <=>
                   /\ Migrated(p, LabelsOf(x, k).owner) = p.ownerID
                   /\ k[3] \in ManagedTypes /\ Free(x)
      BY DEF NeedsForceUpdate
    <2> HIDE DEF Free
    <2> QED
      BY <1>1, <1>4, <2>1, <2>2, <2>3
  <1>6. y[Rec(k)] = z[Rec(k)]
    BY DEF SameAt, OwnedAt
  <1>7. RecordAt(p, y, k) = RecordAt(p, z, k)
    BY <1>1, <1>5, <1>6 DEF RecordAt
  <1> QED
    BY <1>2, <1>7

(* So what others do to a zone does not change what a process reads of its *)
(* own records.                                                            *)
LEMMA OthersKeepOwned ==
  ASSUME NoMigration, LegacyUnshared, NEW c \in Controllers,
         NEW z, ZoneCells(z), Paired(z), RecKeys(z) \subseteq KeysInUse,
         NEW y, ZoneCells(y), Paired(y), RecKeys(y) \subseteq KeysInUse,
         NEW other, other # Config[c].ownerID, OwnerStep(other, z, y)
  PROVE  Owned(c, Records(Config[c], y)) = Owned(c, Records(Config[c], z))
  <1> DEFINE p == Config[c]
             R(x) == Owned(c, Records(p, x))
  <1>1. p.ownerID # ""
    BY ReconcileAssumption
  <1>2. ASSUME NEW k, OwnedAt(p.ownerID, z, k) \/ OwnedAt(p.ownerID, y, k)
        PROVE  SameAt(z, y, k) /\ SameAt(y, z, k)
    <2>1. SameAt(z, y, k)
      BY <1>2 DEF OwnerStep, OwnedAt
    <2> QED
      BY <2>1 DEF SameAt
  <1>3. ASSUME NEW e \in R(z) PROVE e \in R(y)
    <2>1. OwnedAt(p.ownerID, z, Key(e)) /\ e = RecordAt(p, z, Key(e))
      BY OwnedRecords
    <2>2. OwnedAt(p.ownerID, y, Key(e)) /\ RecordAt(p, y, Key(e)) = RecordAt(p, z, Key(e))
      BY <1>1, <1>2, <2>1, RecordStays
    <2> QED
      BY <2>1, <2>2, OwnedRecords
  <1>4. ASSUME NEW e \in R(y) PROVE e \in R(z)
    <2>1. OwnedAt(p.ownerID, y, Key(e)) /\ e = RecordAt(p, y, Key(e))
      BY OwnedRecords
    <2>2. OwnedAt(p.ownerID, z, Key(e)) /\ RecordAt(p, z, Key(e)) = RecordAt(p, y, Key(e))
      BY <1>1, <1>2, <2>1, RecordStays
    <2> QED
      BY <2>1, <2>2, OwnedRecords
  <1> QED
    BY <1>3, <1>4

-----------------------------------------------------------------------------
(* How the cache and the zone differ while batch b is under way.  In the   *)
(* cache, the owned endpoints with a key of the batch are the ones it      *)
(* writes; the others are the ones in the zone.                            *)
ExactSubmit(c, E, b, z) ==
  LET p == Config[c]
      W == b.create \union b.updateNew
  IN  /\ \A e \in Owned(c, E) : Key(e) \in BatchKeys(b) =>
            Shaped(e) /\ RecEntry(e) \in W /\ TXTEntry(p, e) \in W
      /\ \A x \in W : \E e \in Owned(c, E) : x \in {RecEntry(e), TXTEntry(p, e)}
      /\ \A e : Key(e) \notin BatchKeys(b) =>
            (e \in Owned(c, E) <=> e \in Owned(c, Records(p, z)))

ExactOK(c) ==
  cache[c].filled /\ ~missed[c] =>
    /\ pc[c] = "submit" => ExactSubmit(c, cache[c].eps, batch[c], zone)
    /\ pc[c] # "submit" => Owned(c, cache[c].eps) = Owned(c, Records(Config[c], zone))
ExactInv == \A c \in Controllers : ExactOK(c)

(* A plan made for the cache leaves it so.                                 *)
LEMMA PlanExact ==
  ASSUME OneSpelling, NEW c \in Controllers, ConfigOK(Config[c]),
         NEW E, UniqueKeys(E), NEW list \in Lists,
         NEW seen, seen \subseteq {Key(e) : e \in E}, NEW z,
         Owned(c, E) = Owned(c, Records(Config[c], z))
  PROVE  LET ch == Calculate(Config[c], E, list)
         IN  ExactSubmit(c, CacheAfter(Config[c], E, ch), Batch(Config[c], seen, ch), z)
  <1> DEFINE p == Config[c]
             ch == Calculate(p, E, list)
             b == Batch(p, seen, ch)
             A == CacheAfter(p, E, ch)
             new == Claimed(p, ch.create)
             upd == ch.updateNew
             W == b.create \union b.updateNew
  <1>1. /\ b.create = WithTXT(p, new) /\ b.updateNew = WithTXT(p, upd)
        /\ b.delete = WithTXT(p, ch.delete)
    BY BatchMade
  <1>2. \A x : x \in A <=> \/ x \in E /\ x \notin ch.updateOld /\ x \notin ch.delete
                          \/ x \in new
                          \/ x \in upd
    BY CacheAfterParts
  <1>3. /\ ch.updateOld \subseteq E /\ ch.delete \subseteq E
        /\ \A x \in upd : x.owner = p.ownerID
    BY PlanOwns DEF FilterByOwner, IsOwnedBy
  <1>4. /\ \A x \in new : \A e \in E : Key(x) # Key(e)
        /\ \A x \in new : x.owner = p.ownerID
    BY CreatesFresh
  <1>5. \A x \in upd : \E o \in ch.updateOld : Key(o) = Key(x)
    BY UpdatesInPlace
  <1>6. \A o \in ch.updateOld : \E x \in upd : Key(o) = Key(x)
    <2> DEFINE to(o) == InheritOwner(o, UpdateFor(list, o))
    <2>1. /\ ch.updateOld = PlanUpdates(p, E, list)
          /\ upd = {to(o) : o \in PlanUpdates(p, E, list)}
      <3>1. p.policy \in Policies
        BY DEF ConfigOK
      <3> HIDE DEF p
      <3> QED
        BY <3>1, CalculateParts
    <2> HIDE DEF ch, upd
    <2> TAKE o \in ch.updateOld
    <2>2. InPlan(o) /\ WantedFor(list, PlanKey(o), o.type) # {}
      BY <2>1 DEF PlanUpdates, Stale
    <2>3. Key(to(o)) = Key(o)
      BY <2>2, UpdateKeepsKey
    <2> HIDE DEF to
    <2>4. to(o) \in upd
      BY <2>1
    <2> QED
      BY <2>3, <2>4
  <1>7. (\A x \in new : Shaped(x)) /\ (\A x \in upd : Shaped(x))
    BY PlanShaped
  <1> HIDE DEF ch, b, A, new, upd
  <1>8. \A k : k \in BatchKeys(b) <=> \E x \in new \union upd \union ch.delete : Key(x) = k
    <2>1. \A F, k : (\E d \in WithTXT(p, F) : d.cell[2] = k) <=> \E x \in F : Key(x) = k
      <3> TAKE F, k
      <3>1. ASSUME NEW d \in WithTXT(p, F), d.cell[2] = k PROVE \E x \in F : Key(x) = k
        <4>1. \E e \in F : d.cell[2] = Key(e) /\ TXTEntry(p, e) \in WithTXT(p, F)
          BY WithTXTPairs
        <4> QED
          BY <3>1, <4>1
      <3>2. ASSUME NEW x \in F, Key(x) = k PROVE \E d \in WithTXT(p, F) : d.cell[2] = k
        <4>1. RecEntry(x) \in WithTXT(p, F) /\ RecEntry(x).cell[2] = k
          BY <3>2, EntryCells, CellKeys DEF WithTXT
        <4> QED
          BY <4>1
      <3> QED
        BY <3>1, <3>2
    <2>2. ASSUME NEW k
          PROVE  k \in BatchKeys(b) <=> \/ \E d \in b.create : d.cell[2] = k
                                        \/ \E d \in b.updateNew : d.cell[2] = k
                                        \/ \E d \in b.delete : d.cell[2] = k
      BY DEF BatchKeys
    <2>3. \A k : (\E d \in b.create : d.cell[2] = k) <=> \E x \in new : Key(x) = k
      <3>1. \A k : (\E d \in WithTXT(p, new) : d.cell[2] = k) <=> \E x \in new : Key(x) = k
        BY <2>1
      <3> QED
        BY <1>1, <3>1
    <2>4. \A k : (\E d \in b.updateNew : d.cell[2] = k) <=> \E x \in upd : Key(x) = k
      <3>1. \A k : (\E d \in WithTXT(p, upd) : d.cell[2] = k) <=> \E x \in upd : Key(x) = k
        BY <2>1
      <3> QED
        BY <1>1, <3>1
    <2>5. \A k : (\E d \in b.delete : d.cell[2] = k) <=> \E x \in ch.delete : Key(x) = k
      <3> DEFINE D == ch.delete
      <3>1. \A k : (\E d \in WithTXT(p, D) : d.cell[2] = k) <=> \E x \in D : Key(x) = k
        BY <2>1
      <3> QED
        BY <1>1, <3>1
    <2> QED
      BY <2>2, <2>3, <2>4, <2>5
  <1>9. ASSUME NEW e \in E, e \notin ch.updateOld, e \notin ch.delete
        PROVE  Key(e) \notin BatchKeys(b)
    BY <1>3, <1>4, <1>5, <1>8, <1>9 DEF UniqueKeys
  <1>10. ASSUME NEW e \in new \union upd
         PROVE  /\ RecEntry(e) \in W /\ TXTEntry(p, e) \in W
                /\ e \in Owned(c, A) /\ Shaped(e) /\ Key(e) \in BatchKeys(b)
    <2>1. RecEntry(e) \in W /\ TXTEntry(p, e) \in W
      BY <1>1 DEF WithTXT
    <2> HIDE DEF W
    <2> QED
      BY <1>2, <1>3, <1>4, <1>7, <1>8, <2>1 DEF Owned, FilterByOwner, IsOwnedBy
  <1>11. ASSUME NEW e \in Owned(c, A), Key(e) \in BatchKeys(b)
         PROVE  Shaped(e) /\ RecEntry(e) \in W /\ TXTEntry(p, e) \in W
    <2>1. e \in new \union upd
      BY <1>2, <1>9, <1>11 DEF Owned, FilterByOwner
    <2> QED
      BY <1>10, <2>1
  <1>12. ASSUME NEW x \in W
         PROVE  \E e \in Owned(c, A) : x \in {RecEntry(e), TXTEntry(p, e)}
    <2>1. PICK e \in new \union upd : x \in {RecEntry(e), TXTEntry(p, e)}
      BY <1>1 DEF WithTXT
    <2> QED
      BY <1>10, <2>1
  <1>13. ASSUME NEW e, Key(e) \notin BatchKeys(b)
         PROVE  e \in Owned(c, A) <=> e \in Owned(c, Records(p, z))
    <2>1. e \in A <=> e \in E
      BY <1>2, <1>3, <1>6, <1>8, <1>13
    <2>2. e \in Owned(c, A) <=> e \in Owned(c, E)
      BY <2>1 DEF Owned, FilterByOwner
    <2> QED
      BY <2>2
  <1>14. ExactSubmit(c, A, b, z)
    BY <1>11, <1>12, <1>13 DEF ExactSubmit
  <1> QED
    BY <1>14 DEF A, b, ch

(* A cell of a valid batch has one value.                                  *)
LEMMA WrittenValue ==
  ASSUME NEW z, NEW b, ValidBatch(z, b), NEW x \in b.create \union b.updateNew
  PROVE  x.cell \in DOMAIN ApplyBatch(z, b) /\ ApplyBatch(z, b)[x.cell] = x.val
  <1> DEFINE W == b.create \union b.updateNew
  <1>1. x.cell \in Cells(W) /\ x.cell \notin Cells(b.delete)
    BY DEF ValidBatch, NoOverlap, Cells
  <1>2. /\ x.cell \in DOMAIN ApplyBatch(z, b)
        /\ \E e \in b.create \union b.updateNew :
             e.cell = x.cell /\ ApplyBatch(z, b)[x.cell] = e.val
    BY <1>1, ApplyWritten
  <1>3. PICK e \in W : e.cell = x.cell /\ ApplyBatch(z, b)[x.cell] = e.val
    BY <1>2
  <1>4. e = x
    BY <1>3 DEF ValidBatch, NoOverlap, Cells
  <1> QED
    BY <1>2, <1>3, <1>4

(* When the batch is applied, cache and zone agree.                        *)
LEMMA SubmitExact ==
  ASSUME NoMigration, LegacyUnshared, NEW c \in Controllers, NEW E, NEW b,
         NEW z, ZoneCells(z), Paired(z), RecKeys(z) \subseteq KeysInUse,
         NEW y, ZoneCells(y), Paired(y), RecKeys(y) \subseteq KeysInUse,
         y = ApplyBatch(z, b), ValidBatch(z, b), BatchWhole(b),
         BatchMarks(Config[c].ownerID, b), BatchOwned(Config[c].ownerID, b),
         HoldsBatch(Config[c].ownerID, b, z), ExactSubmit(c, E, b, z)
  PROVE  Owned(c, E) = Owned(c, Records(Config[c], y))
  <1> DEFINE p == Config[c]
             id == p.ownerID
             W == b.create \union b.updateNew
             R(x) == Owned(c, Records(p, x))
  <1>1. id # ""
    BY ReconcileAssumption
  <1>2. ASSUME NEW k, k \notin BatchKeys(b) PROVE SameAt(z, y, k) /\ SameAt(y, z, k)
    <2>1. SameAt(z, y, k)
      BY <1>2, ApplyElsewhere
    <2> QED
      BY <2>1 DEF SameAt
  <1>3. ASSUME NEW e, Key(e) \notin BatchKeys(b) PROVE e \in R(z) <=> e \in R(y)
    <2>1. SameAt(z, y, Key(e)) /\ SameAt(y, z, Key(e))
      BY <1>2, <1>3
    <2>2. ASSUME e \in R(z) PROVE e \in R(y)
      <3>1. OwnedAt(id, z, Key(e)) /\ e = RecordAt(p, z, Key(e))
        BY <2>2, OwnedRecords
      <3>2. OwnedAt(id, y, Key(e)) /\ RecordAt(p, y, Key(e)) = RecordAt(p, z, Key(e))
        BY <1>1, <2>1, <3>1, RecordStays
      <3> QED
        BY <3>1, <3>2, OwnedRecords
    <2>3. ASSUME e \in R(y) PROVE e \in R(z)
      <3>1. OwnedAt(id, y, Key(e)) /\ e = RecordAt(p, y, Key(e))
        BY <2>3, OwnedRecords
      <3>2. OwnedAt(id, z, Key(e)) /\ RecordAt(p, z, Key(e)) = RecordAt(p, y, Key(e))
        BY <1>1, <2>1, <3>1, RecordStays
      <3> QED
        BY <3>1, <3>2, OwnedRecords
    <2> QED
      BY <2>2, <2>3
  <1>4. ASSUME NEW e \in Owned(c, E), Key(e) \in BatchKeys(b)
        PROVE  e \in R(y) /\ e = RecordAt(p, y, Key(e))
    <2> DEFINE k == Key(e)
    <2>1. Shaped(e) /\ RecEntry(e) \in W /\ TXTEntry(p, e) \in W
      BY <1>4 DEF ExactSubmit
    <2>2. /\ Rec(k) \in DOMAIN y /\ y[Rec(k)] = [tgt |-> e.tgt, ttl |-> e.ttl, ps |-> e.ps]
      <3>1. RecEntry(e).cell \in DOMAIN y /\ y[RecEntry(e).cell] = RecEntry(e).val
        BY <2>1, WrittenValue
      <3> QED
        BY <3>1, EntryCells DEF RecEntry
    <2>3. e.owner = id
      BY DEF Owned, FilterByOwner, IsOwnedBy
    <2>4. Txt(k) \in DOMAIN y /\ y[Txt(k)].tgt = [owner |-> id, res |-> e.res]
      <3>1. TXTEntry(p, e).cell \in DOMAIN y /\ y[TXTEntry(p, e).cell] = TXTEntry(p, e).val
        BY <2>1, WrittenValue
      <3>2. Migrated(p, e.owner) = id
        BY <2>3 DEF Migrated
      <3>3. TXTEntry(p, e).val.tgt = [owner |-> id, res |-> e.res]
        BY <3>2 DEF TXTEntry
      <3> QED
        BY <3>1, <3>3, EntryCells
    <2>5. k \in TxtKeys(y)
      BY <2>4, ZoneKeys
    <2>6. LabelsOf(y, k) = [owner |-> id, res |-> e.res]
      BY <2>4, <2>5 DEF LabelsOf
    <2>7. ~NeedsForceUpdate(p, y, k)
      BY <2>5 DEF NeedsForceUpdate
    <2>8. k[1] = e.name /\ k[2] = e.sid /\ k[3] = e.type
      BY DEF Key
    <2>9. Migrated(p, LabelsOf(y, k).owner) = e.owner /\ LabelsOf(y, k).res = e.res
      BY <2>3, <2>6 DEF Migrated
    <2> HIDE DEF k
    <2>10. RecordAt(p, y, k)
             = [name |-> e.name, sid |-> e.sid, type |-> e.type, tgt |-> e.tgt,
                ttl |-> e.ttl, ps |-> e.ps, owner |-> e.owner, res |-> e.res]
      BY <2>2, <2>7, <2>8, <2>9 DEF RecordAt
    <2>11. RecordAt(p, y, k) = e
      BY <2>1, <2>10 DEF Shaped
    <2>12. OwnedAt(id, y, k)
      BY <2>2, <2>6 DEF OwnedAt
    <2> QED
      BY <2>11, <2>12, OwnedRecords DEF k
  <1>5. ASSUME NEW e \in R(y), Key(e) \in BatchKeys(b) PROVE e \in Owned(c, E)
    <2>1. OwnedAt(id, y, Key(e)) /\ e = RecordAt(p, y, Key(e))
      BY OwnedRecords
    <2>2. \E x \in b.create \union b.updateNew : x.cell[2] = Key(e)
      BY <1>5, <2>1, ApplyTouches DEF HoldsBatch, OwnedAt
    <2>3. PICK x \in W : x.cell[2] = Key(e)
      BY <2>2
    <2>4. PICK o \in Owned(c, E) : x \in {RecEntry(o), TXTEntry(p, o)}
      BY DEF ExactSubmit
    <2>5. Key(o) = Key(e)
      BY <2>3, <2>4, EntryCells, CellKeys
    <2>6. o = RecordAt(p, y, Key(o))
      BY <1>4, <1>5, <2>5
    <2> QED
      BY <2>1, <2>5, <2>6
  <1>6. \A e : Key(e) \notin BatchKeys(b) => (e \in Owned(c, E) <=> e \in R(z))
    BY DEF ExactSubmit
  <1> HIDE DEF R
  <1>7. Owned(c, E) = R(y)
    BY <1>3, <1>4, <1>5, <1>6
  <1> QED
    BY <1>7 DEF R

LEMMA ExactInit == Init => ExactInv
  BY DEF Init, ExactInv, ExactOK, NoCache

LEMMA ExactStep ==
  ASSUME Provider = "inmemory", OneSpelling, DistinctOwners, NoMigration, LegacyUnshared,
         IInv, OwnedInv, ViewInv, WholeInv, KeysInv, ExactInv, [Next]_vars
  PROVE  ExactInv'
  <1> SUFFICES ASSUME NEW d \in Controllers PROVE ExactOK(d)'
    BY DEF ExactInv
  <1> DEFINE id == Config[d].ownerID
             R(z) == Owned(d, Records(Config[d], z))
  <1>1. /\ TypeOK /\ ZoneCells(zone) /\ Paired(zone) /\ RecKeys(zone) \subseteq KeysInUse
        /\ ZoneCells(zone') /\ Paired(zone') /\ RecKeys(zone') \subseteq KeysInUse
    BY PairedStep, KeysStep DEF IInv, TypeOK, NoOrphanTXT, KeysInv
  <1>2. ExactOK(d) /\ ViewOK(d)
    BY DEF ExactInv, ViewInv
  <1>3. /\ DOMAIN pc = Controllers /\ DOMAIN batch = Controllers
        /\ DOMAIN cache = Controllers /\ DOMAIN missed = Controllers
        /\ DOMAIN view = Controllers
    BY <1>1 DEF TypeOK
  <1>4. ASSUME NEW c \in Controllers, SubmitApplied(c)
        PROVE  /\ ValidBatch(zone, batch[c]) /\ zone' = ApplyBatch(zone, batch[c])
               /\ BatchWhole(batch[c]) /\ BatchMarks(Config[c].ownerID, batch[c])
               /\ BatchOwned(Config[c].ownerID, batch[c])
               /\ HoldsBatch(Config[c].ownerID, batch[c], zone)
    <2>1. ValidBatch(zone, batch[c]) /\ zone' = ApplyBatch(zone, batch[c])
      BY <1>4 DEF SubmitApplied
    <2>2. /\ BatchWhole(batch[c]) /\ BatchMarks(Config[c].ownerID, batch[c])
          /\ BatchOwned(Config[c].ownerID, batch[c])
      BY DEF WholeInv, OwnedInv
    <2>3. HoldsBatch(Config[c].ownerID, batch[c], zone)
      BY <1>1, <2>1, <2>2, ClaimsHeld DEF HoldsBatch
    <2> QED
      BY <2>1, <2>2, <2>3
  <1>5. ASSUME NEW c \in Controllers, NEW n \in FilteredNames, GroupSent(c, n)
        PROVE  FALSE
    BY <1>1, <1>5 DEF GroupSent, TypeOK
  <1>6. ASSUME pc'[d] = pc[d], batch'[d] = batch[d], cache'[d].eps = cache[d].eps,
               cache'[d].filled = cache[d].filled, missed'[d] = missed[d],
               R(zone') = R(zone)
        PROVE  ExactOK(d)'
    <2>1. \A E, b : ExactSubmit(d, E, b, zone) => ExactSubmit(d, E, b, zone')
      BY <1>6 DEF ExactSubmit
    <2> QED
      BY <1>2, <1>6, <2>1 DEF ExactOK
  <1>7. ASSUME pc[d] # "submit", pc'[d] # "submit", cache'[d].eps = cache[d].eps,
               cache'[d].filled = cache[d].filled, missed'[d] = missed[d],
               zone' = zone
        PROVE  ExactOK(d)'
    BY <1>2, <1>7 DEF ExactOK
  <1>8. ASSUME ~cache'[d].filled \/ missed'[d] PROVE ExactOK(d)'
    BY <1>8 DEF ExactOK
  <1>9. CASE UNCHANGED vars
    BY <1>6, <1>9 DEF vars, procVars
  <1>10. ASSUME NEW c \in Controllers, StepOf(c), c # d
         PROVE  ExactOK(d)'
    <2>1. /\ pc'[d] = pc[d] /\ batch'[d] = batch[d] /\ cache'[d] = cache[d]
          /\ missed'[d] = missed[d]
      BY <1>1, <1>10, OthersIdle
    <2>2. zone' = zone \/ SubmitApplied(c)
      BY <1>5, <1>10
         DEF StepOf, ReadRecords, PlanChanges, SourceFails, SubmitFailed, SplitBatch,
             GroupApplied, GroupFailed, CacheExpires, Restart, SourceChanges
    <2>3. R(zone') = R(zone)
      <3>1. CASE zone' = zone
        BY <3>1
      <3>2. CASE SubmitApplied(c)
        <4>1. OwnerStep(Config[c].ownerID, zone, zone')
          BY <1>1, <1>4, <3>2, ApplyOwner DEF HoldsBatch
        <4>2. Config[c].ownerID # id
          BY <1>10 DEF DistinctOwners
        <4> QED
          BY <1>1, <4>1, <4>2, OthersKeepOwned
      <3> QED
        BY <2>2, <3>1, <3>2
    <2> QED
      BY <1>6, <2>1, <2>3
  <1>11. CASE ReadRecords(d)
    <2>1. /\ pc[d] = "idle" /\ pc'[d] = "plan" /\ zone' = zone
          /\ \/ cache'[d] = cache[d] /\ missed'[d] = missed[d]
             \/ /\ view'[d] = Records(Config[d], zone)
                /\ cache'[d] = IF Caching
                               THEN [filled |-> TRUE, fresh |-> TRUE, eps |-> view'[d]]
                               ELSE NoCache
      BY <1>3, <1>11 DEF ReadRecords
    <2>2. CASE cache'[d] = cache[d] /\ missed'[d] = missed[d]
      BY <1>7, <2>1, <2>2
    <2>3. CASE Caching /\ cache'[d] = [filled |-> TRUE, fresh |-> TRUE,
                                      eps |-> Records(Config[d], zone)]
      BY <2>1, <2>3 DEF ExactOK
    <2>4. CASE cache'[d] = NoCache
      BY <1>8, <2>4 DEF NoCache
    <2> QED
      BY <2>1, <2>2, <2>3, <2>4
  <1>12. CASE PlanChanges(d)
    <2> DEFINE ch == Calculate(Config[d], view[d], src[d])
               b == Batch(Config[d], existing[d], ch)
               after == CacheAfter(Config[d], cache[d].eps, ch)
    <2>1. /\ pc[d] = "plan" /\ zone' = zone /\ missed' = missed
          /\ \/ pc'[d] = "idle" /\ cache'[d] = cache[d]
             \/ /\ pc'[d] = "submit" /\ batch'[d] = b
                /\ cache' = [cache EXCEPT ![d].eps =
                               IF cache[d].filled THEN after ELSE cache[d].eps]
      BY <1>3, <1>12 DEF PlanChanges
    <2>2. CASE pc'[d] = "idle" /\ cache'[d] = cache[d]
      BY <1>7, <2>1, <2>2
    <2>3. ASSUME cache[d].filled, ~missed[d]
          PROVE  ExactSubmit(d, after, b, zone)
      <3>1. ConfigOK(Config[d]) /\ src[d] \in Lists
        BY <1>1, ReconcileAssumption DEF ConfigOK, TypeOK, Lists
      <3>2. /\ cache[d].eps = view[d] /\ UniqueKeys(view[d])
            /\ existing[d] \subseteq {Key(e) : e \in view[d]}
        BY <1>2, <2>1, <2>3 DEF ViewOK
      <3>3. Owned(d, view[d]) = R(zone)
        BY <1>2, <2>1, <2>3, <3>2 DEF ExactOK
      <3> QED
        BY <3>1, <3>2, <3>3, PlanExact
    <2> HIDE DEF after, b
    <2>4. CASE /\ pc'[d] = "submit" /\ batch'[d] = b
               /\ cache' = [cache EXCEPT ![d].eps =
                              IF cache[d].filled THEN after ELSE cache[d].eps]
      <3>1. cache'[d] = [cache[d] EXCEPT !.eps =
                           IF cache[d].filled THEN after ELSE cache[d].eps]
        BY <1>3, <2>4
      <3>2. CASE ~cache[d].filled \/ missed[d]
        <4>1. cache'[d].filled = cache[d].filled \/ missed'[d]
          BY <2>1, <3>1, <3>2
        <4>2. ~cache'[d].filled \/ missed'[d]
          BY <2>1, <3>1, <3>2, <4>1
        <4> QED
          BY <1>8, <4>2
      <3>3. CASE cache[d].filled /\ ~missed[d]
        <4>1. cache'[d].eps = after
          BY <3>1, <3>3
        <4> QED
          BY <2>1, <2>3, <2>4, <3>3, <4>1 DEF ExactOK
      <3> QED
        BY <3>2, <3>3
    <2> QED
      BY <2>1, <2>2, <2>4
  <1>13. CASE SubmitApplied(d)
    <2>1. /\ pc[d] = "submit" /\ cache' = cache /\ missed' = missed
          /\ pc'[d] = "idle"
      BY <1>3, <1>13 DEF SubmitApplied, MaySplit
    <2>2. ASSUME cache[d].filled, ~missed[d] PROVE Owned(d, cache[d].eps) = R(zone')
      <3>1. ExactSubmit(d, cache[d].eps, batch[d], zone)
        BY <1>2, <2>1, <2>2 DEF ExactOK
      <3> QED
        BY <1>1, <1>4, <1>13, <3>1, SubmitExact
    <2> QED
      BY <2>1, <2>2 DEF ExactOK
  <1>14. CASE SubmitFailed(d)
    <2>1. missed'[d] = Caching /\ cache' = cache
      BY <1>3, <1>14 DEF SubmitFailed
    <2>2. Caching \/ ~cache[d].filled
      BY <1>1 DEF TypeOK, NoCache
    <2> QED
      BY <1>8, <2>1, <2>2
  <1>15. CASE SplitBatch(d)
    BY <1>15 DEF SplitBatch, MaySplit
  <1>16. CASE SourceFails(d)
    BY <1>3, <1>7, <1>16 DEF SourceFails
  <1>17. CASE CacheExpires(d)
    BY <1>3, <1>6, <1>17 DEF CacheExpires
  <1>18. CASE Restart(d)
    BY <1>3, <1>8, <1>18 DEF Restart, NoCache
  <1>19. CASE SourceChanges(d)
    BY <1>6, <1>19 DEF SourceChanges, procVars
  <1>20. CASE StepOf(d)
    BY <1>5, <1>11, <1>12, <1>13, <1>14, <1>15, <1>16, <1>17, <1>18, <1>19, <1>20
       DEF StepOf, GroupApplied, GroupFailed
  <1> QED
    BY <1>9, <1>10, <1>20, StepOfOne

(* As long as every batch of a process has been applied, the endpoints it  *)
(* owns in its cache are exactly those in the zone, whatever the other     *)
(* processes do (registry.go: addToCache, removeFromCache), for any number *)
(* of processes with owner ids of their own, none of which migrates        *)
(* records, on a provider that checks updates.                             *)
THEOREM ReconcileCacheExact ==
  ASSUME Provider = "inmemory", OneSpelling, DistinctOwners, NoMigration, LegacyUnshared
  PROVE  Spec => []CacheExact
  <1> DEFINE Inv == IInv /\ OwnedInv /\ ViewInv /\ WholeInv /\ KeysInv /\ ExactInv
  <1>1. Init => Inv
    BY InitInv, OwnedInit, ViewInit, WholeInit, KeysInit, ExactInit
  <1>2. Inv /\ [Next]_vars => Inv'
    BY StepInv, OwnedStep, ViewStep, WholeStep, KeysStep, ExactStep DEF IInv
  <1>3. Inv => CacheExact
    BY DEF ExactInv, ExactOK, CacheExact
  <1> HIDE DEF Inv
  <1> QED
    BY <1>1, <1>2, <1>3, PTL DEF Spec
=============================================================================
