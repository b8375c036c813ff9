----------------------------- MODULE PlanProofs -----------------------------
(***************************************************************************)
(* What Calculate computes, for any filter, owner, policy and lists: which *)
(* endpoint wins a row and type, that the winner does not depend on who    *)
(* holds the name once it holds it, and the four parts of a plan as sets,  *)
(* without the planTable of the code; and what a plan does to endpoints    *)
(* with one spelling for each name.  The proofs about the plan loop and    *)
(* the registries rest on these lemmas.                                    *)
(***************************************************************************)
EXTENDS Plan, WellFoundedInduction, TLAPS

(* The lists a source may return.                                          *)
Lists == Seq(Endpoints)

(* Every nonempty set of naturals has a least element.                     *)
LEMMA LeastNatural ==
  ASSUME NEW T \in SUBSET Nat, T # {}
  PROVE  \E x \in T : \A y \in T : x =< y
  <1>1. PICK x \in T : \A y \in T : ~ (<<y, x>> \in OpToRel(<, Nat))
    BY NatLessThanWellFounded, WFMin
  <1>2. \A y \in T : ~ (y < x)
    BY <1>1 DEF OpToRel
  <1> QED
    BY <1>2

-----------------------------------------------------------------------------
(* The winner of a row and type.                                           *)

(* Position i is the first of the candidates with the least targets.       *)
Wins(list, I, i) ==
  /\ i \in I
  /\ \A j \in I : \/ list[i].tgt < list[j].tgt
                  \/ list[i].tgt = list[j].tgt /\ i =< j

(* What the positions of a list hold.                                      *)
LEMMA ListTypes ==
  ASSUME NEW list \in Lists, NEW i \in DOMAIN list
  PROVE  /\ i \in Nat /\ list[i] \in Endpoints
         /\ list[i].tgt \in Nat /\ list[i].ttl \in Nat
  <1>1. i \in Nat /\ list[i] \in Endpoints
    BY DEF Lists
  <1> QED
    BY <1>1 DEF Endpoints

(* There is a winner, and only one.                                        *)
LEMMA WinnerExists ==
  ASSUME NEW list \in Lists, NEW I \in SUBSET DOMAIN list, I # {}
  PROVE  \E i \in I : Wins(list, I, i)
  <1> DEFINE T == {list[i].tgt : i \in I}
  <1>1. \A i \in I : i \in Nat /\ list[i].tgt \in Nat
    BY ListTypes
  <1>2. T \in SUBSET Nat /\ T # {}
    BY <1>1
  <1>3. PICK t \in T : \A u \in T : t =< u
    BY <1>2, LeastNatural
  <1> DEFINE J == {i \in I : list[i].tgt = t}
  <1>4. J \in SUBSET Nat /\ J # {}
    BY <1>1, <1>3
  <1>5. PICK i \in J : \A j \in J : i =< j
    BY <1>4, LeastNatural
  <1>6. ASSUME NEW j \in I
        PROVE  list[i].tgt < list[j].tgt \/ (list[i].tgt = list[j].tgt /\ i =< j)
    <2>1. t =< list[j].tgt /\ t \in Nat /\ list[j].tgt \in Nat
      BY <1>2, <1>3
    <2> QED
      BY <2>1, <1>5
  <1> QED
    BY <1>5, <1>6 DEF Wins

LEMMA WinnerUnique ==
  ASSUME NEW list \in Lists, NEW I \in SUBSET DOMAIN list,
         NEW i, NEW j, Wins(list, I, i), Wins(list, I, j)
  PROVE  i = j
  <1>1. i \in I /\ j \in I
    BY DEF Wins
  <1>2. /\ i \in Nat /\ j \in Nat
        /\ list[i].tgt \in Nat /\ list[j].tgt \in Nat
    BY <1>1, ListTypes
  <1>3. /\ list[i].tgt < list[j].tgt \/ (list[i].tgt = list[j].tgt /\ i =< j)
        /\ list[j].tgt < list[i].tgt \/ (list[j].tgt = list[i].tgt /\ j =< i)
    BY <1>1 DEF Wins
  <1> QED
    BY <1>2, <1>3

(* ResolveCreate returns it.                                               *)
LEMMA ResolveCreateWins ==
  ASSUME NEW list \in Lists, NEW I \in SUBSET DOMAIN list,
         NEW i, Wins(list, I, i)
  PROVE  ResolveCreate(list, I) = list[i]
  <1> DEFINE j == CHOOSE n \in I :
                    \A m \in I : \/ list[n].tgt < list[m].tgt
                                 \/ list[n].tgt = list[m].tgt /\ n =< m
  <1>1. Wins(list, I, j)
    BY DEF Wins
  <1>2. ResolveCreate(list, I) = list[j]
    BY DEF ResolveCreate
  <1> HIDE DEF j
  <1>3. i = j
    BY <1>1, WinnerUnique
  <1> QED
    BY <1>2, <1>3

LEMMA ResolveCreatePicks ==
  ASSUME NEW list \in Lists, NEW I \in SUBSET DOMAIN list, I # {}
  PROVE  \E i \in I : Wins(list, I, i) /\ ResolveCreate(list, I) = list[i]
  BY WinnerExists, ResolveCreateWins

(* The winner also wins against fewer candidates.                          *)
LEMMA ResolveCreateFewer ==
  ASSUME NEW list \in Lists, NEW I \in SUBSET DOMAIN list, NEW J \in SUBSET I,
         NEW i \in J, Wins(list, I, i)
  PROVE  ResolveCreate(list, J) = list[i]
  <1>1. Wins(list, J, i)
    BY DEF Wins
  <1> QED
    BY <1>1, ResolveCreateWins

(* ResolveUpdate returns a candidate, one of the resource that holds the   *)
(* name if there is one.                                                   *)
LEMMA ResolveUpdatePicks ==
  ASSUME NEW list \in Lists, NEW I \in SUBSET DOMAIN list, I # {}, NEW c
  PROVE  \E i \in I :
           /\ ResolveUpdate(c, list, I) = list[i]
           /\ (\E j \in I : list[j].res = c.res) => list[i].res = c.res
  <1> DEFINE mine == {i \in I : list[i].res = c.res}
  <1>1. ResolveUpdate(c, list, I)
          = ResolveCreate(list, IF mine # {} THEN mine ELSE I)
    BY DEF ResolveUpdate
  <1>2. CASE mine # {}
    <2>1. mine \in SUBSET DOMAIN list
      OBVIOUS
    <2>2. PICK i \in mine : ResolveCreate(list, mine) = list[i]
      <3> HIDE DEF mine
      <3> QED
        BY <1>2, <2>1, ResolveCreatePicks
    <2> QED
      BY <1>1, <1>2, <2>2
  <1>3. CASE mine = {}
    <2>1. PICK i \in I : ResolveCreate(list, I) = list[i]
      BY ResolveCreatePicks
    <2> QED
      BY <1>1, <1>3, <2>1
  <1> QED
    BY <1>2, <1>3

(* A resource that has won a name wins it again: neither ResolveUpdate nor *)
(* ResolveCreate picks an endpoint that ResolveUpdate would replace.       *)
LEMMA UpdateStable ==
  ASSUME NEW list \in Lists, NEW I \in SUBSET DOMAIN list, I # {},
         NEW c, NEW d, d.res = ResolveUpdate(c, list, I).res
  PROVE  ResolveUpdate(d, list, I) = ResolveUpdate(c, list, I)
  <1> DEFINE mine(e) == {i \in I : list[i].res = e.res}
  <1>1. \A e : ResolveUpdate(e, list, I)
                 = ResolveCreate(list, IF mine(e) # {} THEN mine(e) ELSE I)
    BY DEF ResolveUpdate
  <1>2. CASE mine(c) # {}
    <2>1. ResolveUpdate(c, list, I).res = c.res
      BY <1>2, ResolveUpdatePicks
    <2>2. mine(d) = mine(c)
      BY <2>1
    <2> QED
      BY <1>1, <2>2
  <1>3. CASE mine(c) = {}
    <2>1. PICK i \in I : Wins(list, I, i) /\ ResolveCreate(list, I) = list[i]
      BY ResolveCreatePicks
    <2>2. ResolveUpdate(c, list, I) = list[i]
      BY <1>1, <1>3, <2>1
    <2>3. i \in mine(d)
      BY <2>2
    <2>4. ResolveCreate(list, mine(d)) = list[i]
      <3>1. mine(d) \in SUBSET I
        OBVIOUS
      <3> HIDE DEF mine
      <3> QED
        BY <2>1, <2>3, <3>1, ResolveCreateFewer
    <2>5. mine(d) # {}
      BY <2>3
    <2> QED
      BY <1>1, <2>2, <2>4, <2>5
  <1> QED
    BY <1>2, <1>3

LEMMA CreateStable ==
  ASSUME NEW list \in Lists, NEW I \in SUBSET DOMAIN list, I # {},
         NEW d, d.res = ResolveCreate(list, I).res
  PROVE  ResolveUpdate(d, list, I) = ResolveCreate(list, I)
  <1> DEFINE mine == {i \in I : list[i].res = d.res}
  <1>1. ResolveUpdate(d, list, I)
          = ResolveCreate(list, IF mine # {} THEN mine ELSE I)
    BY DEF ResolveUpdate
  <1>2. PICK i \in I : Wins(list, I, i) /\ ResolveCreate(list, I) = list[i]
    BY ResolveCreatePicks
  <1>3. i \in mine /\ mine \in SUBSET I
    BY <1>2
  <1>4. mine # {}
    BY <1>3
  <1>5. ResolveCreate(list, mine) = list[i]
    <2> HIDE DEF mine
    <2> QED
      BY <1>2, <1>3, ResolveCreateFewer
  <1> QED
    BY <1>1, <1>2, <1>4, <1>5

-----------------------------------------------------------------------------
(* The parts of a plan.                                                    *)

(* The row of a plan key: its current endpoints and its candidates.        *)
RowOf(current, k) == {e \in {d \in current : InPlan(d)} : PlanKey(e) = k}
Candidates(list, k) ==
  {i \in {j \in DOMAIN list : InPlan(list[j])} : PlanKey(list[i]) = k}

(* The candidates for a row and type, and the one that replaces c.         *)
WantedFor(list, k, type) == ResolveRecordTypes(list, Candidates(list, k), type)
UpdateFor(list, c) == ResolveUpdate(c, list, WantedFor(list, PlanKey(c), c.type))

(* The plan may change the record: it has no owner id, or it is the record's. *)
Mine(p, c) == p.ownerID = "" \/ IsOwnedBy(c, p.ownerID)

(* A record that is to be replaced.                                        *)
Stale(p, list, c) ==
  /\ WantedFor(list, PlanKey(c), c.type) # {}
  /\ NeedsUpdate(p, UpdateFor(list, c), c)

PlanUpdates(p, current, list) ==
  {c \in current : InPlan(c) /\ Mine(p, c) /\ p.policy # "create-only" /\ Stale(p, list, c)}
PlanDeletes(p, current, list) ==
  {c \in current : /\ InPlan(c) /\ Mine(p, c) /\ p.policy = "sync"
                   /\ WantedFor(list, PlanKey(c), c.type) = {}}

(* Type t of row k is created.                                             *)
Creates(p, current, list, k, t) ==
  /\ \E i \in Candidates(list, k) : list[i].type = t
  /\ \A c \in RowOf(current, k) : c.type # t
  /\ WantedFor(list, k, t) # {}
  /\ OwnersMatch(p, RowOf(current, k))

(* The candidates for a row and type are positions of the list.            *)
LEMMA WantedPositions ==
  ASSUME NEW list, NEW k, NEW t, NEW i \in WantedFor(list, k, t)
  PROVE  /\ i \in DOMAIN list /\ InPlan(list[i]) /\ PlanKey(list[i]) = k
         /\ list[i].type = t
  BY DEF WantedFor, ResolveRecordTypes, Candidates

LEMMA WantedSubset ==
  ASSUME NEW list, NEW k, NEW t
  PROVE  WantedFor(list, k, t) \in SUBSET DOMAIN list
  BY DEF WantedFor, ResolveRecordTypes, Candidates

(* An update stays in the row and type of what it replaces, inside the     *)
(* filter, and inherits its owner.                                         *)
LEMMA UpdateKeepsRow ==
  ASSUME NEW list \in Lists, NEW c, WantedFor(list, PlanKey(c), c.type) # {}
  PROVE  LET u == UpdateFor(list, c)
             x == InheritOwner(c, u)
         IN  /\ u \in Endpoints /\ \E i \in DOMAIN list : u = list[i]
             /\ InPlan(u) /\ PlanKey(u) = PlanKey(c) /\ u.type = c.type
             /\ x.name = u.name /\ x.sid = u.sid /\ x.type = u.type
             /\ x.tgt = u.tgt /\ x.ttl = u.ttl /\ x.ps = u.ps
             /\ x.owner = c.owner /\ x.res = u.res
             /\ InPlan(x) /\ PlanKey(x) = PlanKey(c) /\ x.type = c.type
  <1> DEFINE W == WantedFor(list, PlanKey(c), c.type)
             u == UpdateFor(list, c)
             x == InheritOwner(c, u)
  <1>1. W \in SUBSET DOMAIN list
    BY WantedSubset
  <1>2. PICK i \in W : u = list[i]
    <2>1. u = ResolveUpdate(c, list, W)
      BY DEF UpdateFor
    <2> HIDE DEF W, u
    <2> QED
      BY <1>1, <2>1, ResolveUpdatePicks DEF W
  <1>3. u \in Endpoints /\ InPlan(u) /\ PlanKey(u) = PlanKey(c) /\ u.type = c.type
    BY <1>1, <1>2, WantedPositions, ListTypes
  <1> HIDE DEF W, u
  <1>4. /\ x.name = u.name /\ x.sid = u.sid /\ x.type = u.type
        /\ x.tgt = u.tgt /\ x.ttl = u.ttl /\ x.ps = u.ps
        /\ x.owner = c.owner /\ x.res = u.res
    BY <1>3 DEF InheritOwner, Endpoints
  <1>5. InPlan(x) /\ PlanKey(x) = PlanKey(c)
    BY <1>3, <1>4 DEF InPlan, PlanKey
  <1> QED
    BY <1>1, <1>2, <1>3, <1>4, <1>5 DEF u

(* What a created type looks like.                                         *)
LEMMA CreateFits ==
  ASSUME NEW list \in Lists, NEW k, NEW t, WantedFor(list, k, t) # {}
  PROVE  LET x == ResolveCreate(list, WantedFor(list, k, t))
         IN  /\ x \in Endpoints /\ \E i \in DOMAIN list : x = list[i]
             /\ InPlan(x) /\ PlanKey(x) = k /\ x.type = t
  <1> DEFINE W == WantedFor(list, k, t)
  <1>1. W \in SUBSET DOMAIN list
    BY WantedSubset
  <1>2. PICK i \in W : ResolveCreate(list, W) = list[i]
    <2> HIDE DEF W
    <2> QED
      BY <1>1, ResolveCreatePicks DEF W
  <1>3. i \in DOMAIN list /\ InPlan(list[i]) /\ PlanKey(list[i]) = k /\ list[i].type = t
    BY <1>2, WantedPositions
  <1> QED
    BY <1>2, <1>3, ListTypes

(* The parts of a row.                                                     *)
LEMMA RowParts ==
  ASSUME NEW p, NEW current, NEW list, NEW k, NEW x
  PROVE  LET r == RowChanges(p, RowOf(current, k), list, Candidates(list, k))
         IN  /\ x \in r.updateOld <=> x \in RowOf(current, k) /\ Stale(p, list, x)
             /\ x \in r.updateNew <=>
                  \E c \in RowOf(current, k) :
                    Stale(p, list, c) /\ x = InheritOwner(c, UpdateFor(list, c))
             /\ x \in r.delete <=> /\ x \in RowOf(current, k)
                                   /\ WantedFor(list, PlanKey(x), x.type) = {}
             /\ x \in r.create <=>
                  \E t : /\ Creates(p, current, list, k, t)
                         /\ x = ResolveCreate(list, WantedFor(list, k, t))
  <1> DEFINE r == RowChanges(p, RowOf(current, k), list, Candidates(list, k))
             wanted(type) == ResolveRecordTypes(list, Candidates(list, k), type)
             update(c) == ResolveUpdate(c, list, wanted(c.type))
             updated == {c \in RowOf(current, k) :
                           wanted(c.type) # {} /\ NeedsUpdate(p, update(c), c)}
             created == {t \in MissingTypes(RowOf(current, k), list, Candidates(list, k)) :
                           wanted(t) # {} /\ OwnersMatch(p, RowOf(current, k))}
  <1>1. /\ r.create = {ResolveCreate(list, wanted(t)) : t \in created}
        /\ r.updateOld = updated
        /\ r.updateNew = {InheritOwner(c, update(c)) : c \in updated}
        /\ r.delete = {c \in RowOf(current, k) : wanted(c.type) = {}}
    BY DEF RowChanges
  <1>2. \A t : wanted(t) = WantedFor(list, k, t)
    BY DEF WantedFor
  <1>3. \A c \in RowOf(current, k) :
          /\ wanted(c.type) = WantedFor(list, PlanKey(c), c.type)
          /\ update(c) = UpdateFor(list, c)
    <2> TAKE c \in RowOf(current, k)
    <2>1. PlanKey(c) = k
      BY DEF RowOf
    <2> QED
      BY <2>1 DEF UpdateFor, WantedFor
  <1>4. \A t : t \in created <=> Creates(p, current, list, k, t)
    BY <1>2 DEF Creates, MissingTypes
  <1> HIDE DEF wanted, update, created, r
  <1>5. \A c : c \in updated <=> c \in RowOf(current, k) /\ Stale(p, list, c)
    BY <1>3 DEF Stale
  <1> HIDE DEF updated
  <1>6. x \in r.updateOld <=> x \in RowOf(current, k) /\ Stale(p, list, x)
    BY <1>1, <1>5
  <1>7. x \in r.updateNew <=>
          \E c \in RowOf(current, k) :
            Stale(p, list, c) /\ x = InheritOwner(c, UpdateFor(list, c))
    BY <1>1, <1>3, <1>5
  <1>8. x \in r.delete <=> /\ x \in RowOf(current, k)
                           /\ WantedFor(list, PlanKey(x), x.type) = {}
    BY <1>1, <1>3
  <1>9. x \in r.create <=>
          \E t : /\ Creates(p, current, list, k, t)
                 /\ x = ResolveCreate(list, WantedFor(list, k, t))
    BY <1>1, <1>2, <1>4
  <1> QED
    BY <1>6, <1>7, <1>8, <1>9 DEF r

(* The four parts of a plan.                                               *)
LEMMA CalculateParts ==
  ASSUME NEW p, p.policy \in Policies, NEW current, NEW list \in Lists
  PROVE  LET ch == Calculate(p, current, list)
         IN  /\ ch.updateOld = PlanUpdates(p, current, list)
             /\ ch.updateNew = {InheritOwner(c, UpdateFor(list, c)) :
                                  c \in PlanUpdates(p, current, list)}
             /\ ch.delete = PlanDeletes(p, current, list)
             /\ \A x : x \in ch.create <=>
                         \E k, t : /\ Creates(p, current, list, k, t)
                                   /\ x = ResolveCreate(list, WantedFor(list, k, t))
  <1> DEFINE cur == {e \in current : InPlan(e)}
             des == {i \in DOMAIN list : InPlan(list[i])}
             keys == {PlanKey(e) : e \in cur} \union {PlanKey(list[i]) : i \in des}
             row(k) == RowChanges(p, RowOf(current, k), list, Candidates(list, k))
             rows == {row(k) : k \in keys}
             all == [create    |-> UNION {r.create    : r \in rows},
                     updateOld |-> UNION {r.updateOld : r \in rows},
                     updateNew |-> UNION {r.updateNew : r \in rows},
                     delete    |-> UNION {r.delete    : r \in rows}]
             some == ApplyPolicy(p.policy, all)
             ch == Calculate(p, current, list)
             new(c) == InheritOwner(c, UpdateFor(list, c))
  <1>1. ch = FilterChanges(p.ownerID, some)
    BY DEF Calculate, RowOf, Candidates
  <1>2. ASSUME NEW k
        PROVE  \A x :
                 /\ x \in row(k).updateOld <=> x \in RowOf(current, k) /\ Stale(p, list, x)
                 /\ x \in row(k).updateNew <=>
                      \E c \in RowOf(current, k) : Stale(p, list, c) /\ x = new(c)
                 /\ x \in row(k).delete <=>
                      /\ x \in RowOf(current, k)
                      /\ WantedFor(list, PlanKey(x), x.type) = {}
    BY RowParts
  <1>3. \A x, k : x \in RowOf(current, k) <=> x \in cur /\ PlanKey(x) = k
    BY DEF RowOf
  <1>4. \A x \in cur : PlanKey(x) \in keys
    OBVIOUS
  <1>5. all.updateOld = {c \in cur : Stale(p, list, c)}
    <2>1. \A x : x \in all.updateOld <=> \E k \in keys : x \in row(k).updateOld
      OBVIOUS
    <2> HIDE DEF row, all, cur, keys
    <2> QED
      BY <1>2, <1>3, <1>4, <2>1
  <1>6. all.updateNew = {new(c) : c \in {d \in cur : Stale(p, list, d)}}
    <2>1. \A x : x \in all.updateNew <=> \E k \in keys : x \in row(k).updateNew
      OBVIOUS
    <2> HIDE DEF row, all, cur, keys, new
    <2>2. \A x : x \in all.updateNew <=> \E c \in cur : Stale(p, list, c) /\ x = new(c)
      BY <1>2, <1>3, <1>4, <2>1
    <2> QED
      BY <2>2
  <1>7. all.delete = {c \in cur : WantedFor(list, PlanKey(c), c.type) = {}}
    <2>1. \A x : x \in all.delete <=> \E k \in keys : x \in row(k).delete
      OBVIOUS
    <2> HIDE DEF row, all, cur, keys
    <2> QED
      BY <1>2, <1>3, <1>4, <2>1
  <1>8. \A x : x \in all.create <=>
                 \E k, t : /\ Creates(p, current, list, k, t)
                           /\ x = ResolveCreate(list, WantedFor(list, k, t))
    <2>1. \A x : x \in all.create <=> \E k \in keys : x \in row(k).create
      OBVIOUS
    <2>2. ASSUME NEW k
          PROVE  \A x : x \in row(k).create <=>
                          \E t : /\ Creates(p, current, list, k, t)
                                 /\ x = ResolveCreate(list, WantedFor(list, k, t))
      BY RowParts
    <2>3. \A k, t : Creates(p, current, list, k, t) => k \in keys
      BY DEF Creates, Candidates
    <2> HIDE DEF row, all, cur, keys
    <2> QED
      BY <2>1, <2>2, <2>3
  <1> HIDE DEF all, cur
  <1>9. /\ some.create = all.create
        /\ some.updateOld = IF p.policy = "create-only" THEN {} ELSE all.updateOld
        /\ some.updateNew = IF p.policy = "create-only" THEN {} ELSE all.updateNew
        /\ some.delete = IF p.policy = "sync" THEN all.delete ELSE {}
        /\ DOMAIN some = {"create", "updateOld", "updateNew", "delete"}
    <2>1. DOMAIN all = {"create", "updateOld", "updateNew", "delete"}
      BY DEF all
    <2>2. CASE p.policy = "sync"
      BY <2>1, <2>2 DEF ApplyPolicy
    <2>3. CASE p.policy = "upsert-only"
      <3>1. some = [all EXCEPT !.delete = {}]
        BY <2>3 DEF ApplyPolicy
      <3> QED
        BY <2>1, <2>3, <3>1
    <2>4. CASE p.policy = "create-only"
      <3>1. some = [NoChanges EXCEPT !.create = all.create]
        BY <2>4 DEF ApplyPolicy
      <3> QED
        BY <2>4, <3>1 DEF NoChanges
    <2> QED
      BY <2>2, <2>3, <2>4 DEF Policies
  <1> HIDE DEF some
  <1>10. /\ ch.create = some.create
         /\ ch.updateOld = {c \in some.updateOld : Mine(p, c)}
         /\ ch.updateNew = {c \in some.updateNew : Mine(p, c)}
         /\ ch.delete = {c \in some.delete : Mine(p, c)}
    <2>1. CASE p.ownerID = ""
      BY <1>1, <2>1 DEF FilterChanges, Mine
    <2>2. CASE p.ownerID # ""
      BY <1>1, <1>9, <2>2 DEF FilterChanges, Mine, FilterByOwner
    <2> QED
      BY <2>1, <2>2
  <1> HIDE DEF ch
  <1>11. ch.updateOld = PlanUpdates(p, current, list)
    BY <1>5, <1>9, <1>10 DEF PlanUpdates, cur
  <1>12. ch.delete = PlanDeletes(p, current, list)
    BY <1>7, <1>9, <1>10 DEF PlanDeletes, cur
  <1>13. ch.updateNew = {new(c) : c \in PlanUpdates(p, current, list)}
    <2>1. \A c : Stale(p, list, c) => new(c).owner = c.owner
      BY UpdateKeepsRow DEF Stale
    <2>2. \A c : Stale(p, list, c) => (Mine(p, new(c)) <=> Mine(p, c))
      BY <2>1 DEF Mine, IsOwnedBy
    <2> HIDE DEF new
    <2>3. \A x : x \in ch.updateNew <=>
                   \E c \in cur : /\ p.policy # "create-only" /\ Stale(p, list, c) /\ x = new(c)
                                  /\ Mine(p, c)
      BY <1>6, <1>9, <1>10, <2>2
    <2>4. \A c : c \in PlanUpdates(p, current, list) <=>
                   c \in cur /\ p.policy # "create-only" /\ Stale(p, list, c) /\ Mine(p, c)
      BY DEF PlanUpdates, cur
    <2> QED
      BY <2>3, <2>4
  <1> QED
    BY <1>8, <1>9, <1>10, <1>11, <1>12, <1>13 DEF ch

-----------------------------------------------------------------------------
(* What a plan does to the endpoints it was made for.                      *)

(* The names in the domain filter are spelled in one way only, so that the *)
(* rows of a plan are the keys of the zone.                                *)
OneSpelling ==
  \A m, n \in FilteredNames : NormalizeDNSName(m) = NormalizeDNSName(n) => m = n

(* What newRegistry and buildController check of the configuration.        *)
ConfigOK(p) == p.policy \in Policies /\ p.ownerID # ""

(* One endpoint for each key.                                              *)
UniqueKeys(E) == \A d, e \in E : Key(d) = Key(e) => d = e

(* With one spelling for each name, an update keeps the key of a record.   *)
LEMMA UpdateKeepsKey ==
  ASSUME OneSpelling, NEW list \in Lists, NEW c, InPlan(c),
         WantedFor(list, PlanKey(c), c.type) # {}
  PROVE  Key(InheritOwner(c, UpdateFor(list, c))) = Key(c)
  <1> DEFINE x == InheritOwner(c, UpdateFor(list, c))
  <1>1. InPlan(x) /\ PlanKey(x) = PlanKey(c) /\ x.type = c.type
    BY UpdateKeepsRow
  <1> HIDE DEF x
  <1>2. /\ x.name \in FilteredNames /\ c.name \in FilteredNames /\ x.sid = c.sid
        /\ NormalizeDNSName(x.name) = NormalizeDNSName(c.name)
    BY <1>1 DEF InPlan, PlanKey
  <1>3. x.name = c.name
    BY <1>2 DEF OneSpelling
  <1> QED
    BY <1>1, <1>2, <1>3 DEF Key, x

(* An update never moves a record to another key or another owner.         *)
LEMMA UpdatesInPlace ==
  ASSUME OneSpelling, NEW p, ConfigOK(p),
         NEW current, NEW list \in Lists,
         NEW x \in Calculate(p, current, list).updateNew
  PROVE  \E c \in Calculate(p, current, list).updateOld :
           /\ Key(c) = Key(x) /\ c.owner = x.owner
           /\ x = InheritOwner(c, UpdateFor(list, c))
  <1>0. /\ Calculate(p, current, list).updateOld = PlanUpdates(p, current, list)
        /\ Calculate(p, current, list).updateNew
             = {InheritOwner(c, UpdateFor(list, c)) : c \in PlanUpdates(p, current, list)}
    BY CalculateParts DEF ConfigOK
  <1>1. PICK c \in PlanUpdates(p, current, list) : x = InheritOwner(c, UpdateFor(list, c))
    BY <1>0
  <1>2. InPlan(c) /\ WantedFor(list, PlanKey(c), c.type) # {}
    BY DEF PlanUpdates, Stale
  <1>3. Key(x) = Key(c) /\ x.owner = c.owner
    BY <1>1, <1>2, UpdateKeepsKey, UpdateKeepsRow
  <1> QED
    BY <1>0, <1>1, <1>3

(* The plan of a process touches only its own endpoints.                   *)
LEMMA PlanOwns ==
  ASSUME NEW p, ConfigOK(p), NEW E, NEW list \in Lists
  PROVE  LET ch == Calculate(p, E, list)
         IN  /\ ch.updateOld \subseteq E /\ ch.delete \subseteq E
             /\ FilterByOwner(p.ownerID, ch.updateOld) = ch.updateOld
             /\ FilterByOwner(p.ownerID, ch.updateNew) = ch.updateNew
             /\ FilterByOwner(p.ownerID, ch.delete) = ch.delete
  <1> DEFINE ch == Calculate(p, E, list)
             new(c) == InheritOwner(c, UpdateFor(list, c))
  <1>1. /\ ch.updateOld = PlanUpdates(p, E, list)
        /\ ch.updateNew = {new(c) : c \in PlanUpdates(p, E, list)}
        /\ ch.delete = PlanDeletes(p, E, list)
    BY CalculateParts DEF ConfigOK
  <1> HIDE DEF ch
  <1>2. \A c \in ch.updateOld : /\ c \in E /\ c.owner = p.ownerID /\ new(c).owner = c.owner
    <2> TAKE c \in ch.updateOld
    <2>1. c \in E /\ Mine(p, c) /\ WantedFor(list, PlanKey(c), c.type) # {}
      BY <1>1 DEF PlanUpdates, Stale
    <2>2. c.owner = p.ownerID
      BY <2>1 DEF Mine, IsOwnedBy, ConfigOK
    <2> QED
      BY <2>1, <2>2, UpdateKeepsRow
  <1>3. \A c \in ch.delete : c \in E /\ c.owner = p.ownerID
    BY <1>1 DEF PlanDeletes, Mine, IsOwnedBy, ConfigOK
  <1> HIDE DEF new
  <1>4. /\ FilterByOwner(p.ownerID, ch.updateOld) = ch.updateOld
        /\ FilterByOwner(p.ownerID, ch.delete) = ch.delete
    BY <1>2, <1>3 DEF FilterByOwner, IsOwnedBy
  <1>5. FilterByOwner(p.ownerID, ch.updateNew) = ch.updateNew
    <2>1. \A x \in ch.updateNew : x.owner = p.ownerID
      BY <1>1, <1>2
    <2> QED
      BY <2>1 DEF FilterByOwner, IsOwnedBy
  <1> QED
    BY <1>2, <1>3, <1>4, <1>5 DEF ch

(* A created endpoint has a key that was not there, and no other created   *)
(* endpoint has it.                                                        *)
LEMMA CreatesFresh ==
  ASSUME NEW p, ConfigOK(p), NEW E, NEW list \in Lists
  PROVE  LET new == Claimed(p, Calculate(p, E, list).create)
         IN  /\ \A x \in new : \A e \in E : Key(x) # Key(e)
             /\ UniqueKeys(new)
             /\ \A x \in new : /\ x.owner = p.ownerID
                               /\ \E i \in DOMAIN list :
                                    x = [list[i] EXCEPT !.owner = p.ownerID]
  <1> DEFINE won(k, t) == ResolveCreate(list, WantedFor(list, k, t))
             put(k, t) == [won(k, t) EXCEPT !.owner = p.ownerID]
             new == Claimed(p, Calculate(p, E, list).create)
  <1>1. \A x : x \in new <=> \E k, t : Creates(p, E, list, k, t) /\ x = put(k, t)
    <2>1. \A y : y \in Calculate(p, E, list).create <=>
                   \E k, t : Creates(p, E, list, k, t) /\ y = won(k, t)
      <3>1. p.policy \in Policies
        BY DEF ConfigOK
      <3> QED
        BY <3>1, CalculateParts
    <2> HIDE DEF won
    <2> QED
      BY <2>1 DEF Claimed
  <1>2. ASSUME NEW k, NEW t, Creates(p, E, list, k, t)
        PROVE  /\ InPlan(put(k, t)) /\ PlanKey(put(k, t)) = k /\ put(k, t).type = t
               /\ put(k, t).owner = p.ownerID
               /\ \E i \in DOMAIN list : put(k, t) = [list[i] EXCEPT !.owner = p.ownerID]
    <2>1. WantedFor(list, k, t) # {}
      BY <1>2 DEF Creates
    <2>2. /\ won(k, t) \in Endpoints /\ \E i \in DOMAIN list : won(k, t) = list[i]
          /\ InPlan(won(k, t)) /\ PlanKey(won(k, t)) = k /\ won(k, t).type = t
      BY <2>1, CreateFits
    <2> DEFINE w == won(k, t)
               x == [w EXCEPT !.owner = p.ownerID]
    <2> HIDE DEF won, w
    <2>3. w \in Endpoints
      BY <2>2 DEF w
    <2>4. /\ x.name = w.name /\ x.sid = w.sid /\ x.type = w.type /\ x.owner = p.ownerID
      BY <2>3 DEF Endpoints
    <2>5. InPlan(x) /\ PlanKey(x) = k
      BY <2>2, <2>4 DEF InPlan, PlanKey, w
    <2> QED
      BY <2>2, <2>4, <2>5 DEF w
  <1> HIDE DEF put, new
  <1>3. ASSUME NEW x, NEW y, Key(x) = Key(y)
        PROVE  PlanKey(x) = PlanKey(y) /\ x.type = y.type /\ (InPlan(x) <=> InPlan(y))
    BY <1>3 DEF Key, PlanKey, InPlan
  <1>4. ASSUME NEW x \in new, NEW e \in E, Key(x) = Key(e)
        PROVE  FALSE
    <2>1. PICK k, t : Creates(p, E, list, k, t) /\ x = put(k, t)
      BY <1>1
    <2>2. InPlan(e) /\ PlanKey(e) = k /\ e.type = t
      BY <1>2, <1>3, <1>4, <2>1
    <2> QED
      BY <2>1, <2>2 DEF Creates, RowOf
  <1>5. ASSUME NEW x \in new, NEW y \in new, Key(x) = Key(y)
        PROVE  x = y
    BY <1>1, <1>2, <1>3, <1>5
  <1>6. \A x \in new : /\ x.owner = p.ownerID
                       /\ \E i \in DOMAIN list : x = [list[i] EXCEPT !.owner = p.ownerID]
    BY <1>1, <1>2
  <1> QED
    BY <1>4, <1>5, <1>6 DEF UniqueKeys, new

(* A plan has four parts.                                                  *)
LEMMA CalculateDomain ==
  ASSUME NEW p, p.policy \in Policies, NEW E, NEW list
  PROVE  DOMAIN Calculate(p, E, list) = {"create", "updateOld", "updateNew", "delete"}
  <1>1. ASSUME NEW ch, DOMAIN ch = {"create", "updateOld", "updateNew", "delete"}
        PROVE  DOMAIN FilterChanges(p.ownerID, ApplyPolicy(p.policy, ch))
                 = {"create", "updateOld", "updateNew", "delete"}
    <2>1. DOMAIN ApplyPolicy(p.policy, ch) = {"create", "updateOld", "updateNew", "delete"}
      BY <1>1 DEF ApplyPolicy, NoChanges, Policies
    <2> QED
      BY <2>1 DEF FilterChanges
  <1> QED
    BY <1>1 DEF Calculate

(* An endpoint with the data of one of a list.                             *)
From(list, x) ==
  \E i \in DOMAIN list :
    x.type = list[i].type /\ x.tgt = list[i].tgt /\ x.ps = list[i].ps /\ x.res = list[i].res

(* The parts of a plan that is made for endpoints with unique keys: who    *)
(* owns them, where they come from, and that no key is in two of the       *)
(* created, updated and deleted parts.                                     *)
LEMMA PlanFacts ==
  ASSUME OneSpelling, NEW p, ConfigOK(p), NEW E, UniqueKeys(E), NEW list \in Lists
  PROVE  LET plan == Calculate(p, E, list)
             new == Claimed(p, plan.create)
         IN  /\ \A x \in new : /\ x.owner = p.ownerID /\ From(list, x)
                               /\ \A e \in E : Key(x) # Key(e)
             /\ \A x \in plan.updateNew : /\ x.owner = p.ownerID /\ From(list, x)
                                          /\ \E c \in plan.updateOld :
                                               Key(c) = Key(x) /\ c.type = x.type
             /\ \A c \in plan.updateOld : /\ c \in E /\ c.owner = p.ownerID
                                          /\ \E x \in plan.updateNew : Key(x) = Key(c)
             /\ \A d \in plan.delete : /\ d \in E /\ d.owner = p.ownerID
                                       /\ \A c \in plan.updateOld : Key(c) # Key(d)
             /\ UniqueKeys(new \union plan.updateNew)
  <1> DEFINE plan == Calculate(p, E, list)
             new == Claimed(p, plan.create)
             upd(c) == InheritOwner(c, UpdateFor(list, c))
  <1>1. /\ plan.updateOld = PlanUpdates(p, E, list)
        /\ plan.updateNew = {upd(c) : c \in PlanUpdates(p, E, list)}
        /\ plan.delete = PlanDeletes(p, E, list)
    BY CalculateParts DEF ConfigOK
  <1>2. \A x \in new : /\ x.owner = p.ownerID /\ From(list, x)
                       /\ \A e \in E : Key(x) # Key(e)
    <2> TAKE x \in new
    <2>1. /\ x.owner = p.ownerID /\ \A e \in E : Key(x) # Key(e)
          /\ \E i \in DOMAIN list : x = [list[i] EXCEPT !.owner = p.ownerID]
      BY CreatesFresh
    <2>2. PICK i \in DOMAIN list : x = [list[i] EXCEPT !.owner = p.ownerID]
      BY <2>1
    <2>3. list[i] \in Endpoints
      BY ListTypes
    <2>4. x.type = list[i].type /\ x.tgt = list[i].tgt /\ x.ps = list[i].ps /\ x.res = list[i].res
      BY <2>2, <2>3 DEF Endpoints
    <2> QED
      BY <2>1, <2>4 DEF From
  <1>3. UniqueKeys(new)
    BY CreatesFresh
  <1> HIDE DEF plan, new
  <1>4. \A c \in plan.updateOld :
          /\ c \in E /\ c.owner = p.ownerID /\ upd(c) \in plan.updateNew
          /\ WantedFor(list, PlanKey(c), c.type) # {}
          /\ Key(upd(c)) = Key(c) /\ upd(c).type = c.type /\ upd(c).owner = c.owner
          /\ From(list, upd(c))
    <2> TAKE c \in plan.updateOld
    <2>1. /\ c \in E /\ InPlan(c) /\ Mine(p, c) /\ WantedFor(list, PlanKey(c), c.type) # {}
      BY <1>1 DEF PlanUpdates, Stale
    <2>2. c.owner = p.ownerID
      BY <2>1 DEF Mine, IsOwnedBy, ConfigOK
    <2>3. upd(c) \in plan.updateNew
      BY <1>1
    <2>4. Key(upd(c)) = Key(c)
      BY <2>1, UpdateKeepsKey
    <2>5. /\ \E i \in DOMAIN list : UpdateFor(list, c) = list[i]
          /\ upd(c).type = UpdateFor(list, c).type /\ upd(c).tgt = UpdateFor(list, c).tgt
          /\ upd(c).ps = UpdateFor(list, c).ps /\ upd(c).res = UpdateFor(list, c).res
          /\ upd(c).owner = c.owner /\ upd(c).type = c.type
      BY <2>1, UpdateKeepsRow
    <2> HIDE DEF upd
    <2>6. From(list, upd(c))
      BY <2>5 DEF From
    <2> QED
      BY <2>1, <2>2, <2>3, <2>4, <2>5, <2>6
  <1>5. \A x \in plan.updateNew : \E c \in plan.updateOld : x = upd(c)
    BY <1>1
  <1> HIDE DEF upd
  <1>6. \A d \in plan.delete : /\ d \in E /\ d.owner = p.ownerID
                               /\ WantedFor(list, PlanKey(d), d.type) = {}
    BY <1>1 DEF PlanDeletes, Mine, IsOwnedBy, ConfigOK
  <1>7. \A d \in plan.delete : \A c \in plan.updateOld : Key(c) # Key(d)
    BY <1>4, <1>6 DEF UniqueKeys
  <1>8. UniqueKeys(new \union plan.updateNew)
    <2> SUFFICES ASSUME NEW x \in new \union plan.updateNew, NEW y \in new \union plan.updateNew,
                        Key(x) = Key(y)
                 PROVE  x = y
      BY DEF UniqueKeys
    <2>1. CASE x \in new /\ y \in new
      BY <1>3, <2>1 DEF UniqueKeys
    <2>2. ASSUME NEW u \in plan.updateNew, NEW v \in new
          PROVE  Key(u) # Key(v)
      BY <1>2, <1>4, <1>5
    <2>3. CASE x \in plan.updateNew /\ y \in plan.updateNew
      <3>1. PICK c \in plan.updateOld : x = upd(c)
        BY <1>5, <2>3
      <3>2. PICK d \in plan.updateOld : y = upd(d)
        BY <1>5, <2>3
      <3>3. c = d
        BY <1>4, <3>1, <3>2 DEF UniqueKeys
      <3> QED
        BY <3>1, <3>2, <3>3
    <2> QED
      BY <2>1, <2>2, <2>3
  <1> QED
    BY <1>2, <1>4, <1>5, <1>6, <1>7, <1>8 DEF plan, new
=============================================================================
