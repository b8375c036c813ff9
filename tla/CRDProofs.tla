----------------------------- MODULE CRDProofs -----------------------------
(***************************************************************************)
(* The CRD registry, for any number of processes with namespaces and owner *)
(* ids of their own:                                                       *)
(*  - every record has an object (RecordsHaveObjects), whatever fails,     *)
(*    unless the informer lags behind;                                     *)
(*  - on a provider that does not replace records, a process leaves the    *)
(*    records of others alone (OwnRecordsOnly); where objects of deleted   *)
(*    records may stay behind, because a batch was partly applied, an      *)
(*    answer or a write was lost or the process was killed, it may touch   *)
(*    those under names it once had itself, and no others;                 *)
(*  - a Programmed object describes the record that its process has, as    *)
(*    long as objects and statuses get written and nobody is killed; and   *)
(*    there is such a record if batches are applied as a whole             *)
(*    (ProgrammedIsLive).                                                  *)
(* The invariants say for each phase of ApplyChanges which objects and     *)
(* records are there.                                                      *)
(***************************************************************************)
EXTENDS CRDRegistry, PlanProofs

(* Every process has a namespace and an owner id of its own.               *)
OwnNamespaces == \A c, d \in Controllers : Namespace[c] = Namespace[d] => c = d
OwnIDs == \A c, d \in Controllers : OwnID(c) = OwnID(d) => c = d

-----------------------------------------------------------------------------
New(c) == changes[c].create \union changes[c].updateNew
IsObject(x, o) == x = <<x[1], Key(o.ep)>> /\ DOMAIN o = {"owner", "ep", "ready"}

Parts == {"create", "updateOld", "updateNew", "delete"}
Phases == {"idle", "plan", "write", "apply", "split", "partial", "failed", "error",
           "programmed", "delete"}

(* The calls of the provider: for the batch, or for its parts.             *)
Split == {"split", "partial"}
Calling == {"apply"} \union Split
Calls(c) == ProviderApplies(c) \/ ProviderFails(c) \/ PartApplies(c) \/ PartFails(c)

Shapes ==
  /\ world \in Worlds
  /\ \A x \in DOMAIN objs : IsObject(x, objs[x])
  /\ \A c \in Controllers : \A x \in DOMAIN lister[c] : IsObject(x, lister[c][x])
  /\ DOMAIN maker = DOMAIN zone
  /\ pc \in [Controllers -> Phases]
  /\ DOMAIN src = Controllers /\ \A c \in Controllers : src[c] \in SourceLists[c]
  /\ DOMAIN lister = Controllers /\ DOMAIN view = Controllers /\ DOMAIN changes = Controllers
  /\ DOMAIN todo = Controllers /\ DOMAIN applied = Controllers

(* The objects written in this run are as they were written, and the       *)
(* changes are those of a plan.                                            *)
RunInv(c) ==
  /\ pc[c] \in {"idle", "plan"} => applied[c] = <<>>
  /\ pc[c] = "plan" => UniqueKeys(view[c])
  /\ \A x \in DOMAIN applied[c] :
       /\ x \in DOMAIN objs /\ applied[c][x] = objs[x]
       /\ \E e \in New(c) : x = Obj(c, e) /\ objs[x].ep = e
  /\ pc[c] = "write" => todo[c] \subseteq New(c)
  /\ pc[c] = "delete" => todo[c] \subseteq changes[c].delete
  /\ pc[c] \in Split => todo[c] \subseteq Changed(changes[c]) /\ "split" \in world
  /\ UniqueKeys(New(c))
  /\ \A e \in New(c) : \A d \in changes[c].delete : Key(e) # Key(d)

BasicInv == Shapes /\ \A c \in Controllers : RunInv(c)

(* What a step of c leaves alone.                                          *)
Frame(c) ==
  /\ \A d \in Controllers \ {c} :
       /\ pc'[d] = pc[d] /\ view'[d] = view[d] /\ changes'[d] = changes[d]
       /\ todo'[d] = todo[d] /\ applied'[d] = applied[d]
  /\ \A x : x[1] # Namespace[c] =>
       /\ x \in DOMAIN objs' <=> x \in DOMAIN objs
       /\ x \in DOMAIN objs => objs'[x] = objs[x]
  /\ world' = world

-----------------------------------------------------------------------------
LEMMA ObjParts ==
  ASSUME NEW c, NEW e
  PROVE  Obj(c, e)[1] = Namespace[c] /\ Obj(c, e)[2] = Key(e)
  BY DEF Obj

LEMMA WrittenParts ==
  ASSUME Shapes, NEW c \in Controllers, NEW e
  PROVE  /\ IsObject(Obj(c, e), Written(c, e)) /\ Written(c, e).ep = e
         /\ Obj(c, e) \in DOMAIN objs => /\ Written(c, e).ready = objs[Obj(c, e)].ready
                                         /\ Written(c, e).owner = objs[Obj(c, e)].owner
         /\ Obj(c, e) \notin DOMAIN objs => Written(c, e).ready = "none"
<1>1. Obj(c, e) = <<Namespace[c], Key(e)>> /\ Obj(c, e)[1] = Namespace[c]
  BY DEF Obj
<1>2. CASE Obj(c, e) \in DOMAIN objs
  <2> DEFINE o == objs[Obj(c, e)]
  <2>1. DOMAIN o = {"owner", "ep", "ready"}
    BY <1>2 DEF Shapes, IsObject
  <2>2. Written(c, e) = [o EXCEPT !.ep = e]
    BY <1>2 DEF Written
  <2> HIDE DEF o
  <2>3. /\ Written(c, e).ep = e /\ Written(c, e).ready = o.ready /\ Written(c, e).owner = o.owner
        /\ DOMAIN Written(c, e) = {"owner", "ep", "ready"}
    BY <2>1, <2>2
  <2> QED
    BY <1>1, <1>2, <2>3 DEF IsObject, o
<1>3. CASE Obj(c, e) \notin DOMAIN objs
  <2>1. Written(c, e) = [owner |-> OwnID(c), ep |-> e, ready |-> "none"]
    BY <1>3 DEF Written
  <2>2. /\ Written(c, e).ep = e /\ Written(c, e).ready = "none"
        /\ DOMAIN Written(c, e) = {"owner", "ep", "ready"}
    BY <2>1
  <2> QED
    BY <1>1, <1>3, <2>2 DEF IsObject
<1> QED
  BY <1>2, <1>3

LEMMA PutParts ==
  ASSUME NEW f, NEW x, NEW v
  PROVE  /\ \A y : y \in DOMAIN Put(f, x, v) <=> y \in DOMAIN f \/ y = x
         /\ Put(f, x, v)[x] = v
         /\ \A y \in DOMAIN f : y # x => Put(f, x, v)[y] = f[y]
  BY DEF Put

(* The statuses of the objects written in this run are set, those in lost  *)
(* excepted; nobody else has changed them.                                 *)
StatusSet(c, reason, lost) ==
  /\ lost # {} => "status" \in world
  /\ DOMAIN objs' = DOMAIN objs
  /\ \A x \in DOMAIN objs :
       /\ x \in DOMAIN applied[c] \ lost =>
            /\ objs'[x].ready = reason /\ objs'[x].ep = objs[x].ep
            /\ objs'[x].owner = objs[x].owner /\ DOMAIN objs'[x] = {"owner", "ep", "ready"}
       /\ x \notin DOMAIN applied[c] \ lost => objs'[x] = objs[x]
  /\ DOMAIN applied'[c] = DOMAIN applied[c]
  /\ \A x \in DOMAIN applied[c] : applied'[c][x] = objs'[x]

LEMMA StatusParts ==
  ASSUME Shapes, NEW c \in Controllers, RunInv(c), NEW reason, SetStatus(c, reason)
  PROVE  \E lost : StatusSet(c, reason, lost)
<1> DEFINE A == applied[c]
           conflict == {x \in DOMAIN A : x \notin DOMAIN objs \/ objs[x] # A[x]}
           done(lost) == DOMAIN A \ (lost \union conflict)
<1>1. PICK lost \in SUBSET DOMAIN A :
        /\ lost # {} => "status" \in world
        /\ objs' = [x \in DOMAIN objs |->
                      IF x \in done(lost) THEN [objs[x] EXCEPT !.ready = reason] ELSE objs[x]]
        /\ applied' = [applied EXCEPT ![c] =
                        [x \in DOMAIN @ |-> IF x \in done(lost) THEN objs'[x] ELSE @[x]]]
  BY DEF SetStatus
<1>2. \A x \in DOMAIN A : x \in DOMAIN objs /\ objs[x] = A[x]
  BY DEF RunInv
<1>3. conflict = {}
  BY <1>2
<1>4. done(lost) = DOMAIN A \ lost
  BY <1>3
<1> DEFINE S == DOMAIN A \ lost
<1>5. objs' = [x \in DOMAIN objs |->
                 IF x \in S THEN [objs[x] EXCEPT !.ready = reason] ELSE objs[x]]
  BY <1>1, <1>4
<1>6. applied'[c] = [x \in DOMAIN A |-> IF x \in S THEN objs'[x] ELSE A[x]]
  <2>1. DOMAIN applied = Controllers
    BY DEF Shapes
  <2> QED
    BY <1>1, <1>4, <2>1
<1> HIDE DEF S, conflict, done
<1>7. \A x \in DOMAIN objs : DOMAIN objs[x] = {"owner", "ep", "ready"}
  BY DEF Shapes, IsObject
<1>8. DOMAIN objs' = DOMAIN objs /\ DOMAIN applied'[c] = DOMAIN A
  BY <1>5, <1>6
<1>9. ASSUME NEW x \in DOMAIN objs, x \in S
      PROVE  /\ objs'[x].ready = reason /\ objs'[x].ep = objs[x].ep
             /\ objs'[x].owner = objs[x].owner /\ DOMAIN objs'[x] = {"owner", "ep", "ready"}
  <2>1. objs'[x] = [objs[x] EXCEPT !.ready = reason]
    BY <1>5, <1>9
  <2> QED
    BY <1>7, <2>1
<1>10. \A x \in DOMAIN objs : x \notin S => objs'[x] = objs[x]
  BY <1>5
<1>11. \A x \in DOMAIN A : applied'[c][x] = objs'[x]
  BY <1>2, <1>6, <1>10
<1> QED
  BY <1>1, <1>8, <1>9, <1>10, <1>11 DEF StatusSet, S

(* What is known of a plan that is made from endpoints with unique keys.   *)
Sound(ch, E) ==
  /\ UniqueKeys(ch.create \union ch.updateNew)
  /\ \A e \in ch.create \union ch.updateNew : \A d \in ch.delete : Key(e) # Key(d)
  /\ \A e \in ch.updateNew : \E old \in E : Key(old) = Key(e)
  /\ ch.delete \subseteq E

LEMMA PlanParts ==
  ASSUME OneSpelling, Shapes, NEW c \in Controllers, NEW E, UniqueKeys(E),
         NEW ch, ch = [Calculate(Config[c], E, src[c]) EXCEPT !.create = Claimed(Config[c], @)]
  PROVE  Sound(ch, E)
<1> DEFINE p == Config[c]
           list == src[c]
           plan == Calculate(p, E, list)
           new == Claimed(p, plan.create)
<1>1. ConfigOK(p)
  BY CRDAssumption DEF ConfigOK
<1>2. list \in Lists
  BY CRDAssumption DEF Lists, Shapes
<1> HIDE DEF list
<1>3. /\ \A x \in new : \A e \in E : Key(x) # Key(e)
      /\ \A x \in plan.updateNew : \E old \in plan.updateOld : Key(old) = Key(x)
      /\ \A old \in plan.updateOld : old \in E
      /\ \A d \in plan.delete : d \in E /\ \A old \in plan.updateOld : Key(old) # Key(d)
      /\ UniqueKeys(new \union plan.updateNew)
  BY <1>1, <1>2, PlanFacts
<1>4. DOMAIN plan = Parts
  BY <1>1, CalculateDomain DEF ConfigOK, Parts
<1>5. ch = [plan EXCEPT !.create = new]
  BY DEF list
<1> HIDE DEF p, plan, new
<1>6. /\ ch.create = new /\ ch.updateNew = plan.updateNew /\ ch.delete = plan.delete
  BY <1>4, <1>5 DEF Parts
<1> QED
  BY <1>3, <1>6 DEF Sound

-----------------------------------------------------------------------------
(* What the actions do, in the terms of the invariants.                    *)
LEMMA Unwritten ==
  ASSUME NEW c \in Controllers, Shapes, objs' = objs,
         \/ ReadRecords(c) \/ PlanChanges(c) \/ WriteFails(c)
         \/ Calls(c) \/ Finish(c) \/ Crash(c)
  PROVE  Frame(c)
<1>1. CASE ReadRecords(c) \/ PlanChanges(c) \/ WriteFails(c) \/ Finish(c) \/ Crash(c)
  BY <1>1 DEF Frame, Shapes, ReadRecords, PlanChanges, WriteFails, Finish, Crash, Return
<1>2. CASE Calls(c)
  BY <1>2 DEF Frame, Shapes, Calls, ProviderApplies, ProviderFails, PartApplies, PartFails
<1> QED
  BY <1>1, <1>2

LEMMA StatusFrame ==
  ASSUME NEW c \in Controllers, Shapes, RunInv(c), NEW reason, SetStatus(c, reason),
         UNCHANGED <<view, changes, world>>, \A d \in Controllers \ {c} : pc'[d] = pc[d] /\ todo'[d] = todo[d]
  PROVE  /\ Frame(c) /\ \A x \in DOMAIN objs' : IsObject(x, objs'[x])
         /\ DOMAIN applied' = Controllers
         /\ \A x \in DOMAIN applied'[c] :
              /\ x \in DOMAIN objs' /\ applied'[c][x] = objs'[x]
              /\ \E e \in New(c) : x = Obj(c, e) /\ objs'[x].ep = e
<1>1. PICK lost : StatusSet(c, reason, lost)
  BY StatusParts
<1>2. /\ DOMAIN applied' = Controllers
      /\ \A d \in Controllers \ {c} : applied'[d] = applied[d]
  BY DEF SetStatus, Shapes
<1>3. \A x \in DOMAIN applied[c] : x \in DOMAIN objs /\ \E e \in New(c) : x = Obj(c, e) /\ objs[x].ep = e
  BY DEF RunInv
<1>4. \A x \in DOMAIN applied[c] : x[1] = Namespace[c]
  BY <1>3, ObjParts
<1>5. \A x \in DOMAIN objs : x[1] # Namespace[c] => objs'[x] = objs[x]
  BY <1>1, <1>4 DEF StatusSet
<1>6. Frame(c)
  BY <1>1, <1>2, <1>5 DEF Frame, StatusSet
<1>7. \A x \in DOMAIN objs : objs'[x].ep = objs[x].ep
  BY <1>1 DEF StatusSet
<1>8. \A x \in DOMAIN objs : DOMAIN objs'[x] = {"owner", "ep", "ready"}
  BY <1>1 DEF StatusSet, Shapes, IsObject
<1>9. \A x \in DOMAIN objs' : IsObject(x, objs'[x])
  BY <1>1, <1>7, <1>8 DEF StatusSet, Shapes, IsObject
<1>10. \A x \in DOMAIN applied'[c] :
         /\ x \in DOMAIN objs' /\ applied'[c][x] = objs'[x]
         /\ \E e \in New(c) : x = Obj(c, e) /\ objs'[x].ep = e
  BY <1>1, <1>3, <1>7 DEF StatusSet
<1> QED
  BY <1>2, <1>6, <1>9, <1>10

LEMMA WriteParts ==
  ASSUME NEW c \in Controllers, Shapes, WriteObject(c)
  PROVE  \E e \in todo[c] :
           /\ todo' = [todo EXCEPT ![c] = @ \ {e}]
           /\ \/ /\ e \in changes[c].create \/ Obj(c, e) \in DOMAIN objs
                 /\ \A y : y \in DOMAIN objs' <=> y \in DOMAIN objs \/ y = Obj(c, e)
                 /\ objs'[Obj(c, e)] = Written(c, e)
                 /\ \A y \in DOMAIN objs : y # Obj(c, e) => objs'[y] = objs[y]
                 /\ \A y : y \in DOMAIN applied'[c] <=> y \in DOMAIN applied[c] \/ y = Obj(c, e)
                 /\ applied'[c][Obj(c, e)] = Written(c, e)
                 /\ \A y \in DOMAIN applied[c] : y # Obj(c, e) => applied'[c][y] = applied[c][y]
                 /\ DOMAIN applied' = Controllers
                 /\ \A d \in Controllers \ {c} : applied'[d] = applied[d]
              \/ /\ e \notin changes[c].create /\ Obj(c, e) \notin DOMAIN objs
                 /\ UNCHANGED <<objs, applied>>
<1>1. PICK e \in todo[c] :
        /\ todo' = [todo EXCEPT ![c] = @ \ {e}]
        /\ \/ /\ e \in changes[c].create \/ Obj(c, e) \in DOMAIN objs
              /\ objs' = Put(objs, Obj(c, e), Written(c, e))
              /\ applied' = [applied EXCEPT ![c] = Put(@, Obj(c, e), Written(c, e))]
           \/ /\ e \notin changes[c].create /\ Obj(c, e) \notin DOMAIN objs
              /\ UNCHANGED <<objs, applied>>
  BY DEF WriteObject
<1>2. CASE /\ objs' = Put(objs, Obj(c, e), Written(c, e))
           /\ applied' = [applied EXCEPT ![c] = Put(@, Obj(c, e), Written(c, e))]
  <2>1. /\ DOMAIN applied' = Controllers /\ \A d \in Controllers \ {c} : applied'[d] = applied[d]
        /\ applied'[c] = Put(applied[c], Obj(c, e), Written(c, e))
    BY <1>2 DEF Shapes
  <2>2. /\ \A y : y \in DOMAIN objs' <=> y \in DOMAIN objs \/ y = Obj(c, e)
        /\ objs'[Obj(c, e)] = Written(c, e)
        /\ \A y \in DOMAIN objs : y # Obj(c, e) => objs'[y] = objs[y]
    BY <1>2, PutParts
  <2>3. /\ \A y : y \in DOMAIN applied'[c] <=> y \in DOMAIN applied[c] \/ y = Obj(c, e)
        /\ applied'[c][Obj(c, e)] = Written(c, e)
        /\ \A y \in DOMAIN applied[c] : y # Obj(c, e) => applied'[c][y] = applied[c][y]
    BY <2>1, PutParts
  <2> QED
    BY <1>1, <2>1, <2>2, <2>3
<1> QED
  BY <1>1, <1>2

LEMMA WriteBasic ==
  ASSUME NEW c \in Controllers, Shapes, RunInv(c), WriteObject(c)
  PROVE  Shapes' /\ RunInv(c)' /\ Frame(c)
<1>0. /\ pc[c] = "write" /\ pc'[c] = "write" /\ UNCHANGED <<pc, view, changes>>
      /\ UNCHANGED <<world, zone, maker, src, lister>>
  BY DEF WriteObject
<1>1. PICK e \in todo[c] :
           /\ todo' = [todo EXCEPT ![c] = @ \ {e}]
           /\ \/ /\ e \in changes[c].create \/ Obj(c, e) \in DOMAIN objs
                 /\ \A y : y \in DOMAIN objs' <=> y \in DOMAIN objs \/ y = Obj(c, e)
                 /\ objs'[Obj(c, e)] = Written(c, e)
                 /\ \A y \in DOMAIN objs : y # Obj(c, e) => objs'[y] = objs[y]
                 /\ \A y : y \in DOMAIN applied'[c] <=> y \in DOMAIN applied[c] \/ y = Obj(c, e)
                 /\ applied'[c][Obj(c, e)] = Written(c, e)
                 /\ \A y \in DOMAIN applied[c] : y # Obj(c, e) => applied'[c][y] = applied[c][y]
                 /\ DOMAIN applied' = Controllers
                 /\ \A d \in Controllers \ {c} : applied'[d] = applied[d]
              \/ /\ e \notin changes[c].create /\ Obj(c, e) \notin DOMAIN objs
                 /\ UNCHANGED <<objs, applied>>
  BY WriteParts
<1>2. /\ todo'[c] \subseteq todo[c] /\ DOMAIN todo' = Controllers
      /\ \A d \in Controllers \ {c} : todo'[d] = todo[d]
  BY <1>1 DEF Shapes
<1>3. New(c)' = New(c) /\ e \in New(c)
  BY <1>0 DEF New, RunInv
<1>4. CASE UNCHANGED <<objs, applied>>
  BY <1>0, <1>2, <1>3, <1>4 DEF Shapes, RunInv, Frame, IsObject, Obj
<1>5. ASSUME /\ \A y : y \in DOMAIN objs' <=> y \in DOMAIN objs \/ y = Obj(c, e)
             /\ objs'[Obj(c, e)] = Written(c, e)
             /\ \A y \in DOMAIN objs : y # Obj(c, e) => objs'[y] = objs[y]
             /\ \A y : y \in DOMAIN applied'[c] <=> y \in DOMAIN applied[c] \/ y = Obj(c, e)
             /\ applied'[c][Obj(c, e)] = Written(c, e)
             /\ \A y \in DOMAIN applied[c] : y # Obj(c, e) => applied'[c][y] = applied[c][y]
             /\ DOMAIN applied' = Controllers
             /\ \A d \in Controllers \ {c} : applied'[d] = applied[d]
      PROVE  Shapes' /\ RunInv(c)' /\ Frame(c)
  <2>1. IsObject(Obj(c, e), Written(c, e)) /\ Written(c, e).ep = e
    BY WrittenParts
  <2>2. \A x \in DOMAIN objs' : IsObject(x, objs'[x])
    BY <1>5, <2>1 DEF Shapes
  <2>3. Shapes'
    BY <1>0, <1>2, <1>5, <2>2 DEF Shapes, IsObject
  <2>4. ASSUME NEW x \in DOMAIN applied'[c]
        PROVE  /\ x \in DOMAIN objs' /\ applied'[c][x] = objs'[x]
               /\ \E d \in New(c) : x = Obj(c, d) /\ objs'[x].ep = d
    <3>1. CASE x = Obj(c, e)
      BY <1>3, <1>5, <2>1, <3>1
    <3>2. CASE x # Obj(c, e)
      BY <1>5, <3>2 DEF RunInv
    <3> QED
      BY <3>1, <3>2
  <2>5. RunInv(c)'
    BY <1>0, <1>2, <1>3, <2>4 DEF RunInv, Obj
  <2>6. \A x : x[1] # Namespace[c] => x # Obj(c, e)
    BY ObjParts
  <2>7. Frame(c)
    BY <1>0, <1>2, <1>5, <2>6 DEF Frame
  <2> QED
    BY <2>3, <2>5, <2>7
<1> QED
  BY <1>1, <1>4, <1>5

(* ApplyChanges has returned, or nothing has been planned.                 *)
LEMMA IdleRun ==
  ASSUME NEW c \in Controllers, pc'[c] \in {"idle", "plan"}, applied'[c] = <<>>,
         pc'[c] = "plan" => UniqueKeys(view'[c]),
         UniqueKeys(New(c)'), \A e \in New(c)' : \A d \in changes'[c].delete : Key(e) # Key(d)
  PROVE  RunInv(c)'
<1>1. DOMAIN applied'[c] = {}
  OBVIOUS
<1> QED
  BY <1>1 DEF RunInv, Split

LEMMA ReturnBasic ==
  ASSUME NEW c \in Controllers, Shapes, Return(c),
         UNCHANGED <<zone, world, src, objs, lister, maker>>, view'[c] \in {view[c], {}},
         DOMAIN view' = Controllers
  PROVE  Shapes' /\ RunInv(c)'
<1>1. /\ pc'[c] = "idle" /\ applied'[c] = <<>> /\ changes'[c] = NoChanges
  BY DEF Return, Shapes
<1>2. New(c)' = {} /\ changes'[c].delete = {}
  BY <1>1 DEF New, NoChanges
<1>3. RunInv(c)'
  BY <1>1, <1>2, IdleRun DEF UniqueKeys
<1>4. Shapes'
  BY DEF Return, Shapes, IsObject, Phases
<1> QED
  BY <1>3, <1>4

(* The endpoints of the objects in a namespace have keys of their own.     *)
LEMMA RecordsUnique ==
  ASSUME NEW c \in Controllers, Shapes
  PROVE  UniqueKeys(Records(c))
<1> DEFINE l == Listed(c)
           X == {y \in DOMAIN l : /\ y[1] = Namespace[c] /\ l[y].owner = OwnID(c)
                                  /\ l[y].ready = "Programmed"}
<1>1. Records(c) = {l[x].ep : x \in X}
  BY DEF Records
<1>2. \A x \in X : x = <<Namespace[c], Key(l[x].ep)>>
  BY DEF Listed, Shapes, IsObject
<1> HIDE DEF l, X
<1> SUFFICES ASSUME NEW d \in Records(c), NEW e \in Records(c), Key(d) = Key(e)
             PROVE  d = e
  BY DEF UniqueKeys
<1>3. PICK x \in X : d = l[x].ep
  BY <1>1
<1>4. PICK y \in X : e = l[y].ep
  BY <1>1
<1>5. x = y
  BY <1>2, <1>3, <1>4
<1> QED
  BY <1>3, <1>4, <1>5

LEMMA ReadBasic ==
  ASSUME NEW c \in Controllers, Shapes, RunInv(c), ReadRecords(c)
  PROVE  Shapes' /\ RunInv(c)'
<1>1. /\ pc[c] = "idle" /\ pc'[c] = "plan" /\ view'[c] = Records(c)
      /\ applied'[c] = <<>> /\ New(c)' = New(c) /\ changes' = changes
  BY DEF ReadRecords, Shapes, RunInv, New
<1>2. RunInv(c)'
  BY <1>1, IdleRun, RecordsUnique DEF RunInv
<1>3. Shapes'
  BY DEF ReadRecords, Shapes, IsObject, Phases
<1> QED
  BY <1>2, <1>3

LEMMA PlanCases ==
  ASSUME NEW c \in Controllers, Shapes, PlanChanges(c)
  PROVE  \/ pc'[c] = "idle" /\ UNCHANGED <<changes, todo>>
         \/ \E ch : /\ ch = [Calculate(Config[c], view[c], src[c]) EXCEPT !.create = Claimed(Config[c], @)]
                    /\ pc'[c] = "write" /\ changes'[c] = ch
                    /\ todo'[c] = ch.create \union ch.updateNew
                    /\ DOMAIN changes' = Controllers /\ DOMAIN todo' = Controllers
<1>1. PICK ch : /\ ch = [Calculate(Config[c], view[c], src[c]) EXCEPT !.create = Claimed(Config[c], @)]
                /\ \/ pc' = [pc EXCEPT ![c] = "idle"] /\ UNCHANGED <<changes, todo>>
                   \/ /\ pc' = [pc EXCEPT ![c] = "write"]
                      /\ changes' = [changes EXCEPT ![c] = ch]
                      /\ todo' = [todo EXCEPT ![c] = ch.create \union ch.updateNew]
  BY DEF PlanChanges
<1> QED
  BY <1>1 DEF Shapes

LEMMA PlanBasic ==
  ASSUME OneSpelling, NEW c \in Controllers, Shapes, RunInv(c), PlanChanges(c)
  PROVE  Shapes' /\ RunInv(c)'
<1>1. /\ pc[c] = "plan" /\ UniqueKeys(view[c]) /\ applied[c] = <<>> /\ applied' = applied
  BY DEF PlanChanges, RunInv
<1>2. CASE pc'[c] = "idle" /\ UNCHANGED <<changes, todo>>
  <2>1. RunInv(c)'
    BY <1>1, <1>2, IdleRun DEF RunInv, New
  <2>2. Shapes'
    BY <1>2 DEF PlanChanges, Shapes, IsObject, Phases
  <2> QED
    BY <2>1, <2>2
<1>3. ASSUME NEW ch,
             ch = [Calculate(Config[c], view[c], src[c]) EXCEPT !.create = Claimed(Config[c], @)],
             pc'[c] = "write", changes'[c] = ch, todo'[c] = ch.create \union ch.updateNew,
             DOMAIN changes' = Controllers, DOMAIN todo' = Controllers
      PROVE  Shapes' /\ RunInv(c)'
  <2>0. ch = [Calculate(Config[c], view[c], src[c]) EXCEPT !.create = Claimed(Config[c], @)]
        /\ UniqueKeys(view[c])
    BY <1>1, <1>3
  <2>1. Sound(ch, view[c])
    BY <2>0, PlanParts
  <2>2. New(c)' = ch.create \union ch.updateNew /\ DOMAIN applied'[c] = {}
    BY <1>1, <1>3 DEF New
  <2>3. RunInv(c)'
    BY <1>3, <2>1, <2>2 DEF RunInv, Split, Sound
  <2>4. Shapes'
    BY <1>3 DEF PlanChanges, Shapes, IsObject, Phases
  <2> QED
    BY <2>3, <2>4
<1> QED
  BY <1>2, <1>3, PlanCases

LEMMA StatusBasic ==
  ASSUME NEW c \in Controllers, Shapes, RunInv(c), SetAccepted(c) \/ SetFailed(c) \/ SetProgrammed(c)
  PROVE  Shapes' /\ RunInv(c)' /\ Frame(c)
<1>1. PICK reason : SetStatus(c, reason)
  BY DEF SetAccepted, SetFailed, SetProgrammed
<1>2. /\ UNCHANGED <<view, changes, world>> /\ UNCHANGED <<zone, src, lister, maker>>
      /\ \A d \in Controllers \ {c} : pc'[d] = pc[d] /\ todo'[d] = todo[d]
      /\ pc'[c] \in {"apply", "error", "delete"}
      /\ pc'[c] = "delete" => todo'[c] \subseteq changes[c].delete
      /\ pc' \in [Controllers -> Phases] /\ DOMAIN todo' = Controllers
  BY DEF SetAccepted, SetFailed, SetProgrammed, Shapes, Phases
<1>3. /\ Frame(c) /\ \A x \in DOMAIN objs' : IsObject(x, objs'[x])
      /\ DOMAIN applied' = Controllers
      /\ \A x \in DOMAIN applied'[c] :
           /\ x \in DOMAIN objs' /\ applied'[c][x] = objs'[x]
           /\ \E e \in New(c) : x = Obj(c, e) /\ objs'[x].ep = e
  BY <1>1, <1>2, StatusFrame
<1>4. New(c)' = New(c)
  BY <1>2 DEF New
<1>5. Shapes'
  BY <1>2, <1>3 DEF Shapes, IsObject
<1>6. RunInv(c)'
  BY <1>2, <1>3, <1>4 DEF RunInv, Split, Obj
<1> QED
  BY <1>3, <1>5, <1>6

LEMMA DeleteParts ==
  ASSUME NEW c \in Controllers, Shapes, DeleteObject(c)
  PROVE  \E e \in todo[c] :
           /\ todo'[c] = todo[c] \ {e} /\ DOMAIN todo' = Controllers
           /\ \A d \in Controllers \ {c} : todo'[d] = todo[d]
           /\ \A x : x \in DOMAIN objs' <=> x \in DOMAIN objs /\ x # Obj(c, e)
           /\ \A x \in DOMAIN objs' : objs'[x] = objs[x]
  BY DEF DeleteObject, Without, Shapes

LEMMA DeleteBasic ==
  ASSUME NEW c \in Controllers, Shapes, RunInv(c), DeleteObject(c)
  PROVE  Shapes' /\ RunInv(c)' /\ Frame(c)
<1>1. /\ pc[c] = "delete" /\ UNCHANGED <<pc, view, changes, applied>>
      /\ UNCHANGED <<zone, world, src, lister, maker>>
  BY DEF DeleteObject
<1>2. PICK e \in todo[c] :
        /\ todo'[c] = todo[c] \ {e} /\ DOMAIN todo' = Controllers
        /\ \A d \in Controllers \ {c} : todo'[d] = todo[d]
        /\ \A x : x \in DOMAIN objs' <=> x \in DOMAIN objs /\ x # Obj(c, e)
        /\ \A x \in DOMAIN objs' : objs'[x] = objs[x]
  BY DeleteParts
<1>3. \A d \in New(c) : Obj(c, d) # Obj(c, e)
  BY <1>1, ObjParts DEF RunInv
<1>4. Shapes'
  BY <1>1, <1>2 DEF Shapes, IsObject
<1>5. New(c)' = New(c)
  BY <1>1 DEF New
<1>6. ASSUME NEW x \in DOMAIN applied[c]
      PROVE  /\ x \in DOMAIN objs' /\ applied[c][x] = objs'[x]
             /\ \E d \in New(c) : x = Obj(c, d) /\ objs'[x].ep = d
  <2>1. PICK d \in New(c) : x = Obj(c, d) /\ objs[x].ep = d
    BY DEF RunInv
  <2>2. x \in DOMAIN objs /\ applied[c][x] = objs[x]
    BY DEF RunInv
  <2>3. x \in DOMAIN objs'
    BY <1>2, <1>3, <2>1, <2>2
  <2> QED
    BY <1>2, <2>1, <2>2, <2>3
<1>7. RunInv(c)'
  BY <1>1, <1>2, <1>5, <1>6 DEF RunInv, Obj
<1>8. \A x : x[1] # Namespace[c] => x # Obj(c, e)
  BY ObjParts
<1>9. Frame(c)
  BY <1>1, <1>2, <1>8 DEF Frame
<1> QED
  BY <1>4, <1>7, <1>9

LEMMA ProviderBasic ==
  ASSUME NEW c \in Controllers, Shapes, RunInv(c), Calls(c)
  PROVE  Shapes' /\ RunInv(c)' /\ Frame(c)
<1>1. /\ pc'[c] \in Split \union {"programmed", "failed"}
      /\ UNCHANGED <<src, world, objs, lister, view, changes, applied>>
      /\ pc' \in [Controllers -> Phases] /\ DOMAIN todo' = Controllers
      /\ pc'[c] \in Split => todo'[c] \subseteq Changed(changes[c]) /\ "split" \in world
  <2>1. CASE ProviderApplies(c)
    BY <2>1 DEF ProviderApplies, Shapes, Phases, Split
  <2>2. CASE ProviderFails(c)
    BY <2>2 DEF ProviderFails, Splits, Shapes, Phases, Split
  <2>3. CASE PartApplies(c)
    BY <2>3 DEF PartApplies, Shapes, Phases, Split, RunInv
  <2>4. CASE PartFails(c)
    BY <2>4 DEF PartFails, Shapes, Phases, Split, RunInv
  <2> QED
    BY <2>1, <2>2, <2>3, <2>4 DEF Calls
<1>2. DOMAIN maker' = DOMAIN zone'
  <2>1. (\E ch : Change(c, ch)) \/ UNCHANGED <<zone, maker>>
    BY DEF Calls, ProviderApplies, ProviderFails, PartApplies, PartFails, ChangeFails
  <2>2. ASSUME NEW ch, Change(c, ch)
        PROVE  DOMAIN maker' = DOMAIN zone'
    BY <2>2 DEF Change
  <2>3. CASE UNCHANGED <<zone, maker>>
    BY <2>3 DEF Shapes
  <2> QED
    BY <2>1, <2>2, <2>3
<1>3. Shapes'
  BY <1>1, <1>2 DEF Shapes, IsObject
<1>4. New(c)' = New(c)
  BY <1>1 DEF New
<1>5. RunInv(c)'
  BY <1>1, <1>4 DEF RunInv, Obj, Split
<1>6. Frame(c)
  BY <1>1, Unwritten
<1> QED
  BY <1>3, <1>5, <1>6

(* The steps outside the run loop change no objects and no run.            *)
Quiet == UNCHANGED <<zone, maker, made, world, objs, procVars>>

LEMMA QuietBasic ==
  ASSUME Shapes, \A c \in Controllers : RunInv(c),
         UNCHANGED vars \/ \E c \in Controllers : InformerSyncs(c) \/ SourceChanges(c)
  PROVE  Quiet /\ Shapes' /\ \A c \in Controllers : RunInv(c)'
<1>1. Quiet
  BY DEF Quiet, vars, InformerSyncs, SourceChanges
<1>2. UNCHANGED <<zone, maker, made, world, objs>> /\ UNCHANGED <<pc, view, changes, todo, applied>>
  BY <1>1 DEF Quiet, procVars
<1>3. ASSUME NEW c \in Controllers
      PROVE  RunInv(c)'
  <2>1. New(c)' = New(c) /\ RunInv(c)
    BY <1>2 DEF New
  <2> QED
    BY <1>2, <2>1 DEF RunInv, Obj
<1>4. /\ DOMAIN src' = Controllers /\ \A d \in Controllers : src'[d] \in SourceLists[d]
  BY DEF Shapes, vars, InformerSyncs, SourceChanges
<1>5. /\ DOMAIN lister' = Controllers
      /\ \A d \in Controllers : \A x \in DOMAIN lister'[d] : IsObject(x, lister'[d][x])
  <2>1. CASE lister' = lister
    BY <2>1 DEF Shapes
  <2>2. ASSUME NEW c \in Controllers, lister' = [lister EXCEPT ![c] = objs]
        PROVE  <1>5!1 /\ <1>5!2
    BY <2>2 DEF Shapes
  <2> QED
    BY <2>1, <2>2 DEF vars, InformerSyncs, SourceChanges
<1>6. Shapes'
  BY <1>2, <1>4, <1>5 DEF Shapes, IsObject
<1> QED
  BY <1>1, <1>3, <1>6

(* A step of c leaves the run of d alone.                                  *)
LEMMA OthersRun ==
  ASSUME OwnNamespaces, NEW c \in Controllers, NEW d \in Controllers \ {c}, RunInv(d), Frame(c)
  PROVE  RunInv(d)'
<1>1. /\ pc'[d] = pc[d] /\ view'[d] = view[d] /\ changes'[d] = changes[d]
      /\ todo'[d] = todo[d] /\ applied'[d] = applied[d] /\ world' = world
  BY DEF Frame
<1>2. New(d)' = New(d)
  BY <1>1 DEF New
<1>3. ASSUME NEW x \in DOMAIN applied[d]
      PROVE  /\ x \in DOMAIN objs' /\ applied[d][x] = objs'[x]
             /\ \E e \in New(d) : x = Obj(d, e) /\ objs'[x].ep = e
  <2>1. PICK e \in New(d) : x = Obj(d, e) /\ objs[x].ep = e
    BY DEF RunInv
  <2>2. x[1] # Namespace[c]
    BY <2>1, ObjParts DEF OwnNamespaces
  <2>3. x \in DOMAIN objs /\ applied[d][x] = objs[x]
    BY DEF RunInv
  <2>4. x \in DOMAIN objs' /\ objs'[x] = objs[x]
    BY <2>2, <2>3 DEF Frame
  <2> QED
    BY <2>1, <2>3, <2>4
<1> QED
  BY <1>1, <1>2, <1>3 DEF RunInv, Split, Obj

LEMMA StepBasic ==
  ASSUME OneSpelling, NEW c \in Controllers, Shapes, RunInv(c), Step(c) \/ Crash(c)
  PROVE  Shapes' /\ RunInv(c)' /\ Frame(c)
<1>1. CASE ReadRecords(c)
  <2>1. objs' = objs
    BY <1>1 DEF ReadRecords
  <2> QED
    BY <1>1, <2>1, ReadBasic, Unwritten
<1>2. CASE PlanChanges(c)
  <2>1. objs' = objs
    BY <1>2 DEF PlanChanges
  <2> QED
    BY <1>2, <2>1, PlanBasic, Unwritten
<1>3. CASE WriteFails(c) \/ Finish(c) \/ Crash(c)
  <2>1. /\ Return(c) /\ UNCHANGED <<zone, world, src, objs, lister, maker>>
        /\ view'[c] \in {view[c], {}} /\ DOMAIN view' = Controllers
    BY <1>3 DEF WriteFails, Finish, Crash, Shapes
  <2>2. objs' = objs
    BY <2>1
  <2>3. Frame(c)
    BY <1>3, <2>2, Unwritten
  <2> QED
    BY <2>1, <2>3, ReturnBasic
<1>4. CASE WriteObject(c)
  BY <1>4, WriteBasic
<1>5. CASE SetAccepted(c) \/ SetFailed(c) \/ SetProgrammed(c)
  BY <1>5, StatusBasic
<1>6. CASE Calls(c)
  BY <1>6, ProviderBasic
<1>7. CASE DeleteObject(c)
  BY <1>7, DeleteBasic
<1> QED
  BY <1>1, <1>2, <1>3, <1>4, <1>5, <1>6, <1>7 DEF Step, Calls

LEMMA NextCases ==
  ASSUME [Next]_vars
  PROVE  \/ \E c \in Controllers : Step(c) \/ Crash(c)
         \/ UNCHANGED vars \/ \E c \in Controllers : InformerSyncs(c) \/ SourceChanges(c)
  BY DEF Next

(* The process that takes a step is running.                               *)
LEMMA NextRuns ==
  ASSUME [Next]_vars
  PROVE  \/ \E c \in Controllers : Runs(c) /\ (Step(c) \/ Crash(c))
         \/ UNCHANGED vars \/ \E c \in Controllers : InformerSyncs(c) \/ SourceChanges(c)
  BY DEF Next

LEMMA BasicInvHolds ==
  ASSUME OneSpelling, OwnNamespaces
  PROVE  /\ Init => BasicInv
         /\ BasicInv /\ [Next]_vars => BasicInv'
<1>1. Init => BasicInv
  <2> SUFFICES ASSUME Init
               PROVE  BasicInv
    OBVIOUS
  <2>1. Shapes
    BY DEF Init, Shapes, Phases
  <2>2. ASSUME NEW c \in Controllers
        PROVE  RunInv(c)
    <3>1. pc[c] = "idle" /\ applied[c] = <<>> /\ changes[c] = NoChanges
      BY DEF Init
    <3>2. New(c) = {} /\ changes[c].delete = {} /\ DOMAIN applied[c] = {}
      BY <3>1 DEF New, NoChanges
    <3> QED
      BY <3>1, <3>2 DEF RunInv, Split, UniqueKeys
  <2> QED
    BY <2>1, <2>2 DEF BasicInv
<1>2. ASSUME BasicInv, [Next]_vars
      PROVE  BasicInv'
  <2>0. Shapes /\ \A c \in Controllers : RunInv(c)
    BY <1>2 DEF BasicInv
  <2>1. ASSUME NEW c \in Controllers, Step(c) \/ Crash(c)
        PROVE  BasicInv'
    <3>1. Shapes' /\ RunInv(c)' /\ Frame(c)
      BY <2>0, <2>1, StepBasic
    <3>2. \A d \in Controllers \ {c} : RunInv(d)'
      BY <2>0, <3>1, OthersRun
    <3> QED
      BY <3>1, <3>2 DEF BasicInv
  <2>2. CASE UNCHANGED vars \/ \E c \in Controllers : InformerSyncs(c) \/ SourceChanges(c)
    BY <2>0, <2>2, QuietBasic DEF BasicInv
  <2> QED
    BY <1>2, <2>1, <2>2, NextCases
<1> QED
  BY <1>1, <1>2

-----------------------------------------------------------------------------
(* What the provider does to the zone.                                     *)
Named(E, k) == \E e \in E : Key(e) = k

LEMMA EntryParts ==
  ASSUME NEW E
  PROVE  /\ \A x \in Entries(E) : \E e \in E : x.cell = Key(e) /\ x.val.tgt = e.tgt
         /\ \A k : k \in Cells(Entries(E)) <=> Named(E, k)
<1> DEFINE X(e) == [cell |-> Key(e), val |-> [tgt |-> e.tgt, ttl |-> e.ttl, ps |-> e.ps]]
<1>1. Entries(E) = {X(e) : e \in E}
  BY DEF Entries
<1>2. \A e : X(e).cell = Key(e) /\ X(e).val.tgt = e.tgt
  OBVIOUS
<1> HIDE DEF X
<1>3. \A x \in Entries(E) : \E e \in E : x.cell = Key(e) /\ x.val.tgt = e.tgt
  BY <1>1, <1>2
<1>4. \A e \in E : \E x \in Entries(E) : x.cell = Key(e)
  BY <1>1, <1>2
<1>5. \A k : k \in Cells(Entries(E)) <=> \E x \in Entries(E) : x.cell = k
  BY DEF Cells
<1> QED
  BY <1>3, <1>4, <1>5 DEF Named

(* The provider has carried out the changes ch for c.                      *)
Fresh(ch) == ch.create \union ch.updateNew
ZoneChanged(c, ch) ==
  /\ \A k : k \in DOMAIN zone' <=> /\ k \in DOMAIN zone \/ Named(Fresh(ch), k)
                                   /\ ~Named(ch.delete, k)
  /\ \A k \in DOMAIN zone' : ~Named(Fresh(ch), k) =>
       k \in DOMAIN zone /\ zone'[k] = zone[k] /\ maker'[k] = maker[k]
  /\ \A k \in DOMAIN zone' : Named(Fresh(ch), k) =>
       /\ maker'[k] = OwnID(c)
       /\ \E e \in Fresh(ch) : Key(e) = k /\ zone'[k].tgt = e.tgt
  /\ "upserts" \notin world => \A k \in DOMAIN zone : ~Named(ch.create, k)
  /\ made \subseteq made'
  /\ \A e \in Fresh(ch) : <<OwnID(c), Key(e)>> \in made'

LEMMA ChangeParts ==
  ASSUME NEW c \in Controllers, NEW ch, Change(c, ch)
  PROVE  ZoneChanged(c, ch)
<1> DEFINE b == ProviderBatch(ch)
           W == b.create \union b.updateNew
<1>1. /\ b.create = Entries(ch.create) /\ b.updateNew = Entries(ch.updateNew)
      /\ b.delete = Entries(ch.delete)
  BY DEF ProviderBatch
<1>2. /\ zone' = ApplyBatch(zone, b)
      /\ maker' = [k \in DOMAIN zone' |-> IF k \in Cells(W) THEN OwnID(c) ELSE maker[k]]
      /\ made' = made \union {<<OwnID(c), k>> : k \in Cells(W)}
      /\ "upserts" \notin world => Cells(b.create) \intersect DOMAIN zone = {}
  BY DEF Change, Accepts, ValidBatch
<1> HIDE DEF b
<1>3. zone' = [k \in (DOMAIN zone \union Cells(W)) \ Cells(b.delete) |->
                 IF k \in Cells(W) THEN (CHOOSE e \in W : e.cell = k).val ELSE zone[k]]
  BY <1>2 DEF ApplyBatch
<1>4. /\ \A k : k \in Cells(b.create) <=> Named(ch.create, k)
      /\ \A k : k \in Cells(b.delete) <=> Named(ch.delete, k)
      /\ \A k : k \in Cells(b.updateNew) <=> Named(ch.updateNew, k)
  BY <1>1, EntryParts
<1>5. \A k : k \in Cells(W) <=> k \in Cells(b.create) \/ k \in Cells(b.updateNew)
  BY DEF Cells
<1>6. \A k : k \in Cells(W) <=> Named(Fresh(ch), k)
  BY <1>4, <1>5 DEF Named, Fresh
<1>7. \A x \in W : \E e \in Fresh(ch) : x.cell = Key(e) /\ x.val.tgt = e.tgt
  BY <1>1, EntryParts DEF Fresh
<1>8. \A k \in Cells(W) : \E x \in W : x.cell = k /\ x = (CHOOSE e \in W : e.cell = k)
  BY DEF Cells
<1> HIDE DEF W
<1>9. \A k : k \in DOMAIN zone' <=> /\ k \in DOMAIN zone \/ k \in Cells(W)
                                    /\ k \notin Cells(b.delete)
  BY <1>3
<1>10. \A k \in DOMAIN zone' : k \notin Cells(W) => k \in DOMAIN zone /\ zone'[k] = zone[k]
  BY <1>3, <1>9
<1>11. ASSUME NEW k \in DOMAIN zone', k \in Cells(W)
       PROVE  \E e \in Fresh(ch) : Key(e) = k /\ zone'[k].tgt = e.tgt
  <2>1. zone'[k] = (CHOOSE e \in W : e.cell = k).val
    BY <1>3, <1>9, <1>11
  <2>2. PICK x \in W : x.cell = k /\ x = (CHOOSE e \in W : e.cell = k)
    BY <1>8, <1>11
  <2> QED
    BY <1>7, <2>1, <2>2
<1>12. \A k \in DOMAIN zone' : maker'[k] = IF k \in Cells(W) THEN OwnID(c) ELSE maker[k]
  BY <1>2
<1>13. \A e \in Fresh(ch) : <<OwnID(c), Key(e)>> \in made'
  <2>1. \A e \in Fresh(ch) : Key(e) \in Cells(W)
    BY <1>6 DEF Named
  <2> QED
    BY <1>2, <2>1
<1>14. \A k \in DOMAIN zone' : ~Named(Fresh(ch), k) =>
         k \in DOMAIN zone /\ zone'[k] = zone[k] /\ maker'[k] = maker[k]
  BY <1>6, <1>10, <1>12
<1>15. \A k \in DOMAIN zone' : Named(Fresh(ch), k) =>
         maker'[k] = OwnID(c) /\ \E e \in Fresh(ch) : Key(e) = k /\ zone'[k].tgt = e.tgt
  BY <1>6, <1>11, <1>12
<1>16. \A k : k \in DOMAIN zone' <=> /\ k \in DOMAIN zone \/ Named(Fresh(ch), k)
                                     /\ ~Named(ch.delete, k)
  BY <1>4, <1>6, <1>9
<1> QED
  BY <1>2, <1>4, <1>13, <1>14, <1>15, <1>16 DEF ZoneChanged

(* What is submitted is the batch or the part of it that has one name.     *)
Within(ch, all) ==
  /\ ch.create \subseteq all.create /\ ch.updateNew \subseteq all.updateNew
  /\ ch.delete \subseteq all.delete
Same == UNCHANGED <<zone, maker, made>>
(* The changes of e's name are carried out, and the others remain.         *)
Rest(c, e) == {d \in todo[c] : d.name # e.name}

LEMMA PartWithin ==
  ASSUME NEW ch, NEW n
  PROVE  /\ Within(ch, ch) /\ Within(Part(ch, n), ch)
         /\ \A e \in Fresh(ch) : e.name = n => e \in Fresh(Part(ch, n))
         /\ \A e \in ch.delete : e.name = n => e \in Part(ch, n).delete
  BY DEF Within, Part, Fresh

LEMMA FailCases ==
  ASSUME NEW c \in Controllers, NEW ch, ChangeFails(c, ch)
  PROVE  Same \/ ("lost" \in world /\ ZoneChanged(c, ch))
  BY ChangeParts DEF ChangeFails, Same

WholeCall(c) ==
  /\ pc[c] = "apply"
  /\ \/ /\ pc'[c] = "programmed" /\ ZoneChanged(c, changes[c])
     \/ /\ Same \/ ("lost" \in world /\ ZoneChanged(c, changes[c]))
        /\ \/ pc'[c] = "failed"
           \/ pc'[c] = "split" /\ todo'[c] = Changed(changes[c]) /\ "split" \in world

PartCall(c) ==
  /\ pc[c] \in Split
  /\ \E e \in todo[c] :
       /\ todo'[c] = Rest(c, e)
       /\ \/ /\ ZoneChanged(c, Part(changes[c], e.name))
             /\ \/ pc'[c] = pc[c]
                \/ pc'[c] = "programmed" /\ pc[c] = "split" /\ todo'[c] = {}
                \/ pc'[c] = "failed"
          \/ /\ Same \/ ("lost" \in world /\ ZoneChanged(c, Part(changes[c], e.name)))
             /\ pc'[c] \in {"partial", "failed"}

LEMMA ProviderCases ==
  ASSUME NEW c \in Controllers, Shapes, Calls(c)
  PROVE  /\ UNCHANGED <<world, objs, view, changes, applied, lister>>
         /\ WholeCall(c) \/ PartCall(c)
<1>1. UNCHANGED <<world, objs, view, changes, applied, lister>>
  BY DEF Calls, ProviderApplies, ProviderFails, PartApplies, PartFails
<1>2. CASE ProviderApplies(c)
  BY <1>2, ChangeParts DEF ProviderApplies, Shapes, WholeCall
<1>3. CASE ProviderFails(c)
  <2>1. Same \/ ("lost" \in world /\ ZoneChanged(c, changes[c]))
    BY <1>3, FailCases DEF ProviderFails
  <2>2. /\ pc[c] = "apply"
        /\ \/ pc'[c] = "failed"
           \/ pc'[c] = "split" /\ todo'[c] = Changed(changes[c]) /\ "split" \in world
    BY <1>3 DEF ProviderFails, Splits, Shapes
  <2> QED
    BY <1>1, <2>1, <2>2 DEF WholeCall
<1>4. CASE PartApplies(c)
  <2>1. PICK e \in todo[c] :
          /\ Change(c, Part(changes[c], e.name))
          /\ todo' = [todo EXCEPT ![c] = {d \in @ : d.name # e.name}]
          /\ pc' = [pc EXCEPT ![c] = IF todo'[c] # {} THEN @
                                     ELSE IF @ = "split" THEN "programmed" ELSE "failed"]
    BY <1>4 DEF PartApplies
  <2>2. ZoneChanged(c, Part(changes[c], e.name))
    BY <2>1, ChangeParts
  <2>3. /\ pc[c] \in Split /\ todo'[c] = Rest(c, e)
        /\ \/ pc'[c] = pc[c]
           \/ pc'[c] = "programmed" /\ pc[c] = "split" /\ todo'[c] = {}
           \/ pc'[c] = "failed"
    BY <1>4, <2>1 DEF PartApplies, Shapes, Split, Rest
  <2> QED
    BY <1>1, <2>2, <2>3 DEF PartCall
<1>5. CASE PartFails(c)
  <2>1. PICK e \in todo[c] :
          /\ ChangeFails(c, Part(changes[c], e.name))
          /\ todo' = [todo EXCEPT ![c] = {d \in @ : d.name # e.name}]
          /\ pc' = [pc EXCEPT ![c] = IF todo'[c] # {} THEN "partial" ELSE "failed"]
    BY <1>5 DEF PartFails
  <2>2. Same \/ ("lost" \in world /\ ZoneChanged(c, Part(changes[c], e.name)))
    BY <2>1, FailCases
  <2>3. /\ pc[c] \in Split /\ todo'[c] = Rest(c, e)
        /\ pc'[c] \in {"partial", "failed"}
    BY <1>5, <2>1 DEF PartFails, Shapes, Split, Rest
  <2> QED
    BY <1>1, <2>2, <2>3 DEF PartCall
<1> QED
  BY <1>1, <1>2, <1>3, <1>4, <1>5 DEF Calls

(* A step changes nothing in the zone, or carries out changes of the plan. *)
Carried(c) == Same \/ \E ch : Within(ch, changes[c]) /\ ZoneChanged(c, ch)

LEMMA CallCarries ==
  ASSUME NEW c \in Controllers, Shapes, Calls(c)
  PROVE  pc[c] \in Calling /\ Carried(c) /\ world' = world
  BY ProviderCases, PartWithin DEF WholeCall, PartCall, Calling, Carried

(* The steps of c that change the zone are the provider's.                 *)
LEMMA OtherSteps ==
  ASSUME NEW c \in Controllers, Step(c) \/ Crash(c)
  PROVE  world' = world /\ (Calls(c) \/ Same)
  BY DEF Step, Crash, ReadRecords, PlanChanges, WriteObject, WriteFails, SetAccepted,
         SetFailed, SetProgrammed, DeleteObject, Finish, Calls, Same, ProviderApplies,
         ProviderFails, PartApplies, PartFails

LEMMA StepCarries ==
  ASSUME NEW c \in Controllers, Shapes, Step(c) \/ Crash(c)
  PROVE  Same \/ (pc[c] \in Calling /\ Carried(c))
  BY OtherSteps, CallCarries

-----------------------------------------------------------------------------
(* Every record has an object.  An object is there when its endpoint is    *)
(* read, when a plan updates it and when the provider is called; when it   *)
(* is deleted, the record is gone or belongs to another process.  While    *)
(* the parts of a batch are submitted, that is so for the parts that have  *)
(* been, if none has failed.                                               *)
ObjectInv(c) ==
  /\ pc[c] = "plan" => \A e \in view[c] : Obj(c, e) \in DOMAIN objs
  /\ pc[c] \in {"write"} \union Calling =>
       /\ \A e \in changes[c].updateNew : Obj(c, e) \in DOMAIN objs
       /\ \A e \in changes[c].create :
            Obj(c, e) \in DOMAIN objs \/ (pc[c] = "write" /\ e \in todo[c])
  /\ pc[c] \in {"programmed", "delete"} => \A e \in changes[c].delete : ~Wrote(c, Key(e))
  /\ pc[c] = "split" => \A e \in changes[c].delete : ~Wrote(c, Key(e)) \/ e \in todo[c]

Described(k) == \E c \in Controllers : maker[k] = OwnID(c) /\ <<Namespace[c], k>> \in DOMAIN objs

ObjectsInv ==
  "lag" \notin world => /\ \A c \in Controllers : ObjectInv(c)
                        /\ \A k \in DOMAIN zone : Described(k)

(* Without lag, what Records returns has objects.                          *)
LEMMA RecordsListed ==
  ASSUME NEW c \in Controllers, Shapes, "lag" \notin world, NEW e \in Records(c)
  PROVE  \E x \in DOMAIN objs : /\ x = Obj(c, e) /\ objs[x].owner = OwnID(c)
                                /\ objs[x].ready = "Programmed"
<1>1. PICK x \in DOMAIN objs : /\ x[1] = Namespace[c] /\ objs[x].owner = OwnID(c)
                               /\ objs[x].ready = "Programmed" /\ e = objs[x].ep
  BY DEF Records, Listed
<1>2. x = Obj(c, e)
  BY <1>1 DEF Shapes, IsObject, Obj
<1> QED
  BY <1>1, <1>2

LEMMA PlanObjects ==
  ASSUME OneSpelling, NEW c \in Controllers, Shapes, RunInv(c), ObjectInv(c), PlanChanges(c)
  PROVE  ObjectInv(c)'
<1>1. /\ pc[c] = "plan" /\ UniqueKeys(view[c]) /\ objs' = objs
  BY DEF PlanChanges, RunInv
<1>2. CASE pc'[c] = "idle"
  BY <1>2 DEF ObjectInv, Calling, Split
<1>3. ASSUME NEW ch,
             ch = [Calculate(Config[c], view[c], src[c]) EXCEPT !.create = Claimed(Config[c], @)],
             pc'[c] = "write", changes'[c] = ch, todo'[c] = ch.create \union ch.updateNew
      PROVE  ObjectInv(c)'
  <2>0. ch = [Calculate(Config[c], view[c], src[c]) EXCEPT !.create = Claimed(Config[c], @)]
        /\ UniqueKeys(view[c])
    BY <1>1, <1>3
  <2>1. Sound(ch, view[c])
    BY <2>0, PlanParts
  <2>2. ASSUME NEW e \in ch.updateNew
        PROVE  Obj(c, e) \in DOMAIN objs
    <3>1. PICK old \in view[c] : Key(old) = Key(e)
      BY <2>1 DEF Sound
    <3> QED
      BY <1>1, <3>1 DEF ObjectInv, Obj
  <2> QED
    BY <1>1, <1>3, <2>2 DEF ObjectInv, Obj
<1> QED
  BY <1>2, <1>3, PlanCases

LEMMA StepObjects ==
  ASSUME OneSpelling, NEW c \in Controllers, Shapes, RunInv(c), ObjectInv(c),
         "lag" \notin world, Step(c) \/ Crash(c)
  PROVE  ObjectInv(c)'
<1>1. CASE ReadRecords(c)
  <2>1. pc'[c] = "plan" /\ view'[c] = Records(c) /\ objs' = objs
    BY <1>1 DEF ReadRecords, Shapes
  <2>2. \A e \in Records(c) : Obj(c, e) \in DOMAIN objs
    BY RecordsListed
  <2> QED
    BY <2>1, <2>2 DEF ObjectInv, Obj, Calling, Split
<1>2. CASE PlanChanges(c)
  BY <1>2, PlanObjects
<1>3. CASE WriteFails(c) \/ Finish(c) \/ Crash(c)
  <2>1. pc'[c] = "idle"
    BY <1>3 DEF WriteFails, Finish, Crash, Return, Shapes
  <2> QED
    BY <2>1 DEF ObjectInv, Calling, Split
<1>4. CASE WriteObject(c)
  <2>1. pc[c] = "write" /\ pc'[c] = "write" /\ changes' = changes
    BY <1>4 DEF WriteObject
  <2>2. PICK e \in todo[c] :
          /\ todo' = [todo EXCEPT ![c] = @ \ {e}]
          /\ \/ \A y : y \in DOMAIN objs' <=> y \in DOMAIN objs \/ y = Obj(c, e)
             \/ /\ e \notin changes[c].create /\ objs' = objs
    BY <1>4, WriteParts
  <2>3. todo'[c] = todo[c] \ {e}
    BY <2>2 DEF Shapes
  <2> QED
    BY <2>1, <2>2, <2>3 DEF ObjectInv, Obj
<1>5. CASE SetAccepted(c) \/ SetFailed(c) \/ SetProgrammed(c)
  <2>1. PICK reason : SetStatus(c, reason)
    BY <1>5 DEF SetAccepted, SetFailed, SetProgrammed
  <2>2. DOMAIN objs' = DOMAIN objs
    BY <2>1, StatusParts DEF StatusSet
  <2>3. /\ UNCHANGED <<zone, maker, changes>>
        /\ \/ pc[c] = "write" /\ todo[c] = {} /\ pc'[c] = "apply"
           \/ pc'[c] = "error"
           \/ pc[c] = "programmed" /\ pc'[c] = "delete"
    BY <1>5 DEF SetAccepted, SetFailed, SetProgrammed, Shapes
  <2> QED
    BY <2>2, <2>3 DEF ObjectInv, Obj, Calling, Split, Wrote
<1>6. CASE Calls(c)
  <2>1. UNCHANGED <<objs, changes>> /\ (WholeCall(c) \/ PartCall(c))
    BY <1>6, ProviderCases
  <2>2. CASE WholeCall(c)
    <3>1. ZoneChanged(c, changes[c]) => \A e \in changes[c].delete : Key(e) \notin DOMAIN zone'
      BY DEF ZoneChanged, Named
    <3>2. pc'[c] = "split" => \A e \in changes[c].delete : e \in todo'[c]
      BY <2>2 DEF WholeCall, Changed
    <3>3. \A e \in changes[c].delete : Key(e) \notin DOMAIN zone' => ~Wrote(c, Key(e))'
      BY DEF Wrote
    <3>4. /\ pc'[c] \in {"programmed", "split", "failed"}
          /\ pc'[c] = "programmed" => ZoneChanged(c, changes[c])
      BY <2>2 DEF WholeCall
    <3>5. pc[c] = "apply" /\ \A e : Obj(c, e)' = Obj(c, e)
      BY <2>2 DEF WholeCall, Obj
    <3>6. \A e \in New(c) : Obj(c, e) \in DOMAIN objs
      BY <3>5 DEF ObjectInv, New, Calling
    <3> QED
      BY <2>1, <3>1, <3>2, <3>3, <3>4, <3>5, <3>6 DEF ObjectInv, Calling, Split, New
  <2>3. CASE PartCall(c)
    <3>1. PICK e \in todo[c] :
            /\ todo'[c] = Rest(c, e)
            /\ \/ /\ ZoneChanged(c, Part(changes[c], e.name))
                  /\ \/ pc'[c] = pc[c]
                     \/ pc'[c] = "programmed" /\ pc[c] = "split" /\ todo'[c] = {}
                     \/ pc'[c] = "failed"
               \/ pc'[c] \in {"partial", "failed"}
      BY <2>3 DEF PartCall
    <3>2. ASSUME pc'[c] \in {"split", "programmed"}, NEW d \in changes[c].delete
          PROVE  ~Wrote(c, Key(d))' \/ d \in todo'[c]
      <4>1. /\ ZoneChanged(c, Part(changes[c], e.name)) /\ pc[c] = "split"
        BY <2>3, <3>1, <3>2 DEF PartCall, Split
      <4>2. ~Named(Fresh(Part(changes[c], e.name)), Key(d))
        BY PartWithin DEF Within, Fresh, RunInv, New, Named
      <4>3. CASE d.name = e.name
        <5>1. Named(Part(changes[c], e.name).delete, Key(d))
          BY <4>3, PartWithin DEF Named
        <5>2. Key(d) \notin DOMAIN zone'
          BY <4>1, <5>1 DEF ZoneChanged
        <5> QED
          BY <5>2 DEF Wrote
      <4>4. CASE d \in todo[c] /\ d.name # e.name
        BY <3>1, <4>4 DEF Rest
      <4>5. CASE ~Wrote(c, Key(d))
        BY <4>1, <4>2, <4>5 DEF ZoneChanged, Wrote
      <4> QED
        BY <4>1, <4>3, <4>4, <4>5 DEF ObjectInv
    <3>3. pc'[c] \in Split \union {"programmed", "failed"}
      BY <2>3, <3>1 DEF PartCall, Split
    <3>4. pc'[c] = "programmed" => todo'[c] = {}
      BY <2>3, <3>1 DEF PartCall, Split
    <3>5. /\ \A d \in changes[c].updateNew : Obj(c, d)' \in DOMAIN objs'
          /\ \A d \in changes[c].create : Obj(c, d)' \in DOMAIN objs'
      BY <2>1, <2>3 DEF PartCall, ObjectInv, Calling, Split, Obj
    <3> QED
      BY <2>1, <3>2, <3>3, <3>4, <3>5 DEF ObjectInv, Calling, Split
  <2> QED
    BY <2>1, <2>2, <2>3
<1>7. CASE DeleteObject(c)
  BY <1>7 DEF DeleteObject, ObjectInv, Wrote, Calling, Split, Obj
<1> QED
  BY <1>1, <1>2, <1>3, <1>4, <1>5, <1>6, <1>7 DEF Step, Calls

(* What a step of c does to the records of other processes.                *)
LEMMA OthersObjects ==
  ASSUME OwnNamespaces, OwnIDs, NEW c \in Controllers, Shapes, Step(c) \/ Crash(c), Frame(c),
         NEW d \in Controllers \ {c}, ObjectInv(d)
  PROVE  ObjectInv(d)'
<1>1. /\ pc'[d] = pc[d] /\ view'[d] = view[d] /\ changes'[d] = changes[d] /\ todo'[d] = todo[d]
  BY DEF Frame
<1>2. \A e : Obj(d, e)[1] # Namespace[c]
  BY ObjParts DEF OwnNamespaces
<1>3. \A e : Obj(d, e) \in DOMAIN objs => Obj(d, e) \in DOMAIN objs'
  BY <1>2 DEF Frame
<1>4. \A k : Wrote(d, k)' => Wrote(d, k)
  <2>1. CASE Same
    BY <2>1 DEF Same, Wrote
  <2>2. ASSUME NEW ch, ZoneChanged(c, ch)
        PROVE  \A k : Wrote(d, k)' => Wrote(d, k)
    <3>1. OwnID(c) # OwnID(d) /\ OwnID(d)' = OwnID(d)
      BY DEF OwnIDs, OwnID
    <3> QED
      BY <2>2, <3>1 DEF ZoneChanged, Wrote
  <2> QED
    BY <2>1, <2>2, StepCarries DEF Carried
<1>5. \A e : Obj(d, e)' = Obj(d, e)
  BY DEF Obj
<1>6. /\ pc[d] = "plan" => \A e \in view[d] : Obj(d, e) \in DOMAIN objs'
      /\ pc[d] \in {"write"} \union Calling =>
           /\ \A e \in changes[d].updateNew : Obj(d, e) \in DOMAIN objs'
           /\ \A e \in changes[d].create :
                Obj(d, e) \in DOMAIN objs' \/ (pc[d] = "write" /\ e \in todo[d])
  BY <1>3 DEF ObjectInv
<1>7. /\ pc[d] \in {"programmed", "delete"} => \A e \in changes[d].delete : ~Wrote(d, Key(e))'
      /\ pc[d] = "split" => \A e \in changes[d].delete : ~Wrote(d, Key(e))' \/ e \in todo[d]
  BY <1>4 DEF ObjectInv
<1> QED
  BY <1>1, <1>5, <1>6, <1>7 DEF ObjectInv

LEMMA StepDescribed ==
  ASSUME OwnNamespaces, OwnIDs, NEW c \in Controllers, Shapes, RunInv(c), ObjectInv(c), Step(c) \/ Crash(c),
         \A k \in DOMAIN zone : Described(k)
  PROVE  \A k \in DOMAIN zone' : Described(k)'
<1>1. CASE DeleteObject(c)
  <2>1. pc[c] = "delete" /\ UNCHANGED <<zone, maker>>
    BY <1>1 DEF DeleteObject
  <2>2. PICK e \in todo[c] : \A x : x \in DOMAIN objs' <=> x \in DOMAIN objs /\ x # Obj(c, e)
    BY <1>1, DeleteParts
  <2>3. e \in changes[c].delete
    BY <2>1 DEF RunInv
  <2> SUFFICES ASSUME NEW k \in DOMAIN zone
               PROVE  Described(k)'
    BY <2>1
  <2>4. PICK d \in Controllers : maker[k] = OwnID(d) /\ <<Namespace[d], k>> \in DOMAIN objs
    BY DEF Described
  <2>5. <<Namespace[d], k>> # Obj(c, e)
    <3>1. SUFFICES ASSUME Namespace[d] = Namespace[c], k = Key(e)
                   PROVE  FALSE
      BY DEF Obj
    <3>2. d = c
      BY <3>1 DEF OwnNamespaces
    <3>3. ~Wrote(c, k)
      BY <2>1, <2>3, <3>1 DEF ObjectInv
    <3> QED
      BY <2>4, <3>2, <3>3 DEF Wrote
  <2>6. <<Namespace[d], k>> \in DOMAIN objs'
    BY <2>2, <2>4, <2>5
  <2> QED
    BY <2>1, <2>4, <2>6 DEF Described
<1>2. ASSUME NEW ch, Within(ch, changes[c]), ZoneChanged(c, ch), objs' = objs, pc[c] \in Calling
      PROVE  \A k \in DOMAIN zone' : Described(k)'
  <2>1. \A e \in Fresh(ch) : Obj(c, e) \in DOMAIN objs
    BY <1>2 DEF ObjectInv, Fresh, Within, Calling, Split
  <2> SUFFICES ASSUME NEW k \in DOMAIN zone'
               PROVE  Described(k)'
    OBVIOUS
  <2>2. CASE k \in DOMAIN zone /\ maker'[k] = maker[k]
    BY <1>2, <2>2 DEF Described
  <2>3. CASE maker'[k] = OwnID(c) /\ Named(Fresh(ch), k)
    <3>1. <<Namespace[c], k>> \in DOMAIN objs
      BY <2>1, <2>3 DEF Named, Obj
    <3> QED
      BY <1>2, <2>3, <3>1 DEF Described
  <2> QED
    BY <1>2, <2>2, <2>3 DEF ZoneChanged
<1>3. CASE UNCHANGED <<zone, maker>> /\ DOMAIN objs \subseteq DOMAIN objs'
  BY <1>3 DEF Described
<1>4. CASE WriteObject(c)
  BY <1>3, <1>4, WriteParts DEF WriteObject
<1>5. CASE SetAccepted(c) \/ SetFailed(c) \/ SetProgrammed(c)
  <2>1. PICK reason : SetStatus(c, reason)
    BY <1>5 DEF SetAccepted, SetFailed, SetProgrammed
  <2>2. DOMAIN objs' = DOMAIN objs
    BY <2>1, StatusParts DEF StatusSet
  <2> QED
    BY <1>3, <1>5, <2>2 DEF SetAccepted, SetFailed, SetProgrammed
<1>6. CASE ReadRecords(c) \/ PlanChanges(c) \/ WriteFails(c) \/ Finish(c) \/ Crash(c)
  BY <1>3, <1>6 DEF ReadRecords, PlanChanges, WriteFails, Finish, Crash
<1>7. CASE Calls(c)
  <2>1. objs' = objs /\ pc[c] \in Calling /\ Carried(c)
    BY <1>7, ProviderCases, CallCarries
  <2> QED
    BY <1>2, <1>3, <2>1 DEF Carried, Same
<1> QED
  BY <1>1, <1>4, <1>5, <1>6, <1>7 DEF Step, Calls

(* No record is made without an object, and no object goes before its      *)
(* record: crd.go writes the objects before it calls the provider and      *)
(* deletes them after it.                                                  *)
THEOREM CRDRecordsHaveObjects ==
  ASSUME OneSpelling, OwnNamespaces, OwnIDs
  PROVE  Spec => []RecordsHaveObjects
<1>1. Init => ObjectsInv
  <2> SUFFICES ASSUME Init
               PROVE  ObjectsInv
    OBVIOUS
  <2>1. \A c \in Controllers : pc[c] = "idle"
    BY DEF Init
  <2>2. \A c \in Controllers : ObjectInv(c)
    BY <2>1 DEF ObjectInv, Calling, Split
  <2>3. DOMAIN zone = {}
    BY DEF Init
  <2> QED
    BY <2>2, <2>3 DEF ObjectsInv
<1>2. ASSUME BasicInv, ObjectsInv, [Next]_vars
      PROVE  ObjectsInv'
  <2>0. Shapes /\ \A c \in Controllers : RunInv(c)
    BY <1>2 DEF BasicInv
  <2>1. ASSUME NEW c \in Controllers, Step(c) \/ Crash(c), "lag" \notin world
        PROVE  ObjectsInv'
    <3>0. /\ \A d \in Controllers : ObjectInv(d)
          /\ \A k \in DOMAIN zone : Described(k)
      BY <1>2, <2>1 DEF ObjectsInv
    <3>1. Frame(c)
      BY <2>0, <2>1, StepBasic
    <3>2. ObjectInv(c)'
      BY <2>0, <2>1, <3>0, StepObjects
    <3>3. \A d \in Controllers \ {c} : ObjectInv(d)'
      BY <2>0, <2>1, <3>0, <3>1, OthersObjects
    <3>4. \A k \in DOMAIN zone' : Described(k)'
      BY <2>0, <2>1, <3>0, StepDescribed
    <3> QED
      BY <3>2, <3>3, <3>4 DEF ObjectsInv
  <2>2. ASSUME NEW c \in Controllers, Step(c) \/ Crash(c), "lag" \in world
        PROVE  ObjectsInv'
    BY <2>2, OtherSteps DEF ObjectsInv
  <2>3. CASE UNCHANGED vars \/ \E c \in Controllers : InformerSyncs(c) \/ SourceChanges(c)
    <3>1. UNCHANGED <<zone, maker, made, world, objs>> /\ UNCHANGED <<pc, view, changes, todo, applied>>
      BY <2>0, <2>3, QuietBasic DEF Quiet, procVars
    <3>2. \A c \in Controllers : ObjectInv(c) => ObjectInv(c)'
      BY <3>1 DEF ObjectInv, Obj, Wrote
    <3>3. \A k \in DOMAIN zone : Described(k) => Described(k)'
      BY <3>1 DEF Described
    <3> QED
      BY <1>2, <3>1, <3>2, <3>3 DEF ObjectsInv
  <2> QED
    BY <1>2, <2>1, <2>2, <2>3, NextCases
<1>3. ObjectsInv => RecordsHaveObjects
  BY DEF ObjectsInv, RecordsHaveObjects, Described
<1>4. BasicInv /\ ObjectsInv /\ [Next]_vars => BasicInv' /\ ObjectsInv'
  BY <1>2, BasicInvHolds
<1>5. Init => BasicInv
  BY BasicInvHolds
<1> QED
  BY <1>1, <1>3, <1>4, <1>5, PTL DEF Spec

-----------------------------------------------------------------------------
(* A process changes its own records only.  A Programmed object stands for *)
(* a record of the process, but for the objects that are to be deleted in  *)
(* this run; so what is read, updated and deleted are its own records.     *)
Programmed(c, x) == /\ x \in DOMAIN objs /\ x[1] = Namespace[c]
                    /\ objs[x].owner = OwnID(c) /\ objs[x].ready = "Programmed"
Leaving(c, x) == \/ pc[c] = "programmed" /\ Named(changes[c].delete, x[2])
                 \/ pc[c] = "delete" /\ Named(todo[c], x[2])

OwnInv(c) ==
  /\ \A x : Programmed(c, x) => Wrote(c, x[2]) \/ Leaving(c, x)
  /\ pc[c] = "plan" => \A e \in view[c] : Wrote(c, Key(e))
  /\ pc[c] \in {"write", "apply"} =>
       \A e \in changes[c].updateNew \union changes[c].delete : Wrote(c, Key(e))
  /\ pc[c] = "programmed" => \A e \in New(c) : Wrote(c, Key(e))

OwnRecordsInv == Undisturbed => \A c \in Controllers : OwnInv(c)

(* Which objects are Programmed after a step.                              *)
LEMMA WriteProgrammed ==
  ASSUME NEW c \in Controllers, Shapes, WriteObject(c), NEW x, Programmed(c, x)'
  PROVE  Programmed(c, x)
<1>1. PICK e \in todo[c] :
        \/ /\ \A y : y \in DOMAIN objs' <=> y \in DOMAIN objs \/ y = Obj(c, e)
           /\ objs'[Obj(c, e)] = Written(c, e)
           /\ \A y \in DOMAIN objs : y # Obj(c, e) => objs'[y] = objs[y]
        \/ objs' = objs
  BY WriteParts
<1>2. CASE objs' = objs
  BY <1>2 DEF Programmed
<1>3. CASE x # Obj(c, e)
  BY <1>1, <1>3 DEF Programmed
<1>4. CASE x = Obj(c, e) /\ objs' # objs
  <2>1. Written(c, e).ready = "Programmed" /\ Written(c, e).owner = OwnID(c)
    BY <1>1, <1>4 DEF Programmed
  <2>2. "none" # "Programmed"
    OBVIOUS
  <2>3. Obj(c, e) \in DOMAIN objs
    BY <2>1, <2>2, WrittenParts
  <2>4. objs[x].ready = "Programmed" /\ objs[x].owner = OwnID(c)
    BY <1>4, <2>1, <2>3, WrittenParts
  <2> QED
    BY <1>4, <2>3, <2>4 DEF Programmed
<1> QED
  BY <1>2, <1>3, <1>4

LEMMA StatusProgrammed ==
  ASSUME NEW c \in Controllers, Shapes, RunInv(c), NEW reason, SetStatus(c, reason),
         NEW x, Programmed(c, x)'
  PROVE  Programmed(c, x) \/ (reason = "Programmed" /\ x \in DOMAIN applied[c])
<1>1. PICK lost : StatusSet(c, reason, lost)
  BY StatusParts
<1>2. CASE x \in DOMAIN applied[c] \ lost
  BY <1>1, <1>2 DEF StatusSet, Programmed
<1>3. CASE x \notin DOMAIN applied[c] \ lost
  BY <1>1, <1>3 DEF StatusSet, Programmed
<1> QED
  BY <1>2, <1>3

LEMMA DeleteProgrammed ==
  ASSUME NEW c \in Controllers, Shapes, DeleteObject(c)
  PROVE  \A x : Programmed(c, x)' => /\ Programmed(c, x)
                                     /\ Named(todo[c], x[2]) => Named(todo'[c], x[2])
<1>1. PICK e \in todo[c] :
        /\ todo'[c] = todo[c] \ {e}
        /\ \A x : x \in DOMAIN objs' <=> x \in DOMAIN objs /\ x # Obj(c, e)
        /\ \A x \in DOMAIN objs' : objs'[x] = objs[x]
  BY DeleteParts
<1> SUFFICES ASSUME NEW x, Programmed(c, x)'
             PROVE  /\ Programmed(c, x)
                    /\ Named(todo[c], x[2]) => Named(todo'[c], x[2])
  OBVIOUS
<1>2. Programmed(c, x) /\ x # Obj(c, e)
  BY <1>1 DEF Programmed
<1>3. x = <<Namespace[c], x[2]>>
  BY <1>2 DEF Programmed, Shapes, IsObject
<1>4. x[2] # Key(e)
  BY <1>2, <1>3 DEF Obj
<1> QED
  BY <1>1, <1>2, <1>4 DEF Named

(* The provider leaves a process its records, but for those it deletes.    *)
LEMMA KeptByProvider ==
  ASSUME NEW c \in Controllers, ZoneChanged(c, changes[c]), NEW k, Wrote(c, k)
  PROVE  Wrote(c, k)' \/ Named(changes[c].delete, k)
  BY DEF ZoneChanged, Wrote

LEMMA ProviderOwns ==
  ASSUME NEW c \in Controllers, RunInv(c), ZoneChanged(c, changes[c]), NEW e \in New(c)
  PROVE  Wrote(c, Key(e))'
<1>1. ~Named(changes[c].delete, Key(e))
  BY DEF RunInv, Named
<1>2. Named(Fresh(changes[c]), Key(e))
  BY DEF Named, Fresh, New
<1> QED
  BY <1>1, <1>2 DEF ZoneChanged, Wrote

(* A step that leaves the zone alone and after which nothing is planned.   *)
LEMMA StillOwn ==
  ASSUME NEW c \in Controllers, UNCHANGED <<zone, maker>>, NEW x, Wrote(c, x)
  PROVE  Wrote(c, x)'
  BY DEF Wrote

LEMMA StepOwn ==
  ASSUME OneSpelling, Undisturbed, NEW c \in Controllers, Shapes, RunInv(c), OwnInv(c), Step(c)
  PROVE  OwnInv(c)'
<1>0. world \intersect {"lost", "write", "crash", "lag"} = {}
  BY DEF Undisturbed
<1>1. CASE ReadRecords(c)
  <2>1. /\ pc[c] = "idle" /\ pc'[c] = "plan" /\ view'[c] = Records(c) /\ objs' = objs
        /\ UNCHANGED <<zone, maker>>
    BY <1>1 DEF ReadRecords, Shapes
  <2>2. \A x : ~Leaving(c, x) /\ (Programmed(c, x)' => Programmed(c, x))
    BY <2>1 DEF Leaving, Programmed
  <2>3. \A x : Programmed(c, x) => Wrote(c, x[2])
    BY <2>2 DEF OwnInv
  <2>4. ASSUME NEW e \in Records(c)
        PROVE  Wrote(c, Key(e))'
    <3>1. "lag" \notin world
      BY <1>0
    <3>2. Programmed(c, Obj(c, e))
      BY <3>1, RecordsListed, ObjParts DEF Programmed
    <3> QED
      BY <2>1, <2>3, <3>2, ObjParts, StillOwn
  <2>5. \A x : Programmed(c, x)' => Wrote(c, x[2])'
    BY <2>1, <2>2, <2>3, StillOwn
  <2> QED
    BY <2>1, <2>4, <2>5 DEF OwnInv
<1>2. CASE PlanChanges(c)
  <2>1. /\ pc[c] = "plan" /\ UniqueKeys(view[c]) /\ objs' = objs /\ UNCHANGED <<zone, maker>>
    BY <1>2 DEF PlanChanges, RunInv
  <2>2. \A x : ~Leaving(c, x) /\ (Programmed(c, x)' => Programmed(c, x))
    BY <2>1 DEF Leaving, Programmed
  <2>3. \A x : Programmed(c, x)' => Wrote(c, x[2])'
    BY <2>1, <2>2, StillOwn DEF OwnInv
  <2>4. CASE pc'[c] = "idle"
    BY <2>3, <2>4 DEF OwnInv
  <2>5. ASSUME NEW ch,
               ch = [Calculate(Config[c], view[c], src[c]) EXCEPT !.create = Claimed(Config[c], @)],
               pc'[c] = "write", changes'[c] = ch
        PROVE  OwnInv(c)'
    <3>0. ch = [Calculate(Config[c], view[c], src[c]) EXCEPT !.create = Claimed(Config[c], @)]
          /\ UniqueKeys(view[c])
      BY <2>1, <2>5
    <3>1. Sound(ch, view[c])
      BY <3>0, PlanParts
    <3>2. \A e \in ch.updateNew \union ch.delete : \E old \in view[c] : Key(old) = Key(e)
      BY <3>1 DEF Sound
    <3>3. \A e \in view[c] : Wrote(c, Key(e))'
      BY <2>1, StillOwn DEF OwnInv
    <3>4. \A e \in ch.updateNew \union ch.delete : Wrote(c, Key(e))'
      BY <3>2, <3>3
    <3> QED
      BY <2>3, <2>5, <3>4 DEF OwnInv
  <2> QED
    BY <1>2, <2>4, <2>5, PlanCases
<1>3. CASE WriteFails(c)
  BY <1>0, <1>3 DEF WriteFails
<1>4. CASE WriteObject(c)
  <2>1. pc[c] = "write" /\ pc'[c] = "write" /\ changes' = changes /\ UNCHANGED <<zone, maker>>
    BY <1>4 DEF WriteObject
  <2>2. \A x : ~Leaving(c, x) /\ (Programmed(c, x)' => Programmed(c, x))
    BY <1>4, <2>1, WriteProgrammed DEF Leaving
  <2>3. \A x : Programmed(c, x)' => Wrote(c, x[2])'
    BY <2>1, <2>2, StillOwn DEF OwnInv
  <2>4. \A e \in changes[c].updateNew \union changes[c].delete : Wrote(c, Key(e))'
    BY <2>1, StillOwn DEF OwnInv
  <2> QED
    BY <2>1, <2>3, <2>4 DEF OwnInv
<1>5. CASE SetAccepted(c) \/ SetFailed(c)
  <2>1. PICK reason : SetStatus(c, reason) /\ reason # "Programmed"
    BY <1>5 DEF SetAccepted, SetFailed
  <2>2. /\ pc[c] \in {"write", "failed"} /\ pc'[c] \in {"apply", "error"}
        /\ pc'[c] = "apply" => pc[c] = "write"
        /\ changes' = changes /\ UNCHANGED <<zone, maker>>
    BY <1>5 DEF SetAccepted, SetFailed, Shapes
  <2>3. \A x : ~Leaving(c, x) /\ (Programmed(c, x)' => Programmed(c, x))
    BY <2>1, <2>2, StatusProgrammed DEF Leaving
  <2>4. \A x : Programmed(c, x)' => Wrote(c, x[2])'
    BY <2>2, <2>3, StillOwn DEF OwnInv
  <2>5. pc'[c] = "apply" =>
          \A e \in changes[c].updateNew \union changes[c].delete : Wrote(c, Key(e))'
    BY <2>2, StillOwn DEF OwnInv
  <2> QED
    BY <2>2, <2>4, <2>5 DEF OwnInv
<1>6. CASE SetProgrammed(c)
  <2>1. /\ pc[c] = "programmed" /\ pc'[c] = "delete" /\ todo'[c] = changes[c].delete
        /\ UNCHANGED <<zone, maker>> /\ SetStatus(c, "Programmed")
    BY <1>6 DEF SetProgrammed, Shapes
  <2>2. \A x \in DOMAIN applied[c] : \E e \in New(c) : x[2] = Key(e)
    BY ObjParts DEF RunInv
  <2>3. \A x \in DOMAIN applied[c] : Wrote(c, x[2])
    BY <2>1, <2>2 DEF OwnInv
  <2>4. \A x : Leaving(c, x) => Leaving(c, x)'
    BY <2>1 DEF Leaving
  <2>5. ASSUME NEW x, Programmed(c, x)'
        PROVE  Wrote(c, x[2])' \/ Leaving(c, x)'
    <3>1. Programmed(c, x) \/ x \in DOMAIN applied[c]
      BY <2>1, <2>5, StatusProgrammed
    <3>2. Wrote(c, x[2]) \/ Leaving(c, x)
      BY <2>3, <3>1 DEF OwnInv
    <3> QED
      BY <2>1, <2>4, <3>2, StillOwn
  <2> QED
    BY <2>1, <2>5 DEF OwnInv
<1>7. CASE Calls(c)
  <2>1. /\ pc[c] = "apply" /\ UNCHANGED <<objs, changes>>
        /\ \/ pc'[c] = "programmed" /\ ZoneChanged(c, changes[c])
           \/ pc'[c] = "failed" /\ Same
    <3>1. UNCHANGED <<objs, changes>> /\ (WholeCall(c) \/ PartCall(c))
      BY <1>7, ProviderCases
    <3>2. "split" \notin world
      BY DEF Undisturbed
    <3> QED
      BY <1>0, <3>1, <3>2 DEF WholeCall, PartCall, RunInv
  <2>2. \A x : ~Leaving(c, x) /\ (Programmed(c, x)' => Programmed(c, x))
    BY <2>1 DEF Leaving, Programmed
  <2>3. \A x : Programmed(c, x)' => Wrote(c, x[2])
    BY <2>2 DEF OwnInv
  <2>4. CASE pc'[c] = "failed" /\ Same
    <3>1. \A x : Programmed(c, x)' => Wrote(c, x[2])'
      BY <2>3, <2>4, StillOwn DEF Same
    <3> QED
      BY <2>4, <3>1 DEF OwnInv
  <2>5. CASE pc'[c] = "programmed" /\ ZoneChanged(c, changes[c])
    <3>1. \A x : Programmed(c, x)' => Wrote(c, x[2])' \/ Named(changes[c].delete, x[2])
      BY <2>3, <2>5, KeptByProvider
    <3>2. \A x : Programmed(c, x)' => Wrote(c, x[2])' \/ Leaving(c, x)'
      BY <2>1, <2>5, <3>1 DEF Leaving
    <3>3. \A e \in New(c) : Wrote(c, Key(e))'
      BY <2>1, <2>5, ProviderOwns
    <3>4. New(c)' = New(c)
      BY <2>1 DEF New
    <3> QED
      BY <2>5, <3>2, <3>3, <3>4 DEF OwnInv
  <2> QED
    BY <2>1, <2>4, <2>5
<1>8. CASE DeleteObject(c)
  <2>1. pc[c] = "delete" /\ pc'[c] = "delete" /\ UNCHANGED <<zone, maker>>
    BY <1>8 DEF DeleteObject
  <2>2. \A x : Programmed(c, x)' => /\ Programmed(c, x)
                                    /\ Named(todo[c], x[2]) => Named(todo'[c], x[2])
    BY <1>8, DeleteProgrammed
  <2>3. ASSUME NEW x, Programmed(c, x)'
        PROVE  Wrote(c, x[2])' \/ Leaving(c, x)'
    <3>1. Wrote(c, x[2]) \/ Leaving(c, x)
      BY <2>2, <2>3 DEF OwnInv
    <3>2. Leaving(c, x) => Leaving(c, x)'
      BY <2>1, <2>2, <2>3 DEF Leaving
    <3> QED
      BY <2>1, <3>1, <3>2, StillOwn
  <2> QED
    BY <2>1, <2>3 DEF OwnInv
<1>9. CASE Finish(c)
  <2>1. /\ pc[c] = "error" \/ (pc[c] = "delete" /\ todo[c] = {})
        /\ pc'[c] = "idle" /\ objs' = objs /\ UNCHANGED <<zone, maker>>
    BY <1>9 DEF Finish, Return, Shapes
  <2>2. \A x : ~Leaving(c, x) /\ (Programmed(c, x)' => Programmed(c, x))
    BY <2>1 DEF Leaving, Programmed, Named
  <2>3. \A x : Programmed(c, x)' => Wrote(c, x[2])'
    BY <2>1, <2>2, StillOwn DEF OwnInv
  <2> QED
    BY <2>1, <2>3 DEF OwnInv
<1> QED
  BY <1>1, <1>2, <1>3, <1>4, <1>5, <1>6, <1>7, <1>8, <1>9 DEF Step, Calls

(* A call of the provider changes no record of another process.            *)
LEMMA ForeignUntouched ==
  ASSUME Undisturbed, NEW c \in Controllers, Shapes, RunInv(c), OwnInv(c), Step(c),
         NEW k \in DOMAIN zone, ~Wrote(c, k)
  PROVE  k \in DOMAIN zone' /\ zone'[k] = zone[k] /\ maker'[k] = maker[k]
<1>1. CASE Same
  BY <1>1 DEF Same
<1>2. ASSUME pc[c] \in Calling, NEW ch, Within(ch, changes[c]), ZoneChanged(c, ch)
      PROVE  k \in DOMAIN zone' /\ zone'[k] = zone[k] /\ maker'[k] = maker[k]
  <2>1. pc[c] = "apply"
    BY <1>2 DEF Calling, RunInv, Undisturbed
  <2>2. \A e \in changes[c].updateNew \union changes[c].delete : Wrote(c, Key(e))
    BY <2>1 DEF OwnInv
  <2>3. \A e \in ch.updateNew \union ch.delete : Key(e) # k
    BY <1>2, <2>2 DEF Within
  <2>4. ~Named(ch.create, k)
    BY <1>2 DEF Undisturbed, ZoneChanged
  <2>5. ~Named(Fresh(ch), k) /\ ~Named(ch.delete, k)
    BY <2>3, <2>4 DEF Named, Fresh
  <2> QED
    BY <1>2, <2>5 DEF ZoneChanged
<1> QED
  BY <1>1, <1>2, StepCarries DEF Carried

(* A step of c leaves the others their records, and so what they know.     *)
LEMMA OthersOwn ==
  ASSUME OwnNamespaces, OwnIDs, Undisturbed, NEW c \in Controllers, Shapes, RunInv(c), OwnInv(c),
         Step(c), Frame(c), NEW d \in Controllers \ {c}, OwnInv(d)
  PROVE  OwnInv(d)'
<1>1. /\ pc'[d] = pc[d] /\ view'[d] = view[d] /\ changes'[d] = changes[d] /\ todo'[d] = todo[d]
  BY DEF Frame
<1>2. Namespace[d] # Namespace[c] /\ OwnID(d) # OwnID(c)
  BY DEF OwnNamespaces, OwnIDs
<1>3. ASSUME NEW k, Wrote(d, k)
      PROVE  Wrote(d, k)'
  <2>1. k \in DOMAIN zone /\ maker[k] = OwnID(d) /\ ~Wrote(c, k)
    BY <1>2, <1>3 DEF Wrote
  <2>2. k \in DOMAIN zone' /\ maker'[k] = maker[k]
    BY <2>1, ForeignUntouched
  <2> QED
    BY <2>1, <2>2 DEF Wrote
<1>4. \A x : Programmed(d, x)' => Programmed(d, x)
  BY <1>2 DEF Programmed, Frame
<1>5. \A x : Leaving(d, x) => Leaving(d, x)'
  BY <1>1 DEF Leaving
<1>6. \A x : Programmed(d, x)' => Wrote(d, x[2])' \/ Leaving(d, x)'
  BY <1>3, <1>4, <1>5 DEF OwnInv
<1>7. /\ pc[d] = "plan" => \A e \in view[d] : Wrote(d, Key(e))'
      /\ pc[d] \in {"write", "apply"} =>
           \A e \in changes[d].updateNew \union changes[d].delete : Wrote(d, Key(e))'
      /\ pc[d] = "programmed" => \A e \in New(d) : Wrote(d, Key(e))'
  BY <1>3 DEF OwnInv
<1>8. New(d)' = New(d)
  BY <1>1 DEF New
<1> QED
  BY <1>1, <1>6, <1>7, <1>8 DEF OwnInv

Untouched(c) ==
  \A k \in DOMAIN zone : ~Wrote(c, k) =>
    k \in DOMAIN zone' /\ zone'[k] = zone[k] /\ maker'[k] = maker[k]

LEMMA NextOwn ==
  ASSUME OneSpelling, OwnNamespaces, OwnIDs, BasicInv, OwnRecordsInv, [Next]_vars
  PROVE  OwnRecordsInv' /\ (Undisturbed => \A c \in Controllers : Called(c) => Untouched(c))
<1>0. Shapes /\ \A c \in Controllers : RunInv(c)
  BY DEF BasicInv
<1>1. CASE UNCHANGED vars \/ \E c \in Controllers : InformerSyncs(c) \/ SourceChanges(c)
  <2>1. UNCHANGED <<zone, maker, made, world, objs>> /\ UNCHANGED <<pc, view, changes, todo, applied>>
    BY <1>0, <1>1, QuietBasic DEF Quiet, procVars
  <2>2. \A c \in Controllers : OwnInv(c) => OwnInv(c)'
    BY <2>1 DEF OwnInv, Programmed, Leaving, Wrote, New
  <2>3. OwnRecordsInv'
    BY <2>1, <2>2 DEF OwnRecordsInv, Undisturbed
  <2>4. \A c \in Controllers : Untouched(c)
    BY <2>1 DEF Untouched
  <2> QED
    BY <2>3, <2>4
<1>2. ASSUME NEW c \in Controllers, Step(c) \/ Crash(c), ~Undisturbed
      PROVE  OwnRecordsInv'
  <2>1. world' = world
    BY <1>2, OtherSteps
  <2> QED
    BY <1>2, <2>1 DEF OwnRecordsInv, Undisturbed
<1>3. ASSUME NEW c \in Controllers, Step(c) \/ Crash(c), Undisturbed
      PROVE  OwnRecordsInv' /\ \A d \in Controllers : Called(d) => Untouched(d)
  <2>0. \A d \in Controllers : OwnInv(d)
    BY <1>3 DEF OwnRecordsInv
  <2>1. Step(c)
    BY <1>3 DEF Crash, Undisturbed
  <2>2. Frame(c)
    BY <1>0, <2>1, StepBasic
  <2>3. OwnInv(c)'
    BY <1>0, <1>3, <2>0, <2>1, StepOwn
  <2>4. \A d \in Controllers \ {c} : OwnInv(d)'
    BY <1>0, <1>3, <2>0, <2>1, <2>2, OthersOwn
  <2>5. OwnRecordsInv'
    BY <2>3, <2>4 DEF OwnRecordsInv
  <2>6. \A d \in Controllers : Called(d) => d = c
    BY <2>2 DEF Frame, Called
  <2>7. Untouched(c)
    BY <1>0, <1>3, <2>0, <2>1, ForeignUntouched DEF Untouched
  <2> QED
    BY <2>5, <2>6, <2>7
<1> QED
  BY <1>1, <1>2, <1>3, NextCases

(* Nothing is Programmed before the first run.                             *)
LEMMA OwnRecordsStart == Init => OwnRecordsInv
<1> SUFFICES ASSUME Init
             PROVE  OwnRecordsInv
  OBVIOUS
<1>1. DOMAIN objs = {} /\ \A c \in Controllers : pc[c] = "idle"
  BY DEF Init
<1> QED
  BY <1>1 DEF OwnRecordsInv, OwnInv, Programmed

-----------------------------------------------------------------------------
(* Whatever fails, an object becomes Programmed only when the provider has *)
(* confirmed its record once; so what a process updates or deletes are     *)
(* names that it has had a record of.                                      *)
Had(c, k) == <<OwnID(c), k>> \in made
ListedProgrammed(c, x) ==
  /\ x \in DOMAIN lister[c] /\ x[1] = Namespace[c]
  /\ lister[c][x].owner = OwnID(c) /\ lister[c][x].ready = "Programmed"

MadeInv(c) ==
  /\ \A x : Programmed(c, x) \/ ListedProgrammed(c, x) => Had(c, x[2])
  /\ pc[c] = "plan" => \A e \in view[c] : Had(c, Key(e))
  /\ pc[c] \in {"write"} \union Calling =>
       \A e \in changes[c].updateNew \union changes[c].delete : Had(c, Key(e))
  /\ pc[c] = "programmed" => \A e \in New(c) : Had(c, Key(e))
  /\ pc[c] = "split" => \A e \in New(c) : Had(c, Key(e)) \/ e \in todo[c]

AllMade == \A c \in Controllers : MadeInv(c)

(* What has been made stays made.                                          *)
LEMMA MadeGrows ==
  ASSUME NEW c \in Controllers, Shapes, Step(c) \/ Crash(c)
  PROVE  /\ lister' = lister
         /\ \A d, k : Had(d, k) => Had(d, k)'
<1>1. made \subseteq made'
  BY StepCarries DEF Carried, Same, ZoneChanged
<1>2. lister' = lister
  BY DEF Step, Crash, ReadRecords, PlanChanges, WriteObject, WriteFails, SetAccepted,
         SetFailed, SetProgrammed, DeleteObject, Finish, ProviderApplies,
         ProviderFails, PartApplies, PartFails
<1> QED
  BY <1>1, <1>2 DEF Had

LEMMA RecordsMade ==
  ASSUME NEW c \in Controllers, Shapes, MadeInv(c), NEW e \in Records(c)
  PROVE  Had(c, Key(e))
<1>1. PICK x \in DOMAIN Listed(c) :
        /\ x[1] = Namespace[c] /\ Listed(c)[x].owner = OwnID(c)
        /\ Listed(c)[x].ready = "Programmed" /\ e = Listed(c)[x].ep
  BY DEF Records
<1>2. x[2] = Key(e) /\ (Programmed(c, x) \/ ListedProgrammed(c, x))
  BY <1>1 DEF Listed, Shapes, IsObject, Programmed, ListedProgrammed
<1> QED
  BY <1>2 DEF MadeInv

(* The provider has confirmed what it is asked to write.                   *)
LEMMA CallsMade ==
  ASSUME NEW c \in Controllers, Shapes, RunInv(c), MadeInv(c), Calls(c),
         \A d, k : Had(d, k) => Had(d, k)'
  PROVE  /\ pc'[c] \in Split \union {"programmed", "failed"}
         /\ pc'[c] = "programmed" => \A e \in New(c) : Had(c, Key(e))'
         /\ pc'[c] = "split" => \A e \in New(c) : Had(c, Key(e))' \/ e \in todo'[c]
<1>1. WholeCall(c) \/ PartCall(c)
  BY ProviderCases
<1>2. \A ch : ZoneChanged(c, ch) => \A e \in Fresh(ch) : Had(c, Key(e))'
  BY DEF ZoneChanged, Had
<1>3. New(c) = Fresh(changes[c]) /\ New(c) \subseteq Changed(changes[c])
  BY DEF New, Fresh, Changed
<1>4. CASE WholeCall(c)
  BY <1>2, <1>3, <1>4 DEF WholeCall, Split
<1>5. CASE PartCall(c)
  <2>1. PICK e \in todo[c] :
          /\ todo'[c] = Rest(c, e)
          /\ \/ /\ ZoneChanged(c, Part(changes[c], e.name))
                /\ \/ pc'[c] = pc[c]
                   \/ pc'[c] = "programmed" /\ pc[c] = "split" /\ todo'[c] = {}
                   \/ pc'[c] = "failed"
             \/ pc'[c] \in {"partial", "failed"}
    BY <1>5 DEF PartCall
  <2>2. ASSUME pc'[c] \in {"split", "programmed"}, NEW d \in New(c)
        PROVE  Had(c, Key(d))' \/ d \in todo'[c]
    <3>1. ZoneChanged(c, Part(changes[c], e.name)) /\ pc[c] = "split"
      BY <1>5, <2>1, <2>2 DEF PartCall, Split
    <3>2. CASE d.name = e.name
      BY <1>2, <1>3, <3>1, <3>2, PartWithin
    <3>3. CASE d \in todo[c] /\ d.name # e.name
      BY <2>1, <3>3 DEF Rest
    <3>4. CASE Had(c, Key(d))
      BY <3>4
    <3> QED
      BY <3>1, <3>2, <3>3, <3>4 DEF MadeInv
  <2>3. pc'[c] \in Split \union {"programmed", "failed"}
    BY <1>5, <2>1 DEF PartCall, Split
  <2>4. pc'[c] = "programmed" => todo'[c] = {}
    BY <1>5, <2>1 DEF PartCall, Split
  <2> QED
    BY <2>2, <2>3, <2>4
<1> QED
  BY <1>1, <1>4, <1>5

LEMMA StepMade ==
  ASSUME OneSpelling, NEW c \in Controllers, Shapes, RunInv(c), MadeInv(c), Step(c) \/ Crash(c)
  PROVE  MadeInv(c)'
<1>1. lister' = lister /\ \A d, k : Had(d, k) => Had(d, k)'
  BY MadeGrows
<1>2. \A x : ListedProgrammed(c, x)' => Had(c, x[2])'
  BY <1>1 DEF MadeInv, ListedProgrammed
<1>3. CASE ReadRecords(c)
  <2>1. pc'[c] = "plan" /\ view'[c] = Records(c) /\ objs' = objs
    BY <1>3 DEF ReadRecords, Shapes
  <2>2. \A x : Programmed(c, x)' => Had(c, x[2])'
    BY <1>1, <2>1 DEF MadeInv, Programmed
  <2>3. \A e \in Records(c) : Had(c, Key(e))'
    BY <1>1, RecordsMade
  <2> QED
    BY <1>2, <2>1, <2>2, <2>3 DEF MadeInv, Calling, Split
<1>4. CASE PlanChanges(c)
  <2>1. pc[c] = "plan" /\ UniqueKeys(view[c]) /\ objs' = objs
    BY <1>4 DEF PlanChanges, RunInv
  <2>2. \A x : Programmed(c, x)' => Had(c, x[2])'
    BY <1>1, <2>1 DEF MadeInv, Programmed
  <2>3. CASE pc'[c] = "idle"
    BY <1>2, <2>2, <2>3 DEF MadeInv, Calling, Split
  <2>4. ASSUME NEW ch,
               ch = [Calculate(Config[c], view[c], src[c]) EXCEPT !.create = Claimed(Config[c], @)],
               pc'[c] = "write", changes'[c] = ch
        PROVE  MadeInv(c)'
    <3>0. ch = [Calculate(Config[c], view[c], src[c]) EXCEPT !.create = Claimed(Config[c], @)]
          /\ UniqueKeys(view[c])
      BY <2>1, <2>4
    <3>1. Sound(ch, view[c])
      BY <3>0, PlanParts
    <3>2. \A e \in ch.updateNew \union ch.delete : \E old \in view[c] : Key(old) = Key(e)
      BY <3>1 DEF Sound
    <3>3. \A e \in view[c] : Had(c, Key(e))'
      BY <1>1, <2>1 DEF MadeInv
    <3>4. \A e \in ch.updateNew \union ch.delete : Had(c, Key(e))'
      BY <3>2, <3>3
    <3> QED
      BY <1>2, <2>2, <2>4, <3>4 DEF MadeInv, Calling, Split
  <2> QED
    BY <1>4, <2>3, <2>4, PlanCases
<1>5. CASE WriteFails(c) \/ Finish(c) \/ Crash(c)
  <2>1. pc'[c] = "idle" /\ objs' = objs
    BY <1>5 DEF WriteFails, Finish, Crash, Return, Shapes
  <2>2. \A x : Programmed(c, x)' => Had(c, x[2])'
    BY <1>1, <2>1 DEF MadeInv, Programmed
  <2> QED
    BY <1>2, <2>1, <2>2 DEF MadeInv, Calling, Split
<1>6. CASE WriteObject(c)
  <2>1. pc[c] = "write" /\ pc'[c] = "write" /\ changes' = changes
    BY <1>6 DEF WriteObject
  <2>2. \A x : Programmed(c, x)' => Had(c, x[2])'
    BY <1>1, <1>6, WriteProgrammed DEF MadeInv
  <2>3. \A e \in changes[c].updateNew \union changes[c].delete : Had(c, Key(e))'
    BY <1>1, <2>1 DEF MadeInv
  <2> QED
    BY <1>2, <2>1, <2>2, <2>3 DEF MadeInv, Calling, Split
<1>7. CASE SetAccepted(c) \/ SetFailed(c)
  <2>1. PICK reason : SetStatus(c, reason) /\ reason # "Programmed"
    BY <1>7 DEF SetAccepted, SetFailed
  <2>2. /\ pc'[c] \in {"apply", "error"} /\ changes' = changes
        /\ pc'[c] = "apply" => pc[c] = "write"
    BY <1>7 DEF SetAccepted, SetFailed, Shapes
  <2>3. \A x : Programmed(c, x)' => Had(c, x[2])'
    BY <1>1, <2>1, StatusProgrammed DEF MadeInv
  <2>4. pc'[c] = "apply" =>
          \A e \in changes[c].updateNew \union changes[c].delete : Had(c, Key(e))'
    BY <1>1, <2>2 DEF MadeInv
  <2> QED
    BY <1>2, <2>2, <2>3, <2>4 DEF MadeInv, Calling, Split
<1>8. CASE SetProgrammed(c)
  <2>1. pc[c] = "programmed" /\ pc'[c] = "delete" /\ SetStatus(c, "Programmed")
    BY <1>8 DEF SetProgrammed, Shapes
  <2>2. \A x \in DOMAIN applied[c] : \E e \in New(c) : x[2] = Key(e)
    BY ObjParts DEF RunInv
  <2>3. \A x \in DOMAIN applied[c] : Had(c, x[2])
    BY <2>1, <2>2 DEF MadeInv
  <2>4. \A x : Programmed(c, x)' => Had(c, x[2])'
    BY <1>1, <2>1, <2>3, StatusProgrammed DEF MadeInv
  <2> QED
    BY <1>2, <2>1, <2>4 DEF MadeInv, Calling, Split
<1>9. CASE Calls(c)
  <2>1. UNCHANGED <<objs, changes>> /\ pc[c] \in Calling
    BY <1>9, ProviderCases, CallCarries
  <2>2. \A x : Programmed(c, x)' => Had(c, x[2])'
    BY <1>1, <2>1 DEF MadeInv, Programmed
  <2>3. \A e \in changes[c].updateNew \union changes[c].delete : Had(c, Key(e))'
    BY <1>1, <2>1 DEF MadeInv
  <2>4. New(c)' = New(c)
    BY <2>1 DEF New
  <2>5. /\ pc'[c] \in Split \union {"programmed", "failed"}
        /\ pc'[c] = "programmed" => \A e \in New(c) : Had(c, Key(e))'
        /\ pc'[c] = "split" => \A e \in New(c) : Had(c, Key(e))' \/ e \in todo'[c]
    BY <1>1, <1>9, CallsMade
  <2> QED
    BY <1>2, <2>1, <2>2, <2>3, <2>4, <2>5 DEF MadeInv, Split
<1>10. CASE DeleteObject(c)
  <2>1. pc[c] = "delete" /\ pc'[c] = "delete"
    BY <1>10 DEF DeleteObject
  <2>2. \A x : Programmed(c, x)' => Had(c, x[2])'
    BY <1>1, <1>10, DeleteProgrammed DEF MadeInv
  <2> QED
    BY <1>2, <2>1, <2>2 DEF MadeInv, Calling, Split
<1> QED
  BY <1>3, <1>4, <1>5, <1>6, <1>7, <1>8, <1>9, <1>10 DEF Step, Calls

LEMMA OthersMade ==
  ASSUME OwnNamespaces, NEW c \in Controllers, Shapes, Step(c) \/ Crash(c), Frame(c),
         NEW d \in Controllers \ {c}, MadeInv(d)
  PROVE  MadeInv(d)'
<1>1. lister' = lister /\ \A k : Had(d, k) => Had(d, k)'
  BY MadeGrows
<1>2. /\ pc'[d] = pc[d] /\ view'[d] = view[d] /\ changes'[d] = changes[d] /\ todo'[d] = todo[d]
  BY DEF Frame
<1>3. Namespace[d] # Namespace[c]
  BY DEF OwnNamespaces
<1>4. \A x : Programmed(d, x)' => Programmed(d, x)
  BY <1>3 DEF Programmed, Frame
<1>5. \A x : ListedProgrammed(d, x)' => ListedProgrammed(d, x)
  BY <1>1 DEF ListedProgrammed
<1>6. New(d)' = New(d)
  BY <1>2 DEF New
<1> QED
  BY <1>1, <1>2, <1>4, <1>5, <1>6 DEF MadeInv, Calling, Split

(* A call changes a record of another process only under a name made.      *)
LEMMA ForeignMade ==
  ASSUME NEW c \in Controllers, Shapes, MadeInv(c), Step(c) \/ Crash(c), "upserts" \notin world,
         NEW k \in DOMAIN zone
  PROVE  \/ k \in DOMAIN zone' /\ zone'[k] = zone[k] /\ maker'[k] = maker[k]
         \/ Had(c, k)
<1>1. CASE Same
  BY <1>1 DEF Same
<1>2. ASSUME pc[c] \in Calling, NEW ch, Within(ch, changes[c]), ZoneChanged(c, ch), ~Had(c, k)
      PROVE  k \in DOMAIN zone' /\ zone'[k] = zone[k] /\ maker'[k] = maker[k]
  <2>1. \A e \in changes[c].updateNew \union changes[c].delete : Had(c, Key(e))
    BY <1>2 DEF MadeInv
  <2>2. \A e \in ch.updateNew \union ch.delete : Key(e) # k
    BY <1>2, <2>1 DEF Within
  <2>3. ~Named(ch.create, k)
    BY <1>2 DEF ZoneChanged
  <2>4. ~Named(Fresh(ch), k) /\ ~Named(ch.delete, k)
    BY <2>2, <2>3 DEF Named, Fresh
  <2> QED
    BY <1>2, <2>4 DEF ZoneChanged
<1> QED
  BY <1>1, <1>2, StepCarries DEF Carried

UntouchedUnmade(c) ==
  \A k \in DOMAIN zone : ~Wrote(c, k) =>
    \/ k \in DOMAIN zone' /\ zone'[k] = zone[k] /\ maker'[k] = maker[k]
    \/ Had(c, k)

LEMMA NextMade ==
  ASSUME OneSpelling, OwnNamespaces, BasicInv, AllMade, [Next]_vars
  PROVE  /\ AllMade'
         /\ "upserts" \notin world => \A c \in Controllers : Called(c) => UntouchedUnmade(c)
<1>0. Shapes /\ \A c \in Controllers : RunInv(c)
  BY DEF BasicInv
<1>1. CASE UNCHANGED vars \/ \E c \in Controllers : InformerSyncs(c) \/ SourceChanges(c)
  <2>1. UNCHANGED <<zone, maker, made, world, objs>> /\ UNCHANGED <<pc, view, changes, todo, applied>>
    BY <1>0, <1>1, QuietBasic DEF Quiet, procVars
  <2>2. ASSUME NEW c \in Controllers
        PROVE  MadeInv(c)'
    <3>1. lister'[c] \in {lister[c], objs}
      BY <1>0, <1>1, <2>2 DEF vars, InformerSyncs, SourceChanges, Shapes
    <3>2. \A x : Programmed(c, x)' \/ ListedProgrammed(c, x)' => Programmed(c, x) \/ ListedProgrammed(c, x)
      BY <2>1, <3>1 DEF Programmed, ListedProgrammed
    <3>3. MadeInv(c) /\ New(c)' = New(c)
      BY <2>1 DEF AllMade, New
    <3>4. \A k : Had(c, k)' <=> Had(c, k)
      BY <2>1 DEF Had
    <3> QED
      BY <2>1, <3>2, <3>3, <3>4 DEF MadeInv, Calling, Split
  <2>3. \A c \in Controllers : UntouchedUnmade(c)
    BY <2>1 DEF UntouchedUnmade
  <2> QED
    BY <2>2, <2>3 DEF AllMade
<1>2. ASSUME NEW c \in Controllers, Step(c) \/ Crash(c)
      PROVE  /\ AllMade'
             /\ "upserts" \notin world => \A d \in Controllers : Called(d) => UntouchedUnmade(d)
  <2>1. Frame(c)
    BY <1>0, <1>2, StepBasic
  <2>2. MadeInv(c)'
    BY <1>0, <1>2, StepMade DEF AllMade
  <2>3. \A d \in Controllers \ {c} : MadeInv(d)'
    BY <1>0, <1>2, <2>1, OthersMade DEF AllMade
  <2>4. \A d \in Controllers : Called(d) => d = c
    BY <2>1 DEF Frame, Called
  <2>5. "upserts" \notin world => UntouchedUnmade(c)
    BY <1>0, <1>2, ForeignMade DEF UntouchedUnmade, AllMade
  <2> QED
    BY <2>2, <2>3, <2>4, <2>5 DEF AllMade
<1> QED
  BY <1>1, <1>2, NextCases

LEMMA MadeStart == Init => AllMade
<1> SUFFICES ASSUME Init, NEW c \in Controllers
             PROVE  MadeInv(c)
  BY DEF AllMade
<1>1. DOMAIN objs = {} /\ pc[c] = "idle" /\ lister[c] = <<>>
  BY DEF Init
<1>2. DOMAIN lister[c] = {}
  BY <1>1
<1> QED
  BY <1>1, <1>2 DEF MadeInv, Programmed, ListedProgrammed, Calling, Split

(* A process leaves the records of others alone although Records looks at  *)
(* its objects and never at the zone: it updates and deletes what its      *)
(* Programmed objects stand for, and the provider creates nothing that     *)
(* exists.  When objects may be left behind, by a batch that is partly     *)
(* applied, a crash, a lost answer or a failed write, they stand for       *)
(* records that the process once had.                                      *)
THEOREM CRDOwnRecordsOnly ==
  ASSUME OneSpelling, OwnNamespaces, OwnIDs
  PROVE  Spec => OwnRecordsOnly
<1> DEFINE Inv == BasicInv /\ OwnRecordsInv /\ AllMade
<1>1. Init => Inv
  BY OwnRecordsStart, BasicInvHolds, MadeStart
<1>2. Inv /\ [Next]_vars => Inv'
  BY BasicInvHolds, NextOwn, NextMade
<1>3. Inv /\ [Next]_vars => ["upserts" \notin world => ForeignStep]_vars
  <2> SUFFICES ASSUME Inv, [Next]_vars, "upserts" \notin world, NEW c \in Controllers, Called(c),
                      NEW k \in DOMAIN zone, ~Wrote(c, k)
               PROVE  \/ k \in DOMAIN zone' /\ zone'[k] = zone[k] /\ maker'[k] = maker[k]
                      \/ ~Undisturbed /\ <<OwnID(c), k>> \in made
    BY DEF ForeignStep
  <2>1. Undisturbed => k \in DOMAIN zone' /\ zone'[k] = zone[k] /\ maker'[k] = maker[k]
    BY NextOwn DEF Untouched
  <2>2. \/ k \in DOMAIN zone' /\ zone'[k] = zone[k] /\ maker'[k] = maker[k]
        \/ <<OwnID(c), k>> \in made
    BY NextMade DEF UntouchedUnmade, Had
  <2> QED
    BY <2>1, <2>2
<1> HIDE DEF Inv
<1> QED
  BY <1>1, <1>2, <1>3, PTL DEF Spec, OwnRecordsOnly

-----------------------------------------------------------------------------
(* A Programmed object describes its record.  While objects are written,   *)
(* those already written are ahead of the zone; SetAccepted then takes     *)
(* "Programmed" from all of them before the provider is called.  If a      *)
(* batch is partly applied or an answer lost, the record may be gone or    *)
(* another's (Right).                                                      *)
Live(x) == x[2] \in DOMAIN zone /\ zone[x[2]].tgt = objs[x].ep.tgt
Right(c, x) == Live(x) \/ (~Benign /\ ~Wrote(c, x[2]))
AllWritten == world \intersect {"write", "status", "crash"} = {}

LiveInv(c) ==
  /\ \A x : Programmed(c, x) =>
       \/ Right(c, x) \/ Leaving(c, x)
       \/ pc[c] = "write" /\ x \in DOMAIN applied[c]
  /\ pc[c] \in Calling \union {"programmed"} => \A x \in DOMAIN applied[c] : ~Programmed(c, x)
  /\ pc[c] \in Calling \union {"write"} =>
       \A e \in New(c) : Obj(c, e) \in DOMAIN objs =>
         Obj(c, e) \in DOMAIN applied[c] \/ (pc[c] = "write" /\ e \in todo[c])
  /\ pc[c] = "programmed" => \A x \in DOMAIN applied[c] : Right(c, x)
  /\ pc[c] = "split" => \A x \in DOMAIN applied[c] : Right(c, x) \/ Named(todo[c], x[2])

(* A step that changes neither the record nor the endpoint of an object.   *)
LEMMA StillRight ==
  ASSUME NEW c \in Controllers, world' = world, zone' = zone, maker' = maker,
         NEW x, objs'[x].ep = objs[x].ep, Right(c, x)
  PROVE  Right(c, x)'
  BY DEF Right, Live, Benign, Single, Wrote

(* The provider's changes leave alone what they do not name and make of    *)
(* the rest what the objects say.                                          *)
LEMMA LiveByProvider ==
  ASSUME NEW c \in Controllers, Shapes, RunInv(c), LiveInv(c), pc[c] \in Calling,
         NEW ch, Within(ch, changes[c]), ZoneChanged(c, ch), objs' = objs, world' = world
  PROVE  /\ \A x \in DOMAIN applied[c] : Named(Fresh(ch), x[2]) \/ Right(c, x) => Right(c, x)'
         /\ \A x : Programmed(c, x) => \/ Right(c, x)'
                                       \/ Benign /\ Named(ch.delete, x[2])
<1>0. Benign' = Benign
  BY DEF Benign, Single
<1>1. ASSUME NEW x \in DOMAIN applied[c], Named(Fresh(ch), x[2]) \/ Right(c, x)
      PROVE  Right(c, x)'
  <2>1. PICK e \in New(c) : x = Obj(c, e) /\ objs[x].ep = e
    BY DEF RunInv
  <2>2. x[2] = Key(e)
    BY <2>1, ObjParts
  <2>3. ~Named(ch.delete, Key(e))
    BY DEF Named, RunInv, Within
  <2>4. CASE Named(Fresh(ch), Key(e))
    <3>1. Key(e) \in DOMAIN zone'
      BY <2>3, <2>4 DEF ZoneChanged
    <3>2. PICK d \in Fresh(ch) : Key(d) = Key(e) /\ zone'[Key(e)].tgt = d.tgt
      BY <2>4, <3>1 DEF ZoneChanged
    <3>3. d \in New(c)
      BY DEF Within, Fresh, New
    <3>4. d = e
      BY <3>2, <3>3 DEF RunInv, UniqueKeys
    <3> QED
      BY <2>1, <2>2, <3>1, <3>2, <3>4 DEF Live, Right
  <2>5. CASE ~Named(Fresh(ch), Key(e))
    <3>1. /\ Key(e) \in DOMAIN zone' <=> Key(e) \in DOMAIN zone
          /\ Key(e) \in DOMAIN zone => zone'[Key(e)] = zone[Key(e)] /\ maker'[Key(e)] = maker[Key(e)]
      BY <2>3, <2>5 DEF ZoneChanged
    <3>2. Right(c, x)
      BY <1>1, <2>2, <2>5
    <3> QED
      BY <1>0, <2>2, <3>1, <3>2 DEF Right, Live, Wrote
  <2> QED
    BY <2>4, <2>5
<1>2. ASSUME NEW x, Programmed(c, x)
      PROVE  Right(c, x)' \/ (Benign /\ Named(ch.delete, x[2]))
  <2>1. x \notin DOMAIN applied[c] /\ pc[c] \notin {"write", "programmed", "delete"}
    BY <1>2 DEF LiveInv, Calling, Split
  <2>2. ~Leaving(c, x)
    BY <2>1 DEF Leaving
  <2>3. Right(c, x)
    BY <1>2, <2>1, <2>2 DEF LiveInv
  <2>4. x \in DOMAIN objs /\ x = <<Namespace[c], x[2]>>
    BY <1>2 DEF Programmed, Shapes, IsObject
  <2>5. ASSUME NEW e \in New(c), Key(e) = x[2]
        PROVE  FALSE
    <3>1. Obj(c, e) = x
      BY <2>4, <2>5 DEF Obj
    <3> QED
      BY <2>1, <2>4, <3>1 DEF LiveInv
  <2>6. ~Named(Fresh(ch), x[2])
    BY <2>5 DEF Named, Fresh, New, Within
  <2>7. CASE ~Named(ch.delete, x[2])
    <3>1. /\ x[2] \in DOMAIN zone' <=> x[2] \in DOMAIN zone
          /\ x[2] \in DOMAIN zone => zone'[x[2]] = zone[x[2]] /\ maker'[x[2]] = maker[x[2]]
      BY <2>6, <2>7 DEF ZoneChanged
    <3> QED
      BY <1>0, <2>3, <3>1 DEF Right, Live, Wrote
  <2>8. CASE Named(ch.delete, x[2]) /\ ~Benign
    <3>1. x[2] \notin DOMAIN zone'
      BY <2>8 DEF ZoneChanged
    <3> QED
      BY <1>0, <2>8, <3>1 DEF Right, Wrote
  <2> QED
    BY <2>7, <2>8
<1> QED
  BY <1>1, <1>2

(* The calls of the provider.                                              *)
LEMMA CallsLive ==
  ASSUME NEW c \in Controllers, Shapes, RunInv(c), LiveInv(c), Calls(c)
  PROVE  LiveInv(c)'
<1>1. /\ UNCHANGED <<world, objs, changes, applied>> /\ pc[c] \in Calling
      /\ WholeCall(c) \/ PartCall(c)
  BY ProviderCases, CallCarries
<1>2. /\ New(c)' = New(c) /\ \A e : Obj(c, e)' = Obj(c, e)
      /\ \A x : Programmed(c, x)' <=> Programmed(c, x)
  BY <1>1 DEF New, Obj, Programmed
<1>3. \A x : Programmed(c, x) => Right(c, x)
  <2>1. pc[c] \notin {"write", "programmed", "delete"}
    BY <1>1 DEF Calling, Split
  <2> QED
    BY <2>1 DEF LiveInv, Leaving
<1>4. ASSUME Same
      PROVE  \A x : Right(c, x) => Right(c, x)'
  BY <1>1, <1>4, StillRight DEF Same
<1>5. ASSUME NEW ch, Within(ch, changes[c]), ZoneChanged(c, ch)
      PROVE  /\ \A x \in DOMAIN applied[c] : Named(Fresh(ch), x[2]) \/ Right(c, x) => Right(c, x)'
             /\ \A x : Programmed(c, x) => Right(c, x)' \/ (Benign /\ Named(ch.delete, x[2]))
  BY <1>1, <1>5, LiveByProvider
(* An object that is named by what is still to be submitted.               *)
<1>6. \A x \in DOMAIN applied[c] : \E e \in New(c) : x[2] = Key(e)
  BY ObjParts DEF RunInv
<1>7. Benign => "split" \notin world /\ "lost" \notin world
  BY DEF Benign, Single
<1>8. CASE WholeCall(c)
  <2>1. CASE pc'[c] = "programmed" /\ ZoneChanged(c, changes[c])
    <3>1. \A x \in DOMAIN applied[c] : Named(Fresh(changes[c]), x[2])
      BY <1>6 DEF Named, Fresh, New
    <3>2. \A x \in DOMAIN applied[c] : Right(c, x)'
      BY <1>5, <2>1, <3>1, PartWithin
    <3>3. \A x : Programmed(c, x) => Right(c, x)' \/ Leaving(c, x)'
      BY <1>1, <1>5, <2>1, PartWithin DEF Leaving
    <3> QED
      BY <1>1, <1>2, <2>1, <3>2, <3>3 DEF LiveInv, Calling, Split
  <2>2. CASE /\ Same \/ ("lost" \in world /\ ZoneChanged(c, changes[c]))
             /\ pc'[c] \in {"failed", "split"}
    <3>1. \A x : Programmed(c, x) => Right(c, x)'
      BY <1>3, <1>4, <1>5, <1>7, <2>2, PartWithin
    <3>2. pc'[c] = "split" => \A x \in DOMAIN applied[c] : Named(todo'[c], x[2])
      BY <1>6, <1>8 DEF WholeCall, Named, Changed, New
    <3> QED
      BY <1>1, <1>2, <2>2, <3>1, <3>2 DEF LiveInv, Calling, Split
  <2> QED
    BY <1>8, <2>1, <2>2 DEF WholeCall
<1>9. CASE PartCall(c)
  <2>1. PICK e \in todo[c] :
          /\ todo'[c] = Rest(c, e)
          /\ \/ /\ ZoneChanged(c, Part(changes[c], e.name))
                /\ \/ pc'[c] = pc[c]
                   \/ pc'[c] = "programmed" /\ pc[c] = "split" /\ todo'[c] = {}
                   \/ pc'[c] = "failed"
             \/ /\ Same \/ ZoneChanged(c, Part(changes[c], e.name))
                /\ pc'[c] \in {"partial", "failed"}
    BY <1>9 DEF PartCall
  <2> DEFINE ch == Part(changes[c], e.name)
  <2>2. ~Benign /\ pc[c] \in Split
    BY <1>7, <1>9 DEF PartCall, RunInv
  <2>3. \A x : Programmed(c, x) => Right(c, x)'
    BY <1>3, <1>4, <1>5, <2>1, <2>2, PartWithin
  <2>4. ASSUME pc'[c] \in {"split", "programmed"}, NEW x \in DOMAIN applied[c]
        PROVE  Right(c, x)' \/ Named(todo'[c], x[2])
    <3>1. ZoneChanged(c, ch) /\ pc[c] = "split"
      BY <2>1, <2>2, <2>4 DEF Split
    <3>2. CASE Right(c, x)
      BY <1>5, <3>1, <3>2, PartWithin
    <3>3. CASE Named(todo[c], x[2])
      <4>1. PICK f \in New(c) : x[2] = Key(f)
        BY <1>6
      <4>2. PICK d \in todo[c] : Key(d) = Key(f)
        BY <3>3, <4>1 DEF Named
      <4>3. d.name = f.name
        BY <4>2 DEF Key
      <4>4. CASE d.name = e.name
        <5>1. f \in Fresh(ch)
          BY <4>3, <4>4, PartWithin DEF New, Fresh
        <5>2. Named(Fresh(ch), x[2])
          BY <4>1, <5>1 DEF Named
        <5> QED
          BY <1>5, <3>1, <5>2, PartWithin
      <4>5. CASE d.name # e.name
        BY <2>1, <4>1, <4>2, <4>5 DEF Named, Rest
      <4> QED
        BY <4>4, <4>5
    <3> QED
      BY <3>1, <3>2, <3>3 DEF LiveInv
  <2>5. /\ pc'[c] \in Split \union {"programmed", "failed"}
        /\ pc'[c] = "programmed" => todo'[c] = {}
    BY <2>1, <2>2 DEF Split
  <2>6. pc'[c] = "programmed" => \A x \in DOMAIN applied[c] : Right(c, x)'
    BY <2>4, <2>5 DEF Named
  <2> QED
    BY <1>1, <1>2, <2>3, <2>4, <2>5, <2>6 DEF LiveInv, Calling, Split
<1> QED
  BY <1>1, <1>8, <1>9

LEMMA StepLive ==
  ASSUME OneSpelling, NEW c \in Controllers, Shapes, RunInv(c), LiveInv(c),
         AllWritten, Step(c)
  PROVE  LiveInv(c)'
<1>0. world' = world /\ (Benign' <=> Benign)
  BY OtherSteps DEF Benign, Single
<1>1. CASE ReadRecords(c)
  <2>1. pc[c] = "idle" /\ pc'[c] = "plan" /\ objs' = objs /\ zone' = zone /\ maker' = maker
    BY <1>1 DEF ReadRecords, Shapes
  <2>2. \A x : ~Leaving(c, x) /\ (Programmed(c, x)' => Programmed(c, x)) /\ (Right(c, x) => Right(c, x)')
    BY <1>0, <2>1, StillRight DEF Leaving, Programmed
  <2> QED
    BY <2>1, <2>2 DEF LiveInv, Calling, Split
<1>2. CASE PlanChanges(c)
  <2>1. pc[c] = "plan" /\ objs' = objs /\ zone' = zone /\ maker' = maker
    BY <1>2 DEF PlanChanges
  <2>2. \A x : ~Leaving(c, x) /\ (Programmed(c, x)' => Programmed(c, x)) /\ (Right(c, x) => Right(c, x)')
    BY <1>0, <2>1, StillRight DEF Leaving, Programmed
  <2>3. \A x : Programmed(c, x)' => Right(c, x)'
    BY <2>1, <2>2 DEF LiveInv
  <2>4. \/ pc'[c] = "idle"
        \/ pc'[c] = "write" /\ \A e \in New(c)' : e \in todo'[c]
    BY <1>2, PlanCases DEF New
  <2> QED
    BY <2>3, <2>4 DEF LiveInv, Calling, Split
<1>3. CASE WriteFails(c)
  BY <1>3 DEF WriteFails, AllWritten
<1>4. CASE WriteObject(c)
  <2>1. pc[c] = "write" /\ pc'[c] = "write" /\ changes' = changes /\ zone' = zone /\ maker' = maker
    BY <1>4 DEF WriteObject
  <2>2. New(c)' = New(c) /\ \A e : Obj(c, e)' = Obj(c, e)
    BY <2>1 DEF New, Obj
  <2>3. \A x : Programmed(c, x)' => Programmed(c, x) /\ ~Leaving(c, x)
    BY <1>4, <2>1, WriteProgrammed DEF Leaving
  <2>4. PICK e \in todo[c] :
           /\ todo' = [todo EXCEPT ![c] = @ \ {e}]
           /\ \/ /\ \A y : y \in DOMAIN objs' <=> y \in DOMAIN objs \/ y = Obj(c, e)
                 /\ \A y \in DOMAIN objs : y # Obj(c, e) => objs'[y] = objs[y]
                 /\ \A y : y \in DOMAIN applied'[c] <=> y \in DOMAIN applied[c] \/ y = Obj(c, e)
              \/ Obj(c, e) \notin DOMAIN objs /\ UNCHANGED <<objs, applied>>
    BY <1>4, WriteParts
  <2>5. todo'[c] = todo[c] \ {e}
    BY <2>4 DEF Shapes
  <2>6. ASSUME NEW x, Programmed(c, x)'
        PROVE  Right(c, x)' \/ x \in DOMAIN applied'[c]
    <3>1. Right(c, x) \/ x \in DOMAIN applied[c]
      BY <2>3, <2>6 DEF LiveInv
    <3>2. x \in DOMAIN objs
      BY <2>3, <2>6 DEF Programmed
    <3>3. CASE x = Obj(c, e)
      BY <2>4, <3>2, <3>3
    <3>4. CASE x # Obj(c, e)
      <4>1. objs'[x] = objs[x] /\ (x \in DOMAIN applied[c] => x \in DOMAIN applied'[c])
        BY <2>4, <3>2, <3>4
      <4>2. Right(c, x) => Right(c, x)'
        BY <1>0, <2>1, <4>1, StillRight
      <4> QED
        BY <3>1, <4>1, <4>2
    <3> QED
      BY <3>3, <3>4
  <2>7. ASSUME NEW f \in New(c), Obj(c, f) \in DOMAIN objs'
        PROVE  Obj(c, f) \in DOMAIN applied'[c] \/ f \in todo'[c]
    <3>1. CASE Obj(c, f) = Obj(c, e)
      BY <2>4, <2>7, <3>1
    <3>2. CASE Obj(c, f) # Obj(c, e)
      <4>1. Obj(c, f) \in DOMAIN applied[c] \/ f \in todo[c]
        BY <2>1, <2>4, <2>7, <3>2 DEF LiveInv
      <4>2. f # e
        BY <3>2
      <4> QED
        BY <2>4, <2>5, <4>1, <4>2
    <3> QED
      BY <3>1, <3>2
  <2> QED
    BY <2>1, <2>2, <2>6, <2>7 DEF LiveInv, Calling, Split
<1>5. CASE SetAccepted(c) \/ SetFailed(c)
  <2>1. PICK reason : SetStatus(c, reason) /\ reason # "Programmed"
    BY <1>5 DEF SetAccepted, SetFailed
  <2>2. /\ \/ pc[c] = "write" /\ todo[c] = {} /\ pc'[c] = "apply"
           \/ pc[c] = "failed" /\ pc'[c] = "error"
        /\ changes' = changes /\ zone' = zone /\ maker' = maker
    BY <1>5 DEF SetAccepted, SetFailed, Shapes
  <2>3. PICK lost : StatusSet(c, reason, lost)
    BY <2>1, StatusParts
  <2>4. lost = {}
    BY <2>3 DEF StatusSet, AllWritten
  <2>5. \A x \in DOMAIN applied[c] : x \in DOMAIN objs
    BY DEF RunInv
  <2>6. \A x \in DOMAIN applied[c] : ~Programmed(c, x)'
    BY <2>1, <2>3, <2>4, <2>5 DEF StatusSet, Programmed
  <2>7. \A x : Programmed(c, x)' => Programmed(c, x) /\ ~Leaving(c, x)
    BY <2>1, <2>2, StatusProgrammed DEF Leaving
  <2>8. \A x \in DOMAIN objs : Right(c, x) => Right(c, x)'
    BY <1>0, <2>2, <2>3, StillRight DEF StatusSet
  <2>9. ASSUME NEW x, Programmed(c, x)'
        PROVE  Right(c, x)'
    <3>1. Programmed(c, x) /\ x \in DOMAIN objs /\ x \notin DOMAIN applied[c]
      BY <2>6, <2>7, <2>9 DEF Programmed
    <3>2. Right(c, x)
      BY <2>7, <2>9, <3>1 DEF LiveInv
    <3> QED
      BY <2>8, <3>1, <3>2
  <2>10. /\ DOMAIN applied'[c] = DOMAIN applied[c] /\ DOMAIN objs' = DOMAIN objs
    BY <2>3 DEF StatusSet
  <2>11. New(c)' = New(c) /\ \A e : Obj(c, e)' = Obj(c, e)
    BY <2>2 DEF New, Obj
  <2>12. pc'[c] = "apply" => \A e \in New(c) : Obj(c, e) \in DOMAIN objs => Obj(c, e) \in DOMAIN applied[c]
    BY <2>2 DEF LiveInv
  <2> QED
    BY <2>2, <2>6, <2>9, <2>10, <2>11, <2>12 DEF LiveInv, Calling, Split
<1>6. CASE SetProgrammed(c)
  <2>1. /\ pc[c] = "programmed" /\ pc'[c] = "delete" /\ todo'[c] = changes[c].delete
        /\ zone' = zone /\ maker' = maker /\ SetStatus(c, "Programmed")
    BY <1>6 DEF SetProgrammed, Shapes
  <2>2. PICK lost : StatusSet(c, "Programmed", lost)
    BY <2>1, StatusParts
  <2>3. \A x \in DOMAIN objs : Right(c, x) => Right(c, x)'
    BY <1>0, <2>1, <2>2, StillRight DEF StatusSet
  <2>4. \A x : Leaving(c, x) => Leaving(c, x)'
    BY <2>1 DEF Leaving
  <2>5. ASSUME NEW x, Programmed(c, x)'
        PROVE  Right(c, x)' \/ Leaving(c, x)'
    <3>1. x \in DOMAIN objs
      BY <2>2, <2>5 DEF StatusSet, Programmed
    <3>2. Programmed(c, x) \/ x \in DOMAIN applied[c]
      BY <2>1, <2>5, StatusProgrammed
    <3>3. Right(c, x) \/ Leaving(c, x)
      BY <2>1, <3>2 DEF LiveInv
    <3> QED
      BY <2>3, <2>4, <3>1, <3>3
  <2> QED
    BY <2>1, <2>5 DEF LiveInv, Calling, Split
<1>7. CASE Calls(c)
  BY <1>7, CallsLive
<1>8. CASE DeleteObject(c)
  <2>1. pc[c] = "delete" /\ pc'[c] = "delete" /\ zone' = zone /\ maker' = maker
    BY <1>8 DEF DeleteObject
  <2>2. \A x : Programmed(c, x)' => /\ Programmed(c, x)
                                    /\ Named(todo[c], x[2]) => Named(todo'[c], x[2])
    BY <1>8, DeleteProgrammed
  <2>3. \A x \in DOMAIN objs' : objs'[x] = objs[x]
    BY <1>8, DeleteParts
  <2>4. ASSUME NEW x, Programmed(c, x)'
        PROVE  Right(c, x)' \/ Leaving(c, x)'
    <3>1. Right(c, x) \/ Leaving(c, x)
      BY <2>1, <2>2, <2>4 DEF LiveInv
    <3>2. Leaving(c, x) => Leaving(c, x)'
      BY <2>1, <2>2, <2>4 DEF Leaving
    <3>3. Right(c, x) => Right(c, x)'
      BY <1>0, <2>1, <2>3, <2>4, StillRight DEF Programmed
    <3> QED
      BY <3>1, <3>2, <3>3
  <2> QED
    BY <2>1, <2>4 DEF LiveInv, Calling, Split
<1>9. CASE Finish(c)
  <2>1. /\ pc[c] = "error" \/ (pc[c] = "delete" /\ todo[c] = {})
        /\ pc'[c] = "idle" /\ objs' = objs /\ zone' = zone /\ maker' = maker
    BY <1>9 DEF Finish, Return, Shapes
  <2>2. \A x : /\ ~Leaving(c, x) /\ (Programmed(c, x)' => Programmed(c, x))
               /\ Right(c, x) => Right(c, x)'
    BY <1>0, <2>1, StillRight DEF Leaving, Programmed, Named
  <2>3. \A x : Programmed(c, x)' => Right(c, x)'
    BY <2>1, <2>2 DEF LiveInv
  <2> QED
    BY <2>1, <2>3 DEF LiveInv, Calling, Split
<1> QED
  BY <1>1, <1>2, <1>3, <1>4, <1>5, <1>6, <1>7, <1>8, <1>9 DEF Step, Calls

(* Other processes leave the records alone that Programmed objects         *)
(* describe, and those just written.                                       *)
LEMMA OthersLive ==
  ASSUME OwnNamespaces, OwnIDs, NEW c \in Controllers, Shapes, RunInv(c), Step(c), Frame(c),
         NEW d \in Controllers \ {c}, RunInv(d), LiveInv(d),
         Benign => Undisturbed /\ OwnInv(c) /\ OwnInv(d)
  PROVE  LiveInv(d)'
<1>1. /\ pc'[d] = pc[d] /\ changes'[d] = changes[d] /\ todo'[d] = todo[d]
      /\ applied'[d] = applied[d] /\ (Benign' <=> Benign)
  BY DEF Frame, Benign, Single
<1>2. Namespace[d] # Namespace[c] /\ OwnID(d) # OwnID(c)
  BY DEF OwnNamespaces, OwnIDs
<1>3. /\ \A x \in DOMAIN objs : x[1] = Namespace[d] => x \in DOMAIN objs' /\ objs'[x] = objs[x]
      /\ \A x \in DOMAIN objs' : x[1] = Namespace[d] => x \in DOMAIN objs
  BY <1>2 DEF Frame
<1>4. ASSUME NEW x, x \in DOMAIN objs, x[1] = Namespace[d], Right(d, x), Benign => Wrote(d, x[2])
      PROVE  Right(d, x)'
  <2>1. objs'[x] = objs[x]
    BY <1>3, <1>4
  <2>2. CASE Benign
    <3>1. x[2] \in DOMAIN zone /\ ~Wrote(c, x[2]) /\ Live(x)
      BY <1>2, <1>4, <2>2 DEF Wrote, Right
    <3>2. x[2] \in DOMAIN zone' /\ zone'[x[2]] = zone[x[2]]
      BY <2>2, <3>1, ForeignUntouched
    <3> QED
      BY <2>1, <3>1, <3>2 DEF Live, Right
  <2>3. CASE Same
    BY <1>1, <1>4, <2>1, <2>3 DEF Same, Right, Live, Wrote
  <2>4. ASSUME NEW ch, ZoneChanged(c, ch), ~Benign
        PROVE  Right(d, x)'
    <3>1. CASE x[2] \notin DOMAIN zone'
      BY <1>1, <2>4, <3>1 DEF Right, Wrote
    <3>2. CASE x[2] \in DOMAIN zone' /\ Named(Fresh(ch), x[2])
      <4>1. maker'[x[2]] = OwnID(c)
        BY <2>4, <3>2 DEF ZoneChanged
      <4>2. ~Wrote(d, x[2])'
        BY <1>2, <4>1 DEF Wrote, OwnID
      <4> QED
        BY <1>1, <2>4, <4>2 DEF Right
    <3>3. CASE x[2] \in DOMAIN zone' /\ ~Named(Fresh(ch), x[2])
      <4>1. x[2] \in DOMAIN zone /\ zone'[x[2]] = zone[x[2]] /\ maker'[x[2]] = maker[x[2]]
        BY <2>4, <3>3 DEF ZoneChanged
      <4> QED
        BY <1>1, <1>4, <2>1, <3>3, <4>1 DEF Right, Live, Wrote
    <3> QED
      BY <3>1, <3>2, <3>3
  <2> QED
    BY <2>2, <2>3, <2>4, StepCarries DEF Carried
<1>5. ASSUME NEW x, Programmed(d, x)'
      PROVE  Programmed(d, x) /\ x \in DOMAIN objs /\ x[1] = Namespace[d]
  <2>1. x \in DOMAIN objs' /\ x[1] = Namespace[d]
    BY <1>5 DEF Programmed
  <2>2. x \in DOMAIN objs /\ objs'[x] = objs[x]
    BY <1>3, <2>1
  <2> QED
    BY <1>5, <2>1, <2>2 DEF Programmed, OwnID
<1>6. \A x : Leaving(d, x) => Leaving(d, x)'
  BY <1>1 DEF Leaving
<1>7. ASSUME NEW x, Programmed(d, x)'
      PROVE  Right(d, x)' \/ Leaving(d, x)' \/ (pc'[d] = "write" /\ x \in DOMAIN applied'[d])
  <2>1. Benign => Wrote(d, x[2]) \/ Leaving(d, x)
    BY <1>5, <1>7 DEF OwnInv
  <2>2. Right(d, x) \/ Leaving(d, x) \/ (pc[d] = "write" /\ x \in DOMAIN applied[d])
    BY <1>5, <1>7 DEF LiveInv
  <2> QED
    BY <1>1, <1>4, <1>5, <1>6, <1>7, <2>1, <2>2
<1>8. New(d)' = New(d) /\ \A e : Obj(d, e)' = Obj(d, e) /\ Obj(d, e)[1] = Namespace[d]
  BY <1>1, ObjParts DEF New, Obj
<1>9. pc[d] \in Calling \union {"programmed"} => \A x \in DOMAIN applied'[d] : ~Programmed(d, x)'
  BY <1>1, <1>5 DEF LiveInv
<1>10. pc[d] \in Calling \union {"write"} =>
         \A e \in New(d) : Obj(d, e) \in DOMAIN objs' =>
           Obj(d, e) \in DOMAIN applied'[d] \/ (pc[d] = "write" /\ e \in todo'[d])
  <2>1. \A e : Obj(d, e) \in DOMAIN objs' => Obj(d, e) \in DOMAIN objs
    BY <1>3, <1>8
  <2> QED
    BY <1>1, <2>1 DEF LiveInv
<1>11. ASSUME NEW x \in DOMAIN applied[d], Right(d, x), pc[d] = "programmed" \/ ~Benign
       PROVE  Right(d, x)'
  <2>1. PICK e \in New(d) : x = Obj(d, e) /\ x \in DOMAIN objs
    BY DEF RunInv
  <2>2. x[1] = Namespace[d] /\ x[2] = Key(e)
    BY <2>1, ObjParts
  <2>3. Benign => Wrote(d, x[2])
    BY <1>11, <2>1, <2>2 DEF OwnInv
  <2> QED
    BY <1>4, <1>11, <2>1, <2>2, <2>3
<1>12. pc[d] = "split" => ~Benign
  BY DEF RunInv, Split, Benign, Single
<1> QED
  BY <1>1, <1>7, <1>8, <1>9, <1>10, <1>11, <1>12 DEF LiveInv, Calling, Split

(* If objects and statuses get written and nobody is killed, a Programmed  *)
(* object describes the record of its process, although plans are made     *)
(* from objects and never from the zone.                                   *)
AllLive == AllWritten => \A c \in Controllers : Runs(c) => LiveInv(c)

LEMMA NextLive ==
  ASSUME OneSpelling, OwnNamespaces, OwnIDs, BasicInv, OwnRecordsInv, AllLive, [Next]_vars
  PROVE  AllLive'
<1>0. Shapes /\ \A c \in Controllers : RunInv(c)
  BY DEF BasicInv
<1>1. CASE UNCHANGED vars \/ \E c \in Controllers : InformerSyncs(c) \/ SourceChanges(c)
  <2>1. UNCHANGED <<zone, maker, made, world, objs>> /\ UNCHANGED <<pc, view, changes, todo, applied>>
    BY <1>0, <1>1, QuietBasic DEF Quiet, procVars
  <2>2. \A c \in Controllers : LiveInv(c) => LiveInv(c)'
    BY <2>1 DEF LiveInv, Programmed, Leaving, Live, Right, Wrote, Benign, Single, New, Obj,
                Calling, Split
  <2>3. (AllWritten' => AllWritten) /\ \A c \in Controllers : Runs(c)' => Runs(c)
    BY <2>1 DEF AllWritten, Runs
  <2> QED
    BY <2>2, <2>3 DEF AllLive
<1>2. ASSUME NEW c \in Controllers, Runs(c), Step(c) \/ Crash(c)
      PROVE  AllLive'
  <2>1. world' = world
    BY <1>2, OtherSteps
  <2>2. (AllWritten' => AllWritten) /\ \A d \in Controllers : Runs(d)' => Runs(d)
    BY <2>1 DEF AllWritten, Runs
  <2> SUFFICES ASSUME AllWritten, NEW d \in Controllers, Runs(d)
               PROVE  LiveInv(d)'
    BY <2>2 DEF AllLive
  <2>3. LiveInv(c) /\ LiveInv(d)
    BY <1>2 DEF AllLive
  <2>4. Step(c)
    BY <1>2 DEF Crash, AllWritten
  <2>6. CASE d = c
    BY <1>0, <2>3, <2>4, <2>6, StepLive
  <2>7. CASE d # c
    <3>1. "alone" \notin world
      BY <1>2, <2>7 DEF Runs
    <3>2. Benign => Undisturbed
      BY <3>1 DEF Benign, Single, Undisturbed
    <3>3. Benign => OwnInv(c) /\ OwnInv(d)
      BY <3>2 DEF OwnRecordsInv
    <3>4. Frame(c)
      BY <1>0, <2>4, StepBasic
    <3> QED
      BY <1>0, <2>3, <2>4, <2>7, <3>2, <3>3, <3>4, OthersLive
  <2> QED
    BY <2>6, <2>7
<1> QED
  BY <1>1, <1>2, NextRuns

(* What "Programmed (Ready=True)" of docs/registry/crd.md is worth between *)
(* the runs: the record that a process has under the name of a Programmed  *)
(* object is as the object says, through failed and partly applied         *)
(* batches; and where batches are applied as a whole, no answer is lost,   *)
(* and the process is alone or nobody replaces records, there is one.      *)
THEOREM CRDProgrammedIsLive ==
  ASSUME OneSpelling, OwnNamespaces, OwnIDs
  PROVE  Spec => []ProgrammedIsLive
<1>1. Init => BasicInv /\ OwnRecordsInv /\ AllLive
  <2> SUFFICES ASSUME Init
               PROVE  AllLive
    BY BasicInvHolds, OwnRecordsStart
  <2>1. DOMAIN objs = {} /\ \A c \in Controllers : pc[c] = "idle"
    BY DEF Init
  <2> QED
    BY <2>1 DEF AllLive, LiveInv, Programmed, Calling, Split
<1>2. BasicInv /\ OwnRecordsInv /\ AllLive /\ [Next]_vars => BasicInv' /\ OwnRecordsInv' /\ AllLive'
  BY BasicInvHolds, NextOwn, NextLive
<1>3. AllLive => ProgrammedIsLive
  <2> SUFFICES ASSUME AllLive, AllWritten, NEW c \in Controllers, Runs(c), pc[c] \in {"idle", "plan"},
                      NEW x, Programmed(c, x)
               PROVE  Right(c, x)
    BY DEF ProgrammedIsLive, Programmed, Live, Right, AllWritten
  <2>1. ~Leaving(c, x)
    BY DEF Leaving
  <2> QED
    BY <2>1 DEF LiveInv, AllLive
<1> QED
  BY <1>1, <1>2, <1>3, PTL DEF Spec
=============================================================================
