--------------------------- MODULE DynamoDBProofs ---------------------------
(***************************************************************************)
(* The DynamoDB registry, for any number of processes, sources, batch      *)
(* sizes and failures, with a provider that may apply parts of a batch:    *)
(*  - the cached labels are the claims of their owner, and are not nil     *)
(*    when a plan is made (LabelsExact);                                   *)
(*  - a claim is changed and removed by its owner only (ClaimsKept);       *)
(*  - in a zone without ownership TXT records of the TXT registry, a       *)
(*    process changes the records it has claimed only (RecordsClaimed),    *)
(*    and the processes implement Ownership.tla (OwnershipKept).           *)
(*                                                                         *)
(* The labels, the cached records and the table differ while ApplyChanges  *)
(* is under way; the invariants say by what: the statements that are still *)
(* to be executed and the records that are to be deleted.                  *)
(***************************************************************************)
EXTENDS DynamoDBRegistry, PlanProofs

(* Every process has an owner id of its own.                               *)
OwnIDs == \A c, d \in Controllers : OwnID(c) = OwnID(d) => c = d

(* The sources want no TXT records, which could be taken for those of the  *)
(* TXT registry, and do not use the internal mark for migration.           *)
PlainSources ==
  \A c \in Controllers : \A s \in SourceLists[c] : \A i \in DOMAIN s :
    s[i].type # "TXT" /\ Migrate \notin s[i].ps

(* The zone does not come from the TXT registry.                           *)
FreshZone == \A z \in InitialZones : \A k \in DOMAIN z : k[3] # "TXT"

-----------------------------------------------------------------------------
Own(c) == Claims(OwnID(c))

(* Endpoints that belong to an owner by other means than the table.        *)
Marked(e) == e.type = "TXT" \/ Migrate \in e.ps

Pending(c, k) == \E s \in stmts[c] : s.op = "INSERT" /\ s.k = k

(* What is known of a set of endpoints that Records has returned, or that  *)
(* a fresh cache holds.                                                    *)
Known(c, e) ==
  /\ Key(e) \notin orphaned[c]
  /\ e.owner = OwnID(c) /\ ~Marked(e) =>
       /\ Key(e) \in Own(c) \/ Pending(c, Key(e))
       /\ labels[c].read => Key(e) \in DOMAIN labels[c].map /\ labels[c].map[Key(e)] = e.res
  /\ e.owner = OwnID(c) /\ Migrate \in e.ps /\ labels[c].read =>
       Key(e) \notin DOMAIN labels[c].map
Live(c, E) == UniqueKeys(E) /\ \A e \in E : Known(c, e)

ViewInv(c) ==
  /\ cache[c].fresh => cache[c].filled
  /\ pc[c] # "idle" \/ cache[c].fresh => labels[c].read
  /\ pc[c] = "plan" => Live(c, view[c]) /\ (cache[c].fresh => cache[c].eps = view[c])
  /\ cache[c].fresh => Live(c, cache[c].eps)
  /\ pc[c] \in {"claim", "apply"} /\ cache[c].fresh =>
       /\ changes[c].create \subseteq cache[c].eps
       /\ \A e \in cache[c].eps : Key(e) \notin Keys(changes[c].delete)
  /\ pc[c] = "cleanup" /\ cache[c].fresh =>
       \A e \in cache[c].eps : \A s \in stmts[c] : s.k # Key(e)

(* The entry of the table that a label stands for is there, or on its way. *)
Backed(c, k) ==
  \/ \E s \in stmts[c] : s.op # "DELETE" /\ s.k = k /\ s.l = labels[c].map[k]
  \/ /\ k \in Own(c) /\ table[k].l = labels[c].map[k]
     /\ \A s \in stmts[c] : s.k # k

(* A claim that is about to be removed.                                    *)
Leaving(c, k) ==
  \/ pc[c] \in {"claim", "apply"} /\ k \in Keys(changes[c].delete)
  \/ pc[c] = "cleanup" /\ \E s \in stmts[c] : s.k = k

LabelInv(c) ==
  labels[c].read =>
    /\ \A k \in DOMAIN labels[c].map : Backed(c, k)
    /\ pc[c] \in {"claim", "apply"} =>
         \A k \in DOMAIN labels[c].map : k \notin Keys(changes[c].delete)
    /\ \A k \in Own(c) : k \in DOMAIN labels[c].map \/ Leaving(c, k)
    /\ \A k \in Own(c) : ~Pending(c, k)

StatementInv(c) ==
  /\ pc[c] \notin {"claim", "cleanup"} => stmts[c] = {}
  /\ \A s, t \in stmts[c] : s.k = t.k => s = t
  /\ pc[c] = "claim" =>
       \A s \in stmts[c] :
         /\ labels[c].read /\ s.k \in DOMAIN labels[c].map
         /\ s.op = "INSERT" \/ (s.op = "UPDATE" /\ s.k \in Own(c))
  /\ pc[c] = "cleanup" => \A s \in stmts[c] : s.op = "DELETE"

ChangeInv(c) ==
  pc[c] \in {"claim", "apply"} =>
    /\ UniqueKeys(changes[c].create \union changes[c].updateNew)
    /\ \A e \in changes[c].create \union changes[c].updateNew :
         /\ Key(e) \in Own(c) \/ Pending(c, Key(e))
         /\ Key(e) \notin orphaned[c] \union Keys(changes[c].delete)
    /\ changes[c].create \intersect changes[c].updateNew = {}
    /\ \A e \in changes[c].delete : Marked(e) \/ Key(e) \in Own(c)

ProcInv(c) == ViewInv(c) /\ LabelInv(c) /\ StatementInv(c) /\ ChangeInv(c)

ClaimInv == \A c \in Controllers : ProcInv(c)

ZoneInv == \A k \in DOMAIN zone : k = <<k[1], k[2], k[3]>> /\ Migrate \notin zone[k].ps

(* Without TXT records of the TXT registry nothing is marked.              *)
FreshInv ==
  /\ \A k \in DOMAIN zone : k[3] # "TXT"
  /\ \A c \in Controllers :
       /\ \A e \in view[c] \union changes[c].create \union changes[c].updateNew
                   \union changes[c].delete : ~Marked(e)
       /\ cache[c].fresh => \A e \in cache[c].eps : ~Marked(e)

(* A record that is not claimed has been there before and is seen by all;  *)
(* the records whose claims are to be removed are gone.                    *)
Free == Promised \ DOMAIN table
Held(c) ==
  /\ \A k \in Free : /\ pc[c] = "plan" => k \in Keys(view[c])
                     /\ cache[c].fresh => k \in Keys(cache[c].eps)
                     /\ ~Pending(c, k)
  /\ \A k \in Own(c) \intersect Promised :
       /\ pc[c] \in {"plan", "claim", "apply"} \/ (pc[c] = "idle" /\ cache[c].fresh) =>
            k \notin orphaned[c]
       /\ pc[c] = "cleanup" => \A s \in stmts[c] : s.k # k
  /\ pc[c] = "cleanup" => orphaned[c] = {}
  /\ pc[c] = "apply" =>
       \A e \in changes[c].delete :
         e.name \in parts[c].done => Key(e) \notin Own(c) \intersect Promised
HeldInv == \A c \in Controllers : Held(c)

-----------------------------------------------------------------------------
(* Domains and types.                                                      *)
Fields == {"create", "updateOld", "updateNew", "delete"}
TableShape ==
  \A k \in DOMAIN table : /\ table[k].o \in {OwnID(c) : c \in Controllers}
                          /\ DOMAIN table[k] = {"o", "l"}
Shapes ==
  /\ TableShape
  /\ \A c \in Controllers : src[c] \in SourceLists[c]
  /\ DOMAIN src = Controllers
  /\ pc \in [Controllers -> {"idle", "plan", "claim", "apply", "cleanup"}]
  /\ DOMAIN view = Controllers /\ DOMAIN orphaned = Controllers /\ DOMAIN stmts = Controllers
  /\ DOMAIN labels = Controllers /\ DOMAIN cache = Controllers /\ DOMAIN changes = Controllers
  /\ DOMAIN parts = Controllers
  /\ \A c \in Controllers : /\ DOMAIN labels[c] = {"read", "map"}
                            /\ DOMAIN cache[c] = {"filled", "fresh", "eps"}
                            /\ DOMAIN changes[c] = Fields

(* The labels are a map; no parts of a batch are known before it is        *)
(* submitted.                                                              *)
IsMap(f) == f = [x \in DOMAIN f |-> f[x]]
Tidy(c) == IsMap(labels[c].map) /\ (pc[c] # "apply" => parts[c] = Whole)
TidyInv == \A c \in Controllers : Tidy(c)

(* A step of c leaves the other processes as they are.                     *)
OthersSame(c) ==
  \A d \in Controllers \ {c} :
    /\ pc'[d] = pc[d] /\ view'[d] = view[d] /\ labels'[d] = labels[d]
    /\ orphaned'[d] = orphaned[d] /\ cache'[d] = cache[d]
    /\ changes'[d] = changes[d] /\ stmts'[d] = stmts[d] /\ parts'[d] = parts[d]

(* What a process may do to the table.                                     *)
TableStep(c) ==
  /\ \A k \in DOMAIN table \ Own(c) : k \in DOMAIN table' /\ table'[k] = table[k]
  /\ \A k \in DOMAIN table' : k \notin DOMAIN table \/ k \in Own(c) => table'[k].o = OwnID(c)

LEMMA ClaimsStay ==
  ASSUME OwnIDs, NEW c \in Controllers, TableStep(c), NEW d \in Controllers \ {c}
  PROVE  Own(d)' = Own(d) /\ \A k \in Own(d) : table'[k] = table[k]
<1>1. OwnID(d) # OwnID(c)
  BY DEF OwnIDs
<1>2. \A k \in Own(d) : k \in DOMAIN table \ Own(c)
  BY <1>1 DEF Own, Claims
<1>3. \A k \in Own(d) : k \in DOMAIN table' /\ table'[k] = table[k]
  BY <1>2 DEF TableStep
<1>4. Own(d)' = {k \in DOMAIN table' : table'[k].o = OwnID(d)}
  BY DEF Own, Claims, OwnID
<1>5. \A k \in Own(d) : k \in Own(d)'
  BY <1>3, <1>4 DEF Own, Claims
<1>6. \A k \in Own(d)' : k \in Own(d)
  BY <1>1, <1>4 DEF TableStep, Own, Claims
<1> QED
  BY <1>3, <1>5, <1>6

(* What is known of a process stays true while others make their steps.    *)
LEMMA SameInv ==
  ASSUME NEW d \in Controllers, ProcInv(d),
         Own(d)' = Own(d), \A k \in Own(d) : table'[k] = table[k],
         pc'[d] = pc[d], view'[d] = view[d], labels'[d] = labels[d],
         orphaned'[d] = orphaned[d], cache'[d] = cache[d],
         changes'[d] = changes[d], stmts'[d] = stmts[d]
  PROVE  ProcInv(d)'
<1>3. \A k : Pending(d, k)' <=> Pending(d, k)
  BY DEF Pending
<1>4. \A e : Known(d, e)' <=> Known(d, e)
  BY <1>3 DEF Known, OwnID
<1>5. \A E : Live(d, E) => \A e \in E : Known(d, e)'
  BY <1>4 DEF Live
<1>6. ViewInv(d)'
  BY <1>5 DEF ProcInv, ViewInv, Live
<1>7. \A k : Backed(d, k)' <=> Backed(d, k)
  BY DEF Backed
<1>8. \A k : Leaving(d, k)' <=> Leaving(d, k)
  BY DEF Leaving
<1>9. LabelInv(d)'
  BY <1>3, <1>7, <1>8 DEF ProcInv, LabelInv
<1>10. StatementInv(d)'
  BY DEF ProcInv, StatementInv
<1>11. ChangeInv(d)'
  BY <1>3 DEF ProcInv, ChangeInv
<1> QED
  BY <1>6, <1>9, <1>10, <1>11 DEF ProcInv

LEMMA OthersInv ==
  ASSUME OwnIDs, NEW c \in Controllers, TableStep(c), OthersSame(c),
         NEW d \in Controllers \ {c}, ProcInv(d)
  PROVE  ProcInv(d)'
  BY ClaimsStay, SameInv DEF OthersSame

-----------------------------------------------------------------------------
(* executeStatements.                                                      *)
LEMMA ExecuteParts ==
  ASSUME Shapes, NEW C, NEW o \in {OwnID(c) : c \in Controllers}, Execute(C, o),
         \A s, t \in C : s.k = t.k => s = t,
         \A s \in C : s.op = "UPDATE" => s.k \in Claims(o)
  PROVE  /\ TableShape'
         /\ \A k \in DOMAIN table \ Claims(o) : k \in DOMAIN table' /\ table'[k] = table[k]
         /\ \A k \in DOMAIN table' : k \notin DOMAIN table \/ k \in Claims(o) => table'[k].o = o
         /\ \A k \in Claims(o) : (\A s \in C : s.k # k) => k \in DOMAIN table' /\ table'[k] = table[k]
         /\ \A s \in C : s.op = "INSERT" /\ s.k \notin DOMAIN table =>
              s.k \in DOMAIN table' /\ table'[s.k].o = o /\ table'[s.k].l = s.l
         /\ \A s \in C : s.op = "UPDATE" =>
              s.k \in DOMAIN table' /\ table'[s.k].o = o /\ table'[s.k].l = s.l
         /\ \A k \in DOMAIN table : (\A s \in C : s.k = k => s.op # "DELETE") => k \in DOMAIN table'
         /\ \A s \in C : s.op = "DELETE" /\ s.k \in Claims(o) => s.k \notin DOMAIN table'
         /\ \A k \in DOMAIN table' : k \notin DOMAIN table => \E s \in C : s.op = "INSERT" /\ s.k = k
<1> DEFINE ins == {s.k : s \in Inserted(C)}
           upd == {s.k : s \in Updated(C)}
           del == {s.k : s \in Deleted(C, o)}
           new(k) == (CHOOSE s \in C : s.k = k).l
<1>1. table' = [k \in (DOMAIN table \union ins) \ del |->
        IF k \in ins THEN [o |-> o, l |-> new(k)]
        ELSE IF k \in upd THEN [table[k] EXCEPT !.l = new(k)] ELSE table[k]]
  BY DEF Execute
<1>2. \A s \in C : new(s.k) = s.l
  <2> TAKE s \in C
  <2>1. (CHOOSE t \in C : t.k = s.k) = s
    OBVIOUS
  <2> QED
    BY <2>1
<1>3. /\ \A k \in ins : \E s \in C : s.op = "INSERT" /\ s.k = k /\ k \notin DOMAIN table
      /\ \A s \in C : s.op = "INSERT" /\ s.k \notin DOMAIN table => s.k \in ins
  <2>1. \A s : s \in Inserted(C) <=> s \in C /\ s.op = "INSERT" /\ s.k \notin DOMAIN table
    BY DEF Inserted
  <2> QED
    BY <2>1, Zenon
<1>4. /\ \A k \in upd : \E s \in C : s.op = "UPDATE" /\ s.k = k /\ k \in Claims(o)
      /\ \A s \in C : s.op = "UPDATE" => s.k \in upd
  <2>1. \A s \in C : s.op = "UPDATE" => s.k \in Claims(o) /\ s.k \in DOMAIN table
    BY DEF Claims
  <2>2. \A s : s \in Updated(C) <=> s \in C /\ s.op = "UPDATE"
    BY <2>1 DEF Updated
  <2> QED
    BY <2>1, <2>2, Zenon
<1>5. /\ \A k \in del : \E s \in C : s.op = "DELETE" /\ s.k = k /\ k \in Claims(o)
      /\ \A s \in C : s.op = "DELETE" /\ s.k \in Claims(o) => s.k \in del
  <2>1. \A s : s \in Deleted(C, o) <=> s \in C /\ s.op = "DELETE" /\ s.k \in Claims(o)
    BY DEF Deleted
  <2> QED
    BY <2>1, Zenon
<1>6. \A k \in DOMAIN table : /\ table[k].o \in {OwnID(c) : c \in Controllers}
                              /\ DOMAIN table[k] = {"o", "l"}
  BY DEF Shapes, TableShape
<1>7. \A k \in upd : /\ [table[k] EXCEPT !.l = new(k)].o = o
                     /\ [table[k] EXCEPT !.l = new(k)].l = new(k)
                     /\ DOMAIN [table[k] EXCEPT !.l = new(k)] = {"o", "l"}
  <2> TAKE k \in upd
  <2>1. table[k].o = o /\ DOMAIN table[k] = {"o", "l"}
    BY <1>4, <1>6 DEF Claims
  <2> HIDE DEF new, upd
  <2> QED
    BY <2>1
<1> HIDE DEF ins, upd, del, new
<1>8. DOMAIN table' = (DOMAIN table \union ins) \ del
  BY <1>1
<1>9. \A k \in DOMAIN table' :
        /\ k \in ins \union upd => /\ table'[k].o = o /\ table'[k].l = new(k)
                                   /\ DOMAIN table'[k] = {"o", "l"}
        /\ k \notin ins \union upd => table'[k] = table[k]
  <2> TAKE k \in DOMAIN table'
  <2>1. CASE k \in ins
    <3>1. table'[k] = [o |-> o, l |-> new(k)]
      BY <1>1, <2>1
    <3> QED
      BY <2>1, <3>1
  <2>2. CASE k \in upd \ ins
    <3>1. table'[k] = [table[k] EXCEPT !.l = new(k)]
      BY <1>1, <2>2
    <3> QED
      BY <1>7, <2>2, <3>1
  <2>3. CASE k \notin ins \union upd
    BY <1>1, <2>3
  <2> QED
    BY <2>1, <2>2, <2>3
<1>11. TableShape'
  <2> SUFFICES ASSUME NEW k \in DOMAIN table'
               PROVE  /\ table'[k].o \in {OwnID(c) : c \in Controllers}
                      /\ DOMAIN table'[k] = {"o", "l"}
    BY DEF TableShape, OwnID
  <2>1. CASE k \in ins \union upd
    BY <1>9, <2>1
  <2>2. CASE k \notin ins \union upd
    BY <1>6, <1>8, <1>9, <2>2
  <2> QED
    BY <2>1, <2>2
<1>b. /\ Claims(o) \subseteq DOMAIN table
      /\ \A k \in Claims(o) : table[k].o = o
      /\ \A k \in DOMAIN table' :
           /\ k \in ins \union upd => table'[k].o = o /\ table'[k].l = new(k)
           /\ k \notin ins \union upd => table'[k] = table[k]
  BY <1>9 DEF Claims
<1>12. \A k \in DOMAIN table \ Claims(o) : k \in DOMAIN table' /\ table'[k] = table[k]
  BY <1>3, <1>4, <1>5, <1>8, <1>b
<1>13. \A k \in DOMAIN table' : k \notin DOMAIN table \/ k \in Claims(o) => table'[k].o = o
  BY <1>8, <1>b
<1>14. \A k \in Claims(o) : (\A s \in C : s.k # k) => k \in DOMAIN table' /\ table'[k] = table[k]
  <2> SUFFICES ASSUME NEW k \in Claims(o), \A s \in C : s.k # k
               PROVE  k \in DOMAIN table' /\ table'[k] = table[k]
    OBVIOUS
  <2>1. k \notin ins \union upd \union del
    BY <1>3, <1>4, <1>5, Zenon
  <2> QED
    BY <2>1, <1>8, <1>b
<1>15. \A s \in C : s.op = "INSERT" /\ s.k \notin DOMAIN table =>
         s.k \in DOMAIN table' /\ table'[s.k].o = o /\ table'[s.k].l = s.l
  <2> SUFFICES ASSUME NEW s \in C, s.op = "INSERT", s.k \notin DOMAIN table
               PROVE  s.k \in DOMAIN table' /\ table'[s.k].o = o /\ table'[s.k].l = s.l
    OBVIOUS
  <2>1. s.k \in ins /\ s.k \notin del /\ new(s.k) = s.l
    BY <1>2, <1>3, <1>5, <1>b
  <2> QED
    BY <2>1, <1>8, <1>b
<1>16. \A s \in C : s.op = "UPDATE" =>
         s.k \in DOMAIN table' /\ table'[s.k].o = o /\ table'[s.k].l = s.l
  <2> SUFFICES ASSUME NEW s \in C, s.op = "UPDATE"
               PROVE  s.k \in DOMAIN table' /\ table'[s.k].o = o /\ table'[s.k].l = s.l
    OBVIOUS
  <2>1. s.k \in upd /\ s.k \in Claims(o) /\ new(s.k) = s.l
    BY <1>2, <1>4
  <2>2. ASSUME s.k \in del PROVE FALSE
    <3>1. PICK t \in C : t.op = "DELETE" /\ t.k = s.k
      BY <1>5, <2>2
    <3> QED
      BY <3>1
  <2> QED
    BY <2>1, <2>2, <1>8, <1>b
<1>17. \A k \in DOMAIN table : (\A s \in C : s.k = k => s.op # "DELETE") => k \in DOMAIN table'
  BY <1>5, <1>8
<1>18. \A s \in C : s.op = "DELETE" /\ s.k \in Claims(o) => s.k \notin DOMAIN table'
  BY <1>5, <1>8
<1>19. \A k \in DOMAIN table' : k \notin DOMAIN table => \E s \in C : s.op = "INSERT" /\ s.k = k
  BY <1>3, <1>8
<1> QED
  BY <1>11, <1>12, <1>13, <1>14, <1>15, <1>16, <1>17, <1>18, <1>19

-----------------------------------------------------------------------------
(* The steps that do not write the table.                                  *)
LEMMA SameTable ==
  ASSUME NEW c \in Controllers, UNCHANGED table
  PROVE  TableStep(c) /\ Own(c)' = Own(c)
  BY DEF TableStep, Own, Claims, OwnID

LEMMA ReadLabelsInv ==
  ASSUME NEW c \in Controllers, Shapes, ProcInv(c), ReadLabels(c)
  PROVE  ProcInv(c)'
<1>1. /\ pc'[c] = "idle" /\ stmts[c] = {} /\ stmts'[c] = {} /\ Own(c)' = Own(c)
      /\ ~cache'[c].fresh /\ table' = table
      /\ labels'[c] = [read |-> TRUE, map |-> readLabels(OwnID(c))]
  BY SameTable DEF ReadLabels, Shapes, ProcInv, StatementInv, ViewInv
<1>2. \A k : k \in DOMAIN labels'[c].map <=> k \in Own(c)
  BY <1>1 DEF readLabels, Own
<1>3. \A k \in Own(c) : labels'[c].map[k] = table[k].l
  BY <1>1 DEF readLabels, Own
<1>4. \A k \in DOMAIN labels'[c].map : Backed(c, k)'
  BY <1>1, <1>2, <1>3 DEF Backed
<1>5. LabelInv(c)'
  BY <1>1, <1>2, <1>4 DEF LabelInv, Pending
<1> QED
  BY <1>1, <1>5 DEF ProcInv, ViewInv, StatementInv, ChangeInv

(* ApplyChanges ends with an error, or the process starts again.           *)
LEMMA ResetInv ==
  ASSUME NEW c \in Controllers, pc'[c] = "idle", labels'[c] = NilLabels,
         cache'[c] = NoCache, stmts'[c] = {}
  PROVE  ProcInv(c)'
  BY DEF ProcInv, ViewInv, LabelInv, StatementInv, ChangeInv, NilLabels, NoCache

LEMMA ClaimsDoneInv ==
  ASSUME NEW c \in Controllers, Shapes, ProcInv(c), ClaimsDone(c)
  PROVE  ProcInv(c)'
<1>1. /\ pc[c] = "claim" /\ pc'[c] = "apply" /\ stmts[c] = {}
      /\ table' = table /\ view' = view /\ labels' = labels /\ orphaned' = orphaned
      /\ cache' = cache /\ changes' = changes /\ stmts' = stmts
  BY DEF ClaimsDone, Shapes
<1>2. Own(c)' = Own(c)
  BY <1>1, SameTable
<1>3. \A k : Pending(c, k)' <=> Pending(c, k)
  BY <1>1 DEF Pending
<1>4. \A e : Known(c, e)' <=> Known(c, e)
  BY <1>1, <1>2, <1>3 DEF Known, OwnID
<1>5. ViewInv(c)'
  BY <1>1, <1>4 DEF ProcInv, ViewInv, Live
<1>6. \A k : Backed(c, k)' <=> Backed(c, k)
  BY <1>1, <1>2 DEF Backed
<1>7. \A k : Leaving(c, k)' <=> Leaving(c, k)
  BY <1>1 DEF Leaving
<1>8. LabelInv(c)'
  BY <1>1, <1>2, <1>3, <1>6, <1>7 DEF ProcInv, LabelInv
<1>9. StatementInv(c)'
  BY <1>1 DEF StatementInv
<1>10. ChangeInv(c)'
  BY <1>1, <1>2, <1>3 DEF ProcInv, ChangeInv
<1> QED
  BY <1>5, <1>8, <1>9, <1>10 DEF ProcInv

LEMMA CacheExpiresInv ==
  ASSUME NEW c \in Controllers, Shapes, ProcInv(c), CacheExpires(c)
  PROVE  ProcInv(c)'
<1>1. /\ ~cache'[c].fresh /\ pc' = pc
      /\ table' = table /\ view' = view /\ labels' = labels /\ orphaned' = orphaned
      /\ changes' = changes /\ stmts' = stmts
  BY DEF CacheExpires, Shapes
<1>2. Own(c)' = Own(c)
  BY <1>1, SameTable
<1>3. \A k : Pending(c, k)' <=> Pending(c, k)
  BY <1>1 DEF Pending
<1>4. \A e : Known(c, e)' <=> Known(c, e)
  BY <1>1, <1>2, <1>3 DEF Known, OwnID
<1>5. ViewInv(c)'
  BY <1>1, <1>4 DEF ProcInv, ViewInv, Live
<1>6. \A k : Backed(c, k)' <=> Backed(c, k)
  BY <1>1, <1>2 DEF Backed
<1>7. \A k : Leaving(c, k)' <=> Leaving(c, k)
  BY <1>1 DEF Leaving
<1>8. LabelInv(c)'
  BY <1>1, <1>2, <1>3, <1>6, <1>7 DEF ProcInv, LabelInv
<1>9. StatementInv(c)'
  BY <1>1, <1>2 DEF ProcInv, StatementInv
<1>10. ChangeInv(c)'
  BY <1>1, <1>2, <1>3 DEF ProcInv, ChangeInv
<1> QED
  BY <1>5, <1>8, <1>9, <1>10 DEF ProcInv

(* The end of ApplyChanges.                                                *)
LEMMA CleanupDoneInv ==
  ASSUME NEW c \in Controllers, Shapes, ProcInv(c), CleanupDone(c)
  PROVE  ProcInv(c)'
<1>1. /\ pc[c] = "cleanup" /\ pc'[c] = "idle" /\ stmts'[c] = {}
      /\ table' = table /\ view' = view /\ labels' = labels /\ orphaned' = orphaned
      /\ cache' = cache /\ changes' = changes
      /\ stmts[c] = {}
  BY DEF CleanupDone, Shapes
<1>2. Own(c)' = Own(c)
  BY <1>1, SameTable
<1>3. \A k : ~Pending(c, k) /\ ~Pending(c, k)'
  BY <1>1 DEF ProcInv, StatementInv, Pending
<1>4. \A e : Known(c, e) => Known(c, e)'
  BY <1>1, <1>2, <1>3 DEF Known, OwnID
<1>5. ViewInv(c)'
  BY <1>1, <1>4 DEF ProcInv, ViewInv, Live
<1>6. \A k : Backed(c, k) => Backed(c, k)'
  BY <1>1, <1>2 DEF Backed, ProcInv, StatementInv
<1>7. \A k : ~Leaving(c, k)
  BY <1>1 DEF Leaving
<1>8. LabelInv(c)'
  BY <1>1, <1>2, <1>3, <1>6, <1>7 DEF ProcInv, LabelInv
<1> QED
  BY <1>1, <1>5, <1>8 DEF ProcInv, StatementInv, ChangeInv

-----------------------------------------------------------------------------
(* Records.                                                                *)
LEMMA EntryFacts ==
  ASSUME ZoneInv, NEW k \in DOMAIN zone, NEW extra, NEW o, NEW r
  PROVE  /\ Key(Entry(zone, k, extra, o, r)) = k /\ Entry(zone, k, extra, o, r).type = k[3]
         /\ Entry(zone, k, extra, o, r).tgt = zone[k].tgt
         /\ Entry(zone, k, extra, o, r).owner = o /\ Entry(zone, k, extra, o, r).res = r
         /\ Entry(zone, k, extra, o, r).ps = zone[k].ps \union extra
         /\ Migrate \notin zone[k].ps
  BY DEF Entry, Key, ZoneInv

(* What a list of records has to do with the zone and the labels.          *)
Listed(E, own, l) ==
  /\ UniqueKeys(E)
  /\ \A k \in DOMAIN zone : k[3] # "TXT" => k \in Keys(E)
  /\ \A e \in E :
       /\ Key(e) \in DOMAIN zone /\ e.tgt = zone[Key(e)].tgt
       /\ Marked(e) => \E t \in DOMAIN zone : t[3] = "TXT"
       /\ e.owner = own /\ own # "" /\ ~Marked(e) => Key(e) \in DOMAIN l /\ e.res = l[Key(e)]
       /\ Migrate \in e.ps => Key(e) \notin DOMAIN l

LEMMA RecordsParts ==
  ASSUME ZoneInv, NEW own, NEW l
  PROVE  Listed(Records(zone, own, l), own, l)
<1> DEFINE txts == {t \in DOMAIN zone \ DOMAIN l : t[3] = "TXT"}
           found(k) == {t \in txts : TxtLabelKey(t) = RecLabelKey(k)}
           migrated == {k \in DOMAIN zone \ (DOMAIN l \union txts) : found(k) # {}}
           used == UNION {found(k) : k \in migrated}
           from(k) == zone[CHOOSE t \in found(k) : TRUE].tgt
           E1 == {Entry(zone, k, {}, own, l[k]) : k \in DOMAIN zone \intersect DOMAIN l}
           E2 == {Entry(zone, k, {Migrate}, from(k).owner, from(k).res) : k \in migrated}
           E3 == {Entry(zone, k, {}, "", "") : k \in DOMAIN zone \ (DOMAIN l \union txts \union migrated)}
           E4 == {Entry(zone, t, {}, own, "") : t \in txts \ used}
           E == Records(zone, own, l)
<1>1. E = E1 \union E2 \union E3 \union E4
  BY DEF Records
<1>3. \A e \in E1 : \E k \in DOMAIN zone \intersect DOMAIN l : e = Entry(zone, k, {}, own, l[k])
  OBVIOUS
<1>4. \A e \in E2 : \E k \in migrated : e = Entry(zone, k, {Migrate}, from(k).owner, from(k).res)
  OBVIOUS
<1>5. \A e \in E3 : \E k \in DOMAIN zone \ (DOMAIN l \union txts \union migrated) :
                      e = Entry(zone, k, {}, "", "")
  OBVIOUS
<1>6. \A e \in E4 : \E k \in txts \ used : e = Entry(zone, k, {}, own, "")
  OBVIOUS
<1>7. /\ migrated \subseteq DOMAIN zone \ (DOMAIN l \union txts) /\ txts \subseteq DOMAIN zone \ DOMAIN l
      /\ \A k \in migrated : k[3] # "TXT" /\ \E t \in DOMAIN zone : t[3] = "TXT"
      /\ \A t \in txts : t[3] = "TXT"
  OBVIOUS
<1> HIDE DEF found, migrated, used, from, txts, E, E1, E2, E3, E4
<1>8. ASSUME NEW k \in DOMAIN zone, k[3] # "TXT"
      PROVE  \E e \in E : Key(e) = k
  <2>1. CASE k \in DOMAIN l
    <3>1. PICK e : e = Entry(zone, k, {}, own, l[k])
      OBVIOUS
    <3>2. e \in E
      BY <2>1, <3>1, <1>1 DEF E1
    <3>3. Key(e) = k
      BY <3>1, EntryFacts
    <3> QED
      BY <3>2, <3>3
  <2>2. CASE k \in migrated
    <3>1. PICK e : e = Entry(zone, k, {Migrate}, from(k).owner, from(k).res)
      OBVIOUS
    <3>2. e \in E
      BY <2>2, <3>1, <1>1 DEF E2
    <3>3. Key(e) = k
      BY <3>1, EntryFacts
    <3> QED
      BY <3>2, <3>3
  <2>3. CASE k \notin DOMAIN l \union migrated
    <3>1. PICK e : e = Entry(zone, k, {}, "", "")
      OBVIOUS
    <3>2. e \in E
      BY <1>8, <2>3, <3>1, <1>1, <1>7 DEF E3
    <3>3. Key(e) = k
      BY <3>1 DEF Entry, Key, ZoneInv
    <3> QED
      BY <3>2, <3>3
  <2> QED
    BY <2>1, <2>2, <2>3
<1>9. \A e \in E1 : /\ Key(e) \in DOMAIN zone \intersect DOMAIN l /\ e.tgt = zone[Key(e)].tgt
                    /\ e = Entry(zone, Key(e), {}, own, l[Key(e)])
                    /\ e.type = Key(e)[3] /\ Migrate \notin e.ps /\ e.res = l[Key(e)]
  <2> TAKE e \in E1
  <2>1. PICK k \in DOMAIN zone \intersect DOMAIN l : e = Entry(zone, k, {}, own, l[k])
    BY <1>3
  <2>2. /\ Key(e) = k /\ e.type = k[3] /\ e.tgt = zone[k].tgt /\ e.res = l[k]
        /\ e.ps = zone[k].ps \union {} /\ Migrate \notin zone[k].ps
    BY <2>1 DEF Entry, Key, ZoneInv
  <2> QED
    BY <2>1, <2>2
<1>10. \A e \in E2 : /\ Key(e) \in migrated /\ e.tgt = zone[Key(e)].tgt
                     /\ e = Entry(zone, Key(e), {Migrate}, from(Key(e)).owner, from(Key(e)).res)
                     /\ Migrate \in e.ps
  <2> TAKE e \in E2
  <2>1. PICK k \in migrated : e = Entry(zone, k, {Migrate}, from(k).owner, from(k).res)
    BY <1>4
  <2>2. k \in DOMAIN zone
    BY <1>7
  <2>3. Key(e) = k /\ e.tgt = zone[k].tgt /\ e.ps = zone[k].ps \union {Migrate}
    BY <2>1, <2>2, EntryFacts
  <2> QED
    BY <2>1, <2>3
<1>11. \A e \in E3 : /\ Key(e) \in DOMAIN zone \ (DOMAIN l \union txts \union migrated)
                     /\ e.tgt = zone[Key(e)].tgt
                     /\ e = Entry(zone, Key(e), {}, "", "")
                     /\ Migrate \notin e.ps /\ e.owner = "" /\ e.type = Key(e)[3]
  <2> TAKE e \in E3
  <2>1. PICK k \in DOMAIN zone \ (DOMAIN l \union txts \union migrated) : e = Entry(zone, k, {}, "", "")
    BY <1>5
  <2>2. /\ Key(e) = k /\ e.type = k[3] /\ e.tgt = zone[k].tgt /\ e.owner = ""
        /\ e.ps = zone[k].ps \union {} /\ Migrate \notin zone[k].ps
    BY <2>1 DEF Entry, Key, ZoneInv
  <2> QED
    BY <2>1, <2>2
<1>12. \A e \in E4 : /\ Key(e) \in txts \ used /\ e.tgt = zone[Key(e)].tgt
                     /\ e = Entry(zone, Key(e), {}, own, "")
                     /\ Migrate \notin e.ps /\ e.type = "TXT"
  <2> TAKE e \in E4
  <2>1. PICK k \in txts \ used : e = Entry(zone, k, {}, own, "")
    BY <1>6
  <2>2. k \in DOMAIN zone /\ k[3] = "TXT"
    BY <1>7
  <2>3. /\ Key(e) = k /\ e.type = k[3] /\ e.tgt = zone[k].tgt
        /\ e.ps = zone[k].ps \union {} /\ Migrate \notin zone[k].ps
    BY <2>1, <2>2 DEF Entry, Key, ZoneInv
  <2> QED
    BY <2>1, <2>2, <2>3
<1>13. UniqueKeys(E)
  <2> SUFFICES ASSUME NEW d \in E, NEW e \in E, Key(d) = Key(e)
               PROVE  d = e
    BY DEF UniqueKeys
  <2>a. ASSUME NEW x \in E
        PROVE  /\ x \in E1 <=> Key(x) \in DOMAIN l
               /\ x \in E2 <=> Key(x) \in migrated
               /\ x \in E4 <=> Key(x) \in txts
               /\ x \in E3 <=> Key(x) \notin DOMAIN l \union migrated \union txts
    <3>1. x \in E1 => Key(x) \in DOMAIN l
      BY <1>9
    <3>2. x \in E2 => Key(x) \in migrated
      BY <1>10
    <3>3. x \in E3 => Key(x) \notin DOMAIN l \union migrated \union txts
      BY <1>11
    <3>4. x \in E4 => Key(x) \in txts
      BY <1>12
    <3> QED
      BY <1>1, <1>7, <3>1, <3>2, <3>3, <3>4
  <2>1. CASE e \in E1
    <3>1. d \in E1
      BY <2>1, <2>a
    <3> QED
      BY <2>1, <3>1, <1>9
  <2>2. CASE e \in E2
    <3>1. d \in E2
      BY <2>2, <2>a
    <3> QED
      BY <2>2, <3>1, <1>10
  <2>3. CASE e \in E3
    <3>1. d \in E3
      BY <2>3, <2>a
    <3> QED
      BY <2>3, <3>1, <1>11
  <2>4. CASE e \in E4
    <3>1. d \in E4
      BY <2>4, <2>a
    <3> QED
      BY <2>4, <3>1, <1>12
  <2> QED
    BY <1>1, <2>1, <2>2, <2>3, <2>4
<1>14. ASSUME NEW e \in E
       PROVE  /\ Key(e) \in DOMAIN zone /\ e.tgt = zone[Key(e)].tgt
              /\ Marked(e) => \E t \in DOMAIN zone : t[3] = "TXT"
              /\ e.owner = own /\ own # "" /\ ~Marked(e) =>
                       Key(e) \in DOMAIN l /\ e.res = l[Key(e)]
              /\ Migrate \in e.ps => Key(e) \notin DOMAIN l
  <2>1. CASE e \in E1
    BY <2>1, <1>9 DEF Marked
  <2>2. CASE e \in E2
    BY <2>2, <1>7, <1>10 DEF Marked
  <2>3. CASE e \in E3
    BY <2>3, <1>11 DEF Marked
  <2>4. CASE e \in E4
    BY <2>4, <1>7, <1>12 DEF Marked
  <2> QED
    BY <1>1, <2>1, <2>2, <2>3, <2>4
<1>15. \A k \in DOMAIN zone : k[3] # "TXT" => k \in Keys(E)
  BY <1>8 DEF Keys
<1> QED
  BY <1>13, <1>14, <1>15 DEF E, Listed

LEMMA ListRecordsInv ==
  ASSUME NEW c \in Controllers, Shapes, ZoneInv, ProcInv(c), ListRecords(c)
  PROVE  ProcInv(c)'
<1>1. /\ pc[c] = "idle" /\ pc'[c] = "plan" /\ stmts[c] = {} /\ stmts'[c] = {}
      /\ table' = table /\ labels' = labels /\ changes' = changes
  BY DEF ListRecords, Shapes, ProcInv, StatementInv
<1>2. Own(c)' = Own(c)
  BY <1>1, SameTable
<1>3. \A k : ~Pending(c, k) /\ ~Pending(c, k)' /\ ~Leaving(c, k)
  BY <1>1 DEF Pending, Leaving
<1>4. \A k : Backed(c, k) <=> Backed(c, k)'
  BY <1>1, <1>2 DEF Backed
<1>5. LabelInv(c)'
  BY <1>1, <1>2, <1>3, <1>4 DEF ProcInv, LabelInv
<1>6. StatementInv(c)' /\ ChangeInv(c)'
  BY <1>1 DEF StatementInv, ChangeInv
<1>7. Live(c, view[c])' /\ (cache'[c].fresh => cache'[c].filled /\ cache'[c].eps = view'[c])
  <2>1. CASE cache[c].filled /\ cache[c].fresh
    <3>1. view'[c] = cache[c].eps /\ cache' = cache /\ orphaned' = orphaned
      BY <2>1 DEF ListRecords, Shapes
    <3>2. \A e : Known(c, e) => Known(c, e)'
      BY <1>1, <1>2, <1>3, <3>1 DEF Known, OwnID
    <3>3. Live(c, cache[c].eps)
      BY <1>1, <2>1 DEF ProcInv, ViewInv
    <3> QED
      BY <2>1, <3>1, <3>2, <3>3 DEF Live
  <2>2. CASE ~(cache[c].filled /\ cache[c].fresh)
    <3> DEFINE l == labels[c].map
               E == Records(zone, OwnID(c), l)
    <3>1. /\ labels[c].read /\ view'[c] = E /\ orphaned'[c] = DOMAIN l \ DOMAIN zone
          /\ cache'[c] = IF Caching THEN [filled |-> TRUE, fresh |-> TRUE, eps |-> view'[c]]
                                    ELSE NoCache
      BY <2>2 DEF ListRecords, Shapes
    <3>2. OwnID(c) # ""
      BY DynamoDBAssumption DEF OwnID
    <3>3. Listed(E, OwnID(c), l)
      BY RecordsParts
    <3>4. \A k \in DOMAIN l : k \in Own(c)
      BY <1>1, <3>1 DEF ProcInv, LabelInv, Backed
    <3> HIDE DEF E
    <3>5. \A e \in E : Known(c, e)'
      BY <1>1, <1>2, <3>1, <3>2, <3>3, <3>4 DEF Listed, Known, OwnID
    <3>6. Live(c, view[c])'
      BY <3>1, <3>3, <3>5 DEF Listed, Live
    <3> QED
      BY <3>1, <3>6 DEF NoCache
  <2> QED
    BY <2>1, <2>2
<1>8. labels[c].read
  BY DEF ListRecords, ProcInv, ViewInv
<1>9. ViewInv(c)'
  BY <1>1, <1>7, <1>8 DEF ViewInv
<1> QED
  BY <1>5, <1>6, <1>9 DEF ProcInv

-----------------------------------------------------------------------------
(* The statements of a chunk, or of a part of it.                          *)
LEMMA ChunkSubset ==
  ASSUME NEW S, NEW C \in Chunks(S)
  PROVE  C \subseteq S
  BY DEF Chunks

LEMMA ChunkStep ==
  ASSUME NEW c \in Controllers, Shapes, ProcInv(c), pc[c] \in {"claim", "cleanup"},
         NEW C, C \subseteq stmts[c], Execute(C, OwnID(c))
  PROVE  /\ TableStep(c)
         /\ TableShape'
         /\ \A k : k \in Own(c)' <=> k \in DOMAIN table' /\ table'[k].o = OwnID(c)
         /\ \A k \in Own(c) : (\A s \in C : s.k # k) => k \in Own(c)' /\ table'[k] = table[k]
         /\ \A s \in C : s.op = "INSERT" /\ s.k \notin DOMAIN table =>
              s.k \in Own(c)' /\ table'[s.k].l = s.l
         /\ \A s \in C : s.op = "UPDATE" => s.k \in Own(c)' /\ table'[s.k].l = s.l
         /\ \A k \in Own(c) : (\A s \in C : s.k = k => s.op # "DELETE") => k \in Own(c)'
         /\ \A s \in C : s.op = "DELETE" => s.k \notin Own(c)'
         /\ \A k \in Own(c)' : k \notin Own(c) =>
              k \notin DOMAIN table /\ \E s \in C : s.op = "INSERT" /\ s.k = k
<1> DEFINE o == OwnID(c)
<1>1. /\ o \in {OwnID(d) : d \in Controllers}
      /\ \A s, t \in C : s.k = t.k => s = t
      /\ \A s \in C : s.op = "UPDATE" => s.k \in Claims(o)
  <2>1. \A s \in C : s.op = "UPDATE" => s.k \in Claims(o)
    BY DEF ProcInv, StatementInv, Own
  <2> QED
    BY <2>1 DEF Shapes, ProcInv, StatementInv
<1> HIDE DEF o
<1>2. /\ TableShape'
      /\ \A k \in DOMAIN table \ Claims(o) : k \in DOMAIN table' /\ table'[k] = table[k]
      /\ \A k \in DOMAIN table' : k \notin DOMAIN table \/ k \in Claims(o) => table'[k].o = o
      /\ \A k \in Claims(o) : (\A s \in C : s.k # k) => k \in DOMAIN table' /\ table'[k] = table[k]
      /\ \A s \in C : s.op = "INSERT" /\ s.k \notin DOMAIN table =>
           s.k \in DOMAIN table' /\ table'[s.k].o = o /\ table'[s.k].l = s.l
      /\ \A s \in C : s.op = "UPDATE" =>
           s.k \in DOMAIN table' /\ table'[s.k].o = o /\ table'[s.k].l = s.l
      /\ \A k \in DOMAIN table : (\A s \in C : s.k = k => s.op # "DELETE") => k \in DOMAIN table'
      /\ \A s \in C : s.op = "DELETE" /\ s.k \in Claims(o) => s.k \notin DOMAIN table'
      /\ \A k \in DOMAIN table' : k \notin DOMAIN table => \E s \in C : s.op = "INSERT" /\ s.k = k
  <2>1. Execute(C, o)
    BY DEF o
  <2> QED
    BY <1>1, <2>1, ExecuteParts
<1>3. TableStep(c)
  BY <1>2 DEF TableStep, Own, o
<1>4. \A k : k \in Own(c)' <=> k \in DOMAIN table' /\ table'[k].o = o
  BY DEF Own, Claims, OwnID, o
<1>5. \A k : k \in Own(c) <=> k \in Claims(o)
  BY DEF Own, o
<1>6. \A k \in Claims(o) : k \in DOMAIN table /\ table[k].o = o
  BY DEF Claims
<1>7. \A k \in Own(c) : (\A s \in C : s.k # k) => k \in Own(c)' /\ table'[k] = table[k]
  BY <1>2, <1>4, <1>5, <1>6
<1>8. \A s \in C : s.op = "INSERT" /\ s.k \notin DOMAIN table =>
        s.k \in Own(c)' /\ table'[s.k].l = s.l
  BY <1>2, <1>4
<1>9. \A s \in C : s.op = "UPDATE" => s.k \in Own(c)' /\ table'[s.k].l = s.l
  BY <1>2, <1>4
<1>10. \A k \in Own(c) : (\A s \in C : s.k = k => s.op # "DELETE") => k \in Own(c)'
  BY <1>2, <1>4, <1>5, <1>6
<1>11. ASSUME NEW k \in Own(c)', k \notin Own(c)
       PROVE  k \notin DOMAIN table
  <2>1. k \in DOMAIN table' /\ table'[k].o = o
    BY <1>4
  <2> QED
    BY <1>2, <1>5, <1>11, <2>1 DEF Claims
<1>12. \A s \in C : s.op = "DELETE" => s.k \notin Own(c)'
  <2> SUFFICES ASSUME NEW s \in C, s.op = "DELETE", s.k \in Own(c)'
               PROVE  FALSE
    OBVIOUS
  <2>1. CASE s.k \in Own(c)
    BY <2>1, <1>2, <1>4, <1>5
  <2>2. CASE s.k \notin Own(c)
    <3>1. s.k \notin DOMAIN table /\ s.k \in DOMAIN table'
      BY <2>2, <1>4, <1>11
    <3>2. PICK t \in C : t.op = "INSERT" /\ t.k = s.k
      BY <3>1, <1>2
    <3> QED
      BY <3>2, <1>1
  <2> QED
    BY <2>1, <2>2
<1>13. \A k \in Own(c)' : k \notin Own(c) => \E s \in C : s.op = "INSERT" /\ s.k = k
  BY <1>2, <1>4, <1>11
<1> QED
  BY <1>2, <1>3, <1>4, <1>7, <1>8, <1>9, <1>10, <1>11, <1>12, <1>13 DEF o

(* The last phase only deletes, and never a claim that is still needed.    *)
LEMMA CleanupTable ==
  ASSUME NEW c \in Controllers, Shapes, ProcInv(c), pc[c] = "cleanup",
         NEW C, C \subseteq stmts[c], Execute(C, OwnID(c))
  PROVE  /\ Own(c)' = {k \in Own(c) : \A s \in C : s.k # k}
         /\ \A k \in Own(c)' : table'[k] = table[k]
<1>1. \A s \in stmts[c] : s.op = "DELETE"
  BY DEF ProcInv, StatementInv
<1>2. \A s \in C : s.op = "DELETE"
  BY <1>1
<1>3. /\ \A k \in Own(c) : (\A s \in C : s.k # k) => k \in Own(c)' /\ table'[k] = table[k]
      /\ \A s \in C : s.op = "DELETE" => s.k \notin Own(c)'
      /\ \A k \in Own(c)' : k \notin Own(c) => \E s \in C : s.op = "INSERT" /\ s.k = k
  BY ChunkStep
<1> QED
  BY <1>2, <1>3

LEMMA CleanupChunkInv ==
  ASSUME NEW c \in Controllers, Shapes, ProcInv(c), CleanupChunk(c)
  PROVE  ProcInv(c)' /\ TableStep(c)
<1>1. PICK C \in Chunks(stmts[c]) :
        Execute(C, OwnID(c)) /\ stmts' = [stmts EXCEPT ![c] = @ \ C]
  BY DEF CleanupChunk
<1>2. /\ pc[c] = "cleanup" /\ pc'[c] = "cleanup" /\ stmts'[c] = stmts[c] \ C
      /\ view' = view /\ labels' = labels /\ orphaned' = orphaned /\ cache' = cache
      /\ changes' = changes
  BY <1>1 DEF CleanupChunk, Shapes
<1>3. C \subseteq stmts[c]
  BY ChunkSubset
<1>4. /\ Own(c)' = {k \in Own(c) : \A s \in C : s.k # k}
      /\ \A k \in Own(c)' : table'[k] = table[k]
  BY <1>1, <1>2, <1>3, CleanupTable
<1>5. TableStep(c)
  BY <1>1, <1>2, <1>3, ChunkStep
<1>6. /\ \A s \in stmts[c] : s.op = "DELETE"
      /\ \A s, t \in stmts[c] : s.k = t.k => s = t
  BY <1>2 DEF ProcInv, StatementInv
<1>7. \A k : ~Pending(c, k) /\ ~Pending(c, k)'
  BY <1>2, <1>6 DEF Pending
<1>8. \A e : Known(c, e) /\ (\A s \in stmts[c] : s.k # Key(e)) => Known(c, e)'
  BY <1>2, <1>3, <1>4, <1>7 DEF Known, OwnID
<1>9. ViewInv(c)'
  BY <1>2, <1>8 DEF ProcInv, ViewInv, Live
<1>10. \A k : Backed(c, k) => Backed(c, k)'
  BY <1>2, <1>3, <1>4, <1>6 DEF Backed
<1>11. \A k \in Own(c)' : Leaving(c, k) => Leaving(c, k)'
  BY <1>2, <1>4 DEF Leaving
<1>12. \A k \in Own(c)' : k \in Own(c)
  BY <1>4
<1>13. LabelInv(c)'
  BY <1>2, <1>7, <1>10, <1>11, <1>12 DEF ProcInv, LabelInv
<1>14. StatementInv(c)'
  BY <1>2, <1>6 DEF StatementInv
<1> QED
  BY <1>2, <1>5, <1>9, <1>13, <1>14 DEF ProcInv, ChangeInv

-----------------------------------------------------------------------------
(* The provider has applied the changes.                                   *)
LEMMA SucceedInv ==
  ASSUME NEW c \in Controllers, Shapes, ProcInv(c), pc[c] = "apply", Succeed(c),
         UNCHANGED <<table, view>>
  PROVE  ProcInv(c)'
<1> DEFINE gone == Keys(changes[c].delete) \union orphaned[c]
<1>1. /\ pc[c] = "apply" /\ pc'[c] = "cleanup" /\ stmts[c] = {}
      /\ table' = table /\ view' = view /\ cache' = cache
      /\ stmts'[c] = {Delete(k) : k \in gone}
      /\ labels'[c].read = labels[c].read
      /\ labels'[c].map = Without(labels[c].map, orphaned[c])
      /\ orphaned'[c] = {}
  BY DEF Succeed, CleanupStatements, Shapes, ProcInv, StatementInv
<1>2. Own(c)' = Own(c)
  BY <1>1, SameTable
<1>3. \A s \in stmts'[c] : s.op = "DELETE" /\ s.k \in gone /\ s = Delete(s.k)
  <2> TAKE s \in stmts'[c]
  <2>1. PICK k \in gone : s = Delete(k)
    BY <1>1
  <2>2. s.op = "DELETE" /\ s.k = k
    BY <2>1 DEF Delete
  <2> QED
    BY <2>1, <2>2
<1>4. \A k \in gone : Delete(k) \in stmts'[c] /\ Delete(k).k = k
  BY <1>1 DEF Delete
<1>5. /\ \A k : k \in DOMAIN labels'[c].map <=> k \in DOMAIN labels[c].map /\ k \notin orphaned[c]
      /\ \A k \in DOMAIN labels'[c].map : labels'[c].map[k] = labels[c].map[k]
  BY <1>1 DEF Without
<1>6. \A k : ~Pending(c, k) /\ ~Pending(c, k)'
  BY <1>1, <1>3 DEF Pending
<1> HIDE DEF gone
<1>7. \A e : Known(c, e) => Known(c, e)'
  BY <1>1, <1>2, <1>5, <1>6 DEF Known, OwnID
<1>8. ASSUME cache[c].fresh, NEW e \in cache[c].eps, NEW s \in stmts'[c]
      PROVE  s.k # Key(e)
  <2>1. Key(e) \notin Keys(changes[c].delete) /\ Key(e) \notin orphaned[c]
    BY <1>1, <1>8 DEF ProcInv, ViewInv, Live, Known
  <2> QED
    BY <1>3, <2>1 DEF gone
<1>9. ViewInv(c)'
  BY <1>1, <1>7, <1>8 DEF ProcInv, ViewInv, Live
<1>10. ASSUME labels[c].read, NEW k \in DOMAIN labels'[c].map
       PROVE  Backed(c, k)'
  <2>1. /\ k \in DOMAIN labels[c].map /\ k \notin gone
        /\ k \in Own(c) /\ table[k].l = labels[c].map[k]
    BY <1>1, <1>5, <1>10 DEF ProcInv, LabelInv, Backed, gone
  <2> QED
    BY <1>1, <1>2, <1>3, <1>5, <2>1 DEF Backed
<1>11. ASSUME labels[c].read, NEW k \in Own(c)
       PROVE  k \in DOMAIN labels'[c].map \/ Leaving(c, k)'
  <2>1. k \in DOMAIN labels[c].map \/ k \in Keys(changes[c].delete)
    BY <1>1, <1>11 DEF ProcInv, LabelInv, Leaving
  <2>2. k \in gone => Leaving(c, k)'
    BY <1>1, <1>4 DEF Leaving
  <2> QED
    BY <1>5, <2>1, <2>2 DEF gone
<1>12. LabelInv(c)'
  BY <1>1, <1>2, <1>6, <1>10, <1>11 DEF LabelInv
<1>13. StatementInv(c)'
  BY <1>1, <1>3 DEF StatementInv
<1> QED
  BY <1>1, <1>9, <1>12, <1>13 DEF ProcInv, ChangeInv

-----------------------------------------------------------------------------
(* A chunk of claims.                                                      *)
LEMMA ClaimChunkInv ==
  ASSUME NEW c \in Controllers, Shapes, ProcInv(c), ClaimChunk(c)
  PROVE  ProcInv(c)' /\ TableStep(c)
<1>1. PICK C \in Chunks(stmts[c]) :
        /\ Refused(C) \subseteq Keys(changes[c].create)
        /\ Execute(C, OwnID(c)) /\ DropRefused(c, C)
        /\ stmts' = [stmts EXCEPT ![c] = @ \ C]
  BY DEF ClaimChunk
<1> DEFINE R == Refused(C)
           lost == {e \in changes[c].create : Key(e) \in R}
           l == labels[c].map
<1>2. /\ pc[c] = "claim" /\ pc'[c] = "claim" /\ stmts'[c] = stmts[c] \ C
      /\ view' = view /\ orphaned' = orphaned
  BY <1>1 DEF ClaimChunk, Shapes
<1>3. /\ changes'[c].create = changes[c].create \ lost
      /\ changes'[c].updateNew = changes[c].updateNew /\ changes'[c].delete = changes[c].delete
      /\ labels'[c].read = labels[c].read /\ labels'[c].map = Without(l, R)
      /\ cache'[c].eps = RemoveFromCache(cache[c].eps, lost)
      /\ cache'[c].filled = cache[c].filled /\ cache'[c].fresh = cache[c].fresh
  BY <1>1 DEF DropRefused, Shapes, Fields
<1>4. C \subseteq stmts[c]
  BY ChunkSubset
<1>5. /\ \A s, t \in stmts[c] : s.k = t.k => s = t
      /\ \A s \in stmts[c] : /\ labels[c].read /\ s.k \in DOMAIN l
                             /\ s.op = "INSERT" \/ (s.op = "UPDATE" /\ s.k \in Own(c))
  BY <1>2 DEF ProcInv, StatementInv
<1>6. \A k : k \in R <=> \E s \in C : s.op = "INSERT" /\ s.k = k /\ k \in DOMAIN table
  <2>1. R = {s.k : s \in {d \in C : d.op = "INSERT" /\ d.k \in DOMAIN table}}
    BY DEF Refused
  <2> HIDE DEF R
  <2> QED
    BY <2>1, Zenon
<1>7. /\ \A k : k \in DOMAIN labels'[c].map <=> k \in DOMAIN l /\ k \notin R
      /\ \A k \in DOMAIN labels'[c].map : labels'[c].map[k] = l[k]
  BY <1>3 DEF Without
<1> HIDE DEF R, lost, l
<1>8. /\ TableStep(c)
      /\ \A k \in Own(c) : (\A s \in C : s.k # k) => k \in Own(c)' /\ table'[k] = table[k]
      /\ \A s \in C : s.op = "INSERT" /\ s.k \notin DOMAIN table =>
           s.k \in Own(c)' /\ table'[s.k].l = s.l
      /\ \A s \in C : s.op = "UPDATE" => s.k \in Own(c)' /\ table'[s.k].l = s.l
      /\ \A k \in Own(c) : (\A s \in C : s.k = k => s.op # "DELETE") => k \in Own(c)'
      /\ \A k \in Own(c)' : k \notin Own(c) =>
           k \notin DOMAIN table /\ \E s \in C : s.op = "INSERT" /\ s.k = k
  BY <1>1, <1>2, <1>4, ChunkStep
<1>9. \A k \in Own(c) : k \in Own(c)'
  <2> TAKE k \in Own(c)
  <2>1. \A s \in C : s.op # "DELETE"
    BY <1>4, <1>5
  <2> QED
    BY <1>8, <2>1
(* A claim that is not refused is made, or still to be made.               *)
<1>10. \A k : k \notin R /\ (k \in Own(c) \/ Pending(c, k)) => k \in Own(c)' \/ Pending(c, k)'
  <2> SUFFICES ASSUME NEW k, k \notin R, Pending(c, k)
               PROVE  k \in Own(c)' \/ Pending(c, k)'
    BY <1>9
  <2>1. PICK s \in stmts[c] : s.op = "INSERT" /\ s.k = k
    BY DEF Pending
  <2>2. CASE s \in C
    BY <1>6, <1>8, <2>1, <2>2
  <2>3. CASE s \notin C
    BY <1>2, <2>1, <2>3 DEF Pending
  <2> QED
    BY <2>2, <2>3
<1>11. ChangeInv(c)
  BY DEF ProcInv
<1>12. /\ UniqueKeys(changes[c].create \union changes[c].updateNew)
       /\ changes[c].create \intersect changes[c].updateNew = {}
       /\ \A e \in changes[c].create \union changes[c].updateNew :
            /\ Key(e) \in Own(c) \/ Pending(c, Key(e))
            /\ Key(e) \notin orphaned[c] \union Keys(changes[c].delete)
       /\ \A e \in changes[c].delete : Marked(e) \/ Key(e) \in Own(c)
  BY <1>2, <1>11 DEF ChangeInv
<1>13. \A k \in R : \E d \in changes[c].create : Key(d) = k
  BY <1>1 DEF R, Keys
<1>14. \A e \in changes'[c].create \union changes[c].updateNew :
         e \in changes[c].create \union changes[c].updateNew /\ Key(e) \notin R
  <2> TAKE e \in changes'[c].create \union changes[c].updateNew
  <2>1. CASE e \in changes'[c].create
    BY <1>3, <2>1 DEF lost
  <2>2. CASE e \in changes[c].updateNew
    BY <1>12, <1>13, <2>2 DEF UniqueKeys
  <2> QED
    BY <2>1, <2>2
<1>15. ChangeInv(c)'
  <2>1. \A e \in changes'[c].create \union changes[c].updateNew :
          /\ Key(e) \in Own(c)' \/ Pending(c, Key(e))'
          /\ Key(e) \notin orphaned[c] \union Keys(changes[c].delete)
    BY <1>10, <1>12, <1>14
  <2>2. UniqueKeys(changes'[c].create \union changes[c].updateNew)
    BY <1>12, <1>14 DEF UniqueKeys
  <2>3. changes'[c].create \intersect changes[c].updateNew = {}
    BY <1>3, <1>12
  <2>4. \A e \in changes[c].delete : Marked(e) \/ Key(e) \in Own(c)'
    BY <1>9, <1>12
  <2> QED
    BY <1>2, <1>3, <2>1, <2>2, <2>3, <2>4 DEF ChangeInv
<1>16. ASSUME cache[c].fresh
       PROVE  /\ cache[c].filled /\ Live(c, cache[c].eps)'
              /\ changes'[c].create \subseteq cache'[c].eps
              /\ \A e \in cache'[c].eps : Key(e) \notin Keys(changes[c].delete)
  <2>1. /\ cache[c].filled /\ UniqueKeys(cache[c].eps) /\ \A e \in cache[c].eps : Known(c, e)
        /\ changes[c].create \subseteq cache[c].eps
        /\ \A e \in cache[c].eps : Key(e) \notin Keys(changes[c].delete)
    BY <1>2, <1>16 DEF ProcInv, ViewInv, Live
  <2>2. \A e : e \in cache'[c].eps <=>
          e \in cache[c].eps /\ \A d \in lost : Key(d) # Key(e) \/ d.tgt # e.tgt
    BY <1>3 DEF RemoveFromCache
  <2>3. \A e \in cache'[c].eps : Key(e) \notin R
    BY <1>13, <2>1, <2>2 DEF UniqueKeys, lost
  <2>4. \A e \in cache'[c].eps : Known(c, e)'
    <3> TAKE e \in cache'[c].eps
    <3>1. Known(c, e) /\ Key(e) \notin R
      BY <2>1, <2>2, <2>3
    <3>2. Key(e) \in Own(c) \/ Pending(c, Key(e)) => Key(e) \in Own(c)' \/ Pending(c, Key(e))'
      BY <1>10, <3>1
    <3> QED
      BY <1>2, <1>3, <1>7, <3>1, <3>2 DEF Known, OwnID, l
  <2>5. UniqueKeys(cache'[c].eps)
    BY <2>1, <2>2 DEF UniqueKeys
  <2>6. changes'[c].create \subseteq cache'[c].eps
    BY <1>3, <1>14, <2>1, <2>2 DEF lost
  <2> QED
    BY <2>1, <2>2, <2>4, <2>5, <2>6 DEF Live
<1>17. ViewInv(c)'
  <2>1. labels[c].read
    BY <1>2 DEF ProcInv, ViewInv
  <2> QED
    BY <1>2, <1>3, <1>16, <2>1 DEF ViewInv
<1>18. ASSUME labels[c].read, NEW k \in DOMAIN labels'[c].map
       PROVE  Backed(c, k)'
  <2>1. Backed(c, k) /\ k \in DOMAIN l /\ k \notin R /\ labels'[c].map[k] = l[k]
    BY <1>7, <1>18 DEF ProcInv, LabelInv, l
  <2>2. ASSUME NEW s \in stmts[c], s.op # "DELETE", s.k = k, s.l = l[k]
        PROVE  Backed(c, k)'
    <3>1. CASE s \notin C
      BY <1>2, <2>1, <2>2, <3>1 DEF Backed
    <3>2. CASE s \in C
      <4>1. k \in Own(c)' /\ table'[k].l = s.l
        BY <1>5, <1>6, <1>8, <2>1, <2>2, <3>2
      <4>2. \A t \in stmts'[c] : t.k # k
        BY <1>2, <1>5, <2>2, <3>2
      <4> QED
        BY <2>1, <2>2, <4>1, <4>2 DEF Backed
    <3> QED
      BY <3>1, <3>2
  <2>3. ASSUME k \in Own(c), table[k].l = l[k], \A s \in stmts[c] : s.k # k
        PROVE  Backed(c, k)'
    <3>1. k \in Own(c)' /\ table'[k] = table[k]
      BY <1>4, <1>8, <2>3
    <3> QED
      BY <1>2, <2>1, <2>3, <3>1 DEF Backed
  <2> QED
    BY <2>1, <2>2, <2>3 DEF Backed, l
<1>19. ASSUME labels[c].read, NEW k \in Own(c)'
       PROVE  (k \in DOMAIN labels'[c].map \/ Leaving(c, k)') /\ ~Pending(c, k)'
  <2>1. CASE k \in Own(c)
    <3>1. (k \in DOMAIN l \/ Leaving(c, k)) /\ ~Pending(c, k)
      BY <1>19, <2>1 DEF ProcInv, LabelInv, l
    <3>2. k \notin R
      BY <1>4, <1>6, <3>1 DEF Pending
    <3>3. ~Pending(c, k)'
      BY <1>2, <3>1 DEF Pending
    <3>4. Leaving(c, k) => Leaving(c, k)'
      BY <1>2, <1>3 DEF Leaving
    <3> QED
      BY <1>7, <3>1, <3>2, <3>3, <3>4
  <2>2. CASE k \notin Own(c)
    <3>1. PICK s \in C : s.op = "INSERT" /\ s.k = k /\ k \notin DOMAIN table
      BY <1>8, <2>2
    <3>2. k \in DOMAIN l /\ k \notin R
      BY <1>4, <1>5, <1>6, <3>1
    <3>3. ~Pending(c, k)'
      BY <1>2, <1>4, <1>5, <3>1 DEF Pending
    <3> QED
      BY <1>7, <3>2, <3>3
  <2> QED
    BY <2>1, <2>2
<1>20. LabelInv(c)'
  <2>1. labels[c].read => \A k \in DOMAIN labels'[c].map : k \notin Keys(changes[c].delete)
    BY <1>2, <1>7 DEF ProcInv, LabelInv, l
  <2> QED
    BY <1>2, <1>3, <1>18, <1>19, <2>1 DEF LabelInv
<1>21. StatementInv(c)'
  <2>1. \A s \in stmts'[c] : s \in stmts[c] /\ s.k \notin R
    BY <1>2, <1>4, <1>5, <1>6
  <2> QED
    BY <1>2, <1>3, <1>5, <1>7, <1>9, <2>1 DEF StatementInv
<1> QED
  BY <1>8, <1>15, <1>17, <1>20, <1>21 DEF ProcInv

-----------------------------------------------------------------------------
(* The statements that claim the records of a plan.                        *)
Inserts(ch, l) ==
  {e \in ch.create : Key(e) \notin DOMAIN l}
    \union {e \in ch.updateNew : Key(e) \in Migrating(ch)}
Updates(ch, l) ==
  {e \in ch.create : Key(e) \in DOMAIN l /\ l[Key(e)] # e.res}
    \union {e \in ch.updateNew :
              /\ Key(e) \notin Migrating(ch)
              /\ \A old \in ch.updateOld : Key(old) = Key(e) => old.res # e.res}

LEMMA StatementParts ==
  ASSUME NEW ch, NEW l
  PROVE  /\ \A e \in Inserts(ch, l) :
              \E s \in ClaimStatements(ch, l) : s.op = "INSERT" /\ s.k = Key(e) /\ s.l = e.res
         /\ \A e \in Updates(ch, l) :
              \E s \in ClaimStatements(ch, l) : s.op = "UPDATE" /\ s.k = Key(e) /\ s.l = e.res
         /\ \A s \in ClaimStatements(ch, l) :
              \/ \E e \in Inserts(ch, l) : s = Insert(Key(e), e.res)
              \/ \E e \in Updates(ch, l) : s = Update(Key(e), e.res)
         /\ \A k, r : /\ Insert(k, r).op = "INSERT" /\ Insert(k, r).k = k /\ Insert(k, r).l = r
                      /\ Update(k, r).op = "UPDATE" /\ Update(k, r).k = k /\ Update(k, r).l = r
<1> DEFINE S == ClaimStatements(ch, l)
<1>1. \A k, r : /\ Insert(k, r).op = "INSERT" /\ Insert(k, r).k = k /\ Insert(k, r).l = r
                /\ Update(k, r).op = "UPDATE" /\ Update(k, r).k = k /\ Update(k, r).l = r
  BY DEF Insert, Update
<1>2. \A e \in Inserts(ch, l) : Insert(Key(e), e.res) \in S
  BY DEF Inserts, ClaimStatements
<1>3. \A e \in Updates(ch, l) : Update(Key(e), e.res) \in S
  BY DEF Updates, ClaimStatements
<1>4. \A s \in S : \/ \E e \in Inserts(ch, l) : s = Insert(Key(e), e.res)
                   \/ \E e \in Updates(ch, l) : s = Update(Key(e), e.res)
  BY DEF Inserts, Updates, ClaimStatements
<1> HIDE DEF S
<1>5. \A e \in Inserts(ch, l) : \E s \in S : s.op = "INSERT" /\ s.k = Key(e) /\ s.l = e.res
  <2> TAKE e \in Inserts(ch, l)
  <2>1. Insert(Key(e), e.res) \in S
    BY <1>2
  <2> QED
    BY <1>1, <2>1
<1>6. \A e \in Updates(ch, l) : \E s \in S : s.op = "UPDATE" /\ s.k = Key(e) /\ s.l = e.res
  <2> TAKE e \in Updates(ch, l)
  <2>1. Update(Key(e), e.res) \in S
    BY <1>3
  <2> QED
    BY <1>1, <2>1
<1> QED
  BY <1>1, <1>4, <1>5, <1>6 DEF S

(* What is known of the changes a process is about to make to its view.    *)
Planned(c, ch, E) ==
  LET new == ch.create \union ch.updateNew
  IN  /\ UniqueKeys(E) /\ UniqueKeys(new) /\ ch.create \intersect ch.updateNew = {}
      /\ \A x \in new : x.owner = OwnID(c) /\ ~Marked(x)
      /\ \A x \in ch.create : \A e \in E : Key(x) # Key(e)
      /\ \A x \in ch.updateNew : \E old \in ch.updateOld : Key(old) = Key(x)
      /\ \A old \in ch.updateOld : /\ old \in E /\ old.owner = OwnID(c) /\ old.type # "TXT"
                                   /\ \E x \in ch.updateNew : Key(x) = Key(old)
      /\ \A d \in ch.delete : /\ d \in E /\ d.owner = OwnID(c)
                              /\ \A old \in ch.updateOld : Key(old) # Key(d)

LEMMA PlanIsPlanned ==
  ASSUME OneSpelling, PlainSources, Shapes, NEW c \in Controllers, NEW E, UniqueKeys(E),
         NEW ch, ch = [Calculate(Config[c], E, src[c]) EXCEPT !.create = Claimed(Config[c], @)]
  PROVE  Planned(c, ch, E) /\ DOMAIN ch = Fields
<1> DEFINE p == Config[c]
           list == src[c]
           plan == Calculate(p, E, list)
           new == Claimed(p, plan.create)
<1>1. ConfigOK(p) /\ p.ownerID = OwnID(c)
  BY DynamoDBAssumption DEF ConfigOK, OwnID
<1>2. list \in Lists /\ list \in SourceLists[c]
  BY DynamoDBAssumption DEF Lists, Shapes
<1>3. \A i \in DOMAIN list : list[i].type # "TXT" /\ Migrate \notin list[i].ps
  BY <1>2 DEF PlainSources
<1> HIDE DEF list
<1>5. \A x : From(list, x) => ~Marked(x) /\ x.type # "TXT"
  BY <1>3 DEF From, Marked
<1>6. /\ \A x \in new : /\ x.owner = p.ownerID /\ From(list, x)
                        /\ \A e \in E : Key(x) # Key(e)
      /\ \A x \in plan.updateNew : /\ x.owner = p.ownerID /\ From(list, x)
                                   /\ \E old \in plan.updateOld :
                                        Key(old) = Key(x) /\ old.type = x.type
      /\ \A old \in plan.updateOld : /\ old \in E /\ old.owner = p.ownerID
                                     /\ \E x \in plan.updateNew : Key(x) = Key(old)
      /\ \A d \in plan.delete : /\ d \in E /\ d.owner = p.ownerID
                                /\ \A old \in plan.updateOld : Key(old) # Key(d)
      /\ UniqueKeys(new \union plan.updateNew)
  BY <1>1, <1>2, PlanFacts
<1>7. DOMAIN plan = Fields
  BY <1>1, CalculateDomain DEF ConfigOK, Fields
<1>8. ch = [plan EXCEPT !.create = new]
  BY DEF list
<1> HIDE DEF p, plan, new
<1>9. /\ DOMAIN ch = Fields /\ ch.create = new /\ ch.updateOld = plan.updateOld
      /\ ch.updateNew = plan.updateNew /\ ch.delete = plan.delete
  BY <1>7, <1>8 DEF Fields
<1>10. \A old \in ch.updateOld : old.type # "TXT"
  <2> TAKE old \in ch.updateOld
  <2>1. PICK x \in ch.updateNew : Key(x) = Key(old)
    BY <1>6, <1>9
  <2>2. x.type # "TXT" /\ x.type = old.type
    BY <1>5, <1>6, <1>9, <2>1 DEF Key
  <2> QED
    BY <2>2
<1>11. ch.create \intersect ch.updateNew = {}
  BY <1>6, <1>9
<1>12. \A x \in ch.create \union ch.updateNew : x.owner = OwnID(c) /\ ~Marked(x)
  BY <1>1, <1>5, <1>6, <1>9
<1> QED
  BY <1>1, <1>6, <1>9, <1>10, <1>11, <1>12 DEF Planned

(* The process goes on to claim the records of its plan.                   *)
LEMMA PlanStepInv ==
  ASSUME NEW c \in Controllers, Shapes, ProcInv(c), pc[c] = "plan",
         NEW ch, Planned(c, ch, view[c]),
         pc'[c] = "claim", changes'[c] = ch, UNCHANGED table,
         stmts'[c] = ClaimStatements(ch, labels[c].map),
         labels'[c].map = LabelsAfter(ch, labels[c].map), labels'[c].read = labels[c].read,
         orphaned'[c] = orphaned[c] \ Keys(ch.create),
         cache'[c] = CacheAfter(cache[c], ch), DOMAIN cache[c] = {"filled", "fresh", "eps"}
  PROVE  ProcInv(c)'
<1> DEFINE l == labels[c].map
           E == view[c]
           new == ch.create \union ch.updateNew
<1>1. /\ labels[c].read /\ stmts[c] = {} /\ UniqueKeys(E) /\ \A e \in E : Known(c, e)
      /\ cache[c].fresh => cache[c].filled /\ cache[c].eps = E
  BY DEF ProcInv, ViewInv, StatementInv, Live
<1>2. Own(c)' = Own(c)
  BY SameTable
<1>3. labels[c].read => \A k \in DOMAIN l : k \in Own(c) /\ table[k].l = l[k]
  BY <1>1 DEF ProcInv, LabelInv, Backed
<1>4. labels[c].read => \A k \in Own(c) : k \in DOMAIN l
  BY <1>1 DEF ProcInv, LabelInv, Leaving
<1>5. \A e \in E : /\ Key(e) \notin orphaned[c]
                   /\ e.owner = OwnID(c) /\ ~Marked(e) =>
                        /\ Key(e) \in Own(c)
                        /\ labels[c].read => Key(e) \in DOMAIN l /\ l[Key(e)] = e.res
                   /\ e.owner = OwnID(c) /\ Migrate \in e.ps /\ labels[c].read => Key(e) \notin DOMAIN l
  BY <1>1 DEF Known, Pending
<1>6. /\ UniqueKeys(new) /\ ch.create \intersect ch.updateNew = {}
      /\ \A x \in new : x.owner = OwnID(c) /\ ~Marked(x)
      /\ \A x \in ch.create : \A e \in E : Key(x) # Key(e)
      /\ \A x \in ch.updateNew : \E old \in ch.updateOld : Key(old) = Key(x)
      /\ \A old \in ch.updateOld : /\ old \in E /\ old.owner = OwnID(c) /\ old.type # "TXT"
                                   /\ \E x \in ch.updateNew : Key(x) = Key(old)
      /\ \A d \in ch.delete : /\ d \in E /\ d.owner = OwnID(c)
                              /\ \A old \in ch.updateOld : Key(old) # Key(d)
  BY DEF Planned
<1>7. /\ \A x \in Inserts(ch, l) :
           \E s \in stmts'[c] : s.op = "INSERT" /\ s.k = Key(x) /\ s.l = x.res
      /\ \A x \in Updates(ch, l) :
           \E s \in stmts'[c] : s.op = "UPDATE" /\ s.k = Key(x) /\ s.l = x.res
      /\ \A s \in stmts'[c] :
           \/ s.op = "INSERT" /\ \E x \in Inserts(ch, l) : /\ s.k = Key(x) /\ s.l = x.res
                                                           /\ s = Insert(s.k, s.l)
           \/ s.op = "UPDATE" /\ \E x \in Updates(ch, l) : /\ s.k = Key(x) /\ s.l = x.res
                                                           /\ s = Update(s.k, s.l)
  <2>1. /\ \A s \in stmts'[c] : \/ \E x \in Inserts(ch, l) : s = Insert(Key(x), x.res)
                                \/ \E x \in Updates(ch, l) : s = Update(Key(x), x.res)
        /\ \A k, r : /\ Insert(k, r).op = "INSERT" /\ Insert(k, r).k = k /\ Insert(k, r).l = r
                     /\ Update(k, r).op = "UPDATE" /\ Update(k, r).k = k /\ Update(k, r).l = r
    BY StatementParts
  <2>2. /\ \A x \in Inserts(ch, l) :
             \E s \in stmts'[c] : s.op = "INSERT" /\ s.k = Key(x) /\ s.l = x.res
        /\ \A x \in Updates(ch, l) :
             \E s \in stmts'[c] : s.op = "UPDATE" /\ s.k = Key(x) /\ s.l = x.res
    BY StatementParts
  <2> QED
    BY <2>1, <2>2
<1>8. /\ \A k : k \in DOMAIN labels'[c].map <=>
              (k \in DOMAIN l /\ k \notin Keys(ch.delete)) \/ k \in Keys(new)
      /\ \A k \in DOMAIN labels'[c].map : k \notin Keys(new) => labels'[c].map[k] = l[k]
      /\ \A x \in new : labels'[c].map[Key(x)] = x.res
  <2>1. labels'[c].map = [k \in (DOMAIN l \ Keys(ch.delete)) \union Keys(new) |->
           IF k \in Keys(new) THEN (CHOOSE e \in new : Key(e) = k).res ELSE l[k]]
    BY DEF LabelsAfter
  <2> HIDE DEF l, new
  <2>2. ASSUME NEW x \in new
        PROVE  Key(x) \in Keys(new) /\ (CHOOSE e \in new : Key(e) = Key(x)) = x
    BY <1>6 DEF Keys, UniqueKeys
  <2>3. \A x \in new : labels'[c].map[Key(x)] = x.res
    BY <2>1, <2>2
  <2> QED
    BY <2>1, <2>3
<1>9. \A x \in new : labels[c].read /\ Key(x) \in Keys(new)
  BY <1>1 DEF Keys
<1> HIDE DEF l, E, new
(* The keys of the three parts of the plan are different.                  *)
<1>10. \A x \in new : Key(x) \notin Keys(ch.delete)
  <2> SUFFICES ASSUME NEW x \in new, NEW d \in ch.delete, Key(d) = Key(x)
               PROVE  FALSE
    BY DEF Keys
  <2>1. CASE x \in ch.create
    BY <1>6, <2>1
  <2>2. CASE x \in ch.updateNew
    BY <1>6, <2>2
  <2> QED
    BY <2>1, <2>2 DEF new
(* Where a record of the plan gets its claim from.                         *)
<1>11. ASSUME NEW old \in ch.updateOld, Key(old) \notin Migrating(ch)
       PROVE  Key(old) \in Own(c) /\ Key(old) \in DOMAIN l /\ l[Key(old)] = old.res
  <2>1. Migrate \notin old.ps
    BY <1>11 DEF Migrating
  <2>2. old \in E /\ old.owner = OwnID(c) /\ ~Marked(old)
    BY <1>6, <2>1 DEF Marked
  <2>3. labels[c].read
    BY <1>6, <1>9 DEF new
  <2> QED
    BY <1>5, <2>2, <2>3
<1>12. ASSUME NEW old \in ch.updateOld, Key(old) \in Migrating(ch)
       PROVE  Key(old) \notin DOMAIN l
  <2>1. PICK d \in ch.updateOld : Migrate \in d.ps /\ Key(d) = Key(old)
    BY <1>12 DEF Migrating
  <2>2. labels[c].read
    BY <1>6, <1>9 DEF new
  <2> QED
    BY <1>5, <1>6, <2>1, <2>2
<1>13. \A x \in Inserts(ch, l) : x \in new /\ Key(x) \notin DOMAIN l
  BY <1>6, <1>12 DEF Inserts, new
<1>14. \A x \in Updates(ch, l) : x \in new /\ Key(x) \in Own(c) /\ Key(x) \in DOMAIN l
  <2> TAKE x \in Updates(ch, l)
  <2>1. CASE x \in ch.create
    <3>1. Key(x) \in DOMAIN l
      BY <1>6, <2>1 DEF Updates
    <3> QED
      BY <1>3, <1>9, <2>1, <3>1 DEF new
  <2>2. CASE x \in ch.updateNew
    <3>1. Key(x) \notin Migrating(ch)
      BY <1>6, <2>2 DEF Updates
    <3> QED
      BY <1>6, <1>11, <2>2, <3>1 DEF new
  <2> QED
    BY <2>1, <2>2 DEF Updates
<1>15. \A x \in new : \/ x \in Inserts(ch, l) \/ x \in Updates(ch, l)
                      \/ Key(x) \in DOMAIN l /\ l[Key(x)] = x.res
  <2> TAKE x \in new
  <2>1. CASE x \in ch.create
    BY <2>1 DEF Inserts, Updates
  <2>2. CASE x \in ch.updateNew /\ Key(x) \notin Migrating(ch)
    BY <1>11, <2>2 DEF Inserts, Updates
  <2>3. CASE x \in ch.updateNew /\ Key(x) \in Migrating(ch)
    BY <2>3 DEF Inserts
  <2> QED
    BY <2>1, <2>2, <2>3 DEF new
<1>16. ASSUME NEW s \in stmts'[c]
       PROVE  /\ \E x \in new : s.k = Key(x) /\ s.l = x.res
              /\ \/ s.op = "INSERT" /\ s.k \notin DOMAIN l /\ s = Insert(s.k, s.l)
                 \/ s.op = "UPDATE" /\ s.k \in DOMAIN l /\ s.k \in Own(c) /\ s = Update(s.k, s.l)
  BY <1>7, <1>13, <1>14
<1>17. \A x \in new : Key(x) \in Own(c) \/ Pending(c, Key(x))'
  <2> TAKE x \in new
  <2>1. CASE x \in Inserts(ch, l)
    BY <1>7, <2>1 DEF Pending
  <2>2. CASE x \notin Inserts(ch, l)
    BY <1>3, <1>9, <1>14, <1>15, <2>2
  <2> QED
    BY <2>1, <2>2
<1>18. StatementInv(c)'
  <2>1. \A s, t \in stmts'[c] : s.k = t.k => s = t
    <3> TAKE s, t \in stmts'[c]
    <3> HAVE s.k = t.k
    <3>1. s.op = t.op /\ (s = Insert(s.k, s.l) \/ s = Update(s.k, s.l))
      BY <1>16
    <3>2. s.l = t.l
      BY <1>6, <1>16 DEF UniqueKeys
    <3>3. /\ s.op = "INSERT" => s = Insert(s.k, s.l) /\ t = Insert(t.k, t.l)
          /\ s.op # "INSERT" => s = Update(s.k, s.l) /\ t = Update(t.k, t.l)
      BY <1>16, <3>1
    <3> QED
      BY <3>1, <3>2, <3>3
  <2>2. \A s \in stmts'[c] : /\ labels[c].read /\ s.k \in DOMAIN labels'[c].map
                             /\ s.op = "INSERT" \/ (s.op = "UPDATE" /\ s.k \in Own(c))
    BY <1>8, <1>9, <1>16
  <2> QED
    BY <1>2, <2>1, <2>2 DEF StatementInv
<1>19. ChangeInv(c)'
  <2>1. \A x \in new : Key(x) \notin orphaned'[c]
    <3> TAKE x \in new
    <3>1. CASE x \in ch.create
      BY <3>1 DEF Keys
    <3>2. CASE x \in ch.updateNew
      BY <1>5, <1>6, <3>2
    <3> QED
      BY <3>1, <3>2 DEF new
  <2>2. \A d \in ch.delete : Marked(d) \/ Key(d) \in Own(c)
    BY <1>5, <1>6
  <2>3. UniqueKeys(ch.create \union ch.updateNew)
    BY <1>6 DEF new
  <2>4. \A e \in ch.create \union ch.updateNew :
         /\ Key(e) \in Own(c)' \/ Pending(c, Key(e))'
         /\ Key(e) \notin orphaned'[c] \union Keys(ch.delete)
    BY <1>2, <1>10, <1>17, <2>1 DEF new
  <2> QED
    BY <1>2, <1>6, <2>2, <2>3, <2>4 DEF ChangeInv
<1>20. ASSUME labels[c].read, NEW k \in DOMAIN labels'[c].map
       PROVE  Backed(c, k)' /\ k \notin Keys(ch.delete)
  <2>1. CASE k \notin Keys(new)
    <3>1. k \in DOMAIN l /\ k \notin Keys(ch.delete) /\ labels'[c].map[k] = l[k]
      BY <1>8, <2>1
    <3>2. k \in Own(c) /\ table[k].l = l[k]
      BY <1>3, <1>20, <3>1
    <3>3. \A s \in stmts'[c] : s.k # k
      BY <1>16, <2>1 DEF Keys
    <3> QED
      BY <1>2, <3>1, <3>2, <3>3 DEF Backed
  <2>2. ASSUME NEW x \in new, Key(x) = k
        PROVE  Backed(c, k)' /\ k \notin Keys(ch.delete)
    <3>1. labels'[c].map[k] = x.res /\ k \notin Keys(ch.delete)
      BY <1>8, <1>10, <2>2
    <3>2. CASE x \in Inserts(ch, l) \union Updates(ch, l)
      BY <1>7, <2>2, <3>1, <3>2 DEF Backed
    <3>3. CASE x \notin Inserts(ch, l) \union Updates(ch, l)
      <4>1. k \in DOMAIN l /\ l[k] = x.res
        BY <1>15, <2>2, <3>3
      <4>2. k \in Own(c) /\ table[k].l = x.res
        BY <1>3, <1>20, <4>1
      <4>3. \A s \in stmts'[c] : s.k # k
        <5> SUFFICES ASSUME NEW s \in stmts'[c], s.k = k
                     PROVE  FALSE
          OBVIOUS
        <5>1. PICK y \in Inserts(ch, l) \union Updates(ch, l) : s.k = Key(y)
          BY <1>7
        <5>2. y = x
          BY <1>6, <1>13, <1>14, <2>2, <5>1 DEF UniqueKeys
        <5> QED
          BY <3>3, <5>2
      <4> QED
        BY <1>2, <3>1, <4>2, <4>3 DEF Backed
    <3> QED
      BY <3>1, <3>2, <3>3
  <2> QED
    BY <2>1, <2>2 DEF Keys
<1>21. ASSUME labels[c].read, NEW k \in Own(c)
       PROVE  (k \in DOMAIN labels'[c].map \/ Leaving(c, k)') /\ ~Pending(c, k)'
  <2>1. k \in DOMAIN l
    BY <1>4, <1>21
  <2>2. k \in DOMAIN labels'[c].map \/ Leaving(c, k)'
    BY <1>8, <2>1 DEF Leaving
  <2>3. ~Pending(c, k)'
    BY <1>16, <2>1 DEF Pending
  <2> QED
    BY <2>2, <2>3
<1>22. LabelInv(c)'
  BY <1>2, <1>20, <1>21 DEF LabelInv
<1>23. cache'[c].fresh => cache[c].fresh /\ cache'[c].filled
  BY <1>1 DEF CacheAfter, NoCache
<1>24. ASSUME cache'[c].fresh
       PROVE  /\ Live(c, cache[c].eps)'
              /\ ch.create \subseteq cache'[c].eps
              /\ \A e \in cache'[c].eps : Key(e) \notin Keys(ch.delete)
  <2>1. cache[c].fresh /\ cache[c].filled /\ cache[c].eps = E /\ Migrating(ch) = {}
    BY <1>1, <1>23, <1>24 DEF CacheAfter, NoCache
  <2>2. cache'[c].eps = RemoveFromCache(E, ch.delete \union ch.updateOld)
                          \union ch.create \union ch.updateNew
    BY <2>1 DEF CacheAfter
  <2>3. \A e \in RemoveFromCache(E, ch.delete \union ch.updateOld) :
          e \in E /\ Key(e) \notin Keys(ch.delete) /\ Key(e) \notin Keys(ch.updateOld)
    BY <1>1, <1>6 DEF RemoveFromCache, UniqueKeys, Keys
  <2>4. \A e \in cache'[c].eps :
          \/ /\ e \in E /\ Key(e) \notin Keys(ch.delete) /\ Key(e) \notin Keys(ch.updateOld)
             /\ Key(e) \notin Keys(new)
          \/ e \in new
    <3>1. \A e \in E : Key(e) \notin Keys(ch.updateOld) => Key(e) \notin Keys(new)
      BY <1>6 DEF Keys, new
    <3> QED
      BY <2>2, <2>3, <3>1 DEF new
  <2>5. UniqueKeys(cache'[c].eps)
    BY <1>1, <1>6, <1>9, <2>4 DEF UniqueKeys
  <2>6. ASSUME NEW e \in cache'[c].eps
        PROVE  Known(c, e)' /\ Key(e) \notin Keys(ch.delete)
    <3>1. CASE e \in new
      <4>1. e.owner = OwnID(c) /\ ~Marked(e) /\ Key(e) \notin Keys(ch.delete)
        BY <1>6, <1>10, <3>1
      <4>2. Key(e) \notin orphaned'[c] /\ (Key(e) \in Own(c)' \/ Pending(c, Key(e))')
        BY <1>19, <3>1 DEF ChangeInv, new
      <4>3. Key(e) \in DOMAIN labels'[c].map /\ labels'[c].map[Key(e)] = e.res
        BY <1>8, <1>9, <3>1
      <4> QED
        BY <4>1, <4>2, <4>3 DEF Known, OwnID, Marked
    <3>2. CASE e \notin new
      <4>1. e \in E /\ Key(e) \notin Keys(ch.delete) /\ Key(e) \notin Keys(new)
        BY <2>4, <3>2
      <4>2. /\ Key(e) \notin orphaned'[c]
            /\ Key(e) \in DOMAIN labels'[c].map <=> Key(e) \in DOMAIN l
            /\ Key(e) \in DOMAIN l => labels'[c].map[Key(e)] = l[Key(e)]
        BY <1>5, <1>8, <4>1
      <4> QED
        BY <1>2, <1>5, <4>1, <4>2 DEF Known, OwnID
    <3> QED
      BY <3>1, <3>2
  <2>7. ch.create \subseteq cache'[c].eps
    BY <2>2
  <2> QED
    BY <2>5, <2>6, <2>7 DEF Live
<1>25. ViewInv(c)'
  BY <1>1, <1>23, <1>24 DEF ViewInv
<1> QED
  BY <1>18, <1>19, <1>22, <1>25 DEF ProcInv

LEMMA PlanChangesInv ==
  ASSUME OneSpelling, PlainSources, NEW c \in Controllers, Shapes, ProcInv(c), PlanChanges(c)
  PROVE  ProcInv(c)' /\ DOMAIN changes'[c] = Fields
<1>1. PICK plan \in {Calculate(Config[c], view[c], src[c])} :
      \E ch \in {[plan EXCEPT !.create = Claimed(Config[c], @)]} :
       \/ /\ ~HasChanges(plan)
          /\ pc' = [pc EXCEPT ![c] = "idle"]
          /\ UNCHANGED <<labels, orphaned, cache, changes, stmts>>
       \/ /\ HasChanges(plan)
          /\ pc' = [pc EXCEPT ![c] = "claim"]
          /\ changes' = [changes EXCEPT ![c] = ch]
          /\ stmts' = [stmts EXCEPT ![c] = ClaimStatements(ch, labels[c].map)]
          /\ labels' = [labels EXCEPT ![c].map = LabelsAfter(ch, @)]
          /\ orphaned' = [orphaned EXCEPT ![c] = KeepOrphans(@, ch)]
          /\ cache' = [cache EXCEPT ![c] = CacheAfter(@, ch)]
  BY DEF PlanChanges
<1>2. PICK ch \in {[plan EXCEPT !.create = Claimed(Config[c], @)]} :
       \/ /\ ~HasChanges(plan)
          /\ pc' = [pc EXCEPT ![c] = "idle"]
          /\ UNCHANGED <<labels, orphaned, cache, changes, stmts>>
       \/ /\ HasChanges(plan)
          /\ pc' = [pc EXCEPT ![c] = "claim"]
          /\ changes' = [changes EXCEPT ![c] = ch]
          /\ stmts' = [stmts EXCEPT ![c] = ClaimStatements(ch, labels[c].map)]
          /\ labels' = [labels EXCEPT ![c].map = LabelsAfter(ch, @)]
          /\ orphaned' = [orphaned EXCEPT ![c] = KeepOrphans(@, ch)]
          /\ cache' = [cache EXCEPT ![c] = CacheAfter(@, ch)]
  BY <1>1
<1>3. ch = [Calculate(Config[c], view[c], src[c]) EXCEPT !.create = Claimed(Config[c], @)]
  BY <1>1, <1>2
<1>4. pc[c] = "plan" /\ UNCHANGED table /\ stmts[c] = {} /\ UniqueKeys(view[c])
  BY DEF PlanChanges, ProcInv, StatementInv, ViewInv, Live
<1>5. Planned(c, ch, view[c]) /\ DOMAIN ch = Fields
  BY <1>3, <1>4, PlanIsPlanned
<1>6. CASE /\ pc' = [pc EXCEPT ![c] = "idle"]
           /\ UNCHANGED <<labels, orphaned, cache, changes, stmts>>
  <2>1. /\ pc'[c] = "idle" /\ labels'[c] = labels[c] /\ orphaned'[c] = orphaned[c]
        /\ cache'[c] = cache[c] /\ changes'[c] = changes[c] /\ stmts'[c] = {}
    BY <1>4, <1>6 DEF Shapes
  <2>2. Own(c)' = Own(c)
    BY <1>4, SameTable
  <2>3. \A k : ~Pending(c, k) /\ ~Pending(c, k)'
    BY <1>4, <2>1 DEF Pending
  <2>4. \A e : Known(c, e) => Known(c, e)'
    BY <2>1, <2>2, <2>3 DEF Known, OwnID
  <2>5. ViewInv(c)'
    BY <1>4, <2>1, <2>4 DEF ProcInv, ViewInv, Live
  <2>6. \A k : Backed(c, k) => Backed(c, k)'
    BY <1>4, <2>1, <2>2 DEF Backed
  <2>7. \A k : ~Leaving(c, k)
    BY <1>4 DEF Leaving
  <2>8. LabelInv(c)'
    BY <1>4, <2>1, <2>2, <2>3, <2>6, <2>7 DEF ProcInv, LabelInv
  <2> QED
    BY <2>1, <2>5, <2>8 DEF ProcInv, StatementInv, ChangeInv, Shapes
<1>8. CASE /\ pc' = [pc EXCEPT ![c] = "claim"]
           /\ changes' = [changes EXCEPT ![c] = ch]
           /\ stmts' = [stmts EXCEPT ![c] = ClaimStatements(ch, labels[c].map)]
           /\ labels' = [labels EXCEPT ![c].map = LabelsAfter(ch, @)]
           /\ orphaned' = [orphaned EXCEPT ![c] = KeepOrphans(@, ch)]
           /\ cache' = [cache EXCEPT ![c] = CacheAfter(@, ch)]
  <2>1. /\ pc'[c] = "claim" /\ changes'[c] = ch
        /\ stmts'[c] = ClaimStatements(ch, labels[c].map)
        /\ labels'[c].map = LabelsAfter(ch, labels[c].map) /\ labels'[c].read = labels[c].read
        /\ orphaned'[c] = orphaned[c] \ Keys(ch.create)
        /\ cache'[c] = CacheAfter(cache[c], ch) /\ DOMAIN cache[c] = {"filled", "fresh", "eps"}
    BY <1>8 DEF Shapes, KeepOrphans
  <2>2. ProcInv(c)'
    BY <1>4, <1>5, <2>1, PlanStepInv
  <2> QED
    BY <1>5, <2>1, <2>2
<1> QED
  BY <1>2, <1>6, <1>8

-----------------------------------------------------------------------------
(* A call of the provider in which it submits the changes ch, which are    *)
(* some or all of those of the plan.  The records that were to be deleted  *)
(* under the names in done are gone then.                                  *)
Within(ch, all) == /\ ch.create \subseteq all.create /\ ch.updateNew \subseteq all.updateNew
                   /\ ch.delete \subseteq all.delete
Submits(ch) == zone' = ApplyBatch(zone, ProviderBatch(ch))
Provides(c, ch, left, done) ==
  /\ pc[c] = "apply" /\ Within(ch, changes[c])
  /\ UNCHANGED zone \/ Submits(ch)
  /\ \A e \in changes[c].delete :
       e.name \in done => e.name \in parts[c].done \/ (Submits(ch) /\ e \in ch.delete)
  /\ \/ GoOn(c, [left |-> left, done |-> done])
     \/ Succeed(c) /\ \A e \in changes[c].delete : e.name \in done
     \/ Abort(c)
  /\ UNCHANGED <<table, src, foreign, view>>
  /\ Called(c)

Calls(c) == ProviderApplies(c) \/ ProviderFails(c) \/ PartApplies(c) \/ PartFails(c)

LEMMA PartWithin ==
  ASSUME NEW all, NEW n
  PROVE  /\ Within(Part(all, n), all)
         /\ \A e \in all.delete : e.name = n => e \in Part(all, n).delete
         /\ \A e \in all.delete : e.name \in ChangedNames(all)
  BY DEF Within, Part, ChangedNames

LEMMA CallProvides ==
  ASSUME Shapes, NEW c \in Controllers, Calls(c)
  PROVE  \E ch, left, done : Provides(c, ch, left, done)
<1> DEFINE all == changes[c]
<1>0. /\ Within(all, all) /\ pc[c] = "apply" /\ UNCHANGED <<table, src, foreign, view>>
      /\ \A e \in all.delete : e.name \in ChangedNames(all)
  BY PartWithin DEF Calls, ProviderApplies, ProviderFails, PartApplies, PartFails, Within
<1>1. Succeed(c) \/ Abort(c) => Called(c)
  BY <1>0 DEF Succeed, Abort, Called, Shapes
<1>2. ASSUME NEW left, NEW done, GoOn(c, [left |-> left, done |-> done]), left # parts[c].left
      PROVE  Called(c)
  <2>1. parts'[c] = [left |-> left, done |-> done]
    BY <1>2 DEF GoOn, Shapes
  <2>2. parts'[c].left = left
    BY <2>1
  <2>3. parts'[c] # parts[c]
    BY <1>2, <2>2
  <2> QED
    BY <1>0, <2>3 DEF Called
<1>3. CASE ProviderApplies(c)
  <2>1. Succeed(c) /\ Submits(all)
    BY <1>3 DEF ProviderApplies, Submit, Submits
  <2>2. Provides(c, all, {}, ChangedNames(all))
    BY <1>0, <1>1, <2>1 DEF Provides
  <2> QED
    BY <2>2
<1>4. CASE ProviderFails(c)
  <2>1. UNCHANGED zone \/ Submits(all)
    BY <1>4 DEF ProviderFails, SubmitFails, Submit, Submits
  <2>2. /\ parts[c].left = {}
        /\ Abort(c) \/ (Splits(all) /\ GoOn(c, [left |-> ChangedNames(all), done |-> {}]))
    BY <1>4 DEF ProviderFails
  <2>3. Splits(all) => ChangedNames(all) # {}
    BY DEF Splits
  <2>4. Called(c)
    BY <1>1, <1>2, <2>2, <2>3
  <2>5. Provides(c, all, ChangedNames(all), {})
    BY <1>0, <2>1, <2>2, <2>4 DEF Provides
  <2> QED
    BY <2>5
<1>5. ASSUME NEW n \in parts[c].left, NEW done,
             UNCHANGED zone \/ Submits(Part(all, n)),
             \/ done = parts[c].done
             \/ done = parts[c].done \union {n} /\ Submits(Part(all, n)),
             PartReturns(c, [left |-> parts[c].left \ {n}, done |-> done])
      PROVE  Provides(c, Part(all, n), parts[c].left \ {n}, done)
  <2> DEFINE left == parts[c].left \ {n}
  <2>1. \/ GoOn(c, [left |-> left, done |-> done])
        \/ Succeed(c) /\ done = ChangedNames(all)
        \/ Abort(c)
    BY <1>5 DEF PartReturns
  <2>2. left # parts[c].left
    OBVIOUS
  <2> HIDE DEF left
  <2>3. Called(c)
    BY <1>1, <1>2, <2>1, <2>2
  <2>4. \A e \in all.delete : e.name \in done =>
          e.name \in parts[c].done \/ (Submits(Part(all, n)) /\ e \in Part(all, n).delete)
    BY <1>5, PartWithin
  <2>5. Within(Part(all, n), all)
    BY PartWithin
  <2>6. Provides(c, Part(all, n), left, done)
    BY <1>0, <1>5, <2>1, <2>3, <2>4, <2>5 DEF Provides
  <2> QED
    BY <2>6 DEF left
<1>6. CASE PartApplies(c)
  <2>1. PICK n \in parts[c].left :
          /\ Submit(ProviderBatch(Part(all, n)))
          /\ PartReturns(c, [left |-> parts[c].left \ {n}, done |-> parts[c].done \union {n}])
    BY <1>6 DEF PartApplies
  <2>2. Submits(Part(all, n))
    BY <2>1 DEF Submit, Submits
  <2>3. Provides(c, Part(all, n), parts[c].left \ {n}, parts[c].done \union {n})
    BY <1>5, <2>1, <2>2
  <2> QED
    BY <2>3
<1>7. CASE PartFails(c)
  <2>1. PICK n \in parts[c].left :
          /\ SubmitFails(ProviderBatch(Part(all, n)))
          /\ PartReturns(c, [left |-> parts[c].left \ {n}, done |-> parts[c].done])
    BY <1>7 DEF PartFails
  <2>2. UNCHANGED zone \/ Submits(Part(all, n))
    BY <2>1 DEF SubmitFails, Submit, Submits
  <2>3. Provides(c, Part(all, n), parts[c].left \ {n}, parts[c].done)
    BY <1>5, <2>1, <2>2
  <2> QED
    BY <2>3
<1> QED
  BY <1>3, <1>4, <1>6, <1>7 DEF Calls

LEMMA ProvidesInv ==
  ASSUME Shapes, NEW c \in Controllers, ProcInv(c), NEW ch, NEW left, NEW done,
         Provides(c, ch, left, done)
  PROVE  Shapes' /\ OthersSame(c) /\ ProcInv(c)' /\ TableStep(c)
<1>1. UNCHANGED <<table, src, foreign, view>> /\ pc[c] = "apply"
  BY DEF Provides
<1>2. TableStep(c) /\ Own(c)' = Own(c)
  BY <1>1, SameTable
<1>3. CASE GoOn(c, [left |-> left, done |-> done])
  <2>1. ProcInv(c)'
    BY <1>1, <1>2, <1>3, SameInv DEF GoOn
  <2>2. Shapes' /\ OthersSame(c)
    BY <1>1, <1>3 DEF GoOn, Shapes, OthersSame, TableShape, OwnID
  <2> QED
    BY <1>2, <2>1, <2>2
<1>4. CASE Succeed(c)
  <2>1. ProcInv(c)'
    BY <1>1, <1>4, SucceedInv
  <2>2. Shapes' /\ OthersSame(c)
    BY <1>1, <1>4 DEF Succeed, Shapes, OthersSame, TableShape, OwnID, NoChanges, Fields
  <2> QED
    BY <1>2, <2>1, <2>2
<1>5. CASE Abort(c)
  <2>1. ProcInv(c)'
    BY <1>5, ResetInv DEF Abort, Shapes
  <2>2. Shapes' /\ OthersSame(c)
    BY <1>1, <1>5 DEF Abort, Shapes, OthersSame, TableShape, OwnID, NoChanges, NoCache, NilLabels,
                      Fields
  <2> QED
    BY <1>2, <2>1, <2>2
<1> QED
  BY <1>3, <1>4, <1>5 DEF Provides

-----------------------------------------------------------------------------
(* All steps.                                                              *)
LEMMA StepShapes ==
  ASSUME OneSpelling, PlainSources, Shapes, NEW c \in Controllers, ProcInv(c),
         Step(c) \/ CacheExpires(c) \/ Restart(c)
  PROVE  Shapes' /\ OthersSame(c) /\ UNCHANGED src
<1>1. CASE ReadLabels(c)
  BY <1>1 DEF ReadLabels, Shapes, OthersSame, OwnID, TableShape
<1>2. CASE ListRecords(c)
  BY <1>2 DEF ListRecords, Shapes, OthersSame, NoCache, OwnID, TableShape
<1>3. CASE PlanChanges(c)
  <2>1. DOMAIN changes'[c] = Fields
    BY <1>3, PlanChangesInv
  <2>2. PICK ch :
       \/ /\ pc' = [pc EXCEPT ![c] = "idle"]
          /\ UNCHANGED <<labels, orphaned, cache, changes, stmts>>
       \/ /\ pc' = [pc EXCEPT ![c] = "claim"]
          /\ changes' = [changes EXCEPT ![c] = ch]
          /\ stmts' = [stmts EXCEPT ![c] = ClaimStatements(ch, labels[c].map)]
          /\ labels' = [labels EXCEPT ![c].map = LabelsAfter(ch, @)]
          /\ orphaned' = [orphaned EXCEPT ![c] = KeepOrphans(@, ch)]
          /\ cache' = [cache EXCEPT ![c] = CacheAfter(@, ch)]
    BY <1>3 DEF PlanChanges
  <2>3. /\ UNCHANGED <<table, src, parts>> /\ view' = [view EXCEPT ![c] = {}]
    BY <1>3 DEF PlanChanges
  <2>4. DOMAIN CacheAfter(cache[c], ch) = {"filled", "fresh", "eps"}
    BY DEF CacheAfter, Shapes, NoCache
  <2>5. CASE UNCHANGED <<labels, orphaned, cache, changes, stmts>>
    BY <2>1, <2>2, <2>3, <2>5 DEF Shapes, OthersSame, OwnID, TableShape
  <2>6. CASE /\ pc' = [pc EXCEPT ![c] = "claim"]
             /\ changes' = [changes EXCEPT ![c] = ch]
             /\ stmts' = [stmts EXCEPT ![c] = ClaimStatements(ch, labels[c].map)]
             /\ labels' = [labels EXCEPT ![c].map = LabelsAfter(ch, @)]
             /\ orphaned' = [orphaned EXCEPT ![c] = KeepOrphans(@, ch)]
             /\ cache' = [cache EXCEPT ![c] = CacheAfter(@, ch)]
    BY <2>1, <2>3, <2>4, <2>6 DEF Shapes, OthersSame, OwnID, TableShape
  <2> QED
    BY <2>2, <2>5, <2>6
<1>4. CASE ClaimChunk(c)
  <2>1. PICK C \in Chunks(stmts[c]) : /\ Execute(C, OwnID(c)) /\ DropRefused(c, C)
                                      /\ stmts' = [stmts EXCEPT ![c] = @ \ C]
    BY <1>4 DEF ClaimChunk
  <2>2. TableShape'
    BY <1>4, <2>1, ChunkSubset, ChunkStep DEF ClaimChunk
  <2> QED
    BY <1>4, <2>1, <2>2 DEF ClaimChunk, DropRefused, Shapes, OthersSame
<1>5. CASE ClaimError(c)
  <2>1. PICK C \in Chunks(stmts[c]) : \E ok \in SUBSET C : Execute(ok, OwnID(c))
    BY <1>5 DEF ClaimError
  <2>2. PICK ok \in SUBSET C : Execute(ok, OwnID(c))
    BY <2>1
  <2>3. ok \subseteq stmts[c]
    BY ChunkSubset
  <2>4. TableShape'
    BY <1>5, <2>2, <2>3, ChunkStep DEF ClaimError
  <2> QED
    BY <1>5, <2>4 DEF ClaimError, Exit, Shapes, OthersSame, NoCache, NilLabels, NoChanges, Fields
<1>6. CASE ClaimsDone(c)
  BY <1>6 DEF ClaimsDone, Shapes, OthersSame, OwnID, TableShape
<1>7. CASE Calls(c)
  BY <1>7, CallProvides, ProvidesInv DEF Provides
<1>9. CASE CleanupChunk(c)
  <2>1. PICK C \in Chunks(stmts[c]) : /\ Execute(C, OwnID(c))
                                      /\ stmts' = [stmts EXCEPT ![c] = @ \ C]
    BY <1>9 DEF CleanupChunk
  <2>2. TableShape'
    BY <1>9, <2>1, ChunkSubset, ChunkStep DEF CleanupChunk
  <2> QED
    BY <1>9, <2>1, <2>2 DEF CleanupChunk, Shapes, OthersSame
<1>10. CASE CleanupFails(c)
  <2>1. PICK C \in Chunks(stmts[c]) : \E ok \in SUBSET C : Execute(ok, OwnID(c))
    BY <1>10 DEF CleanupFails
  <2>2. PICK ok \in SUBSET C : Execute(ok, OwnID(c))
    BY <2>1
  <2>3. ok \subseteq stmts[c]
    BY ChunkSubset
  <2>4. TableShape'
    BY <1>10, <2>2, <2>3, ChunkStep DEF CleanupFails
  <2> QED
    BY <1>10, <2>4 DEF CleanupFails, Exit, Shapes, OthersSame, NoCache, NilLabels, NoChanges, Fields
<1>12. CASE CleanupDone(c)
  BY <1>12 DEF CleanupDone, Shapes, OthersSame, OwnID, TableShape
<1>13. CASE CacheExpires(c)
  BY <1>13 DEF CacheExpires, Shapes, OthersSame, OwnID, TableShape
<1>14. CASE Restart(c)
  BY <1>14 DEF Restart, Exit, Shapes, OthersSame, NoCache, NilLabels, NoChanges, OwnID, TableShape, Fields
<1> QED
  BY <1>1, <1>2, <1>3, <1>4, <1>5, <1>6, <1>7, <1>9, <1>10, <1>12, <1>13, <1>14
     DEF Step, Calls

LEMMA StepInv ==
  ASSUME OneSpelling, OwnIDs, PlainSources, Shapes, ZoneInv, ClaimInv, NEW c \in Controllers,
         Step(c) \/ CacheExpires(c) \/ Restart(c)
  PROVE  ClaimInv' /\ TableStep(c)
<1>1. ProcInv(c)
  BY DEF ClaimInv
<1>2. Shapes' /\ OthersSame(c)
  BY <1>1, StepShapes
<1>3. ProcInv(c)' /\ TableStep(c)
  <2>1. CASE ReadLabels(c)
    BY <1>1, <2>1, ReadLabelsInv, SameTable DEF ReadLabels
  <2>2. CASE ListRecords(c)
    BY <1>1, <2>2, ListRecordsInv, SameTable DEF ListRecords
  <2>3. CASE PlanChanges(c)
    BY <1>1, <2>3, PlanChangesInv, SameTable DEF PlanChanges
  <2>4. CASE ClaimChunk(c)
    BY <1>1, <2>4, ClaimChunkInv
  <2>5. CASE ClaimError(c)
    <3>1. PICK C \in Chunks(stmts[c]) : \E ok \in SUBSET C : Execute(ok, OwnID(c))
      BY <2>5 DEF ClaimError
    <3>2. PICK ok \in SUBSET C : Execute(ok, OwnID(c))
      BY <3>1
    <3>3. ok \subseteq stmts[c]
      BY ChunkSubset
    <3>4. TableStep(c)
      BY <1>1, <2>5, <3>2, <3>3, ChunkStep DEF ClaimError
    <3> QED
      BY <2>5, <3>4, ResetInv DEF ClaimError, Exit, Shapes
  <2>6. CASE ClaimsDone(c)
    BY <1>1, <2>6, ClaimsDoneInv, SameTable DEF ClaimsDone
  <2>7. CASE Calls(c)
    BY <1>1, <2>7, CallProvides, ProvidesInv
  <2>9. CASE CleanupChunk(c)
    BY <1>1, <2>9, CleanupChunkInv
  <2>10. CASE CleanupFails(c)
    <3>1. PICK C \in Chunks(stmts[c]) : \E ok \in SUBSET C : Execute(ok, OwnID(c))
      BY <2>10 DEF CleanupFails
    <3>2. PICK ok \in SUBSET C : Execute(ok, OwnID(c))
      BY <3>1
    <3>3. ok \subseteq stmts[c]
      BY ChunkSubset
    <3>4. TableStep(c)
      BY <1>1, <2>10, <3>2, <3>3, ChunkStep DEF CleanupFails
    <3> QED
      BY <2>10, <3>4, ResetInv DEF CleanupFails, Exit, Shapes
  <2>12. CASE CleanupDone(c)
    BY <1>1, <2>12, CleanupDoneInv, SameTable DEF CleanupDone
  <2>13. CASE CacheExpires(c)
    BY <1>1, <2>13, CacheExpiresInv, SameTable DEF CacheExpires
  <2>14. CASE Restart(c)
    BY <2>14, ResetInv, SameTable DEF Restart, Exit, Shapes
  <2> QED
    BY <2>1, <2>2, <2>3, <2>4, <2>5, <2>6, <2>7, <2>9, <2>10, <2>12, <2>13, <2>14
       DEF Step, Calls
<1>4. \A d \in Controllers \ {c} : ProcInv(d)'
  BY <1>2, <1>3, OthersInv DEF ClaimInv
<1> QED
  BY <1>3, <1>4 DEF ClaimInv

LEMMA Maps ==
  ASSUME NEW f, NEW S, NEW o, NEW ch
  PROVE  /\ IsMap(readLabels(o)) /\ IsMap(Without(f, S)) /\ IsMap(LabelsAfter(ch, f))
         /\ IsMap(NilLabels.map)
<1>1. \A D, g : IsMap([x \in D |-> g[x]])
  BY DEF IsMap
<1>2. IsMap(readLabels(o))
  BY DEF IsMap, readLabels
<1>3. IsMap(Without(f, S))
  BY <1>1 DEF Without
<1>4. IsMap(LabelsAfter(ch, f))
  BY DEF IsMap, LabelsAfter
<1>5. IsMap(NilLabels.map)
  BY DEF IsMap, NilLabels
<1> QED
  BY <1>2, <1>3, <1>4, <1>5

LEMMA StepTidy ==
  ASSUME Shapes, NEW c \in Controllers, Tidy(c), Step(c) \/ CacheExpires(c) \/ Restart(c)
  PROVE  Tidy(c)'
<1>1. CASE UNCHANGED <<labels, parts>> /\ pc[c] # "apply"
  BY <1>1 DEF Tidy
<1>2. CASE ReadLabels(c)
  BY <1>2, Maps DEF ReadLabels, Tidy, Shapes
<1>3. CASE PlanChanges(c)
  <2>1. /\ pc[c] = "plan" /\ parts' = parts
        /\ labels' = labels \/ \E ch : labels' = [labels EXCEPT ![c].map = LabelsAfter(ch, @)]
    BY <1>3 DEF PlanChanges
  <2> QED
    BY <2>1, Maps DEF Tidy, Shapes
<1>4. CASE ClaimChunk(c)
  <2>1. /\ pc[c] = "claim" /\ parts' = parts
        /\ \E S : labels' = [labels EXCEPT ![c].map = Without(@, S)]
    BY <1>4 DEF ClaimChunk, DropRefused
  <2> QED
    BY <2>1, Maps DEF Tidy, Shapes
<1>5. CASE Exit(c) \/ Abort(c)
  <2>1. labels'[c] = NilLabels /\ parts'[c] = Whole
    BY <1>5 DEF Exit, Abort, Shapes
  <2> QED
    BY <2>1, Maps DEF Tidy
<1>6. CASE Succeed(c)
  <2>1. labels'[c].map = Without(labels[c].map, orphaned[c]) /\ parts'[c] = Whole
    BY <1>6 DEF Succeed, Shapes
  <2> QED
    BY <2>1, Maps DEF Tidy
<1>7. CASE pc[c] = "apply" /\ UNCHANGED <<pc, labels>>
  BY <1>7 DEF Tidy
<1>8. CASE Calls(c)
  <2>1. PICK ch, left, done : Provides(c, ch, left, done)
    BY <1>8, CallProvides
  <2> QED
    BY <1>5, <1>6, <1>7, <2>1 DEF Provides, GoOn
<1>9. CASE UNCHANGED <<pc, labels, parts>>
  BY <1>9 DEF Tidy
<1> QED
  BY <1>1, <1>2, <1>3, <1>4, <1>5, <1>8, <1>9
     DEF Step, Calls, ListRecords, ClaimError, ClaimsDone, CleanupChunk, CleanupFails, CleanupDone,
         CacheExpires, Restart

-----------------------------------------------------------------------------
(* What a batch does to the zone.                                          *)
LEMMA BatchParts ==
  ASSUME NEW b, zone' = ApplyBatch(zone, b)
  PROVE  /\ \A k : k \in DOMAIN zone' <=>
                     /\ k \in DOMAIN zone \/ \E e \in b.create \union b.updateNew : e.cell = k
                     /\ \A e \in b.delete : e.cell # k
         /\ \A k \in DOMAIN zone' :
              \/ k \in DOMAIN zone /\ zone'[k] = zone[k]
              \/ \E e \in b.create \union b.updateNew : e.cell = k /\ zone'[k] = e.val
<1> DEFINE W == b.create \union b.updateNew
<1>1. zone' = [k \in (DOMAIN zone \union Cells(W)) \ Cells(b.delete) |->
                 IF k \in Cells(W) THEN (CHOOSE e \in W : e.cell = k).val ELSE zone[k]]
  BY DEF ApplyBatch
<1> HIDE DEF W
<1>2. \A E : \A k : k \in Cells(E) <=> \E e \in E : e.cell = k
  BY DEF Cells
<1>3. ASSUME NEW k \in Cells(W)
      PROVE  \E e \in W : e.cell = k /\ e.val = (CHOOSE d \in W : d.cell = k).val
  BY <1>2
<1>4. \A k : k \in DOMAIN zone' <=> /\ k \in DOMAIN zone \/ k \in Cells(W)
                                  /\ k \notin Cells(b.delete)
  BY <1>1
<1>5. \A k : k \in DOMAIN zone' <=> /\ k \in DOMAIN zone \/ \E e \in W : e.cell = k
                                  /\ \A e \in b.delete : e.cell # k
  BY <1>2, <1>4
<1>6. ASSUME NEW k \in DOMAIN zone'
      PROVE  \/ k \in DOMAIN zone /\ zone'[k] = zone[k]
             \/ \E e \in W : e.cell = k /\ zone'[k] = e.val
  <2>1. CASE k \in Cells(W)
    <3>1. zone'[k] = (CHOOSE d \in W : d.cell = k).val
      BY <1>1, <2>1
    <3> QED
      BY <1>3, <2>1, <3>1
  <2>2. CASE k \notin Cells(W)
    BY <1>1, <1>4, <2>2
  <2> QED
    BY <2>1, <2>2
<1> QED
  BY <1>5, <1>6 DEF W

LEMMA EntryParts ==
  ASSUME NEW E
  PROVE  /\ \A x \in Entries(E) : \E e \in E : /\ x.cell = Key(e) /\ x.val.tgt = e.tgt
                                               /\ x.val.ps = e.ps \ {Migrate}
         /\ \A e \in E : \E x \in Entries(E) : x.cell = Key(e)
<1> DEFINE X(e) == [cell |-> Key(e), val |-> [tgt |-> e.tgt, ttl |-> e.ttl, ps |-> e.ps \ {Migrate}]]
<1>1. Entries(E) = {X(e) : e \in E}
  BY DEF Entries
<1>2. \A e : /\ X(e).cell = Key(e) /\ X(e).val.tgt = e.tgt /\ X(e).val.ps = e.ps \ {Migrate}
  OBVIOUS
<1> HIDE DEF X
<1> QED
  BY <1>1, <1>2

(* The provider changes the records of the plan only.                      *)
LEMMA PlanBatch ==
  ASSUME NEW ch, zone' = ApplyBatch(zone, ProviderBatch(ch))
  PROVE  /\ \A k \in DOMAIN zone' :
              \/ k \in DOMAIN zone /\ zone'[k] = zone[k]
              \/ \E e \in ch.create \union ch.updateNew :
                   k = Key(e) /\ Migrate \notin zone'[k].ps
         /\ \A k \in DOMAIN zone : k \in DOMAIN zone' \/ \E e \in ch.delete : k = Key(e)
         /\ \A e \in ch.delete : Key(e) \notin DOMAIN zone'
<1> DEFINE b == ProviderBatch(ch)
<1>1. /\ b.create = Entries(ch.create) /\ b.updateNew = Entries(ch.updateNew)
      /\ b.delete = Entries(ch.delete)
  BY DEF ProviderBatch
<1> HIDE DEF b
<1>2. /\ \A k : k \in DOMAIN zone' <=>
                  /\ k \in DOMAIN zone \/ \E e \in b.create \union b.updateNew : e.cell = k
                  /\ \A e \in b.delete : e.cell # k
      /\ \A k \in DOMAIN zone' :
           \/ k \in DOMAIN zone /\ zone'[k] = zone[k]
           \/ \E e \in b.create \union b.updateNew : e.cell = k /\ zone'[k] = e.val
  BY BatchParts DEF b
<1>3. \A x \in b.create \union b.updateNew :
        \E e \in ch.create \union ch.updateNew : x.cell = Key(e) /\ Migrate \notin x.val.ps
  <2>1. \A x \in Entries(ch.create) : \E e \in ch.create :
          x.cell = Key(e) /\ x.val.ps = e.ps \ {Migrate}
    BY EntryParts
  <2>2. \A x \in Entries(ch.updateNew) : \E e \in ch.updateNew :
          x.cell = Key(e) /\ x.val.ps = e.ps \ {Migrate}
    BY EntryParts
  <2> QED
    BY <1>1, <2>1, <2>2
<1>4. /\ \A x \in b.delete : \E e \in ch.delete : x.cell = Key(e)
      /\ \A e \in ch.delete : \E x \in b.delete : x.cell = Key(e)
  <2>1. /\ \A x \in Entries(ch.delete) : \E e \in ch.delete : x.cell = Key(e)
        /\ \A e \in ch.delete : \E x \in Entries(ch.delete) : x.cell = Key(e)
    BY EntryParts
  <2> QED
    BY <1>1, <2>1
<1>5. \A k \in DOMAIN zone' :
        \/ k \in DOMAIN zone /\ zone'[k] = zone[k]
        \/ \E e \in ch.create \union ch.updateNew : k = Key(e) /\ Migrate \notin zone'[k].ps
  BY <1>2, <1>3
<1>6. \A k \in DOMAIN zone : k \in DOMAIN zone' \/ \E e \in ch.delete : k = Key(e)
  BY <1>2, <1>4
<1>7. \A e \in ch.delete : Key(e) \notin DOMAIN zone'
  BY <1>2, <1>4
<1> QED
  BY <1>5, <1>6, <1>7

(* Somebody creates a record by other means.                               *)
LEMMA ManualBatch ==
  ASSUME NEW x, zone' = ApplyBatch(zone, [EmptyBatch EXCEPT !.create = Entries({x})])
  PROVE  /\ \A k \in DOMAIN zone' : \/ k \in DOMAIN zone /\ zone'[k] = zone[k]
                                    \/ k = Key(x) /\ Migrate \notin zone'[k].ps
         /\ \A k \in DOMAIN zone : k \in DOMAIN zone'
<1> DEFINE b == [EmptyBatch EXCEPT !.create = Entries({x})]
<1>1. b.create = Entries({x}) /\ b.updateNew = {} /\ b.delete = {}
  BY DEF EmptyBatch
<1> HIDE DEF b
<1>2. /\ \A k : k \in DOMAIN zone' <=>
                  /\ k \in DOMAIN zone \/ \E e \in b.create \union b.updateNew : e.cell = k
                  /\ \A e \in b.delete : e.cell # k
      /\ \A k \in DOMAIN zone' :
           \/ k \in DOMAIN zone /\ zone'[k] = zone[k]
           \/ \E e \in b.create \union b.updateNew : e.cell = k /\ zone'[k] = e.val
  BY BatchParts DEF b
<1>3. \A e \in b.create \union b.updateNew : e.cell = Key(x) /\ Migrate \notin e.val.ps
  <2>1. \A y \in Entries({x}) : \E e \in {x} : y.cell = Key(e) /\ y.val.ps = e.ps \ {Migrate}
    BY EntryParts
  <2> QED
    BY <1>1, <2>1
<1> QED
  BY <1>1, <1>2, <1>3

-----------------------------------------------------------------------------
(* The invariants of the registry.                                         *)
RegistryInv == Shapes /\ TidyInv /\ ClaimInv /\ ZoneInv

LEMMA InitInv ==
  ASSUME Init
  PROVE  RegistryInv
<1>1. Shapes
  BY DEF Init, Shapes, TableShape, NilLabels, NoCache, NoChanges, Fields
<1>2. \A c \in Controllers : /\ pc[c] = "idle" /\ labels[c] = NilLabels /\ cache[c] = NoCache
                             /\ stmts[c] = {}
  BY DEF Init
<1>3. ClaimInv
  BY <1>2 DEF ClaimInv, ProcInv, ViewInv, LabelInv, StatementInv, ChangeInv, NilLabels, NoCache
<1>4. ZoneInv
  BY DynamoDBAssumption DEF Init, ZoneInv
<1>5. TidyInv
  BY <1>2, Maps DEF TidyInv, Tidy, Init
<1> QED
  BY <1>1, <1>3, <1>4, <1>5 DEF RegistryInv

(* A step of one process, or one that leaves the processes alone.          *)
LEMMA NextCases ==
  ASSUME [Next]_vars
  PROVE  \/ \E c \in Controllers : Step(c) \/ CacheExpires(c) \/ Restart(c)
         \/ UNCHANGED <<table, procVars>>
  BY DEF Next, vars, procVars, SourceChanges, ManualCreate, Calm

LEMMA NextShapes ==
  ASSUME OneSpelling, PlainSources, Shapes, ClaimInv, [Next]_vars
  PROVE  Shapes'
<1>1. CASE \E c \in Controllers : Step(c) \/ CacheExpires(c) \/ Restart(c)
  BY <1>1, StepShapes DEF ClaimInv
<1>2. CASE \E c \in Controllers : SourceChanges(c)
  <2>1. PICK c \in Controllers : SourceChanges(c)
    BY <1>2
  <2>2. PICK s \in SourceLists[c] : src' = [src EXCEPT ![c] = s]
    BY <2>1 DEF SourceChanges
  <2>3. UNCHANGED <<table, pc, view, labels, orphaned, cache, changes, stmts, parts>>
    BY <2>1 DEF SourceChanges, procVars
  <2> QED
    BY <2>2, <2>3 DEF Shapes, TableShape, OwnID
<1>3. CASE ManualCreate \/ Calm \/ UNCHANGED vars
  BY <1>3 DEF ManualCreate, Calm, vars, procVars, Shapes, TableShape, OwnID
<1> QED
  BY <1>1, <1>2, <1>3 DEF Next

LEMMA NextTidy ==
  ASSUME OneSpelling, PlainSources, Shapes, ClaimInv, TidyInv, [Next]_vars
  PROVE  TidyInv'
<1>1. ASSUME NEW c \in Controllers, Step(c) \/ CacheExpires(c) \/ Restart(c)
      PROVE  TidyInv'
  <2>1. OthersSame(c)
    BY <1>1, StepShapes DEF ClaimInv
  <2>2. Tidy(c)'
    BY <1>1, StepTidy DEF TidyInv
  <2>3. \A d \in Controllers \ {c} : Tidy(d)'
    BY <2>1 DEF OthersSame, TidyInv, Tidy
  <2> QED
    BY <2>2, <2>3 DEF TidyInv
<1>2. CASE UNCHANGED <<table, procVars>>
  BY <1>2 DEF TidyInv, Tidy, procVars
<1> QED
  BY <1>1, <1>2, NextCases

LEMMA NextClaims ==
  ASSUME OneSpelling, OwnIDs, PlainSources, Shapes, ZoneInv, ClaimInv, [Next]_vars
  PROVE  ClaimInv'
<1>1. CASE \E c \in Controllers : Step(c) \/ CacheExpires(c) \/ Restart(c)
  BY <1>1, StepInv
<1>2. CASE UNCHANGED <<table, procVars>>
  <2>1. \A d \in Controllers : Own(d)' = Own(d)
    BY <1>2, SameTable
  <2>2. \A d \in Controllers : ProcInv(d)'
    BY <1>2, <2>1, SameInv DEF ClaimInv, procVars
  <2> QED
    BY <2>2 DEF ClaimInv
<1> QED
  BY <1>1, <1>2, NextCases

(* What may happen to the zone in a step.                                  *)
ZoneCases ==
  \/ UNCHANGED <<zone, foreign>>
  \/ \E c \in Controllers : \E ch :
       /\ pc[c] = "apply" /\ Called(c) /\ UNCHANGED <<table, foreign>>
       /\ Within(ch, changes[c]) /\ Submits(ch)
  \/ \E c \in Controllers : \E s \in SourceLists[c] : \E i \in DOMAIN s :
       /\ zone' = ApplyBatch(zone, [EmptyBatch EXCEPT !.create = Entries({s[i]})])
       /\ foreign' = foreign \union {Key(s[i])} /\ Key(s[i]) \notin DOMAIN zone
       /\ UNCHANGED <<table, procVars>>

LEMMA NextZone ==
  ASSUME Shapes, [Next]_vars
  PROVE  ZoneCases
<1>1. CASE \E c \in Controllers : Calls(c)
  <2>1. PICK c \in Controllers : Calls(c)
    BY <1>1
  <2>2. PICK ch, left, done : Provides(c, ch, left, done)
    BY <2>1, CallProvides
  <2> QED
    BY <2>2 DEF Provides, ZoneCases
<1>2. CASE ManualCreate
  BY <1>2 DEF ManualCreate, ZoneCases
<1>3. CASE ~(ManualCreate \/ \E c \in Controllers : Calls(c))
  <2>1. UNCHANGED <<zone, foreign>>
    BY <1>3 DEF Next, vars, Step, Calls, ReadLabels, ListRecords, PlanChanges, ClaimChunk, ClaimError,
                ClaimsDone, CleanupChunk, CleanupFails, CleanupDone,
                CacheExpires, Restart, SourceChanges, Calm
  <2> QED
    BY <2>1 DEF ZoneCases
<1> QED
  BY <1>1, <1>2, <1>3

LEMMA KeyTriple ==
  ASSUME NEW e
  PROVE  Key(e) = <<Key(e)[1], Key(e)[2], Key(e)[3]>> /\ Key(e)[3] = e.type
  BY DEF Key

LEMMA NextZoneInv ==
  ASSUME Shapes, ZoneInv, [Next]_vars
  PROVE  ZoneInv'
<1>1. ZoneCases
  BY NextZone
<1>2. CASE UNCHANGED <<zone, foreign>>
  BY <1>2 DEF ZoneInv
<1>3. ASSUME NEW ch, Submits(ch)
      PROVE  ZoneInv'
  <2>1. \A k \in DOMAIN zone' :
          \/ k \in DOMAIN zone /\ zone'[k] = zone[k]
          \/ \E e \in ch.create \union ch.updateNew : k = Key(e) /\ Migrate \notin zone'[k].ps
    BY <1>3, PlanBatch DEF Submits
  <2> QED
    BY <2>1, KeyTriple DEF ZoneInv
<1>4. ASSUME NEW x, zone' = ApplyBatch(zone, [EmptyBatch EXCEPT !.create = Entries({x})])
      PROVE  ZoneInv'
  <2>1. \A k \in DOMAIN zone' : \/ k \in DOMAIN zone /\ zone'[k] = zone[k]
                                \/ k = Key(x) /\ Migrate \notin zone'[k].ps
    BY <1>4, ManualBatch
  <2> QED
    BY <2>1, KeyTriple DEF ZoneInv
<1> QED
  BY <1>1, <1>2, <1>3, <1>4 DEF ZoneCases

LEMMA RegistryInvHolds ==
  ASSUME OneSpelling, OwnIDs, PlainSources
  PROVE  Spec => []RegistryInv
<1>1. Init => RegistryInv
  BY InitInv
<1>2. RegistryInv /\ [Next]_vars => RegistryInv'
  BY NextShapes, NextTidy, NextClaims, NextZoneInv DEF RegistryInv
<1> QED
  BY <1>1, <1>2, PTL DEF Spec

(* When a plan is made the labels have been read, and between the runs and *)
(* when a plan is made they are exactly the claims of their owner, for any *)
(* number of processes and any failures.                                   *)
THEOREM DynamoDBLabelsExact ==
  ASSUME OneSpelling, OwnIDs, PlainSources
  PROVE  Spec => []LabelsExact
<1>1. RegistryInv => LabelsExact
  <2> SUFFICES ASSUME RegistryInv, NEW c \in Controllers
               PROVE  /\ pc[c] = "plan" \/ cache[c].fresh => labels[c].read
                      /\ pc[c] \in {"idle", "plan"} /\ labels[c].read =>
                           labels[c].map = readLabels(OwnID(c))
    BY DEF LabelsExact
  <2>1. LabelInv(c) /\ ViewInv(c) /\ StatementInv(c) /\ IsMap(labels[c].map)
    BY DEF RegistryInv, ClaimInv, ProcInv, TidyInv, Tidy
  <2>2. pc[c] = "plan" \/ cache[c].fresh => labels[c].read
    BY <2>1 DEF ViewInv
  <2>3. ASSUME pc[c] \in {"idle", "plan"}, labels[c].read
        PROVE  labels[c].map = readLabels(OwnID(c))
    <3>1. stmts[c] = {} /\ \A k : ~Leaving(c, k)
      BY <2>1, <2>3 DEF StatementInv, Leaving
    <3>2. \A k \in DOMAIN labels[c].map : k \in Own(c) /\ table[k].l = labels[c].map[k]
      BY <2>1, <2>3, <3>1 DEF LabelInv, Backed
    <3>3. \A k \in Own(c) : k \in DOMAIN labels[c].map
      BY <2>1, <2>3, <3>1 DEF LabelInv
    <3>4. DOMAIN labels[c].map = Own(c)
      BY <3>2, <3>3
    <3> QED
      BY <2>1, <3>2, <3>4 DEF readLabels, Own, IsMap
  <2> QED
    BY <2>2, <2>3
<1> QED
  BY <1>1, RegistryInvHolds, PTL

(* A claim is changed and removed by its owner only, although UPDATE       *)
(* statements name only the key.                                           *)
THEOREM DynamoDBClaimsKept ==
  ASSUME OneSpelling, OwnIDs, PlainSources
  PROVE  Spec => ClaimsKept
<1>1. RegistryInv /\ [Next]_vars => [ClaimStep]_vars
  <2> SUFFICES ASSUME RegistryInv, [Next]_vars
               PROVE  ClaimStep
    OBVIOUS
  <2>0. Shapes /\ ClaimInv /\ ZoneInv
    BY DEF RegistryInv
  <2>1. CASE UNCHANGED table
    BY <2>1 DEF ClaimStep
  <2>2. ASSUME NEW c \in Controllers, NEW C, C \subseteq stmts[c], Execute(C, OwnID(c)),
               pc[c] \in {"claim", "cleanup"}, stmts'[c] \intersect C = {}
        PROVE  ClaimStep
    <3>1. /\ TableStep(c)
          /\ \A k \in Own(c) : (\A s \in C : s.k # k) => k \in Own(c)' /\ table'[k] = table[k]
          /\ \A k : k \in Own(c)' <=> k \in DOMAIN table' /\ table'[k].o = OwnID(c)
      BY <2>0, <2>2, ChunkStep DEF ClaimInv
    <3> SUFFICES ASSUME NEW k \in DOMAIN table
                 PROVE  \/ k \in DOMAIN table' /\ table'[k] = table[k]
                        \/ \E d \in Controllers :
                             /\ table[k].o = OwnID(d) /\ stmts'[d] # stmts[d]
                             /\ k \in DOMAIN table' => table'[k].o = OwnID(d)
      BY DEF ClaimStep
    <3>2. CASE k \notin Own(c)
      BY <3>1, <3>2 DEF TableStep
    <3>3. CASE k \in Own(c) /\ \A s \in C : s.k # k
      BY <3>1, <3>3
    <3>4. CASE k \in Own(c) /\ \E s \in C : s.k = k
      <4>1. stmts'[c] # stmts[c]
        BY <2>2, <3>4
      <4>2. table[k].o = OwnID(c)
        BY <3>4 DEF Own, Claims
      <4>3. k \in DOMAIN table' => table'[k].o = OwnID(c)
        BY <3>1, <3>4 DEF TableStep
      <4> QED
        BY <4>1, <4>2, <4>3
    <3> QED
      BY <3>2, <3>3, <3>4
  <2>3. ASSUME NEW c \in Controllers, ClaimChunk(c) \/ CleanupChunk(c)
        PROVE  ClaimStep
    <3>1. PICK C \in Chunks(stmts[c]) : /\ Execute(C, OwnID(c))
                                        /\ stmts' = [stmts EXCEPT ![c] = @ \ C]
      BY <2>3 DEF ClaimChunk, CleanupChunk
    <3>2. C \subseteq stmts[c] /\ stmts'[c] \intersect C = {}
      BY <2>0, <3>1, ChunkSubset DEF Shapes
    <3> QED
      BY <2>2, <2>3, <3>1, <3>2 DEF ClaimChunk, CleanupChunk
  <2>4. ASSUME NEW c \in Controllers, ClaimError(c) \/ CleanupFails(c)
        PROVE  ClaimStep
    <3>1. PICK C \in Chunks(stmts[c]) : \E ok \in SUBSET C : Execute(ok, OwnID(c))
      BY <2>4 DEF ClaimError, CleanupFails
    <3>2. PICK ok \in SUBSET C : Execute(ok, OwnID(c))
      BY <3>1
    <3>3. ok \subseteq stmts[c] /\ stmts'[c] = {}
      BY <2>0, <2>4, ChunkSubset DEF Shapes, ClaimError, CleanupFails, Exit
    <3> QED
      BY <2>2, <2>4, <3>2, <3>3 DEF ClaimError, CleanupFails
  <2>5. CASE ~\E c \in Controllers :
               ClaimChunk(c) \/ ClaimError(c) \/ CleanupChunk(c) \/ CleanupFails(c)
    <3>1. UNCHANGED table
      BY <2>5 DEF Next, vars, Step, ReadLabels, ListRecords, PlanChanges,
                  ClaimsDone, ProviderApplies, ProviderFails, PartApplies, PartFails, CleanupDone,
                  CacheExpires, Restart, SourceChanges, ManualCreate, Calm
    <3> QED
      BY <2>1, <3>1
  <2> QED
    BY <2>3, <2>4, <2>5
<1> QED
  BY <1>1, RegistryInvHolds, PTL DEF Spec, ClaimsKept

-----------------------------------------------------------------------------
(* A zone without TXT records of the TXT registry.                         *)
FreshProc(c) ==
  /\ \A e \in view[c] \union changes[c].create \union changes[c].updateNew
              \union changes[c].delete : ~Marked(e)
  /\ cache[c].fresh => \A e \in cache[c].eps : ~Marked(e)

LEMMA FreshStep ==
  ASSUME OneSpelling, PlainSources, RegistryInv, FreshInv, NEW c \in Controllers,
         Step(c) \/ CacheExpires(c) \/ Restart(c)
  PROVE  FreshProc(c)'
<1>1. Shapes /\ ProcInv(c) /\ ZoneInv /\ FreshProc(c) /\ \A k \in DOMAIN zone : k[3] # "TXT"
  BY DEF RegistryInv, ClaimInv, FreshInv, FreshProc
<1>2. CASE ReadLabels(c) \/ ClaimsDone(c) \/ CleanupChunk(c) \/ CleanupDone(c)
  <2>1. UNCHANGED <<view, changes, cache>>
    BY <1>2 DEF ReadLabels, ClaimsDone, CleanupChunk, CleanupDone
  <2> QED
    BY <1>1, <2>1 DEF FreshProc
<1>3. CASE ListRecords(c)
  <2>1. CASE cache[c].filled /\ cache[c].fresh
    <3>1. view'[c] = cache[c].eps /\ cache' = cache /\ changes' = changes
      BY <1>1, <1>3, <2>1 DEF ListRecords, Shapes
    <3> QED
      BY <1>1, <2>1, <3>1 DEF FreshProc
  <2>2. CASE ~(cache[c].filled /\ cache[c].fresh)
    <3> DEFINE E == Records(zone, OwnID(c), labels[c].map)
    <3>1. /\ view'[c] = E /\ changes' = changes
          /\ cache'[c] = IF Caching THEN [filled |-> TRUE, fresh |-> TRUE, eps |-> view'[c]]
                                    ELSE NoCache
      BY <1>1, <1>3, <2>2 DEF ListRecords, Shapes
    <3>2. Listed(E, OwnID(c), labels[c].map)
      BY <1>1, RecordsParts
    <3> HIDE DEF E
    <3>3. \A e \in E : ~Marked(e)
      BY <1>1, <3>2 DEF Listed
    <3> QED
      BY <1>1, <3>1, <3>3 DEF FreshProc, NoCache
  <2> QED
    BY <2>1, <2>2
<1>4. CASE PlanChanges(c)
  <2>1. pc[c] = "plan" /\ view'[c] = {}
    BY <1>1, <1>4 DEF PlanChanges, Shapes
  <2>2. UniqueKeys(view[c]) /\ (cache[c].fresh => cache[c].eps = view[c] /\ cache[c].filled)
    BY <1>1, <2>1 DEF ProcInv, ViewInv, Live
  <2>3. CASE UNCHANGED <<changes, cache>>
    BY <1>1, <2>1, <2>3 DEF FreshProc
  <2>4. ASSUME NEW ch,
               ch = [Calculate(Config[c], view[c], src[c]) EXCEPT !.create = Claimed(Config[c], @)],
               changes' = [changes EXCEPT ![c] = ch],
               cache' = [cache EXCEPT ![c] = CacheAfter(@, ch)]
        PROVE  FreshProc(c)'
    <3>1. Planned(c, ch, view[c])
      BY <1>1, <2>2, <2>4, PlanIsPlanned
    <3>2. changes'[c] = ch /\ cache'[c] = CacheAfter(cache[c], ch)
          /\ DOMAIN cache[c] = {"filled", "fresh", "eps"}
      BY <1>1, <2>4 DEF Shapes
    <3>3. \A e \in ch.create \union ch.updateNew \union ch.delete : ~Marked(e)
      BY <1>1, <3>1 DEF Planned, FreshProc
    <3>4. cache'[c].fresh => /\ cache[c].fresh
                             /\ \A e \in cache'[c].eps :
                                  e \in cache[c].eps \/ e \in ch.create \union ch.updateNew
      BY <3>2 DEF CacheAfter, NoCache, RemoveFromCache
    <3> QED
      BY <1>1, <2>1, <3>2, <3>3, <3>4 DEF FreshProc
  <2> QED
    BY <1>4, <2>3, <2>4 DEF PlanChanges
<1>5. CASE ClaimChunk(c)
  <2>1. PICK C : DropRefused(c, C)
    BY <1>5 DEF ClaimChunk
  <2>2. /\ changes'[c].create \subseteq changes[c].create
        /\ changes'[c].updateNew = changes[c].updateNew /\ changes'[c].delete = changes[c].delete
        /\ cache'[c].eps \subseteq cache[c].eps /\ cache'[c].fresh = cache[c].fresh
        /\ view' = view
    BY <1>1, <1>5, <2>1 DEF DropRefused, RemoveFromCache, Shapes, Fields, ClaimChunk
  <2> QED
    BY <1>1, <2>2 DEF FreshProc
<1>6. CASE ClaimError(c) \/ CleanupFails(c) \/ Calls(c) \/ Restart(c)
  <2>1. /\ changes'[c] \in {changes[c], NoChanges} /\ view'[c] \subseteq view[c]
        /\ cache' = cache \/ cache'[c] = NoCache
    <3>1. CASE Calls(c)
      BY <1>1, <3>1, CallProvides DEF Provides, GoOn, Succeed, Abort, Shapes
    <3>2. CASE ClaimError(c) \/ CleanupFails(c) \/ Restart(c)
      BY <1>1, <3>2 DEF ClaimError, CleanupFails, Restart, Exit, Shapes
    <3> QED
      BY <1>6, <3>1, <3>2
  <2> QED
    BY <1>1, <2>1 DEF FreshProc, NoChanges, NoCache
<1>7. CASE CacheExpires(c)
  <2>1. UNCHANGED <<view, changes>> /\ ~cache'[c].fresh
    BY <1>1, <1>7 DEF CacheExpires, Shapes
  <2> QED
    BY <1>1, <2>1 DEF FreshProc
<1> QED
  BY <1>2, <1>3, <1>4, <1>5, <1>6, <1>7 DEF Step, Calls

LEMMA NextFresh ==
  ASSUME OneSpelling, PlainSources, RegistryInv, FreshInv, [Next]_vars
  PROVE  FreshInv'
<1>1. Shapes /\ ClaimInv
  BY DEF RegistryInv
<1>2. \A d \in Controllers : FreshProc(d)'
  <2>1. \A d \in Controllers : FreshProc(d)
    BY DEF FreshInv, FreshProc
  <2>2. CASE UNCHANGED procVars
    BY <2>1, <2>2 DEF FreshProc, procVars
  <2>3. ASSUME NEW c \in Controllers, Step(c) \/ CacheExpires(c) \/ Restart(c)
        PROVE  \A d \in Controllers : FreshProc(d)'
    <3>1. FreshProc(c)'
      BY <2>3, FreshStep
    <3>2. OthersSame(c)
      BY <1>1, <2>3, StepShapes DEF ClaimInv
    <3>3. \A d \in Controllers \ {c} : FreshProc(d)'
      BY <2>1, <3>2 DEF FreshProc, OthersSame
    <3> QED
      BY <3>1, <3>3
  <2> QED
    BY <2>2, <2>3, NextCases
<1>3. \A k \in DOMAIN zone' : k[3] # "TXT"
  <2>1. ZoneCases
    BY <1>1, NextZone
  <2>2. \A k \in DOMAIN zone : k[3] # "TXT"
    BY DEF FreshInv
  <2>3. ASSUME NEW c \in Controllers, NEW ch, Within(ch, changes[c]), Submits(ch),
               NEW k \in DOMAIN zone'
        PROVE  k[3] # "TXT"
    <3>1. \/ k \in DOMAIN zone
          \/ \E e \in changes[c].create \union changes[c].updateNew : k = Key(e)
      BY <2>3, PlanBatch DEF Within, Submits
    <3>2. \A e \in changes[c].create \union changes[c].updateNew : Key(e)[3] # "TXT"
      BY KeyTriple DEF FreshInv, Marked
    <3> QED
      BY <2>2, <3>1, <3>2
  <2>4. ASSUME NEW c \in Controllers, NEW s \in SourceLists[c], NEW i \in DOMAIN s,
               zone' = ApplyBatch(zone, [EmptyBatch EXCEPT !.create = Entries({s[i]})]),
               NEW k \in DOMAIN zone'
        PROVE  k[3] # "TXT"
    <3>1. k \in DOMAIN zone \/ k = Key(s[i])
      BY <2>4, ManualBatch
    <3>2. Key(s[i])[3] # "TXT"
      BY KeyTriple DEF PlainSources
    <3> QED
      BY <2>2, <3>1, <3>2
  <2> QED
    BY <2>1, <2>2, <2>3, <2>4 DEF ZoneCases
<1> QED
  BY <1>2, <1>3 DEF FreshInv, FreshProc

LEMMA InitFresh ==
  ASSUME FreshZone, Init
  PROVE  FreshInv
<1>1. \A c \in Controllers : view[c] = {} /\ changes[c] = NoChanges /\ cache[c] = NoCache
  BY DEF Init
<1> QED
  BY <1>1 DEF FreshInv, FreshZone, Init, NoChanges, NoCache

(* What the provider is about to change is claimed.                        *)
LEMMA ChangesClaimed ==
  ASSUME RegistryInv, FreshInv, NEW c \in Controllers, pc[c] = "apply"
  PROVE  \A e \in changes[c].create \union changes[c].updateNew \union changes[c].delete :
           Key(e) \in Own(c)
<1>1. ChangeInv(c) /\ stmts[c] = {}
  BY DEF RegistryInv, ClaimInv, ProcInv, StatementInv
<1>2. \A k : ~Pending(c, k)
  BY <1>1 DEF Pending
<1> QED
  BY <1>1, <1>2 DEF ChangeInv, FreshInv

(* A process changes the records it has claimed only.                      *)
THEOREM DynamoDBRecordsClaimed ==
  ASSUME OneSpelling, OwnIDs, PlainSources, FreshZone
  PROVE  Spec => RecordsClaimed
<1>1. RegistryInv /\ FreshInv /\ [Next]_vars => [RecordStep]_vars
  <2> SUFFICES ASSUME RegistryInv, FreshInv, [Next]_vars,
                      NEW k \in DOMAIN zone \union DOMAIN zone'
               PROVE  \/ k \in DOMAIN zone \intersect DOMAIN zone' /\ zone'[k] = zone[k]
                      \/ k \in foreign'
                      \/ \E c \in Controllers :
                           /\ Called(c)
                           /\ k \in Claims(OwnID(c)) \/ (k \in DOMAIN zone /\ Holder[k] = OwnID(c))
    BY DEF RecordStep
  <2>1. ZoneCases
    BY NextZone DEF RegistryInv
  <2>2. CASE UNCHANGED <<zone, foreign>>
    BY <2>2
  <2>3. ASSUME NEW c \in Controllers, pc[c] = "apply", Called(c),
               NEW ch, Within(ch, changes[c]), Submits(ch)
        PROVE  \/ k \in DOMAIN zone \intersect DOMAIN zone' /\ zone'[k] = zone[k]
               \/ Called(c) /\ k \in Claims(OwnID(c))
    <3>1. \/ k \in DOMAIN zone \intersect DOMAIN zone' /\ zone'[k] = zone[k]
          \/ \E e \in changes[c].create \union changes[c].updateNew \union changes[c].delete :
               k = Key(e)
      BY <2>3, PlanBatch DEF Within, Submits
    <3> QED
      BY <2>3, <3>1, ChangesClaimed DEF Own
  <2>4. ASSUME NEW x, zone' = ApplyBatch(zone, [EmptyBatch EXCEPT !.create = Entries({x})]),
               foreign' = foreign \union {Key(x)}
        PROVE  \/ k \in DOMAIN zone \intersect DOMAIN zone' /\ zone'[k] = zone[k]
               \/ k \in foreign'
    BY <2>4, ManualBatch
  <2> QED
    BY <2>1, <2>2, <2>3, <2>4 DEF ZoneCases
<1>2. Init => FreshInv
  BY InitFresh
<1>3. RegistryInv /\ FreshInv /\ [Next]_vars => FreshInv'
  BY NextFresh
<1> QED
  BY <1>1, <1>2, <1>3, RegistryInvHolds, PTL DEF Spec, RecordsClaimed

-----------------------------------------------------------------------------
(* The statements for the table leave the holders of records alone: INSERT *)
(* never meets a record that nobody has claimed, because the plan was made *)
(* from a list in which it is, and DELETE only the claims of records that  *)
(* are gone.                                                               *)
HoldersKept ==
  \A k \in Promised : /\ k \in DOMAIN table' <=> k \in DOMAIN table
                      /\ k \in DOMAIN table => table'[k].o = table[k].o

LEMMA ChunkHeld ==
  ASSUME NEW c \in Controllers, Shapes, ProcInv(c), Held(c), pc[c] \in {"claim", "cleanup"},
         NEW C, C \subseteq stmts[c], Execute(C, OwnID(c))
  PROVE  HoldersKept
<1>1. /\ TableStep(c)
      /\ \A k : k \in Own(c)' <=> k \in DOMAIN table' /\ table'[k].o = OwnID(c)
      /\ \A k \in Own(c) : (\A s \in C : s.k # k) => k \in Own(c)' /\ table'[k] = table[k]
      /\ \A k \in Own(c) : (\A s \in C : s.k = k => s.op # "DELETE") => k \in Own(c)'
      /\ \A k \in Own(c)' : k \notin Own(c) =>
           k \notin DOMAIN table /\ \E s \in C : s.op = "INSERT" /\ s.k = k
  BY ChunkStep
<1>2. \A k : k \in Own(c) <=> k \in DOMAIN table /\ table[k].o = OwnID(c)
  BY DEF Own, Claims
<1>3. ASSUME NEW k \in Promised, k \in DOMAIN table \ Own(c)
      PROVE  k \in DOMAIN table' /\ table'[k].o = table[k].o
  BY <1>1, <1>3 DEF TableStep
<1>4. ASSUME NEW k \in Promised, k \in Own(c)
      PROVE  k \in DOMAIN table' /\ table'[k].o = table[k].o
  <2>1. CASE pc[c] = "claim"
    <3>1. \A s \in C : s.op # "DELETE"
      BY <2>1 DEF ProcInv, StatementInv
    <3> QED
      BY <1>1, <1>2, <1>4, <3>1
  <2>2. CASE pc[c] = "cleanup"
    <3>1. \A s \in C : s.k # k
      BY <1>4, <2>2 DEF Held
    <3> QED
      BY <1>1, <1>2, <1>4, <3>1
  <2> QED
    BY <2>1, <2>2
<1>5. ASSUME NEW k \in Promised, k \notin DOMAIN table, k \in DOMAIN table'
      PROVE  FALSE
  <2>1. k \in Own(c)' /\ k \notin Own(c)
    BY <1>1, <1>2, <1>5 DEF TableStep
  <2>2. PICK s \in C : s.op = "INSERT" /\ s.k = k
    BY <1>1, <2>1
  <2>3. Pending(c, k) /\ k \in Free
    BY <1>5, <2>2 DEF Pending, Free
  <2> QED
    BY <2>3 DEF Held
<1> QED
  BY <1>3, <1>4, <1>5 DEF HoldersKept

(* What a step does to the sets that the invariant is about, seen by d.    *)
Shrinks(d) ==
  /\ \A k \in Free' : k \in Free
  /\ \A k \in Own(d)' : k \in Promised' => k \in Own(d) /\ k \in Promised

LEMMA QuietShrinks ==
  ASSUME HoldersKept, UNCHANGED <<zone, foreign>>, NEW d \in Controllers
  PROVE  Shrinks(d)
<1>1. Promised' = Promised
  BY DEF Promised
<1>2. \A k \in Own(d)' : k \in DOMAIN table' /\ table'[k].o = OwnID(d)
  BY DEF Own, Claims, OwnID
<1>3. \A k : k \in Own(d) <=> k \in DOMAIN table /\ table[k].o = OwnID(d)
  BY DEF Own, Claims
<1> QED
  BY <1>1, <1>2, <1>3 DEF Shrinks, HoldersKept, Free

LEMMA SameHeld ==
  ASSUME NEW d \in Controllers, Held(d), Shrinks(d),
         pc'[d] = pc[d], view'[d] = view[d], orphaned'[d] = orphaned[d],
         cache'[d] = cache[d], stmts'[d] \subseteq stmts[d],
         changes'[d] = changes[d], parts'[d] = parts[d]
  PROVE  Held(d)'
<1>1. \A k : Pending(d, k)' => Pending(d, k)
  BY DEF Pending
<1>2. ASSUME NEW k \in Free'
      PROVE  /\ (pc[d] = "plan" => k \in Keys(view[d]))'
             /\ (cache[d].fresh => k \in Keys(cache[d].eps))'
             /\ ~Pending(d, k)'
  BY <1>1 DEF Held, Shrinks
<1>3. ASSUME NEW k \in Own(d)', k \in Promised'
      PROVE  /\ (pc[d] \in {"plan", "claim", "apply"} \/ (pc[d] = "idle" /\ cache[d].fresh) =>
                   k \notin orphaned[d])'
             /\ (pc[d] = "cleanup" => \A s \in stmts[d] : s.k # k)'
             /\ (pc[d] = "apply" => \A e \in changes[d].delete :
                                      e.name \in parts[d].done => Key(e) # k)'
  <2>1. k \in Own(d) \intersect Promised
    BY <1>3 DEF Shrinks
  <2> QED
    BY <2>1 DEF Held
<1>4. (pc[d] = "cleanup" => orphaned[d] = {})'
  BY DEF Held
<1> QED
  BY <1>2, <1>3, <1>4 DEF Held

LEMMA ResetHeld ==
  ASSUME NEW c \in Controllers, pc'[c] = "idle", ~cache'[c].fresh, stmts'[c] = {}
  PROVE  Held(c)'
<1>1. \A k : ~Pending(c, k)'
  BY DEF Pending
<1> QED
  BY <1>1 DEF Held

(* Listing the records, from the zone or from the cache.                   *)
LEMMA ListHeld ==
  ASSUME NEW c \in Controllers, Shapes, ZoneInv, ProcInv(c), Held(c), Shrinks(c), ListRecords(c)
  PROVE  Held(c)'
<1>1. /\ pc[c] = "idle" /\ pc'[c] = "plan" /\ stmts'[c] = {} /\ UNCHANGED <<zone, table, foreign>>
  BY DEF ListRecords, Shapes, ProcInv, StatementInv
<1>2. \A k : ~Pending(c, k)'
  BY <1>1 DEF Pending
<1>3. CASE cache[c].filled /\ cache[c].fresh
  <2>1. view'[c] = cache[c].eps /\ cache'[c] = cache[c] /\ orphaned'[c] = orphaned[c]
    BY <1>3 DEF ListRecords, Shapes
  <2>2. \A k \in Free' : k \in Keys(view'[c])
    BY <1>1, <1>3, <2>1 DEF Held, Shrinks
  <2>3. \A k \in Own(c)' : k \in Promised' => k \notin orphaned'[c]
    BY <1>1, <1>3, <2>1 DEF Held, Shrinks
  <2> QED
    BY <1>1, <1>2, <2>1, <2>2, <2>3 DEF Held
<1>4. CASE ~(cache[c].filled /\ cache[c].fresh)
  <2> DEFINE E == Records(zone, OwnID(c), labels[c].map)
  <2>1. /\ view'[c] = E /\ orphaned'[c] = DOMAIN labels[c].map \ DOMAIN zone
        /\ cache'[c] = IF Caching THEN [filled |-> TRUE, fresh |-> TRUE, eps |-> view'[c]]
                                  ELSE NoCache
    BY <1>4 DEF ListRecords, Shapes
  <2>2. Listed(E, OwnID(c), labels[c].map)
    BY RecordsParts
  <2> HIDE DEF E
  <2>3. \A k \in Free' : k \in DOMAIN zone /\ k[3] # "TXT"
    BY <1>1 DEF Free, Promised
  <2>4. \A k \in Free' : k \in Keys(E)
    BY <2>2, <2>3 DEF Listed
  <2>5. \A k \in Promised' : k \notin orphaned'[c]
    BY <1>1, <2>1 DEF Promised
  <2>6. cache'[c].fresh => cache'[c].eps = E
    BY <2>1 DEF NoCache
  <2> QED
    BY <1>1, <1>2, <2>1, <2>4, <2>5, <2>6 DEF Held
<1> QED
  BY <1>3, <1>4

(* The plan does not claim what it has seen, and the cache forgets only    *)
(* the records it changes.                                                 *)
LEMMA PlanHeld ==
  ASSUME OneSpelling, PlainSources, NEW c \in Controllers, Shapes, ProcInv(c), FreshProc(c),
         Held(c), Shrinks(c), PlanChanges(c)
  PROVE  Held(c)'
<1>1. /\ pc[c] = "plan" /\ stmts[c] = {} /\ UniqueKeys(view[c]) /\ \A e \in view[c] : Known(c, e)
      /\ cache[c].fresh => cache[c].filled /\ cache[c].eps = view[c]
  BY DEF PlanChanges, ProcInv, ViewInv, StatementInv, Live
<1>2. /\ \A k \in Free' : k \notin DOMAIN table /\ k \in Keys(view[c])
      /\ \A k \in Own(c)' : k \in Promised' => k \notin orphaned[c]
  BY <1>1 DEF Held, Shrinks, Free
<1>3. ASSUME pc'[c] = "idle", UNCHANGED <<orphaned, cache, stmts>>
      PROVE  Held(c)'
  <2>1. \A k : ~Pending(c, k)'
    BY <1>1, <1>3 DEF Pending
  <2> QED
    BY <1>1, <1>2, <1>3, <2>1 DEF Held
<1>4. ASSUME NEW ch,
             ch = [Calculate(Config[c], view[c], src[c]) EXCEPT !.create = Claimed(Config[c], @)],
             pc'[c] = "claim", stmts'[c] = ClaimStatements(ch, labels[c].map),
             orphaned'[c] = KeepOrphans(orphaned[c], ch), cache'[c] = CacheAfter(cache[c], ch)
      PROVE  Held(c)'
  <2>1. Planned(c, ch, view[c])
    BY <1>1, <1>4, PlanIsPlanned
  <2>2. \A old \in ch.updateOld : Migrate \notin old.ps
    BY <2>1 DEF Planned, FreshProc, Marked
  <2>3. Migrating(ch) = {}
    BY <2>2 DEF Migrating
  <2>4. ASSUME NEW k \in Free', Pending(c, k)'
        PROVE  FALSE
    <3>1. PICK s \in ClaimStatements(ch, labels[c].map) : s.op = "INSERT" /\ s.k = k
      BY <1>4, <2>4 DEF Pending
    <3>2. PICK e \in Inserts(ch, labels[c].map) : s.k = Key(e)
      BY <3>1, StatementParts
    <3>3. e \in ch.create
      BY <2>3, <3>2 DEF Inserts
    <3> QED
      BY <1>2, <2>1, <3>1, <3>2, <3>3 DEF Planned, Keys
  <2>5. ASSUME NEW k \in Free', cache'[c].fresh
        PROVE  k \in Keys(cache'[c].eps)
    <3>1. /\ cache[c].fresh
          /\ cache'[c].eps = RemoveFromCache(cache[c].eps, ch.delete \union ch.updateOld)
                               \union ch.create \union ch.updateNew
      <4>1. cache'[c] = CacheAfter(cache[c], ch) /\ DOMAIN cache[c] = {"filled", "fresh", "eps"}
        BY <1>4 DEF Shapes
      <4>2. cache[c].filled
        BY <1>1, <2>5, <4>1 DEF CacheAfter
      <4>3. cache'[c] = [cache[c] EXCEPT !.eps =
                           RemoveFromCache(@, ch.delete \union ch.updateOld)
                             \union ch.create \union ch.updateNew]
        BY <2>3, <4>1, <4>2 DEF CacheAfter
      <4> QED
        BY <2>5, <4>1, <4>3
    <3>2. PICK e \in view[c] : k = Key(e)
      BY <1>2 DEF Keys
    <3>3. \A d \in ch.delete \union ch.updateOld : Key(d) \in Own(c)
      <4>1. \A d \in ch.delete \union ch.updateOld :
              d \in view[c] /\ d.owner = OwnID(c) /\ ~Marked(d)
        BY <2>1 DEF Planned, FreshProc
      <4>2. \A j : ~Pending(c, j)
        BY <1>1 DEF Pending
      <4> QED
        BY <1>1, <4>1, <4>2 DEF Known
    <3>4. \A d \in ch.delete \union ch.updateOld : Key(d) # Key(e)
      BY <1>2, <3>2, <3>3 DEF Own, Claims
    <3>5. e \in cache'[c].eps
      BY <1>1, <3>1, <3>2, <3>4 DEF RemoveFromCache
    <3> QED
      BY <3>2, <3>5 DEF Keys
  <2>6. orphaned'[c] \subseteq orphaned[c]
    BY <1>4 DEF KeepOrphans
  <2> QED
    BY <1>2, <1>4, <2>4, <2>5, <2>6 DEF Held
<1>5. PICK ch :
       \/ /\ pc' = [pc EXCEPT ![c] = "idle"]
          /\ UNCHANGED <<labels, orphaned, cache, changes, stmts>>
       \/ /\ ch = [Calculate(Config[c], view[c], src[c]) EXCEPT !.create = Claimed(Config[c], @)]
          /\ pc' = [pc EXCEPT ![c] = "claim"]
          /\ stmts' = [stmts EXCEPT ![c] = ClaimStatements(ch, labels[c].map)]
          /\ orphaned' = [orphaned EXCEPT ![c] = KeepOrphans(@, ch)]
          /\ cache' = [cache EXCEPT ![c] = CacheAfter(@, ch)]
  BY DEF PlanChanges
<1> QED
  BY <1>3, <1>4, <1>5 DEF Shapes

(* A refused claim is one that somebody has.                               *)
LEMMA ClaimHeld ==
  ASSUME NEW c \in Controllers, Shapes, ProcInv(c), Held(c), Shrinks(c), ClaimChunk(c)
  PROVE  Held(c)'
<1>1. PICK C \in Chunks(stmts[c]) : DropRefused(c, C) /\ stmts' = [stmts EXCEPT ![c] = @ \ C]
  BY DEF ClaimChunk
<1>2. /\ pc[c] = "claim" /\ pc'[c] = "claim" /\ stmts'[c] \subseteq stmts[c]
      /\ orphaned'[c] = orphaned[c]
  BY <1>1 DEF ClaimChunk, Shapes
<1> DEFINE lost == {e \in changes[c].create : Key(e) \in Refused(C)}
<1>3. cache'[c].fresh = cache[c].fresh /\ cache'[c].eps = RemoveFromCache(cache[c].eps, lost)
  <2>1. cache' = [cache EXCEPT ![c].eps = RemoveFromCache(@, lost)]
    BY <1>1 DEF DropRefused
  <2> HIDE DEF lost
  <2> QED
    BY <2>1 DEF Shapes
<1>4. \A d \in lost : Key(d) \in DOMAIN table
  BY DEF Refused
<1> HIDE DEF lost
<1>5. ASSUME NEW k \in Free'
      PROVE  /\ cache'[c].fresh => k \in Keys(cache'[c].eps)
             /\ ~Pending(c, k)'
  <2>1. /\ k \notin DOMAIN table /\ ~Pending(c, k)
        /\ cache[c].fresh => k \in Keys(cache[c].eps)
    BY <1>2 DEF Shrinks, Held, Free
  <2>2. ~Pending(c, k)'
    BY <1>2, <2>1 DEF Pending
  <2>3. ASSUME cache[c].fresh
        PROVE  k \in Keys(cache'[c].eps)
    <3>1. PICK e \in cache[c].eps : k = Key(e)
      BY <2>1, <2>3 DEF Keys
    <3>2. e \in RemoveFromCache(cache[c].eps, lost)
      BY <1>4, <2>1, <3>1 DEF RemoveFromCache
    <3> QED
      BY <1>3, <3>1, <3>2 DEF Keys
  <2> QED
    BY <1>3, <2>2, <2>3
<1>6. \A k \in Own(c)' : k \in Promised' => k \notin orphaned'[c]
  BY <1>2 DEF Shrinks, Held
<1> QED
  BY <1>2, <1>5, <1>6 DEF Held

(* The provider has carried out some of the changes, or all: the claims    *)
(* that are removed next are those of records that are gone.               *)
LEMMA ProvidesHeld ==
  ASSUME NEW c \in Controllers, Shapes, ProcInv(c), Held(c), NEW ch, NEW left, NEW done,
         Provides(c, ch, left, done), \A k \in Free' : k \in Free
  PROVE  Held(c)'
<1>1. /\ pc[c] = "apply" /\ UNCHANGED <<table, foreign>> /\ Within(ch, changes[c])
      /\ UNCHANGED zone \/ Submits(ch)
      /\ stmts[c] = {}
      /\ \A e \in changes[c].delete :
           e.name \in done => e.name \in parts[c].done \/ (Submits(ch) /\ e \in ch.delete)
  BY DEF Provides, ProcInv, StatementInv
<1>2. ASSUME NEW k \in Own(c)', k \in Promised'
      PROVE  /\ k \notin orphaned[c]
             /\ \A e \in changes[c].delete : e.name \in done => Key(e) # k
  <2>1. k \in DOMAIN zone' \ foreign /\ k[3] # "TXT" /\ k \in Own(c)
    BY <1>1, <1>2, SameTable DEF Promised
  <2>2. \/ k \in DOMAIN zone
        \/ \E x \in changes[c].create \union changes[c].updateNew : k = Key(x)
    BY <1>1, <2>1, PlanBatch DEF Submits, Within
  <2>3. Submits(ch) => \A e \in ch.delete : Key(e) # k
    BY <2>1, PlanBatch DEF Submits
  <2>4. CASE k \in DOMAIN zone
    <3>1. k \in Own(c) \intersect Promised
      BY <2>1, <2>4 DEF Promised
    <3> QED
      BY <1>1, <2>3, <3>1 DEF Held
  <2>5. ASSUME NEW x \in changes[c].create \union changes[c].updateNew, k = Key(x)
        PROVE  k \notin orphaned[c] /\ k \notin Keys(changes[c].delete)
    BY <1>1, <2>5 DEF ProcInv, ChangeInv
  <2> QED
    BY <2>2, <2>4, <2>5 DEF Keys
<1>3. CASE GoOn(c, [left |-> left, done |-> done])
  <2>1. /\ pc' = pc /\ cache' = cache /\ orphaned' = orphaned /\ stmts' = stmts
        /\ changes' = changes /\ parts'[c].done = done
    BY <1>3 DEF GoOn, Shapes
  <2>2. \A k : ~Pending(c, k)'
    BY <1>1, <2>1 DEF Pending
  <2>3. \A k \in Free' : cache'[c].fresh => k \in Keys(cache'[c].eps)
    BY <2>1 DEF Held
  <2> QED
    BY <1>1, <1>2, <2>1, <2>2, <2>3 DEF Held
<1>4. CASE Succeed(c) /\ \A e \in changes[c].delete : e.name \in done
  <2>1. /\ pc'[c] = "cleanup" /\ cache' = cache /\ orphaned'[c] = {}
        /\ stmts'[c] = CleanupStatements(changes[c], orphaned[c])
    BY <1>4 DEF Succeed, Shapes
  <2>2. \A s \in stmts'[c] : s.op = "DELETE" /\ s.k \in Keys(changes[c].delete) \union orphaned[c]
    <3> TAKE s \in stmts'[c]
    <3>1. PICK k \in Keys(changes[c].delete) \union orphaned[c] : s = Delete(k)
      BY <2>1 DEF CleanupStatements
    <3> QED
      BY <3>1 DEF Delete
  <2>3. \A k : ~Pending(c, k)'
    BY <2>2 DEF Pending
  <2>4. \A k \in Own(c)' : k \in Promised' => \A s \in stmts'[c] : s.k # k
    BY <1>2, <1>4, <2>2 DEF Keys
  <2>5. \A k \in Free' : cache'[c].fresh => k \in Keys(cache'[c].eps)
    BY <2>1 DEF Held
  <2> QED
    BY <2>1, <2>3, <2>4, <2>5 DEF Held
<1>5. CASE Abort(c)
  BY <1>5, ResetHeld DEF Abort, NoCache, Shapes
<1> QED
  BY <1>3, <1>4, <1>5 DEF Provides

-----------------------------------------------------------------------------
(* Every step leaves the holders of records alone; only the provider, for  *)
(* the process whose turn it is, changes which records there are.          *)
LEMMA NextHolders ==
  ASSUME Shapes, ClaimInv, HeldInv, [Next]_vars
  PROVE  HoldersKept
<1>1. CASE UNCHANGED table
  BY <1>1 DEF HoldersKept
<1>2. ASSUME NEW c \in Controllers, ClaimChunk(c) \/ CleanupChunk(c)
      PROVE  HoldersKept
  <2>1. PICK C \in Chunks(stmts[c]) : Execute(C, OwnID(c))
    BY <1>2 DEF ClaimChunk, CleanupChunk
  <2>2. C \subseteq stmts[c] /\ pc[c] \in {"claim", "cleanup"}
    BY <1>2, ChunkSubset DEF ClaimChunk, CleanupChunk
  <2> QED
    BY <2>1, <2>2, ChunkHeld DEF ClaimInv, HeldInv
<1>3. ASSUME NEW c \in Controllers, ClaimError(c) \/ CleanupFails(c)
      PROVE  HoldersKept
  <2>1. PICK C \in Chunks(stmts[c]) : \E ok \in SUBSET C : Execute(ok, OwnID(c))
    BY <1>3 DEF ClaimError, CleanupFails
  <2>2. PICK ok \in SUBSET C : Execute(ok, OwnID(c))
    BY <2>1
  <2>3. ok \subseteq stmts[c] /\ pc[c] \in {"claim", "cleanup"}
    BY <1>3, ChunkSubset DEF ClaimError, CleanupFails
  <2> QED
    BY <2>2, <2>3, ChunkHeld DEF ClaimInv, HeldInv
<1>4. CASE ~\E c \in Controllers :
             ClaimChunk(c) \/ ClaimError(c) \/ CleanupChunk(c) \/ CleanupFails(c)
  <2>1. UNCHANGED table
    BY <1>4 DEF Next, vars, Step, ReadLabels, ListRecords, PlanChanges,
                ClaimsDone, ProviderApplies, ProviderFails, PartApplies, PartFails, CleanupDone,
                CacheExpires, Restart, SourceChanges, ManualCreate, Calm
  <2> QED
    BY <1>1, <2>1
<1> QED
  BY <1>2, <1>3, <1>4

LEMMA ProviderShrinks ==
  ASSUME OwnIDs, RegistryInv, FreshInv, NEW c \in Controllers, pc[c] = "apply",
         UNCHANGED <<table, foreign>>, NEW ch, Within(ch, changes[c]), Submits(ch)
  PROVE  /\ \A k \in Free' : k \in Free
         /\ \A d \in Controllers \ {c} : Shrinks(d)
<1>1. \A k \in Promised' : k \in Promised \/ k \in Own(c)
  <2> TAKE k \in Promised'
  <2>1. k \in DOMAIN zone' \ foreign /\ k[3] # "TXT"
    BY DEF Promised
  <2>2. \/ k \in DOMAIN zone
        \/ \E e \in changes[c].create \union changes[c].updateNew : k = Key(e)
    BY <2>1, PlanBatch DEF Within, Submits
  <2> QED
    BY <2>1, <2>2, ChangesClaimed DEF Promised
<1>2. \A k \in Own(c) : k \in DOMAIN table /\ table[k].o = OwnID(c)
  BY DEF Own, Claims
<1>3. \A k \in Free' : k \in Free
  BY <1>1, <1>2 DEF Free
<1>4. ASSUME NEW d \in Controllers \ {c}, NEW k \in Own(d)', k \in Promised'
      PROVE  k \in Own(d) /\ k \in Promised
  <2>1. k \in Own(d)
    BY SameTable
  <2>2. k \notin Own(c)
    BY <1>2, <2>1 DEF OwnIDs, Own, Claims
  <2> QED
    BY <1>1, <1>4, <2>1, <2>2
<1> QED
  BY <1>3, <1>4 DEF Shrinks

(* A step of c that does not call the provider.                            *)
LEMMA QuietHeld ==
  ASSUME OneSpelling, PlainSources, RegistryInv, FreshInv, HeldInv, NEW c \in Controllers,
         Step(c) \/ CacheExpires(c) \/ Restart(c), Shrinks(c),
         ~Calls(c)
  PROVE  Held(c)'
<1>1. Shapes /\ Tidy(c) /\ ProcInv(c) /\ ZoneInv /\ FreshProc(c) /\ Held(c)
  BY DEF RegistryInv, TidyInv, ClaimInv, FreshInv, FreshProc, HeldInv
<1>2. CASE ReadLabels(c)
  BY <1>1, <1>2, SameHeld DEF ReadLabels, Shapes
<1>3. CASE ListRecords(c)
  BY <1>1, <1>3, ListHeld
<1>4. CASE PlanChanges(c)
  BY <1>1, <1>4, PlanHeld
<1>5. CASE ClaimChunk(c)
  BY <1>1, <1>5, ClaimHeld
<1>6. CASE ClaimError(c) \/ CleanupFails(c) \/ Restart(c)
  BY <1>1, <1>6, ResetHeld DEF ClaimError, CleanupFails, Exit, Restart, NoCache, Shapes
<1>7. CASE CleanupChunk(c)
  BY <1>1, <1>7, SameHeld DEF CleanupChunk, Shapes
<1>8. CASE CleanupDone(c)
  <2>1. /\ pc[c] = "cleanup" /\ pc'[c] = "idle" /\ stmts'[c] = {} /\ cache' = cache
        /\ orphaned' = orphaned
    BY <1>1, <1>8 DEF CleanupDone, Shapes
  <2>2. \A k : ~Pending(c, k)'
    BY <2>1 DEF Pending
  <2>3. orphaned[c] = {} /\ \A k \in Free' : cache[c].fresh => k \in Keys(cache[c].eps)
    BY <1>1, <2>1 DEF Held, Shrinks
  <2> QED
    BY <2>1, <2>2, <2>3 DEF Held
<1>9. CASE ClaimsDone(c)
  <2>1. /\ pc[c] = "claim" /\ pc'[c] = "apply" /\ stmts' = stmts /\ cache' = cache
        /\ orphaned' = orphaned
    BY <1>1, <1>9 DEF ClaimsDone, Shapes
  <2>2. \A k : Pending(c, k)' => Pending(c, k)
    BY <2>1 DEF Pending
  <2>3. \A k \in Free' : ~Pending(c, k)' /\ (cache[c].fresh => k \in Keys(cache[c].eps))
    BY <1>1, <2>1, <2>2 DEF Held, Shrinks
  <2>4. \A k \in Own(c)' : k \in Promised' => k \notin orphaned[c]
    BY <1>1, <2>1 DEF Held, Shrinks
  <2>5. parts'[c].done = {}
    BY <1>1, <1>9 DEF ClaimsDone, Tidy, Whole
  <2> QED
    BY <2>1, <2>3, <2>4, <2>5 DEF Held
<1>10. CASE CacheExpires(c)
  <2>1. /\ ~cache'[c].fresh /\ UNCHANGED <<pc, view, stmts, orphaned, changes, parts>>
    BY <1>1, <1>10 DEF CacheExpires, Shapes
  <2>2. \A k : Pending(c, k)' => Pending(c, k)
    BY <2>1 DEF Pending
  <2>3. \A k \in Free' : ~Pending(c, k)' /\ (pc[c] = "plan" => k \in Keys(view[c]))
    BY <1>1, <2>1, <2>2 DEF Held, Shrinks
  <2>4. \A k \in Own(c)' : k \in Promised' =>
          /\ pc[c] \in {"plan", "claim", "apply"} => k \notin orphaned[c]
          /\ pc[c] = "cleanup" => \A s \in stmts[c] : s.k # k
          /\ pc[c] = "apply" => \A e \in changes[c].delete :
                                  e.name \in parts[c].done => Key(e) # k
    BY <1>1, <2>1 DEF Held, Shrinks
  <2>5. pc[c] = "cleanup" => orphaned[c] = {}
    BY <1>1 DEF Held
  <2> QED
    BY <2>1, <2>3, <2>4, <2>5 DEF Held
<1> QED
  BY <1>2, <1>3, <1>4, <1>5, <1>6, <1>7, <1>8, <1>9, <1>10 DEF Step, Calls

LEMMA NextHeld ==
  ASSUME OneSpelling, OwnIDs, PlainSources, RegistryInv, FreshInv, HeldInv, [Next]_vars
  PROVE  HeldInv'
<1>0. Shapes /\ ClaimInv /\ HoldersKept
  BY NextHolders DEF RegistryInv
<1>1. ASSUME NEW c \in Controllers, Step(c) \/ CacheExpires(c) \/ Restart(c),
             \A d \in Controllers \ {c} : Shrinks(d), Held(c)'
      PROVE  HeldInv'
  <2>1. OthersSame(c)
    BY <1>0, <1>1, StepShapes DEF ClaimInv
  <2>2. \A d \in Controllers \ {c} : Held(d)'
    BY <1>1, <2>1, SameHeld DEF HeldInv, OthersSame
  <2> QED
    BY <1>1, <2>2 DEF HeldInv
<1>2. ASSUME NEW c \in Controllers, Step(c) \/ CacheExpires(c) \/ Restart(c),
             UNCHANGED <<zone, foreign>>
      PROVE  HeldInv'
  <2>1. \A d \in Controllers : Shrinks(d)
    BY <1>0, <1>2, QuietShrinks
  <2>2. CASE ~Calls(c)
    BY <1>1, <1>2, <2>1, <2>2, QuietHeld
  <2>3. CASE Calls(c)
    <3>1. PICK ch, left, done : Provides(c, ch, left, done)
      BY <1>0, <2>3, CallProvides
    <3>2. Held(c)'
      BY <1>0, <2>1, <3>1, ProvidesHeld DEF Shrinks, ClaimInv, HeldInv
    <3> QED
      BY <1>1, <1>2, <2>1, <3>2
  <2> QED
    BY <2>2, <2>3
<1>3. ASSUME NEW c \in Controllers, Calls(c), NEW ch, NEW left, NEW done,
             Provides(c, ch, left, done), Submits(ch)
      PROVE  HeldInv'
  <2>1. /\ \A k \in Free' : k \in Free
        /\ \A d \in Controllers \ {c} : Shrinks(d)
    BY <1>3, ProviderShrinks DEF Provides
  <2>2. Held(c)'
    BY <1>0, <1>3, <2>1, ProvidesHeld DEF ClaimInv, HeldInv
  <2> QED
    BY <1>1, <1>3, <2>1, <2>2 DEF Step, Calls
<1>4. CASE UNCHANGED <<table, procVars>>
  <2>1. Promised' = Promised
    <3>1. CASE UNCHANGED <<zone, foreign>>
      BY <3>1 DEF Promised
    <3>2. CASE ManualCreate
      <4>1. PICK x : /\ zone' = ApplyBatch(zone, [EmptyBatch EXCEPT !.create = Entries({x})])
                     /\ foreign' = foreign \union {Key(x)} /\ Key(x) \notin DOMAIN zone
        BY <3>2 DEF ManualCreate
      <4>2. /\ \A k \in DOMAIN zone' : k \in DOMAIN zone \/ k = Key(x)
            /\ \A k \in DOMAIN zone : k \in DOMAIN zone'
        BY <4>1, ManualBatch
      <4> QED
        BY <4>1, <4>2 DEF Promised
    <3>3. CASE \E c \in Controllers : Calls(c)
      <4>1. PICK c \in Controllers : Calls(c)
        BY <3>3
      <4>2. Called(c)
        BY <1>0, <4>1, CallProvides DEF Provides
      <4> QED
        BY <1>4, <4>2 DEF Called, procVars
    <3> QED
      BY <1>0, <3>1, <3>2, <3>3
         DEF Next, vars, Step, Calls, ReadLabels, ListRecords, PlanChanges, ClaimChunk, ClaimError,
             ClaimsDone, CleanupChunk, CleanupFails, CleanupDone,
             CacheExpires, Restart, SourceChanges, Calm
  <2>2. \A d \in Controllers : Shrinks(d)
    BY <1>4, <2>1, SameTable DEF Shrinks, Free
  <2>3. \A d \in Controllers : Held(d)'
    BY <1>4, <2>2, SameHeld DEF HeldInv, procVars
  <2> QED
    BY <2>3 DEF HeldInv
<1>5. CASE \E c \in Controllers : Step(c) \/ CacheExpires(c) \/ Restart(c)
  <2>1. PICK c \in Controllers : Step(c) \/ CacheExpires(c) \/ Restart(c)
    BY <1>5
  <2>2. CASE Calls(c)
    <3>1. PICK ch, left, done : Provides(c, ch, left, done)
      BY <1>0, <2>2, CallProvides
    <3>2. UNCHANGED <<zone, foreign>> \/ Submits(ch)
      BY <3>1 DEF Provides
    <3> QED
      BY <1>2, <1>3, <2>1, <2>2, <3>1, <3>2
  <2>3. CASE ~Calls(c)
    <3>1. UNCHANGED <<zone, foreign>>
      BY <2>1, <2>3 DEF Step, Calls, ReadLabels, ListRecords, PlanChanges, ClaimChunk, ClaimError,
                ClaimsDone, CleanupChunk, CleanupFails, CleanupDone,
                CacheExpires, Restart
    <3> QED
      BY <1>2, <2>1, <3>1
  <2> QED
    BY <2>2, <2>3
<1>6. CASE (\E c \in Controllers : SourceChanges(c)) \/ ManualCreate \/ Calm \/ UNCHANGED vars
  BY <1>4, <1>6 DEF SourceChanges, ManualCreate, Calm, vars, procVars
<1> QED
  BY <1>5, <1>6 DEF Next

(* Who holds a record in a zone without TXT records.                       *)
HoldersAre ==
  \A k \in Promised : /\ k \in DOMAIN table => Holder[k] = table[k].o
                      /\ k \notin DOMAIN table => Holder[k] = ""

LEMMA FreshHolders ==
  ASSUME FreshInv
  PROVE  HoldersAre
<1>1. \A t \in DOMAIN zone : t[3] # "TXT"
  BY DEF FreshInv
<1>2. \A k : {t \in DOMAIN zone : t[3] = "TXT" /\ TxtLabelKey(t) = RecLabelKey(k)} = {}
  BY <1>1
<1>3. Promised \subseteq DOMAIN zone
  BY DEF Promised
<1>4. \A k \in DOMAIN zone : Holder[k] = IF k \in DOMAIN table THEN table[k].o ELSE ""
  BY <1>2 DEF Holder
<1> QED
  BY <1>3, <1>4 DEF HoldersAre

LEMMA HeldRefines ==
  ASSUME OneSpelling, OwnIDs, PlainSources, RegistryInv, FreshInv, HeldInv, [Next]_vars,
         HoldersAre, HoldersAre'
  PROVE  [Promise!Next]_<<Holders, Content>>
<1>1. HoldersKept
  BY NextHolders DEF RegistryInv
<1>2. /\ DOMAIN Holders = Promised /\ \A k \in Promised : Holders[k] = Holder[k]
      /\ DOMAIN Content = Promised /\ \A k \in Promised : Content[k] = zone[k]
  BY DEF Holders, Content
<1>3. /\ DOMAIN Holders' = Promised' /\ \A k \in Promised' : Holders'[k] = Holder'[k]
      /\ DOMAIN Content' = Promised' /\ \A k \in Promised' : Content'[k] = zone'[k]
  BY DEF Holders, Content
<1>4. \A k \in Promised : k \in Promised' => Holder'[k] = Holder[k]
  BY <1>1 DEF HoldersKept, HoldersAre
<1>5. ASSUME Promised' = Promised, \A k \in Promised : zone'[k] = zone[k]
      PROVE  UNCHANGED <<Holders, Content>>
  <2>1. Holders' = [k \in Promised |-> Holder'[k]] /\ Content' = [k \in Promised |-> zone'[k]]
    BY <1>5 DEF Holders, Content
  <2> QED
    BY <1>4, <1>5, <2>1 DEF Holders, Content
<1>6. ASSUME NEW c \in Controllers, pc[c] = "apply", UNCHANGED <<table, foreign>>,
             NEW ch, Within(ch, changes[c]), Submits(ch)
      PROVE  Promise!Next
  <2> DEFINE id == OwnID(c)
  <2>1. Promise!Used = Promised /\ (Promise!Used)' = Promised'
    BY <1>2, <1>3 DEF Promise!Used
  <2>2. \A k \in Own(c) : /\ k \in DOMAIN table /\ table[k].o = id
                          /\ k \in DOMAIN table' /\ table'[k].o = id
    BY <1>6 DEF Own, Claims
  <2>3. \A k \in Own(c) : /\ k \in Promised => Holder[k] = id
                          /\ k \in Promised' => Holder'[k] = id
    BY <2>2 DEF HoldersAre
  <2>4. ASSUME NEW k \in Promised \union Promised'
        PROVE  Promise!Unchanged(k) \/ Promise!MayTouch(id, k)
    <3>1. k \in DOMAIN zone \union DOMAIN zone' /\ k \notin foreign /\ k[3] # "TXT"
      BY <1>6 DEF Promised
    <3>2. \/ k \in DOMAIN zone \intersect DOMAIN zone' /\ zone'[k] = zone[k]
          \/ \E e \in changes[c].create \union changes[c].updateNew \union changes[c].delete :
               k = Key(e)
      BY <1>6, <3>1, PlanBatch DEF Within, Submits
    <3>3. CASE k \in DOMAIN zone \intersect DOMAIN zone' /\ zone'[k] = zone[k]
      <4>1. k \in Promised /\ k \in Promised'
        BY <1>6, <3>1, <3>3 DEF Promised
      <4> QED
        BY <1>2, <1>3, <1>4, <2>1, <3>3, <4>1 DEF Promise!Unchanged
    <3>4. CASE k \in Own(c)
      BY <1>2, <1>3, <2>1, <2>3, <3>4 DEF Promise!MayTouch
    <3> QED
      BY <1>6, <3>2, <3>3, <3>4, ChangesClaimed
  <2>5. Promise!Step(id)
    BY <2>1, <2>4 DEF Promise!Step
  <2> QED
    BY <2>5 DEF Promise!Next
<1>7. ASSUME NEW x, zone' = ApplyBatch(zone, [EmptyBatch EXCEPT !.create = Entries({x})]),
             foreign' = foreign \union {Key(x)}, Key(x) \notin DOMAIN zone
      PROVE  UNCHANGED <<Holders, Content>>
  <2>1. /\ \A k \in DOMAIN zone' : (k \in DOMAIN zone /\ zone'[k] = zone[k]) \/ k = Key(x)
        /\ \A k \in DOMAIN zone : k \in DOMAIN zone'
    BY <1>7, ManualBatch
  <2>2. Promised' = Promised
    BY <1>7, <2>1 DEF Promised
  <2>3. \A k \in Promised : zone'[k] = zone[k]
    BY <1>7, <2>1 DEF Promised
  <2> QED
    BY <1>5, <2>2, <2>3
<1>8. CASE UNCHANGED <<zone, foreign>>
  BY <1>5, <1>8 DEF Promised
<1> QED
  BY <1>6, <1>7, <1>8, NextZone DEF ZoneCases, RegistryInv

LEMMA InitHeld ==
  ASSUME Init
  PROVE  HeldInv
<1>1. \A c \in Controllers : /\ pc[c] = "idle" /\ cache[c] = NoCache /\ stmts[c] = {}
  BY DEF Init
<1> QED
  BY <1>1 DEF HeldInv, Held, Pending, NoCache

(* In a zone that does not come from the TXT registry, any number of       *)
(* processes with the DynamoDB registry keep the promise of Ownership.tla: *)
(* a record is claimed before it exists and until it is gone, and the one  *)
(* that has claimed it changes it, whatever fails and whoever crashes.     *)
THEOREM DynamoDBOwnershipKept ==
  ASSUME OneSpelling, OwnIDs, PlainSources, FreshZone
  PROVE  Spec => OwnershipKept
<1> DEFINE Inv == RegistryInv /\ FreshInv /\ HeldInv /\ HoldersAre
<1>1. Init => Inv
  BY InitInv, InitFresh, InitHeld, FreshHolders
<1>2. RegistryInv /\ FreshInv /\ HeldInv /\ [Next]_vars => FreshInv' /\ HeldInv'
  BY NextFresh, NextHeld
<1>3. FreshInv => HoldersAre
  BY FreshHolders
<1>4. RegistryInv /\ FreshInv /\ HeldInv /\ HoldersAre /\ HoldersAre' /\ [Next]_vars
        => [Promise!Next]_<<Holders, Content>>
  BY HeldRefines
<1>5. Init => Promise!Init
  BY DEF Promise!Init, Promise!Used, Holders, Content
<1> QED
  BY <1>1, <1>2, <1>3, <1>4, <1>5, RegistryInvHolds, PTL DEF Spec, OwnershipKept, Promise!Spec
=============================================================================
