---------------------------- MODULE CRDRegistry ----------------------------
(***************************************************************************)
(* ExternalDNS processes with the CRD registry (registry/crd/crd.go): a    *)
(* DNSRecord object per record says who owns it and, by its Ready          *)
(* condition, whether the provider has it.  ApplyChanges writes the        *)
(* objects, marks them Accepted, calls the provider, marks them Programmed *)
(* or Failed, and deletes the objects of deleted records.  Each write to   *)
(* the API server may fail; those of the status are not checked.  A        *)
(* provider may carry out parts of a batch that fails, as Route 53's does. *)
(* Records lists from an informer cache that lags behind.                  *)
(*                                                                         *)
(* objs maps <<namespace, key>> to [owner, ep, ready].  A write of an      *)
(* object that has changed since it was read is a conflict.                *)
(***************************************************************************)
EXTENDS Plan, DNSZone

CONSTANTS
  Controllers, Config, SourceLists,   \* as in Reconcile
  Namespace,         \* Namespace[c]: where c keeps its objects
  Worlds,            \* sets of circumstances.  What may go wrong:
                     \* "provider": it fails; "lost": its answer is lost;
                     \* "write": writing an object fails; "status": writing
                     \* a status fails; "crash"; "lag": the informer lags
                     \* behind.  "split": the changes of a batch that has
                     \* failed are submitted again name by name, as for
                     \* Route 53; else a batch is applied as a whole or
                     \* not at all.  "upserts": the provider's create
                     \* replaces a record.  "alone": one process runs
  MaxSourceChanges   \* bound on the changes of the sources

(* What NewCRDRegistry and buildController check of the configuration.     *)
ASSUME CRDAssumption ==
  \A c \in Controllers : /\ Config[c].ownerID # ""   \* crd.go:69
                         /\ Config[c].policy \in Policies
                         /\ SourceLists[c] \subseteq Seq(Endpoints)

VARIABLES
  zone, src, sourceChanges,
  world,      \* the circumstances of this behaviour
  objs,       \* the DNSRecord objects
  lister,     \* lister[c]: the informer cache of c
  pc,         \* "idle", "plan", "write", "apply", "failed", "error",
              \* "programmed", "delete"; while a batch is submitted name by
              \* name, "split", and "partial" when a part has failed
  view, changes,
  todo,       \* todo[c]: the endpoints whose objects are still to be written
              \* or deleted, or whose changes are still to be submitted
  applied,    \* applied[c]: the objects written in this run, as c has them
  maker,      \* who wrote each record of the zone last (history variable)
  made        \* <<id, key>>: the records that each has written so far
              \* (history variable)

procVars == <<pc, view, changes, todo, applied>>
vars == <<zone, src, sourceChanges, world, objs, lister, maker, made, procVars>>

OwnID(c) == Config[c].ownerID
Obj(c, e) == <<Namespace[c], Key(e)>>
Put(f, x, v) == [y \in DOMAIN f \union {x} |-> IF y = x THEN v ELSE f[y]]
Without(f, S) == [x \in DOMAIN f \ S |-> f[x]]

Init ==
  /\ zone = <<>> /\ objs = <<>> /\ maker = <<>> /\ made = {}
  /\ src \in [Controllers -> UNION {SourceLists[c] : c \in Controllers}]
  /\ \A c \in Controllers : src[c] \in SourceLists[c]
  /\ sourceChanges = 0
  /\ world \in Worlds
  /\ lister = [c \in Controllers |-> <<>>]
  /\ pc = [c \in Controllers |-> "idle"]
  /\ view = [c \in Controllers |-> {}]
  /\ changes = [c \in Controllers |-> NoChanges]
  /\ todo = [c \in Controllers |-> {}]
  /\ applied = [c \in Controllers |-> <<>>]

-----------------------------------------------------------------------------
(* The informer delivers what has happened to the objects.                 *)
InformerSyncs(c) ==
  /\ "lag" \in world
  /\ lister[c] # objs
  /\ lister' = [lister EXCEPT ![c] = objs]
  /\ UNCHANGED <<zone, src, sourceChanges, world, objs, maker, made, procVars>>

Listed(c) == IF "lag" \in world THEN lister[c] ELSE objs

(* A mutant of Records: all objects count as records.                      *)
RecordsUnconfirmed(c) ==
  LET l == Listed(c) IN {l[x].ep : x \in {y \in DOMAIN l : l[y].owner = OwnID(c)}}

(* Records: the endpoints of this owner's objects that are Programmed.     *)
Records(c) ==
  LET l == Listed(c)
  IN  {l[x].ep : x \in {y \in DOMAIN l : /\ y[1] = Namespace[c]
                                         /\ l[y].owner = OwnID(c)
                                         /\ l[y].ready = "Programmed"}}

ReadRecords(c) ==
  /\ pc[c] = "idle"
  /\ pc' = [pc EXCEPT ![c] = "plan"]
  /\ view' = [view EXCEPT ![c] = Records(c)]
  /\ UNCHANGED <<zone, src, sourceChanges, world, objs, lister, maker, made,
                 changes, todo, applied>>

(* ApplyChanges: the owner label is set on what is created.                *)
PlanChanges(c) ==
  /\ pc[c] = "plan"
  /\ view' = [view EXCEPT ![c] = {}]
  /\ \E plan \in {Calculate(Config[c], view[c], src[c])} :
     \E ch \in {[plan EXCEPT !.create = Claimed(Config[c], @)]} :
       \/ /\ ~HasChanges(plan)
          /\ pc' = [pc EXCEPT ![c] = "idle"]
          /\ UNCHANGED <<changes, todo>>
       \/ /\ HasChanges(plan)
          /\ pc' = [pc EXCEPT ![c] = "write"]
          /\ changes' = [changes EXCEPT ![c] = ch]
          /\ todo' = [todo EXCEPT ![c] = ch.create \union ch.updateNew]
  /\ UNCHANGED <<zone, src, sourceChanges, world, objs, lister, maker, made, applied>>

(* The object that is written for an endpoint.  ensureDNSRecord creates    *)
(* it, or refreshes the one that exists, whoever it belongs to; an update  *)
(* leaves its status alone, and is left out if there is no object.         *)
(* Creations come first.                                                   *)
Written(c, e) ==
  IF Obj(c, e) \in DOMAIN objs THEN [objs[Obj(c, e)] EXCEPT !.ep = e]
  ELSE [owner |-> OwnID(c), ep |-> e, ready |-> "none"]

(* A mutant of WriteObject: the objects of new records are not written.    *)
WriteKnownObject(c) ==
  /\ pc[c] = "write"
  /\ \E e \in todo[c] : todo' = [todo EXCEPT ![c] = @ \ {e}]
  /\ UNCHANGED <<objs, applied, zone, src, sourceChanges, world, lister, maker, made,
                 pc, view, changes>>

WriteObject(c) ==
  /\ pc[c] = "write"
  /\ \E e \in todo[c] :
       /\ e \in changes[c].create \/ todo[c] \intersect changes[c].create = {}
       /\ todo' = [todo EXCEPT ![c] = @ \ {e}]
       /\ \/ /\ e \in changes[c].create \/ Obj(c, e) \in DOMAIN objs
             /\ objs' = Put(objs, Obj(c, e), Written(c, e))
             /\ applied' = [applied EXCEPT ![c] = Put(@, Obj(c, e), Written(c, e))]
          \/ /\ e \notin changes[c].create /\ Obj(c, e) \notin DOMAIN objs
             /\ UNCHANGED <<objs, applied>>
  /\ UNCHANGED <<zone, src, sourceChanges, world, lister, maker, made,
                 pc, view, changes>>

(* ApplyChanges returns.                                                   *)
Return(c) ==
  /\ pc' = [pc EXCEPT ![c] = "idle"]
  /\ changes' = [changes EXCEPT ![c] = NoChanges]
  /\ todo' = [todo EXCEPT ![c] = {}]
  /\ applied' = [applied EXCEPT ![c] = <<>>]

(* Writing or deleting an object fails and the run ends with an error.     *)
WriteFails(c) ==
  /\ pc[c] \in {"write", "delete"} /\ "write" \in world
  /\ todo[c] # {}
  /\ Return(c)
  /\ UNCHANGED <<zone, src, sourceChanges, world, objs, lister, maker, made, view>>

(* setStatus for all objects written in this run: for those in "lost" the  *)
(* write fails, which is only logged.                                      *)
SetStatus(c, reason) ==
  \E lost \in SUBSET DOMAIN applied[c] :
    LET conflict == {x \in DOMAIN applied[c] :
                       x \notin DOMAIN objs \/ objs[x] # applied[c][x]}
        done == DOMAIN applied[c] \ (lost \union conflict)
    IN  /\ lost # {} => "status" \in world
        /\ objs' = [x \in DOMAIN objs |->
                      IF x \in done THEN [objs[x] EXCEPT !.ready = reason] ELSE objs[x]]
        /\ applied' = [applied EXCEPT ![c] =
                        [x \in DOMAIN @ |-> IF x \in done THEN objs'[x] ELSE @[x]]]

SetAccepted(c) ==
  /\ pc[c] = "write" /\ todo[c] = {}
  /\ SetStatus(c, "Accepted")
  /\ pc' = [pc EXCEPT ![c] = "apply"]
  /\ UNCHANGED <<zone, src, sourceChanges, world, lister, maker, made, view, changes, todo>>

-----------------------------------------------------------------------------
(* The provider.                                                           *)
Entries(E) == {[cell |-> Key(e), val |-> [tgt |-> e.tgt, ttl |-> e.ttl, ps |-> e.ps]]
                 : e \in E}
ProviderBatch(ch) ==
  [create |-> Entries(ch.create), updateOld |-> Entries(ch.updateOld),
   updateNew |-> Entries(ch.updateNew), delete |-> Entries(ch.delete)]
Accepts(b) == "upserts" \in world \/ ValidBatch(zone, b)

(* The provider carries out the changes ch.                                *)
Change(c, ch) ==
  LET b == ProviderBatch(ch)
      written == Cells(b.create \union b.updateNew)
  IN  /\ Accepts(b)
      /\ zone' = ApplyBatch(zone, b)
      /\ maker' = [k \in DOMAIN zone' |-> IF k \in written THEN OwnID(c) ELSE maker[k]]
      /\ made' = made \union {<<OwnID(c), k>> : k \in written}

(* They are rejected or lost, or carried out and the answer is lost.       *)
ChangeFails(c, ch) ==
  \/ ~Accepts(ProviderBatch(ch)) /\ UNCHANGED <<zone, maker, made>>
  \/ "provider" \in world /\ UNCHANGED <<zone, maker, made>>
  \/ "lost" \in world /\ Change(c, ch)

ProviderApplies(c) ==
  /\ pc[c] = "apply"
  /\ Change(c, changes[c])
  /\ pc' = [pc EXCEPT ![c] = "programmed"]
  /\ UNCHANGED <<src, sourceChanges, world, objs, lister, view, changes, todo, applied>>

(* The changes of one name, and those of a batch with several.             *)
Part(ch, n) == [create    |-> {e \in ch.create    : e.name = n},
                updateOld |-> {e \in ch.updateOld : e.name = n},
                updateNew |-> {e \in ch.updateNew : e.name = n},
                delete    |-> {e \in ch.delete    : e.name = n}]
Changed(ch) == ch.create \union ch.updateNew \union ch.delete
Splits(ch) == "split" \in world /\ \E d, e \in Changed(ch) : d.name # e.name

ProviderFails(c) ==
  /\ pc[c] = "apply"
  /\ ChangeFails(c, changes[c])
  /\ \/ /\ ~Splits(changes[c])
        /\ pc' = [pc EXCEPT ![c] = "failed"]
        /\ UNCHANGED todo
     \/ /\ Splits(changes[c])
        /\ pc' = [pc EXCEPT ![c] = "split"]
        /\ todo' = [todo EXCEPT ![c] = Changed(changes[c])]
  /\ UNCHANGED <<src, sourceChanges, world, objs, lister, view, changes, applied>>

(* The changes of the next name are submitted; the call has succeeded if   *)
(* all parts have.                                                         *)
PartApplies(c) ==
  /\ pc[c] \in {"split", "partial"}
  /\ \E e \in todo[c] :
       /\ Change(c, Part(changes[c], e.name))
       /\ todo' = [todo EXCEPT ![c] = {d \in @ : d.name # e.name}]
       /\ pc' = [pc EXCEPT ![c] = IF todo'[c] # {} THEN @
                                  ELSE IF @ = "split" THEN "programmed" ELSE "failed"]
  /\ UNCHANGED <<src, sourceChanges, world, objs, lister, view, changes, applied>>

PartFails(c) ==
  /\ pc[c] \in {"split", "partial"}
  /\ \E e \in todo[c] :
       /\ ChangeFails(c, Part(changes[c], e.name))
       /\ todo' = [todo EXCEPT ![c] = {d \in @ : d.name # e.name}]
       /\ pc' = [pc EXCEPT ![c] = IF todo'[c] # {} THEN "partial" ELSE "failed"]
  /\ UNCHANGED <<src, sourceChanges, world, objs, lister, view, changes, applied>>

SetFailed(c) ==
  /\ pc[c] = "failed"
  /\ SetStatus(c, "Failed")
  /\ pc' = [pc EXCEPT ![c] = "error"]
  /\ UNCHANGED <<zone, src, sourceChanges, world, lister, maker, made, view, changes, todo>>

SetProgrammed(c) ==
  /\ pc[c] = "programmed"
  /\ SetStatus(c, "Programmed")
  /\ pc' = [pc EXCEPT ![c] = "delete"]
  /\ todo' = [todo EXCEPT ![c] = changes[c].delete]
  /\ UNCHANGED <<zone, src, sourceChanges, world, lister, maker, made, view, changes>>

(* A mutant of DeleteObject: the object stays.                             *)
KeepObject(c) ==
  /\ pc[c] = "delete"
  /\ \E e \in todo[c] : todo' = [todo EXCEPT ![c] = @ \ {e}]
  /\ UNCHANGED <<objs, zone, src, sourceChanges, world, lister, maker, made,
                 pc, view, changes, applied>>

(* The object of a deleted record goes last.                               *)
DeleteObject(c) ==
  /\ pc[c] = "delete"
  /\ \E e \in todo[c] :
       /\ todo' = [todo EXCEPT ![c] = @ \ {e}]
       /\ objs' = Without(objs, {Obj(c, e)})
  /\ UNCHANGED <<zone, src, sourceChanges, world, lister, maker, made,
                 pc, view, changes, applied>>

(* The run ends with the provider's error; or adjustLabelsFromProvider,    *)
(* which keeps owner and resource and writes the other labels, ends it     *)
(* with or without an error.                                               *)
Finish(c) ==
  /\ pc[c] = "error" \/ (pc[c] = "delete" /\ todo[c] = {})
  /\ Return(c)
  /\ UNCHANGED <<zone, src, sourceChanges, world, objs, lister, maker, made, view>>

Crash(c) ==
  /\ "crash" \in world
  /\ pc[c] # "idle"
  /\ Return(c)
  /\ view' = [view EXCEPT ![c] = {}]
  /\ UNCHANGED <<zone, src, sourceChanges, world, objs, lister, maker, made>>

SourceChanges(c) ==
  /\ sourceChanges < MaxSourceChanges
  /\ sourceChanges' = sourceChanges + 1
  /\ \E s \in SourceLists[c] : src' = [src EXCEPT ![c] = s]
  /\ UNCHANGED <<zone, world, objs, lister, maker, made, procVars>>

Step(c) ==
  \/ ReadRecords(c) \/ PlanChanges(c) \/ WriteObject(c) \/ WriteFails(c)
  \/ SetAccepted(c) \/ ProviderApplies(c) \/ ProviderFails(c)
  \/ PartApplies(c) \/ PartFails(c)
  \/ SetFailed(c) \/ SetProgrammed(c) \/ DeleteObject(c) \/ Finish(c)

Runs(c) == "alone" \in world => c = CHOOSE d \in Controllers : TRUE
Next == \E c \in Controllers :
          /\ Runs(c)
          /\ Step(c) \/ InformerSyncs(c) \/ Crash(c) \/ SourceChanges(c)

(* The run loops go on, the informers deliver, and a provider that is      *)
(* called again and again works again and again.                           *)
Spec ==
  /\ Init /\ [][Next]_vars
  /\ \A c \in Controllers :
       /\ WF_vars(Runs(c) /\ Step(c)) /\ WF_vars(Runs(c) /\ InformerSyncs(c))
       /\ SF_vars(Runs(c) /\ ProviderApplies(c))

-----------------------------------------------------------------------------
(* Whatever fails or crashes, a record made by a process has an object of  *)
(* that process, written before the record and deleted after it: nothing   *)
(* is made that "kubectl get dnsrecords" does not show, unless the         *)
(* informer lags behind.                                                   *)
RecordsHaveObjects ==
  "lag" \notin world =>
    \A k \in DOMAIN zone : \E c \in Controllers :
      maker[k] = OwnID(c) /\ <<Namespace[c], k>> \in DOMAIN objs

(* "will never modify any records over which it doesn't have control"      *)
(* (docs/faq.md): Records looks at the objects and never at the zone; yet, *)
(* on a provider whose create does not replace records, a process changes  *)
(* or deletes a record that another has written only under a name that it  *)
(* has had a record of itself, whatever fails or crashes; and never, while *)
(* other processes are at work and the provider and the writes of statuses *)
(* may fail, if the objects of deleted records are always deleted.         *)
Wrote(c, k) == k \in DOMAIN zone /\ maker[k] = OwnID(c)
Undisturbed == world \intersect {"upserts", "lost", "split", "write", "crash", "lag"} = {}
Called(c) == /\ pc[c] \in {"apply", "split", "partial"}
             /\ <<pc'[c], todo'[c]>> # <<pc[c], todo[c]>>
ForeignStep ==
  \A c \in Controllers : Called(c) => \A k \in DOMAIN zone : ~Wrote(c, k) =>
    \/ k \in DOMAIN zone' /\ zone'[k] = zone[k] /\ maker'[k] = maker[k]
    \/ ~Undisturbed /\ <<OwnID(c), k>> \in made
OwnRecordsOnly == []["upserts" \notin world => ForeignStep]_vars

(* "Programmed (Ready=True): the endpoint has been applied to the          *)
(* provider" (docs/registry/crd.md): if no process is killed and the       *)
(* objects and statuses get written, then between the runs the record that *)
(* a process has under the name of a Programmed object of its own is as    *)
(* the object describes it, although batches fail, are partly applied or   *)
(* their answers lost, and others write the same names.  And there is such *)
(* a record, if batches are applied as a whole and no answer is lost: for  *)
(* a single process on any provider and with an informer that lags, for    *)
(* several on a provider that does not replace records.                    *)
Single == "alone" \in world /\ world \subseteq {"alone", "upserts", "provider", "lag"}
Benign == Single \/ world \subseteq {"provider"}
ProgrammedIsLive ==
  world \intersect {"write", "status", "crash"} = {} =>
    \A c \in Controllers : Runs(c) /\ pc[c] \in {"idle", "plan"} =>
      \A x \in DOMAIN objs :
        x[1] = Namespace[c] /\ objs[x].owner = OwnID(c) /\ objs[x].ready = "Programmed"
          => \/ x[2] \in DOMAIN zone /\ zone[x[2]].tgt = objs[x].ep.tgt
             \/ ~Benign /\ ~Wrote(c, x[2])

(* In the end every record that a single process wants is in the zone as   *)
(* wanted, if the provider's create can be repeated.                       *)
WantedServed ==
  \A c \in Controllers : Runs(c) => \A i \in DOMAIN src[c] :
    LET e == src[c][i] IN Key(e) \in DOMAIN zone /\ zone[Key(e)].tgt = e.tgt
Settles == <>[](Single /\ "upserts" \in world => WantedServed)
=============================================================================
