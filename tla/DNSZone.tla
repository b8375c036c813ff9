------------------------------ MODULE DNSZone ------------------------------
(***************************************************************************)
(* A hosted zone and the batches of changes a provider submits to it, as   *)
(* the in-memory provider (provider/inmemory/inmemory.go) and the Route 53 *)
(* provider (provider/aws/aws.go) treat them: a batch is applied as a      *)
(* whole or not at all.  When a batch fails, the Route 53 provider submits *)
(* the changes of each name, with their TXT records, as batches of their   *)
(* own.                                                                    *)
(*                                                                         *)
(* A zone is a function from the cells in use to their values              *)
(* [tgt, ttl, ps].  A batch has four sets of entries [cell, val]: create,  *)
(* updateOld, updateNew, delete.  The labels of an endpoint are not part   *)
(* of a zone: DNS has no place for them.                                   *)
(***************************************************************************)
EXTENDS Integers

CONSTANT
  Provider   \* "inmemory": an update needs the record it replaces
             \* "aws": an update is an UPSERT, failed batches are split

ASSUME ProviderAssumption == Provider \in {"inmemory", "aws"}

Cells(E) == {e.cell : e \in E}

EmptyBatch == [create |-> {}, updateOld |-> {}, updateNew |-> {}, delete |-> {}]

(* The zone holds the entry, with the same targets (the code compares the  *)
(* first ones; a list of targets is one value here).                       *)
Holds(zone, e) == e.cell \in DOMAIN zone /\ zone[e.cell].tgt = e.val.tgt

(* inmemory.go: updateMesh.  No cell is written or deleted twice.          *)
NoOverlap(b) ==
  /\ \A E \in {b.create, b.updateNew, b.delete} :
       \A d, e \in E : d.cell = e.cell => d = e
  /\ Cells(b.create) \intersect Cells(b.updateNew) = {}
  /\ Cells(b.create \union b.updateNew) \intersect Cells(b.delete) = {}

(* inmemory.go: validateChangeBatch; aws.go: createUpdateChanges and the   *)
(* CREATE, UPSERT and DELETE actions of ApplyChanges.                      *)
UpdatesValid(zone, b) ==
  Provider = "inmemory" =>
    /\ Cells(b.updateNew) \subseteq DOMAIN zone
    /\ \A e \in b.updateOld : Holds(zone, e)

(* A mutant of ValidBatch: creating a record that exists replaces it.      *)
CreateOverwrites(zone, b) ==
  /\ UpdatesValid(zone, b)
  /\ \A e \in b.delete : Holds(zone, e)
  /\ NoOverlap(b)

ValidBatch(zone, b) ==
  /\ Cells(b.create) \intersect DOMAIN zone = {}
  /\ UpdatesValid(zone, b)
  /\ \A e \in b.delete : Holds(zone, e)
  /\ NoOverlap(b)

(* inmemory.go: ApplyChanges of the client                                 *)
ApplyBatch(zone, b) ==
  LET written == b.create \union b.updateNew
  IN  [c \in (DOMAIN zone \union Cells(written)) \ Cells(b.delete) |->
         IF c \in Cells(written)
         THEN (CHOOSE e \in written : e.cell = c).val
         ELSE zone[c]]

(* aws.go: groupChangesByNameAndOwnershipRelation.  A cell is              *)
(* <<"rec" or "txt", <<name, set identifier, type>> >>, where the name of  *)
(* a TXT cell is that of the record it belongs to (OwnedRecord).           *)
NameOf(e) == e.cell[2][1]
Names(b) == {NameOf(e) : e \in b.create \union b.updateNew \union b.delete}

(* The changes of a set of names.                                          *)
Group(b, names) ==
  [create    |-> {e \in b.create    : NameOf(e) \in names},
   updateOld |-> {e \in b.updateOld : NameOf(e) \in names},
   updateNew |-> {e \in b.updateNew : NameOf(e) \in names},
   delete    |-> {e \in b.delete    : NameOf(e) \in names}]
=============================================================================
