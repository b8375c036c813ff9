---------------------------- MODULE TXTRegistry ----------------------------
(***************************************************************************)
(* The TXT registry (registry/txt/registry.go): how it reads ownership out *)
(* of TXT records, and what it adds to the changes of a plan.              *)
(*                                                                         *)
(* Every record <<name, sid, type>> has a TXT record of its own, whose     *)
(* name the mapper makes from name and type: here the two cells            *)
(* <<"rec", key>> and <<"txt", key>>.  The targets of a TXT cell are the   *)
(* labels it spells out.  TXT records in the format used before v0.12 are  *)
(* read as a fallback and never written: they are the constant LegacyTXT.  *)
(***************************************************************************)
EXTENDS Plan, DNSZone

CONSTANT
  LegacyTXT   \* function from some <<name, sid>> to labels [owner, res]

Rec(k) == <<"rec", k>>
Txt(k) == <<"txt", k>>

RecKeys(zone) == {c[2] : c \in {d \in DOMAIN zone : d[1] = "rec"}}
TxtKeys(zone) == {c[2] : c \in {d \in DOMAIN zone : d[1] = "txt"}}

NoLabels == [owner |-> "", res |-> ""]

(* registry.go:256: the labels of a record, from its own TXT record or     *)
(* from the old one, which AAAA records never had.                         *)
LabelsOf(zone, k) ==
  CASE k \in TxtKeys(zone) -> zone[Txt(k)].tgt
    [] /\ k \notin TxtKeys(zone)
       /\ k[3] # "AAAA" /\ <<k[1], k[2]>> \in DOMAIN LegacyTXT
         -> LegacyTXT[<<k[1], k[2]>>]
    [] OTHER -> NoLabels

(* registry.go:266, 319: records of the old owner are taken over.          *)
Migrated(p, owner) ==
  IF p.oldOwnerID # "" /\ owner = p.oldOwnerID THEN p.ownerID ELSE owner

ForceUpdate == "txt/force-update"

(* Mutants of NeedsForceUpdate: no record is migrated; all are, always.    *)
NeverForced(p, zone, k) == FALSE
AlwaysForced(p, zone, k) == Migrated(p, LabelsOf(zone, k).owner) = p.ownerID

(* registry.go:270: an owned record without TXT record of its own; the     *)
(* names of the TXT records are compared, not their set identifiers.       *)
NeedsForceUpdate(p, zone, k) ==
  /\ Migrated(p, LabelsOf(zone, k).owner) = p.ownerID
  /\ k[3] \in ManagedTypes
  /\ \A j \in TxtKeys(zone) : <<j[1], j[3]>> # <<k[1], k[3]>>

(* registry.go: Records, when it does not use the cache                    *)
Records(p, zone) ==
  {[name |-> k[1], sid |-> k[2], type |-> k[3],
    tgt |-> zone[Rec(k)].tgt, ttl |-> zone[Rec(k)].ttl,
    ps |-> IF NeedsForceUpdate(p, zone, k)
           THEN zone[Rec(k)].ps \union {ForceUpdate} ELSE zone[Rec(k)].ps,
    owner |-> Migrated(p, LabelsOf(zone, k).owner),
    res |-> LabelsOf(zone, k).res] : k \in RecKeys(zone)}

-----------------------------------------------------------------------------
RecEntry(e) ==
  [cell |-> Rec(Key(e)), val |-> [tgt |-> e.tgt, ttl |-> e.ttl, ps |-> e.ps]]

(* registry.go: generateTXTRecord                                          *)
TXTEntry(p, e) ==
  [cell |-> Txt(Key(e)),
   val  |-> [tgt |-> [owner |-> Migrated(p, e.owner), res |-> e.res],
             ttl |-> 0, ps |-> e.ps]]

WithTXT(p, E) == {RecEntry(e) : e \in E} \union {TXTEntry(p, e) : e \in E}

(* A mutant of Batch: the TXT records of deleted records are forgotten.    *)
BatchKeepsTXT(p, existing, ch) ==
  LET new == Claimed(p, ch.create)
  IN  [create    |-> {RecEntry(e) : e \in new} \union
                     {TXTEntry(p, e) : e \in {d \in new : Key(d) \notin existing}},
       updateOld |-> WithTXT(p, FilterByOwner(p.ownerID, ch.updateOld)),
       updateNew |-> WithTXT(p, FilterByOwner(p.ownerID, ch.updateNew)),
       delete    |-> {RecEntry(e) : e \in FilterByOwner(p.ownerID, ch.delete)}]

(* registry.go: ApplyChanges up to the call of the provider.  A TXT record *)
(* that Records has seen (existingTXTs) is not created again.              *)
Batch(p, existing, ch) ==
  LET new == Claimed(p, ch.create)
  IN  [create    |-> {RecEntry(e) : e \in new} \union
                     {TXTEntry(p, e) : e \in {d \in new : Key(d) \notin existing}},
       updateOld |-> WithTXT(p, FilterByOwner(p.ownerID, ch.updateOld)),
       updateNew |-> WithTXT(p, FilterByOwner(p.ownerID, ch.updateNew)),
       delete    |-> WithTXT(p, FilterByOwner(p.ownerID, ch.delete))]

(* registry.go: removeFromCache                                            *)
RemoveFromCache(E, R) ==
  {e \in E : ~ \E r \in R : Key(e) = Key(r) /\ e.tgt = r.tgt}

(* Mutants of CacheAfter: the old version of an updated record stays; a    *)
(* deleted record stays.                                                   *)
CacheKeepsOld(p, E, ch) ==
  RemoveFromCache(E \union Claimed(p, ch.create),
                  FilterByOwner(p.ownerID, ch.delete))
  \union FilterByOwner(p.ownerID, ch.updateNew)
CacheKeepsDeleted(p, E, ch) ==
  RemoveFromCache(E \union Claimed(p, ch.create),
                  FilterByOwner(p.ownerID, ch.updateOld))
  \union FilterByOwner(p.ownerID, ch.updateNew)

(* registry.go: the calls of addToCache and removeFromCache, in order.     *)
CacheAfter(p, E, ch) ==
  RemoveFromCache(
    RemoveFromCache(E \union Claimed(p, ch.create),
                    FilterByOwner(p.ownerID, ch.delete)),
    FilterByOwner(p.ownerID, ch.updateOld))
  \union FilterByOwner(p.ownerID, ch.updateNew)
=============================================================================
