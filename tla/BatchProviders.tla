--------------------------- MODULE BatchProviders ---------------------------
(* Providers that cut the changes of a zone into batches, each carried out *)
(* as a whole: Route 53, Cloudflare and RFC 2136.                          *)
EXTENDS ProviderCalls, FiniteSetsExt, SequencesExt

(* provider/aws/aws.go: the changes of a hosted zone go out in batches that*)
(* Route 53 carries out as a whole; a batch that fails is sent again name  *)
(* by name.  An alias record stands for the addresses of its target and    *)
(* has no TTL of its own.                                                  *)
CONSTANTS
  AliasTargets,        \* targets in a canonical hosted zone, load balancers
  AWSBatchChangeSize,  \* --aws-batch-change-size
  AWSBatchValues       \* --aws-batch-change-size-values

AWSRecords(zone) == Grouped(zone)

(* AdjustEndpoints: a CNAME to a load balancer becomes an alias for both   *)
(* families, with the TTL Records reports for aliases if it has any.       *)
UseAlias(e) == e.type = "CNAME" /\ e.tgts \intersect AliasTargets # {}
AliasOf(e, type) == [e EXCEPT !.type = type, !.ttl = IF @ > 0 THEN DefaultTTL ELSE @]
AWSAdjustEndpoints(E) ==
  UNION {IF UseAlias(e) THEN {AliasOf(e, "A"), AliasOf(e, "AAAA")} ELSE {e} : e \in E}

(* newChange                                                               *)
IsAWSAlias(e) == e.type \in {"A", "AAAA"} /\ e.tgts \intersect AliasTargets # {}
AWSRecs(e) == RecsOf(e, IF IsAWSAlias(e) THEN DefaultTTL ELSE TTLOf(e))

(* createUpdateChanges, requiresDeleteCreate: a record that becomes an     *)
(* alias, or is one no longer, is deleted and created.                     *)
RequiresDeleteCreate(old, new) == old.type = "A" /\ IsAWSAlias(old) # IsAWSAlias(new)
AWSChanges(ch) ==
  LET old(e) == CHOOSE d \in ch.updateOld : KeyOf(d) = KeyOf(e)
      swapped == {e \in ch.updateNew : RequiresDeleteCreate(old(e), e)}
      ops(op, E) == {[op |-> op, ep |-> e] : e \in Hosted(E)}
  IN  ops("CREATE", ch.create \union swapped)
      \union ops("DELETE", ch.delete \union {old(e) : e \in swapped})
      \union ops("UPSERT", ch.updateNew \ swapped)

(* A change counts its values, an UPSERT twice.                            *)
Values(cs) ==
  FoldSet(LAMBDA c, n : n + Cardinality(c.ep.tgts) * (IF c.op = "UPSERT" THEN 2 ELSE 1), 0, cs)
FitsBatch(cs) == Cardinality(cs) <= AWSBatchChangeSize /\ Values(cs) <= AWSBatchValues

(* batchChangeSet: all in one, or the names in the order of a sort, as     *)
(* many to a batch as fit; a name that does not fit at all is left out.    *)
OfName(cs, n) == {c \in cs : c.ep.name = n}
NamesOf(cs) == {c.ep.name : c \in cs}
BatchChangeSet(cs) ==
  LET put(n, acc) ==
        IF FitsBatch(acc[Len(acc)] \union OfName(cs, n))
        THEN [acc EXCEPT ![Len(acc)] = @ \union OfName(cs, n)]
        ELSE Append(acc, OfName(cs, n))
  IN  IF FitsBatch(cs) THEN <<cs>>
      ELSE FoldSet(put, <<{}>>, {n \in NamesOf(cs) : FitsBatch(OfName(cs, n))})

(* submitChanges: what failed is looked for in the changes of the next run *)
(* by the address of the change, and so never found.                       *)
Request(cs) ==
  LET of(op) == {c.ep : c \in {d \in cs : d.op = op}}
      gone == UNION {AWSRecs(e) : e \in of("DELETE")}
      call == Call((CHOOSE c \in cs : TRUE).ep.name, {KeyOf(e) : e \in of("UPSERT")}, gone,
                   UNION {AWSRecs(e) : e \in of("CREATE") \union of("UPSERT")}, gone, "note")
  IN  [call EXCEPT !.free = {KeyOf(e) : e \in of("CREATE")}]
ByName(cs) ==
  IF Cardinality(NamesOf(cs)) > 1 THEN <<{Request(OfName(cs, n)) : n \in NamesOf(cs)}>> ELSE <<>>
BatchCall(cs) == [Request(cs) EXCEPT !.instead = ByName(cs)]

(* ApplyChanges, changesByZone                                             *)
AWSApplyChanges(ch, zone) ==
  LET cs == AWSChanges(ch)
      job(z) == LET batches == SelectSeq(BatchChangeSet({c \in cs : ZoneOf[c.ep.name] = z}),
                                         LAMBDA b : b # {})
                IN  [i \in DOMAIN batches |-> {BatchCall(batches[i])}]
  IN  <<{job(z) : z \in {ZoneOf[n] : n \in NamesOf(cs)}}>>

-----------------------------------------------------------------------------
(* provider/cloudflare/cloudflare.go, cloudflare_batch.go: the changes of a*)
(* zone go out in batches, each carried out as a whole; a batch that fails *)
(* is replayed as single requests.                                         *)
CloudflareRecords(zone) == Grouped(zone)

(* ApplyChanges: the targets to delete, to keep with new settings and to   *)
(* create.                                                                 *)
CloudflareDeletes(ch, zone) ==
  LET new(e) == CHOOSE d \in ch.updateNew : KeyOf(d) = KeyOf(e)
  IN  UNION {{r \in Matching(zone, e) : r.tgt \in e.tgts} : e \in ch.delete}
      \union UNION {{r \in Matching(zone, e) : r.tgt \in e.tgts \ new(e).tgts} : e \in ch.updateOld}
CloudflarePuts(ch, zone) ==
  UNION {{<<r, Rec(e, r.tgt, TTLOf(e))>> : r \in {x \in Matching(zone, e) : x.tgt \in e.tgts}}
           : e \in ch.updateNew}
CloudflarePosts(ch, zone) ==
  UNION {RecsOf(e, TTLOf(e)) : e \in ch.create}
  \union UNION {{r \in RecsOf(e, TTLOf(e)) : r.tgt \notin Targets(Matching(zone, e))} : e \in ch.updateNew}

(* chunkBatchChanges: deletions, updates and creations, in this order, are *)
(* cut into batches.                                                       *)
InSomeOrder(S) == FoldSet(LAMBDA x, seq : Append(seq, x), <<>>, S)
CloudflareEntries(ch, zone) ==
  LET one(r, op, old, new) == [name |-> r.name, op |-> op, old |-> old, new |-> new]
  IN  InSomeOrder({one(r, "delete", {r}, {}) : r \in CloudflareDeletes(ch, zone)})
      \o InSomeOrder({one(p[1], "update", {p[1]}, {p[2]}) : p \in CloudflarePuts(ch, zone)})
      \o InSomeOrder({one(r, "create", {}, {r}) : r \in CloudflarePosts(ch, zone)})
Chunks(seq, limit) ==
  [c \in 1..((Len(seq) + limit - 1) \div limit) |->
     {seq[i] : i \in {j \in 1..Len(seq) : (j - 1) \div limit = c - 1}}]

(* fallbackIndividualChanges: one after the other; errors are remembered.  *)
CloudflareSingle(chunk) ==
  [i \in 1..3 |->
     {Call(x.name, {}, x.old, x.new, x.old, "note") :
        x \in {y \in chunk : y.op = <<"delete", "update", "create">>[i]}}]

(* submitDNSRecordChanges                                                  *)
CloudflareBatch(chunk) ==
  LET old == UNION {x.old : x \in chunk}
      name == (CHOOSE x \in chunk : TRUE).name
  IN  [Call(name, {}, old, UNION {x.new : x \in chunk}, old, "note")
         EXCEPT !.instead = CloudflareSingle(chunk)]

(* submitChanges, changesByZone                                            *)
CloudflareApplyChanges(ch, zone, limit) ==
  LET entries == CloudflareEntries(ch, zone)
      zones == {ZoneOf[entries[i].name] : i \in DOMAIN entries} \ {""}
      chunks == [z \in zones |->
                   Chunks(SelectSeq(entries, LAMBDA x : ZoneOf[x.name] = z), limit)]
  IN  <<{[c \in DOMAIN chunks[z] |-> {CloudflareBatch(chunks[z][c])}] : z \in zones}>>

-----------------------------------------------------------------------------
(* provider/rfc2136/rfc2136.go: dynamic updates, one message for each zone *)
(* of a chunk of endpoints, carried out as a whole; errors are collected.  *)
(* Endpoints outside the zones are rejected by the domain filter.          *)
CONSTANT BatchChangeSize  \* --rfc2136-batch-change-size

ASSUME RFC2136Assumption == BatchChangeSize \in Nat \ {0}

RFC2136Records(zone) == Grouped(zone)

(* AddRecord: at least the minimal TTL.                                    *)
RFC2136TTL(e) == IF e.ttl > MinTTL THEN e.ttl ELSE MinTTL

(* chunkBy, for one of the orders the planner may produce.                 *)
ChunkBy(E) ==
  LET s == SetToSeq(E)
      n == (Len(s) + BatchChangeSize - 1) \div BatchChangeSize
  IN  [c \in 1..n |-> {s[i] : i \in {j \in 1..Len(s) : (j - 1) \div BatchChangeSize = c - 1}}]

(* The messages of a chunk.  Removing what is not there is no error.       *)
RFC2136Messages(old, new, zone) ==
  LET gone == UNION {{r \in Matching(zone, e) : r.tgt \in e.tgts} : e \in old}
      add == UNION {RecsOf(e, RFC2136TTL(e)) : e \in new}
  IN  {[c EXCEPT !.must = {}] : c \in Batches(gone, add, "note")}

OldOf(ch, E) == {o \in ch.updateOld : \E e \in E : KeyOf(e) = KeyOf(o)}

(* UpdateRecord: remove the old, add the new, in one message.              *)
RFC2136Update(ch, E, zone) == RFC2136Messages(OldOf(ch, E), E, zone)

(* ApplyChanges                                                            *)
RFC2136ApplyChanges(ch, zone) ==
  LET creates == ChunkBy(Hosted(ch.create))
      updates == ChunkBy(Hosted(ch.updateNew))
      deletes == ChunkBy(Hosted(ch.delete))
  IN  OneJob([c \in DOMAIN creates |-> RFC2136Messages({}, creates[c], zone)]
             \o [c \in DOMAIN updates |-> RFC2136Update(ch, updates[c], zone)]
             \o [c \in DOMAIN deletes |-> RFC2136Messages(deletes[c], {}, zone)])
=============================================================================
