------------------------- MODULE RecordSetProviders -------------------------
(* Providers that write and delete whole record sets: Azure and Azure      *)
(* private DNS, GoDaddy, which adds new records singly, Gandi and NS1; and *)
(* those that take the changes of a zone in one request, carried out as a  *)
(* whole or not at all: Scaleway, Google Cloud DNS, Oracle Cloud, PowerDNS *)
(* and the in-memory provider.                                             *)
EXTENDS ProviderCalls, FiniteSetsExt

-----------------------------------------------------------------------------
(* provider/azure/azure.go, azure_private_dns.go: deletions first, then    *)
(* creations and updates alike; errors are only logged.                    *)
AzureRecords(zone) == Grouped(zone)
AzurePrivateRecords(zone) == Grouped(zone)
AzurePut(E) == {PutSet(e, TTLOf(e), "skip") : e \in Hosted(E)}
AzureDelete(E) == {DelSet(e, "skip") : e \in Hosted(E)}
AzureApplyChanges(ch, zone) ==
  OneJob(<<AzureDelete(ch.delete), AzurePut(ch.create \union ch.updateNew)>>)

-----------------------------------------------------------------------------
(* provider/godaddy/godaddy.go: the first error ends the run.              *)
GoDaddyRecords(zone) == Grouped(zone)

(* changeAllRecords: at least the TTL of the provider.                     *)
GoDaddyTTL(e) == IF e.ttl > MinTTL THEN e.ttl ELSE MinTTL
GoDaddyDelete(E) == {DelSet(e, "stop") : e \in Hosted(E)}
GoDaddyReplace(E) == {PutSet(e, GoDaddyTTL(e), "stop") : e \in Hosted(E)}
GoDaddyAdd(E) ==
  UNION {{Add(r, "stop") : r \in RecsOf(e, GoDaddyTTL(e))} : e \in Hosted(E)}

(* ApplyChanges: the planner pairs updates of one type, so that none has   *)
(* to be deleted and created anew.                                         *)
GoDaddyApplyChanges(ch, zone) ==
  OneJob(<<GoDaddyDelete(ch.delete), GoDaddyReplace(ch.updateNew), GoDaddyAdd(ch.create)>>)

-----------------------------------------------------------------------------
(* provider/gandi/gandi.go: record sets, listed value by value; zone by    *)
(* zone, up to the first error.                                            *)
GandiRecords(zone) == Single(zone)

(* newGandiChanges: the TTL is that of the last endpoint of the list that  *)
(* had one.                                                                *)
GandiTTLs(e, E) ==
  IF e.ttl > 0 THEN {e.ttl} ELSE {DefaultTTL} \union {d.ttl : d \in {x \in E : x.ttl > 0}}
GandiPut(e, E) == [PutSet(e, DefaultTTL, "stop") EXCEPT !.ttls = GandiTTLs(e, E)]

(* A mutant of GandiApplyChanges: what is updated is deleted first.        *)
GandiRecreates(ch, zone) ==
  PerZone(<<{DelSet(e, "stop") : e \in Hosted(ch.delete \union ch.updateOld)},
            {GandiPut(e, ch.create) : e \in Hosted(ch.create)},
            {GandiPut(e, ch.updateNew) : e \in Hosted(ch.updateNew)}>>)

(* ApplyChanges, submitChanges, groupAndFilterByZone                       *)
GandiApplyChanges(ch, zone) ==
  PerZone(<<{GandiPut(e, ch.create) : e \in Hosted(ch.create)},
            {GandiPut(e, ch.updateNew) : e \in Hosted(ch.updateNew)},
            {DelSet(e, "stop") : e \in Hosted(ch.delete)}>>)

-----------------------------------------------------------------------------
(* provider/ns1/ns1.go: record sets; zone by zone, up to the first error.  *)
NS1Records(zone) == Grouped(zone)

(* ns1BuildRecord                                                          *)
NS1TTL(e) == IF e.ttl > 0 THEN e.ttl
             ELSE IF MinTTL > DefaultTTL THEN MinTTL ELSE DefaultTTL

(* A mutant of NS1ApplyChanges: a record that is to be updated is created  *)
(* beside the old one.                                                     *)
NS1Appends(ch, zone) ==
  PerZone(<<UNION {{Add(r, "stop") : r \in RecsOf(e, NS1TTL(e))} :
                     e \in Hosted(ch.create \union ch.updateNew)},
            {DelSet(e, "stop") : e \in Hosted(ch.delete)}>>)

(* ApplyChanges, ns1SubmitChanges, ns1ChangesByZone                        *)
NS1ApplyChanges(ch, zone) ==
  PerZone(<<{PutSet(e, NS1TTL(e), "stop") : e \in Hosted(ch.create)},
            {PutSet(e, NS1TTL(e), "stop") : e \in Hosted(ch.updateNew)},
            {DelSet(e, "stop") : e \in Hosted(ch.delete)}>>)

-----------------------------------------------------------------------------
(* provider/scaleway/scaleway.go: one request for each zone, which the     *)
(* service carries out as a whole; up to the first error.                  *)
ScalewayRecords(zone) == Grouped(zone)
ScalewayAdjustEndpoints(E) == WithTTLs(E)

(* endpointToScalewayRecordsChangeDelete, endpointToScalewayRecords        *)
ScalewayDeletes(E, zone) == UNION {{r \in Matching(zone, e) : r.tgt \in e.tgts} : e \in E}
ScalewayAdds(E) == UNION {RecsOf(e, TTLOf(e)) : e \in E}

(* A mutant of ScalewayRequests: old records stay.                         *)
ScalewayKeepsOld(ch, zone) ==
  Batches(ScalewayDeletes(Hosted(ch.delete), zone),
          ScalewayAdds(Hosted(ch.create \union ch.updateNew)), "stop")

(* generateApplyRequests                                                   *)
ScalewayRequests(ch, zone) ==
  Batches(ScalewayDeletes(Hosted(ch.updateOld \union ch.delete), zone),
          ScalewayAdds(Hosted(ch.create \union ch.updateNew)), "stop")

(* ApplyChanges                                                            *)
ScalewayApplyChanges(ch, zone) == OneJob(<<ScalewayRequests(ch, zone)>>)

-----------------------------------------------------------------------------
(* The rest goes zone by zone up to the first error.                       *)
CONSTANT GoogleBatchChangeSize  \* --google-batch-change-size, 0 for no batches

RecsFor(E) == UNION {RecsOf(e, TTLOf(e)) : e \in E}

-----------------------------------------------------------------------------
(* provider/google/google.go                                               *)
GoogleRecords(zone) == Grouped(zone)

(* batchChange: the names of a zone, in the order of a sort, share a batch *)
(* as long as there is room; a name that needs more than a batch is left   *)
(* out.  A record set counts once.                                         *)
GoogleSize(E, names) == Cardinality({e \in E : e.name \in names})
GoogleNames(E, z) ==
  {n \in {e.name : e \in E} :
     /\ ZoneOf[n] = z
     /\ GoogleBatchChangeSize = 0 \/ GoogleSize(E, {n}) <= GoogleBatchChangeSize}
GoogleBatches(E, z) ==
  LET fits(b, n) == \/ GoogleBatchChangeSize = 0
                    \/ GoogleSize(E, b \union {n}) <= GoogleBatchChangeSize
      put(n, acc) == IF acc # <<>> /\ fits(acc[Len(acc)], n)
                     THEN [acc EXCEPT ![Len(acc)] = @ \union {n}]
                     ELSE Append(acc, {n})
  IN  FoldSet(put, <<>>, GoogleNames(E, z))

(* ApplyChanges, submitChange, separateChange: the deletions of a batch    *)
(* have to exist as they are described.                                    *)
GoogleApplyChanges(ch, zone) ==
  LET del == Hosted(ch.updateOld \union ch.delete)
      add == Hosted(ch.create \union ch.updateNew)
      entries == {[name |-> e.name, type |-> e.type, op |-> "del"] : e \in del}
                 \union {[name |-> e.name, type |-> e.type, op |-> "add"] : e \in add}
      job(z) ==
        LET batches == GoogleBatches(entries, z)
            in(E, b) == {e \in E : e.name \in batches[b]}
        IN  [b \in DOMAIN batches |->
               Batches(RecsFor(in(del, b)), RecsFor(in(add, b)), "stop")]
  IN  <<{job(z) : z \in {ZoneOf[e.name] : e \in del \union add}}>>

-----------------------------------------------------------------------------
(* provider/oci/oci.go: records are removed and added by their content;    *)
(* removing what is not there is no error.                                 *)
OCIRecords(zone) == Grouped(zone)
OCIApplyChanges(ch, zone) ==
  LET gone == UNION {{r \in Matching(zone, e) : r.tgt \in e.tgts} :
                       e \in Hosted(ch.updateOld \union ch.delete)}
      add == RecsFor(Hosted(ch.create \union ch.updateNew))
  IN  OneJob(<<{[c EXCEPT !.must = {}] : c \in Batches(gone, add, "stop")}>>)

-----------------------------------------------------------------------------
(* provider/pdns/pdns.go: three rounds, each one PATCH for each zone that  *)
(* replaces or deletes record sets.                                        *)
PDNSRecords(zone) == Grouped(zone)
PDNSApplyChanges(ch, zone) ==
  OneJob(<<ZoneSets(Hosted(ch.create), TRUE, "stop"),
           ZoneSets(Hosted(ch.updateNew), TRUE, "stop"),
           ZoneSets(Hosted(ch.delete), FALSE, "stop")>>)

-----------------------------------------------------------------------------
(* provider/inmemory/inmemory.go: what the endpoints say is stored as it   *)
(* is, a TTL that is not configured too.                                   *)
InMemoryRecords(zone) == Grouped(zone)
InMemoryApplyChanges(ch, zone) ==
  LET new(E) == UNION {RecsOf(e, e.ttl) : e \in E}
      gone == UNION {Matching(zone, e) : e \in Hosted(ch.updateOld \union ch.delete)}
  IN  OneJob(<<Batches(gone, new(Hosted(ch.create \union ch.updateNew)), "stop")>>)
=============================================================================
