----------------------- MODULE SingleRecordProviders ------------------------
(* Providers that write and delete records one by one: Exoscale, Pi-hole,  *)
(* CoreDNS with etcd and DNSimple up to the first error, Linode and Civo   *)
(* whatever fails, Alibaba Cloud, which only logs errors, and OVH, which   *)
(* makes its calls concurrently.                                           *)
EXTENDS ProviderCalls

-----------------------------------------------------------------------------
(* provider/exoscale/exoscale.go: one endpoint for each record, of which   *)
(* the first target is written.                                            *)
ExoscaleRecords(zone) == {e \in Single(zone) : e.type \in {"A", "CNAME", "TXT"}}
FirstTarget(e) == CHOOSE t \in e.tgts : \A u \in e.tgts : t <= u

(* ApplyChanges: any one record of the name and type, which has just been  *)
(* read, is changed, where a TTL that is not configured stays, or deleted. *)
ExoscaleApplyChanges(ch, zone) ==
  OneJob(<<{Add(Rec(e, FirstTarget(e), TTLOf(e)), "stop") : e \in Hosted(ch.create)},
           {EditOne(Rec(e, FirstTarget(e), e.ttl), {KeyOf(e)}, "stop") : e \in Hosted(ch.updateNew)},
           {DelOne(e.name, {KeyOf(e)}, "stop") : e \in Hosted(ch.delete)}>>)

-----------------------------------------------------------------------------
(* provider/pihole: one entry for each target, without a TTL.              *)
PiholeRecords(zone) == {e \in Grouped(zone) : e.type \in {"A", "AAAA", "CNAME"}}

(* apply: an entry that is already there, or already gone, is no error.    *)
PiholeDelete(E) ==
  UNION {{Call(e.name, {}, {Rec(e, t, 0)}, {}, {}, "stop") : t \in e.tgts} : e \in E}
PiholeCreate(E) == UNION {{Add(Rec(e, t, 0), "stop") : t \in e.tgts} : e \in E}

(* ApplyChanges: an update that leaves the targets as they are is dropped; *)
(* otherwise all old entries are deleted before all new ones are created.  *)
PiholeApplyChanges(ch, zone) ==
  LET old(e) == CHOOSE o \in ch.updateOld : KeyOf(o) = KeyOf(e)
      moved == {e \in ch.updateNew : e.tgts # old(e).tgts}
  IN  OneJob(<<PiholeDelete(ch.delete), PiholeDelete({old(e) : e \in moved}),
               PiholeCreate(ch.create), PiholeCreate(moved)>>)

-----------------------------------------------------------------------------
(* provider/coredns/coredns.go: one etcd key for each target, with a       *)
(* random prefix that Records keeps in the labels of the endpoint.         *)
CoreDNSRecords(zone) == Grouped(zone)

(* createServicesForEndpoint: the keys of old targets are deleted while    *)
(* the new services are put together; a target that stays keeps its key,   *)
(* whose value is replaced.                                                *)
CoreDNSStale(e, zone) ==
  {Call(e.name, {}, {r}, {}, {}, "stop") : r \in {x \in Matching(zone, e) : x.tgt \notin e.tgts}}
CoreDNSSave(e, zone) ==
  {Call(e.name, {}, {r \in Matching(zone, e) : r.tgt = t}, {Rec(e, t, e.ttl)}, {}, "stop")
     : t \in e.tgts}

(* ApplyChanges, applyGroup, deleteEndpoints: name by name, in the order   *)
(* of a map; then the deletions, where the label holds the prefix of only  *)
(* one of the keys.                                                        *)
CoreDNSApplyChanges(ch, zone) ==
  LET put == ch.create \union ch.updateNew
      group(n) == {e \in put : e.name = n}
  IN  <<{<<UNION {CoreDNSStale(e, zone) : e \in group(n)},
           UNION {CoreDNSSave(e, zone) : e \in group(n)}>> : n \in {e.name : e \in put}},
        {<<{DelOne(e.name, {KeyOf(e)}, "stop") : e \in ch.delete}>>}>>

-----------------------------------------------------------------------------
(* provider/dnsimple/dnsimple.go: single records, found by their name.     *)
DNSimpleRecords(zone) ==
  {e \in Single(zone) : e.type \in {"A", "CNAME", "TXT"}}

(* newDnsimpleChange: the first target; targets are sorted.                *)
DNSimpleRecord(e) == Rec(e, CHOOSE t \in e.tgts : \A u \in e.tgts : t <= u, TTLOf(e))

(* ApplyChanges, submitChanges, GetRecordID: the first record that the     *)
(* listing by name returns, of whatever type, is changed or deleted.       *)
DNSimpleApplyChanges(ch, zone) ==
  OneJob(<<{Add(DNSimpleRecord(e), "stop") : e \in Hosted(ch.create)},
           {EditOne(DNSimpleRecord(e), NameOnly(e.name), "stop") : e \in Hosted(ch.updateNew)},
           {DelOne(e.name, NameOnly(e.name), "stop") : e \in Hosted(ch.delete)}>>)

-----------------------------------------------------------------------------
(* provider/linode/linode.go: one API record for each target.  Errors of   *)
(* the calls are logged and not returned.                                  *)
LinodeRecords(zone) == Single(zone)

(* submitChanges and "Generate Creates": nothing is created beside records *)
(* that are there already.                                                 *)
LinodeCreates(ch, zone) ==
  UNION {RecsOf(e, e.ttl) : e \in {d \in Hosted(ch.create) : Matching(zone, d) = {}}}

(* "Generate Updates": targets that stay are updated, new ones created,    *)
(* the others deleted.                                                     *)
LinodeNewTargets(ch, zone) ==
  UNION {{r \in RecsOf(e, e.ttl) : r.tgt \notin Targets(Matching(zone, e))} :
           e \in Hosted(ch.updateNew)}
LinodeKept(ch, zone) ==
  UNION {{<<old, new>> \in Matching(zone, e) \X RecsOf(e, e.ttl) : old.tgt = new.tgt} :
           e \in Hosted(ch.updateNew)}
LinodeRemoved(ch, zone) ==
  UNION {{r \in Matching(zone, e) : r.tgt \notin e.tgts} : e \in Hosted(ch.updateNew)}

(* "Generate Deletes"                                                      *)
LinodeDeletes(ch, zone) == UNION {Matching(zone, e) : e \in Hosted(ch.delete)}

(* ApplyChanges, submitChanges                                             *)
LinodeApplyChanges(ch, zone) ==
  OneJob(<<{Add(r, "skip") : r \in LinodeCreates(ch, zone) \union LinodeNewTargets(ch, zone)},
           {Del(r, "skip") : r \in LinodeDeletes(ch, zone) \union LinodeRemoved(ch, zone)},
           {Replace(p[1], p[2], "skip") : p \in LinodeKept(ch, zone)}>>)

-----------------------------------------------------------------------------
(* provider/civo/civo.go: one API record for each target.  Errors of the   *)
(* calls are logged and not returned.                                      *)
CivoRecords(zone) == Single(zone)

(* convertRecordType: one endpoint of another type and nothing is done.    *)
CivoSupported(ch) ==
  \A e \in Hosted(ch.create \union ch.updateNew) : e.type \in {"A", "CNAME", "TXT", "SRV"}

(* processCreateActions: records that are there are only logged.           *)
CivoCreates(ch) == UNION {RecsOf(e, e.ttl) : e \in Hosted(ch.create)}

(* processUpdateActions                                                    *)
CivoNewTargets(ch, zone) ==
  UNION {{r \in RecsOf(e, e.ttl) : r.tgt \notin Targets(Matching(zone, e))} :
           e \in Hosted(ch.updateNew)}
CivoKept(ch, zone) ==
  UNION {{<<old, new>> \in Matching(zone, e) \X RecsOf(e, e.ttl) : old.tgt = new.tgt} :
           e \in Hosted(ch.updateNew)}
CivoRemoved(ch, zone) ==
  UNION {{r \in Matching(zone, e) : r.tgt \notin e.tgts} : e \in Hosted(ch.updateNew)}

(* A mutant of CivoDeletes: everything at the name goes.                   *)
CivoDeletesName(ch, zone) == {r \in zone : \E e \in Hosted(ch.delete) : r.name = e.name}

(* processDeleteActions, getRecordID                                       *)
CivoDeletes(ch, zone) == UNION {Matching(zone, e) : e \in Hosted(ch.delete)}

(* ApplyChanges, submitChanges                                             *)
CivoApplyChanges(ch, zone) ==
  IF ~CivoSupported(ch) THEN <<>>
  ELSE OneJob(<<{Add(r, "skip") : r \in CivoCreates(ch) \union CivoNewTargets(ch, zone)},
                {Del(r, "skip") : r \in CivoDeletes(ch, zone) \union CivoRemoved(ch, zone)},
                {Replace(p[1], p[2], "skip") : p \in CivoKept(ch, zone)}>>)

-----------------------------------------------------------------------------
(* provider/alibabacloud/alibaba_cloud.go: one API record for each target; *)
(* errors are logged and not returned.  The operators named Private are    *)
(* those of private zones.                                                 *)
(* groupRecords, recordsForDNS                                             *)
AlibabaRecords(zone) == Grouped(zone)

(* groupPrivateZoneRecords, privateZoneRecords: the default TTL is hidden. *)
AlibabaPrivateRecords(zone) ==
  {[e EXCEPT !.ttl = IF @ = DefaultTTL THEN 0 ELSE @] : e \in Grouped(zone)}

(* createRecord: without a TTL the service uses its default.               *)
AlibabaCreates(E) == {Add(r, "skip") : r \in UNION {RecsOf(e, TTLOf(e)) : e \in Hosted(E)}}

(* deleteRecords                                                           *)
AlibabaDeletes(E, zone) ==
  {Del(r, "skip") : r \in UNION {{x \in Matching(zone, e) : x.tgt \in e.tgts} : e \in E}}

(* equals: the default TTL and none are the same.                          *)
AlibabaEquals(r, e) == (IF r.ttl = DefaultTTL THEN 0 ELSE r.ttl) = (IF e.ttl = DefaultTTL THEN 0 ELSE e.ttl)

(* updateRecords, for one endpoint.                                        *)
AlibabaUpdate(e, zone) ==
  LET there == Matching(zone, e)
  IN  <<{Replace(r, Rec(e, r.tgt, TTLOf(e)), "skip") :
           r \in {x \in there : x.tgt \in e.tgts /\ ~AlibabaEquals(x, e)}}
          \union {Del(r, "skip") : r \in {x \in there : x.tgt \notin e.tgts}},
        {Add(r, "skip") : r \in {x \in RecsOf(e, TTLOf(e)) : x.tgt \notin Targets(there)}}>>

(* applyChangesForDNS                                                      *)
AlibabaApplyChanges(ch, zone) ==
  <<{<<AlibabaCreates(ch.create), AlibabaDeletes(ch.delete, zone)>>},
    {AlibabaUpdate(e, zone) : e \in Hosted(ch.updateNew)}>>

-----------------------------------------------------------------------------
(* provider/ovh/ovh.go: one API record for each target; the calls run      *)
(* concurrently and the first error cancels those that have not started.   *)
(* ovhGroupByNameAndType                                                   *)
OVHRecords(zone) == Grouped(zone)

(* newOvhChangeCreateDelete                                                *)
OVHCreates(ch) == {Add(r, "stop") : r \in UNION {RecsOf(e, TTLOf(e)) : e \in ch.create}}
OVHDeletes(ch, zone) ==
  {Del(r, "stop") : r \in UNION {{x \in Matching(zone, e) : x.tgt \in e.tgts} : e \in ch.delete}}

(* newOvhChangeUpdate: records of targets that stay are left alone; those  *)
(* of targets that go are rewritten for new targets as far as they reach.  *)
OVHUpdate(e, zone) ==
  LET there == Matching(zone, e)
      gone == {r \in there : r.tgt \notin e.tgts}
      new == {r \in RecsOf(e, TTLOf(e)) : r.tgt \notin Targets(there)}
      n == IF Cardinality(gone) < Cardinality(new) THEN Cardinality(gone) ELSE Cardinality(new)
      G == CHOOSE S \in SUBSET gone : Cardinality(S) = n
      N == CHOOSE S \in SUBSET new : Cardinality(S) = n
      pair == CHOOSE f \in [G -> N] : \A x, y \in G : f[x] = f[y] => x = y
  IN  {Replace(r, pair[r], "stop") : r \in G}
        \union {Add(r, "stop") : r \in new \ N}
        \union {Del(r, "stop") : r \in gone \ G}

(* planChangesByZoneName: an endpoint outside the zones fails the run.     *)
OVHAllHosted(ch) == LET E == UNION {ch.create, ch.updateOld, ch.updateNew, ch.delete} IN Hosted(E) = E

(* ApplyChanges, handleSingleZoneUpdate, computeSingleZoneChanges, change  *)
OVHApplyChanges(ch, zone) ==
  IF ~OVHAllHosted(ch) THEN <<>>
  ELSE OneJob(<<UNION {OVHCreates(ch), OVHDeletes(ch, zone),
                       UNION {OVHUpdate(e, zone) : e \in ch.updateNew}}>>)
=============================================================================
