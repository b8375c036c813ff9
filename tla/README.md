# ExternalDNS: a TLA+ verification project

ExternalDNS reads Kubernetes objects, decides which DNS records they ask for, and
makes a DNS provider hold those records and no others it is responsible for. The
hard part is "responsible for": the zone is shared with other ExternalDNS
processes and with people, ownership is written down in the zone itself or beside
it, and everything a process knows is a copy that may be old when it acts.

The modules here follow a change from a Kubernetes object to the zone: the sources
and their caches, the run loop, the planner, the registries that keep ownership,
the calls the providers make, and several processes doing all this at once. Paths
below are relative to the repository; the lines each definition stands for are in
`PROJECT.json` under `map`, the hazards, line by line, under `hazards`.

## 1. Inventory

| Component | State | Operations | Interacts with |
|---|---|---|---|
| Run loop (`controller/controller.go`, `controller/execute.go`) | `nextRunAt`, `lastRunAt` under `runAtMutex`; the ticker's channel; the context | `Run`, `RunOnce`, `ScheduleRunOnce`, `ShouldRunOnce`, SIGTERM handling | informer callbacks call `ScheduleRunOnce`; `RunOnce` calls the registry, the source, the planner |
| Planner (`plan/`) | none; builds a table of rows per (normalised name, set identifier) | `Calculate`: conflict resolution, owner check, policies, owner filter | pure function of current and desired endpoints |
| TXT registry (`registry/txt/`) | `recordsCache` and its refresh time, `existingTXTs` | `Records`, `ApplyChanges` | provider below, controller above; ownership in TXT records of the zone |
| DynamoDB registry (`registry/dynamodb/`) | `labels`, `orphanedLabels`, `recordsCache`, the table | `Records`; `ApplyChanges` claims keys, has the provider change the zone, cleans up | zone and table are written separately |
| CRD registry (`registry/crd/`) | `DNSRecord` objects and their conditions, the informer's store | `Records`; `ApplyChanges` writes objects, calls the provider, marks objects | API server and provider are written separately |
| Cloud Map registry and provider (`registry/awssd/`, `provider/awssd/`) | services with the owner in their description, instances | `Records` (which also deletes empty services), `ApplyChanges` | services are shared, and outlive their instances |
| In-memory, Route 53, Cloudflare, Google, Azure, OCI, PowerDNS, RFC 2136, OVH, Linode, Civo, DNSimple, Gandi, NS1, Scaleway, Alibaba, GoDaddy, Exoscale, Pi-hole, CoreDNS (`provider/*/`) | the records at the service; caches of zones and records; Route 53's `failedChangesQueue`; OVH's `cacheInstance`; the RFC 2136 server counter | `Records`, `AdjustEndpoints`, `ApplyChanges` | sequences of API calls, each of which may fail |
| Webhook provider and server (`provider/webhook/`) | requests under way | negotiation, `Records`, `ApplyChanges`, `AdjustEndpoints` | HTTP; the server goes on when its caller gives up |
| Provider cache (`provider/cached_provider.go`) | records and the time they were read | `Records`, `ApplyChanges`, `Reset` | between registry and provider |
| Sources (`source/`) | informer stores, one per kind | `Endpoints`: objects to endpoints | objects refer to others of another kind, whose store is filled separately |
| Wrappers (`source/wrappers/`) | none | collect, deduplicate, NAT64, filter targets, PTR, default targets and TTLs | each sees what the others make |
| Event emitter (`pkg/events/`) | rate-limited work queue | `Add`, worker with retries, shutdown | called after `ApplyChanges`; API server |
| Name mapper, domain filter, labels (`registry/mapper/`, `endpoint/`) | none | pure string functions | registries, planner |

Where it is hard:

- **Concurrency.** Informer callbacks race with the run loop for two times; both
  read the clock before they take the lock. Between processes, reading, planning
  and writing are separate steps with nothing to protect what was read. OVH's
  calls run concurrently; a webhook server still works on requests that its
  caller has given up.
- **Failure.** Any call may fail with a soft error (the run ends, the process goes
  on with what it remembers) or a hard one (the process exits and forgets), with
  or without having taken effect. Registries with a store of their own write it
  before and after the provider: a crash falls between. Most providers make many
  calls for one plan and differ in what they do after a failed one.
- **Ordering and staleness.** A batch was planned from a view, a cache or an
  informer that may be out of date. Every kind of object has a cache of its own.
- **Something must happen.** Events must lead to a run in spite of throttling; the
  zone must become what the sources want; plans must come to rest; forced updates
  and migrations must end.

What makes it correct: a process never touches a record it does not hold; a mark
of ownership is there before its record and as long; a plan settles and does not
flap; a cache agrees with what it caches about the process's own records; an event
is served in time and runs are throttled; the zone converges; a name that is
wanted all the time is never taken out of service on the way.

## 2. Modules

```
Scheduler                                         SchedulerProofs
Plan -- PlanLoop -- MCPlanLoop                    PlanProofs -- PlanLoopProofs
Plan, DNSZone -- TXTRegistry -- Reconcile -- MCReconcile
                                   |              PlanProofs -- ReconcileProofs
                 Ownership <-------+ (INSTANCE, refinement)
                     ^
                     +--- DynamoDBRegistry -- MCDynamoDB
                          (on Plan, DNSZone)      PlanProofs -- DynamoDBProofs
Plan, DNSZone -- CRDRegistry -- MCCRD             PlanProofs -- CRDProofs
CloudMap -- MCCloudMap                            CloudMapProofs
ProviderCalls -- SingleRecordProviders, RecordSetProviders, BatchProviders --+-- MCProviders
ProviderLoop ----------------------------------------------------------------+
SourceEndpoints -- CoreSources, IngressSources, GatewaySources
                   -- SourceScripts -- SourceLoop ---------+-- Parts -- MCParts
OVHZone, WebhookProvider, RFC2136Nameservers, EventQueue --+   PartsProofs
```

### The core

**Scheduler.** `controller.go: Run`, one action per critical section or blocking
call. Time is in seconds. `handler[h]` is the `time.Now()` a callback has read
before it gets the lock; `checkedAt` the one passed to `ShouldRunOnce`. `pc`
follows `Run` through `RunOnce` (`stamp`, `records`, `source`, `apply`) back to
the `select`. Every call may fail softly or fatally; `Sigterm` may come at any
time; `Restart` is the kubelet's. `prevRunAt` and `unseen` are history variables.

**Plan.** `plan.go`, `conflict.go`, `policy.go` as operators. A list of targets is
its rank in the order of `Targets.IsLess`; provider-specific properties are a set;
name normalisation, the domain filter and the managed types are parameters. The
three cases of the code (name free, released, taken) are the same formulas with
different parts empty, and are written once. **PlanLoop** closes the loop: changes
are carried out to the letter and the next plan starts from the result.

**DNSZone.** The zone and an atomic batch. `Provider` chooses between the checks
of the in-memory provider (an update needs the record it replaces, with its old
targets) and Route 53's (an update is an UPSERT; `createUpdateChanges` does not
send the old value). `Group` is the split of a failed Route 53 batch by name.

**TXTRegistry.** Each record has the cells `Rec(k)` and `Txt(k)`. `Records` joins
them, with the fallback to TXT records in the format from before v0.12
(`LegacyTXT`, read and never written), the rewriting of the old owner and the
forced update. `Batch` and `CacheAfter` are the two effects of `ApplyChanges`
before the provider is called.

**Reconcile.** Processes with their own configuration, source and cache on one
zone. A run is `ReadRecords`, `PlanChanges` (or `SourceFails`) and one of
`SubmitApplied`, `SubmitFailed`, or `SplitBatch` followed by `GroupApplied` or
`GroupFailed` per name; `Restart` may come between any two steps. If a batch
is applied and its answer is lost, the registry remembers the same as otherwise,
but Route 53 gets the changes once more, name by name (second case of
`SubmitApplied`). `missed` is a history variable.

**Ownership.** The promise of `docs/faq.md`: a record is free or held; an owner
claims free records and changes or releases its own. `Reconcile` implements it
with holder and content read off the zone; the DynamoDB registry with the holder
read off the table, or off a TXT record that is not migrated yet.

### Registries beside the zone

**DynamoDBRegistry.** A run is `ReadLabels` and `ListRecords` (or an answer from
the cache), `PlanChanges`, then the three phases of `ApplyChanges`: `ClaimChunk`
per chunk of statements, each of which is accepted, refused as a duplicate or
fails, `ProviderApplies`, `CleanupChunk`. An error of the table (`ClaimError`,
`CleanupFails`) is not a soft one: `Run` returns it and the process ends (`Exit`); the
next one starts with the table and the zone only. An error of the provider is soft: the
run ends and `labels` and cache are dropped (`Abort`). A batch that fails on Route 53
is submitted again name by name first (`parts`, `PartApplies`, `PartFails`).
`FaultSets` says what may go wrong in a
behaviour, `calm` that nothing goes wrong any more. The migration from the TXT registry is
part of it: ownership is read off old TXT records, claimed, and the TXT records
are deleted a run later.

**CRDRegistry.** Every write of an object, of its status and of the record is an
action; status writes are not checked by the code, so their failure changes
nothing but the object. Objects of new records are written before those of updated
ones, as in the code. `lister` is what the informer has delivered; writing an object
that has changed since it was read is a conflict. The provider applies a batch or
fails; a failed one is submitted again name by name in the worlds with "split", as for
Route 53, so that `ApplyChanges` may return an error although part of the batch is done
(`PartApplies`, `PartFails`). `Worlds` says what may go wrong in a behaviour, whether
batches are split, whether one process is alone, and whether the provider's create
replaces a record that exists. `maker` and `made` are history variables: a zone does
not say whose a record is, only the objects do.

**CloudMap.** `Records` lists services and then discovers instances one service
at a time (`ListServices`, `Discover`) and deletes the empty ones it takes for its
own, in a call of its own (`DeleteService`), by which time the service may be in use
again. `submitDeletes` and `submitCreates` each list the services at their start and
go by that list: `Deregister` needs the service it names, `EnsureService` creates what
was not listed, or updates or uses what was, and `Register` needs the service to be
there still. What fails because the list is old ends the run.

`MCDynamoDB`, `MCCRD` and `MCCloudMap` give them two owners each; which failures may
meet in one behaviour is part of the configuration.

### Providers

**ProviderCalls** makes calls data: a call clears keys, deletes or adds records,
looks for a record, demands that some exist, and says what the provider does when
it fails (give up, give up on the zone, note it, ignore it, or do something else
instead). `ApplyChanges` of a provider is then an operator from a plan, and where
the code reads the zone again from the zone, to stages of jobs of phases of calls:
what the code does in the order of a map or of the plan is left open.
**ProviderLoop** is the run loop around it: `Read`, `Plan`, the calls one by one,
which fail with or without effect, `Crash`, and sources that change.

| Module | Code |
|---|---|
| `BatchProviders` | aws: aliases, delete-and-create updates, batches limited by changes and values, repetition name by name; cloudflare: changes per target, chunks, replay of a failed chunk as single requests; rfc2136: chunks of an update message |
| `RecordSetProviders` | azure, azure-private-dns, godaddy, gandi, ns1, scaleway write sets of records; google, oci, pdns and inmemory one change set per zone or chunk |
| `SingleRecordProviders` | exoscale, pihole, coredns, dnsimple, linode, civo, alibaba, ovh |

**MCProviders** has 23 configurations of 21 providers: Alibaba with public and
private zones, Cloudflare with the usual and with tiny chunks.

### Sources and other parts

**SourceEndpoints** is what sources share: hostname, target and TTL annotations,
templates, merging, and the wrappers in the order of `wrapSources`. **CoreSources** (services of every type, nodes, pods, the
old annotations of kops, mate and molecule), **IngressSources** (ingress, Contour,
OpenShift, Skipper, Kong, Traefik, F5, Ambassador, DNSEndpoint, unstructured) and
**GatewaySources** (Istio gateways and virtual services, Gloo, Gateway API routes
and listener sets) translate `Endpoints` of each source into an operator on the
objects of a cluster. **SourceScripts** gives each source a cluster that changes one kind
at a time; **SourceLoop** lets the caches follow in any order, and runs, with calls
that may fail, come at any time.

**OVHZone**, **WebhookProvider**, **RFC2136Nameservers** and **EventQueue** are
described at their heads. **Parts** puts them and the sources side by side, each in
behaviours of its own: the variables of the others stay 0. MCParts gives its
constants values.

Definitions that begin with "A mutant of" are plausible bugs in the code; they are
used by no specification and serve to show that each property can fail.

## 3. Runs

| Run | Shows |
|---|---|
| `scheduler` | Two callbacks and the loop in every interleaving over a few intervals, with errors, SIGTERM, restarts: `NoStarvation` (no event postpones a run), `EventDeadline` (no event is forgotten), `ThreeRunSpacing` (of three runs the third is a throttle away from the first). |
| `scheduler_spacing` | **Violated:** two consecutive runs may be closer than `MinEventSyncInterval` (finding 1). |
| `plan_loop` | 400 zones and 73 lists of desired endpoints for one contested name, all policies, repeatedly: `RowsUnique`, `Converged` (one run is enough), `OthersUntouched`, `CnameExclusive`, `ResourceKeepsName` (no flapping), `PolicyRespected`. |
| `reconcile_cached` | Two owners, cache on, provider with checks: `OwnershipKept` (refinement of `Ownership`), `NoOrphanTXT`, `ViewUnique` (no duplicate in the cache), `CacheExact` (the cache is exact about one's own records as long as no batch was missed), `Converges` (with settled sources the zone becomes and stays what they want). |
| `reconcile_uncached` | Two owners on Route 53, cache off, with split batches and a record that only has an old-format TXT record: no process touches a record it does not hold (`ForeignRecordsKept`) although the view is stale and UPSERTs check nothing, the zone `Converges`, and the old format is replaced (`LegacyReplaced`). |
| `reconcile_upsert_cache` | **Violated:** Route 53 with the cache: `ForeignRecordsKept` (finding 2). |
| `reconcile_unwanted` | **Violated:** an unwanted record that has only an old-format TXT record stays forever (finding 3). |
| `dynamodb` | Two owners with caches, failing statements and calls, crashes, records made by hand, and zones that come from the TXT registry: `LabelsExact` (between runs and when a plan is made the cached labels are exactly the claims of the owner, and nothing is planned or cached while `labels` is nil), `ClaimsKept` (a claim is changed by its owner only), `RecordsClaimed` (a record is changed only by who holds its name at that moment), `OwnershipKept` (refinement of `Ownership`), `Settles` (when failures end, everyone has what it wants and the migration is complete). |
| `crd` | Two owners with failing writes, failing, lost or partly applied batches and crashes, or one whose informer lags: `RecordsHaveObjects` (every record has an object of its maker), `OwnRecordsOnly` (on a provider whose create does not replace records a process touches a record of another at most under a name it once had a record of, whatever happens; and never, if batches are applied as a whole and the objects of deleted records get deleted), `ProgrammedIsLive` (the record that a process has under the name of a Programmed object is as described, through failed, lost and partly applied batches; and there is one, if batches are whole and no answer is lost), `Settles` (a single process gets what it wants from a provider that replaces records). |
| `cloudmap` | Two owners that clean up empty services, with failing calls and crashes: `ServicesKept` (services and instances stay with their owners), `NamesServed` (an uncontested name gets its targets, whatever happens to the others in the same runs). |
| `providers` | Every provider with failing, lost and half-done calls and crashes: `NoCollateral` (records of other types are untouched), `Synchronised` (the service ends up with what is wanted), `Quiet` (and the plan comes to rest), `InService` (a name that is kept or changed never loses its last record on the way). |
| `parts` | `Settles` (a source publishes what its objects ask for, each for itself), `NoWithdrawal` (a name asked for all the time is not dropped while caches disagree or calls fail), `ReverseAgrees` (addresses and PTR records), `KnownIsCurrent` (the OVH and the provider cache are never behind one's own changes), `Stored`, `SendReachesAll` (a DNS update is given up only if no server answered), `EventsEnd`, `EventsTried`. |

What a theorem of section 4 covers for every value of the constants is checked on one
instance only: the types of `Scheduler` and `Reconcile` on none, `OwnershipKept` with
the cache and `ForeignRecordsKept` without it.

**Exceptions.** A property that some provider or source does not have is stated
for the others, and the exceptions are listed by name in the instance, so that one
that ceases to be an exception can be taken off the list and any other that becomes
one is found:

- `MCKeepsOldTargets` (linode, civo, gandi) and `MCOtherTTLs` (alibaba, ovh,
  pihole, cloudflare) weaken `Synchronised`; `MCRestless` (linode, civo, gandi,
  alibaba, ovh) is exempt from `Quiet`; `MCNotAtomic` (linode, civo, dnsimple, ovh,
  cloudflare) has `InService` as long as no call fails, `MCDeletesFirst` (alibaba,
  pihole, coredns, cloudflare with several chunks) not at all.
- `StoppedByOne` (node, templates): one object in error stops the source.
  `Withdraws` (load balancer lookup, headless, node port, pod, ambassador, Istio
  gateway, virtual service, gateway route) is exempt from `NoWithdrawal`.

The reasons are in section 6.

**Bounds.** `Scheduler.cfg`: intervals 3, 2 and 1 keep the order of the defaults
(60 s, 5 s and 5 s, with the last two told apart), and `MaxTime` leaves room for
three runs and a restart; two callbacks are enough for one to hold an old time
while the other schedules. The proofs remove these bounds. `MCPlanLoop`: rows do
not interact, so one row with all managed types, two resources, three owners, two
targets and two spellings is enough; lists of up to two desired endpoints contain
every tie and every type conflict between two resources. `MCReconcile`: two
processes are enough for every race on a record, since a batch races with one
other batch at a time; `MaxSourceChanges` allows a process to create, change, and
release a name while the other holds an old view; two names are needed for a
batch to be split (`ReconcileUncached.cfg`). `ReconcileCached.cfg` has one name, which the
first process holds or which is there by other means: all its properties but `Converges`
are theorems. `MaxSourceChanges` is 0 where a single fixed source already shows the
violation. `MCDynamoDB`, `MCCRD` and `MCCloudMap`: two owners and a
contested name, and a second name so that a run can be half-done; chunks of one
statement, so that every statement is a step; `MaxSourceChanges` lets a name be
given up or change hands; `MaxServices` lets every service be deleted and created
again several times. `MCWorlds` are the circumstances in which the CRD registry runs:
everything but the informer and the statuses may fail and failed batches are split; only
the provider and the statuses; only the provider, one that applies a batch as a whole,
one that splits it and whose answers may be lost, and one that splits it and replaces
records; or one process is alone with an informer that lags, which multiplies the
states; what it lags behind are the process's own writes. `Providers.cfg`: two
names in one zone, one in another and one in none, sets of one and of two targets,
TTLs above the providers' minimum and none at all; `MaxFaults` 2 allows
a second failure in the repetition of what has failed, `MaxWantChanges` 2 a want
that goes and comes back; the limits of batches are small enough to be reached.
`Parts.cfg`: the same for faults and edits; `MaxFlips` 4 lets every server of three
go down and one come back. All state spaces are explored to the end.
`CHECK_DEADLOCK FALSE` only in `parts`: the event emitter stops after shutdown.

**Fairness.** `Run` starts runs at least every `Interval`, and
`SchedulerNoStarvation` says so; this justifies fairness of the steps of a run
everywhere. In `Reconcile` (`FairSpec`) it is strong fairness, because a restart
or a failing source may disable a step again and again, and the assumption is that
restarts and failures do not strike every attempt for ever. In the same sense
batches the provider would accept are not lost every time (`SubmitApplied`,
`GroupApplied`; `ProviderApplies` in `CRDRegistry`, strong fairness). In
`DynamoDBRegistry` failures come to an end instead (`Calm`), since a run consists of
many calls; in `CloudMap` they are bounded by `MaxFaults`. Nothing is assumed of
batches that a provider rejects. Caches expire by the clock and informers deliver:
weak fairness. A process that has ended is started again at once (`Exit`). `ProviderLoop` and `Parts` bound
failures by `MaxFaults` and only ask that the loop goes on; `Parts` in addition
that a source is run again after its caches have changed (`[]<>fresh`), that the
emitter's worker works and its delays pass, and that a webhook server answers what
it has received. Sources are not fair and stop changing by their bounds, which is
what the properties speak about.

## 4. Proofs

`SchedulerProofs` proves for all intervals and any number of callbacks
`TypeOK`, `NoStarvation`, `EventDeadline` and `ThreeRunSpacing`, from
`IntervalsAssumption` (naturals; the clock starts later than one throttle after
Go's zero time). None of them is inductive: between `ShouldRunOnce` and the stamp,
`nextRunAt` counts from `checkedAt` and no longer from `lastRunAt`. `GrantInv`
bounds it from above in that window, `SpacingInv` from below everywhere (from the
last run but one, and in the window from the last). It is this window that makes
`MinEventSpacing` false and `ThreeRunSpacing` the strongest spacing that holds.

`PlanProofs` has the lemmas about the planner that the other modules cite: what
`Calculate` takes from where (`CalculateParts`), that an update keeps key and owner,
what the conflict resolver may return, what the policies and the owner filter let
through.

`PlanLoopProofs` proves all six properties of `PlanLoop`, for any names, types,
owners, resources and lists of desired endpoints, from `PlanLoopAssumption`: known
policies (`buildController` checks them), records with one row per name, set
identifier and type to begin with (a DNS zone has no others), and a domain filter
that takes all spellings of a name or none (it normalises what it compares).
`RowsUnique` and `Converged` are inductive together with the types; the four action
properties follow from the same invariant, row by row. For `Converged` the argument
is that the candidate the resolver picks from the result is the one it picked
before: its resource now holds the row.

`ReconcileProofs` is about any number of processes with any policies, sources and zones that satisfy `ReconcileAssumption`
(owner ids are not empty, as `newRegistry` checks; known policies; endpoints are
well formed; zones at first have no TXT record without its record).

| Theorem | For | Assumes besides |
|---|---|---|
| `ReconcileTypeOK`, `ReconcileNoOrphanTXT` | either provider, cache or not | |
| `ReconcileViewUnique` | either provider, cache or not | `OneSpelling` |
| `ReconcileForeignRecordsKept`, `ReconcileOwnershipKept` | a provider that checks what an update replaces, cache or not | `OneSpelling` |
| `UncachedForeignRecordsKept`, `UncachedOwnershipKept` | either provider, no cache | `OneSpelling`, `DistinctOwners`, `NoMigration` |
| `ReconcileCacheExact` | a provider that checks what an update replaces | `OneSpelling`, `DistinctOwners`, `NoMigration`, `LegacyUnshared` |

The two `OwnershipKept` theorems are refinements of `Ownership`: initial states map
to initial states, and every step, a whole batch or one group of a split one, to a
step of one owner or to a stutter.

The inductive invariant is built up in layers, each with its own step lemma:

- `ShapeInv`: in every batch under way a TXT record is written only with its record
  and a record deleted only with its TXT record. It survives splitting because both
  have the same name, and gives `NoOrphanTXT`.
- `OwnedInv`: a batch names, for everything it updates or deletes, a TXT record with
  the process's own id. A provider that insists on the old record thereby checks the
  owner, however old the view is.
- `ViewInv`: view and cache have unique keys, agree until the plan is made, and
  `existing` holds keys of the view only. The last part makes every creation bring
  its TXT record, whichever failed batches have been put into the cache.
- `WholeInv`: what a batch does to a record it also does to its TXT record, with its
  own id. Without it a batch could create a record beside somebody's mark.
- `HeldInv` (no cache): every record a process took for its own when it read, and
  every record its batch updates, it still holds. It is stable because only its
  holder releases a record; it replaces the provider's check on Route 53. With a
  cache it is false, which is finding 2.
- `ExactInv` (cache): between planning and submitting, the cache is what the zone
  will be once the batch is applied; otherwise it is exact.

Why the assumptions are there. `OneSpelling` (no two names of the domain filter
normalise to the same): a row may hold two spellings of a name and an update may
replace one by the other, which moves a record to another key. `DistinctOwners` and
`NoMigration` (`--migrate-from-txt-owner` is not used): two processes with one id
may release each other's records, and a migrating process takes records of the old
owner; where the provider checks updates neither matters for ownership.
`LegacyUnshared` (a record whose owner is known from an old-format TXT record only
is alone with its name and type): `Records` asks whether the name of the new TXT
record is taken, by whatever set identifier, so that another set's TXT record ends
the forced update of this one and changes what is read without a batch of its own.
`MCReconcile` has instances that satisfy all of them.

`DynamoDBProofs` proves the four safety properties of `DynamoDBRegistry` for any
number of processes, chunk sizes, sources, caching or not, and any failures, from
`DynamoDBAssumption` (owner ids are not empty, known policies, batches of at least
one statement), `OneSpelling`, `OwnIDs` (owner ids are different) and `PlainSources`
(sources want no TXT records and do not use the internal mark for migration).
`DynamoDBRecordsClaimed` and `DynamoDBOwnershipKept` also assume `FreshZone` (the
zone does not come from the TXT registry; it may hold records of nobody): before the
migration is complete ownership is in two places, which TLC checks only.

While `ApplyChanges` is under way labels, cached records and table differ, and the
invariants say by what:

- `LabelInv`: a label has its entry in the table, or a statement under way that
  writes it; and every entry of the owner has a label, or is about to be removed.
- `StatementInv`: at most one statement per key; the UPDATE statements of a process
  name its own entries. They name only the key (`appendUpdate`), so this is all that
  keeps it from changing another owner's entry: `ClaimsKept`.
- `ViewInv`: a plan is made, and a cache is fresh, only while `labels` is not nil; an
  endpoint that Records or a fresh cache calls ours has a claim or one under way, and
  no orphaned label; what is being cleaned up is not in the cache.
- `ChangeInv`: what the provider is asked to create, update or delete is claimed, or
  its claim is under way; when the claims are done, it is claimed: `RecordsClaimed`.
  This holds for a whole batch and for every part of one that is split.
- `HeldInv`: a record without a claim was there at first, every view and cache shows
  it, and so no plan creates it; a record whose claim is being removed is gone from
  the zone, and an orphaned claim has no record. In a batch that is split this is so
  for the names that are done. With it every step is a step of `Ownership` by one
  owner, or a stutter.
- `TidyInv`: `parts` is in use only while the provider is called, and `labels` is a
  map, so that labels that agree with the owner's entries key by key, as `LabelInv`
  says of them when nothing is under way, are equal to them: `LabelsExact`.

`CRDProofs` is about `CRDRegistry` with `CRDAssumption` (owner ids are not empty,
known policies), `OneSpelling`, `OwnNamespaces` and `OwnIDs`.

| Theorem | For |
|---|---|
| `CRDRecordsHaveObjects` | any number of processes, any failures but an informer that lags |
| `CRDOwnRecordsOnly` | any number of processes on a provider that does not replace records. Under any failures, split batches and informers that lag: another's record is touched only under a name of which the process has had a record. Where the provider and status writes may fail and batches are whole: never |
| `CRDProgrammedIsLive` | any number of processes on any provider, with failed, split and lost batches and informers that lag, without crashes and failed writes: what a process has is as its Programmed object says. One process that is alone, on any provider, with an informer that may lag, or any number on a provider that does not replace records, with whole batches and no lost answers: there is such a record |

`OwnNamespaces` is needed because `ensureDNSRecord` refreshes whatever object exists
under the name, also one of another owner. The circumstances of the last two theorems
are conditions of their properties, not assumptions of the proofs; section 6 has what
happens in others, and why the stronger parts are false when a batch may be partly
applied. The invariants: `BasicInv` (the objects written in a run are as they
were written, and what is written is not deleted in the same run), `ObjectsInv` (every
record has its object, and the objects of a batch under way are written before it is
sent; of a batch that is split this holds part by part), `OwnInv` (a Programmed object,
a view and a batch speak of records of the process itself, where nothing is left
behind), `MadeInv` (else of records it has had), `LiveInv` (what is Programmed is in the
zone as described, or not the process's own, or its object is being deleted or has been
rewritten in this run; the objects of a batch lose their status before it is sent, so
that a part that was applied is never Programmed with an old target). A step of another process keeps `LiveInv` (`OthersLive`)
because by `OwnInv` the records of Programmed objects are the process's own and by
`ForeignUntouched` the others leave them alone. Nothing is said of what the informer
shows: whatever a plan is made from, `SetAccepted` and the deletion of objects bring
objects and zone together again.

`CloudMapProofs` proves `ServicesKept` for any number of owners, names and targets,
from `CloudMapAssumption`, `OwnDescriptions` (no owner id is the beginning of
another) and `SameTTL` (an update of a service's TTL also writes the updater's
description, which hands the service over). `ListInv` says that a listed service
with the same id still has its owner, one's own listed services are still there, and
no listed TTL is to be corrected;
`OwnInv` that what a process found to be its own it still owns when it deregisters
instances: nobody else deletes it, and without TTL updates no description changes.

`PartsProofs` proves three properties of `Parts` for any constants that satisfy
`PartsAssumption` (at least one name server; a number of retries; a sequence of
changes, each about finitely many objects):

- `PartsKnownIsCurrent`. OVH: a cache has the API's records, whatever the name servers
  answer, except while changes are being made. Webhook: at most one request has a caller
  that waits for it, who dropped the cache before it sent the request.
- `PartsSendReachesAll`, for strategies other than random: of the servers that have
  answered all through an operation none has been tried yet, and all of them are
  among the `N - tries` servers that come next, counted round from the one to be
  tried. The random strategy may repeat a server, so it is left out (section 6).
- `PartsEventsTried`: no event is in the queue twice or in two places, and what is
  still to be made has been tried as often as the rate limiter has counted. The
  first part needs that the events of a change are added in an order, each once,
  which is a fact about surjections of finite sets.

Only model-checked. Liveness (`Converges`, `Synchronised`, `Settles`, `NamesServed`,
`Stored`, `EventsEnd` and the like), which is out of this prover's reach. The
migration of a zone from the TXT to the DynamoDB registry. The providers
(`NoCollateral`): `ProviderLoop` has operators as constants, about whose calls nothing
can be said in general, and the list of providers and their exceptions is finite by
nature. So are the scripts of clusters behind `NoWithdrawal` and `ReverseAgrees`.
Route 53 with a TXT cache is not proved but refuted (finding 2).

## 5. Findings

1. `scheduler_spacing`: `ShouldRunOnce` releases the lock before `RunOnce` stamps
   `lastRunAt`. A callback in between computes from the previous run, and the
   next run may start right after the one just granted.
2. `reconcile_upsert_cache`: a created record is put in the cache before the
   provider is called and stays there when the call fails. If it failed because
   another process created the name first, the process now takes that record for
   its own; the next change of its source is an UPSERT over the other's record
   and TXT record.
3. `reconcile_unwanted`: for a record with only an old-format TXT record, the
   deletion names a new-format TXT record that does not exist, and the provider
   rejects it at every run.

## 6. Deviations

What else the models have met that is surprising. The models contain all of it; where
a property would not hold the exceptions of section 3, the scenario or the property
itself say so.

Registries:

- TXT: with `--migrate-from-txt-owner` (`docs/registry/txt.md:213`) `Records` rewrites
  the old owner before the plan is made (`registry/txt/registry.go:266`), so that old and
  new endpoints of the migration's update are equal and `HasChanges` drops it
  (`plan/plan.go:160`): the TXT record of a record that needs no other change keeps the
  old owner for ever.
- DynamoDB: unused TXT records of the TXT registry are deleted whoever they name
  (221-228), although the comment says "owned by us".
- DynamoDB: after a crash, inserting one's own claim again is refused as a
  duplicate (543-548) and the change waits for the next run; a record that someone
  creates by hand between claim and change is taken over by an UPSERT (353).
- CRD: the objects of deleted records are deleted last (`crd.go:245-260`), and not at
  all if the provider returns an error (235). On Route 53 a rejected batch is submitted
  again name by name (`aws.go:775-795`), so that a deletion may be done and its object
  stay Programmed: no crash and no fault is needed, a name in the same batch that
  somebody else has taken is enough. The next run deletes the record once more, which
  is rejected for ever, or deletes what another owner has created there with the same
  value since; and if the name is wanted again with the same target no plan creates
  it. A crash, a lost answer or a failed deletion of the object have the same effect.
- CRD: a creation that got through in a failed batch has a Failed object, which
  `Records` does not return; the next run's CREATE is refused by Route 53 for ever. The
  comments (`crd.go:174-177`, 228-231) expect the next plan to see to it.
- CRD: an updated spec stays Programmed when a later object cannot be written:
  `ApplyChanges` returns before it sets the status (215-224), and the zone has the old
  record. `OwnRecordsOnly` and `ProgrammedIsLive` say what is left in each of these
  circumstances.
- CRD: after a crash between writing an object and marking it (`crd.go:214`), or a
  lost answer, a strict provider refuses the repeated creation (227), and the object
  never becomes Programmed; the comment at 176 takes applies to be idempotent. This
  is why `Settles` is about a provider that replaces records. Two owners in one
  namespace overwrite each other's objects (322-356): namespaces are the owners' own
  here. A deletion from an informer that lags may leave a record without its object.
- Cloud Map: a service belongs to every owner whose id its description begins with
  (`aws_sd.go:523`), so that owner `a` deletes services of `ab`; `Matches` leaves
  this out, and the comment at 505 speaks of the services of the owner only. A service
  that is handed over may be deleted and created in turn by
  both (316-333).

Providers:

- Linode, Civo and Gandi return one endpoint per record (`linode.go:146`); the plan
  keeps one of several for a key, so old targets stay or are written again.
- DNSimple finds a record to delete or update by name only (`dnsimple.go:338`) and
  may take one of another type; Exoscale writes only the first target and does not
  list AAAA records (321), which are created at every run.
- Gandi keeps the TTL of an earlier endpoint for later ones (`gandi.go:264`).
- Alibaba deletes before it creates, and does not honour dry run everywhere
  (`alibaba_cloud.go:580`, 922, 990).
- OVH: targets that stay never get a new TTL (`ovh.go:646`); a failed refresh is
  not repeated (309-321), so records may be stored and not published until the next
  change, and the name servers follow a refresh at a time of their own (`Publish`,
  which is not fair): `Stored` speaks of the API for this reason; one endpoint outside the
  zones stops the plan. Civo: one endpoint of an unsupported type does.
- RFC 2136: `List` returns the error of an earlier try after a successful one
  (`rfc2136.go:325`); the random strategy may ask the same server every time
  (515-517), so `SendReachesAll` is about the other two; a transfer that ends early
  is accepted (308-322).
- GoDaddy raises TTLs to 600 (`godaddy.go:366`), and a lower one is updated at every
  run; the TTLs of the instance are above the minimum (`MinTTL`) or not configured.
- CoreDNS merges A and AAAA of one name (333-335), deletes one of several targets
  per run (541-545), deletes old targets before it saves new ones (485-494), and
  deletes keys by prefix. Pi-hole deletes first as well and has no TTLs.
- Cloudflare: a replay that fails in part may leave a set with several TTLs
  (`cloudflare.go:862`).
- Google: a name with more changes than `batchSize` is never changed (364-367);
  Route 53 likewise (`aws.go:1229-1240`).
- Route 53: `failedChangesQueue` compares pointers (`aws.go:1143`), which never
  match in the next run, so that failed changes are not put in a batch of their
  own; the copy made for an alias in the same zone drops its size and owner
  (1308-1314).

Sources and the rest:

- One node without an address stops the node source (`node.go:224`); an error of a
  template for one object stops its source.
- A failing call is taken for an empty answer by Ambassador (169) and by the lookup
  of load balancer names (`service.go:591-594`): records are withdrawn. Headless
  and node port services, pods, virtual services, gateway routes and Istio gateways
  skip what is not in another cache yet, with the same effect while caches lag.
- A pending pod with an internal hostname gets an endpoint with an empty target
  (`pod.go:191`). `MergeEndpoints` returns the order of a map, and deduplication
  ignores TTLs (`dedupsource.go:68`), so that the TTL of a name with two may
  change from run to run. NAT64 adds a second A endpoint to a name that has one
  (`nat64source.go:109-113`). Kong, F5, Traefik and Ambassador do not look at the
  controller annotation.
- Webhook: a POST that has timed out is still carried out (`httpapi.go:67`), and if
  this is after the next read the cache is behind until it expires;
  `KnownIsCurrent` leaves out reads that were overtaken like this, `Stored` does not.
- Events: `Len` does not count events that wait for a retry (`controller.go:118`);
  those are lost at shutdown.

## 7. Abstractions and what is not modelled

- A TXT record's name, its encryption and the record type CNAME used for alias
  records are left out: every record has a TXT record of its own. The name mapper,
  where two records could share one, takes strings apart and is not modelled; nor
  are the domain filter (a set of names), the order on target lists (ranks) and the
  encryption of labels.
- In the core a list of targets is one value, and the in-memory provider compares
  first targets; in the provider modules and in the sources it is a set, so that the
  first target of a CNAME, which `MergeEndpoints` goes by, is one of them, always the
  same. `ProviderLoop` plans for records that are all of one owner (the no-op
  registry). The order of the changes inside one batch is not represented: a batch is
  accepted if what it deletes is there and what it creates is not, except by its own
  deletions. Cloudflare's refusal of identical records is not modelled.
- The in-memory provider also stores the labels of endpoints; a zone here does not,
  like every real provider's.
- Route 53: routing policies, health checks, zones by tag or profile, pauses between
  batches. Cloudflare: custom and regional hostnames, tags, comments. Azure and
  OCI: the cache of zones, which do not change here. RFC 2136: TSIG and GSS-TSIG.
- Authentication, paging, rate limits and retries inside client libraries: a call
  succeeds or fails.
- Set identifiers, provider-specific properties and references to objects in
  endpoints of sources, with them the alias property in `CheckEndpoint`; parsing of annotations and templates is reduced to what
  they say. Filters of informers by annotation and label, and transformers.
- `--once`, dry run, flags, metrics and logging. Cancelling the context inside a
  provider call is a failed call. Connector, fake and empty sources.

## 8. Plan

Modelling: custom and regional hostnames of Cloudflare as records written after
their record; routing policies of Route 53; the name mapper and `IsLess` as pure
algorithms against reference definitions, over short sequences of symbols; the
provider cache below the TXT cache.

Proofs: the DynamoDB registry during the migration from the TXT registry, with the
TXT records as part of the invariant; `NoCollateral` for providers whose calls name
only keys of the plan; the wrappers' `ReverseAgrees` for any set of endpoints.
