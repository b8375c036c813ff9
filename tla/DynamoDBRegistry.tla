-------------------------- MODULE DynamoDBRegistry --------------------------
(***************************************************************************)
(* Several ExternalDNS processes reconcile one zone with the DynamoDB      *)
(* registry (registry/dynamodb/registry.go): ownership is kept in a table  *)
(* beside the zone.  ApplyChanges claims keys in the table, then has the   *)
(* provider change the zone, then removes claims that are not needed any   *)
(* more.  The statements for the table go in chunks; each statement of a   *)
(* chunk succeeds or fails by itself.  An error of the table ends the      *)
(* process, which is started again; one of the provider ends the run only. *)
(*                                                                         *)
(* The zone maps the keys in use to values [tgt, ttl, ps]; the only TXT    *)
(* records in it are ownership records left by the TXT registry, whose     *)
(* tgt is [owner, res].  The table maps keys to [o, l], with l the         *)
(* resource label.                                                         *)
(***************************************************************************)
EXTENDS Plan, DNSZone, FiniteSets

CONSTANTS
  Controllers, Config, SourceLists, InitialZones,   \* as in Reconcile
  Caching,           \* TRUE if cacheInterval > 0
  MaxBatchSize,      \* dynamodbMaxBatchSize
  ToEndpointName,    \* mapper: TXT name |-> <<name, type>> of its record
  FaultSets,         \* sets of what may go wrong: calls that fail ("claim",
                     \* "provider", "cleanup"), "crash": processes are
                     \* killed, "manual": records are created by other means
  MaxSourceChanges   \* bound on the changes of the sources

(* dynamodbAttributeMigrate, a property that no provider stores.           *)
Migrate == "dynamodb/needs-migration"

(* What newRegistry and buildController check of the configuration.        *)
ASSUME DynamoDBAssumption ==
  /\ MaxBatchSize \in Nat \ {0}
  /\ \A c \in Controllers : /\ Config[c].ownerID # ""   \* registry.go:96
                            /\ Config[c].policy \in Policies
                            /\ SourceLists[c] \subseteq Seq(Endpoints)
  /\ \A z \in InitialZones : \A k \in DOMAIN z :
       k = <<k[1], k[2], k[3]>> /\ Migrate \notin z[k].ps

VARIABLES
  zone, table, src, sourceChanges,
  faults,     \* what may go wrong in this behaviour
  calm,       \* TRUE when nothing goes wrong any more
  pc,         \* pc[c]: "idle", "plan", "claim", "apply", "cleanup"
  view,       \* view[c]: what Records returned
  labels,     \* labels[c]: [read, map]; read = FALSE is a nil map
  orphaned,   \* orphaned[c]: orphanedLabels
  cache,      \* cache[c]: [filled, fresh, eps]
  changes,    \* changes[c]: filteredChanges
  stmts,      \* stmts[c]: the statements not yet executed
  parts,      \* parts[c]: of a batch that is submitted name by name, the
              \* names that are left and those whose changes are applied
  foreign     \* the keys of records made by other means (history variable)

procVars == <<pc, view, labels, orphaned, cache, changes, stmts, parts>>
vars == <<zone, table, src, foreign, sourceChanges, faults, calm, procVars>>

NoCache == [filled |-> FALSE, fresh |-> FALSE, eps |-> {}]
NilLabels == [read |-> FALSE, map |-> <<>>]
Whole == [left |-> {}, done |-> {}]
Without(f, S) == [x \in DOMAIN f \ S |-> f[x]]
OwnID(c) == Config[c].ownerID
MayFail(f) == f \in faults /\ ~calm

-----------------------------------------------------------------------------
(* Records: the labels of a record come from the table, else from a TXT    *)
(* record of the TXT registry, which has to be migrated.                   *)
Claims(o) == {k \in DOMAIN table : table[k].o = o}
readLabels(o) == [k \in Claims(o) |-> table[k].l]

(* The key under which the labels of a TXT record, or those for a record,  *)
(* are found: only AAAA records keep their type.                           *)
LabelKey(name, sid, type) == <<name, sid, IF type = "AAAA" THEN type ELSE "">>
TxtLabelKey(t) == LabelKey(ToEndpointName[t[1]][1], t[2], ToEndpointName[t[1]][2])
RecLabelKey(k) == LabelKey(k[1], k[2], k[3])

Entry(z, k, extra, owner, res) ==
  [name |-> k[1], sid |-> k[2], type |-> k[3], tgt |-> z[k].tgt,
   ttl |-> z[k].ttl, ps |-> z[k].ps \union extra, owner |-> owner, res |-> res]

(* A mutant of Records: TXT records are taken for records like others.     *)
RecordsUnmigrated(z, own, l) ==
  {Entry(z, k, {}, own, l[k]) : k \in DOMAIN z \intersect DOMAIN l}
  \union {Entry(z, k, {}, "", "") : k \in DOMAIN z \ DOMAIN l}

Records(z, own, l) ==
  LET keys == DOMAIN z
      txts == {t \in keys \ DOMAIN l : t[3] = "TXT"}
      found(k) == {t \in txts : TxtLabelKey(t) = RecLabelKey(k)}
      migrated == {k \in keys \ (DOMAIN l \union txts) : found(k) # {}}
      used == UNION {found(k) : k \in migrated}
      from(k) == z[CHOOSE t \in found(k) : TRUE].tgt
  IN  {Entry(z, k, {}, own, l[k]) : k \in keys \intersect DOMAIN l}
      \union {Entry(z, k, {Migrate}, from(k).owner, from(k).res) : k \in migrated}
      \union {Entry(z, k, {}, "", "") : k \in keys \ (DOMAIN l \union txts \union migrated)}
      \union {Entry(z, t, {}, own, "") : t \in txts \ used}

(* The owner of a record: its claim, else the TXT record that is not       *)
(* migrated yet.                                                           *)
Holder ==
  [k \in DOMAIN zone |->
     IF k \in DOMAIN table THEN table[k].o
     ELSE LET txts == {t \in DOMAIN zone : t[3] = "TXT" /\ TxtLabelKey(t) = RecLabelKey(k)}
          IN  IF k[3] # "TXT" /\ txts # {} THEN zone[CHOOSE t \in txts : TRUE].tgt.owner
              ELSE ""]

Init ==
  /\ zone \in InitialZones
  /\ table = <<>>
  /\ foreign = {}
  /\ src \in [Controllers -> UNION {SourceLists[c] : c \in Controllers}]
  /\ \A c \in Controllers : src[c] \in SourceLists[c]
  /\ sourceChanges = 0
  /\ faults \in FaultSets /\ calm = FALSE
  /\ pc = [c \in Controllers |-> "idle"]
  /\ view = [c \in Controllers |-> {}]
  /\ labels = [c \in Controllers |-> NilLabels]
  /\ orphaned = [c \in Controllers |-> {}]
  /\ cache = [c \in Controllers |-> NoCache]
  /\ changes = [c \in Controllers |-> NoChanges]
  /\ stmts = [c \in Controllers |-> {}]
  /\ parts = [c \in Controllers |-> Whole]

(* readLabels: one consistent scan of the entries of this owner.           *)
ReadLabels(c) ==
  /\ pc[c] = "idle"
  /\ ~labels[c].read
  /\ ~(cache[c].filled /\ cache[c].fresh)
  /\ labels' = [labels EXCEPT ![c] = [read |-> TRUE, map |-> readLabels(OwnID(c))]]
  /\ UNCHANGED <<zone, table, src, foreign, sourceChanges, faults, calm, pc, view, orphaned, cache,
                 changes, stmts, parts>>

(* The rest of Records.  A fresh cache answers before the labels are       *)
(* looked at.                                                              *)
ListRecords(c) ==
  /\ pc[c] = "idle"
  /\ pc' = [pc EXCEPT ![c] = "plan"]
  /\ \/ /\ cache[c].filled /\ cache[c].fresh
        /\ view' = [view EXCEPT ![c] = cache[c].eps]
        /\ UNCHANGED <<orphaned, cache>>
     \/ /\ ~(cache[c].filled /\ cache[c].fresh)
        /\ labels[c].read
        /\ view' = [view EXCEPT ![c] = Records(zone, OwnID(c), labels[c].map)]
        /\ orphaned' = [orphaned EXCEPT ![c] = DOMAIN labels[c].map \ DOMAIN zone]
        /\ cache' = [cache EXCEPT ![c] =
             IF Caching THEN [filled |-> TRUE, fresh |-> TRUE, eps |-> view'[c]]
                        ELSE NoCache]
  /\ UNCHANGED <<zone, table, src, foreign, sourceChanges, faults, calm, labels, changes, stmts,
                 parts>>

-----------------------------------------------------------------------------
(* ApplyChanges, first part: statements and caches.                        *)
Insert(k, l) == [op |-> "INSERT", k |-> k, l |-> l]
Update(k, l) == [op |-> "UPDATE", k |-> k, l |-> l]
Delete(k) == [op |-> "DELETE", k |-> k, l |-> ""]

Keys(E) == {Key(e) : e \in E}

Migrating(ch) == {Key(e) : e \in {d \in ch.updateOld : Migrate \in d.ps}}

(* Claims of new records; an orphaned claim of ours is used again.  An     *)
(* UPDATE is left out if the labels stay the same.                         *)
ClaimStatements(ch, l) ==
  {Insert(Key(e), e.res) : e \in {d \in ch.create : Key(d) \notin DOMAIN l}}
  \union {Update(Key(e), e.res) :
            e \in {d \in ch.create : Key(d) \in DOMAIN l /\ l[Key(d)] # d.res}}
  \union {Insert(Key(e), e.res) : e \in {d \in ch.updateNew : Key(d) \in Migrating(ch)}}
  \union {Update(Key(e), e.res) :
            e \in {d \in ch.updateNew :
                     /\ Key(d) \notin Migrating(ch)
                     /\ \A old \in ch.updateOld : Key(old) = Key(d) => old.res # d.res}}

LabelsAfter(ch, l) ==
  LET new == ch.create \union ch.updateNew
  IN  [k \in (DOMAIN l \ Keys(ch.delete)) \union Keys(new) |->
         IF k \in Keys(new) THEN (CHOOSE e \in new : Key(e) = k).res ELSE l[k]]

(* removeFromCache compares keys and targets.                              *)
RemoveFromCache(eps, E) ==
  {e \in eps : \A d \in E : Key(d) # Key(e) \/ d.tgt # e.tgt}
CacheAfter(cch, ch) ==
  IF ~cch.filled THEN cch
  ELSE IF Migrating(ch) # {} THEN NoCache
  ELSE [cch EXCEPT !.eps =
          RemoveFromCache(@, ch.delete \union ch.updateOld)
            \union ch.create \union ch.updateNew]

(* A mutant of KeepOrphans: a claim that is used again is still removed.   *)
AllOrphans(orph, ch) == orph
KeepOrphans(orph, ch) == orph \ Keys(ch.create)

PlanChanges(c) ==
  /\ pc[c] = "plan"
  /\ view' = [view EXCEPT ![c] = {}]
  /\ \E plan \in {Calculate(Config[c], view[c], src[c])} :
     \E ch \in {[plan EXCEPT !.create = Claimed(Config[c], @)]} :
       \/ /\ ~HasChanges(plan)
          /\ pc' = [pc EXCEPT ![c] = "idle"]
          /\ UNCHANGED <<labels, orphaned, cache, changes, stmts>>
       \/ /\ HasChanges(plan)
          /\ pc' = [pc EXCEPT ![c] = "claim"]
          /\ changes' = [changes EXCEPT ![c] = ch]
          /\ stmts' = [stmts EXCEPT ![c] = ClaimStatements(ch, labels[c].map)]
          /\ labels' = [labels EXCEPT ![c].map = LabelsAfter(ch, @)]
          /\ orphaned' = [orphaned EXCEPT ![c] = KeepOrphans(@, ch)]
          /\ cache' = [cache EXCEPT ![c] = CacheAfter(@, ch)]
  /\ UNCHANGED <<zone, table, src, foreign, sourceChanges, faults, calm, parts>>

-----------------------------------------------------------------------------
(* executeStatements: chunks of at most MaxBatchSize.  The order of the    *)
(* statements is that of the plan, which follows the order of a map.       *)
Chunks(S) == {C \in SUBSET S : Cardinality(C) =
                IF Cardinality(S) > MaxBatchSize THEN MaxBatchSize ELSE Cardinality(S)}

(* What the table becomes when the statements of C are executed for owner  *)
(* o: INSERT needs a free key, DELETE the owner, UPDATE only the key.      *)
Inserted(C) == {s \in C : s.op = "INSERT" /\ s.k \notin DOMAIN table}
Updated(C) == {s \in C : s.op = "UPDATE" /\ s.k \in DOMAIN table}
Deleted(C, o) == {s \in C : s.op = "DELETE" /\ s.k \in Claims(o)}

(* A mutant of Execute: INSERT replaces what is there.                     *)
ExecuteReplacing(C, o) ==
  LET ins == {s \in C : s.op = "INSERT"}
      del == {s.k : s \in Deleted(C, o)}
  IN  table' = [k \in (DOMAIN table \union {s.k : s \in ins}) \ del |->
        IF k \in {s.k : s \in ins}
        THEN [o |-> o, l |-> (CHOOSE s \in ins : s.k = k).l] ELSE table[k]]

Execute(C, o) ==
  LET ins == {s.k : s \in Inserted(C)}
      upd == {s.k : s \in Updated(C)}
      del == {s.k : s \in Deleted(C, o)}
      new(k) == (CHOOSE s \in C : s.k = k).l
  IN  table' = [k \in (DOMAIN table \union ins) \ del |->
        IF k \in ins THEN [o |-> o, l |-> new(k)]
        ELSE IF k \in upd THEN [table[k] EXCEPT !.l = new(k)] ELSE table[k]]

(* The keys whose claim was refused because somebody has it.               *)
Refused(C) == {s.k : s \in {d \in C : d.op = "INSERT" /\ d.k \in DOMAIN table}}

(* An error of the table is not a soft error: the process ends.  Another   *)
(* one starts with nothing but the table and the zone.                     *)
Exit(c) ==
  /\ pc' = [pc EXCEPT ![c] = "idle"]
  /\ view' = [view EXCEPT ![c] = {}]
  /\ labels' = [labels EXCEPT ![c] = NilLabels]
  /\ orphaned' = [orphaned EXCEPT ![c] = {}]
  /\ cache' = [cache EXCEPT ![c] = NoCache]
  /\ changes' = [changes EXCEPT ![c] = NoChanges]
  /\ stmts' = [stmts EXCEPT ![c] = {}]
  /\ parts' = [parts EXCEPT ![c] = Whole]

(* A record whose claim was refused is not created, and forgotten.         *)
DropRefused(c, C) ==
  LET lost == {e \in changes[c].create : Key(e) \in Refused(C)}
  IN  /\ changes' = [changes EXCEPT ![c].create = @ \ lost]
      /\ labels' = [labels EXCEPT ![c].map = Without(@, Refused(C))]
      /\ cache' = [cache EXCEPT ![c].eps = RemoveFromCache(@, lost)]

(* One chunk of claims is answered without an error other than a refused   *)
(* claim of a new record.                                                  *)
ClaimChunk(c) ==
  /\ pc[c] = "claim"
  /\ stmts[c] # {}
  /\ \E C \in Chunks(stmts[c]) :
       /\ Refused(C) \subseteq Keys(changes[c].create)
       /\ Execute(C, OwnID(c))
       /\ DropRefused(c, C)
       /\ stmts' = [stmts EXCEPT ![c] = @ \ C]
  /\ UNCHANGED <<zone, src, foreign, sourceChanges, faults, calm, pc, view, orphaned, parts>>

(* Statements of a chunk fail, others are executed; or the answer is lost. *)
ClaimError(c) ==
  /\ pc[c] = "claim"
  /\ stmts[c] # {}
  /\ \E C \in Chunks(stmts[c]) : \E ok \in SUBSET C :
       /\ \/ MayFail("claim")
          \/ ok = C /\ ~(Refused(C) \subseteq Keys(changes[c].create))
       /\ Execute(ok, OwnID(c))
  /\ Exit(c)
  /\ UNCHANGED <<zone, src, foreign, sourceChanges, faults, calm>>

ClaimsDone(c) ==
  /\ pc[c] = "claim"
  /\ stmts[c] = {}
  /\ pc' = [pc EXCEPT ![c] = "apply"]
  /\ UNCHANGED <<zone, table, src, foreign, sourceChanges, faults, calm, view, labels, orphaned,
                 cache, changes, stmts, parts>>

-----------------------------------------------------------------------------
(* The provider applies the changes, as in DNSZone.                        *)
Entries(E) == {[cell |-> Key(e), val |-> [tgt |-> e.tgt, ttl |-> e.ttl,
                                          ps |-> e.ps \ {Migrate}]] : e \in E}
ProviderBatch(ch) ==
  [create |-> Entries(ch.create), updateOld |-> Entries(ch.updateOld),
   updateNew |-> Entries(ch.updateNew), delete |-> Entries(ch.delete)]

(* The records are gone or there: claims that are not needed are removed.  *)
CleanupStatements(ch, orph) == {Delete(k) : k \in Keys(ch.delete) \union orph}

Submit(b) ==
  /\ ValidBatch(zone, b)
  /\ zone' = ApplyBatch(zone, b)

(* The batch is rejected or lost, or it is applied and the answer is lost. *)
SubmitFails(b) ==
  \/ ~ValidBatch(zone, b) /\ UNCHANGED zone
  \/ MayFail("provider") /\ (UNCHANGED zone \/ Submit(b))

(* The call of the provider succeeds.                                      *)
Succeed(c) ==
  /\ pc' = [pc EXCEPT ![c] = "cleanup"]
  /\ stmts' = [stmts EXCEPT ![c] = CleanupStatements(changes[c], orphaned[c])]
  /\ labels' = [labels EXCEPT ![c].map = Without(@, orphaned[c])]
  /\ orphaned' = [orphaned EXCEPT ![c] = {}]
  /\ changes' = [changes EXCEPT ![c] = NoChanges]
  /\ parts' = [parts EXCEPT ![c] = Whole]
  /\ UNCHANGED cache

(* A mutant of Abort: the labels are kept.                                 *)
AbortLabelsKept(c) ==
  /\ pc' = [pc EXCEPT ![c] = "idle"]
  /\ cache' = [cache EXCEPT ![c] = NoCache]
  /\ changes' = [changes EXCEPT ![c] = NoChanges]
  /\ stmts' = [stmts EXCEPT ![c] = {}]
  /\ parts' = [parts EXCEPT ![c] = Whole]
  /\ UNCHANGED <<labels, orphaned>>

(* It fails with a soft error.  labels and cache, which show the plan as   *)
(* carried out, are forgotten.                                             *)
Abort(c) ==
  /\ pc' = [pc EXCEPT ![c] = "idle"]
  /\ labels' = [labels EXCEPT ![c] = NilLabels]
  /\ cache' = [cache EXCEPT ![c] = NoCache]
  /\ changes' = [changes EXCEPT ![c] = NoChanges]
  /\ stmts' = [stmts EXCEPT ![c] = {}]
  /\ parts' = [parts EXCEPT ![c] = Whole]
  /\ UNCHANGED orphaned

(* The provider goes on with what is left of the changes.                  *)
GoOn(c, p) ==
  /\ parts' = [parts EXCEPT ![c] = p]
  /\ UNCHANGED <<pc, labels, orphaned, cache, changes, stmts>>

ProviderApplies(c) ==
  /\ pc[c] = "apply" /\ parts[c].left = {}
  /\ Submit(ProviderBatch(changes[c]))
  /\ Succeed(c)
  /\ UNCHANGED <<table, src, foreign, sourceChanges, faults, calm, view>>

(* A failed batch is submitted again name by name, by the provider for     *)
(* Route 53.  The TXT records here are not known as those of a record.     *)
Part(ch, n) == [create    |-> {e \in ch.create    : e.name = n},
                updateOld |-> {e \in ch.updateOld : e.name = n},
                updateNew |-> {e \in ch.updateNew : e.name = n},
                delete    |-> {e \in ch.delete    : e.name = n}]
ChangedNames(ch) == {e.name : e \in ch.create \union ch.updateNew \union ch.delete}
Splits(ch) == Provider = "aws" /\ \E m, n \in ChangedNames(ch) : m # n

ProviderFails(c) ==
  /\ pc[c] = "apply" /\ parts[c].left = {}
  /\ SubmitFails(ProviderBatch(changes[c]))
  /\ \/ ~Splits(changes[c]) /\ Abort(c)
     \/ Splits(changes[c]) /\ GoOn(c, [left |-> ChangedNames(changes[c]), done |-> {}])
  /\ UNCHANGED <<table, src, foreign, sourceChanges, faults, calm, view>>

(* The call succeeds if all parts have been applied.                       *)
PartReturns(c, p) ==
  \/ p.left # {} /\ GoOn(c, p)
  \/ p.left = {} /\ p.done = ChangedNames(changes[c]) /\ Succeed(c)
  \/ p.left = {} /\ p.done # ChangedNames(changes[c]) /\ Abort(c)

PartApplies(c) ==
  /\ pc[c] = "apply"
  /\ \E n \in parts[c].left :
       /\ Submit(ProviderBatch(Part(changes[c], n)))
       /\ PartReturns(c, [left |-> parts[c].left \ {n}, done |-> parts[c].done \union {n}])
  /\ UNCHANGED <<table, src, foreign, sourceChanges, faults, calm, view>>

PartFails(c) ==
  /\ pc[c] = "apply"
  /\ \E n \in parts[c].left :
       /\ SubmitFails(ProviderBatch(Part(changes[c], n)))
       /\ PartReturns(c, [left |-> parts[c].left \ {n}, done |-> parts[c].done])
  /\ UNCHANGED <<table, src, foreign, sourceChanges, faults, calm, view>>

-----------------------------------------------------------------------------
CleanupChunk(c) ==
  /\ pc[c] = "cleanup"
  /\ stmts[c] # {}
  /\ \E C \in Chunks(stmts[c]) :
       /\ Execute(C, OwnID(c))
       /\ stmts' = [stmts EXCEPT ![c] = @ \ C]
  /\ UNCHANGED <<zone, src, foreign, sourceChanges, faults, calm, pc, view, labels, orphaned, cache,
                 changes, parts>>

(* Statements of a chunk fail, others are executed; or the answer is lost. *)
CleanupFails(c) ==
  /\ pc[c] = "cleanup" /\ MayFail("cleanup")
  /\ stmts[c] # {}
  /\ \E C \in Chunks(stmts[c]) : \E ok \in SUBSET C : Execute(ok, OwnID(c))
  /\ Exit(c)
  /\ UNCHANGED <<zone, src, foreign, sourceChanges, faults, calm>>

CleanupDone(c) ==
  /\ pc[c] = "cleanup"
  /\ stmts[c] = {}
  /\ pc' = [pc EXCEPT ![c] = "idle"]
  /\ UNCHANGED <<zone, table, src, foreign, sourceChanges, faults, calm, view, labels, orphaned,
                 cache, changes, stmts, parts>>

-----------------------------------------------------------------------------
CacheExpires(c) ==
  /\ cache[c].fresh
  /\ cache' = [cache EXCEPT ![c].fresh = FALSE]
  /\ UNCHANGED <<zone, table, src, foreign, sourceChanges, faults, calm, pc, view, labels, orphaned,
                 changes, stmts, parts>>

(* A process is killed at any point.                                       *)
Restart(c) ==
  /\ MayFail("crash")
  /\ Exit(c)
  /\ UNCHANGED <<zone, table, src, foreign, sourceChanges, faults, calm>>

SourceChanges(c) ==
  /\ sourceChanges < MaxSourceChanges
  /\ sourceChanges' = sourceChanges + 1
  /\ \E s \in SourceLists[c] : src' = [src EXCEPT ![c] = s]
  /\ UNCHANGED <<zone, table, foreign, faults, calm, procVars>>

(* Somebody who does not use the table creates a record.                   *)
ManualCreate ==
  /\ MayFail("manual")
  /\ sourceChanges < MaxSourceChanges
  /\ sourceChanges' = sourceChanges + 1
  /\ \E c \in Controllers : \E s \in SourceLists[c] : \E i \in DOMAIN s :
       /\ Key(s[i]) \notin DOMAIN zone
       /\ zone' = ApplyBatch(zone, [EmptyBatch EXCEPT !.create = Entries({s[i]})])
       /\ foreign' = foreign \union {Key(s[i])}
  /\ UNCHANGED <<table, src, faults, calm, procVars>>

(* Failures come to an end.                                                *)
Calm ==
  /\ ~calm
  /\ calm' = TRUE
  /\ UNCHANGED <<zone, table, src, foreign, sourceChanges, faults, procVars>>

Step(c) ==
  \/ ReadLabels(c) \/ ListRecords(c) \/ PlanChanges(c)
  \/ ClaimChunk(c) \/ ClaimError(c) \/ ClaimsDone(c)
  \/ ProviderApplies(c) \/ ProviderFails(c) \/ PartApplies(c) \/ PartFails(c)
  \/ CleanupChunk(c) \/ CleanupFails(c) \/ CleanupDone(c)

Next ==
  \/ \E c \in Controllers :
       Step(c) \/ CacheExpires(c) \/ Restart(c) \/ SourceChanges(c)
  \/ ManualCreate \/ Calm

(* The run loops go on, and caches expire.                                 *)
Spec ==
  /\ Init /\ [][Next]_vars
  /\ WF_vars(Calm)
  /\ \A c \in Controllers : WF_vars(Step(c)) /\ WF_vars(CacheExpires(c))

-----------------------------------------------------------------------------
(* "cache the dynamodb records owned by us" (registry.go:66): between the  *)
(* runs, and when a plan is made, the cached labels are the entries of     *)
(* this owner, although ApplyChanges puts them ahead of the table and some *)
(* claims are refused, fail or are never removed; and no plan is made, nor *)
(* is there a cache to make one from, while labels is nil, which           *)
(* ApplyChanges would write to.                                            *)
LabelsExact ==
  \A c \in Controllers :
    /\ pc[c] = "plan" \/ cache[c].fresh => labels[c].read
    /\ pc[c] \in {"idle", "plan"} /\ labels[c].read =>
         labels[c].map = readLabels(OwnID(c))

(* An entry of the table is changed or removed by its owner only, although *)
(* UPDATE statements name only the key (appendUpdate).                     *)
ClaimStep ==
  \A k \in DOMAIN table :
    \/ k \in DOMAIN table' /\ table'[k] = table[k]
    \/ \E c \in Controllers :
         /\ table[k].o = OwnID(c) /\ stmts'[c] # stmts[c]
         /\ k \in DOMAIN table' => table'[k].o = OwnID(c)
ClaimsKept == [][ClaimStep]_vars

(* A process changes a record of the zone only while it holds the name, by *)
(* a claim that it has made before or by a TXT record that is not migrated *)
(* yet, although the plan is older than the claims, and both are older     *)
(* than the call of the provider, which may be a long one.                 *)
Called(c) == pc[c] = "apply" /\ <<pc'[c], parts'[c]>> # <<pc[c], parts[c]>>
RecordStep ==
  \A k \in DOMAIN zone \union DOMAIN zone' : k[3] # "TXT" =>
    \/ k \in DOMAIN zone \intersect DOMAIN zone' /\ zone'[k] = zone[k]
    \/ k \in foreign'
    \/ \E c \in Controllers :
         /\ Called(c)
         /\ k \in Claims(OwnID(c)) \/ (k \in DOMAIN zone /\ Holder[k] = OwnID(c))
RecordsClaimed == [][RecordStep]_vars

(* The promise of Ownership.tla: a record is claimed before it exists and  *)
(* until it is gone, by one owner, through crashes between the phases of   *)
(* ApplyChanges, failed statements and stale caches.  Records made by      *)
(* other means meanwhile are left out: a claim may be made for them.       *)
Promised == {k \in DOMAIN zone \ foreign : k[3] # "TXT"}
Holders == [k \in Promised |-> Holder[k]]
Content == [k \in Promised |-> zone[k]]
Promise ==
  INSTANCE Ownership
    WITH Owners <- {OwnID(c) : c \in Controllers}, holder <- Holders, content <- Content
OwnershipKept == Promise!Spec

(* Every record a process wants is there and its own, unless somebody else *)
(* holds the name, and it holds no record that it does not want.           *)
Wanted(c) == {Key(src[c][i]) : i \in DOMAIN src[c]}
OwnersServed ==
  \A c \in Controllers :
    /\ \A k \in Wanted(c) :
         \/ k \in DOMAIN table /\ table[k].o # OwnID(c)
         \/ k \in DOMAIN zone /\ Holder[k] # OwnID(c)
         \/ /\ k \in DOMAIN zone \intersect Claims(OwnID(c))
            /\ \A i \in DOMAIN src[c] : Key(src[c][i]) = k => src[c][i].tgt = zone[k].tgt
    /\ Claims(OwnID(c)) \intersect DOMAIN zone \subseteq Wanted(c)

(* "the DynamoDB registry will migrate the metadata therein to the         *)
(* DynamoDB table ... it will then delete the ownership TXT records"       *)
(* (docs/registry/dynamodb.md): no TXT record of ours is left.             *)
Migrated ==
  \A t \in DOMAIN zone : t[3] = "TXT" =>
    zone[t].tgt.owner \notin {OwnID(c) : c \in Controllers}

(* When failures have come to an end every process comes to be served, and *)
(* the migration from the TXT registry is completed.                       *)
Settles == <>[](OwnersServed /\ Migrated)
=============================================================================
