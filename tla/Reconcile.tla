----------------------------- MODULE Reconcile -----------------------------
(***************************************************************************)
(* Several ExternalDNS processes reconcile one zone: RunOnce               *)
(* (controller/controller.go) over the planner, the TXT registry with its  *)
(* optional cache, and a provider.                                         *)
(*                                                                         *)
(* A run is three steps, between which the other processes, the sources    *)
(* and failures do as they please: Registry.Records; Source.Endpoints,     *)
(* Calculate and the part of Registry.ApplyChanges that prepares the batch *)
(* and changes the cache; and the batch itself.  A soft error ends the     *)
(* run, any other error ends the process, which is restarted without its   *)
(* memory.                                                                 *)
(***************************************************************************)
EXTENDS TXTRegistry

CONSTANTS
  Controllers,       \* the processes
  Config,            \* [ownerID, oldOwnerID, policy] of each
  SourceLists,       \* the lists of endpoints the source of each may return
  InitialZones,      \* the contents a zone may have at first
  Caching,           \* TRUE if cacheInterval > 0
  MaxSourceChanges   \* bound on the number of changes of the sources

(* A zone holds records and TXT records, each with the key of a record,    *)
(* and no TXT record without its record.                                   *)
IsKey(k) == k = <<k[1], k[2], k[3]>>
ZoneCells(z) == \A d \in DOMAIN z : d \in {Rec(d[2]), Txt(d[2])} /\ IsKey(d[2])
Paired(z) == TxtKeys(z) \subseteq RecKeys(z)

ASSUME ReconcileAssumption ==
  /\ Caching \in BOOLEAN
  /\ MaxSourceChanges \in Nat
  /\ \A c \in Controllers : /\ Config[c].ownerID # ""   \* registry.go:131
                             /\ Config[c].policy \in Policies
                             /\ SourceLists[c] \subseteq Seq(Endpoints)
  /\ \A z \in InitialZones : ZoneCells(z) /\ Paired(z)

VARIABLES
  zone,            \* the zone, see DNSZone
  src,             \* src[c]: what the source of c would return now
  sourceChanges,   \* how often the sources have changed
  pc,              \* pc[c]: "idle", "plan" (has read), "submit" (has
                   \* planned), "split" (submits name by name)
  view,            \* view[c]: the records Registry.Records returned
  existing,        \* existing[c]: the keys of the TXT records it saw
  batch,           \* batch[c]: the batch to submit
  cache,           \* cache[c]: recordsCache and whether it is fresh
  missed           \* missed[c]: a batch was not applied since the cache was
                   \* last filled (history variable)

procVars == <<pc, view, existing, batch, cache, missed>>
vars == <<zone, src, sourceChanges, procVars>>

NoCache == [filled |-> FALSE, fresh |-> FALSE, eps |-> {}]

Init ==
  /\ zone \in InitialZones
  /\ src \in [Controllers -> UNION {SourceLists[c] : c \in Controllers}]
  /\ \A c \in Controllers : src[c] \in SourceLists[c]
  /\ sourceChanges = 0
  /\ pc = [c \in Controllers |-> "idle"]
  /\ view = [c \in Controllers |-> {}]
  /\ existing = [c \in Controllers |-> {}]
  /\ batch = [c \in Controllers |-> EmptyBatch]
  /\ cache = [c \in Controllers |-> NoCache]
  /\ missed = [c \in Controllers |-> FALSE]

-----------------------------------------------------------------------------
(* A mutant of ReadRecords: a cache is used however old it is, and kept    *)
(* even if caching is off.                                                 *)
ReadStaleCache(c) ==
  /\ pc[c] = "idle"
  /\ pc' = [pc EXCEPT ![c] = "plan"]
  /\ cache' = [cache EXCEPT ![c] =
       IF cache[c].filled THEN @
       ELSE [filled |-> TRUE, fresh |-> TRUE, eps |-> Records(Config[c], zone)]]
  /\ view' = [view EXCEPT ![c] = cache'[c].eps]
  /\ existing' = [existing EXCEPT ![c] =
       IF cache[c].filled THEN {} ELSE TxtKeys(zone)]
  /\ UNCHANGED <<zone, src, sourceChanges, batch, missed>>

(* controller.go:76, registry.go:181.  The first case is a cache that is   *)
(* still fresh: no TXT record has been seen then.  A provider that cannot  *)
(* list its records changes nothing.                                       *)
ReadRecords(c) ==
  /\ pc[c] = "idle"
  /\ pc' = [pc EXCEPT ![c] = "plan"]
  /\ \/ /\ cache[c].filled /\ cache[c].fresh
        /\ view' = [view EXCEPT ![c] = cache[c].eps]
        /\ existing' = [existing EXCEPT ![c] = {}]
        /\ UNCHANGED <<cache, missed>>
     \/ /\ ~(cache[c].filled /\ cache[c].fresh)
        /\ view' = [view EXCEPT ![c] = Records(Config[c], zone)]
        /\ existing' = [existing EXCEPT ![c] = TxtKeys(zone)]
        /\ cache' = [cache EXCEPT ![c] =
             IF Caching THEN [filled |-> TRUE, fresh |-> TRUE, eps |-> view'[c]]
                        ELSE NoCache]
        /\ missed' = [missed EXCEPT ![c] = FALSE]
  /\ UNCHANGED <<zone, src, sourceChanges, batch>>

(* controller.go:89-121, registry.go:337-392.  The cache takes the changes *)
(* before the provider has.  What was read is not looked at again.         *)
PlanChanges(c) ==
  LET ch == Calculate(Config[c], view[c], src[c])
  IN  /\ pc[c] = "plan"
      /\ \/ /\ ~HasChanges(ch)
            /\ pc' = [pc EXCEPT ![c] = "idle"]
            /\ UNCHANGED <<batch, cache>>
         \/ /\ HasChanges(ch)
            /\ pc' = [pc EXCEPT ![c] = "submit"]
            /\ batch' = [batch EXCEPT ![c] = Batch(Config[c], existing[c], ch)]
            /\ cache' = [cache EXCEPT ![c].eps =
                 IF cache[c].filled THEN CacheAfter(Config[c], @, ch) ELSE @]
      /\ view' = [view EXCEPT ![c] = {}]
      /\ existing' = [existing EXCEPT ![c] = {}]
      /\ UNCHANGED <<zone, src, sourceChanges, missed>>

(* controller.go:89-105.  The source or AdjustEndpoints fails with a soft  *)
(* error after the records have been read.                                 *)
SourceFails(c) ==
  /\ pc[c] = "plan"
  /\ pc' = [pc EXCEPT ![c] = "idle"]
  /\ view' = [view EXCEPT ![c] = {}]
  /\ existing' = [existing EXCEPT ![c] = {}]
  /\ UNCHANGED <<zone, src, sourceChanges, batch, cache, missed>>

(* A failed batch of several names is tried again in parts by the Route 53 *)
(* provider.                                                               *)
MaySplit(b) == Provider = "aws" /\ \E m, n \in Names(b) : m # n

(* registry.go:393.  The provider applies the batch.  Whether the answer   *)
(* arrives makes no difference to what the registry remembers, but Route   *)
(* 53 is then sent the same changes once more, name by name.               *)
SubmitApplied(c) ==
  /\ pc[c] = "submit"
  /\ ValidBatch(zone, batch[c])
  /\ zone' = ApplyBatch(zone, batch[c])
  /\ \/ /\ pc' = [pc EXCEPT ![c] = "idle"]
        /\ batch' = [batch EXCEPT ![c] = EmptyBatch]
     \/ /\ MaySplit(batch[c])
        /\ pc' = [pc EXCEPT ![c] = "split"]
        /\ UNCHANGED batch
  /\ UNCHANGED <<src, sourceChanges, view, existing, cache, missed>>

(* The batch is rejected, or lost: a soft error, the zone is as before.    *)
SubmitFailed(c) ==
  /\ pc[c] = "submit"
  /\ ~MaySplit(batch[c])
  /\ pc' = [pc EXCEPT ![c] = "idle"]
  /\ batch' = [batch EXCEPT ![c] = EmptyBatch]
  /\ missed' = [missed EXCEPT ![c] = Caching]
  /\ UNCHANGED <<zone, src, sourceChanges, view, existing, cache>>

(* aws.go:775.  The batch has failed and is tried again name by name.      *)
SplitBatch(c) ==
  /\ pc[c] = "submit"
  /\ MaySplit(batch[c])
  /\ pc' = [pc EXCEPT ![c] = "split"]
  /\ UNCHANGED <<zone, src, sourceChanges, view, existing, batch, cache, missed>>

(* The batch of one name is done with.                                     *)
GroupSent(c, n) ==
  /\ pc[c] = "split"
  /\ n \in Names(batch[c])
  /\ batch' = [batch EXCEPT ![c] = Group(@, Names(@) \ {n})]
  /\ pc' = [pc EXCEPT ![c] = IF Names(batch[c]) = {n} THEN "idle" ELSE "split"]
  /\ UNCHANGED <<src, sourceChanges, view, existing, cache>>

GroupApplied(c, n) ==
  /\ GroupSent(c, n)
  /\ ValidBatch(zone, Group(batch[c], {n}))
  /\ zone' = ApplyBatch(zone, Group(batch[c], {n}))
  /\ UNCHANGED missed

GroupFailed(c, n) ==
  /\ GroupSent(c, n)
  /\ missed' = [missed EXCEPT ![c] = Caching]
  /\ UNCHANGED zone

(* cacheInterval has passed since the cache was filled.                    *)
CacheExpires(c) ==
  /\ cache[c].fresh
  /\ cache' = [cache EXCEPT ![c].fresh = FALSE]
  /\ UNCHANGED <<zone, src, sourceChanges, pc, view, existing, batch, missed>>

(* An error that is not soft, an eviction, an upgrade: at any point.       *)
Restart(c) ==
  /\ pc' = [pc EXCEPT ![c] = "idle"]
  /\ view' = [view EXCEPT ![c] = {}]
  /\ existing' = [existing EXCEPT ![c] = {}]
  /\ batch' = [batch EXCEPT ![c] = EmptyBatch]
  /\ cache' = [cache EXCEPT ![c] = NoCache]
  /\ missed' = [missed EXCEPT ![c] = FALSE]
  /\ UNCHANGED <<zone, src, sourceChanges>>

(* Someone edits the Kubernetes objects the source of c reads.             *)
SourceChanges(c) ==
  /\ sourceChanges < MaxSourceChanges
  /\ sourceChanges' = sourceChanges + 1
  /\ \E s \in SourceLists[c] : src' = [src EXCEPT ![c] = s]
  /\ UNCHANGED <<zone, procVars>>

Next ==
  \E c \in Controllers :
    \/ ReadRecords(c) \/ PlanChanges(c) \/ SubmitApplied(c) \/ SubmitFailed(c)
    \/ SourceFails(c) \/ SplitBatch(c)
    \/ \E n \in FilteredNames : GroupApplied(c, n) \/ GroupFailed(c, n)
    \/ CacheExpires(c) \/ Restart(c) \/ SourceChanges(c)

Spec == Init /\ [][Next]_vars

(* The loop of Controller.Run keeps starting runs; neither restarts nor    *)
(* failing providers go on forever at the same place, so that a step that  *)
(* is possible again and again happens again and again.                    *)
Fairness ==
  \A c \in Controllers :
    /\ SF_vars(ReadRecords(c)) /\ SF_vars(PlanChanges(c))
    /\ SF_vars(SubmitApplied(c)) /\ WF_vars(SubmitFailed(c))
    /\ WF_vars(SplitBatch(c)) /\ WF_vars(CacheExpires(c))
    /\ \A n \in FilteredNames : /\ SF_vars(GroupApplied(c, n))
                               /\ WF_vars(GroupFailed(c, n))

FairSpec == Spec /\ Fairness

-----------------------------------------------------------------------------
(* The zone's cells are records and their TXT records, and the processes   *)
(* remember between two steps only what the code keeps.                    *)
TypeOK ==
  /\ ZoneCells(zone)
  /\ sourceChanges \in 0..MaxSourceChanges
  /\ pc \in [Controllers -> {"idle", "plan", "submit", "split"}]
  /\ missed \in [Controllers -> BOOLEAN]
  /\ DOMAIN src = Controllers /\ DOMAIN view = Controllers
  /\ DOMAIN existing = Controllers /\ DOMAIN batch = Controllers
  /\ DOMAIN cache = Controllers
  /\ \A c \in Controllers :
       /\ src[c] \in SourceLists[c]
       /\ pc[c] # "plan" => view[c] = {} /\ existing[c] = {}
       /\ pc[c] \notin {"submit", "split"} => batch[c] = EmptyBatch
       /\ pc[c] = "split" => Provider = "aws"
       /\ ~Caching => cache[c] = NoCache

(* The owner of a record, as any reader of the zone sees it.               *)
Holder == [k \in RecKeys(zone) |-> LabelsOf(zone, k).owner]
Content == [k \in RecKeys(zone) |-> zone[Rec(k)]]

(* The processes implement the promise of Ownership.tla: whatever is stale *)
(* in a process's view, cache or plan when its batch arrives, it claims    *)
(* only free records and changes only its own.                             *)
Promise == INSTANCE Ownership
             WITH Owners  <- {Config[c].ownerID : c \in Controllers},
                  holder  <- Holder,
                  content <- Content
OwnershipKept == Promise!Spec

(* "... will never modify any records over which it doesn't have control"  *)
(* (docs/faq.md:99): a record that changes or disappears was held by the   *)
(* process whose batch is applied.                                         *)
KeepsForeign ==
  \A k \in RecKeys(zone) :
    \/ k \in RecKeys(zone') /\ zone'[Rec(k)] = zone[Rec(k)]
    \/ \E c \in Controllers :
         /\ SubmitApplied(c) \/ GroupApplied(c, k[1])
         /\ LabelsOf(zone, k).owner = Config[c].ownerID
ForeignRecordsKept == [][KeepsForeign]_vars

(* Ownership marks and records come and go together: a TXT record is never *)
(* left behind for a record that is gone, whichever batches failed or      *)
(* crossed.                                                                *)
NoOrphanTXT == Paired(zone)

(* What the planner relies on: what Registry.Records returns, from the     *)
(* zone or from the cache, has no two endpoints with the same key, even    *)
(* after addToCache calls for batches that were never applied.             *)
ViewUnique ==
  \A c \in Controllers :
    \A E \in {view[c], cache[c].eps} : \A d, e \in E : Key(d) = Key(e) => d = e

(* The write-through cache: as long as every batch has been applied, the   *)
(* cached endpoints a process owns are exactly those in the zone, whatever *)
(* the other processes have done meanwhile.                                *)
Owned(c, E) == FilterByOwner(Config[c].ownerID, E)
CacheExact ==
  \A c \in Controllers :
    cache[c].filled /\ ~missed[c] /\ pc[c] \notin {"submit", "split"} =>
      Owned(c, cache[c].eps) = Owned(c, Records(Config[c], zone))

(* Nothing is left to do for any process.                                  *)
InSync ==
  \A c \in Controllers :
    ~HasChanges(Calculate(Config[c], Records(Config[c], zone), src[c]))

(* When the sources stop changing, the zone becomes and stays what they    *)
(* want, as far as the owners of the names allow it, in spite of stale     *)
(* caches, failed batches, restarts and lost races for a name.             *)
Converges == <>[]InSync

(* "SyncPolicy allows for full synchronization" (plan/policy.go:31), and   *)
(* "when we delete TXT records for which value has changed (due to new     *)
(* label) this would still work" (registry/txt/registry.go:359): in the    *)
(* end a process holds no record its source does not want.                 *)
UnwantedDeleted ==
  <>[](\A c \in Controllers : \A k \in RecKeys(zone) :
         Config[c].policy = "sync" /\ LabelsOf(zone, k).owner = Config[c].ownerID
           => \E i \in DOMAIN src[c] : Key(src[c][i]) = k)

(* TXT records in the old format are replaced (registry.go:270): in the    *)
(* end every record that a process wants and holds has a TXT record of its *)
(* own.                                                                    *)
LegacyReplaced ==
  <>[](\A c \in Controllers : \A i \in DOMAIN src[c] :
         LET k == Key(src[c][i])
         IN  k \in RecKeys(zone) /\ LabelsOf(zone, k).owner = Config[c].ownerID
               => k \in TxtKeys(zone))
=============================================================================
