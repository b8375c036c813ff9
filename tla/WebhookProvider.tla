-------------------------- MODULE WebhookProvider --------------------------
(***************************************************************************)
(* A webhook provider behind the provider cache (provider/webhook,         *)
(* provider/webhook/api, provider/cached_provider.go).  The server works   *)
(* with a context of its own: a request whose caller has given up is still *)
(* carried out, after the next run has read the records or even after its  *)
(* changes.  An answer between 500 and 510 is a soft error, and the next   *)
(* run tries again; any other failure ends the process, which is started   *)
(* anew and negotiates with the server before its first run.               *)
(***************************************************************************)
EXTENDS Integers, FiniteSets

CONSTANTS
  Names,       \* the records, each wanted or not
  maxRetries,  \* of the negotiation
  MaxFaults,   \* bound on failed requests
  MaxEdits     \* bound on the changes of what is wanted

VARIABLES
  api,        \* the records the server's provider has
  cache,      \* [valid, records], the cache of CachedProvider
  want, pc,
  known,      \* the records of this run
  requests,   \* the POST requests at the server: [create, delete, waiting]
  attempts,   \* of the negotiation
  overtaken,  \* a request without caller was carried out since the records were read
  faults, edits

vars == <<api, cache, want, pc, known, requests, attempts, overtaken, faults, edits>>
Empty == [valid |-> FALSE, records |-> {}]

Init ==
  /\ api = {} /\ cache = Empty /\ want \in SUBSET Names
  /\ pc = "negotiate" /\ known = {} /\ requests = {} /\ attempts = 0 /\ overtaken = FALSE
  /\ faults = 0 /\ edits = 0

Fault == faults < MaxFaults /\ faults' = faults + 1

(* The process ends and is started again.                                  *)
Restart ==
  /\ pc' = "negotiate" /\ known' = {} /\ cache' = Empty /\ attempts' = 0

(* newProvider: the first request, tried maxRetries times unless its       *)
(* answer is permanent.                                                    *)
Negotiate ==
  /\ pc = "negotiate" /\ pc' = "idle" /\ attempts' = 0
  /\ UNCHANGED <<api, cache, want, known, requests, overtaken, faults, edits>>
NegotiationFails ==
  /\ pc = "negotiate" /\ Fault
  /\ attempts' \in {0} \union IF attempts + 1 < maxRetries THEN {attempts + 1} ELSE {}
  /\ UNCHANGED <<api, cache, want, pc, known, requests, overtaken, edits>>

(* Records of the cache and, if it has expired, of the webhook             *)
Records ==
  /\ pc = "idle" /\ pc' = "adjust"
  /\ IF cache.valid
     THEN known' = cache.records /\ UNCHANGED <<cache, overtaken>>
     ELSE known' = api /\ cache' = [valid |-> TRUE, records |-> api] /\ overtaken' = FALSE
  /\ UNCHANGED <<api, want, requests, attempts, faults, edits>>
RecordsFail ==
  /\ pc = "idle" /\ ~cache.valid /\ Fault
  /\ \/ UNCHANGED <<pc, known, cache, attempts>>
     \/ Restart
  /\ UNCHANGED <<api, want, requests, overtaken, edits>>

(* AdjustEndpoints, which the server leaves as they are                    *)
AdjustEndpoints ==
  /\ pc = "adjust" /\ pc' = "apply"
  /\ UNCHANGED <<api, cache, want, known, requests, attempts, overtaken, faults, edits>>
AdjustFails ==
  /\ pc = "adjust" /\ Fault
  /\ \/ pc' = "idle" /\ known' = {} /\ UNCHANGED <<cache, attempts>>
     \/ Restart
  /\ UNCHANGED <<api, want, requests, overtaken, edits>>

(* A mutant of ApplyChanges: the cache is dropped by the answer only.      *)
ApplyKeepsCache ==
  /\ pc = "apply" /\ known' = {}
  /\ LET post == [create |-> want \ known, delete |-> known \ want, waiting |-> TRUE]
     IN  IF want = known THEN pc' = "idle" /\ UNCHANGED <<requests, cache>>
         ELSE pc' = "post" /\ requests' = requests \union {post} /\ UNCHANGED cache
  /\ UNCHANGED <<api, want, attempts, overtaken, faults, edits>>

(* ApplyChanges of the cache, which is dropped first, and of the webhook   *)
ApplyChanges ==
  /\ pc = "apply" /\ known' = {}
  /\ LET post == [create |-> want \ known, delete |-> known \ want, waiting |-> TRUE]
     IN  IF want = known THEN pc' = "idle" /\ UNCHANGED <<requests, cache>>
         ELSE pc' = "post" /\ requests' = requests \union {post} /\ cache' = Empty
  /\ UNCHANGED <<api, want, attempts, overtaken, faults, edits>>

(* RecordsHandler: the request is carried out and answered with 204, or    *)
(* some of its changes are made and the answer is 500.                     *)
Carried(r, done) == (api \ (r.delete \intersect done)) \union (r.create \intersect done)
Handled(r) ==
  /\ requests' = requests \ {r}
  /\ pc' = IF r.waiting THEN "idle" ELSE pc
  /\ overtaken' = (overtaken \/ (~r.waiting /\ api' # api))
RecordsHandler ==
  /\ \E r \in requests : api' = Carried(r, Names) /\ Handled(r)
  /\ UNCHANGED <<cache, want, known, attempts, faults, edits>>
HandlerFails ==
  /\ \E r \in requests : \E done \in SUBSET Names : api' = Carried(r, done) /\ Handled(r)
  /\ Fault
  /\ UNCHANGED <<cache, want, known, attempts, edits>>

(* The client's timeout, or a lost connection; the request may have been   *)
(* lost too.                                                               *)
TimesOut ==
  /\ pc = "post" /\ Fault /\ Restart
  /\ \E r \in {x \in requests : x.waiting} :
       requests' \in {requests \ {r}, (requests \ {r}) \union {[r EXCEPT !.waiting = FALSE]}}
  /\ UNCHANGED <<api, want, overtaken, edits>>

(* needRefresh, when the delay is over                                     *)
CacheExpires ==
  /\ cache.valid /\ cache' = Empty
  /\ UNCHANGED <<api, want, pc, known, requests, attempts, overtaken, faults, edits>>

SourceChanges ==
  /\ edits < MaxEdits /\ edits' = edits + 1
  /\ want' \in SUBSET Names
  /\ UNCHANGED <<api, cache, pc, known, requests, attempts, overtaken, faults>>

Step == Negotiate \/ Records \/ AdjustEndpoints \/ ApplyChanges
Next ==
  \/ Step \/ NegotiationFails \/ RecordsFail \/ AdjustFails \/ RecordsHandler \/ HandlerFails
  \/ TimesOut \/ CacheExpires \/ SourceChanges

-----------------------------------------------------------------------------
(* What a run reads, from the cache or not, is what the server has, unless *)
(* a request whose caller had given up was carried out since: no failed or *)
(* half done request leaves a cache behind that is out of date.            *)
ReadIsCurrent == pc = "adjust" /\ ~overtaken => known = api
=============================================================================
