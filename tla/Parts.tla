------------------------------- MODULE Parts -------------------------------
(***************************************************************************)
(* Parts of the system that have a loop of their own.  A behaviour is one  *)
(* of one part; the variables that belong to others stay 0.                *)
(*   sources      a source, and the objects and caches it works from       *)
(*   ovh          the OVH zone with its record cache                       *)
(*   webhook      a webhook provider behind the provider cache             *)
(*   nameservers  the RFC 2136 provider's choice among its servers         *)
(*   events       the emitter of Kubernetes events                         *)
(***************************************************************************)
EXTENDS SourceLoop

CONSTANTS
  Names, maxRetries,                            \* OVH and webhook
  N, Strategies,                                \* name servers
  Changes, emitEvents, Missing, maxQueuedEvents, maxRetriesPerEvent,   \* events
  MaxEdits, MaxFlips

ASSUME PartsAssumption ==
  /\ N \in Nat \ {0}
  /\ maxRetriesPerEvent \in Nat
  /\ Changes \in Seq({Changes[i] : i \in DOMAIN Changes})
  /\ \A i \in DOMAIN Changes : IsFiniteSet(Changes[i].refs)

VARIABLES
  part,
  api, cache, want, pc, known, edits,                               \* OVH and webhook
  serial, calls,                                                    \* OVH
  requests, attempts, overtaken,                                    \* webhook
  strategy, counter, lastErr, op, tries, failed, result, last, up, steady, flips,
  change, queue, waiting, current, requeues, tried, made, closing   \* events

sourceVars == <<source, at, seen, fresh>>
runVars == <<api, cache, want, pc, known, edits>>
ovhVars == <<serial, calls>>
webhookVars == <<requests, attempts, overtaken>>
serverVars == <<strategy, counter, lastErr, op, tries, failed, result, last, up, steady, flips>>
eventVars == <<change, queue, waiting, current, requeues, tried, made, closing>>
vars == <<part, published, faults, sourceVars, runVars, ovhVars, webhookVars, serverVars, eventVars>>

OVH == INSTANCE OVHZone
Webhook == INSTANCE WebhookProvider
Servers == INSTANCE RFC2136Nameservers
Emitter == INSTANCE EventQueue

-----------------------------------------------------------------------------
SourceOff == source = 0 /\ at = 0 /\ seen = 0 /\ fresh = 0
RunOff == api = 0 /\ cache = 0 /\ want = 0 /\ pc = 0 /\ known = 0 /\ edits = 0
OVHOff == serial = 0 /\ calls = 0
WebhookOff == requests = 0 /\ attempts = 0 /\ overtaken = 0
ServersOff ==
  /\ strategy = 0 /\ counter = 0 /\ lastErr = 0 /\ op = 0 /\ tries = 0 /\ failed = 0
  /\ result = 0 /\ last = 0 /\ up = 0 /\ steady = 0 /\ flips = 0
EventsOff ==
  /\ change = 0 /\ queue = 0 /\ waiting = 0 /\ current = 0 /\ requeues = 0
  /\ tried = 0 /\ made = 0 /\ closing = 0

Init ==
  \/ /\ part = "sources" /\ SourceInit
     /\ RunOff /\ OVHOff /\ WebhookOff /\ ServersOff /\ EventsOff
  \/ /\ part = "ovh" /\ OVH!Init
     /\ SourceOff /\ WebhookOff /\ ServersOff /\ EventsOff
  \/ /\ part = "webhook" /\ Webhook!Init /\ published = 0
     /\ SourceOff /\ OVHOff /\ ServersOff /\ EventsOff
  \/ /\ part = "nameservers" /\ Servers!Init /\ published = 0 /\ faults = 0
     /\ SourceOff /\ RunOff /\ OVHOff /\ WebhookOff /\ EventsOff
  \/ /\ part = "events" /\ Emitter!Init /\ published = 0 /\ faults = 0
     /\ SourceOff /\ RunOff /\ OVHOff /\ WebhookOff /\ ServersOff

InSources == part = "sources" /\ UNCHANGED <<part, runVars, ovhVars, webhookVars, serverVars, eventVars>>
InOVH == part = "ovh" /\ UNCHANGED <<part, sourceVars, webhookVars, serverVars, eventVars>>
InWebhook == part = "webhook" /\ UNCHANGED <<part, published, sourceVars, ovhVars, serverVars, eventVars>>
InServers == part = "nameservers" /\ UNCHANGED <<part, published, faults, sourceVars, runVars, ovhVars, webhookVars, eventVars>>
InEvents == part = "events" /\ UNCHANGED <<part, published, faults, sourceVars, runVars, ovhVars, webhookVars, serverVars>>

Next ==
  \/ InSources /\ SourceNext
  \/ InOVH /\ OVH!Next
  \/ InWebhook /\ Webhook!Next
  \/ InServers /\ Servers!Next
  \/ InEvents /\ Emitter!Next

(* Caches follow and expire, the run loop and the worker go on (a source   *)
(* is always run again), requests are answered or time out.                *)
Progress ==
  \/ InOVH /\ (\/ OVH!Records \/ OVH!ApplyChanges \/ OVH!Change \/ OVH!ChangeFails
               \/ OVH!Refresh \/ OVH!RefreshFails)
  \/ InWebhook /\ Webhook!Step
  \/ InEvents /\ (Emitter!Get \/ Emitter!Answer)
Expiry ==
  \/ InSources /\ CacheFollows
  \/ InWebhook /\ Webhook!CacheExpires
  \/ InEvents /\ Emitter!Due
Spec ==
  /\ Init /\ [][Next]_vars
  /\ []<>(part = "sources" => fresh) /\ WF_vars(Progress) /\ WF_vars(Expiry)
  /\ WF_vars(InWebhook /\ Webhook!RecordsHandler)

-----------------------------------------------------------------------------
(* When the cluster has come to rest a source publishes what its objects   *)
(* ask for, each for itself, however the changes and the caches were       *)
(* interleaved and however the endpoints are merged.                       *)
Settles == <>[](part = "sources" => Settled)

(* No name is withdrawn that the cluster has asked for all the time, while *)
(* caches are in different states and calls fail; sources that do so are   *)
(* listed in the README as deviations.                                     *)
NoWithdrawal == [][part = "sources" => KeepsNames]_vars

(* With all wrappers, addresses and PTR records agree, both ways, and no   *)
(* filtered address is left in either.                                     *)
ReverseAgrees ==
  LET pairs == {p \in UNION {{<<e, t>> : t \in e.tgts} : e \in published} : TRUE}
      addresses == {<<p[1].name, p[2]>> : p \in {q \in pairs : q[1].type \in {"A", "AAAA"}}}
      reverse == {<<p[2], p[1].name>> : p \in {q \in pairs : q[1].type = "PTR"}}
  IN  part = "sources" /\ source = "wrapped" =>
        /\ reverse = {<<a[1], Reverse[a[2]]>> : a \in {b \in addresses : b[1] \notin Wildcards}}
        /\ \A a \in addresses : a[2] \notin FilteredTargets

(* The OVH and the provider cache never hand out records that a change of  *)
(* their own, done, half done or failed, has made obsolete.                *)
KnownIsCurrent ==
  /\ part = "ovh" => OVH!KnownIsCurrent
  /\ part = "webhook" => Webhook!ReadIsCurrent

(* Whatever fails, is repeated or is carried out late, the wanted records  *)
(* are stored in the end.                                                  *)
Stored == <>[](part \in {"ovh", "webhook"} => api = want)

(* A DNS update is given up only if no server answered all the time: the   *)
(* retries reach every server, wherever the counter stands and whatever    *)
(* happened in earlier operations.                                         *)
SendReachesAll == [][part = "nameservers" => Servers!SendStep]_vars

(* Every event comes to an end, even if the API server never answers.      *)
EventsEnd == <>[](part = "events" => Emitter!Ended)

(* An event is given up after all its tries only.                          *)
EventsTried == part = "events" => Emitter!GivenUpInTime
=============================================================================
