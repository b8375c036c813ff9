---------------------------- MODULE PartsProofs ----------------------------
(***************************************************************************)
(* Safety of the parts with a loop of their own, for any names, any number *)
(* of name servers, any sequence of changes and any limits:                *)
(*  - neither the OVH nor the provider cache hands out records that a      *)
(*    change of their own has made obsolete;                               *)
(*  - a DNS update is given up only if no server answered all the time;    *)
(*  - a Kubernetes event is given up after all its tries only.             *)
(***************************************************************************)
EXTENDS Parts, FiniteSetTheorems, SequenceTheorems, TLAPS

(* A behaviour is one of one part.                                         *)
LEMMA PartStays ==
  ASSUME [Next]_vars
  PROVE  /\ part' = part
         /\ part = "ovh" => OVH!Next \/ UNCHANGED OVH!vars
         /\ part = "webhook" => Webhook!Next \/ UNCHANGED Webhook!vars
         /\ part = "nameservers" => Servers!Next \/ UNCHANGED Servers!vars
         /\ part = "events" => Emitter!Next \/ UNCHANGED Emitter!vars
  <1>1. CASE UNCHANGED vars
    BY <1>1 DEF vars, runVars, ovhVars, webhookVars, serverVars, eventVars,
                OVH!vars, Webhook!vars, Servers!vars, Emitter!vars
  <1>2. CASE Next
    BY <1>2 DEF Next, InSources, InOVH, InWebhook, InServers, InEvents
  <1> QED
    BY <1>1, <1>2

LEMMA PartInit ==
  ASSUME Init
  PROVE  /\ part = "ovh" => OVH!Init
         /\ part = "webhook" => Webhook!Init
         /\ part = "nameservers" => Servers!Init
         /\ part = "events" => Emitter!Init
  BY DEF Init

-----------------------------------------------------------------------------
(* OVH.  A cache has the records of the API between two runs, whatever the *)
(* name servers answer; while changes are being made it may not, and is    *)
(* dropped at the end, however that comes about.                           *)
OVHInv ==
  /\ serial \in Nat /\ published \in Nat
  /\ cache = OVH!NoCache \/ cache.serial \in Nat
  /\ pc \in {"idle", "apply"} /\ cache # OVH!NoCache => cache.records = api
  /\ OVH!KnownIsCurrent

LEMMA OVHInit == OVH!Init => OVHInv
  BY DEF OVH!Init, OVHInv, OVH!NoCache, OVH!KnownIsCurrent

LEMMA OVHStep ==
  ASSUME OVHInv, OVH!Next \/ UNCHANGED OVH!vars
  PROVE  OVHInv'
  <1> USE DEF OVHInv, OVH!NoCache, OVH!KnownIsCurrent
  <1>1. CASE UNCHANGED OVH!vars
    BY <1>1 DEF OVH!vars
  <1>2. CASE OVH!Records
    BY <1>2 DEF OVH!Records
  <1>3. CASE OVH!ApplyChanges
    BY <1>3 DEF OVH!ApplyChanges
  <1>4. CASE OVH!Change
    BY <1>4 DEF OVH!Change
  <1>5. CASE OVH!ChangeFails
    BY <1>5 DEF OVH!ChangeFails
  <1>6. CASE OVH!Refresh
    BY <1>6 DEF OVH!Refresh
  <1>7. CASE OVH!RefreshFails
    BY <1>7 DEF OVH!RefreshFails
  <1>8. CASE OVH!Crash
    BY <1>8 DEF OVH!Crash
  <1>9. CASE OVH!SourceChanges
    BY <1>9 DEF OVH!SourceChanges
  <1>10. CASE OVH!Publish
    BY <1>10 DEF OVH!Publish
  <1> QED
    BY <1>1, <1>2, <1>3, <1>4, <1>5, <1>6, <1>7, <1>8, <1>9, <1>10 DEF OVH!Next

-----------------------------------------------------------------------------
(* The webhook.  At most one request has a caller that waits for it, who   *)
(* has dropped its cache before; so a cache is out of date only if another *)
(* request was carried out since it was filled.                            *)
IsPost(r) == "waiting" \in DOMAIN r
WebhookInv ==
  /\ \A r \in requests : IsPost(r)
  /\ \A r \in requests : r.waiting => pc = "post" /\ ~cache.valid
  /\ \A q, r \in requests : q.waiting /\ r.waiting => q = r
  /\ cache.valid /\ ~overtaken => cache.records = api
  /\ pc = "post" => ~cache.valid
  /\ Webhook!ReadIsCurrent

LEMMA WebhookInit == Webhook!Init => WebhookInv
  BY DEF Webhook!Init, WebhookInv, Webhook!Empty, Webhook!ReadIsCurrent

LEMMA WebhookStep ==
  ASSUME WebhookInv, Webhook!Next \/ UNCHANGED Webhook!vars
  PROVE  WebhookInv'
  <1> USE DEF WebhookInv, Webhook!Empty, Webhook!ReadIsCurrent
  <1>1. CASE UNCHANGED Webhook!vars
    BY <1>1 DEF Webhook!vars
  <1>2. CASE Webhook!Negotiate \/ Webhook!NegotiationFails
    BY <1>2 DEF Webhook!Negotiate, Webhook!NegotiationFails
  <1>3. CASE Webhook!Records
    BY <1>3 DEF Webhook!Records
  <1>4. CASE Webhook!RecordsFail
    BY <1>4 DEF Webhook!RecordsFail, Webhook!Restart
  <1>5. CASE Webhook!AdjustEndpoints
    BY <1>5 DEF Webhook!AdjustEndpoints
  <1>6. CASE Webhook!AdjustFails
    BY <1>6 DEF Webhook!AdjustFails, Webhook!Restart
  <1>7. CASE Webhook!ApplyChanges
    <2> DEFINE post == [create |-> want \ known, delete |-> known \ want, waiting |-> TRUE]
    <2>1. /\ pc = "apply" /\ api' = api /\ overtaken' = overtaken
          /\ \/ pc' = "idle" /\ requests' = requests /\ cache' = cache
             \/ /\ pc' = "post" /\ requests' = requests \union {post}
                /\ cache' = Webhook!Empty
      BY <1>7 DEF Webhook!ApplyChanges
    <2>2. IsPost(post) /\ \A r \in requests : ~r.waiting
      BY <2>1 DEF IsPost
    <2> HIDE DEF post
    <2>3. \A r \in requests' : IsPost(r)
      BY <2>1, <2>2
    <2>4. CASE requests' = requests
      BY <2>1, <2>2, <2>4
    <2>5. CASE requests' = requests \union {post} /\ pc' = "post" /\ cache' = Webhook!Empty
      BY <2>1, <2>2, <2>3, <2>5
    <2> QED
      BY <2>1, <2>4, <2>5
  <1>8. CASE Webhook!RecordsHandler \/ Webhook!HandlerFails
    <2>1. PICK r \in requests : Webhook!Handled(r)
      BY <1>8 DEF Webhook!RecordsHandler, Webhook!HandlerFails
    <2>2. cache' = cache /\ known' = known
      BY <1>8 DEF Webhook!RecordsHandler, Webhook!HandlerFails
    <2> QED
      BY <2>1, <2>2 DEF Webhook!Handled
  <1>9. CASE Webhook!TimesOut
    <2>1. PICK r \in requests :
            /\ r.waiting
            /\ requests' \in {requests \ {r},
                              (requests \ {r}) \union {[r EXCEPT !.waiting = FALSE]}}
      BY <1>9 DEF Webhook!TimesOut
    <2>2. \A q \in requests' : ~q.waiting /\ IsPost(q)
      <3> DEFINE s == [r EXCEPT !.waiting = FALSE]
      <3>1. ~s.waiting
        BY DEF IsPost
      <3>2. IsPost(s)
        BY DEF IsPost
      <3> HIDE DEF s
      <3>3. \A q \in requests \ {r} : ~q.waiting /\ IsPost(q)
        BY <2>1 DEF IsPost
      <3> QED
        BY <2>1, <3>1, <3>2, <3>3 DEF s
    <2> QED
      BY <1>9, <2>2 DEF Webhook!TimesOut, Webhook!Restart
  <1>10. CASE Webhook!CacheExpires
    BY <1>10 DEF Webhook!CacheExpires
  <1>11. CASE Webhook!SourceChanges
    BY <1>11 DEF Webhook!SourceChanges
  <1> QED
    BY <1>1, <1>2, <1>3, <1>4, <1>5, <1>6, <1>7, <1>8, <1>9, <1>10, <1>11
       DEF Webhook!Next, Webhook!Step

(* The OVH and the provider cache never hand out records that a change of  *)
(* their own, done, half done or failed, has made obsolete (ovh.go:        *)
(* records, refresh; cached_provider.go: ApplyChanges), for any names.     *)
THEOREM PartsKnownIsCurrent == Spec => []KnownIsCurrent
  <1> DEFINE Inv == (part = "ovh" => OVHInv) /\ (part = "webhook" => WebhookInv)
  <1>1. Init => Inv
    BY PartInit, OVHInit, WebhookInit
  <1>2. Inv /\ [Next]_vars => Inv'
    BY PartStays, OVHStep, WebhookStep
  <1>3. Inv => KnownIsCurrent
    BY DEF KnownIsCurrent, OVHInv, WebhookInv
  <1> HIDE DEF Inv
  <1> QED
    BY <1>1, <1>2, <1>3, PTL DEF Spec

-----------------------------------------------------------------------------
(* The name servers.  Of the servers that have answered all through an     *)
(* operation none has been tried; they are among the N - tries servers     *)
(* that come next.                                                         *)
LEMMA AdvanceIs ==
  ASSUME NEW c \in Servers!Servers
  PROVE  Servers!Advance(c) = IF c + 1 = N THEN 0 ELSE c + 1
  <1>1. N \in Nat /\ N > 0 /\ c \in Nat /\ c < N
    BY PartsAssumption DEF Servers!Servers
  <1>2. CASE c + 1 = N
    BY <1>1, <1>2 DEF Servers!Advance
  <1>3. CASE c + 1 < N
    BY <1>1, <1>3 DEF Servers!Advance
  <1> QED
    BY <1>1, <1>2, <1>3

(* How many servers come before s, from n on.                              *)
Distance(n, s) == IF s >= n THEN s - n ELSE s - n + N
NextToTry == IF strategy = "round-robin" THEN counter ELSE Servers!Advance(counter)

ServersInv ==
  /\ strategy \in Strategies
  /\ counter \in Servers!Servers
  /\ tries \in Nat
  /\ up \subseteq Servers!Servers
  /\ op # "none" =>
       /\ tries < N
       /\ steady \subseteq up
       /\ tries > 0 => /\ lastErr
                       /\ \A s \in steady : Distance(NextToTry, s) < N - tries

LEMMA ServersInit == Servers!Init => ServersInv
  BY PartsAssumption DEF Servers!Init, ServersInv, Servers!Servers

(* A try goes to the next server, or, if it is the first, to any.          *)
LEMMA TryNext ==
  ASSUME "random" \notin Strategies, ServersInv, op # "none", NEW n \in Servers!NextServers,
         counter' = n[2], strategy' = strategy
  PROVE  /\ n[1] \in Servers!Servers /\ n[2] \in Servers!Servers
         /\ NextToTry' = Servers!Advance(n[1])
         /\ tries > 0 => n[1] = NextToTry
  <1> USE DEF ServersInv
  <1>1. Servers!Advance(counter) \in Servers!Servers
    BY AdvanceIs, PartsAssumption DEF Servers!Servers
  <1>2. CASE strategy = "round-robin"
    <2>1. n = <<counter, Servers!Advance(counter)>>
      BY <1>2 DEF Servers!NextServers
    <2> QED
      BY <1>1, <1>2, <2>1 DEF NextToTry
  <1>3. CASE strategy # "round-robin"
    <2>1. n = IF lastErr THEN <<Servers!Advance(counter), Servers!Advance(counter)>>
                         ELSE <<counter, counter>>
      BY <1>3 DEF Servers!NextServers
    <2>2. n[1] = n[2] /\ n[1] \in Servers!Servers
      BY <1>1, <2>1
    <2>3. NextToTry' = Servers!Advance(n[2])
      BY <1>3 DEF NextToTry, Servers!Advance
    <2> QED
      BY <1>3, <2>1, <2>2, <2>3 DEF NextToTry
  <1> QED
    BY <1>2, <1>3

(* A server that is tried and does not answer is no more among them.       *)
LEMMA TryInVain ==
  ASSUME "random" \notin Strategies, ServersInv, op # "none", NEW n \in Servers!NextServers,
         counter' = n[2], strategy' = strategy, n[1] \notin up
  PROVE  \A s \in steady : /\ Distance(NextToTry', s) \in Nat
                           /\ Distance(NextToTry', s) < N - (tries + 1)
  <1> USE DEF ServersInv
  <1>1. /\ n[1] \in Servers!Servers
        /\ NextToTry' = Servers!Advance(n[1])
        /\ tries > 0 => n[1] = NextToTry
    BY TryNext
  <1> SUFFICES ASSUME NEW s \in steady
               PROVE  /\ Distance(NextToTry', s) \in Nat
                      /\ Distance(NextToTry', s) < N - (tries + 1)
    OBVIOUS
  <1>2. s \in Servers!Servers /\ s # n[1]
    OBVIOUS
  <1>3. Distance(n[1], s) < N - tries
    BY <1>1, <1>2, PartsAssumption DEF Distance, Servers!Servers
  <1>4. NextToTry' = IF n[1] + 1 = N THEN 0 ELSE n[1] + 1
    BY <1>1, AdvanceIs
  <1>5. /\ n[1] \in Int /\ n[1] >= 0 /\ n[1] < N /\ s \in Int /\ s >= 0 /\ s < N /\ s # n[1]
        /\ N \in Nat /\ tries \in Nat
    BY <1>1, <1>2, PartsAssumption DEF Servers!Servers
  <1>6. Distance(NextToTry', s) = Distance(n[1], s) - 1 /\ Distance(n[1], s) \in Nat \ {0}
    <2>1. CASE n[1] + 1 = N
      BY <1>4, <1>5, <2>1 DEF Distance
    <2>2. CASE n[1] + 1 # N
      <3>1. NextToTry' = n[1] + 1
        BY <1>4, <2>2
      <3>2. CASE s > n[1]
        BY <1>5, <3>1, <3>2 DEF Distance
      <3>3. CASE s < n[1]
        BY <1>5, <3>1, <3>3 DEF Distance
      <3> QED
        BY <1>5, <3>2, <3>3
    <2> QED
      BY <2>1, <2>2
  <1> QED
    BY <1>3, <1>5, <1>6

LEMMA ServersStep ==
  ASSUME "random" \notin Strategies, ServersInv, Servers!Next \/ UNCHANGED Servers!vars
  PROVE  ServersInv' /\ Servers!SendStep
  <1> USE DEF ServersInv, Servers!SendStep, Servers!GivenUp
  <1>1. CASE UNCHANGED Servers!vars
    BY <1>1 DEF Servers!vars, NextToTry
  <1>2. CASE Servers!Start
    BY <1>2, PartsAssumption DEF Servers!Start
  <1>3. CASE Servers!Answered
    <2>1. PICK n \in Servers!NextServers : counter' = n[2]
      BY <1>3 DEF Servers!Answered
    <2>2. n[2] \in Servers!Servers
      BY <1>3, <2>1, TryNext DEF Servers!Answered
    <2> QED
      BY <1>3, <2>1, <2>2 DEF Servers!Answered
  <1>4. CASE Servers!Unanswered
    <2>1. PICK n \in Servers!NextServers : counter' = n[2] /\ n[1] \notin up
      BY <1>4 DEF Servers!Unanswered
    <2>2. op # "none" /\ strategy' = strategy
      BY <1>4 DEF Servers!Unanswered
    <2>3. n[2] \in Servers!Servers /\ NextToTry' = Servers!Advance(n[1]) /\ n[1] \in Servers!Servers
      BY <2>1, <2>2, TryNext
    <2>4. \A s \in steady : /\ Distance(NextToTry', s) \in Nat
                            /\ Distance(NextToTry', s) < N - (tries + 1)
      BY <2>1, <2>2, TryInVain
    <2>5. tries + 1 = N => steady = {}
      BY <2>4, PartsAssumption
    <2>6. Servers!SendStep
      BY <1>4, <2>5 DEF Servers!Unanswered
    <2>7. ServersInv'
      BY <1>4, <2>1, <2>3, <2>4, PartsAssumption DEF Servers!Unanswered
    <2> QED
      BY <2>6, <2>7
  <1>5. CASE Servers!Flip
    BY <1>5 DEF Servers!Flip, NextToTry
  <1> QED
    BY <1>1, <1>2, <1>3, <1>4, <1>5 DEF Servers!Next

(* A DNS update is given up only if no server answered all the time        *)
(* (rfc2136.go: getNextNameserver, SendMessage), for any number of servers *)
(* and however they come and go.  The random strategy never tries the      *)
(* server the counter stands at and may repeat others, so it is left out.  *)
THEOREM PartsSendReachesAll ==
  ASSUME "random" \notin Strategies
  PROVE  Spec => SendReachesAll
  <1> DEFINE Inv == part = "nameservers" => ServersInv
  <1>1. Init => Inv
    BY PartInit, ServersInit
  <1>2. Inv /\ [Next]_vars => Inv' /\ (part = "nameservers" => Servers!SendStep)
    BY PartStays, ServersStep
  <1> HIDE DEF Inv
  <1> QED
    BY <1>1, <1>2, PTL DEF Spec, SendReachesAll

-----------------------------------------------------------------------------
(* The events.  No event is in the queue twice, or in two places.          *)
Elements(q) == {q[i] : i \in DOMAIN q}
Distinct(q) == \A i, j \in DOMAIN q : q[i] = q[j] => i = j

LEMMA ElementsConcat ==
  ASSUME NEW S, NEW p \in Seq(S), NEW q \in Seq(S), Distinct(p), Distinct(q),
         Elements(p) \intersect Elements(q) = {}
  PROVE  /\ p \o q \in Seq(S) /\ Distinct(p \o q)
         /\ Elements(p \o q) = Elements(p) \union Elements(q)
  <1>1. /\ p \o q \in Seq(S)
        /\ Len(p \o q) = Len(p) + Len(q)
        /\ DOMAIN (p \o q) = 1..Len(p) + Len(q)
        /\ \A i \in 1..Len(p) + Len(q) :
             (p \o q)[i] = IF i <= Len(p) THEN p[i] ELSE q[i - Len(p)]
    BY ConcatProperties, LenProperties
  <1>2. /\ Len(p) \in Nat /\ DOMAIN p = 1..Len(p)
        /\ Len(q) \in Nat /\ DOMAIN q = 1..Len(q)
    BY LenProperties
  <1> DEFINE pq == p \o q
  <1> HIDE DEF pq
  <1>3. \A i \in DOMAIN pq : \/ i \in DOMAIN p /\ pq[i] = p[i]
                             \/ i - Len(p) \in DOMAIN q /\ pq[i] = q[i - Len(p)]
    BY <1>1, <1>2 DEF pq
  <1>4. /\ \A i \in DOMAIN p : i \in DOMAIN pq /\ pq[i] = p[i]
        /\ \A i \in DOMAIN q : i + Len(p) \in DOMAIN pq /\ pq[i + Len(p)] = q[i]
    BY <1>1, <1>2 DEF pq
  <1>5. Elements(pq) = Elements(p) \union Elements(q)
    <2>1. Elements(pq) \subseteq Elements(p) \union Elements(q)
      BY <1>3 DEF Elements
    <2>2. Elements(p) \union Elements(q) \subseteq Elements(pq)
      BY <1>4 DEF Elements
    <2> QED
      BY <2>1, <2>2
  <1>6. Distinct(pq)
    <2> SUFFICES ASSUME NEW i \in DOMAIN pq, NEW j \in DOMAIN pq, pq[i] = pq[j]
                 PROVE  i = j
      BY DEF Distinct
    <2>1. CASE i \in DOMAIN p /\ pq[i] = p[i] /\ j \in DOMAIN p /\ pq[j] = p[j]
      BY <2>1 DEF Distinct
    <2>2. CASE /\ i - Len(p) \in DOMAIN q /\ pq[i] = q[i - Len(p)]
               /\ j - Len(p) \in DOMAIN q /\ pq[j] = q[j - Len(p)]
      <3>1. i - Len(p) = j - Len(p)
        BY <2>2 DEF Distinct
      <3>2. i \in Int /\ j \in Int
        BY <1>1, <1>2 DEF pq
      <3> QED
        BY <1>2, <3>1, <3>2
    <2> QED
      BY <1>3, <2>1, <2>2 DEF Elements
  <1> QED
    BY <1>1, <1>5, <1>6 DEF pq

LEMMA ElementsAppend ==
  ASSUME NEW S, NEW p \in Seq(S), NEW e \in S, Distinct(p), e \notin Elements(p)
  PROVE  /\ Append(p, e) \in Seq(S) /\ Distinct(Append(p, e))
         /\ Elements(Append(p, e)) = Elements(p) \union {e}
  <1>1. /\ <<e>> \in Seq(S) /\ DOMAIN <<e>> = {1} /\ <<e>>[1] = e
        /\ Append(p, e) = p \o <<e>>
    BY AppendIsConcat
  <1>2. Distinct(<<e>>) /\ Elements(<<e>>) = {e}
    BY <1>1 DEF Distinct, Elements
  <1>3. Elements(p) \intersect Elements(<<e>>) = {}
    BY <1>2
  <1> DEFINE q == <<e>>
  <1> HIDE DEF q
  <1>4. q \in Seq(S) /\ Distinct(q) /\ Elements(p) \intersect Elements(q) = {}
    BY <1>1, <1>2, <1>3 DEF q
  <1>5. /\ p \o q \in Seq(S) /\ Distinct(p \o q)
        /\ Elements(p \o q) = Elements(p) \union Elements(q)
    BY <1>4, ElementsConcat
  <1> QED
    BY <1>1, <1>2, <1>5 DEF q

LEMMA ElementsTail ==
  ASSUME NEW S, NEW p \in Seq(S), Distinct(p), p # <<>>
  PROVE  /\ Tail(p) \in Seq(S) /\ Distinct(Tail(p))
         /\ Head(p) \in Elements(p) /\ Head(p) \in S
         /\ Elements(Tail(p)) = Elements(p) \ {Head(p)}
  <1>1. /\ Len(p) \in Nat \ {0} /\ DOMAIN p = 1..Len(p)
        /\ Head(p) = p[1] /\ Head(p) \in S
        /\ Tail(p) \in Seq(S) /\ DOMAIN Tail(p) = 1..Len(p) - 1
        /\ \A i \in 1..Len(p) - 1 : Tail(p)[i] = p[i + 1]
    BY LenProperties, EmptySeq, HeadTailProperties
  <1> DEFINE t == Tail(p)
  <1>2. DOMAIN t \subseteq Int /\ 1 \in DOMAIN p
    BY <1>1
  <1>3. \A i \in DOMAIN p : i # 1 => i - 1 \in DOMAIN t /\ t[i - 1] = p[i]
    <2> SUFFICES ASSUME NEW i \in DOMAIN p, i # 1
                 PROVE  i - 1 \in DOMAIN t /\ t[i - 1] = p[i]
      OBVIOUS
    <2>1. i - 1 \in 1..Len(p) - 1 /\ (i - 1) + 1 = i
      BY <1>1
    <2> QED
      BY <1>1, <2>1
  <1>4. /\ \A i \in DOMAIN t : i + 1 \in DOMAIN p /\ i + 1 # 1 /\ t[i] = p[i + 1]
        /\ \A i \in DOMAIN p : i # 1 => i - 1 \in DOMAIN t /\ t[i - 1] = p[i]
        /\ 1 \in DOMAIN p /\ DOMAIN t \subseteq Int
    BY <1>1, <1>2, <1>3
  <1> HIDE DEF t
  <1>5. Distinct(t)
    <2> SUFFICES ASSUME NEW i \in DOMAIN t, NEW j \in DOMAIN t, t[i] = t[j]
                 PROVE  i = j
      BY DEF Distinct
    <2>1. i + 1 = j + 1
      BY <1>4 DEF Distinct
    <2> QED
      BY <1>4, <2>1
  <1>6. Elements(t) = Elements(p) \ {p[1]}
    <2>1. \A i \in DOMAIN t : t[i] \in Elements(p) /\ t[i] # p[1]
      <3> SUFFICES ASSUME NEW i \in DOMAIN t
                   PROVE  t[i] \in Elements(p) /\ t[i] # p[1]
        OBVIOUS
      <3>1. i + 1 \in DOMAIN p /\ i + 1 # 1 /\ t[i] = p[i + 1] /\ 1 \in DOMAIN p
        BY <1>4
      <3> QED
        BY <3>1 DEF Elements, Distinct
    <2>2. Elements(p) \ {p[1]} \subseteq Elements(t)
      BY <1>4 DEF Elements
    <2> QED
      BY <2>1, <2>2 DEF Elements
  <1> QED
    BY <1>1, <1>4, <1>5, <1>6 DEF t, Elements

LEMMA SameCardinality ==
  ASSUME NEW S
  PROVE  Emitter!Cardinality(S) = Cardinality(S)
  BY Zenon DEF Emitter!Cardinality, Cardinality

(* The events of a change are added in some order, each once.              *)
LEMMA OrdersDistinct ==
  ASSUME NEW S, IsFiniteSet(S), NEW s \in Emitter!Orders(S)
  PROVE  s \in Seq(S) /\ Distinct(s) /\ Elements(s) = S
  <1> DEFINE n == Cardinality(S)
  <1>1. n \in Nat
    BY FS_CardinalityType
  <1>2. s \in [1..n -> S]
    BY SameCardinality DEF Emitter!Orders
  <1>3. \A e \in S : \E i \in DOMAIN s : s[i] = e
    BY DEF Emitter!Orders
  <1>4. s \in [1..n -> S] /\ \A e \in S : \E i \in 1..n : s[i] = e
    BY <1>2, <1>3
  <1>5. IsFiniteSet(1..n) /\ Cardinality(1..n) = n
    BY <1>1, FS_Interval
  <1> HIDE DEF n
  <1>6. s \in Surjection(1..n, S)
    BY <1>4 DEF Surjection
  <1>7. s \in Injection(1..n, S)
    BY <1>5, <1>6, FS_SurjSameCardinalityImpliesInj DEF n
  <1>8. Distinct(s)
    BY <1>4, <1>7 DEF Injection, IsInjective, Distinct
  <1>9. Elements(s) = S
    BY <1>4 DEF Elements
  <1>10. s \in Seq(S)
    BY <1>1, <1>4
  <1> QED
    BY <1>8, <1>9, <1>10

(* An event that is still to be made has been tried as often as the rate   *)
(* limiter has counted; one of a later change has not been tried at all.   *)
EventsInv ==
  /\ change \in Nat \ {0}
  /\ queue \in Seq(Emitter!Events) /\ Distinct(queue)
  /\ waiting \subseteq Emitter!Events
  /\ current = Emitter!Nothing \/ current \in Emitter!Events
  /\ requeues \in [Emitter!Events -> Nat] /\ tried \in [Emitter!Events -> Nat]
  /\ waiting \intersect Elements(queue) = {}
  /\ current \notin waiting \union Elements(queue)
  /\ \A e \in Emitter!Events : e[1] >= change =>
       e \notin Emitter!Pending /\ requeues[e] = 0 /\ tried[e] = 0
  /\ \A e \in Emitter!Pending : requeues[e] = tried[e] /\ tried[e] <= maxRetriesPerEvent
  /\ Emitter!GivenUpInTime

LEMMA EventsArePairs ==
  /\ Emitter!Nothing \notin Emitter!Events
  /\ \A e \in Emitter!Events : e[1] \in Nat
  /\ \A i, r : <<i, r>>[1] = i
  /\ \A i \in DOMAIN Changes : \A r \in Changes[i].refs : <<i, r>> \in Emitter!Events
  <1>1. DOMAIN Changes = 1..Len(Changes) /\ Len(Changes) \in Nat
    BY PartsAssumption, LenProperties
  <1>2. \A e \in Emitter!Events : \E i \in DOMAIN Changes : \E r : e = <<i, r>>
    BY DEF Emitter!Events
  <1> QED
    BY <1>1, <1>2 DEF Emitter!Events, Emitter!Nothing

LEMMA PendingIs ==
  /\ Emitter!Pending = waiting \union Elements(queue) \union ({current} \ {Emitter!Nothing})
  /\ Emitter!Pending' = waiting' \union Elements(queue)' \union ({current'} \ {Emitter!Nothing})
  BY DEF Emitter!Pending, Elements, Emitter!Nothing

LEMMA EventsInit == Emitter!Init => EventsInv
  <1> SUFFICES ASSUME Emitter!Init PROVE EventsInv
    OBVIOUS
  <1> USE DEF Emitter!Init
  <1>1. queue \in Seq(Emitter!Events) /\ DOMAIN queue = {}
    OBVIOUS
  <1>2. Elements(queue) = {} /\ Distinct(queue)
    BY <1>1 DEF Elements, Distinct
  <1>3. Emitter!Pending = {}
    BY <1>2, PendingIs
  <1>4. Emitter!GivenUpInTime
    BY PartsAssumption DEF Emitter!GivenUpInTime
  <1> QED
    BY <1>1, <1>2, <1>3, <1>4, EventsArePairs DEF EventsInv

(* What is new of a change has not been seen before.                       *)
LEMMA EventsAdd ==
  ASSUME EventsInv, Emitter!Add
  PROVE  EventsInv'
  <1> USE DEF EventsInv
  <1> DEFINE S == Emitter!Taken(change)
  <1>1. /\ change \in DOMAIN Changes /\ change \in Nat
        /\ change' = change + 1
        /\ waiting' = waiting /\ current' = current /\ requeues' = requeues
        /\ tried' = tried /\ made' = made /\ closing' = closing
    <2>1. DOMAIN Changes = 1..Len(Changes) /\ Len(Changes) \in Nat
      BY PartsAssumption, LenProperties
    <2> QED
      BY <2>1 DEF Emitter!Add
  <1>2. PICK s \in Emitter!Orders(S) : queue' = queue \o s
    BY DEF Emitter!Add
  <1>3. S \subseteq {<<change, r>> : r \in Changes[change].refs}
    BY DEF Emitter!Taken
  <1>4. \A e \in S : e \in Emitter!Events /\ e[1] = change
    BY <1>1, <1>3, EventsArePairs
  <1>5. IsFiniteSet(S)
    <2> DEFINE R == Changes[change].refs
               T == {<<change, r>> : r \in R}
               f == [r \in R |-> <<change, r>>]
    <2>1. f \in Surjection(R, T)
      BY DEF Surjection
    <2>2. IsFiniteSet(R)
      BY <1>1, PartsAssumption
    <2> HIDE DEF R, f
    <2>3. IsFiniteSet(T)
      BY <2>1, <2>2, FS_Surjection
    <2> QED
      BY <1>3, <2>3, FS_Subset DEF R
  <1> HIDE DEF S
  <1>6. s \in Seq(S) /\ Distinct(s) /\ Elements(s) = S
    BY <1>2, <1>5, OrdersDistinct
  <1>7. s \in Seq(Emitter!Events)
    BY <1>4, <1>6
  <1>8. \A e \in S : /\ e \in Emitter!Events /\ e \notin Emitter!Pending
                     /\ requeues[e] = 0 /\ tried[e] = 0
    <2> SUFFICES ASSUME NEW e \in S
                 PROVE  /\ e \in Emitter!Events /\ e \notin Emitter!Pending
                        /\ requeues[e] = 0 /\ tried[e] = 0
      OBVIOUS
    <2>1. e \in Emitter!Events /\ e[1] >= change
      BY <1>1, <1>4
    <2> QED
      BY <2>1
  <1>9. S \intersect Elements(queue) = {} /\ S \intersect waiting = {} /\ current \notin S
    BY <1>8, PendingIs, EventsArePairs
  <1>10. /\ queue' \in Seq(Emitter!Events) /\ Distinct(queue')
         /\ Elements(queue)' = Elements(queue) \union S
    <2>1. /\ queue' \in Seq(Emitter!Events) /\ Distinct(queue')
          /\ Elements(queue') = Elements(queue) \union S
      BY <1>2, <1>6, <1>7, <1>9, ElementsConcat
    <2> QED
      BY <2>1 DEF Elements
  <1>11. Emitter!Pending' = Emitter!Pending \union S
    BY <1>1, <1>10, PendingIs
  <1>12. \A e \in Emitter!Events : e[1] >= change' =>
           e \notin Emitter!Pending' /\ requeues'[e] = 0 /\ tried'[e] = 0
    BY <1>1, <1>4, <1>11, EventsArePairs
  <1>13. \A e \in Emitter!Pending' : requeues'[e] = tried'[e] /\ tried'[e] <= maxRetriesPerEvent
    BY <1>1, <1>8, <1>11, PartsAssumption
  <1>14. Emitter!GivenUpInTime'
    BY <1>1, <1>11 DEF Emitter!GivenUpInTime, Emitter!Events
  <1> QED
    BY <1>1, <1>9, <1>10, <1>12, <1>13, <1>14 DEF Distinct, Emitter!Events, Emitter!Nothing

LEMMA EventsGet ==
  ASSUME EventsInv, Emitter!Get
  PROVE  EventsInv'
  <1> USE DEF EventsInv
  <1>1. /\ current = Emitter!Nothing /\ queue # <<>>
        /\ current' = Head(queue) /\ queue' = Tail(queue)
        /\ change' = change /\ waiting' = waiting /\ requeues' = requeues
        /\ tried' = tried /\ made' = made /\ closing' = closing
    BY DEF Emitter!Get
  <1>2. /\ queue' \in Seq(Emitter!Events) /\ Distinct(queue')
        /\ current' \in Elements(queue) /\ current' \in Emitter!Events
        /\ Elements(queue') = Elements(queue) \ {current'}
    BY <1>1, ElementsTail
  <1>3. Elements(queue)' = Elements(queue) \ {current'} /\ Distinct(queue)'
    BY <1>2 DEF Elements, Distinct
  <1>4. Emitter!Pending' = Emitter!Pending
    BY <1>1, <1>2, <1>3, PendingIs, EventsArePairs
  <1>5. Emitter!GivenUpInTime'
    BY <1>1, <1>4 DEF Emitter!GivenUpInTime, Emitter!Events
  <1> QED
    BY <1>1, <1>2, <1>3, <1>4, <1>5 DEF Emitter!Events, Emitter!Nothing

LEMMA EventsDue ==
  ASSUME EventsInv, Emitter!Due
  PROVE  EventsInv'
  <1> USE DEF EventsInv
  <1>1. /\ change' = change /\ current' = current /\ requeues' = requeues
        /\ tried' = tried /\ made' = made /\ closing' = closing
    BY DEF Emitter!Due
  <1>2. PICK e \in waiting : waiting' = waiting \ {e} /\ queue' = Append(queue, e)
    BY DEF Emitter!Due
  <1>3. /\ queue' \in Seq(Emitter!Events) /\ Distinct(queue')
        /\ Elements(queue') = Elements(queue) \union {e}
    BY <1>2, ElementsAppend
  <1>4. Elements(queue)' = Elements(queue) \union {e} /\ Distinct(queue)'
    BY <1>3 DEF Elements, Distinct
  <1>5. Emitter!Pending' = Emitter!Pending
    BY <1>1, <1>2, <1>4, PendingIs
  <1>6. Emitter!GivenUpInTime'
    BY <1>1, <1>5 DEF Emitter!GivenUpInTime, Emitter!Events
  <1> QED
    BY <1>1, <1>2, <1>3, <1>4, <1>5, <1>6 DEF Emitter!Events, Emitter!Nothing

LEMMA EventsShutDown ==
  ASSUME EventsInv, Emitter!ShutDown
  PROVE  EventsInv'
  <1> USE DEF EventsInv
  <1>1. /\ change' = change /\ queue' = queue /\ current' = current /\ requeues' = requeues
        /\ tried' = tried /\ made' = made /\ closing' /\ waiting' = {}
    BY DEF Emitter!ShutDown
  <1>2. Elements(queue)' = Elements(queue) /\ Distinct(queue)'
    BY <1>1 DEF Elements, Distinct
  <1>3. Emitter!Pending' \subseteq Emitter!Pending
    BY <1>1, <1>2, PendingIs
  <1>4. Emitter!GivenUpInTime'
    BY <1>1 DEF Emitter!GivenUpInTime, Emitter!Events
  <1> QED
    BY <1>1, <1>2, <1>3, <1>4 DEF Emitter!Events, Emitter!Nothing

(* After an answer an event waits for another try, with both counts one    *)
(* higher, or has come to its end.                                         *)
LEMMA EventsAnswer ==
  ASSUME EventsInv, Emitter!Answer
  PROVE  EventsInv'
  <1> USE DEF EventsInv
  <1>1. /\ current # Emitter!Nothing /\ current' = Emitter!Nothing
        /\ tried' = [tried EXCEPT ![current] = IF @ < maxRetriesPerEvent + 2 THEN @ + 1 ELSE @]
        /\ change' = change /\ queue' = queue /\ closing' = closing
    BY DEF Emitter!Answer
  <1>2. current \in Emitter!Events /\ current \in Emitter!Pending
    BY <1>1, PendingIs
  <1>3. /\ requeues[current] \in Nat /\ requeues[current] = tried[current]
        /\ requeues[current] <= maxRetriesPerEvent /\ maxRetriesPerEvent \in Nat
    BY <1>2, PartsAssumption
  <1>4. tried' = [tried EXCEPT ![current] = requeues[current] + 1]
    <2>1. requeues[current] + 1 = IF tried[current] < maxRetriesPerEvent + 2
                                  THEN tried[current] + 1 ELSE tried[current]
      BY <1>3
    <2> QED
      BY <1>1, <1>2, <2>1, Zenon
  <1>5. made \subseteq made'
    BY DEF Emitter!Answer
  <1>6. \/ /\ waiting' = waiting \union {current}
           /\ requeues' = [requeues EXCEPT ![current] = requeues[current] + 1]
           /\ requeues[current] < maxRetriesPerEvent
        \/ /\ waiting' = waiting
           /\ \/ requeues' = [requeues EXCEPT ![current] = 0]
              \/ requeues' = [requeues EXCEPT ![current] = requeues[current] + 1]
           /\ \/ current[2] \in Missing \/ current \in made' \/ closing
              \/ requeues[current] = maxRetriesPerEvent
    <2>1. CASE /\ current[2] \in Missing
               /\ requeues' = [requeues EXCEPT ![current] = 0] /\ waiting' = waiting
      BY <2>1
    <2>2. CASE /\ made' = made \union {current}
               /\ requeues' = [requeues EXCEPT ![current] = 0] /\ waiting' = waiting
      BY <2>2
    <2>3. CASE Emitter!Retry
      BY <1>3, <2>3 DEF Emitter!Retry
    <2> QED
      BY <2>1, <2>2, <2>3 DEF Emitter!Answer
  <1>7. Elements(queue)' = Elements(queue) /\ Distinct(queue)'
    BY <1>1 DEF Elements, Distinct
  <1>8. requeues' \in [Emitter!Events -> Nat] /\ tried' \in [Emitter!Events -> Nat]
    BY <1>2, <1>3, <1>4, <1>6
  <1>9. /\ tried'[current] = requeues[current] + 1
        /\ \A e \in Emitter!Events : e # current =>
             requeues'[e] = requeues[e] /\ tried'[e] = tried[e]
    BY <1>2, <1>4, <1>6
  <1>10. /\ \A e \in Emitter!Events : e # current => (e \in Emitter!Pending' <=> e \in Emitter!Pending)
         /\ Emitter!Pending' \subseteq Emitter!Pending
         /\ Emitter!Pending \subseteq Emitter!Events
    <2>1. Elements(queue) \subseteq Emitter!Events
      BY LenProperties, ElementOfSeq DEF Elements
    <2> QED
      BY <1>1, <1>2, <1>6, <1>7, <2>1, PendingIs
  <1>11. current \in Emitter!Pending' =>
           requeues'[current] = requeues[current] + 1 /\ requeues[current] < maxRetriesPerEvent
    <2>1. current \in Emitter!Pending' => current \in waiting'
      BY <1>1, <1>2, <1>7, PendingIs
    <2> QED
      BY <1>2, <1>6, <2>1
  <1>12. current \notin Emitter!Pending' =>
           \/ current[2] \in Missing \/ current \in made' \/ closing
           \/ requeues[current] = maxRetriesPerEvent
    BY <1>6, PendingIs
  <1>13. \A e \in Emitter!Events : e[1] >= change' =>
           e \notin Emitter!Pending' /\ requeues'[e] = 0 /\ tried'[e] = 0
    BY <1>1, <1>2, <1>9, <1>10
  <1>14. \A e \in Emitter!Pending' : requeues'[e] = tried'[e] /\ tried'[e] <= maxRetriesPerEvent
    <2> SUFFICES ASSUME NEW e \in Emitter!Pending'
                 PROVE  requeues'[e] = tried'[e] /\ tried'[e] <= maxRetriesPerEvent
      OBVIOUS
    <2>1. CASE e = current
      BY <1>3, <1>9, <1>11, <2>1
    <2>2. CASE e # current
      BY <1>9, <1>10, <2>2
    <2> QED
      BY <2>1, <2>2
  <1>15. Emitter!GivenUpInTime'
    <2> SUFFICES ASSUME NEW e \in Emitter!Events
                 PROVE  /\ tried'[e] <= maxRetriesPerEvent + 1
                        /\ /\ tried'[e] > 0 /\ e \notin Emitter!Pending' \union made' /\ ~closing'
                           /\ e[2] \notin Missing
                           => tried'[e] = maxRetriesPerEvent + 1
      BY DEF Emitter!GivenUpInTime, Emitter!Events
    <2>1. CASE e = current
      BY <1>1, <1>3, <1>9, <1>12, <2>1
    <2>2. CASE e # current
      BY <1>1, <1>5, <1>9, <1>10, <2>2 DEF Emitter!GivenUpInTime
    <2> QED
      BY <2>1, <2>2
  <1>16. /\ waiting' \subseteq Emitter!Events /\ waiting' \intersect Elements(queue) = {}
         /\ Emitter!Nothing \notin waiting' \union Elements(queue)
    <2>1. Elements(queue) \subseteq Emitter!Events
      BY <1>10, PendingIs
    <2> QED
      BY <1>2, <1>6, <2>1, EventsArePairs
  <1> QED
    BY <1>1, <1>7, <1>8, <1>13, <1>14, <1>15, <1>16 DEF Emitter!Events, Emitter!Nothing

LEMMA EventsStep ==
  ASSUME EventsInv, Emitter!Next \/ UNCHANGED Emitter!vars
  PROVE  EventsInv'
  <1>1. CASE UNCHANGED Emitter!vars
    BY <1>1 DEF EventsInv, Emitter!vars, Emitter!Events, Emitter!Nothing, Emitter!Pending,
                Emitter!GivenUpInTime, Elements, Distinct
  <1> QED
    BY <1>1, EventsAdd, EventsGet, EventsAnswer, EventsDue, EventsShutDown DEF Emitter!Next

(* An event is given up after all its tries only, neither earlier nor      *)
(* later (pkg/events/controller.go: processNextWorkItem, retry), for any   *)
(* sequence of changes and any limits, also when the API server creates    *)
(* the event and the answer is lost.                                       *)
THEOREM PartsEventsTried == Spec => []EventsTried
  <1> DEFINE Inv == part = "events" => EventsInv
  <1>1. Init => Inv
    BY PartInit, EventsInit
  <1>2. Inv /\ [Next]_vars => Inv'
    BY PartStays, EventsStep
  <1>3. Inv => EventsTried
    BY DEF EventsTried, EventsInv
  <1> HIDE DEF Inv
  <1> QED
    BY <1>1, <1>2, <1>3, PTL DEF Spec
=============================================================================
