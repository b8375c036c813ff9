--------------------------- MODULE ProviderCalls ---------------------------
(***************************************************************************)
(* The vocabulary of the provider modules.  A DNS service holds single     *)
(* records [name, type, tgt, ttl]; an endpoint [name, type, tgts, ttl]     *)
(* stands for the records of one name and type (ttl 0: not configured).    *)
(* ApplyChanges of a provider becomes a sequence of stages.  A stage is a  *)
(* set of jobs, done one after the other in any order (one for each zone,  *)
(* in the order of a map, or just one), a job a sequence of phases and a   *)
(* phase a set of API calls whose order the code leaves to a map or to the *)
(* order of the plan.                                                      *)
(*                                                                         *)
(* A call replaces the records of the keys in "clear" and those in "del"   *)
(* by those in "add", and fails if a record in "must" does not exist, or   *)
(* one with a key in "free" exists that is not in "del". A call that looks *)
(* for a record takes any one with a key in "find", fails if there is      *)
(* none, and deletes it or gives it the content of the record in "edit".   *)
(* "ttls" holds the TTLs the added records may get if the code leaves open *)
(* which.                                                                  *)
(* When it fails the provider gives up ("stop"), gives up on the job of    *)
(* the call ("zone"), goes on and reports the error at the end ("note") or *)
(* goes on and only logs it ("skip"); before it goes on it may make other  *)
(* calls instead, in phases ("instead").                                   *)
(***************************************************************************)
EXTENDS Integers, Sequences, FiniteSets

CONSTANTS
  ZoneOf,      \* name |-> the hosted zone FindZone gives for it, or ""
  DefaultTTL,  \* what a provider writes if no TTL is configured
  MinTTL       \* the least TTL a service accepts

KeyOf(r) == <<r.name, r.type>>
Rec(e, t, ttl) == [name |-> e.name, type |-> e.type, tgt |-> t, ttl |-> ttl]
Matching(zone, e) == {r \in zone : KeyOf(r) = KeyOf(e)}
Targets(R) == {r.tgt : r \in R}

(* The usual choice of a TTL.                                              *)
TTLOf(e) == IF e.ttl > 0 THEN e.ttl ELSE DefaultTTL
RecsOf(e, ttl) == {Rec(e, t, ttl) : t \in e.tgts}

(* The part of a set of endpoints that lies in a hosted zone.              *)
Hosted(E) == {e \in E : ZoneOf[e.name] # ""}

Call(name, clear, del, add, must, onerr) ==
  [zone |-> ZoneOf[name], clear |-> clear, del |-> del, add |-> add,
   must |-> must, onerr |-> onerr, find |-> {}, edit |-> {}, ttls |-> {},
   free |-> {}, instead |-> <<>>]
Add(r, onerr) == Call(r.name, {}, {}, {r}, {}, onerr)
Del(r, onerr) == Call(r.name, {}, {r}, {}, {r}, onerr)
Replace(old, new, onerr) == Call(new.name, {}, {old}, {new}, {old}, onerr)
PutSet(e, ttl, onerr) == Call(e.name, {KeyOf(e)}, {}, RecsOf(e, ttl), {}, onerr)
DelSet(e, onerr) == Call(e.name, {KeyOf(e)}, {}, {}, {}, onerr)

(* Any one of the records with one of the keys.                            *)
NameOnly(name) == {name} \X {"A", "AAAA", "CNAME", "TXT", "MX"}
DelOne(name, keys, onerr) == [Call(name, {}, {}, {}, {}, onerr) EXCEPT !.find = keys]
EditOne(r, keys, onerr) ==
  [Call(r.name, {}, {}, {}, {}, onerr) EXCEPT !.find = keys, !.edit = {r}]

(* One call for each zone that replaces the records in del by those in add,*)
(* all or none.                                                            *)
Batches(del, add, onerr) ==
  LET in(R, z) == {r \in R : ZoneOf[r.name] = z}
      one(z) == CHOOSE r \in del \union add : ZoneOf[r.name] = z
  IN  {Call(one(z).name, {}, in(del, z), in(add, z), in(del, z), onerr) :
         z \in {ZoneOf[r.name] : r \in del \union add}}

(* One call for each zone that replaces or deletes all sets of endpoints.  *)
ZoneSets(E, put, onerr) ==
  LET in(z) == {e \in E : ZoneOf[e.name] = z}
      one(z) == CHOOSE e \in in(z) : TRUE
      recs(z) == IF put THEN UNION {RecsOf(e, TTLOf(e)) : e \in in(z)} ELSE {}
  IN  {Call(one(z).name, {KeyOf(e) : e \in in(z)}, {}, recs(z), {}, onerr) :
         z \in {ZoneOf[e.name] : e \in E}}

(* Phases for all zones at once.                                           *)
OneJob(phases) == <<{phases}>>

(* Phases of all zones, split into a job for each zone.                    *)
PerZone(phases) ==
  <<{[i \in DOMAIN phases |-> {c \in phases[i] : c.zone = z}] :
       z \in UNION {{c.zone : c \in phases[i]} : i \in DOMAIN phases}}>>

(* AdjustEndpoints of provider.BaseProvider, and one that fills in the TTL.*)
Unadjusted(E) == E
WithTTLs(E) == {[e EXCEPT !.ttl = TTLOf(e)] : e \in E}

(* One endpoint for all records of a key, as most providers return them,   *)
(* or one for each record.                                                 *)
Grouped(zone) ==
  {[name |-> r.name, type |-> r.type, ttl |-> r.ttl, tgts |-> Targets(Matching(zone, r))]
     : r \in zone}
Single(zone) ==
  {[name |-> r.name, type |-> r.type, ttl |-> r.ttl, tgts |-> {r.tgt}] : r \in zone}
=============================================================================
