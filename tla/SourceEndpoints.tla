--------------------------- MODULE SourceEndpoints ---------------------------
(***************************************************************************)
(* What the sources have in common: how an object of the cluster becomes   *)
(* endpoints, how templates add to them and how the endpoints of several   *)
(* objects are merged (endpoint/utils.go, source/template/engine.go,       *)
(* source/annotations), and what the wrappers around the sources make of   *)
(* them (source/wrappers).                                                 *)
(*                                                                         *)
(* An object is a record.  All kinds have the fields                       *)
(*   ours     the controller annotation, if any, names this controller     *)
(*   hosts, targets, ttl   the annotations hostname, target and ttl        *)
(*   tmpl     what the templates make of the object: [err, hosts, targets, *)
(*            pairs]                                                       *)
(* The cluster c that a source looks at is a record with one field of      *)
(* objects per kind, the options of the source in c.flags, and c.fail if   *)
(* the calls it makes during a run (to the API server or a resolver) fail. *)
(* Set identifiers and provider-specific properties are left out.          *)
(***************************************************************************)
EXTENDS Integers, FiniteSets, Sequences

CONSTANTS V4, V6   \* targets that are addresses; the others are host names

(* A source returns endpoints or an error.                                 *)
Ok(S) == [err |-> FALSE, eps |-> S]
Failed == [err |-> TRUE, eps |-> {}]

SuitableType(t) == IF t \in V4 THEN "A" ELSE IF t \in V6 THEN "AAAA" ELSE "CNAME"

Endpoint(name, type, ttl, tgts) == [name |-> name, type |-> type, ttl |-> ttl, tgts |-> tgts]

EndpointsForHostname(host, tgts, ttl) ==
  {Endpoint(host, type, ttl, {t \in tgts : SuitableType(t) = type})
     : type \in {SuitableType(t) : t \in tgts}}
EndpointsForHosts(hosts, tgts, ttl) == UNION {EndpointsForHostname(h, tgts, ttl) : h \in hosts}

(* A mutant of MergeEndpoints: the first endpoint of a key is kept.        *)
MergeDropsTargets(S) ==
  {e \in S : e = CHOOSE d \in S : d.name = e.name /\ d.type = e.type /\ d.ttl = e.ttl}

(* MergeEndpoints: the targets of endpoints with the same key are joined.  *)
(* The first target of a CNAME, which should have one, is part of its key; *)
(* a CNAME without targets is left out.                                    *)
FirstTarget(tgts) == CHOOSE t \in tgts : TRUE
MergeEndpoints(S) ==
  LET Key(e) == <<e.name, e.type, e.ttl, IF e.type = "CNAME" THEN {FirstTarget(e.tgts)} ELSE {}>>
      merged == {e \in S : e.type = "CNAME" => e.tgts # {}}
  IN  {[e EXCEPT !.tgts = UNION {d.tgts : d \in {x \in merged : Key(x) = Key(e)}}]
         : e \in merged}

(* TargetsFromTargetAnnotation, with what the source uses if there is none.*)
TargetsOr(o, others) == IF o.targets # {} THEN o.targets ELSE others

(* IsControllerMatch                                                       *)
Matching(objs) == {o \in objs : o.ours}

(* CombineWithEndpoints: the templates are used if there is nothing else,  *)
(* or, if they are combined, besides it.                                   *)
CombineWithEndpoints(flags, eps, templated) ==
  IF ~flags.template \/ (~flags.combine /\ eps # {}) THEN Ok(eps)
  ELSE IF templated.err THEN Failed
  ELSE Ok((IF flags.combine THEN eps ELSE {}) \union templated.eps)

(* ExecFQDN, with the endpoints the source has for each host of it.        *)
ExecFQDN(o, endpointsOf) ==
  IF o.tmpl.err THEN Failed ELSE Ok(UNION {endpointsOf[h] : h \in o.tmpl.hosts})

ApplyFQDNTargetTemplate(flags, eps, o) ==
  CombineWithEndpoints(flags, eps,
    IF o.tmpl.err THEN Failed
    ELSE Ok(MergeEndpoints({Endpoint(p[1], SuitableType(p[2]), 0, {p[2]}) : p \in o.tmpl.pairs})))

(* Two templates in turn.                                                  *)
BothTemplates(flags, eps, o, endpointsOf) ==
  LET first == ApplyFQDNTargetTemplate(flags, eps, o)
  IN  IF first.err THEN Failed
      ELSE CombineWithEndpoints(flags, first.eps, ExecFQDN(o, endpointsOf))

ApplyTemplates(flags, eps, o) ==
  BothTemplates(flags, eps, o, [h \in o.tmpl.hosts |-> EndpointsForHostname(h, o.tmpl.targets, 0)])

(* The endpoints of all objects, unless one of them is an error.           *)
Collect(results) ==
  IF \E r \in results : r.err THEN Failed
  ELSE Ok(MergeEndpoints(UNION {r.eps : r \in results}))

-----------------------------------------------------------------------------
(* The wrappers around the sources (source/wrappers): all sources in one,  *)
(* without duplicates, with A records for NAT64 addresses, without targets *)
(* that are filtered, with PTR records and default TTLs.  The endpoint     *)
(* property that asks for or against a PTR record is left out: they are    *)
(* wanted for all addresses.                                               *)
CONSTANTS
  DefaultTargets,      \* --default-targets
  ForceDefaultTargets,
  NAT64,               \* address in a NAT64 prefix |-> the IPv4 address in it
  FilteredTargets,     \* excluded by --exclude-target-net
  Reverse,             \* address |-> the name of its PTR record
  Wildcards,           \* the names that begin with "*."
  MinTTL               \* --min-ttl

(* A mutant of MultiSource: a source with an error is left out.            *)
MultiSourceSkips(results) == Ok(UNION {r.eps : r \in results})

(* multiSource: an error of one source is an error of all.                 *)
MultiSource(results) ==
  LET all == UNION {r.eps : r \in results}
      defaulted(e) == IF DefaultTargets # {} /\ (ForceDefaultTargets \/ e.tgts = {})
                      THEN EndpointsForHostname(e.name, DefaultTargets, e.ttl) ELSE {e}
  IN  IF \E r \in results : r.err THEN Failed ELSE Ok(UNION {defaulted(e) : e \in all})

(* The targets of an address record must be addresses of its type.         *)
CheckEndpoint(e) == /\ e.type = "A" => e.tgts \subseteq V4
                    /\ e.type = "AAAA" => e.tgts \subseteq V6

(* dedupSource: endpoints that do not check are left out, and of those     *)
(* that differ in their TTL only, one is kept; the order in which they     *)
(* come is not determined.                                                 *)
Deduplicated(all) ==
  LET S == {e \in all : CheckEndpoint(e)}
      Same(e) == {d \in S : d.name = e.name /\ d.type = e.type /\ d.tgts = e.tgts}
      twice == {e \in S : Same(e) # {e}}
  IN  {(S \ twice) \union T
         : T \in {X \in SUBSET twice : \A e \in twice : Cardinality(X \intersect Same(e)) = 1}}

WithNAT64(S) ==
  LET v4(e) == {NAT64[t] : t \in e.tgts \intersect DOMAIN NAT64}
  IN  S \union {[e EXCEPT !.type = "A", !.tgts = v4(e)] : e \in {x \in S : x.type = "AAAA" /\ v4(x) # {}}}

FilterTargets(S) ==
  {[e EXCEPT !.tgts = @ \ FilteredTargets] : e \in {x \in S : ~(x.tgts \subseteq FilteredTargets)}}

WithPTR(S) ==
  LET addressed == {e \in S : e.type \in {"A", "AAAA"} /\ e.name \notin Wildcards}
      with(t) == {e \in addressed : t \in e.tgts}
      ttl(t) == CHOOSE n \in {e.ttl : e \in with(t)} : \A e \in with(t) : n <= e.ttl
  IN  S \union {Endpoint(Reverse[t], "PTR", ttl(t), {e.name : e \in with(t)})
                  : t \in UNION {e.tgts : e \in addressed}}

PostProcess(S) == {[e EXCEPT !.ttl = IF @ = 0 THEN MinTTL ELSE @] : e \in S}

(* A mutant of Wrapped: PTR records are added before targets are filtered. *)
WrappedPTRFirst(S) == PostProcess(FilterTargets(WithPTR(WithNAT64(S))))

(* wrapSources, what it may return.                                        *)
Wrapped(S) == PostProcess(WithPTR(FilterTargets(WithNAT64(S))))
WrapSources(results) ==
  LET all == MultiSource(results)
  IN  IF all.err THEN {Failed} ELSE {Ok(Wrapped(T)) : T \in Deduplicated(all.eps)}
=============================================================================
