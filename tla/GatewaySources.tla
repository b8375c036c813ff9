--------------------------- MODULE GatewaySources ---------------------------
(***************************************************************************)
(* The sources whose objects get their targets from other objects: Istio   *)
(* Gateway and VirtualService, Gloo Proxy, and the routes of the Gateway   *)
(* API (source/istio_gateway.go, istio_virtualservice.go, gloo_proxy.go,   *)
(* gateway.go, endpoints.go).  Names stand for namespace and name; where   *)
(* the namespace matters objects have a field ns.                          *)
(***************************************************************************)
EXTENDS SourceEndpoints

Named(objs, name) == {o \in objs : o.name = name}  \* Lister().Get: one object or none
WithoutAnnotation(c) == c.flags.ignoreHostnameAnnotation
Hosts(c, o) == o.specHosts \union IF WithoutAnnotation(c) THEN {} ELSE o.hosts

(* The host names that a wildcard covers.                                  *)
Under(c, pattern) == IF pattern \in DOMAIN c.flags.under THEN c.flags.under[pattern] ELSE {}

EndpointTargetsFromServices(c, selector) ==
  UNION {IF s.externalIPs # {} THEN s.externalIPs ELSE s.lb
           : s \in {x \in c.services : selector \in x.selects}}

-----------------------------------------------------------------------------
(* targetsFromGateway: annotation, ingress or services.  An ingress that   *)
(* is not in the cache is an error.                                        *)
GatewayFails(c, g) == g.targets = {} /\ g.ingress # "" /\ Named(c.ingresses, g.ingress) = {}
TargetsOfGateway(c, g) ==
  TargetsOr(g, IF g.ingress # "" THEN UNION {i.status : i \in Named(c.ingresses, g.ingress)}
               ELSE EndpointTargetsFromServices(c, g.selector))

(* The servers of a gateway have hosts [ns, host].                         *)
EndpointsOfGateway(c, g) ==
  LET forName(h) == EndpointsForHostname(h, TargetsOfGateway(c, g), g.ttl)
      hosts == ({s.host : s \in g.servers} \ {"*"}) \union IF WithoutAnnotation(c) THEN {} ELSE g.hosts
  IN  IF GatewayFails(c, g) THEN Failed
      ELSE CombineWithEndpoints(c.flags, UNION {forName(h) : h \in hosts},
             ExecFQDN(g, [h \in g.tmpl.hosts |-> forName(h)]))
IstioGatewayEndpoints(c) == Collect({EndpointsOfGateway(c, g) : g \in Matching(c.gateways)})

(* The gateways of a virtual service that serve a host, as far as they are *)
(* in the cache.                                                           *)
virtualServiceBindsToGateway(c, v, g, host) ==
  /\ v.exportTo = {} \/ {"*", g.ns} \intersect v.exportTo # {} \/ ("." \in v.exportTo /\ g.ns = v.ns)
  /\ \E s \in g.servers : /\ s.ns \in {"*", v.ns} \/ (s.ns = "." /\ v.ns = g.ns)
                          /\ s.host \in {"*", host} \/ host \in Under(c, s.host)
BoundGateways(c, v, host) ==
  {g \in c.gateways : g.name \in v.gateways /\ virtualServiceBindsToGateway(c, v, g, host)}
TargetsOfVirtualService(c, v, host) ==
  UNION {TargetsOfGateway(c, g) : g \in BoundGateways(c, v, host)}
VirtualServiceFails(c, v, hosts) ==
  \E h \in hosts : \E g \in BoundGateways(c, v, h) : GatewayFails(c, g)

(* The template does not look at the target annotation.                    *)
EndpointsOfVirtualService(c, v) ==
  LET hosts == Hosts(c, v) \ {"*"}
      forName(h) == EndpointsForHostname(h, TargetsOr(v, TargetsOfVirtualService(c, v, h)), v.ttl)
      templated == [h \in v.tmpl.hosts |-> EndpointsForHostname(h, TargetsOfVirtualService(c, v, h), v.ttl)]
  IN  IF v.targets = {} /\ VirtualServiceFails(c, v, hosts) THEN Failed
      ELSE CombineWithEndpoints(c.flags, UNION {forName(h) : h \in hosts},
             IF VirtualServiceFails(c, v, v.tmpl.hosts) THEN Failed ELSE ExecFQDN(v, templated))
IstioVirtualServiceEndpoints(c) ==
  Collect({EndpointsOfVirtualService(c, v) : v \in Matching(c.virtualservices)})

-----------------------------------------------------------------------------
(* Gloo: targets from the ingresses of the proxy's gateways, or from the   *)
(* service of the proxy's name; the TTL of a virtual host from its virtual *)
(* service.  Whatever is not in the cache is an error.                     *)
GlooIngresses(c, p) == {i \in c.ingresses : \E g \in c.gateways : g.name \in p.gateways /\ g.ingress = i.name}
GlooFails(c, p) ==
  LET gateways == {g \in c.gateways : g.name \in p.gateways}
      fromIngress == UNION {i.status : i \in GlooIngresses(c, p)}
  IN  \/ p.targets = {} /\ p.gateways # {g.name : g \in gateways}
      \/ p.targets = {} /\ \E g \in gateways : g.ingress # "" /\ Named(c.ingresses, g.ingress) = {}
      \/ p.targets = {} /\ fromIngress = {} /\ Named(c.services, p.name) = {}
      \/ \E v \in p.vhosts : Named(c.virtualservices, v.source) = {}
EndpointsOfProxy(c, p) ==
  LET fromIngress == UNION {i.status : i \in GlooIngresses(c, p)}
      fromService == UNION {s.lb : s \in {x \in Named(c.services, p.name) : x.type = "LoadBalancer"}}
      targets == TargetsOr(p, IF fromIngress # {} THEN fromIngress ELSE fromService)
      ttl(v) == (CHOOSE s \in Named(c.virtualservices, v.source) : TRUE).ttl
  IN  IF GlooFails(c, p) THEN Failed
      ELSE ApplyTemplates(c.flags, UNION {EndpointsForHosts(v.domains, targets, ttl(v)) : v \in p.vhosts}, p)
GlooProxyEndpoints(c) == Collect({EndpointsOfProxy(c, p) : p \in Matching(c.proxies)})

-----------------------------------------------------------------------------
(* Gateway API.  AllowsFrom says whether listeners of gateway or listener  *)
(* set of one namespace admit objects of another; a namespace that is not  *)
(* in the cache matches no selector.                                       *)
AllowsFrom(c, from, selector, ns, other) ==
  CASE from = "All" -> TRUE
    [] from = "Same" -> ns = other
    [] from = "Selector" -> \E n \in Named(c.namespaces, other) : selector \in n.labels
    [] OTHER -> FALSE

(* The gateways and attached listener sets, with their accepted listeners. *)
ListenerObjects(c) ==
  {[kind |-> "Gateway", name |-> g.name, ns |-> g.ns, gateway |-> g,
    listeners |-> g.listeners, overrides |-> g.targets] : g \in c.gateways}
  \union
  {[kind |-> "ListenerSet", name |-> lg[1].name, ns |-> lg[1].ns, gateway |-> lg[2],
    listeners |-> {l \in lg[1].listeners : l.name \in lg[1].acceptedListeners},
    overrides |-> TargetsOr(lg[1], lg[2].targets)]
     : lg \in {x \in c.listenersets \X c.gateways :
                 /\ x[1].parent = x[2].name /\ x[1].accepted
                 /\ AllowsFrom(c, x[2].allowFrom, x[2].allowSelector, x[2].ns, x[1].ns)}}

gwProtocolMatches(a, b) ==
  LET plain(p) == IF p = "HTTPS" THEN "HTTP" ELSE p
  IN  plain(a) = plain(b) \/ (a = "TCP" /\ b = "TLS")

(* The more special of two host names, where "" is any.                    *)
gwMatchingHost(c, a, b) ==
  IF a = "" THEN {b} ELSE IF b \in {"", a} THEN {a}
  ELSE ({b} \intersect Under(c, a)) \union ({a} \intersect Under(c, b))

UsesTemplate(c, r) == c.flags.template /\ (r.specHosts = {} \/ c.flags.combine)
RouteHosts(c, r) ==
  LET annotated == IF WithoutAnnotation(c) THEN {} ELSE r.hosts
      defined == r.specHosts \union IF UsesTemplate(c, r) THEN r.tmpl.hosts ELSE {}
  IN  CASE r.hostnameSource = "annotation-only" -> annotated
        [] r.hostnameSource = "defined-hosts-only" -> defined
        [] OTHER -> defined \union annotated \union IF r.specHosts = {} THEN {""} ELSE {}

(* The listeners that a route is attached to, through the parents that its *)
(* status has accepted and its spec still lists.                           *)
Attachments(c, r) ==
  {[obj |-> t[2], listener |-> t[3]]
     : t \in {x \in r.status \X ListenerObjects(c) \X UNION {o.listeners : o \in ListenerObjects(c)} :
                /\ x[3] \in x[2].listeners
                /\ x[1].accepted /\ [kind |-> x[1].kind, name |-> x[1].name] \in r.parents
                /\ x[1].kind = x[2].kind /\ x[1].name = x[2].name
                /\ c.flags.gatewayName \in {"", x[2].gateway.name}
                /\ x[1].section \in {"", x[3].name}
                /\ x[1].port \in {0, x[3].port}
                /\ gwProtocolMatches(r.protocol, x[3].protocol)
                /\ AllowsFrom(c, x[3].from, x[3].selector, x[2].ns, r.ns)
                /\ x[3].kinds = {} \/ r.kind \in x[3].kinds}}

EndpointsOfRoute(c, r) ==
  LET served(a) == UNION {gwMatchingHost(c, a.listener.host, h) : h \in RouteHosts(c, r)} \ {""}
      targets(a) == IF a.obj.overrides # {} THEN a.obj.overrides ELSE a.obj.gateway.addresses
      attachments == Attachments(c, r)
      all(h) == UNION {targets(a) : a \in {x \in attachments : h \in served(x)}}
  IN  IF UsesTemplate(c, r) /\ r.tmpl.err THEN Failed
      ELSE Ok(UNION {EndpointsForHostname(h, all(h), r.ttl) : h \in UNION {served(a) : a \in attachments}})
GatewayRouteEndpoints(c) == Collect({EndpointsOfRoute(c, r) : r \in Matching(c.routes)})
=============================================================================
