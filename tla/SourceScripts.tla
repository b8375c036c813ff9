---------------------------- MODULE SourceScripts ----------------------------
(***************************************************************************)
(* Clusters for the sources, and the way they change: for every source a   *)
(* sequence of states of the cluster, each of which differs from the one   *)
(* before in the objects of one kind.                                      *)
(***************************************************************************)
EXTENDS Integers, Sequences, FiniteSets, TLC

V4 == {"a1", "a2", "a3", "n1", "n2", "i1", "nat", "bad"}
V6 == {"six", "six64"}

DefaultTargets == {"a3"}
ForceDefaultTargets == FALSE
NAT64 == [t \in {"six64"} |-> "nat"]
FilteredTargets == {"bad"}
Reverse == [t \in V4 \union V6 |-> t \o ".arpa"]
Wildcards == {"*.foo"}
MinTTL == 30

Core == INSTANCE CoreSources
Ing  == INSTANCE IngressSources
Gw   == INSTANCE GatewaySources
Wrap == INSTANCE SourceEndpoints

-----------------------------------------------------------------------------
(* Objects: what is not given has a value that says nothing.               *)
NoTemplate == [err |-> FALSE, hosts |-> {}, targets |-> {}, pairs |-> {}]
Blank ==
  [ours |-> TRUE, hosts |-> {}, targets |-> {}, ttl |-> 0, tmpl |-> NoTemplate,
   name |-> "", ns |-> "", kind |-> "", specHosts |-> {}, status |-> {}, service |-> "",
   \* services, slices, pods and nodes
   rank |-> 0, type |-> "LoadBalancer", clusterIP |-> "None", externalIPs |-> {}, lb |-> {},
   externalName |-> "", policy |-> "Cluster", access |-> "", endpointsType |-> "",
   publishNotReady |-> FALSE, ports |-> {}, internalHosts |-> {}, mate |-> {}, molecule |-> {},
   kopsExternal |-> {}, kopsInternal |-> {}, selects |-> {},
   svc |-> "", fqdn |-> FALSE, addrs |-> {},
   svcs |-> {}, hostname |-> "", node |-> "", ip |-> "", ips |-> {}, hostIP |-> "",
   hostNetwork |-> TRUE, running |-> TRUE, ready |-> TRUE, terminating |-> FALSE,
   unschedulable |-> FALSE, worker |-> TRUE,
   \* ingresses and the like
   tlsHosts |-> {}, className |-> "", classAnnotation |-> "", hostnameSource |-> "",
   routers |-> <<>>, address |-> {}, aliases |-> {}, endpoints |-> {},
   \* gateways, routes and proxies
   selector |-> "", ingress |-> "", servers |-> {}, gateways |-> {}, exportTo |-> {},
   vhosts |-> {}, listeners |-> {}, parent |-> "", accepted |-> TRUE, acceptedListeners |-> {},
   allowFrom |-> "None", allowSelector |-> "", labels |-> {}, parents |-> {},
   protocol |-> "HTTP", addresses |-> {}]
O(fields) == fields @@ Blank

Flags ==
  [template |-> FALSE, combine |-> FALSE, ignoreHostnameAnnotation |-> FALSE,
   alwaysPublishNotReady |-> FALSE, exposeInternalIPv6 |-> TRUE, publishHostIP |-> FALSE,
   excludeUnschedulable |-> TRUE, resolveLoadBalancerHostname |-> FALSE,
   lookup |-> [n \in {"lb"} |-> {"a1", "a2"}], publishInternal |-> FALSE,
   compatibility |-> "", serviceTypes |-> {}, podSourceDomain |-> "",
   ignoreNonHostNetworkPods |-> FALSE, ingressClasses |-> {},
   ignoreIngressRulesSpec |-> FALSE, ignoreIngressTLSSpec |-> FALSE, ocpRouterName |-> "",
   gatewayName |-> "", under |-> [p \in {"*.foo"} |-> {"bar.foo", "baz.foo"}]]

AllKinds ==
  {"services", "slices", "pods", "nodes", "ingresses", "tcpingresses", "httpproxies", "routes",
   "routegroups", "ingressroutes", "ingressroutetcps", "ingressrouteudps", "virtualservers",
   "transportservers", "ambassadorhosts", "dnsendpoints", "things", "others", "gateways",
   "virtualservices", "proxies", "listenersets", "namespaces"}

(* The clusters that begin without objects and change by one step each.    *)
Path(flags, steps) ==
  LET world[i \in 1..Len(steps) + 1] ==
        IF i = 1 THEN [k \in AllKinds |-> {}] @@ [flags |-> flags @@ Flags, fail |-> FALSE]
        ELSE steps[i - 1] @@ world[i - 1]
  IN  world
NoFlags == [fail |-> FALSE]

-----------------------------------------------------------------------------
(* Services.  Two share a name with different TTLs, one is not ours.       *)
LB1(lb) == O([name |-> "web", rank |-> 1, hosts |-> {"foo"}, lb |-> lb, ttl |-> 60])
LB2 == O([name |-> "web2", rank |-> 2, hosts |-> {"foo", "bar"}, lb |-> {"a2", "six"}])
LB3 == O([name |-> "web3", rank |-> 3, hosts |-> {"bar"}, lb |-> {"a3"}, ours |-> FALSE])
LoadBalancers ==
  Path([template |-> TRUE, combine |-> TRUE],
       <<[services |-> {LB1({"a1"})}],
         [services |-> {LB1({"a1"}), LB2}],
         [services |-> {LB1({"a3"}), LB2}],
         [services |-> {LB1({"a3"}), LB2, LB3}],
         [services |-> {LB1({"a3"}) , [LB2 EXCEPT !.externalIPs = {"a1"}, !.tmpl.hosts = {"baz"}]}],
         [services |-> {LB1({"lb"})}]>>)

Lookup ==
  Path([resolveLoadBalancerHostname |-> TRUE],
       <<[services |-> {LB1({"lb"})}], [services |-> {LB1({"lb"}), LB2}]>>)

(* A headless service with two pods behind a slice.                        *)
Pod(p, addr) == O([name |-> p, hostname |-> p, svcs |-> {"db"}, node |-> "n1", ip |-> addr, hostIP |-> "n1"])
Slice(addrs) == O([svc |-> "db", addrs |-> addrs])
At(p, addr, ready) == [pod |-> p, addr |-> addr, ready |-> ready]
DB == O([name |-> "db", rank |-> 1, type |-> "ClusterIP", hosts |-> {"db"}])
Headless ==
  Path(NoFlags,
       <<[services |-> {DB}],
         [pods |-> {Pod("p1", "a1")}],
         [slices |-> {Slice({At("p1", "a1", TRUE)})}],
         [pods |-> {Pod("p1", "a1"), Pod("p2", "a2")}],
         [slices |-> {Slice({At("p1", "a1", FALSE), At("p2", "a2", TRUE)})}]>>)

(* A node port that follows its pods.                                      *)
Node(n, addrs) == O([name |-> n, addrs |-> addrs])
NodeA == Node("na", {<<"ExternalIP", "n1">>, <<"InternalIP", "six">>})
NodeB == Node("nb", {<<"ExternalIP", "n2">>})
On(p, n) == O([name |-> p, svcs |-> {"np"}, node |-> n])
NodePortService ==
  O([name |-> "np", rank |-> 1, type |-> "NodePort", hosts |-> {"np"}, policy |-> "Local",
     ports |-> {<<"tcp", "80">>}])
NodePort ==
  Path(NoFlags,
       <<[nodes |-> {NodeA}], [services |-> {NodePortService}], [pods |-> {On("p1", "na")}],
         [nodes |-> {NodeA, NodeB}], [pods |-> {[On("p1", "na") EXCEPT !.ready = FALSE], On("p2", "nb")}],
         [pods |-> {On("p2", "nb")}]>>)

(* The compatibility modes.                                                *)
Legacy(mode, svc) ==
  Path([compatibility |-> mode],
       <<[nodes |-> {NodeA}],
         [services |-> {O(svc @@ [name |-> "old", rank |-> 1, lb |-> {"a1", "a2"}])}],
         [nodes |-> {NodeA, NodeB}]>>)

(* Nodes, one of which loses its address.                                  *)
NodesScript ==
  Path(NoFlags,
       <<[nodes |-> {NodeA}], [nodes |-> {NodeA, NodeB}],
         [nodes |-> {NodeA, [NodeB EXCEPT !.addrs = {}]}],
         [nodes |-> {[NodeA EXCEPT !.unschedulable = TRUE], [NodeB EXCEPT !.targets = {"lb"}]}]>>)

PodsScript ==
  LET pod(p, ip, n) == O([name |-> p, hosts |-> {"foo"}, internalHosts |-> {"bar"}, kopsExternal |-> {"foo"},
                          ip |-> ip, node |-> n])
  IN  Path([podSourceDomain |-> "pods", compatibility |-> "kops-dns-controller"],
           <<[nodes |-> {NodeA}], [pods |-> {pod("p1", "a1", "na")}], [nodes |-> {NodeA, NodeB}],
             [pods |-> {pod("p1", "a1", "na"), pod("p2", "a2", "nb")}], [pods |-> {pod("p2", "a2", "nb")}]>>)

-----------------------------------------------------------------------------
(* Objects with hosts and targets of their own: two of them share a host,  *)
(* one is changed, one is deleted.                                         *)
One == O([name |-> "one", specHosts |-> {"foo"}, hosts |-> {"bar"}, status |-> {"a1"}, ttl |-> 60])
Two == O([name |-> "two", specHosts |-> {"foo", "baz"}, status |-> {"a2", "lb"}])
Three == O([name |-> "three", specHosts |-> {"foo"}, status |-> {"a3"}, ttl |-> 60])
Shared(k, one, two, three) ==
  Path(NoFlags,
       <<k :> {one}, k :> {one, two}, k :> {one, two, three},
         k :> {[one EXCEPT !.status = {"a2"}], two, three},
         k :> {two, three}>>)
ByStatus(k) == Shared(k, One, Two, Three)
ByTarget(k, kind) ==
  LET with(o) == [o EXCEPT !.kind = kind, !.targets = o.status] IN Shared(k, with(One), with(Two), with(Three))

Ingresses ==
  Path([ingressClasses |-> {"ours", "old"}],
       <<[ingresses |-> {[One EXCEPT !.className = "ours"]}],
         [ingresses |-> {[One EXCEPT !.className = "ours"], [Two EXCEPT !.classAnnotation = "old", !.tlsHosts = {"tls"}]}],
         [ingresses |-> {[One EXCEPT !.className = "ours", !.hostnameSource = "annotation-only"],
                         [Two EXCEPT !.className = "other"], [Three EXCEPT !.className = "old"]}]>>)

(* A template that fails for one object.                                   *)
Templated ==
  LET of(o, t) == [o EXCEPT !.tmpl = t]
      hosts == [NoTemplate EXCEPT !.hosts = {"tmpl"}]
  IN  Path([template |-> TRUE],
           <<[ingresses |-> {of(O([name |-> "three", status |-> {"a3"}]), hosts)}],
             [ingresses |-> {of(One, hosts), of(O([name |-> "three", status |-> {"a3"}]), hosts)}],
             [ingresses |-> {of(One, hosts), of(O([name |-> "three"]), [NoTemplate EXCEPT !.err = TRUE])}],
             [ingresses |-> {of(One, hosts)}]>>)

Router(name, admitted) == [name |-> name, admitted |-> admitted, canonical |-> "lb-" \o name, host |-> "foo"]
OpenShift ==
  LET route(routers) == O([name |-> "r", routers |-> routers, hosts |-> {"bar"}])
  IN  Path(NoFlags,
           <<[routes |-> {route(<<Router("x", TRUE)>>)}],
             [routes |-> {route(<<Router("x", FALSE), Router("y", TRUE)>>)}],
             [routes |-> {route(<<Router("x", TRUE), Router("y", TRUE)>>), O([name |-> "s", hosts |-> {"foo"}, targets |-> {"a1"}])}]>>)

Ambassador ==
  LET web(lb) == O([name |-> "web", lb |-> lb])
      host(h) == O([name |-> h, specHosts |-> {h}, service |-> "web"])
  IN  Path(NoFlags,
           <<[ambassadorhosts |-> {host("foo")}], [services |-> {web({"a1"})}],
             [ambassadorhosts |-> {host("foo"), [host("bar") EXCEPT !.targets = {"a3"}]}],
             [services |-> {web({"a1", "lb"})}]>>)

Record(name, type, ttl, tgts, legal) ==
  [ep |-> [name |-> name, type |-> type, ttl |-> ttl, tgts |-> tgts], legal |-> legal]
DNSEndpoints ==
  Path(NoFlags,
       <<[dnsendpoints |-> {O([name |-> "d", endpoints |-> {Record("foo", "A", 60, {"a1"}, TRUE)}])}],
         [dnsendpoints |-> {O([name |-> "d", endpoints |-> {Record("foo", "A", 60, {"a1"}, TRUE)}]),
                            O([name |-> "e", endpoints |-> {Record("foo", "A", 60, {"a2"}, TRUE), Record("txt", "TXT", 0, {"t"}, TRUE),
                                                           Record("bar", "CNAME", 0, {"lb."}, FALSE)}])}],
         [dnsendpoints |-> {O([name |-> "e", endpoints |-> {Record("foo", "A", 60, {"a2"}, TRUE)}])}]>>)

Anything ==
  LET thing(n, t) == O([name |-> n, hosts |-> {"foo"}, targets |-> {t}, ttl |-> 60,
                        tmpl |-> [NoTemplate EXCEPT !.hosts = {"tmpl"}, !.targets = {t}, !.pairs = {<<"pair", t>>, <<"pair", "six">>}]])
  IN  Path([template |-> TRUE, combine |-> TRUE],
           <<[things |-> {thing("t", "a1")}], [others |-> {thing("o", "a2")}],
             [things |-> {thing("t", "a1"), thing("u", "a3")}]>>)

-----------------------------------------------------------------------------
(* Gateways and what refers to them.                                       *)
Server(ns, host) == [ns |-> ns, host |-> host]
Gate(f) == O(f @@ [name |-> "gw", ns |-> "infra"])
Balancer(n, lb) == O([name |-> n, lb |-> lb, selects |-> {n}])
IstioGateways ==
  LET gate(selector) == Gate([selector |-> selector, servers |-> {Server("*", "foo"), Server("*", "*")}])
      other == O([name |-> "two", targets |-> {"lb"}, servers |-> {Server("*", "bar")}])
  IN  Path(NoFlags,
           <<[gateways |-> {gate("old")}], [services |-> {Balancer("old", {"a1"})}],
             [gateways |-> {gate("old"), other}],
             [services |-> {Balancer("old", {"a1"}), Balancer("new", {"a2", "six"})}],
             [gateways |-> {gate("new"), other}]>>)
IstioIngress ==
  LET gate(i) == Gate([ingress |-> i, servers |-> {Server("*", "foo")}])
      ing(n, s) == O([name |-> n, status |-> s])
  IN  Path(NoFlags,
           <<[ingresses |-> {ing("in", {"a1"})}], [gateways |-> {gate("in")}],
             [ingresses |-> {ing("in", {"a1"}), ing("new", {"a2"})}], [gateways |-> {gate("new")}]>>)
VirtualServices ==
  LET gate(n) == O([name |-> n, ns |-> "infra", selector |-> "lb", servers |-> {Server("*", "*.foo"), Server("app", "baz")}])
      vs(gs) == O([name |-> "vs", ns |-> "app", specHosts |-> {"bar.foo", "baz"}, gateways |-> gs, exportTo |-> {"infra"}])
  IN  Path(NoFlags,
           <<[services |-> {Balancer("lb", {"a1"})}], [gateways |-> {gate("g1")}],
             [virtualservices |-> {vs({"g1"})}], [gateways |-> {gate("g1"), gate("g2")}],
             [virtualservices |-> {vs({"g2"})}]>>)
Gloo ==
  LET proxy(vs) == O([name |-> "proxy", gateways |-> {"gw"},
                      vhosts |-> {[domains |-> {"foo"}, source |-> v] : v \in vs}])
      vs(n, ttl) == O([name |-> n, ttl |-> ttl])
  IN  Path(NoFlags,
           <<[services |-> {O([name |-> "proxy", lb |-> {"a1"}])}], [gateways |-> {Gate([ingress |-> ""])}],
             [virtualservices |-> {vs("v1", 0)}], [proxies |-> {proxy({"v1"})}],
             [virtualservices |-> {vs("v1", 0), vs("v2", 60)}], [proxies |-> {proxy({"v1", "v2"})}]>>)

(* Routes of the Gateway API, through a gateway and a listener set.        *)
Listener(f) ==
  f @@ [name |-> "http", host |-> "", port |-> 80, protocol |-> "HTTP", from |-> "Selector",
        selector |-> "app", kinds |-> {}]
Parent(f) == f @@ [kind |-> "Gateway", name |-> "gw", section |-> "", port |-> 0, accepted |-> TRUE]
HTTPRoute(f) ==
  O(f @@ [name |-> "route", ns |-> "app", kind |-> "HTTPRoute", specHosts |-> {"bar.foo"},
          parents |-> {[kind |-> "Gateway", name |-> "gw"], [kind |-> "ListenerSet", name |-> "ls"]}])
Set == O([name |-> "ls", ns |-> "app", parent |-> "gw", targets |-> {"a2"},
          listeners |-> {Listener([name |-> "x", from |-> "Same"])}, acceptedListeners |-> {"x"}])
Routes ==
  LET gate(addrs) == Gate([addresses |-> addrs, allowFrom |-> "All",
                           listeners |-> {Listener([host |-> "*.foo"]), Listener([name |-> "tcp", protocol |-> "TCP", port |-> 1])}])
      viaGateway == HTTPRoute([status |-> {Parent([section |-> "http"])}])
      viaSet == HTTPRoute([status |-> {Parent([kind |-> "ListenerSet", name |-> "ls"])}])
      viaBoth == HTTPRoute([status |-> {Parent([port |-> 80]), Parent([kind |-> "ListenerSet", name |-> "ls"])}])
  IN  Path(NoFlags,
           <<[namespaces |-> {O([name |-> "app", labels |-> {"app"}])}],
             [routes |-> {viaGateway}], [gateways |-> {gate({"a1"})}],
             [listenersets |-> {Set}], [routes |-> {viaBoth}], [routes |-> {viaSet}]>>)

-----------------------------------------------------------------------------
(* Three sources through all wrappers.                                     *)
WrappedSources ==
  LET group(f) == O(f @@ [name |-> "rg", specHosts |-> {"bar"}, status |-> {"six64"}])
      endpoint(tgts) == O([name |-> "d", endpoints |-> {Record("bar", "A", 60, tgts, TRUE), Record("bare", "A", 0, {}, TRUE)}])
  IN  Path(NoFlags,
           <<[ingresses |-> {One}], [routegroups |-> {group(NoFlags)}],
             [dnsendpoints |-> {endpoint({"a1", "bad"})}],
             [ingresses |-> {One, [Two EXCEPT !.specHosts = {"foo", "*.foo"}]}],
             [dnsendpoints |-> {endpoint({"bad"})}]>>)

Sources ==
  {"loadbalancers", "lookup", "headless", "nodeport", "kops", "mate", "molecule", "node", "pod",
   "ingress", "template", "kong", "contour", "openshift", "skipper", "traefik", "traefik-tcp",
   "f5-vs", "f5-ts", "ambassador", "crd", "unstructured", "istio-gateway", "istio-ingress",
   "virtualservice", "gloo", "gateway-route", "wrapped"}

Scripts ==
  [s \in Sources |->
     CASE s = "loadbalancers" -> LoadBalancers
       [] s = "lookup" -> Lookup
       [] s = "headless" -> Headless
       [] s = "nodeport" -> NodePort
       [] s = "kops" -> Legacy("kops-dns-controller", [type |-> "NodePort", kopsExternal |-> {"foo"}])
       [] s = "mate" -> Legacy("mate", [mate |-> {"foo"}])
       [] s = "molecule" -> Legacy("molecule", [molecule |-> {"foo", "bar"}])
       [] s = "node" -> NodesScript
       [] s = "pod" -> PodsScript
       [] s = "ingress" -> Ingresses
       [] s = "template" -> Templated
       [] s = "kong" -> ByStatus("tcpingresses")
       [] s = "contour" -> ByStatus("httpproxies")
       [] s = "openshift" -> OpenShift
       [] s = "skipper" -> ByStatus("routegroups")
       [] s = "traefik" -> ByTarget("ingressroutes", "http")
       [] s = "traefik-tcp" -> ByTarget("ingressroutetcps", "tcp")
       [] s = "f5-vs" -> ByStatus("virtualservers")
       [] s = "f5-ts" -> ByStatus("transportservers")
       [] s = "ambassador" -> Ambassador
       [] s = "crd" -> DNSEndpoints
       [] s = "unstructured" -> Anything
       [] s = "istio-gateway" -> IstioGateways
       [] s = "istio-ingress" -> IstioIngress
       [] s = "virtualservice" -> VirtualServices
       [] s = "gloo" -> Gloo
       [] s = "gateway-route" -> Routes
       [] OTHER -> WrappedSources]

(* The kinds of objects a source looks at, those it does not cache, and    *)
(* those it makes endpoints of.                                            *)
Kinds ==
  [s \in Sources |-> {k \in AllKinds : \E i \in DOMAIN Scripts[s] : Scripts[s][i][k] # {}}]
Live ==
  [s \in Sources |-> IF s = "ambassador" THEN {"services"} ELSE {"routegroups"} \intersect Kinds[s]]
Primary ==
  [s \in Sources |->
  CASE s \in {"loadbalancers", "lookup", "headless", "nodeport", "kops", "mate", "molecule"} -> {"services"}
    [] s = "pod" -> {"pods"}
    [] s = "ambassador" -> {"ambassadorhosts"}
    [] s \in {"istio-gateway", "istio-ingress"} -> {"gateways"}
    [] s = "virtualservice" -> {"virtualservices"}
    [] s = "gloo" -> {"proxies"}
    [] s = "gateway-route" -> {"routes"}
    [] OTHER -> Kinds[s]]

(* The sources that make calls that may fail, those that one object may    *)
(* stop for all others, and those that drop a name while their caches      *)
(* disagree or a call fails.                                               *)
CallsOut == {"lookup", "skipper", "ambassador", "wrapped"}
StoppedByOne == {"node", "template"}
Withdraws ==
  {"lookup", "headless", "nodeport", "pod", "ambassador", "istio-gateway", "virtualservice", "gateway-route"}

(* What a source may return for a cluster.                                 *)
Results(s, c) ==
  CASE s \in {"loadbalancers", "lookup", "headless", "nodeport", "kops", "mate", "molecule"} ->
         {Core!ServiceEndpoints(c)}
    [] s = "node" -> {Core!NodeEndpoints(c)}
    [] s = "pod" -> {Core!PodEndpoints(c)}
    [] s \in {"ingress", "template"} -> {Ing!IngressEndpoints(c)}
    [] s = "kong" -> {Ing!KongTCPIngressEndpoints(c)}
    [] s = "contour" -> {Ing!ContourHTTPProxyEndpoints(c)}
    [] s = "openshift" -> {Ing!OpenShiftRouteEndpoints(c)}
    [] s = "skipper" -> {Ing!SkipperRouteGroupEndpoints(c)}
    [] s \in {"traefik", "traefik-tcp"} -> {Ing!TraefikEndpoints(c)}
    [] s = "f5-vs" -> {Ing!F5VirtualServerEndpoints(c)}
    [] s = "f5-ts" -> {Ing!F5TransportServerEndpoints(c)}
    [] s = "ambassador" -> {Ing!AmbassadorHostEndpoints(c)}
    [] s = "crd" -> {Ing!CRDEndpoints(c)}
    [] s = "unstructured" -> {Ing!UnstructuredEndpoints(c)}
    [] s \in {"istio-gateway", "istio-ingress"} -> {Gw!IstioGatewayEndpoints(c)}
    [] s = "virtualservice" -> {Gw!IstioVirtualServiceEndpoints(c)}
    [] s = "gloo" -> {Gw!GlooProxyEndpoints(c)}
    [] s = "gateway-route" -> {Gw!GatewayRouteEndpoints(c)}
    [] OTHER -> Wrap!WrapSources({Ing!IngressEndpoints(c), Ing!CRDEndpoints(c), Ing!SkipperRouteGroupEndpoints(c)})
=============================================================================
