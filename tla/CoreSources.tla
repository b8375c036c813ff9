----------------------------- MODULE CoreSources -----------------------------
(***************************************************************************)
(* The sources for the kinds of Kubernetes itself: services, nodes and     *)
(* pods (source/service.go, compatibility.go, node.go, pod.go).            *)
(* Pods are [name, svcs (whose selectors match), hostname, node, ip, ips,  *)
(* hostIP, hostNetwork, running, ready, terminating, ...], nodes [name,    *)
(* addrs (pairs of type and address), unschedulable, worker, ...],         *)
(* endpoint slices [svc, fqdn, addrs (endpoints: [pod, ready, addr])].     *)
(***************************************************************************)
EXTENDS SourceEndpoints

Addresses(node, type) == {a[2] : a \in {x \in node.addrs : x[1] = type}}
IPv6(addrs) == {a \in addrs : SuitableType(a) = "AAAA"}
Get(objs, name) == {o \in objs : o.name = name}  \* Lister().Get: one object or none

-----------------------------------------------------------------------------
PublishPodIPs(c, svc) ==
  svc.endpointsType \notin {"NodeExternalIP", "HostIP"} /\ ~c.flags.publishHostIP

(* Headless services: pods of the slices, unless they are not ready or not *)
(* in the cache.                                                           *)
ReadyAddresses(c, svc) ==
  {a \in UNION {s.addrs : s \in {x \in c.slices : x.svc = svc.name /\ ~(x.fqdn /\ PublishPodIPs(c, svc))}} :
     a.ready \/ svc.publishNotReady \/ c.flags.alwaysPublishNotReady}

getTargetsForDomain(c, svc, pod, addr) ==
  TargetsOr(pod,
    CASE svc.endpointsType = "NodeExternalIP" ->
           UNION {Addresses(n, "ExternalIP") \union
                  IF c.flags.exposeInternalIPv6 THEN IPv6(Addresses(n, "InternalIP")) ELSE {}
                    : n \in Get(c.nodes, pod.node)}
      [] svc.endpointsType = "HostIP" \/ c.flags.publishHostIP -> {pod.hostIP}
      [] OTHER -> {addr})

extractHeadlessEndpoints(c, svc, host) ==
  LET backends == {b \in c.pods \X ReadyAddresses(c, svc) : b[1].name = b[2].pod /\ svc.name \in b[1].svcs}
      Domains(p) == {host} \union IF p.hostname = "" THEN {} ELSE {p.hostname \o "." \o host}
      Targets(d) == UNION {getTargetsForDomain(c, svc, b[1], b[2].addr)
                             : b \in {x \in backends : d \in Domains(x[1])}}
  IN  UNION {EndpointsForHostname(d, Targets(d), svc.ttl)
               : d \in UNION {Domains(b[1]) : b \in backends}}

(* Node ports with local traffic policy: the nodes with the best running   *)
(* pods, ready ones before terminating ones before those not ready.        *)
Priority(p) == IF ~p.ready THEN 1 ELSE IF p.terminating THEN 2 ELSE 3
nodesExternalTrafficPolicyTypeLocal(c, svc) ==
  LET onNodes == {b \in {p \in c.pods : p.running /\ svc.name \in p.svcs} \X c.nodes :
                    b[1].node = b[2].name}
  IN  {b[2] : b \in {x \in onNodes : \A y \in onNodes : Priority(x[1]) >= Priority(y[1])}}

extractNodePortTargets(c, svc) ==
  LET candidates == IF svc.policy = "Local"
                    THEN nodesExternalTrafficPolicyTypeLocal(c, svc) ELSE c.nodes
      nodes == {n \in candidates : ~(n.unschedulable /\ c.flags.excludeUnschedulable)}
      external == UNION {Addresses(n, "ExternalIP") : n \in nodes}
      internal == UNION {Addresses(n, "InternalIP") : n \in nodes}
      public == external \union IF c.flags.exposeInternalIPv6 THEN IPv6(internal) ELSE {}
  IN  IF svc.access = "public" \/ (svc.access # "private" /\ external # {})
      THEN public ELSE internal

extractNodePortEndpoints(svc, host) ==
  {Endpoint("_" \o svc.name \o "._" \o p[1] \o "." \o host, "SRV", svc.ttl, {p[2] \o " " \o host})
     : p \in svc.ports}

extractServiceIps(svc) == IF svc.clusterIP = "None" THEN {} ELSE {svc.clusterIP}

(* A load balancer's addresses and host names; the names may have to be    *)
(* resolved, and one that cannot be is left out.                           *)
extractLoadBalancerTargets(c, svc, resolve) ==
  IF svc.externalIPs # {} THEN svc.externalIPs
  ELSE LET names == {t \in svc.lb : SuitableType(t) = "CNAME"}
           found == IF c.fail THEN {} ELSE UNION {c.flags.lookup[n] : n \in names}
       IN  IF resolve THEN (svc.lb \ names) \union found ELSE svc.lb

generateEndpoints(c, svc, host, useClusterIP) ==
  LET own == svc.targets = {}
      headless == svc.type = "ClusterIP" /\ svc.clusterIP = "None"
      targets ==
        CASE svc.type = "LoadBalancer" /\ useClusterIP -> extractServiceIps(svc)
          [] svc.type = "LoadBalancer" /\ ~useClusterIP ->
               extractLoadBalancerTargets(c, svc, c.flags.resolveLoadBalancerHostname)
          [] svc.type = "ClusterIP" ->
               IF useClusterIP \/ c.flags.publishInternal THEN extractServiceIps(svc) ELSE {}
          [] svc.type = "NodePort" -> extractNodePortTargets(c, svc)
          [] OTHER -> IF svc.externalIPs # {} THEN svc.externalIPs ELSE {svc.externalName}
  IN  (IF own /\ headless THEN extractHeadlessEndpoints(c, svc, host) ELSE {})
        \union (IF own /\ svc.type = "NodePort" THEN extractNodePortEndpoints(svc, host) ELSE {})
        \union EndpointsForHostname(host, TargetsOr(svc, targets), svc.ttl)

(* legacyEndpointsFromService: one endpoint per target, without TTL.       *)
OnePerTarget(hosts, tgts) ==
  {Endpoint(ht[1], SuitableType(ht[2]), 0, {ht[2]}) : ht \in hosts \X tgts}
legacyLoadBalancer(hosts, svc) ==
  {[e EXCEPT !.type = IF @ = "CNAME" THEN @ ELSE "A"] : e \in OnePerTarget(hosts, svc.lb)}
legacyNodePort(c, svc) ==
  LET external == svc.kopsExternal # {} /\ svc.kopsInternal = {}
      internal == svc.kopsInternal # {} /\ svc.kopsExternal = {}
      addrs(n) ==
        IF external
        THEN Addresses(n, "ExternalIP") \union
             IF c.flags.exposeInternalIPv6 THEN IPv6(Addresses(n, "InternalIP")) ELSE {}
        ELSE Addresses(n, "InternalIP")
  IN  IF external \/ internal
      THEN OnePerTarget(svc.kopsExternal \union svc.kopsInternal,
                        UNION {addrs(n) : n \in {x \in c.nodes : x.worker}})
      ELSE {}
legacyEndpointsFromService(c, svc) ==
  CASE c.flags.compatibility = "mate" -> legacyLoadBalancer(svc.mate, svc)
    [] c.flags.compatibility = "molecule" -> legacyLoadBalancer(svc.molecule, svc)
    [] c.flags.compatibility = "kops-dns-controller" /\ svc.type = "NodePort" -> legacyNodePort(c, svc)
    [] c.flags.compatibility = "kops-dns-controller" /\ svc.type = "LoadBalancer" ->
         legacyLoadBalancer(svc.kopsExternal \union svc.kopsInternal, svc)
    [] OTHER -> {}

EndpointsOfService(c, svc) ==
  LET annotated ==
        IF c.flags.ignoreHostnameAnnotation THEN {}
        ELSE UNION {generateEndpoints(c, svc, h, FALSE) : h \in svc.hosts}
               \union UNION {generateEndpoints(c, svc, h, TRUE) : h \in svc.internalHosts}
      eps == IF annotated # {} THEN annotated ELSE legacyEndpointsFromService(c, svc)
      templated == [h \in svc.tmpl.hosts |-> generateEndpoints(c, svc, h, FALSE)]
      result == BothTemplates(c.flags, eps, svc, templated)
  IN  [err |-> result.err, eps |-> {[ep |-> e, rank |-> svc.rank] : e \in result.eps}]

(* Endpoints of serviceSource: endpoints for the same name and type become *)
(* one, with the TTL of the first service by name (rank).                  *)
MergeServices(S) ==
  LET Same(x) == {y \in S : y.ep.name = x.ep.name /\ y.ep.type = x.ep.type}
      First(x) == CHOOSE y \in Same(x) : \A z \in Same(x) : y.rank <= z.rank
  IN  {IF x.ep.type = "CNAME" THEN x.ep
       ELSE [First(x).ep EXCEPT !.tgts = UNION {y.ep.tgts : y \in Same(x)}] : x \in S}
Processed(types, svcs) == {s \in Matching(svcs) : types = {} \/ s.type \in types}
ServiceEndpoints(c) ==
  LET results == {EndpointsOfService(c, s) : s \in Processed(c.flags.serviceTypes, c.services)}
  IN  IF \E r \in results : r.err THEN Failed
      ELSE Ok(MergeEndpoints(MergeServices(UNION {r.eps : r \in results})))

-----------------------------------------------------------------------------
(* Nodes.  One without an address is an error for the whole source.        *)
nodeAddresses(c, n) ==
  IF Addresses(n, "ExternalIP") # {}
  THEN Addresses(n, "ExternalIP") \union
       IF c.flags.exposeInternalIPv6 THEN IPv6(Addresses(n, "InternalIP")) ELSE {}
  ELSE Addresses(n, "InternalIP")

EndpointsOfNode(c, n) ==
  LET targets == TargetsOr(n, nodeAddresses(c, n))
      forName(h) == EndpointsForHostname(h, targets, n.ttl)
      named == ~c.flags.template \/ c.flags.combine
      first == ApplyFQDNTargetTemplate(c.flags, IF named THEN forName(n.name) ELSE {}, n)
  IN  IF first.err \/ (named /\ targets = {}) THEN Failed
      ELSE CombineWithEndpoints(c.flags, first.eps,
             IF targets = {} THEN Failed ELSE ExecFQDN(n, [h \in n.tmpl.hosts |-> forName(h)]))

NodeEndpoints(c) ==
  Collect({EndpointsOfNode(c, n)
             : n \in {x \in Matching(c.nodes) : ~(x.unschedulable /\ c.flags.excludeUnschedulable)}})

-----------------------------------------------------------------------------
(* Pods, at the addresses of their nodes if these are in the cache.        *)
NodeTargets(c, pod) ==
  UNION {Addresses(n, "ExternalIP") \union IPv6(Addresses(n, "InternalIP"))
           : n \in Get(c.nodes, pod.node)}

PodAnnotations(c, p) ==
  LET kops == c.flags.compatibility = "kops-dns-controller"
      domain == IF c.flags.podSourceDomain = "" THEN {} ELSE {p.name \o "." \o c.flags.podSourceDomain}
  IN  IF c.flags.ignoreNonHostNetworkPods /\ ~p.hostNetwork THEN {}
      ELSE MergeEndpoints(
             EndpointsForHosts(p.internalHosts, TargetsOr(p, {p.ip}), p.ttl)
               \union EndpointsForHosts(p.hosts, TargetsOr(p, NodeTargets(c, p)), p.ttl)
               \union (IF kops THEN EndpointsForHosts(p.kopsInternal, {p.ip}, p.ttl)
                                      \union EndpointsForHosts(p.kopsExternal, NodeTargets(c, p), p.ttl)
                       ELSE {})
               \union EndpointsForHosts(domain, TargetsOr(p, {p.ip}), p.ttl))

PodEndpoints(c) ==
  LET templated(p) == [h \in p.tmpl.hosts |-> EndpointsForHostname(h, p.ips, p.ttl)]
  IN  Collect({BothTemplates(c.flags, PodAnnotations(c, p), p, templated(p))
                 : p \in Matching(c.pods)})
=============================================================================
