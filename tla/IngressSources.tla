--------------------------- MODULE IngressSources ---------------------------
(***************************************************************************)
(* The sources for kinds that name their hosts and carry their targets, or *)
(* a reference to one load balancer: Ingress, Kong TCPIngress, Contour     *)
(* HTTPProxy, OpenShift Route, Skipper RouteGroup, Traefik's routes, F5    *)
(* VirtualServer and TransportServer, Ambassador Host, DNSEndpoint and     *)
(* arbitrary kinds with templates.  The objects have the fields specHosts  *)
(* (the hosts of the rules), status (targets in the status) and more.      *)
(***************************************************************************)
EXTENDS SourceEndpoints

AnnotatedHosts(c, o) == IF c.flags.ignoreHostnameAnnotation THEN {} ELSE o.hosts

(* The targets and the endpoints of an object for the hosts it names, and  *)
(* for the hosts a template gives it.                                      *)
EndpointsOfObject(c, o, hosts, others) ==
  LET forName(h) == EndpointsForHostname(h, TargetsOr(o, others), o.ttl)
  IN  CombineWithEndpoints(c.flags, UNION {forName(h) : h \in hosts},
        ExecFQDN(o, [h \in o.tmpl.hosts |-> forName(h)]))

(* Without templates.                                                      *)
OnlyObject(o, hosts, others) == Ok(EndpointsForHosts(hosts, TargetsOr(o, others), o.ttl))

-----------------------------------------------------------------------------
(* Ingress: the hosts of rules and TLS sections, of the annotation, or of  *)
(* one of the two.                                                         *)
filterByIngressClass(c, ings) ==
  {i \in ings : c.flags.ingressClasses = {}
                \/ (IF i.className # "" THEN i.className ELSE i.classAnnotation)
                     \in c.flags.ingressClasses}

IngressHosts(c, i) ==
  LET defined == (IF c.flags.ignoreIngressRulesSpec THEN {} ELSE i.specHosts)
                   \union IF c.flags.ignoreIngressTLSSpec THEN {} ELSE i.tlsHosts
  IN  CASE i.hostnameSource = "" -> defined \union AnnotatedHosts(c, i)
        [] i.hostnameSource = "defined-hosts-only" -> defined
        [] i.hostnameSource = "annotation-only" -> AnnotatedHosts(c, i)
        [] OTHER -> {}

IngressEndpoints(c) ==
  Collect({EndpointsOfObject(c, i, IngressHosts(c, i), i.status)
             : i \in filterByIngressClass(c, Matching(c.ingresses))})

KongTCPIngressEndpoints(c) ==
  Collect({OnlyObject(i, i.specHosts \union AnnotatedHosts(c, i), i.status) : i \in c.tcpingresses})

ContourHTTPProxyEndpoints(c) ==
  Collect({EndpointsOfObject(c, h, h.specHosts \union AnnotatedHosts(c, h), h.status)
             : h \in Matching(c.httpproxies)})

(* OpenShift: the first router that has admitted the route, or the         *)
(* configured one; o.routers is a sequence of [name, admitted, canonical,  *)
(* host].                                                                  *)
RouterOf(c, o) ==
  LET admitted == {i \in DOMAIN o.routers :
                     /\ o.routers[i].admitted /\ o.routers[i].canonical # ""
                     /\ c.flags.ocpRouterName \in {"", o.routers[i].name}}
  IN  {o.routers[i] : i \in {j \in admitted : \A k \in admitted : j <= k}}

OpenShiftRouteEndpoints(c) ==
  Collect({EndpointsOfObject(c, o, {r.host : r \in RouterOf(c, o)} \union AnnotatedHosts(c, o),
                             {r.canonical : r \in RouterOf(c, o)})
             : o \in Matching(c.routes)})

(* Skipper: the list is fetched from the API server in every run.          *)
SkipperRouteGroupEndpoints(c) ==
  IF c.fail THEN Failed
  ELSE Collect({EndpointsOfObject(c, r, r.specHosts \union AnnotatedHosts(c, r), r.status)
                  : r \in Matching(c.routegroups)})

(* Traefik: targets come from the annotation only; UDP routes have no      *)
(* hosts, and "*" is none.                                                 *)
EndpointsOfTraefik(c, r) ==
  LET hosts == AnnotatedHosts(c, r) \union IF r.kind = "udp" THEN {} ELSE r.specHosts \ {"*"}
  IN  ApplyTemplates(c.flags, EndpointsForHosts(hosts, r.targets, r.ttl), r)
TraefikEndpoints(c) ==
  Collect({EndpointsOfTraefik(c, r)
             : r \in c.ingressroutes \union c.ingressroutetcps \union c.ingressrouteudps})

(* F5: an object counts once its status has an address.                    *)
EndpointsOfF5(c, v, hosts) ==
  LET valid == v.status \notin {{}, {"none"}}
      targets == TargetsOr(v, IF v.address # {} THEN v.address ELSE v.status)
  IN  ApplyTemplates(c.flags, IF valid THEN EndpointsForHosts(hosts, targets, v.ttl) ELSE {}, v)
F5VirtualServerEndpoints(c) ==
  Collect({EndpointsOfF5(c, v, v.specHosts \union v.aliases) : v \in c.virtualservers})
F5TransportServerEndpoints(c) ==
  Collect({EndpointsOfF5(c, v, v.specHosts) : v \in c.transportservers})

(* Ambassador: the service is fetched from the API server; a host without  *)
(* one, or for which that fails, is left out.                              *)
AmbassadorHostEndpoints(c) ==
  LET services(h) == {s \in c.services : s.name = h.service}
      lb(h) == UNION {IF s.externalIPs # {} THEN s.externalIPs ELSE s.lb : s \in services(h)}
      usable(h) == h.service # "" /\ (h.targets # {} \/ (~c.fail /\ services(h) # {}))
  IN  Collect({OnlyObject(h, h.specHosts, lb(h)) : h \in {x \in c.ambassadorhosts : usable(x)}})

(* DNSEndpoint objects: their endpoints, without those with a target that  *)
(* ends with a dot where it must not, or the reverse (legal is FALSE).     *)
CRDEndpoints(c) ==
  Ok(MergeEndpoints(UNION {{e.ep : e \in {x \in d.endpoints : x.legal}} : d \in c.dnsendpoints}))

(* Any kind, by annotations and templates; every kind is merged by itself  *)
(* and the TTL is that of the object.                                      *)
EndpointsOfUnstructured(c, o) ==
  LET result == ApplyTemplates(c.flags, EndpointsForHosts(o.hosts, o.targets, 0), o)
  IN  [result EXCEPT !.eps = {[e EXCEPT !.ttl = IF @ = 0 THEN o.ttl ELSE @] : e \in @}]
UnstructuredEndpoints(c) ==
  LET ofKind(k) == Collect({EndpointsOfUnstructured(c, o) : o \in Matching(c[k])})
      results == {ofKind("things"), ofKind("others")}
  IN  IF \E r \in results : r.err THEN Failed ELSE Ok(UNION {r.eps : r \in results})
=============================================================================
