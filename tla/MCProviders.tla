---------------------------- MODULE MCProviders ----------------------------
(* Two names in one zone and one in another; "foo" has a record of a type  *)
(* that is not managed, except with DNSimple, which would take it for its  *)
(* own (README, deviations).                                               *)
EXTENDS ProviderLoop, SingleRecordProviders, RecordSetProviders, BatchProviders

MCProviderSet == {"linode", "civo", "dnsimple", "gandi", "ns1", "scaleway", "alibaba",
                  "alibaba-private", "ovh", "rfc2136", "google", "oci", "pdns",
                  "inmemory", "azure", "azure-private", "godaddy", "exoscale", "pihole",
                  "coredns", "cloudflare", "cloudflare-chunks", "aws"}
MCZoneOf == [n \in {"foo", "bar", "baz", "out"} |->
               CASE n \in {"foo", "bar"} -> "z1" [] n = "baz" -> "z2" [] OTHER -> ""]
MCManagedTypes == {"A", "AAAA", "CNAME"}
MX == [name |-> "foo", type |-> "MX", tgt |-> 9, ttl |-> 300]
MCForeign == [p \in MCProviderSet |-> IF p = "dnsimple" THEN {} ELSE {MX}]

MCRecords(p, z) ==
  CASE p = "linode" -> LinodeRecords(z)
    [] p = "civo" -> CivoRecords(z)
    [] p = "dnsimple" -> DNSimpleRecords(z)
    [] p = "gandi" -> GandiRecords(z)
    [] p = "ns1" -> NS1Records(z)
    [] p = "scaleway" -> ScalewayRecords(z)
    [] p = "alibaba" -> AlibabaRecords(z)
    [] p = "alibaba-private" -> AlibabaPrivateRecords(z)
    [] p = "ovh" -> OVHRecords(z)
    [] p = "rfc2136" -> RFC2136Records(z)
    [] p = "google" -> GoogleRecords(z)
    [] p = "oci" -> OCIRecords(z)
    [] p = "pdns" -> PDNSRecords(z)
    [] p = "inmemory" -> InMemoryRecords(z)
    [] p = "azure" -> AzureRecords(z)
    [] p = "azure-private" -> AzurePrivateRecords(z)
    [] p = "godaddy" -> GoDaddyRecords(z)
    [] p = "exoscale" -> ExoscaleRecords(z)
    [] p = "pihole" -> PiholeRecords(z)
    [] p = "coredns" -> CoreDNSRecords(z)
    [] p \in {"cloudflare", "cloudflare-chunks"} -> CloudflareRecords(z)
    [] p = "aws" -> AWSRecords(z)

MCApplyChanges(p, ch, z) ==
  CASE p = "linode" -> LinodeApplyChanges(ch, z)
    [] p = "civo" -> CivoApplyChanges(ch, z)
    [] p = "dnsimple" -> DNSimpleApplyChanges(ch, z)
    [] p = "gandi" -> GandiApplyChanges(ch, z)
    [] p = "ns1" -> NS1ApplyChanges(ch, z)
    [] p = "scaleway" -> ScalewayApplyChanges(ch, z)
    [] p \in {"alibaba", "alibaba-private"} -> AlibabaApplyChanges(ch, z)
    [] p = "ovh" -> OVHApplyChanges(ch, z)
    [] p = "rfc2136" -> RFC2136ApplyChanges(ch, z)
    [] p = "google" -> GoogleApplyChanges(ch, z)
    [] p = "oci" -> OCIApplyChanges(ch, z)
    [] p = "pdns" -> PDNSApplyChanges(ch, z)
    [] p = "inmemory" -> InMemoryApplyChanges(ch, z)
    [] p \in {"azure", "azure-private"} -> AzureApplyChanges(ch, z)
    [] p = "godaddy" -> GoDaddyApplyChanges(ch, z)
    [] p = "exoscale" -> ExoscaleApplyChanges(ch, z)
    [] p = "pihole" -> PiholeApplyChanges(ch, z)
    [] p = "coredns" -> CoreDNSApplyChanges(ch, z)
    [] p = "cloudflare" -> CloudflareApplyChanges(ch, z, 200)
    [] p = "cloudflare-chunks" -> CloudflareApplyChanges(ch, z, 1)
    [] p = "aws" -> AWSApplyChanges(ch, z)

MCAdjustEndpoints(p, E) ==
  CASE p = "scaleway" -> ScalewayAdjustEndpoints(E)
    [] p = "aws" -> AWSAdjustEndpoints(E)
    [] OTHER -> Unadjusted(E)

E(name, tgts, ttl) == [name |-> name, type |-> "A", tgts |-> tgts, ttl |-> ttl]
AnyWants == {{}, {E("foo", {1}, 400), E("bar", {1}, 0)},
             {E("foo", {1, 2}, 400), E("baz", {1}, 0)},
             {E("foo", {1, 3}, 600), E("out", {1}, 0)}}
(* OVH refuses a plan with an endpoint outside its zones; Pi-hole and      *)
(* CoreDNS know no zones.                                                  *)
HostedWants == {w \in AnyWants : Hosted(w) = w} \union {{E("foo", {3}, 600)}}
(* DNSimple and Exoscale write one target.                                 *)
SingleWants == {{}, {E("foo", {1}, 400), E("bar", {1}, 0)},
                {E("foo", {2}, 400), E("baz", {1}, 0)},
                {E("foo", {3}, 600), E("out", {1}, 0)}}
(* On AWS, foo may be a name for a load balancer.                          *)
LoadBalancer == 7
AWSWants == (AnyWants \ {{}}) \union
            {{[name |-> "foo", type |-> "CNAME", tgts |-> {LoadBalancer}, ttl |-> 400], E("bar", {2}, 0)}}
MCAliasTargets == {LoadBalancer}
MCWants == [p \in MCProviderSet |->
              CASE p \in {"ovh", "pihole", "coredns"} -> HostedWants
                [] p \in {"dnsimple", "exoscale"} -> SingleWants
                [] p = "aws" -> AWSWants
                [] OTHER -> AnyWants]

MCKeepsOldTargets == {"linode", "civo", "gandi"}
MCOtherTTLs == {"alibaba", "alibaba-private", "ovh", "pihole", "cloudflare", "cloudflare-chunks"}
MCRestless == {"linode", "civo", "gandi", "alibaba", "alibaba-private", "ovh"}
MCNotAtomic == {"linode", "civo", "dnsimple", "ovh", "cloudflare"}
MCDeletesFirst == {"alibaba", "alibaba-private", "pihole", "coredns", "cloudflare-chunks"}
=============================================================================
