----------------------------- MODULE MCPlanLoop -----------------------------
(* The planner on one row that three record types and two resources        *)
(* compete for, next to a row outside the domain filter and a record of an *)
(* unmanaged type.  "FOO" is another spelling of "foo".                    *)
EXTENDS PlanLoop

MCNormalizeDNSName(n) == IF n = "FOO" THEN "foo" ELSE n
MCFilteredNames == {"foo", "FOO"}
MCManagedTypes == {"A", "AAAA", "CNAME"}

Me == "me"
Endpoint(name, type, tgt, ttl, owner, res) ==
  [name |-> name, sid |-> "", type |-> type, tgt |-> tgt, ttl |-> ttl,
   ps |-> {}, owner |-> owner, res |-> res]

MCPlans ==
  [ownerID : {Me}, oldOwnerID : {""},
   policy : {"sync", "upsert-only", "create-only"}]
    \union [ownerID : {""}, oldOwnerID : {""}, policy : {"sync"}]

Owners == {Me, "other", ""}
Resources == {"r1", "r2"}

Found(S) == {{}} \union {{e} : e \in S}
CurrentA == {Endpoint("foo", "A", t, ttl, o, r) :
               t \in {1, 2}, ttl \in {0, 60}, o \in Owners, r \in Resources}
CurrentAAAA == {Endpoint("foo", "AAAA", 1, 0, o, "r1") : o \in Owners}
CurrentCNAME == {Endpoint("foo", "CNAME", 3, 0, o, "r1") : o \in Owners}
Bystanders == {Endpoint("foo", "TXT", 9, 0, Me, "r1"),
               Endpoint("out", "A", 9, 0, Me, "r1")}
MCCurrentSets ==
  {a \union b \union c \union Bystanders :
     a \in Found(CurrentA), b \in Found(CurrentAAAA), c \in Found(CurrentCNAME)}

Wanted ==
  {Endpoint("foo", "A", 1, 0, "", "r1"), Endpoint("foo", "A", 1, 60, "", "r2"),
   Endpoint("foo", "A", 2, 0, "", "r2"), Endpoint("foo", "A", 2, 60, "", "r1")}
    \union {Endpoint("FOO", "A", 2, 60, "", "r2"),
            Endpoint("foo", "AAAA", 1, 0, "", "r1"),
            Endpoint("foo", "CNAME", 3, 0, "", "r1"),
            Endpoint("out", "A", 1, 0, "", "r1")}
MCDesiredLists == {<<>>} \union {<<d>> : d \in Wanted}
                         \union (Wanted \X Wanted)
=============================================================================
