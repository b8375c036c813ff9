----------------------------- MODULE MCDynamoDB -----------------------------
(* Two processes with owner ids of their own compete for "foo"; the first  *)
(* also wants "bar", or changes the resource of "foo".  The zone is empty, *)
(* has "foo" made by hand, or comes from the TXT registry.                 *)
EXTENDS DynamoDBRegistry

Name(n) == n
MCControllers == {"c1", "c2"}
MCConfig == [c \in MCControllers |-> [ownerID |-> IF c = "c1" THEN "o1" ELSE "o2",
                                      oldOwnerID |-> "", policy |-> "sync"]]
Want(name, tgt, res) ==
  [name |-> name, sid |-> "", type |-> "A", tgt |-> tgt, ttl |-> 0,
   ps |-> {}, owner |-> "", res |-> res]
MCSourceLists ==
  [c \in MCControllers |->
     IF c = "c1" THEN {<<Want("foo", 1, "r1"), Want("bar", 1, "r1")>>, <<Want("foo", 1, "r9")>>}
     ELSE {<<Want("foo", 2, "r2")>>}]

Foo == <<"foo", "", "A">>
Bar == <<"bar", "", "A">>
TXT(name) == <<name, "", "TXT">>
Val(t) == [tgt |-> t, ttl |-> 0, ps |-> {}]
(* The records of "a-foo" and "a-bar" name o1 and o1, or o1 and another.   *)
MigrateZones ==
  {[k \in {Foo, Bar, TXT("a-foo"), TXT("a-bar")} |->
      IF k[3] = "A" THEN Val(1)
      ELSE Val([owner |-> IF k[1] = "a-foo" THEN "o1" ELSE other, res |-> "r1"])]
     : other \in {"o1", "o3"}}
MCInitialZones == {<<>>, [k \in {Foo} |-> Val(1)]} \union MigrateZones
MCToEndpointName ==
  [n \in {"a-foo", "a-bar"} |-> <<IF n = "a-foo" THEN "foo" ELSE "bar", "A">>]

MCFaultSets == {{"claim", "provider", "cleanup", "crash"}, {"manual", "cleanup", "crash"}}
=============================================================================
