------------------------------- MODULE MCCRD -------------------------------
(* Two processes with namespaces of their own compete for "foo"; the first *)
(* also wants "bar", or nothing at all.                                    *)
EXTENDS CRDRegistry

Name(n) == n
Both == {"c1", "c2"}
MCConfig == [c \in Both |-> [ownerID |-> IF c = "c1" THEN "o1" ELSE "o2",
                             oldOwnerID |-> "", policy |-> "sync"]]
MCNamespace == [c \in Both |-> c]
Want(name, tgt, res) ==
  [name |-> name, sid |-> "", type |-> "A", tgt |-> tgt, ttl |-> 0,
   ps |-> {}, owner |-> "", res |-> res]
MCSourceLists ==
  [c \in Both |-> IF c = "c1" THEN {<<>>, <<Want("foo", 1, "r1"), Want("bar", 1, "r1")>>,
                                    <<Want("foo", 2, "r1")>>}
                             ELSE {<<Want("foo", 2, "r2")>>}]

(* Everything but the statuses may fail and the parts of a failed batch    *)
(* are submitted one by one; only the provider and the statuses fail; only *)
(* the provider, on three kinds of provider, where answers may be lost; or *)
(* one process is alone with an informer that lags.                        *)
MCWorlds == {{"provider", "lost", "write", "crash", "split"}, {"provider", "status"},
             {"provider"}, {"provider", "lost", "split"}, {"provider", "split", "upserts"},
             {"alone", "upserts", "provider", "lag"}}
=============================================================================
