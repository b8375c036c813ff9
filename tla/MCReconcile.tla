---------------------------- MODULE MCReconcile ----------------------------
(* Two processes with different owner ids that compete for "foo"; the      *)
(* second also wants "bar".  "foo" may be free, owned by the first, or     *)
(* there by other means; "bar" may be there with only an old TXT record.   *)
EXTENDS Reconcile

MCNormalizeDNSName(n) == n
MCFilteredNames == {"foo", "bar"}
MCManagedTypes == {"A", "AAAA", "CNAME"}

MCControllers == {"c1", "c2"}
MCConfig == [c \in MCControllers |->
               [ownerID |-> IF c = "c1" THEN "o1" ELSE "o2",
                oldOwnerID |-> "", policy |-> "sync"]]

Want(name, type, tgt, res) ==
  [name |-> name, sid |-> "", type |-> type, tgt |-> tgt, ttl |-> 0,
   ps |-> {}, owner |-> "", res |-> res]

(* The first process changes targets and type, the second comes and goes.  *)
MCSourceLists ==
  [c \in MCControllers |->
     IF c = "c1"
     THEN {<<>>, <<Want("foo", "A", 1, "r1")>>, <<Want("foo", "A", 2, "r1")>>,
           <<Want("foo", "CNAME", 3, "r1")>>}
     ELSE {<<>>, <<Want("foo", "A", 1, "r2"), Want("bar", "A", 1, "r2")>>}]

Foo == <<"foo", "", "A">>
Bar == <<"bar", "", "A">>
Val(t) == [tgt |-> t, ttl |-> 0, ps |-> {}]
Labels(o, r) == [owner |-> o, res |-> r]

Manual == [d \in {Rec(Foo)} |-> Val(1)]
OwnedFoo == [d \in {Rec(Foo), Txt(Foo)} |->
               IF d = Rec(Foo) THEN Val(1) ELSE Val(Labels("o1", "r1"))]
OldBar == [d \in {Rec(Bar)} |-> Val(1)]

NoLegacyTXT == <<>>
LegacyBar == [n \in {<<"bar", "">>} |-> Labels("o2", "r2")]

MCInitialZones == {<<>>, Manual, OwnedFoo, OldBar}

(* Smaller sets for the run that also checks Converges: both processes     *)
(* want "foo" or nothing; it is owned by the first or there by other means.*)
LiveSourceLists ==
  [c \in MCControllers |->
     IF c = "c1"
     THEN {<<>>, <<Want("foo", "A", 1, "r1")>>, <<Want("foo", "A", 2, "r1")>>}
     ELSE {<<>>, <<Want("foo", "A", 1, "r2")>>}]
LiveInitialZones == {Manual, OwnedFoo}

(* The second process always wants "bar", and "foo" from time to time.     *)
UncachedSourceLists ==
  [MCSourceLists EXCEPT !["c2"] =
     {<<Want("bar", "A", 1, "r2")>>, <<Want("foo", "A", 1, "r2"), Want("bar", "A", 1, "r2")>>}]

(* "bar" is held by the second process and not wanted any more.            *)
UnwantedSourceLists == [c \in MCControllers |-> {<<>>}]
UnwantedInitialZones == {OldBar}
=============================================================================
