----------------------------- MODULE MCCloudMap -----------------------------
(* Two processes that compete for "foo" and clean up empty services; the   *)
(* first also wants "bar", in the same runs and with targets that change.  *)
EXTENDS CloudMap

MCOwners == {"a", "b"}
MCNames == {"foo", "bar"}
MCMatches == [o \in MCOwners |-> {o}]
MCTTL == [o \in MCOwners |-> 60]
W(foo, bar) == [n \in MCNames |-> IF n = "foo" THEN foo ELSE bar]
MCWants ==
  [o \in MCOwners |->
     IF o = "a" THEN {W({}, {}), W({1}, {1}), W({2}, {1, 2}), W({}, {2})}
     ELSE {W({}, {}), W({3}, {})}]
=============================================================================
