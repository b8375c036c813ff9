----------------------------- MODULE Ownership -----------------------------
(***************************************************************************)
(* What the registries promise to the users of a shared zone: "ExternalDNS *)
(* will keep track of which records it has control over, and will never    *)
(* modify any records over which it doesn't have control" (docs/faq.md).   *)
(* A record is free, or held by the owner who created it, or by nobody we  *)
(* know of ("": created by other means).  In one step one owner claims     *)
(* free records, changes its own, and releases its own.                    *)
(***************************************************************************)
CONSTANT Owners

VARIABLES
  holder,    \* function from the records in use to their owners, or ""
  content    \* function from the records in use to their data

Used == DOMAIN holder

Init == DOMAIN content = Used

Unchanged(k) ==
  /\ k \in Used <=> k \in Used'
  /\ k \in Used => holder'[k] = holder[k] /\ content'[k] = content[k]

(* Owner o may touch k: it was free or its own, and stays its own if used. *)
MayTouch(o, k) ==
  /\ k \in Used => holder[k] = o
  /\ k \in Used' => holder'[k] = o

Step(o) == \A k \in Used \union Used' : Unchanged(k) \/ MayTouch(o, k)

Next == \E o \in Owners : Step(o)

Spec == Init /\ [][Next]_<<holder, content>>
=============================================================================
