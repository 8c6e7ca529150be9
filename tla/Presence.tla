------------------------------ MODULE Presence ------------------------------
(***************************************************************************)
(* What the bridge promises a phone that looks for it: it can be found     *)
(* while nobody uses it, it is hidden while it serves somebody, and after  *)
(* serving it pauses before it can be found again (CHANGELOG.md:18, "with a *)
(* delay to avoid busy loops"). A phone whose radio link is already up may *)
(* be served during the pause.                                             *)
(***************************************************************************)
VARIABLE status

Init == status = "visible"

Serve    == status \in {"visible", "pausing"} /\ status' = "serving"
Release  == status = "serving" /\ status' = "pausing"
Reappear == status = "pausing" /\ status' = "visible"

Next == Serve \/ Release \/ Reappear

Spec == Init /\ [][Next]_status
=============================================================================
