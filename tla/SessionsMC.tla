----------------------------- MODULE SessionsMC -----------------------------
(* Requests are interchangeable: no property names one. *)
EXTENDS Sessions, TLC

AnyRequest == Permutations(Request)
=============================================================================
