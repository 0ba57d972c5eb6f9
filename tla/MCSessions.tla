----------------------------- MODULE MCSessions -----------------------------
(* Instances of Sessions for TLC. Sessions, publishers and boots are          *)
(* interchangeable: no action or property tells two of them apart.            *)
EXTENDS Sessions, TLC

Symmetry == Permutations(Session) \cup Permutations(Publisher) \cup Permutations(Boot)
=============================================================================
