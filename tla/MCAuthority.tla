----------------------------- MODULE MCAuthority -----------------------------
(* Instances of Authority for TLC. Publishers and boots are interchangeable: *)
(* no action or property tells two of them apart.                            *)
EXTENDS Authority, TLC

Symmetry == Permutations(Publisher) \cup Permutations(Boot)
=============================================================================
