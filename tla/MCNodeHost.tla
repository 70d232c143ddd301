----------------------------- MODULE MCNodeHost -----------------------------
(* Instances of NodeHost for TLC: two reusable addresses are the fewest that *)
(* let a generation be prepared while its predecessor retires.  Permits are  *)
(* taken from the first generation only: one that outlives two replacements. *)
EXTENDS NodeHost, TLC

FirstWorks == \A g \in Gens : outstanding'[g] > 0 => g = 1

MCSpec == Init /\ [][Next /\ FirstWorks]_vars

AddrSymmetry == Permutations(Addr)
=============================================================================
