---------------------------- MODULE MCOscSender ----------------------------
(* Model checking of OscSender under a client that makes any calls at all. *)
EXTENDS OscSender, TLC

Symmetry == Permutations(Addresses) \cup Permutations(Messages)
                \cup Permutations(Bundles)
============================================================================
