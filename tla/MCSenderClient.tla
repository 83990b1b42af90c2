--------------------------- MODULE MCSenderClient ---------------------------
(***************************************************************************)
(* Model checking of SenderClient and of its refinement of PacketBuilder.  *)
(***************************************************************************)
EXTENDS SenderRefinement, TLC

Symmetry == Permutations(Addresses) \cup Permutations(Messages)
                \cup Permutations(Bundles)
=============================================================================
