---------------------------- MODULE MCOscReceiver ----------------------------
(* Model checking of OscReceiver under a client that makes any calls.      *)
EXTENDS OscReceiver, TLC

Symmetry == Permutations(Servers) \cup Permutations(Objects)
                \cup Permutations(Datagrams)
=============================================================================
