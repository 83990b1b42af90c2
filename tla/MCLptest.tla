------------------------------ MODULE MCLptest ------------------------------
(* Model checking of Lptest.                                               *)
EXTENDS Lptest
=============================================================================
