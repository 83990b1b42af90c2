-------------------------- MODULE MCReceiverClient --------------------------
(* Model checking of ReceiverClient.                                       *)
EXTENDS ReceiverClient

=============================================================================
