------------------------------ MODULE MCOutbox ------------------------------
(* Finite instances of Outbox: the .cfg files give the constants, a set of *)
(* model values for the steps, the messages and the workers.               *)
EXTENDS Outbox
=============================================================================
