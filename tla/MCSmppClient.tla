---------------------------- MODULE MCSmppClient ----------------------------
(* SmppClient for TLC: its constants are sets of model values, which the .cfg
   files give. *)
EXTENDS SmppClient

=============================================================================
