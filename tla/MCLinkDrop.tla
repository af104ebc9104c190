----------------------------- MODULE MCLinkDrop -----------------------------
(* LinkDrop for TLC: its constants are given in the .cfg files. *)
EXTENDS LinkDrop

=============================================================================
