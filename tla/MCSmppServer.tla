---------------------------- MODULE MCSmppServer ----------------------------
(* SmppServer for TLC. *)
EXTENDS SmppServer

\* Every peer matches every ESME by a wildcard.
Everyone == [p \in Peers |-> Esmes]
Nobody   == [p \in Peers |-> {}]

\* The ESMEs that may be destroyed have the host and port of one of the peers;
\* the others take any.
Pinned == [p \in Peers |-> IF p = CHOOSE q \in Peers : TRUE THEN Destroyable ELSE {}]
Pool   == [p \in Peers |-> Esmes \ Destroyable]

=============================================================================
