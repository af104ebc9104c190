--------------------------- MODULE MCEsmeCluster ---------------------------
(* EsmeCluster for TLC: three ESMEs that are sent messages, one of them of each
   kind that is, and one that is not. *)
EXTENDS EsmeCluster

CONSTANTS e1, e2, e3, e4

AllEsmes == {e1, e2, e3, e4}

BindTypes ==
    [e \in AllEsmes |-> CASE e = e1 -> "TRANSCEIVER" [] e = e3 -> "TRANSMITTER"
                          [] OTHER -> "RECEIVER"]

SessionTypes == [e \in AllEsmes |-> IF e = e2 THEN "SERVER" ELSE "CLIENT"]

=============================================================================
