---------------------------- MODULE MCAppThread -----------------------------
(* The instances of AppThread that TLC checks. *)
EXTENDS AppThread

CONSTANTS c1, c2

(* One form changes the network, the other only the address and the rest. *)
MCPostedBy == [c \in Conns |-> IF c = c1 THEN {"DHCP", "VAR"} ELSE {"IP", "VAR"}]

=============================================================================
