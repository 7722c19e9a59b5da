------------------------------ MODULE MCServer ------------------------------
(* TLC instances of Server. *)
EXTENDS Server, TLC

CONSTANTS c1, c2, u1

(* One user, who comes back over the local socket. *)
OneUser == [c \in Conn |-> u1]
LastLocal == {c2}
=============================================================================
