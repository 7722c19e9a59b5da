----------------------------- MODULE MCSessions -----------------------------
(* TLC instances of Sessions. *)
EXTENDS Sessions, TLC

CONSTANTS c1, u1

LastAsks == {MaxCmds}

(* One user, who connects once, over the network. *)
OneUser == [c \in Conn |-> u1]
NoneLocal == {}
=============================================================================
