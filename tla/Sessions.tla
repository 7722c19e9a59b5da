------------------------------ MODULE Sessions ------------------------------
(***************************************************************************)
(* The two sides of a game played over the network.  NetSession follows    *)
(* one command from the client library through a connection to the game    *)
(* process and back, with a master that just forwards; Server is that      *)
(* master, with many connections and games, for which a command is a       *)
(* number of bytes.  Neither needs more of the other than that: a          *)
(* behaviour is of one part.                                               *)
(***************************************************************************)
EXTENDS NetSession, Server

VARIABLE part   \* "session" or "server"

vars == <<sessionVars, serverVars, part>>

Session(A) == part = "session" /\ A /\ UNCHANGED <<serverVars, part>>
Serve(A) == part = "server" /\ A /\ UNCHANGED <<sessionVars, part>>

Init == part \in {"session", "server"} /\ SessionInit /\ ServerInit

Next == Session(SessionNext) \/ Serve(ServerNext)

\* The programs run; the player and the network do as they like.
SessionFairness ==
  /\ WF_vars(Session(Client)) /\ WF_vars(Session(ToGame)) /\ WF_vars(Session(ToClient))
  /\ WF_vars(Session(Read))

\* The master runs, its timer expires, a game that was told to go or whose
\* input ended goes, and a socket that can drain does.
ServerFairness ==
  /\ WF_vars(Serve(Master)) /\ SF_vars(Serve(ShutdownTimeout))
  /\ \A p \in Pid : WF_vars(Serve(MustExit(p)))
  /\ \A c \in Conn : WF_vars(Serve(Drain(c)))

Spec == Init /\ [][Next]_vars

FairSpec == Spec /\ SessionFairness /\ ServerFairness
=============================================================================
