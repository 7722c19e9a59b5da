----------------------------- MODULE MCGameLog ------------------------------
(* TLC instances of GameLog. *)
EXTENDS GameLog

MCCommands == {"step", "dig", "quaff"}
Sober == {"step", "dig"}
MCLong == {"dig"}

LastOf(w) == IF w = << >> THEN NoCmd ELSE w[Len(w)]

(* The potion is poisoned, whatever the world. *)
FatalDraught(w) == LastOf(w) = "quaff"

(* Digging on in a pit brings the walls down. *)
FatalInPit(w) == LastOf(w) = "dig" /\ \E i \in 1..Len(w)-1 : w[i] = "dig"

(* Moving asks for confirmation, whatever the world. *)
AsksAlways(c, w) == c = "step"

(* Moving asks for confirmation only once a pit has been dug. *)
AsksAtPit(c, w) == c = "step" /\ \E i \in 1..Len(w) : w[i] = "dig"
=============================================================================
