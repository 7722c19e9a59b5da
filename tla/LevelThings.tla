----------------------------- MODULE LevelThings -----------------------------
(***************************************************************************)
(* What struct level keeps beside its map, each with the objects or the    *)
(* monsters it belongs to: timers and lights (Burning) and worm tails      *)
(* (Worm).  Neither reads or writes what the other keeps, and no property  *)
(* is about both: a behaviour is of one part.                              *)
(***************************************************************************)
EXTENDS Burning, Worm

VARIABLE part   \* "burning" or "worm"

vars == <<burnVars, wormVars, part>>

Burn == part = "burning" /\ BurnNext /\ UNCHANGED <<wormVars, part>>

Crawl == part = "worm" /\ WormNext /\ UNCHANGED <<burnVars, part>>

Init == part \in {"burning", "worm"} /\ BurnInit /\ WormInit

Next == Burn \/ Crawl

Spec == Init /\ [][Next]_vars
=============================================================================
