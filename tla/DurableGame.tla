---------------------------- MODULE DurableGame -----------------------------
(***************************************************************************)
(* What the game log promises the player.  A game has a durable world (the *)
(* last one a crash cannot take away), perhaps a saved image written when  *)
(* the player left, and, while somebody plays, a live world.               *)
(***************************************************************************)
EXTENDS Naturals, Sequences

CONSTANTS
  World,         \* the game states
  None,          \* no such world
  Unfinished(_), \* worlds in the middle of a multi-turn command
  Dead(_)        \* worlds the hero did not survive

VARIABLES durable, live, saved, over

vars == <<durable, live, saved, over>>

TypeOK ==
  /\ durable \in World \cup {None}
  /\ live \in World \cup {None}
  /\ saved \in World \cup {None}
  /\ over \in BOOLEAN

Init == durable = None /\ live = None /\ saved = None /\ over = FALSE

(* A new game comes to life; nothing is durable yet. *)
Begin ==
  /\ durable = None /\ live = None /\ ~over
  /\ live' \in World
  /\ UNCHANGED <<durable, saved, over>>

(* The player acts: only the live world changes. *)
Play ==
  /\ live # None /\ ~over
  /\ live' \in World
  /\ UNCHANGED <<durable, saved, over>>

(* A command is over: its world becomes durable.  A turn in the middle of a
   multi-turn command may become durable or may be rolled back later.  The
   command that kills the hero may end the game at once: then nothing brings
   it back, whether or not the process lives to finish it. *)
Commit ==
  /\ live # None /\ ~over
  /\ \/ durable' = live /\ over' = over
     \/ Unfinished(live) /\ durable' = durable /\ over' = over
     \/ Dead(live) /\ durable' = None /\ over' = TRUE
  /\ UNCHANGED <<live, saved>>

(* The player leaves and the live world is kept as it is. *)
Save ==
  /\ live # None /\ ~over
  /\ live' = None
  /\ saved' = live
  /\ UNCHANGED <<durable, over>>

(* The process dies, or leaves without a usable image. *)
Crash ==
  /\ live # None
  /\ live' = None
  /\ UNCHANGED <<durable, saved, over>>

(* The game resumes: from the image if there is one, else from what is durable. *)
Resume ==
  /\ live = None /\ durable # None /\ ~over
  /\ live' = IF saved # None THEN saved ELSE durable
  /\ saved' = None
  /\ UNCHANGED <<durable, over>>

(* The game ends for good. *)
Finish ==
  /\ live # None
  /\ over' = TRUE
  /\ live' = None
  /\ UNCHANGED <<durable, saved>>

Next == Begin \/ Play \/ Commit \/ Save \/ Crash \/ Resume \/ Finish

Spec == Init /\ [][Next]_vars
=============================================================================
