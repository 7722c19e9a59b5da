-------------------------------- MODULE Bones --------------------------------
(***************************************************************************)
(* The bones files: what a dead hero leaves on the level where he died is  *)
(* found by another one.  All files of one name stand for one level; what  *)
(* is left in a file is named by the game whose hero died, or Old for the  *)
(* file that is there from the start.                                      *)
(*                                                                         *)
(* Nothing is locked: a file is read and then unlinked by name, and it is  *)
(* written under a name of its own (the user's and the hero's, taken to    *)
(* differ between processes) and then renamed.                             *)
(*                                                                         *)
(* A game may be left and taken up again by any process, also while one    *)
(* plays it: only a new game and a log that is being replayed are locked   *)
(* (OnePlayer in LogLock).  A process has the level in its memory; it is   *)
(* part of the game once the command that made it is in the log.  Of two   *)
(* processes that write one log the last has its way, or nobody can        *)
(* restore it.                                                             *)
(***************************************************************************)
EXTENDS Naturals, FiniteSets

CONSTANTS Heroes,   \* the processes that play
          Games,    \* the games they play
          Old, None,
          MaxRestored   \* bound: how often a game is restored

ASSUME BonesAssumption == /\ Old \notin Games /\ None \notin Games \cup {Old}
                          /\ "fresh" \notin Games \cup {Old, None} /\ IsFiniteSet(Games)
                          /\ MaxRestored \in Nat

VARIABLES
  bones,   \* whose bones are under the level's name, None if there is no file
  hero,    \* [Heroes -> [at, game, level, locks]]: stage, the game, its level as
           \* he has it, None: not made, whether he has its log locked
  level,   \* [Games -> Games \cup {Old, "fresh", None}]: the level in the log
  fate,    \* [Games -> {"new", "alive", "judged", "over"}]: what the log says of it
  wiped,   \* history: somebody destroyed bones that he had not read
  twice,   \* history: games whose hero may die twice: two processes have played
           \* it at the same time, or one died with the death in the log and the
           \* log not finished
  restored \* how many times a game was restored, counted for the bound only

bonesVars == <<bones, hero, level, fate, wiped, twice, restored>>

Buried == Games \cup {Old}
Away == [at |-> "away", game |-> None, level |-> None, locks |-> FALSE]
Is(p, stage) == hero[p].at = stage
Game(p) == hero[p].game
Goes(p, stage) == hero' = [hero EXCEPT ![p].at = stage]
Lose(other) == wiped' = (wiped \/ other \ {None} # {})

-----------------------------------------------------------------------------
(* A sitting.                                                              *)

\* A log of its own, locked until the game is left or over.
Begin(p, g) ==
  /\ Is(p, "away") /\ fate[g] = "new"
  /\ fate' = [fate EXCEPT ![g] = "alive"]
  /\ hero' = [hero EXCEPT ![p] = [at |-> "plays", game |-> g, level |-> None, locks |-> TRUE]]
  /\ UNCHANGED <<bones, level, wiped, twice, restored>>

\* nh_restore_game, of a log that nobody has locked; it keeps the lock only
\* while it replays.  The log of a judged game ends with the command its hero
\* died of: replayed, it ends in done().
Sit(p, g) ==
  /\ Is(p, "away") /\ fate[g] \in {"alive", "judged"} /\ restored < MaxRestored
  /\ \A q \in Heroes : Game(q) = g => ~hero[q].locks
  /\ hero' = [hero EXCEPT ![p] = [at |-> IF fate[g] = "alive" THEN "plays" ELSE "dead",
                                  game |-> g, level |-> level[g], locks |-> fate[g] = "judged"]]
  /\ twice' = IF \E q \in Heroes : Game(q) = g THEN twice \cup {g} ELSE twice
  /\ restored' = restored + 1
  /\ UNCHANGED <<bones, level, fate, wiped>>

\* The process ends, wherever it is: the game is saved or crashes, the player
\* hangs up when he is asked what he wants to see of his dead hero.  A level
\* made by a command whose result is not in the log is not made, even if its
\* bones are gone.  (A save has the log end as a command's result does.)
Gone(p) ==
  /\ ~Is(p, "away")
  /\ hero' = [hero EXCEPT ![p] = Away]
  /\ twice' = IF Is(p, "judged") THEN twice \cup {Game(p)} ELSE twice
  /\ UNCHANGED <<bones, level, fate, wiped, restored>>

-----------------------------------------------------------------------------
(* getbones, when a level is made (mklev)                                  *)

\* No bones wanted (rn2(3)), or none there.
MakeLevel(p) ==
  /\ Is(p, "plays") /\ hero[p].level = None
  /\ hero' = [hero EXCEPT ![p].at = "arrives", ![p].level = "fresh"]
  /\ UNCHANGED <<bones, level, fate, wiped, twice, restored>>

\* open_bonesfile, loadfile, close, log_bones
ReadBones(p) ==
  /\ Is(p, "plays") /\ hero[p].level = None /\ bones # None
  /\ hero' = [hero EXCEPT ![p].at = "read", ![p].level = bones]
  /\ UNCHANGED <<bones, level, fate, wiped, twice, restored>>

DeleteBones_careless(p) ==            \* mutant: the result of the unlink does not matter
  /\ Is(p, "read") /\ Goes(p, "arrives")
  /\ bones' = None
  /\ Lose({bones} \ {hero[p].level})
  /\ UNCHANGED <<level, fate, twice, restored>>

\* "When N games try to simultaneously restore the same bones file, N-1 of
\* them will fail to delete it -- just generate a new level for those."  The
\* unlink goes by name, whatever has the name by then.
DeleteBones(p) ==
  /\ Is(p, "read")
  /\ hero' = [hero EXCEPT ![p].at = "arrives",
                          ![p].level = IF bones # None THEN hero[p].level ELSE "fresh"]
  /\ bones' = None
  /\ Lose({bones} \ {hero[p].level})
  /\ UNCHANGED <<level, fate, twice, restored>>

\* log_command_result: the log is as far as this process is, and the game goes
\* on, whatever another process has made of it.
LogResult(p) ==
  /\ hero[p].at \in {"plays", "arrives"} /\ Goes(p, "plays")
  /\ level' = [level EXCEPT ![Game(p)] = hero[p].level]
  /\ fate' = [fate EXCEPT ![Game(p)] = "alive"]
  /\ UNCHANGED <<bones, wiped, twice, restored>>

-----------------------------------------------------------------------------
(* done()                                                                  *)

\* log_command_result
Judge(p) ==
  /\ hero[p].at \in {"plays", "arrives"} /\ Goes(p, "judged")
  /\ level' = [level EXCEPT ![Game(p)] = hero[p].level]
  /\ fate' = [fate EXCEPT ![Game(p)] = "judged"]
  /\ UNCHANGED <<bones, wiped, twice, restored>>

FinishLog_late(p) ==                  \* mutant: the log is finished when everything is done
  /\ Is(p, "judged") /\ Goes(p, "dead")
  /\ UNCHANGED <<bones, level, fate, wiped, twice, restored>>

\* log_finish(LS_DONE) and its unlock_fd; when it is a replay that has come
\* here the log is disabled and stays as it is, and locked (see Sit).
FinishLog(p) ==
  /\ Is(p, "judged")
  /\ hero' = [hero EXCEPT ![p].at = "dead", ![p].locks = FALSE]
  /\ level' = [level EXCEPT ![Game(p)] = hero[p].level]
  /\ fate' = [fate EXCEPT ![Game(p)] = "over"]
  /\ UNCHANGED <<bones, wiped, twice, restored>>

\* savebones: bones that are there already stay (or can_make_bones says no).
NoNewBones(p) ==
  /\ Is(p, "dead") /\ Goes(p, "buried")
  /\ UNCHANGED <<bones, level, fate, wiped, twice, restored>>

LookForBones(p) ==
  /\ Is(p, "dead") /\ bones = None
  /\ Goes(p, "writes")
  /\ UNCHANGED <<bones, level, fate, wiped, twice, restored>>

\* The file is written; commit_bonesfile's rename replaces what somebody else
\* has put there meanwhile.
CommitBones(p) ==
  /\ Is(p, "writes") /\ Goes(p, "buried")
  /\ bones' = Game(p)
  /\ Lose({bones})
  /\ UNCHANGED <<level, fate, twice, restored>>

-----------------------------------------------------------------------------
BonesInit ==
  /\ bones = Old
  /\ hero = [p \in Heroes |-> Away]
  /\ level = [g \in Games |-> None]
  /\ fate = [g \in Games |-> "new"]
  /\ wiped = FALSE /\ twice = {} /\ restored = 0

BonesTypeOK ==
  /\ bones \in Buried \cup {None}
  /\ hero \in [Heroes -> [at : {"away", "plays", "read", "arrives", "judged", "dead", "writes", "buried"},
                          game : Games \cup {None}, level : Buried \cup {"fresh", None}, locks : BOOLEAN]]
  /\ level \in [Games -> Buried \cup {"fresh", None}]
  /\ fate \in [Games -> {"new", "alive", "judged", "over"}]
  /\ wiped \in BOOLEAN /\ twice \subseteq Games /\ restored \in Nat

\* Bones b are on the level of game g: by its log, or as a process has it.
Has(g, b) == \/ level[g] = b
             \/ \E p \in Heroes : Game(p) = g /\ ~Is(p, "read") /\ hero[p].level = b

\* Whose bones b is in how many places: levels of games, and under its name.
Copies(b) == Cardinality({g \in Games : Has(g, b)}) + (IF bones = b THEN 1 ELSE 0)

\* Bones are found once, however many games read them, and however many
\* processes play the game that finds them.  A second copy needs an unlink
\* that hit other bones (getbones unlinks by name what it has read before), or
\* a hero who died twice: his death was replayed because the log was never
\* finished, or two processes played his game.
BonesOnce == \A b \in Buried : Copies(b) > 1 => wiped \/ b \in twice
=============================================================================
