----------------------------- MODULE SharedFiles -----------------------------
(***************************************************************************)
(* The files that games share: the logs, which a process locks (LogLock),  *)
(* the bones of a level and the list of scores.  Whoever contends for a    *)
(* log touches neither bones nor scores by it, and what the end of a game  *)
(* does with those does not depend on who else wants its log: no step of   *)
(* one part reads or writes a variable of the other, and no property is    *)
(* about both.  A behaviour is therefore of one part, which the others'    *)
(* steps could only interrupt.                                             *)
(***************************************************************************)
EXTENDS LogLock, Bones, ScoreList

\* The same processes in all three, and the games that are scored.
ASSUME SharedAssumption == Heroes = Procs /\ Losers = Procs /\ Games \subseteq Entries

VARIABLE part   \* "logs" or "ends"

vars == <<lockVars, bonesVars, scoreVars, part>>

Contend(p) ==
  /\ part = "logs" /\ LockStep(p)
  /\ UNCHANGED <<bonesVars, scoreVars, part>>

WithBones(p) ==
  /\ part = "ends"
  /\ \/ \E g \in Games : Begin(p, g) \/ Sit(p, g)
     \/ MakeLevel(p) \/ ReadBones(p) \/ DeleteBones(p) \/ LogResult(p)
     \/ Judge(p) \/ FinishLog(p) \/ NoNewBones(p) \/ LookForBones(p) \/ CommitBones(p)
  /\ UNCHANGED <<lockVars, scoreVars, part>>

\* update_topten comes after the bones, as the last thing done() does.
WithScores(p) ==
  /\ Is(p, "buried") /\ ScoreStep(p, Game(p))
  /\ UNCHANGED <<lockVars, bonesVars, part>>

Exit(p) ==
  /\ Gone(p) /\ ScoresGone(p)
  /\ UNCHANGED <<lockVars, part>>

Init == part \in {"logs", "ends"} /\ LockInit /\ BonesInit /\ ScoreInit

Next == \E p \in Procs : Contend(p) \/ WithBones(p) \/ WithScores(p) \/ Exit(p)

Spec == Init /\ [][Next]_vars

-----------------------------------------------------------------------------
Times(g) == Cardinality({i \in DOMAIN scored : scored[i] = g})

\* A game is scored once, and a game that has a score is over: done() finishes
\* the log first.  If the process dies before that, with the death in the log,
\* each restore replays the death and scores it again ("no dumping or
\* high-score calculation required" is said of the viewer only); and if two
\* processes play one game, each scores it.
ScoredOnce == \A g \in Games \ twice : Times(g) <= 1 /\ (Times(g) = 1 => fate[g] = "over")
=============================================================================
