----------------------------- MODULE LogReading -----------------------------
(***************************************************************************)
(* What logreplay.c does with a log's bytes outside of a restore:          *)
(* replay_begin looks for the end of a log whose header was never written  *)
(* (RecoveryScan), each diff memfile.c wrote is applied to the save before *)
(* it (MemDiff), and the viewer goes back and forth between the saves so   *)
(* rebuilt (ReplayView).  The scan is over before a diff is read, a diff   *)
(* is one step of the viewer, and no property is about two of them: a      *)
(* behaviour is of one part.                                               *)
(***************************************************************************)
EXTENDS RecoveryScan, MemDiff, ReplayView

VARIABLE part   \* "scan", "diff" or "view"

vars == <<scanVars, diffVars, viewVars, part>>

ScanLog == part = "scan" /\ ScanNext /\ UNCHANGED <<diffVars, viewVars, part>>

RebuildSave == part = "diff" /\ DiffNext /\ UNCHANGED <<scanVars, viewVars, part>>

ViewLog == part = "view" /\ ViewNext /\ UNCHANGED <<scanVars, diffVars, part>>

\* The parts that a behaviour is not of have one initial state each.
Init ==
  /\ part \in {"scan", "diff", "view"}
  /\ ScanInit /\ (part # "scan" => filesize = 0)
  /\ DiffInit /\ (part # "diff" => relativeto = CHOOSE p \in Parents : TRUE)
  /\ ViewInit /\ (part # "view" => \A k \in Recorded : kind[k] = "same" /\ clock[k] = k + 1)

Next == ScanLog \/ RebuildSave \/ ViewLog

Spec == Init /\ [][Next]_vars
=============================================================================
