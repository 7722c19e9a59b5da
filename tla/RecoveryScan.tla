---------------------------- MODULE RecoveryScan ----------------------------
(***************************************************************************)
(* What replay_begin (libnitrohack/src/logreplay.c) does when the header   *)
(* still says that nothing was committed (endpos 0): it looks backwards,   *)
(* block by block, for the line of the last diff.  At that time the log    *)
(* holds one such line at most, the one newgame() writes.                  *)
(***************************************************************************)
EXTENDS Integers

CONSTANTS
  Block,     \* how far fstart goes back (1024)
  Overlap,   \* bytes of the next block that are read as well (2)
  MaxSize    \* bound: bytes in the log

ASSUME BlockAssumption ==
  Block \in Nat \ {0} /\ Overlap \in Nat \ {0} /\ MaxSize \in Nat

None == -1

VARIABLES
  filesize,  \* bytes in the log
  mark,      \* where the '~' at the start of a line is, or None
  fstart, found, endpos,
  scan

scanVars == <<filesize, mark, fstart, found, endpos, scan>>

ScanTypeOK ==
  /\ filesize \in 0..MaxSize
  /\ mark \in 1..filesize \cup {None}
  /\ fstart \in 0..filesize
  /\ found \in Int /\ endpos \in Int
  /\ scan \in {"on", "done"}

(* endpos = filesize, recovery = TRUE.  The '~' stands behind a newline, so
   it is never the first byte. *)
ScanInit ==
  /\ filesize \in 0..MaxSize
  /\ mark \in 1..(filesize - 1) \cup {None}
  /\ fstart = filesize /\ found = None /\ endpos = filesize
  /\ scan = "on"

(* Mutant: the blocks do not overlap. *)
Seen_apart(from) ==
  mark # None /\ mark - 1 >= from /\ mark < from + Block

(* The newline and the '~' are both among the tread bytes from "from" on. *)
Seen(from) ==
  LET rest  == endpos - from
      tread == IF rest > Block + Overlap THEN Block + Overlap ELSE rest
  IN  mark # None /\ mark - 1 >= from /\ mark < from + tread

Back(n) == IF n > Block THEN n - Block ELSE 0

(* One round of the while loop: found is relative to the block when something
   is seen in it, and fstart is added whether or not that happened now. *)
ScanBlock ==
  LET from  == Back(fstart)
      local == IF Seen(from) THEN mark - from ELSE found
  IN  /\ scan = "on" /\ fstart > 0
      /\ fstart' = from
      /\ found' = IF local > 0 THEN local + from ELSE local
      /\ UNCHANGED <<filesize, mark, endpos, scan>>

EndScan ==
  /\ scan = "on" /\ fstart = 0
  /\ endpos' = found
  /\ scan' = "done"
  /\ UNCHANGED <<filesize, mark, fstart, found>>

ScanNext == ScanBlock \/ EndScan

ScanSpec == ScanInit /\ [][ScanNext]_scanVars
----------------------------------------------------------------------------
(* "we look backwards through the file for a line starting with ~"
   (logreplay.c:243): the recovered end of the log is that line. *)
FindsLastDiff == scan = "done" => endpos = mark

(* In a log of at most two blocks, or when the line is missing, the scan does
   find what it looks for (replay_begin). *)
FindsInShortLog == filesize <= 2 * Block \/ mark = None => FindsLastDiff
=============================================================================
