------------------------------ MODULE GameLog -------------------------------
(***************************************************************************)
(* The life of one .nhgame file: libnitrohack/src/log.c writing it,        *)
(* allmain.c (nh_start_game, nh_command, nh_restore_game) deciding what to *)
(* write when, save.c and end.c closing it, and the process dying between  *)
(* any two write calls.  One process uses the file at a time.              *)
(*                                                                         *)
(* Positions count tokens: "the file pointer is at n" means that n tokens  *)
(* precede it.  The newline log_finish writes is only white space between  *)
(* tokens and moves no position.  Every write call is one step, so a crash *)
(* can fall between any two of them; what a write call wrote survives.     *)
(***************************************************************************)
EXTENDS GameReplay, FiniteSets

CONSTANTS
  MaxLog,       \* bound: slots of the file
  MaxMoves,     \* bound: commands executed in one world
  MaxCrashes,   \* bound: process deaths
  MaxOptions,   \* bound: option changes
  MaxSaves,     \* bound: games saved on leaving
  ReadAhead,    \* TRUE: fclose leaves the shared file offset where stdio
                \* read ahead to; FALSE: it moves it back to the last byte used
  Partial       \* TRUE: the player may leave in the middle of a command

ASSUME BoundsAssumption ==
  /\ MaxLog \in Nat /\ MaxMoves \in Nat /\ MaxCrashes \in Nat
  /\ MaxOptions \in Nat /\ MaxSaves \in Nat
  /\ ReadAhead \in BOOLEAN /\ Partial \in BOOLEAN

Slots == 1..MaxLog

VARIABLES
  \* the file
  hdr,      \* the header line: status, endpos, action count
  body,     \* body[i]: the i-th token, or Hole
  size,     \* number of slots in the file
  \* the process
  pc,       \* what the process does next with the log
  pos,      \* file offset of logfile
  lastCmd,  \* last_cmd_pos
  acts,     \* action_count
  base,     \* *last_cmd_state: the save the next diff is made against
  world,    \* the game state in memory
  cur,      \* the command being executed
  asked,    \* cur has asked for its input
  dying,    \* done() was called: the game is over
  force,    \* force_replay
  \* how often the bounded things happened
  used      \* [crash, opt, save], and dead: headers that vouch for a death

file  == <<hdr, body, size>>
proc  == <<pos, lastCmd, acts, base, world, cur, asked, dying, force>>
vars  == <<file, pc, proc, used>>

Status == {"none", "inpr", "save", "done"}
Header == [st : Status, end : 0..MaxLog, acts : Nat]

PCs == {"off", "setup", "ready", "play", "mark", "data", "header", "finish", "entry",
        "saving", "read", "unwind", "retry", "ending", "truncate", "refused"}

(* Program counters at which a game is in memory. *)
InMemory == {"setup", "ready", "play", "mark", "data", "header", "finish", "entry",
             "saving", "ending", "truncate"}

TypeOK ==
  /\ hdr \in Header
  /\ body \in [Slots -> Token]
  /\ size \in 0..MaxLog
  /\ pc \in PCs
  /\ pos \in 0..MaxLog
  /\ lastCmd \in 0..MaxLog
  /\ acts \in Nat
  /\ base \in Worlds \cup {NoWorld}
  /\ world \in Worlds \cup {NoWorld}
  /\ cur \in Commands \cup {NoCmd}
  /\ asked \in BOOLEAN /\ dying \in BOOLEAN /\ force \in BOOLEAN
  /\ used \in [crash : Nat, opt : Nat, save : Nat, dead : Nat]
  /\ pc \in InMemory => world \in Worlds
  /\ pc = "play" => cur \in Commands
  /\ \A i \in Slots : body[i].t = "bin" => body[i].w \in Worlds

----------------------------------------------------------------------------
(* File operations. *)

Larger(m, n) == IF m >= n THEN m ELSE n

(* write() at the file offset: the slot is overwritten, the file may grow. *)
Write(tok) ==
  /\ pos < MaxLog
  /\ body' = [body EXCEPT ![pos+1] = tok]
  /\ size' = Larger(size, pos+1)
  /\ pos' = pos + 1

(* ftruncate(fd, n), which may also extend the file with a hole. *)
Truncate(n) ==
  /\ body' = [i \in Slots |-> IF i <= n THEN body[i] ELSE Hole]
  /\ size' = n

(* A process that is gone remembers nothing. *)
Forget ==
  /\ pos' = 0 /\ lastCmd' = 0 /\ acts' = 0 /\ base' = NoWorld
  /\ world' = NoWorld /\ cur' = NoCmd /\ asked' = FALSE /\ dying' = FALSE
  /\ force' = FALSE

----------------------------------------------------------------------------
(* Playing. *)

(* log_newgame: header with endpos 0, then seed, player, command list,
   options and time zone; newgame() then builds the world. *)
NewGame ==
  /\ pc = "off" /\ hdr.st = "none"
  /\ MaxLog > 0
  /\ hdr' = [st |-> "inpr", end |-> 0, acts |-> 0]
  /\ body' = [body EXCEPT ![1] = Tok("setup")]
  /\ size' = 1
  /\ pos' = 1
  /\ lastCmd' = 1
  /\ world' = NewWorld
  /\ base' = NoWorld
  /\ pc' = "setup"
  /\ UNCHANGED <<acts, cur, asked, dying, force, used>>

(* log_option: an option changed between two commands.  last_cmd_pos moves,
   the header does not. *)
SetOption ==
  /\ pc = "ready" /\ used.opt < MaxOptions
  /\ Write(Tok("opt"))
  /\ lastCmd' = pos + 1
  /\ used' = [used EXCEPT !.opt = @ + 1]
  /\ UNCHANGED <<hdr, pc, acts, base, world, cur, asked, dying, force>>

(* nh_command up to command_input: log_command. *)
StartCommand(c) ==
  /\ pc = "ready" /\ Len(world) < MaxMoves
  /\ Write(CmdTok(c))
  /\ cur' = c
  /\ asked' = FALSE
  /\ pc' = "play"
  /\ UNCHANGED <<hdr, lastCmd, acts, base, world, dying, force, used>>

(* The command asks the player; log_getdir and its likes record the answer. *)
LogInput ==
  /\ pc = "play" /\ Asks(cur, world) /\ ~asked
  /\ Write(Tok("in"))
  /\ asked' = TRUE
  /\ UNCHANGED <<hdr, pc, lastCmd, acts, base, world, cur, dying, force, used>>

(* Mutant: the offset goes back, but the tokens stay in the file. *)
RevertCommand_keep ==
  /\ pc = "play"
  /\ pos' = lastCmd
  /\ cur' = NoCmd
  /\ pc' = "ready"
  /\ UNCHANGED <<file, lastCmd, acts, base, world, asked, dying, force, used>>

(* Mutant: one token too many is cut. *)
RevertCommand_deep ==
  /\ pc = "play"
  /\ Truncate(lastCmd - 1)
  /\ pos' = lastCmd - 1
  /\ cur' = NoCmd
  /\ pc' = "ready"
  /\ UNCHANGED <<hdr, lastCmd, acts, base, world, asked, dying, force, used>>

(* A CMD_NOTIME command changed nothing: log_revert_command cuts it out. *)
RevertCommand ==
  /\ pc = "play"
  /\ Truncate(lastCmd)
  /\ pos' = lastCmd
  /\ cur' = NoCmd
  /\ pc' = "ready"
  /\ UNCHANGED <<hdr, lastCmd, acts, base, world, asked, dying, force, used>>

(* log_command_result starts: the RNG state.  The diff follows only when no
   multi-turn command or occupation is under way.  done() takes the same
   path with the world the hero died in. *)
LogResult(w, dead) ==
  /\ Write(ResTok(w))
  /\ world' = w
  /\ dying' = dead
  /\ pc' = IF Busy(w) THEN "header" ELSE "mark"
  /\ UNCHANGED <<hdr, lastCmd, acts, base, cur, asked, force, used>>

FirstResult == pc = "setup" /\ LogResult(world, FALSE)

FinishCommand(dead) ==
  /\ pc = "play" /\ (Asks(cur, world) => asked)
  /\ dead <=> Fatal(Append(world, cur))
  /\ LogResult(Append(world, cur), dead)

(* "\n~", then " f:" and the diff: two write calls. *)
LogMark ==
  /\ pc = "mark"
  /\ Write(Tok("mark"))
  /\ pc' = "data"
  /\ UNCHANGED <<hdr, lastCmd, acts, base, world, cur, asked, dying, force, used>>

LogDiff ==
  /\ pc = "data"
  /\ Write(DiffTok(base, world))
  /\ base' = world
  /\ acts' = acts + 1
  /\ pc' = "header"
  /\ UNCHANGED <<hdr, lastCmd, world, cur, asked, dying, force, used>>

(* Mutant: the header is written before last_cmd_pos moves. *)
CommitHeader_early ==
  /\ pc = "header"
  /\ lastCmd' = pos
  /\ hdr' = [st |-> "inpr", end |-> lastCmd, acts |-> acts]
  /\ cur' = NoCmd
  /\ pc' = IF dying THEN "finish" ELSE "ready"
  /\ used' = [used EXCEPT !.dead = @ + (IF dying THEN 1 ELSE 0)]
  /\ UNCHANGED <<body, size, pos, acts, base, world, asked, dying, force>>

(* log_command_result ends: last_cmd_pos, and the header that commits it. *)
CommitHeader ==
  /\ pc = "header"
  /\ lastCmd' = pos
  /\ hdr' = [st |-> "inpr", end |-> pos, acts |-> acts]
  /\ cur' = NoCmd
  /\ pc' = IF dying THEN "finish" ELSE "ready"
  /\ used' = [used EXCEPT !.dead = @ + (IF dying THEN 1 ELSE 0)]
  /\ UNCHANGED <<body, size, pos, acts, base, world, asked, dying, force>>

(* done(): log_finish(LS_DONE) leaves the offset at last_cmd_pos, *)
FinishGame ==
  /\ pc = "finish"
  /\ hdr' = [hdr EXCEPT !.st = "done", !.end = lastCmd]
  /\ pos' = lastCmd
  /\ pc' = "entry"
  /\ UNCHANGED <<body, size, lastCmd, acts, base, world, cur, asked, dying, force, used>>

(* where write_log_toptenentry adds the score entry; the process has no more
   use for the log. *)
LogEntry ==
  /\ pc = "entry" /\ pos < MaxLog
  /\ body' = [body EXCEPT ![pos+1] = Tok("top")]
  /\ size' = Larger(size, pos+1)
  /\ pc' = "off"
  /\ Forget
  /\ UNCHANGED <<hdr, used>>

----------------------------------------------------------------------------
(* Leaving. *)

(* dosave0: log_finish(LS_SAVED) rewrites the header and leaves the offset at
   last_cmd_pos.  It happens between commands, or (Partial) in the middle of
   one that has not killed the hero: the connection is lost, or panic() saves
   what it can. *)
BeginSave ==
  /\ used.save < MaxSaves
  /\ \/ pc = "ready" /\ world' = world
     \/ Partial /\ pc = "play" /\ world' = world
     \/ Partial /\ pc = "play" /\ world' = Append(world, cur) /\ ~Fatal(world')
  /\ hdr' = [hdr EXCEPT !.st = "save", !.end = lastCmd]
  /\ pos' = lastCmd
  /\ pc' = "saving"
  /\ used' = [used EXCEPT !.save = @ + 1]
  /\ UNCHANGED <<body, size, lastCmd, acts, base, cur, asked, dying, force>>

(* store_mf: the binary save over whatever follows last_cmd_pos; then the
   process lets go of the game. *)
StoreSave ==
  /\ pc = "saving" /\ pos < MaxLog
  /\ body' = [body EXCEPT ![pos+1] = BinTok(world)]
  /\ size' = Larger(size, pos+1)
  /\ pc' = "off"
  /\ Forget
  /\ UNCHANGED <<hdr, used>>

(* The process dies (kill -9, a signal, the machine, or by itself when the
   game was refused) and, if it was in store_mf, may leave part of the save
   behind. *)
Die ==
  /\ pc # "off" /\ used.crash < MaxCrashes
  /\ pc' = "off"
  /\ Forget
  /\ used' = [used EXCEPT !.crash = @ + 1]

Crash == Die /\ UNCHANGED file

CrashInStore ==
  /\ pc = "saving" /\ pos < MaxLog
  /\ Die
  /\ body' = [body EXCEPT ![pos+1] = Tok("torn")]
  /\ size' = Larger(size, pos+1)
  /\ UNCHANGED hdr

----------------------------------------------------------------------------
(* Coming back: nh_restore_game. *)

(* nh_get_savegame_status: LS_CRASHED when the header still says "inpr", and
   when a save was announced but nothing follows the log. *)
Crashed == hdr.st = "inpr" \/ (hdr.st = "save" /\ size = hdr.end)

(* Mutant: the retry does not force a replay. *)
OpenLog_again ==
  /\ pc \in {"off", "retry"} /\ hdr.st \in {"inpr", "save"}
  /\ force' = Crashed
  /\ lastCmd' = hdr.end
  /\ acts' = hdr.acts
  /\ pc' = IF hdr.end = 0 THEN "refused" ELSE "read"
  /\ UNCHANGED <<file, pos, base, world, cur, asked, dying, used>>

(* replay_set_logfile and replay_begin; a retry comes here with force_replay
   already set.  With endpos still 0 no first result
   was ever committed; the backward scan for '~' misses on every real log
   (module RecoveryScan) and the restore is refused. *)
OpenLog ==
  /\ pc \in {"off", "retry"} /\ hdr.st \in {"inpr", "save"}
  /\ force' = (pc = "retry" \/ Crashed)
  /\ lastCmd' = hdr.end
  /\ acts' = hdr.acts
  /\ pc' = IF hdr.end = 0 THEN "refused" ELSE "read"
  /\ UNCHANGED <<file, pos, base, world, cur, asked, dying, used>>

(* Where the shared offset is once stdio read the log up to slot n. *)
OffsetAfter(n) == IF ReadAhead THEN n..Larger(n, size) ELSE {n}

HasImage == hdr.end < size /\ body[hdr.end+1].t = "bin"

(* dorecover_fd: load the binary save, then cut it off the file. *)
LoadSave ==
  /\ pc = "read" /\ ~force /\ HasImage
  /\ world' = body[hdr.end+1].w
  /\ Truncate(hdr.end)
  /\ pos' \in OffsetAfter(hdr.end)
  /\ pc' = "ending"
  /\ UNCHANGED <<hdr, lastCmd, acts, base, cur, asked, dying, force, used>>

(* What follows the log is no save: uptodate() or mread() gives up. *)
LoadFails ==
  /\ pc = "read" /\ ~force /\ ~HasImage
  /\ pos' \in OffsetAfter(hdr.end)
  /\ pc' = "unwind"
  /\ UNCHANGED <<file, lastCmd, acts, base, world, cur, asked, dying, force, used>>

(* The forced replay, from newgame() to replay_sync_save. *)
ReplayLog ==
  /\ pc = "read" /\ force /\ Outcome(body, hdr.end) \in Worlds
  /\ world' = Outcome(body, hdr.end)
  /\ pos' \in OffsetAfter(hdr.end)
  /\ pc' = "ending"
  /\ UNCHANGED <<file, lastCmd, acts, base, cur, asked, dying, force, used>>

(* Where the replay gave up: the first token after which it has failed. *)
FailsAt ==
  {n \in 1..hdr.end : IF Replay(body, hdr.end).fail
                       THEN Replay(body, n).fail /\ ~Replay(body, n-1).fail
                       ELSE n = hdr.end}

ReplayFails ==
  /\ pc = "read" /\ force /\ Outcome(body, hdr.end) \notin Worlds
  /\ ~Died(Replay(body, hdr.end))
  /\ \E n \in FailsAt : pos' \in OffsetAfter(n)
  /\ pc' = "unwind"
  /\ UNCHANGED <<file, lastCmd, acts, base, world, cur, asked, dying, force, used>>

(* The hero dies in the replay.  done() runs with logging off: log_command_result
   and log_finish do nothing, but write_log_toptenentry writes its entry where
   stdio has read ahead to, behind the fatal command or over what follows it;
   fclose then moves the offset by as much as stdio had not used.  The entry
   counts as one token wherever it lands. *)
ReplayDies ==
  /\ pc = "read" /\ force /\ Died(Replay(body, hdr.end))
  /\ \E n \in FailsAt : \E at \in n..size :
       /\ at < MaxLog
       /\ body' = [body EXCEPT ![at+1] = Tok("top")]
       /\ size' = Larger(size, at+1)
       /\ pos' \in n..size'
  /\ pc' = "unwind"
  /\ UNCHANGED <<hdr, lastCmd, acts, base, world, cur, asked, dying, force, used>>

(* replay_end, with logging already switched on again: log_timezone if the
   zone changed, log_option for every option the replay left different from
   what the player has now.  All of it at the present file offset. *)
LogZone ==
  /\ Write(Tok("tz"))
  /\ UNCHANGED lastCmd

LogOptions ==
  /\ Write(Tok("opt"))
  /\ lastCmd' = pos + 1

ReplayEnd ==
  \/ UNCHANGED <<body, size, pos, lastCmd>>
  \/ used.opt < MaxOptions /\ (LogZone \/ LogOptions)

EndReplay ==
  /\ pc = "ending"
  /\ ReplayEnd
  /\ used' = IF pos' # pos THEN [used EXCEPT !.opt = @ + 1] ELSE used
  /\ pc' = "truncate"
  /\ UNCHANGED <<hdr, acts, base, world, cur, asked, dying, force>>

(* Mutant: the next diff is made against the world just loaded. *)
TruncateLog_base ==
  /\ pc = "truncate"
  /\ Truncate(lastCmd)
  /\ pos' = lastCmd
  /\ base' = world
  /\ pc' = "ready"
  /\ UNCHANGED <<hdr, lastCmd, acts, world, cur, asked, dying, force, used>>

(* log_truncate and log_init; the player goes on. *)
TruncateLog ==
  /\ pc = "truncate"
  /\ Truncate(lastCmd)
  /\ pos' = lastCmd
  /\ base' = NoWorld
  /\ pc' = "ready"
  /\ UNCHANGED <<hdr, lastCmd, acts, world, cur, asked, dying, force, used>>

(* error_out: replay_end all the same, then one more try by forced replay if
   it was the binary save that failed; else ERR_REPLAY_FAILED. *)
Unwind ==
  /\ pc = "unwind"
  /\ ReplayEnd
  /\ used' = IF pos' # pos THEN [used EXCEPT !.opt = @ + 1] ELSE used
  /\ pc' = IF force THEN "refused" ELSE "retry"
  /\ UNCHANGED <<hdr, acts, base, world, cur, asked, dying, force>>

----------------------------------------------------------------------------
Init ==
  /\ hdr = [st |-> "none", end |-> 0, acts |-> 0]
  /\ body = [i \in Slots |-> Hole]
  /\ size = 0
  /\ pc = "off"
  /\ pos = 0 /\ lastCmd = 0 /\ acts = 0
  /\ base = NoWorld /\ world = NoWorld
  /\ cur = NoCmd /\ asked = FALSE /\ dying = FALSE /\ force = FALSE
  /\ used = [crash |-> 0, opt |-> 0, save |-> 0, dead |-> 0]

Play ==
  \/ NewGame
  \/ SetOption
  \/ \E c \in Commands : StartCommand(c)
  \/ LogInput
  \/ RevertCommand
  \/ FirstResult
  \/ \E dead \in BOOLEAN : FinishCommand(dead)
  \/ LogMark
  \/ LogDiff
  \/ CommitHeader
  \/ FinishGame
  \/ LogEntry

Leave == BeginSave \/ StoreSave \/ Crash \/ CrashInStore

Resume ==
  \/ OpenLog
  \/ LoadSave
  \/ LoadFails
  \/ ReplayLog
  \/ ReplayFails
  \/ ReplayDies
  \/ EndReplay
  \/ TruncateLog
  \/ Unwind

Next == Play \/ Leave \/ Resume

Spec == Init /\ [][Next]_vars

(* A restore that has begun runs to its end: nh_restore_game waits for nobody.
   Nothing is assumed of the player, who need not play, leave or come back. *)
Restoring == pc # "off" /\ Resume

FairSpec == Spec /\ WF_vars(Restoring)
----------------------------------------------------------------------------
(* Properties. *)

(* Where last_cmd_pos, the file offset, the end of the file and endpos lie
   with respect to each other, step by step: what every seek and truncation in
   log.c, save.c and nh_restore_game relies on. *)
Bookkeeping ==
  /\ pc \in {"setup", "ready", "play", "mark", "data", "header"}
       => size = pos /\ lastCmd <= pos
  /\ pc = "ready" => lastCmd = pos
  /\ pc \in {"setup", "ready", "play", "mark", "data", "header", "finish", "entry",
              "saving", "read", "ending", "truncate"} => hdr.end <= lastCmd
  /\ pc \in {"entry", "saving", "ending"} => hdr.end <= pos
  /\ pc = "unwind" /\ ~force => hdr.end <= pos
  /\ hdr.st = "none" => hdr.end = 0

(* The slots of the journal: what the header vouches for or, once a forced
   replay has begun, what of it the replay gets through. *)
Journaled ==
  {i \in 1..hdr.end : force /\ pc \in {"read", "unwind"} => \E n \in FailsAt : i <= n}

(* Playing, leaving, dying and coming back all seek and truncate in the same
   file (log.c, logreplay.c, files.c, save.c); none of it rewrites or cuts off
   a token of the journal.  A forced replay that fails is the one that spares
   only what it has read: replay_end writes wherever the reader stopped, and
   done() wherever stdio has read ahead to.  NoLostGame says when it happens. *)
JournalKept ==
  [][/\ hdr.end <= hdr'.end
     /\ \A i \in Journaled : body'[i] = body[i]]_vars

(* A game whose first turn was committed is never refused by nh_restore_game,
   wherever the process died (ERR_REPLAY_FAILED offers the player to delete
   the game, clientcmd.c ccmd_restore_game), unless its hero is dead: a crash
   between log_command_result and log_finish in done() leaves a log that still
   says "inpr", and the death is replayed. *)
NoLostGame == pc = "refused" => hdr.end = 0 \/ used.dead > 0

(* The reader comes to a command that asks for an input, and the journal has
   something else there: it holds the command with the inputs it asked for
   when it was recorded, which a replay from another world may not match. *)
Unanswered ==
  \E n \in 1..(hdr.end - 1) :
    LET r == Replay(body, n)
    IN  r.asks /\ ~r.fail /\ body[n+1].t # "in"

(* The journal of a finished command restores to the very world its result
   recorded, whatever was lost, rolled back or replayed before it, unless a
   replayed command asks for an input that it never asked for, or kills the
   hero. *)
LastResult == CHOOSE k \in 1..hdr.end : /\ body[k].t = "res"
                                        /\ \A i \in (k+1)..hdr.end : body[i].t # "res"

FinishedTurnRestores ==
  hdr.end > 0 /\ ~Unanswered /\ ~Died(Replay(body, hdr.end))
    => Busy(body[LastResult].w) \/ Outcome(body, hdr.end) = body[LastResult].w

(* While the game waits for a command, nothing in the file is beyond what
   last_cmd_pos covers: a half-written command never survives a restore, a
   revert or a result to be taken for part of the game. *)
NothingPending == pc = "ready" => pos = lastCmd /\ size = lastCmd

(* A restore that opened the log gets the player back into the game, is refused
   for good because the hero is dead, or dies with the process: the retry after
   a failed load does not go round forever. *)
RestoreEnds ==
  (pc = "read") ~> (pc \in {"ready", "off"} \/ (pc = "refused" /\ used.dead > 0))

(* The file as the promise of DurableGame. *)
Live    == IF pc \in {"off", "refused", "read", "unwind", "retry", "entry"}
             THEN NoWorld ELSE world
Durable == IF hdr.end = 0 THEN NoWorld ELSE Outcome(body, hdr.end)
Saved   == IF hdr.st = "save" /\ HasImage THEN body[hdr.end+1].w ELSE NoWorld
Ended   == hdr.st = "done" \/ (hdr.end > 0 /\ Durable = NoWorld)

Promise == INSTANCE DurableGame WITH
  World <- Worlds, None <- NoWorld, Unfinished <- Busy, Dead <- Fatal,
  durable <- Durable, live <- Live, saved <- Saved, over <- Ended

(* Every run of the log keeps the promise: what a restore hands back is the
   image left by the last complete save, or else the world of the last
   finished command; only the death of the hero makes a log that cannot be
   restored (log_command_result, dosave0, done, nh_restore_game). *)
KeepsPromise == Promise!Spec
=============================================================================
