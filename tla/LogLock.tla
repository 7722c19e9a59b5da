------------------------------- MODULE LogLock -------------------------------
(***************************************************************************)
(* The locks on the game logs.  Several processes (games of a server, or   *)
(* local programs) list, start, restore, play and finish the games of one  *)
(* directory.  lock_fd takes a POSIX record lock on the whole file: it     *)
(* belongs to the process, and the process loses it when it closes any     *)
(* descriptor of that file, a duplicate included.                          *)
(*                                                                         *)
(* A log is its status word and whether a binary image follows the tokens. *)
(* What else is in it is told apart only by who knows it: a process is     *)
(* stale when another has written to the log since it took it up.          *)
(***************************************************************************)
EXTENDS Naturals

CONSTANTS Procs, Logs, Nobody

ASSUME NobodyIsNoProcess == Nobody \notin Procs
ASSUME SomeLog == Logs # {}

VARIABLES
  log,        \* [Logs -> [st, img]]: status word, image present
  lock,       \* [Logs -> Procs \cup {Nobody}]: who holds the record lock
  proc,       \* [Procs -> [at, log, saw, why]]: stage, log, status seen, what for
  stale       \* processes that know less of their log than is in it

lockVars == <<log, lock, proc, stale>>

-----------------------------------------------------------------------------
At(p) == proc[p].at
On(p) == proc[p].log
To(p, stage) == proc' = [proc EXCEPT ![p].at = stage]

\* Between games a process has no log: log and saw mean nothing then.
Idle == [at |-> "menu", log |-> CHOOSE g \in Logs : TRUE, saw |-> "crashed", why |-> "restore"]
Home(p) == proc' = [proc EXCEPT ![p] = Idle]

\* From replay_begin (or log_newgame) on a process keeps in memory what the
\* log held then.
Knowing == {"loading", "loaded", "ended", "first", "again", "saved", "dead", "imaging", "scoring"}
Playing == {"first", "again"}

\* fcntl(F_SETLK) succeeds for the process that holds the lock already.
Free(p) == lock[On(p)] \in {Nobody, p}
Take(p) == lock' = [lock EXCEPT ![On(p)] = p]

\* unlock_fd, and close or fclose of any descriptor of the log.
Drop(p) == lock' = [lock EXCEPT ![On(p)] = IF @ = p THEN Nobody ELSE @]

Write(p, l) ==
  /\ log' = [log EXCEPT ![On(p)] = l]
  /\ stale' = stale \cup {q \in Procs \ {p} : On(q) = On(p) /\ At(q) \in Knowing}
Reads == UNCHANGED log

-----------------------------------------------------------------------------
(* nh_get_savegame_status: the header is read, then the lock is tried.     *)

\* A saved game without its image is one that crashed; force is the second
\* try of nh_restore_game, which replays whatever the header says.
Status(g, force) == CASE log[g].st = "done" -> "done"
                      [] log[g].st = "save" /\ log[g].img /\ ~force -> "saved"
                      [] OTHER -> "crashed"

\* ccmd_list_games, list_gamefiles ("list") and nh_restore_game ("restore")
\* ask; a log that has no header yet is LS_INVALID and asks for no lock.
ReadHeader(p, g, why) ==
  /\ At(p) = "menu" /\ log[g].st \notin {"absent", "empty"}
  /\ proc' = [proc EXCEPT ![p] = [at |-> "status", log |-> g, saw |-> Status(g, FALSE), why |-> why]]
  /\ UNCHANGED <<lock, stale>> /\ Reads

\* "if we can't lock the file, it's in use"
TryStatusLock(p) ==
  /\ At(p) = "status"
  /\ IF Free(p) THEN Take(p) /\ To(p, "probed")
     ELSE UNCHANGED lock /\ proc' = [proc EXCEPT ![p].at = "probed", ![p].saw = "playing"]
  /\ UNCHANGED stale /\ Reads

\* "don't need the lock, we're not going to write"; a list closes the file,
\* a game that is over or being played is not restored.
Wanted(p) == proc[p].why = "restore" /\ proc[p].saw \in {"saved", "crashed"}

StatusKnown_keeps(p) ==               \* mutant: only who goes on unlocks; the server leaves the file open
  /\ At(p) = "probed"
  /\ IF Wanted(p) \/ proc[p].why = "list" THEN Drop(p) ELSE UNCHANGED lock
  /\ IF Wanted(p) THEN To(p, "locking") ELSE Home(p)
  /\ UNCHANGED stale /\ Reads

StatusKnown(p) ==
  /\ At(p) = "probed"
  /\ Drop(p)
  /\ IF Wanted(p) THEN To(p, "locking") ELSE Home(p)
  /\ UNCHANGED stale /\ Reads

-----------------------------------------------------------------------------
(* nh_start_game                                                           *)

\* open(O_EXCL | O_CREAT)
Create(p, g) ==
  /\ At(p) = "menu" /\ log[g].st = "absent"
  /\ log' = [log EXCEPT ![g].st = "empty"]
  /\ proc' = [proc EXCEPT ![p].at = "created", ![p].log = g]
  /\ UNCHANGED <<lock, stale>>

LockNew_none(p) ==                    \* mutant: "FIXME: needs file locking"
  /\ At(p) = "created" /\ To(p, "header")
  /\ UNCHANGED <<lock, stale>> /\ Reads

\* log_newgame panics when it cannot lock; it never has to (NewGameIsOwn).
LockNew(p) ==
  /\ At(p) = "created" /\ Free(p)
  /\ Take(p) /\ To(p, "header")
  /\ UNCHANGED stale /\ Reads

LogHeader(p) ==
  /\ At(p) = "header"
  /\ Write(p, [st |-> "inpr", img |-> FALSE]) /\ To(p, "first")
  /\ UNCHANGED lock

-----------------------------------------------------------------------------
(* nh_restore_game                                                         *)

\* replay_set_logfile: one retry, a second later, then error_out.
SetLogfile(p) ==
  /\ At(p) \in {"locking", "retry"}
  /\ IF Free(p) THEN Take(p) /\ To(p, "begin")
     ELSE UNCHANGED lock /\ IF At(p) = "locking" THEN To(p, "retry") ELSE Home(p)
  /\ UNCHANGED stale /\ Reads

\* replay_begin: the header and the size are read through a duplicate of the
\* descriptor.
ReplayBegin(p) ==
  /\ At(p) = "begin" /\ To(p, "loading")
  /\ stale' = stale \ {p}
  /\ UNCHANGED lock /\ Reads

\* dorecover_fd: the image is loaded and cut off.
LoadImage(p) ==
  /\ At(p) = "loading" /\ proc[p].saw = "saved"
  /\ log[On(p)].st = "save" /\ log[On(p)].img
  /\ Write(p, [log[On(p)] EXCEPT !.img = FALSE]) /\ To(p, "loaded")
  /\ UNCHANGED lock

\* No image any more: error_out2, replay_end, unlock_fd, and from the start
\* as a forced replay.
LoadFails(p) ==
  /\ At(p) = "loading" /\ proc[p].saw = "saved"
  /\ ~(log[On(p)].st = "save" /\ log[On(p)].img)
  /\ Drop(p)
  /\ proc' = [proc EXCEPT ![p].at = "status", ![p].saw = Status(On(p), TRUE)]
  /\ stale' = stale \ {p} /\ Reads

\* Commands are executed again; a log that somebody finished meanwhile ends
\* in done(), not in a game (error_out).
Replay(p) ==
  /\ At(p) = "loading" /\ proc[p].saw = "crashed"
  /\ IF log[On(p)].st = "done" THEN Drop(p) /\ Home(p) /\ stale' = stale \ {p}
     ELSE UNCHANGED <<lock, stale>> /\ To(p, "loaded")
  /\ Reads

\* replay_end: fclose(loginfo.flog), and with it the lock.
ReplayEnd(p) ==
  /\ At(p) = "loaded"
  /\ Drop(p)
  /\ proc' = [proc EXCEPT ![p] = [Idle EXCEPT !.at = "ended", !.log = On(p)]]
  /\ UNCHANGED stale /\ Reads

LogTruncate(p) ==
  /\ At(p) = "ended"
  /\ Write(p, [log[On(p)] EXCEPT !.img = FALSE]) /\ To(p, "again")
  /\ UNCHANGED lock

-----------------------------------------------------------------------------
(* The game is played and ends.                                            *)

\* log_command and log_command_result
LogCommand(p) ==
  /\ At(p) \in Playing
  /\ Write(p, [log[On(p)] EXCEPT !.st = "inpr"])
  /\ UNCHANGED <<lock, proc>>

\* log_finish: the header (dosave0, done) ...
FinishHeader(p, status) ==
  /\ At(p) \in Playing
  /\ Write(p, [log[On(p)] EXCEPT !.st = status])
  /\ To(p, IF status = "save" THEN "saved" ELSE "dead")
  /\ UNCHANGED lock

\* ... and the lock.
FinishUnlock(p) ==
  /\ At(p) \in {"saved", "dead"}
  /\ Drop(p) /\ To(p, IF At(p) = "saved" THEN "imaging" ELSE "scoring")
  /\ UNCHANGED stale /\ Reads

\* store_mf: the image goes to the log without the lock.
StoreImage(p) ==
  /\ At(p) = "imaging"
  /\ Write(p, [log[On(p)] EXCEPT !.img = TRUE]) /\ To(p, "over")
  /\ UNCHANGED lock

\* write_log_toptenentry: so does the score.
LogScore(p) ==
  /\ At(p) = "scoring"
  /\ Write(p, log[On(p)]) /\ To(p, "mourned")
  /\ UNCHANGED lock

\* close(gamefd)
CloseLog(p) ==
  /\ At(p) \in {"over", "mourned"}
  /\ Drop(p) /\ Home(p)
  /\ stale' = stale \ {p} /\ Reads

\* The process dies, or panics and closes the log; another takes its place.
Crash(p) ==
  /\ At(p) # "menu"
  /\ Drop(p) /\ Home(p)
  /\ stale' = stale \ {p} /\ Reads

-----------------------------------------------------------------------------
LockInit ==
  /\ log = [g \in Logs |-> [st |-> "absent", img |-> FALSE]]
  /\ lock = [g \in Logs |-> Nobody]
  /\ proc = [p \in Procs |-> Idle]
  /\ stale = {}

LockStep(p) ==
  \/ \E g \in Logs : Create(p, g) \/ \E why \in {"list", "restore"} : ReadHeader(p, g, why)
  \/ LockNew(p) \/ LogHeader(p)
  \/ TryStatusLock(p) \/ StatusKnown(p) \/ SetLogfile(p)
  \/ ReplayBegin(p) \/ LoadImage(p) \/ LoadFails(p) \/ Replay(p) \/ ReplayEnd(p) \/ LogTruncate(p)
  \/ LogCommand(p) \/ \E status \in {"save", "done"} : FinishHeader(p, status)
  \/ FinishUnlock(p) \/ StoreImage(p) \/ LogScore(p) \/ CloseLog(p)
  \/ Crash(p)

LockNext == \E p \in Procs : LockStep(p)
LockSpec == LockInit /\ [][LockNext]_lockVars

-----------------------------------------------------------------------------
Stages == {"menu", "status", "probed", "locking", "retry", "created", "header", "first",
           "begin", "loading", "loaded", "ended", "again", "saved", "dead", "imaging", "scoring",
           "over", "mourned"}
ProcStates == [at : Stages, log : Logs, saw : {"crashed", "saved", "done", "playing"},
               why : {"list", "restore"}]
LogStates == [st : {"absent", "empty", "inpr", "save", "done"}, img : BOOLEAN]
LockTypeOK ==
  /\ log \in [Logs -> LogStates]
  /\ lock \in [Logs -> Procs \cup {Nobody}]
  /\ proc \in [Procs -> ProcStates]
  /\ stale \subseteq Procs

\* Where the code counts on the lock: a game that is being started or is in
\* its first sitting, a log that is being loaded or replayed.
Counting == {"header", "first", "saved", "dead", "begin", "loading", "loaded"}

\* A new game is its process's own.  log_newgame finds the log free (who lists
\* the games asks for no lock while there is no header), and until log_finish
\* no other process starts, loads or replays the game and nothing gets into
\* the log that its process does not know.  Two processes never load or replay
\* one log at the same time.
NewGameIsOwn ==
  /\ \A p \in Procs : At(p) = "created" => Free(p)
  /\ \A p \in Procs : At(p) = "first" =>
       /\ p \notin stale
       /\ \A q \in Procs \ {p} : On(q) = On(p) => At(q) \notin Counting \cup Knowing
  /\ \A p, q \in Procs :
       p # q /\ On(p) = On(q) => ~({At(p), At(q)} \subseteq {"begin", "loading", "loaded"})

\* Nobody who is done with a log keeps it locked: every way out of a status
\* request, a failed restore or a game gives the lock back.
NoForgottenLock ==
  \A g \in Logs, p \in Procs :
    lock[g] = p => On(p) = g /\ At(p) \notin {"menu", "ended", "over", "mourned"}

\* "if we can't lock the file, it's in use": what is in use is locked, so no
\* two processes play one game.  Not so: a restored game has lost its lock
\* (ReplayEnd), and the next who asks may restore it once more.
OnePlayer == \A p, q \in Procs : {At(p), At(q)} \subseteq Playing /\ On(p) = On(q) => p = q
=============================================================================
