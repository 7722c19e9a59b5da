# A TLA+ verification of LoongHack

LoongHack is a NetHack variant (a DynaHack descendant): a game library in C, a
curses client, a client library and a server over which the game is played. What
can go wrong in it beyond the rules of the game is in the log a game is
recorded in and restored from, in the server's event loop with its one process
per player, and in the client's retries. These parts are modelled here in TLA+,
checked on small instances with TLC, and proved about with TLAPS.

Contents: 1 the system, 2 the modules and the code they model, 3 the runs,
4 what is proved, 5 where code and comments part, 6 what is not modelled,
7 plan. `PROJECT.json` holds the same as data: components, runs, the source
lines of every definition, hazards, theorems.

## 1. The system

    nitrohack (curses) --- libnitrohack                (local game)
    nitrohack (curses) --- libnitrohack_client ==TCP/AF_UNIX== server master
                                                                 |pipes, one pair
                                                                 |per user
                                                          game process
                                                          (libnitrohack)
                                                             |         |
                                                       .nhgame log   PostgreSQL

**Game log** (`libnitrohack/src/log.c`, `logreplay.c`; entered from `allmain.c`,
`save.c`, `restore.c`, `end.c`). State: the file (a header with status, end
position `endpos` and action count; the tokens; perhaps a binary image at the
end), the descriptor's offset, `last_cmd_pos`, `action_count`, the save the last
diff was made of. Operations: start a log, log an option, a command, an input, a
result with its diff, revert a command, finish, save, restore from the image, or
by executing the log again ("forced replay"). Hard: every write can be the
last one; three independent positions into one file; a descriptor shared with
stdio; a failed restore that starts over in the same process. Correct when no
committed turn is lost, a restore ends in the saved or last committed world, and
nothing half-written is taken for part of the game.

**Binary diffs** (`memfile.c`, `replay_check_diff`). State: a buffer, a position
in it and in the parent, the run being collected. Operations: write, tag a
section, align, flush. Hard: 14-bit counts, signed seeks that are split and
merged. Correct when the reader rebuilds every byte and refuses no diff.

**Recovery scan** (`replay_begin`). Backwards search for the last diff, in
overlapping blocks. Correct when it finds the line that is there.

**Server master** (`nitrohack_server/src/server.c`). State: descriptor table
`fd_to_client`, two lists of `client_data` with a count, unsent tails,
`termination_flag`. Operations: accept, log in, reconnect, forward either way,
clean up, shut down. Hard: edge-triggered events fetched in batches, descriptors
that are reused at once, memory freed while events for it are pending, sockets
and pipes that fill up, pipe2 and fork that fail. Correct when every client is
on its list, owns its descriptors alone, no game is unreachable, hang-ups are
noticed and a shutdown ends.

**Game process and client library** (`clientmain.c`, `winprocs.c`;
`connection.c`, `netcmd.c`). State: what was sent last, how many retries are
left; the game's input buffer and whether it waits for a command or for an
answer. Hard: an answer that is late or lost, a reconnect in the middle of a
question, a reset request in front of data. Correct when a call ends, commands
are executed in order, once, and answers belong to their commands.

**Structures of a level** (`timeout.c`, `light.c`, `region.c`, `worm.c`,
`shk.c`). Ordered timer lists and light sources tied to burning objects; gas clouds with a flag
for the hero and a list of the monsters inside; the tails of long worms, kept
as segment lists and once more in the map of monsters; a shop's bill and the objects it is
for. Sequential, but each is state kept twice, changed by functions all over the
game (`mkobj.c`, `invent.c`, `do.c`, `dog.c`, `mon.c`, `teleport.c`, `potion.c`), and long
sequences of legal calls must keep the two in step, across level changes and saves.
Correct when the counts, lists, flags and maps agree, nothing is lost or paid
twice, and what runs over a list that changes under it passes nobody over.

**Shared files** (`files.c`, `bones.c`, `topten.c`, `end.c`; `logreplay.c` for the
logs). Record locks on the game logs, bones files found by name, the list of
scores. Several processes at once, each of which may die anywhere. Correct when a
game has one player, bones are found once and every score is entered once.

**Replay viewer** (`logreplay.c`, from `nh_view_replay_start` on). State: the
place in the log, the checkpoints, the save the next diff applies to, whether
turns are executed or rebuilt from diffs. Hard: jumps between checkpoints, and a
turn that fails is left by `longjmp` in the middle and tried again by the other
method. Correct when the screen shows a recorded state, the right one where
nothing failed.

**The rest**: the rules of the game, level generation, display, curses user
interface, marshalling, accounts, configuration, build-time tools. See 6.

They interact by calls inside a process, by the log between a process and its
successor, by pipes between master and game, by sockets between master and
client, and by files between games. The modules are joined the same way: `GameLog`
uses `GameReplay` and implements `DurableGame`; it takes from `MemDiff` that a diff made
against the save the reader holds rebuilds its save, and from `RecoveryScan` that a
log with `endpos` 0 cannot be restored; that one process at a time has the log is
what `LogLock` is about, and does not hold after a restore (5); `SharedFiles` composes
`LogLock`, `Bones` and `ScoreList`: the processes that hold logs are those whose games meet
bones and die, and a process that dies does so in all three. `ReplayView` takes the same
reader as `GameReplay` with the frames `terminate` jumps to. `Burning` and `Worm` both model
monsters that leave a level, `Burning` with what they carry, `Worm` with their
tails. `NetSession` takes from `Server` that data is forwarded in order to the
connection that was authenticated last, and may be lost when a connection ends.

## 2. Modules

| module | models | state and actions |
|---|---|---|
| `GameReplay` | the reader half of `logreplay.c` | no state of its own; tokens, and one operator per reader function: `ReadCommand`, `ReadInput`, `ReadResult`, `ReadDiff`, `ReplayStep` (one round of `replay_run_cmdloop`), `Outcome` (what a forced replay hands over, `replay_sync_save` included) |
| `GameLog` | life of one log file | file `hdr`, `body`, `size`; process `pos`, `lastCmd`, `acts`, `base`, `world`; one action per function of `log.c` or, where a function writes several times, per write (`LogResult`, `LogMark`, `LogDiff`, `CommitHeader`), and per stage of `nh_restore_game` (`OpenLog`, `LoadSave`, `ReplayLog`, `ReplayDies`, `EndReplay`, `TruncateLog`, `Unwind`) |
| `DurableGame` | the promise to the player | abstract: a durable, a live and a saved world; crash, resume, finish, and a hero's death, which ends the game as soon as it is durable |
| `GameLogProofs` | | theorems about `GameLog` |
| `MemDiff` | `memfile.c` and `replay_check_diff` | `buf`, `pos`, `relativepos`, `curcmd`, `curcount`, reader `rd`; `Write`, `Tag` with its loop, `Align` with its loop, `Close` |
| `RecoveryScan` | backward scan of `replay_begin` | `fstart`, `found`, `endpos`; one action per block |
| `ReplayView` | `nh_view_replay_*`, checkpoints, `replay_run_cmdloop`, `replay_check_diff`, `terminate` | the recording; the game in memory, the checkpoints, `exit_jmp_buf`; one action per request, per round of its loop (`ReadEnd`, `CommandFails`, `ReadDiff`) and per way it ends |
| `LogReading` | | the three readers side by side, a behaviour is of one `part` |
| `LogReadingProofs` | | theorems about `RecoveryScan`, `MemDiff`, `ReplayView` and their composition |
| `LogLock` | `lock_fd`, `unlock_fd` and every open, close and status query of a log | who holds the lock, what each process does with which log; one action per API call, per stage where another process can come between |
| `Bones` | `getbones`, `savebones`, the order of `done()`, who may begin and restore a game | the file of a level; the level and fate of a game in its log; a process's stage, its game, the level in its memory; one action per open, unlink, rename and write to the log |
| `ScoreList` | `update_topten`, `toptenlist_insert`, the end of `done()` | the file, the lock, the list each process has read |
| `SharedFiles` | | composes `LogLock`, `Bones` and `ScoreList` |
| `SharedFilesProofs` | | theorems about `LogLock`, `Bones`, `ScoreList` and their composition |
| `Burning` | `timeout.c`, `light.c`, and what `do.c`, `dog.c`, `mkobj.c`, `invent.c`, `dokick.c` do to them | `timers` and `lights` per level, the objects, a monster that carries; one action per operation, one per timer run |
| `Worm` | `worm.c`, `makemon`, `clone_mon`, `replmon`, `newcham`, `mon_arrive`, `migrate_to_level`, `rloc_to`, `mnearto` | `wsegs` per slot, the map `monsters`, the monsters |
| `LevelThings` | | `Burning` and `Worm` side by side, a behaviour is of one `part` |
| `LevelThingsProofs` | | theorems about `Burning` and `Worm` |
| `Region` | `region.c` and its callers | `regions`, the places of hero and monsters; `run_regions` with one action per element of its loops |
| `RegionProofs` | | theorems about `Region` |
| `ShopBill` | `shk.c`, and `splitobj`, `mergable`, `combine_objs`, `useup`, `bill_dummy_object`, dipping | `bill`, the objects; `dopay` with one action per entry and per answer of the player |
| `ShopBillProofs` | | theorems about `ShopBill` |
| `Server` | `server.c`, with clients and games around it | the record `m` is the master and what the kernel keeps for it; one action per case of `runserver`'s loop and of `handle_communication`; operators with the names of the C functions return the master after the call |
| `ServerProofs` | | theorems about `Server` |
| `NetSession` | `send_receive_msg`, the game's command loop | `pc`, `msg`, `retry`; the wire; the pipes; `gproc`, `buf` |
| `NetSessionProofs` | | theorems about `NetSession` |
| `Sessions` | | `NetSession` and `Server` side by side, a behaviour is of one `part`, with the fairness of both |
| `MC...` | | values for TLC |

Abstractions. A world is the sequence of commands that led to it: the game is
deterministic given seed and inputs, on which the replay rests, and distinct
sequences are told apart by the RNG state in the result. Which worlds the hero is dead in
is a constant (`Fatal`). Positions in the log
count tokens, each written by one write call. In `MemDiff` the
bytes are kept and the width of the count field is a constant. In `Server` data
is counted in units with a read buffer of two, memory is a set of addresses that
malloc may hand out again, and descriptors are given out lowest first. In
`NetSession` a message arrives whole; `calm` and the message numbers are history
only.

In `Burning` fuel is counted in turns, one mark at which a lamp dims
stands for all. `Worm`'s level is a graph of squares and hit points are left
out. A region's rectangles are a set of cells; on how many squares a long worm lies in
it when it is made, and whether with its head, is any number. In `Bones` the last
process to write a game's log has its way, or nobody restores it: two processes that
write one log each at its own place leave it as the last one sees it, or unreadable. A shop knows two kinds of goods of
one price.

`LogReading`, `LevelThings` and `Sessions` put modules into one run that share no
variable. `part` is chosen at the start and no step changes it; every action of a
part leaves the others' variables alone, and no property speaks of two parts, so a
behaviour of the whole is a behaviour of one part with the rest at rest, and a
property holds of the whole when it holds of its part.

Definitions called `X_something` that are marked "Mutant" are not part of
the specifications: each is a plausible slip in the definition `X`, kept to show
that a property notices it.

## 3. Runs

`tlc -config <cfg> <module>`; states are distinct states.

| run | module, cfg | shows | bounds, states |
|---|---|---|---|
| `gamelog` | `MCGameLog`, `MCGameLog.cfg` | `NoLostGame`, `NothingPending`, `RestoreEnds` and the refinement `KeepsPromise`, players leaving between commands | 2 moves of 3 kinds (one multi-turn, one fatal), 2 process deaths, 2 saves, 1 option: 47 000 |
| `gamelog_partial` | `MCGameLogPartial.cfg` | `FinishedTurnRestores`, `JournalKept`, players leaving inside a command too | 3 moves of 2 kinds (the second dig is fatal), 2 process deaths, 1 save: 63 000 |
| `log_reading` | `MCLogReading` | `FindsInShortLog` of the scan, `Accepted` and `RoundTrip` of the diffs, `ShownIsRecorded` and `ArrivesWhereAsked` of the viewer | blocks of 4 overlapping by 2, logs of up to 5 blocks; saves of 6 bytes, runs of 5, seeks of 2, two tags; recordings of 3 actions, a checkpoint at every action: 2 286 000 |
| `view_exit` | `MCLogReadingExit.cfg` | violation of `SurvivesFailure`, see 5 | |
| `shared_files` | `MCSharedFiles` | `NewGameIsOwn`, `NoForgottenLock`, `BonesOnce`, `ScoresKept`, `ScoredOnce` | 2 processes (symmetric), 2 logs, 2 games restored 3 times, a list of 2 scores: 3 904 000 |
| `shared_twice` | `MCSharedTwice.cfg` | violation of `OnePlayer`, see 5 | |
| `level_things` | `MCLevelThings` | `TimersCounted`, `LightsMatch`, `FuelKept`, `OnlyArrivalsDisorder` of `Burning`; `TailsWhole`, `MapKept` of `Worm` | 2 levels, a stack of candles that splits and an egg, 3 turns of fuel, 2 changes of level; 3 monsters (symmetric), a corridor of 5 squares, 2 worm slots, tails of up to 4: 533 000 |
| `worm_cut_short` | `MCWormTruncated.cfg` | violation of `MapTrue`, see 5 | |
| `region` | `MCRegion` | `RegionsKnow`, `WalkIsWhole`, `CthulhuAwaited`, `CloudsPass` | 2 squares, one in the clouds, 2 clouds, the hero, Cthulhu and a long worm, lists of up to 2 monsters: 2 565 000 |
| `shop` | `MCShopBill` | `BillMatches`, `BillIsWhatIsOwed`, `PaidIsKept`, `PaymentEnds` | 3 objects of up to 2 pieces, one at first in the shop and one the hero's, a bill of 2 entries, 2 coins: 383 000 |
| `server` | `MCServer` | `ListsRight`, `OwnsFds`, `WaitsWhole`, `NoOrphan` | `QuietSpec`: clients that send nothing but their login; two connections of one user, TCP and local, 8 descriptors: 528 000 |
| `sessions` | `MCSessions` | `OnceWhenCalm`, `OrderKept`, `CallEnds` of `NetSession`; `GamesEnd`, `HangUpNoticed`, `QuietShutdownEnds` of `Server` with data and full sockets | 3 commands, the last asks a question, 3 retries as in the code, 3 faults; one client, messages of 1 and 2 units, 5 descriptors: 90 000 |

Why the bounds are enough. A log of two or three moves holds a committed turn, a
rolled-back turn and one under way; two deaths let the second one strike in the
restore from the first; a command that leaves an occupation set and one that
asks for an input meet all branches of the reader; a fatal command makes a process die with the
death in the log and the next one replay it. In `MemDiff` a run of 5 fills
up and a seek of 2 splits in a save of 6 bytes; the proofs cover all sizes. Three
actions of a recording are enough for a checkpoint before, at and after the one
asked for, with a failing turn between. Two processes are enough to race for a
lock, a bones file or the list; two logs let one process go from game to game; three
restores are one by a second process and two of a death that is replayed; a
list of two is full with every entry but the first two. Three timed things are enough for a
queue out of order and for a timer stuck behind one that is not due; two
changes of level take an object away and back. Five squares hold two worms,
no room for a third, and a monster in the way of a tail; a third monster, which no
slot is left for, is a long worm without a tail, so running out of slots is reached. Two clouds on one of two squares
leave and enter at every step, and the last one moves into the hole of the
other; a list of two holds the worm twice. A bill of two entries is full at once, and three objects are what a
split of one of two needs. In `Server` two connections of one user meet in every
state of each other, and two addresses and eight descriptors are few enough to be
reused at once; with failing forks and pipes the paths of partial failure are all
taken. Three faults and three retries in `NetSession` reach a second fault
during the recovery from the first, and running out of retries.

Bounds of their own: nothing moves in `Worm` once a map has been spoilt by a tail
that was cut short or a copy put on another's tail (`muddled`, see 5), and in `ShopBill` the hero only clears up once
two stacks were merged that should not have been; what the code does to a state it
believes impossible is not followed up further. `MaxTrips`, `MaxMoves`, `MaxClouds`,
`MaxList`, `MaxSegs`, `MaxScored`, `MaxRestored`, `MaxQuan`, `MaxLog`, `MaxCrashes` cap what is unbounded.

Type invariants (`TypeOK`, `ViewTypeOK`, `LockTypeOK`, `BurnTypeOK`, ...) stand in their
modules; those of `GameLog`, `RecoveryScan`, `MemDiff`, `ReplayView`, `NetSession`, `LogLock`, `ScoreList`, `Region`,
`ShopBill`, `Burning` and `Worm` are proved, none is a run's property.

Deadlock is not checked: a player may stop for good, a log ends, a server shuts
down.

Fairness. `GameLog`: a restore, once begun, goes on (it waits for nobody);
nothing is assumed of players. `Server`: weak fairness of the single-threaded master's next step; strong
fairness of its timer, which is only looked at when epoll_wait has nothing to
report, so it is enabled again and again rather than always, and fires in the end because a
real clock runs; a game that got SIGTERM or the end of its input exits
(clientmain.c polls for both); a client reads what is in its socket. `NetSession`:
client, master and game run; the player, the network and the inactivity timer
are free. These last three are stated in `Sessions`, each for its part. `Region`: turns
pass and `run_regions`, once begun, runs to its end, for the game loop is
sequential. `ShopBill`: a payment, once begun, goes on, with any answers.

`HangUpNoticed` includes hang-ups announced in the same event as data or while a
tail is unsent. `QuietShutdownEnds` assumes that clients become quiet, since the
code does need that, see 5.

## 4. Proofs

`GameLogProofs` (`tlapm GameLogProofs.tla`), for all commands, bounds and inputs
asked, from the assumptions named in `GameReplay` and `GameLog`. For both values of
`ReadAhead` and `Partial`:

- `TypeCorrect`: `Spec => []TypeOK`.
- `OffsetsInOrder`: `Spec => []Bookkeeping`: how `last_cmd_pos`, the file offset,
  the file's end and `endpos` lie to each other at every program point.
- `NothingIsPending`: `Spec => []NothingPending`.
- `JournalIsKept`: `Spec => JournalKept`: no step rewrites or cuts off a token the
  header vouches for, save the way out of a failed forced replay, and that spares
  what the replay has read. A death that is replayed is such a failure: `done()` writes
  its score's line where stdio has read to (`FarOn`: not before the token the replay failed at).

The inductive invariant is `TypeOK /\ Bookkeeping`. Types are not enough:
truncation and the writes of `replay_end` keep the journal only because
`last_cmd_pos`, to which they seek, is not before `endpos`, and that is so because a command,
while it is written, starts at `last_cmd_pos`. `Bookkeeping` says which of these
comparisons hold at which program point. Three lemmas, for playing, leaving and
coming back, show that it is preserved, with one step per action; each theorem
follows from it with PTL.

If `fclose` leaves the shared offset at the last byte used (`~ReadAhead`: POSIX asks
this of `fclose`, not every C library does it):

- `FinishedTurnsRestore`: `Spec => []FinishedTurnRestores`, also when players leave in the
  middle of a command and whatever commands ask; a log whose replay kills the hero restores to nothing.
- `GamesAreNotLost`: `Spec => []NoLostGame`: only a game whose hero is dead is refused, if what
  a command asks and whether it kills do not depend on the world (`AskingFixed`, `DyingFixed`),
  or if no command takes several turns (`Long = {}`) and players leave between commands (`~Partial`).
- `PromiseKept`: `Spec => KeepsPromise`, if players leave between commands, and
  `AskingFixed` and `DyingFixed`, or `Long = {}`: every step is a step of `DurableGame` or a stutter.

The hypotheses are where the code stops being right; TLC finds a counterexample to each
property when one is dropped. With `ReadAhead`, `replay_end` writes at the stray offset (5). A
multi-turn command that a crash cuts off is replayed as far as the journal goes, so the
replay by force comes to be in another world than the player was; there it may ask what no
one was asked, or kill a hero who lived, and the restore is refused although players leave only
between commands: `NoLostGame` and `KeepsPromise` fail with `AsksAtPit`, and with `FatalInPit`. A player who leaves in the middle of a
command has a save that is ahead of the journal: `KeepsPromise` fails with a multi-turn
command whatever it asks, and with none if asking depends on the world. `gamelog` has
`AsksAlways`, `FatalDraught` and a multi-turn command, `gamelog_partial` has `AsksAtPit` and `FatalInPit`.

The reader (`Replay`) is a recursive function of the tokens. What is said of it for logs of every
length is shown by a least counterexample (`NatLessThanWellFounded`): it exists, it
takes one token more at a time, and two logs that begin alike are read alike so
far. What a log's end says (`LastIs`) and whether all questions are answered (`Answered`) follow in the same way.
Then three invariants, each with one lemma per action:

- `Journal`: wherever the header or `last_cmd_pos` points the reader stands
  between two commands with the last result in its hands, in the middle of a
  command it is in the middle of that command, and a diff that is due is made against the save it
  holds (`Clean`, `Midway`, `Pending`, `Follows`), unless it has met a question nobody answers.
- `Heard`: there is no such question, since a command under way asks the reader for an
  input only when it asks the player, and the reader dies only of the last command, of which the
  hero died; so a replay by force is refused only then.
- `Steady`: until the reader has read a second diff, and always if `Long = {}`, the world it
  played is the player's (`Along`); the image of a complete save and the journal agree.

`SteadyNext` shows with the last one, action by action, which step of `DurableGame` a step is.

`LogReadingProofs`, for every size of log, block and overlap; for every parent, set of bytes
and tags, field width and length; for every recording, outcome of its commands and
distance of checkpoints:

- `ScanTypeCorrect`, `ShortLogsAreFound` (`FindsInShortLog`): in a log of up to two blocks
  `replay_begin` finds the last diff where it is; any overlap but none is enough.
- `DiffTypeCorrect`, and `AlwaysAccepted` (`Accepted`): `replay_check_diff` rejects no diff and
  takes no word for its end.
- `DiffsRoundTrip` (`RoundTrip`): the save that is rebuilt is the save that was written.
- `ViewTypeCorrect`, `ShownIsTheRecording` (`ShownIsRecorded`), `StepsArrive`
  (`ArrivesWhereAsked`): what the screen shows after a step of the viewer, and where the step leads.
- `ReadersAreRight`: all five properties of the run `log_reading`, of `LogReading`'s `Spec`
  (`EachReader`: a behaviour of the whole is one of each part).

The scan: after each block the line was seen, or it lies before the block and the block
is not the first (or, with the overlap, begins exactly there).

The diffs: the invariant relates the reader to what the writer has not written
out yet: the reader is exactly the pending run behind, `rd.pos` and `rd.dbpos`
differ from `pos` and `relativepos` by its length or seek, what it has is equal
to the start of the buffer, the bytes of a pending copy are equal in parent and
buffer, a pending run fits its field, and a pending seek is not 0, fits its signed
field and leads to `relativepos`.

The viewer, `ViewInv`, in three strengths. Whatever the build makes of the recording
(`ViewTyped`): the types, how many frames are armed at which point, the counter is not ahead of the log
nor a checkpoint's of its place. If the new game is the recorded one: `diff_base` is always the
save the next diff was made against and a checkpoint is a save of its place (`Faithful`);
`moves` is 0 only while a failed step is done again, by diffs (`Clocked`); the world is the
recorded one, or it is out of sync and a diff that will be loaded is still to come
(`Rebuilt`). If commands at most give another result: nothing is left by `terminate`, the
counter counts every action (`Undisturbed`), and `i`, `count` and the counter say how far the step has come
(`Underway`). The attempt showed what the bounds of the run hide: with four actions the screen may show
something else in two ways (5), which `ShownIsRecorded` now names (`Unrestored`).

`NetSessionProofs`, for any number of commands, retries and faults and any set of
commands that ask:

- `TypeCorrect`, and `OrderIsKept` (`OrderKept`): the game never executes an older
  command after a younger one, whatever breaks and is sent again.
- `OnceWhileCalm` (`OnceWhenCalm`): while nothing fails during a command, each is executed
  once and gets its own answer, though connections and processes come and go between.

Two invariants. `InOrder`: no command on its way is younger than `n` or older than what
was executed, none in the game's buffer or pipe is younger than one on the wire, and
the wire is sorted. (Nothing need be said of the order within the buffer: the game takes
a command only when it is all there is, behind an escape.) `Calm`: in a
calm session there is exactly one message of the current command
anywhere, and the definition lists where (`NotSent`, `Sent`, `Begun`).

`SharedFilesProofs`, for any processes, logs, games and lists:

- `TypeCorrect`, `NewGamesAreOwn`, `LocksAreGivenBack` of `LogLock`: a process that writes
  a new game is the only one at that log; every way out of a log gives its lock back.
- `LocksAreRight`: the two invariants of the composition, for all that processes do.
- `ScoreListFits`, `BonesAreFoundOnce` (`BonesOnce`), `GamesAreScoredOnce` (`ScoredOnce`), with
  the exceptions these properties name: a hero who may die twice (`twice`), because two
  processes played his game or one died between the death in its log and the end of the
  log, and bones deleted by who had not read them (`wiped`), see 5.

`LockInv` adds to the types: nobody works on a log that does not
exist, and only its creator on one without a header (`Fresh`); who holds a lock
works on that log at a stage that gives the lock back (`Holder`), and the stages
that rely on a lock have it (`Holds`); during a game's first sitting others only
ask for its status (`Alone`); who has not taken a log up yet misses nothing in it
(`Fresher`). The parts are preserved together. For the ends of games: a game that is
not in `twice` is played by one process at a time (`Seats`) and its log says of it what that process
has done (`Fates`); nothing holds a game's bones before they are put in place (`NotYet`), and then
one level or the file does (`FoundOnce`); only a process that has buried its hero handles
the list, and a game on it is one whose process has nothing more to do with the list (`Scored`).
`OnePlayer` is not among the theorems: it is false (5).

- `NoScoreIsLost` (`ScoresKept`): while nobody holds the record lock the file is the list of
  the best of all games put in, in order.

`Best` takes from all entries ever put in those of the first ranks; `toptenlist_insert` never sees
more than the list it has read. That the two agree is one lemma (`InsertBest`) on ranks: an
entry put in at its place moves those behind it one rank down and those before it not at all,
and what has fallen off the list cannot come back. `ListInv` then follows the file through the
stages of `update_topten`: who is at one of them has the lock, and the lock's holder has in memory
what the file was, or will be, of which `write_topten` has put a part there. The hypothesis
`Uncrowded` of the property is where the code is right: with more games than PLAYERMAX on a longer
list, the entry that makes room is the wrong one (topten.c:248, see 5). The list of the
beginning is assumed in order (`ScoreAssumption`), as the code leaves it.

`ServerProofs`, for any connections, users, sizes, addresses and descriptors, whatever
clients, games and kernel do (`ServerSpec`; every run's specification implies it):

- `ListsStayRight` (`ListsRight`), `FdsStayOwned` (`OwnsFds`), `WaitingIsWhole`
  (`WaitsWhole`), `NoGameIsLost` (`NoOrphan`).

The invariant `MasterOK` says of the master: the lists hold each live client once and are
counted (`Lists`); every live client owns its descriptors in `fd_to_client`, and they are of
its user and its game (`Owns`); it has both pipes or none (`Plays`), is on the list of its state, and
waits whole (`Placed`); no two have the same game (`Apart`), and no pipe is open that no client
has (`Piped`). A handler breaks this for the client it is busy with: `OkBut(s, a)` is "all is
well but for a", and there is one lemma per C function from one of the two to the
other. That descriptors are given out lowest first is used only
as "one that is not open". `NoGameIsLost` adds `Reached`: a game that runs has a client, was sent SIGTERM,
or nobody holds the other end of its pipe. After a failed fork it holds because
`kill(-1, SIGTERM)` tells all of them.

`RegionProofs`, for any monsters, squares, shapes and numbers of clouds:

- `TypeCorrect`: `run_regions`' indices stay inside arrays that shrink under them.
- `RegionsAreRight` (`RegionsKnow`), `WalkIsComplete` (`WalkIsWhole`), `CthulhuIsAwaited`
  (`CthulhuAwaited`).

A region's list is wrong about a monster only from a step that was told wrongly, or not at all, to
the next that is told rightly (`stray`), and holds it several times only from the moment it
entered again, or came with the cloud as a long worm, until its last entry is struck
(`doubled`). `Known` says that every other monster is listed once where it is and nowhere else; it
also needs that off the level it is listed at most once. `Walked` is what the
backward loop has behind it (nothing expired) and what the inner loop has (all hit), and it must say so
of elements that removal by swapping moves to a smaller index. `Buried` is what makes Cthulhu's
return harmless: when the cloud that revives him expires no region has him on its list any
more, because `run_regions` took the dead off all of them on the way there.

`ShopBillProofs`, for any number of objects, sizes of stack, bill and purse:

- `TypeCorrect`, `BillAgrees` (`BillMatches`): until stacks are merged that should not be, an entry is
  an unpaid object not larger than the entry, or used up and on `billobjs`, and the other way round.
- `PayingIsFair` (`PaidIsKept`, an action property): what leaves the purse left the bill, and
  what the hero holds stays his.

The invariant has two halves: `Kept` (types, each object billed once, an unpaid object has an entry,
used-up entries and `billobjs` agree) survives even the muddle of `dip_diluted_same_potions`; `Right` (every
entry's object is there, unpaid, not larger) holds until it. The bill is looked at as the set of
its lines, since its order never matters; one lemma per function of `shk.c`
(`addtobill`, `splitbill`, `sub_one_frombill`, `dopayobj`, ...) says what it does to that set, then
one per action follows. `PayingIsFair` needs `Kept` before the payment and `pay.tmp` at least
the position being looked at.

- `BillIsOwed` (`BillIsWhatIsOwed`): what the entries come to is what was taken and not yet returned, paid
  or given away by a full bill; no piece is lost from the bill and none invented.

`Total` is a recursive function over the bill; that it exists and is unique is shown by a
least counterexample (`TotalIs`), and from it what an entry that is appended, changed
or struck out adds or takes (`TotalMore`, `TotalChanged`, `TotalLess`). `Dearer(s, d, t)`
says that a call makes the bill dearer by `d`; there is one lemma of this form per function, and those of an
action add up. Two things were missing from `ShopInv` when the proof was tried. `Tally` adds
to the equation that nothing unpaid in the hero's hands is marked free of charge (`Priced`):
`bill_dummy_object` bills the copy by asking whether the original was. And in the second
pass of a payment without a list, `dopayobj` takes money for the pieces the object has
while `sub_one_frombill` strikes the entry's: they are the same only because the first pass has
put back together what was used in part (`Looked`).

`LevelThingsProofs`, for any objects, levels and amounts of fuel:

- `BurnTypeCorrect`, `TimersAreCounted` (`TimersCounted`), `LightsAreMatched` (`LightsMatch`),
  `FuelIsKept` (`FuelKept`): for every object that never was on another level than its timers, its count is
  the number of timers it has, on its own level, it is lit when a light source shines for it,
  and remaining fuel, running timer and turns of light make up the fuel there was.
- `OnlyArrivals` (`OnlyArrivalsDisorder`, an action property): no step but the hero's arrival on a level
  puts a timer queue out of order, and only that level's.

`BurnInv` says in one formula (`Good`) what an object is: it is dark and no timer or light anywhere
is its, or it burns, with one timer, on its level, that stands for the fuel taken out of `age`,
or it is an egg that ripens. The counts alone are not inductive: `stop_timer` looks for a timer
only on the queue of the object's level and gives its time back as fuel only if the object is lit,
so the number of timers, where they are, the light and the equation have to be kept together. `Placed`
says that what is carried is on the level of who carries it, which an arrival needs. The C functions are operators from one world (queues, lights, objects) to another, and
each has a lemma that it touches no other object (`Touches`), so that an action is a chain of
calls on one or two objects and the rest of the world is `Untouched`. `stop_all_timers`, `save_timers`
and `transfer_timers` take the timers of some objects out of a queue (`Sift`, a recursive function); what it
leaves is the lemma `Sifted`, shown by a least counterexample.

For levels of any shape, any monsters, slots and lengths:

- `WormTypeCorrect`, `TailsStayWhole` (`TailsWhole`), `MapStaysTrue` (`MapKept`).

The invariant `WormInv`: slots and lists belong to each other one to one and to worms on the
level, each list lies under its head, beside itself, and crosses no square twice (`Whole`), and the map shows
exactly the squares taken (`Shown`). That a list does not cross itself is not among the
properties, but without it `cutworm` could cut at the wrong segment and `worm_move` clear a
square another segment is on. Every action lifts, changes or sets down one monster, so
two lemmas (`OneChanges`, `MapFollows`) say what such a change needs in order to keep both
parts; `cutworm`'s clone and `mnearto` are two changes in a row. `Shown` holds until `muddled`.

Assumptions on constants, each named in the module that declares them: sets of
processes, games, monsters, creatures, connections, timed objects and object numbers are finite;
names for "nobody" are not names of somebody; sizes are numbers of the right kind;
squares adjoin each other both ways. TLC evaluates them in every run.

Every invariant and every action property of a passing run is stated by a theorem. Model-checked
only is all liveness: `RestoreEnds`, `CloudsPass`, `PaymentEnds`, `CallEnds`, `GamesEnd`, `HangUpNoticed`,
`QuietShutdownEnds`. Fairness and ENABLED are not supported by the provers used.

## 5. Where the code and its comments part

Shown by runs that end in a violation:

- `shared_twice`, logreplay.c:290. `replay_end` closes `loginfo.flog`, a stream on a
  duplicate of the log's descriptor; closing any descriptor of a file drops the process's
  POSIX locks on it. A restored game is played unlocked, is listed as crashed
  and can be restored a second time while it is played, against logreplay.c:1452
  ("if we can't lock the file, it's in use") and :191.
- `view_exit`, logreplay.c:1311. The viewer means to survive a turn that fails by trying
  the other method; `terminate` has reset `exit_jmp_buf_valid`, and the second failure
  finds no frame and exits the process ("This should not happen", end.c:885).
- `worm_cut_short`, worm.c:624. A tail for which there is no room is cut by
  `toss_wsegs`, which empties the squares it had before the worm was
  picked up, whoever stands there now, a monster that `mnearto` has just made room for included.

Found by TLC with properties whose definitions are kept beside the models, though
no run is kept for them:

- connection.c:214 (`ExecutedOnce`). "Presumably the send didn't succeed either": when only
  the answer was late or lost, the command is executed twice.
- server.c:888 (`StaleIgnored`). "was this fd closed while handling a prior event?" is
  answered by a NULL test; a descriptor that was closed and given out again within one
  batch gets its predecessor's hang-up.
- logreplay.c:266 (`FindsLastDiff`). The block start is added once per block, found or not,
  so in a log of more than two blocks the line is found and then lost.
- logreplay.c:408 (`NoLostGame` with `AsksAtPit` and a multi-turn command). "The game will be replayed from
  diffs instead" does not happen: the restore fails. A crash in a multi-turn command
  produces such a log.
- invent.c:233 (`AlwaysInOrder`). `dip_diluted_same_potions` calls `combine_objs` without
  asking `mergable`: an unpaid stack and one of the hero's become one, against
  shk.c:62 ("obj->unpaid iff onbill(obj)", "obj->quan <= bp->bquan"). The bill keeps an entry
  whose object is gone, and the next `dopay` finds its administration out of
  order and forgives everything, or it has an object larger than its entry, which is free
  once the entry is paid. potion.c:1903 does the same.
- topten.c:248 (`RoomIsOwn`, a list of three places, two to a player). The entry that makes room is to be the
  player's own last one when he has PLAYERMAX, else an empty place (topten.c:245). The loop
  that counts compares `ttlist[ins].name` where it counts entries from `del` on: if the entry
  at `ins` is the player's, all behind it count as his, and on a list with room another
  player's entry is deleted.
- region.c:617 (`CthulhuComesBack`). A region whose `ttl` has just become 0 is dropped on
  restore without its `expire_f`: Cthulhu does not return, against mon.c:1508, and a thick
  cloud vanishes instead of thinning.
- timeout.c:1695 (`NoneOverdue`). `transfer_timers` pushes one by one at the head of a list that
  `run_timers` takes to be ordered (timeout.c:1368): a timer that is due may wait behind one that is not.

Met while modelling; the models contain the behaviour:

*Log and restore.* logreplay.c:862 "Replay will use diffs instead": not until a
second diff was read, since the first one is consumed without setting
`out_of_sync`. log.c:478 "move it to the right place manually": `replay_end`
has written at the stray offset before (with a C library whose fclose leaves it there;
together with a half-written command that costs the game). memfile.c:291: `mfalign` pads
four bytes at positions 0 to 3, none later. `dosave0` writes the image after `log_finish`
has unlocked the log: a restore that comes between replays by force and truncates what is being
written; the same holds for `write_log_toptenentry`. The status query and the lock
are two steps; the loser learns it from the lock. `ccmd_restore_game` never closes its
descriptor when the restore fails.

*End of a game.* A crash between `log_command_result` (end.c:700) and `log_finish`
(end.c:760) leaves a game in progress whose restore replays the death: it dies,
leaves bones and is scored again each time, writes its score's line at the stray offset, and ends in
`ERR_REPLAY_FAILED`, with which the server offers the game for deletion. Two processes may play one restored
game (`shared_twice`); then each leaves bones and a score. A hang-up during disclosure loses bones
and score. `write_topten` truncates
before it writes. `nh_get_topten` reads without the lock. bones.c:469 deletes bones by name
after reading them, when the name may already mean others; who loses the race for a file has
logged bones all the same; a crash between the unlink and the command's result loses them.

*Viewer.* After any step back in a recording of another build, `load_checkpoint`
makes the diff base from that build's own first save, and diffs are applied to the
wrong save. Viewing the death command leaves the action counter one behind. `GOTO` past a death
returns to where it was. `replay_sync_save` loads a save that failed again in its handler.
Two more were met by trying to prove `ShownIsRecorded`, and confirmed by TLC with four
actions. 1315: the retry of a failed step may make a checkpoint whose load arms
`exit_jmp_buf` again, so a second death in it is caught, "Could not restore state" is said,
and the screen keeps the dead world while the log is in the middle of a command. 1337: a
step back counts from the checkpoint with two counters; when the checkpoint's missed more
actions (its diffs came after deaths) than the present one, too many rounds are counted, all
fast but the one that meets the end of the log, and no diff is loaded. Variables changed between `setjmp` and `longjmp` are not volatile.

*Timers and lights.* `deliver_object` (dokick.c:1392) leaves an object's timers and light
on the level it fell from: the timer dangles once the object is destroyed, and a restore may panic in
`relink_timers`, for `find_oid` does not look on the last level. A monster that migrates
leaves its objects' timers to travel with the hero. A restored list is ordered where the list in
memory need not be, so a restored game may differ. `obj_split_light_source` walks the
current level's lights, whatever the object's.

*Regions.* `m_in_out_region` asks `hero_inside` where it means the monster (417): monsters
are entered twice, or never while the hero is inside. `add_region` (225) looks at the map of
monsters square by square: a long worm is entered once for each square it lies on, also with its head
outside. `in_out_region` is told
where the hero goes before that is certain (hack.c:1901, dothrow.c:489); `dog_move` announces
one square and takes another (704, 763); a pet the hero swaps with, an engulfer and a
new monster are not announced at all.

*Worms.* A named or a tame worm, or a minion, that is cut: `clone_mon` names or tames the copy before it
has its own slot, `christen_monst` or `tamedog` replaces it, and `replmon` puts the copy on the squares of the
old worm's tail. While a worm
migrates `wormno` holds the length of its tail, cut to 31.

*Shop.* A full bill and `bill_dummy_object`: the dummy is left on no bill and no
list. The copy of a burning candle stays lit.

*Server.* 352: one accept4 per edge-triggered event; of two connections that
arrive together one waits for the next arrival. 316: after a failed fork the pid is -1,
and `kill(-1, SIGTERM)` reaches every game of the server. 455: a client whose game has
closed its pipes is still found and reconnected to. 463: taking over a connected
client leaves the old socket open and mapped (a dangling pointer once the client is
freed) and hands the unsent tail of the old connection to the new one. 670: a
message of exactly one read buffer ends in EAGAIN, taken for an error, and its game is
ended. 691: the end of a game's pipe is acted on before what is in it is read. 715: half a message
may stay in the pipe when the reader hangs up, without an event that fetches it for
the next connection. 873: the five seconds of a shutdown only count while nobody talks.

*Client.* connection.c:251: after a repeated command its second answer is taken for the
answer of the next command of that type. clientmain.c:171: data read together with a reset
request waits for more data.

## 6. Not modelled

The rules of the game (monsters, combat, objects, magic), level generation, vision
and display: sequential computations over random numbers, judged by design
and not by an invariant the source states. They are most of the 304 files. The turn
loop: what a command does is a function of seed and inputs here, which is what
the log relies on. The vault guard's corridor and the placement of ball and chain: one actor
each, and what can go wrong depends on the map, which no module has. The save image's
format: the bytes `MemDiff` copies. Curses interface, JSON marshalling, accounts and
database, configuration, start-up: presentation, encoding and I/O. Build-time compilers.

Within the modelled parts: bones data inside a log, time zone and options beyond their
effect on the file, messages replayed from a log, `nhnet_connect`'s dialogue, the set-up of the
listening sockets; what timers other than burning do when they run; prices, containers,
debit, theft and the inheritance of a shop; what is changed on a level that becomes bones; hit points of
worms; a region's enter and leave messages. Power loss (a write that was done but did not
reach the disk) is not considered: no code path calls fsync.

## 7. Plan

Done: all modules of section 2, and the proofs of section 4, one theorem at least for every
invariant and action property of the runs.

What could come next are parts of section 6: the guard's corridor (`vault.c`) and the chain of
callbacks between game process, database and client (`srv_*.c`), each as a module of its own. What
remains of the present modules is liveness, which needs a prover for fairness.
