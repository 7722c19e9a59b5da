----------------------------- MODULE GameReplay -----------------------------
(***************************************************************************)
(* The vocabulary of a .nhgame log and what a forced replay makes of it:   *)
(* the reading half of libnitrohack/src/logreplay.c as nh_restore_game     *)
(* drives it after a crash.                                                *)
(*                                                                         *)
(* A log is a header and a row of whitespace-separated tokens.  A world    *)
(* (the whole game state, RNG included) is abstracted to the sequence of   *)
(* command ids that produced it: the game is deterministic given its seed  *)
(* and its inputs, which is what logreplay.c relies on.                    *)
(***************************************************************************)
EXTENDS Naturals, Sequences

CONSTANTS
  Commands,      \* the command ids a player may issue
  Long,          \* those that leave multi or occupation set when they return
  Asks(_, _),    \* Asks(c, w): command c, issued in world w, asks for an input
  Fatal(_),      \* Fatal(w): the last command of w killed the hero
  NoCmd,         \* no command
  NoWorld        \* an empty memfile: mnew(mf, NULL), nothing written

ASSUME LongAssumption == Long \subseteq Commands

Worlds    == Seq(Commands)
NewWorld  == << >>        \* what newgame() builds from the seed in the log

ASSUME SentinelAssumption == NoCmd \notin Commands /\ NoWorld \notin Worlds

ASSUME BirthAssumption == ~Fatal(NewWorld)

(* multi or occupation is still set: the last command is not over yet. *)
Busy(w) == w # << >> /\ w[Len(w)] \in Long

(***************************************************************************)
(* Tokens, by the character the reader dispatches on.  "bin" is a whole    *)
(* binary save appended after the log, "torn" one that was cut short,      *)
(* "top" the score entry done() adds to the file, "hole" bytes of the file *)
(* that were never written or were cut off.                                *)
(***************************************************************************)
Kinds == {"setup", "opt", "tz", "cmd", "in", "res", "mark", "diff", "bin", "torn",
          "top", "hole"}

Token == [t : Kinds, c : Commands \cup {NoCmd},
          w : Worlds \cup {NoWorld}, b : Worlds \cup {NoWorld}]

Tok(t)        == [t |-> t,      c |-> NoCmd, w |-> NoWorld, b |-> NoWorld]
Hole          == Tok("hole")
CmdTok(c)     == [t |-> "cmd",  c |-> c,     w |-> NoWorld, b |-> NoWorld]
ResTok(w)     == [t |-> "res",  c |-> NoCmd, w |-> w,       b |-> NoWorld]
DiffTok(b, w) == [t |-> "diff", c |-> NoCmd, w |-> w,       b |-> b]
BinTok(w)     == [t |-> "bin",  c |-> NoCmd, w |-> w,       b |-> NoWorld]

(***************************************************************************)
(* State of a replay: the world reached by re-executing commands, the last *)
(* save rebuilt from diffs (diff_base), how many diffs were read, whether  *)
(* the commands can still be believed (~cmds_are_invalid), whether the     *)
(* command being executed waits for an input token, whether a '~' was just *)
(* read, and whether terminate() has unwound the whole restore.            *)
(***************************************************************************)
ReplayInit == [played |-> NewWorld, base |-> NoWorld, diffs |-> 0,
               valid |-> TRUE, asks |-> FALSE, mark |-> FALSE, fail |-> FALSE]

Failed(r) == [r EXCEPT !.fail = TRUE]

(* replay_check_diff: a diff rebuilds its save when it was made against     *)
(* nothing or against the save the reader holds; else it decodes to noise.  *)
ReadDiff(r, tok) ==
  IF tok.t = "diff" /\ tok.b \in {NoWorld, r.base}
    THEN [r EXCEPT !.base = tok.w, !.diffs = @ + 1, !.mark = FALSE]
    ELSE Failed(r)

(* The input callbacks (replay_getdir, replay_query_key, ...) call          *)
(* parse_error, hence terminate, on a token that is not an input.  With     *)
(* its answer the command runs to its end.  If it kills the hero, done()    *)
(* runs within the replay and ends in terminate.                            *)
ReadInput(r, tok) ==
  IF tok.t = "in" THEN [r EXCEPT !.asks = FALSE, !.fail = @ \/ Fatal(r.played)]
                  ELSE Failed(r)

(* Once the commands are invalid they are no longer executed. *)
ReadCommand(r, tok) ==
  LET w    == Append(r.played, tok.c)
      asks == Asks(tok.c, r.played)
  IN  IF r.valid
        THEN [r EXCEPT !.played = w, !.asks = asks, !.fail = ~asks /\ Fatal(w)]
        ELSE r

(* replay_check_cmdresult: a different RNG state means the commands lie. *)
ReadResult(r, tok) == [r EXCEPT !.valid = @ /\ tok.w = r.played]

(* One round of replay_run_cmdloop; tokens it has no case for are skipped. *)
ReplayStep(r, tok) ==
  CASE r.fail -> r
    [] ~r.fail /\ r.mark -> ReadDiff(r, tok)
    [] ~r.fail /\ ~r.mark /\ r.asks -> ReadInput(r, tok)
    [] ~r.fail /\ ~r.mark /\ ~r.asks ->
         CASE tok.t = "cmd"  -> ReadCommand(r, tok)
           [] tok.t = "res"  -> ReadResult(r, tok)
           [] tok.t = "mark" -> [r EXCEPT !.mark = TRUE]
           [] OTHER -> r

(* The replay after each of the first n tokens of a log, as a set of one
   member: TLC then computes it once per token. *)
ReplayTo(body, n) ==
  LET run[i \in 0..n] == IF i = 0 THEN {ReplayInit}
                         ELSE {ReplayStep(r, body[i]) : r \in run[i-1]}
  IN  run

Replay(body, n) == CHOOSE r \in ReplayTo(body, n)[n] : TRUE

(* The hero died in the replay. *)
Died(r) == r.fail /\ ~r.asks /\ Fatal(r.played)

(* Mutant: the world the commands led to, whatever the diffs say. *)
Outcome_played(body, n) ==
  LET r == Replay(body, n)
  IN  IF r.fail \/ r.asks THEN NoWorld ELSE r.played

(***************************************************************************)
(* The world a forced restore hands the player: replay_sync_save loads the *)
(* save rebuilt from the diffs as soon as a diff was read after newgame()  *)
(* (out_of_sync); the first diff is consumed before newgame() runs.  A     *)
(* replay that was unwound, by a death too, hands back no world.           *)
(***************************************************************************)
Outcome(body, n) ==
  LET r == Replay(body, n)
  IN  IF r.fail \/ r.asks THEN NoWorld
      ELSE IF r.diffs >= 2 THEN r.base
      ELSE r.played
=============================================================================
