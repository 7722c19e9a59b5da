------------------------------ MODULE ReplayView ------------------------------
(***************************************************************************)
(* The replay viewer of logreplay.c: a recorded game is executed again, or *)
(* rebuilt from its diffs, one action at a time, and checkpoints let the   *)
(* user go back.  The log has the new game (segment 0) and MaxAction       *)
(* actions: options, a command with its inputs, the result ('<') and a     *)
(* diff ('~').  This build need not do what the recording one did.         *)
(*                                                                         *)
(* World k is the recorded game after k actions.  Diffs are taken to be    *)
(* loadable: when one is not, replay_sync_save loads it once more in its   *)
(* handler and takes the process with it.                                  *)
(***************************************************************************)
EXTENDS Integers, Sequences, SequencesExt

CONSTANTS
  MaxAction,   \* bound: recorded actions
  Distance     \* actions between two checkpoints (1000)

ASSUME ViewBounds == MaxAction \in Nat /\ Distance \in Nat

Recorded == 0..MaxAction
Own == -1      \* a world, or a save of it, that is not in the recording
Users == -2    \* the user's own options
Nothing == [what |-> "nothing", from |-> 0, to |-> 0, start |-> 0]   \* no step taken

VARIABLES
  kind,        \* what this build makes of each segment
  clock,       \* moves in each recorded world
  file,        \* loginfo.flog: diffs read, and whether a command was read since
  world,       \* the game in memory
  zeroed,      \* a failure has set moves to 0
  base,        \* diff_base
  outOfSync, cmdsInvalid,      \* loginfo.out_of_sync, cmds_are_invalid
  options, checkpoints, actions,
  valid, frame,  \* exit_jmp_buf_valid; whether exit_jmp_buf is of the running call
  call,        \* the call under way: what for, from where, moves then (start)
  done, did,   \* rounds of FORWARD's loop (i), did_action
  viewer       \* where the program is

recVars == <<kind, clock>>
viewVars == <<recVars, file, world, zeroed, base, outOfSync, cmdsInvalid, options, checkpoints,
              actions, valid, frame, call, done, did, viewer>>

-----------------------------------------------------------------------------
Moves(w) == clock[IF w = Own THEN 0 ELSE w]

\* true_moves
TrueMoves == IF outOfSync THEN Moves(base) ELSE IF zeroed THEN 0 ELSE Moves(world)

\* What executing the next segment comes to.  In a world that is not the
\* recorded one anything may happen; "result" differs in the result, "silent"
\* only in the save, "parse" asks a question the log has no answer for, "dies"
\* ends in done().
Outcomes == IF world = file.seg THEN {kind[file.seg + 1]} ELSE {"silent", "result", "parse", "dies"}

\* api_entry_checkpoint and api_exit: the frame is taken only when valid is 0.
Enter == valid' = valid + 1 /\ frame' = (frame \/ valid = 0)
Leave(v) == valid' = v - 1 /\ frame' = FALSE /\ viewer' = "idle"

\* terminate: a longjmp to the checkpoint, or exit(1) if there is none.  Into a
\* frame that is gone ("lost") it is undefined.
Terminate ==
  /\ viewer' = IF valid = 0 THEN "exited" ELSE IF frame THEN "failed" ELSE "lost"
  /\ valid' = 0 /\ UNCHANGED frame

\* replay_sync_save loads diff_base.  It never resets out_of_sync.
Synced(w, b, out) == IF out THEN b ELSE w
Armed(v, out) == IF out THEN 1 ELSE v

-----------------------------------------------------------------------------
(* nh_view_replay_start, and _finish with the user's options back.         *)

ViewStart ==
  /\ viewer = "menu" /\ viewer' = "idle"
  /\ file' = [seg |-> 0, mid |-> FALSE]
  /\ world' = IF kind[0] = "same" THEN 0 ELSE Own
  /\ base' = 0 /\ zeroed' = FALSE /\ outOfSync' = FALSE /\ cmdsInvalid' = FALSE
  /\ options' = 0 /\ actions' = 0
  /\ checkpoints' = <<[actions |-> 0, seg |-> 0, data |-> world']>>
  /\ UNCHANGED <<recVars, valid, frame, call, done, did>>

ViewFinish ==
  /\ viewer = "idle" /\ viewer' = "menu"
  /\ options' = Users /\ checkpoints' = <<>> /\ call' = Nothing
  /\ UNCHANGED <<recVars, file, world, zeroed, base, outOfSync, cmdsInvalid, actions, valid, frame, done, did>>

-----------------------------------------------------------------------------
(* Checkpoints                                                             *)

LoadCheckpoint_keepsBase(cp) ==      \* mutant: what is loaded is not the new diff base
  /\ file' = [seg |-> cp.seg, mid |-> FALSE]
  /\ world' = cp.data /\ UNCHANGED base /\ zeroed' = FALSE /\ outOfSync' = FALSE
  /\ options' = cp.seg /\ actions' = cp.actions

\* load_checkpoint; what is loaded is also what the next diff is made against.
LoadCheckpoint(cp) ==
  /\ file' = [seg |-> cp.seg, mid |-> FALSE]
  /\ world' = cp.data /\ base' = cp.data /\ zeroed' = FALSE /\ outOfSync' = FALSE
  /\ options' = cp.seg /\ actions' = cp.actions

\* Which one: the last, or the one before the first that is late enough.
Before(late) == checkpoints[IF late = {} THEN Len(checkpoints) ELSE Min(late) - 1]
LateActions(n) == {i \in 2..Len(checkpoints) : checkpoints[i].actions >= n}
LateMoves_past(n) ==      \* mutant: likewise
  {i \in 2..Len(checkpoints) : Moves(checkpoints[i].seg) > n}
LateMoves(n) == {i \in 2..Len(checkpoints) : Moves(checkpoints[i].seg) >= n}

\* make_checkpoint: not too close to the last, nor while something is going on.
Due(n, b) == n > Last(checkpoints).actions + Distance /\ Moves(b) > Moves(Last(checkpoints).seg)

-----------------------------------------------------------------------------
(* nh_view_replay_step: the three requests, and what follows a failure     *)

Counted == done' = IF viewer = "forward" THEN done + 1 ELSE done

Calls(what, from, to, start) == call' = [what |-> what, from |-> from, to |-> to, start |-> start]

StepForward ==
  /\ viewer = "idle" /\ viewer' = "forward"
  /\ Enter /\ Calls("forward", actions, 1, TrueMoves)
  /\ done' = 0 /\ did' = TRUE
  /\ UNCHANGED <<recVars, file, world, zeroed, base, outOfSync, cmdsInvalid, options, checkpoints, actions>>

StepBackward ==
  /\ viewer = "idle" /\ viewer' = "forward"
  /\ LoadCheckpoint(Before(LateActions(actions - 1)))
  /\ Enter /\ Calls("backward", actions, actions - 1 - actions', TrueMoves)
  /\ done' = 0 /\ did' = TRUE
  /\ UNCHANGED <<recVars, cmdsInvalid, checkpoints>>

\* REPLAY_GOTO, up to its loop: moves and the counter as they are then.
GoTo(count, now) ==
  /\ IF count < now THEN LoadCheckpoint(Before(LateMoves(count)))
     ELSE UNCHANGED <<file, world, base, outOfSync, options, actions>>
  /\ did' = (actions' < MaxAction)
  /\ viewer' = "goto"

StepGoto(count) ==
  /\ viewer = "idle"
  /\ Enter /\ Calls("goto", actions, count, TrueMoves)
  /\ GoTo(count, TrueMoves)
  /\ IF count < TrueMoves THEN TRUE ELSE UNCHANGED zeroed
  /\ done' = 0
  /\ UNCHANGED <<recVars, cmdsInvalid, checkpoints>>

\* "we have two different methods of replaying, so the other one might work.
\* Replay back up to the current turn."
Retry ==
  /\ viewer = "failed"
  /\ Calls("retry", call.from, call.start, call.start)
  /\ LET now == IF outOfSync THEN Moves(base) ELSE 0
     IN  GoTo(call.start, now) /\ IF call.start < now THEN TRUE ELSE zeroed' = TRUE
  /\ done' = 0
  /\ UNCHANGED <<recVars, cmdsInvalid, checkpoints, valid, frame>>

\* "Could not restore state after replay failed!"  That moves_this_step is -1
\* by then is not certain: it was changed after setjmp.
GiveUpView ==
  /\ viewer = "failed" /\ call.what = "retry"
  /\ viewer' = "idle" /\ frame' = FALSE /\ did' = TRUE
  /\ call' = [call EXCEPT !.what = "given up"]
  /\ UNCHANGED <<recVars, file, world, zeroed, base, outOfSync, cmdsInvalid, options, checkpoints,
                 actions, valid, done>>

-----------------------------------------------------------------------------
(* replay_run_cmdloop, up to and with the next diff                        *)

Running == \/ viewer = "forward" /\ done < call.to /\ did
           \/ viewer = "goto" /\ TrueMoves < call.to /\ did
Fast == viewer = "goto" \/ done + 1 # call.to

AtEnd == file.seg = MaxAction

ReadEnd ==
  /\ Running /\ AtEnd
  /\ did' = FALSE /\ Counted
  /\ UNCHANGED <<recVars, file, world, zeroed, base, outOfSync, cmdsInvalid, options, checkpoints,
                 actions, valid, frame, call, viewer>>

\* command_input does not come back: parse_error, or done() while viewing.
CommandFails ==
  /\ Running /\ ~AtEnd /\ ~file.mid /\ ~cmdsInvalid
  /\ \E o \in Outcomes \cap {"parse", "dies"} : cmdsInvalid' = (o = "parse")
  /\ file' = [file EXCEPT !.mid = TRUE] /\ world' = Own /\ options' = file.seg + 1
  /\ Terminate
  /\ UNCHANGED <<recVars, zeroed, base, outOfSync, checkpoints, actions, call, done, did>>

\* The command is executed, or left out, or was read before a failure: a world
\* and whether the result was the recorded one.
Executed ==
  IF cmdsInvalid THEN {[world |-> world, ok |-> FALSE]}
  ELSE IF file.mid THEN
    {[world |-> world, ok |-> b] : b \in IF world = Own /\ kind[file.seg + 1] = "dies" THEN BOOLEAN ELSE {FALSE}}
  ELSE {[world |-> IF o = "same" THEN file.seg + 1 ELSE Own, ok |-> o # "result"] :
          o \in Outcomes \ {"parse", "dies"}}

\* replay_check_diff: at full speed the save is not compared.
ReadDiff ==
  /\ Running /\ ~AtEnd /\ base = file.seg
  /\ \E e \in Executed, busy \in BOOLEAN :
       LET k     == file.seg + 1
           agree == ~Fast /\ e.ok /\ e.world = k
           out   == outOfSync \/ ~agree
           load  == ~Fast /\ ~agree
           w     == IF load THEN k ELSE e.world
           n     == actions + 1
           cp    == ~file.mid /\ Due(n, k) /\ ~busy
       IN  /\ file' = [seg |-> k, mid |-> FALSE] /\ base' = k /\ options' = k
           /\ outOfSync' = out /\ cmdsInvalid' = (~e.ok \/ load)
           /\ world' = IF cp THEN Synced(w, k, out) ELSE w
           /\ zeroed' = (zeroed /\ ~load /\ ~(cp /\ out))
           /\ valid' = Armed(valid, load \/ (cp /\ out))
           /\ did' = ~file.mid
           /\ actions' = IF file.mid THEN actions ELSE n
           /\ checkpoints' = IF cp THEN Append(checkpoints, [actions |-> n, seg |-> k, data |-> world'])
                             ELSE checkpoints
  /\ Counted
  /\ UNCHANGED <<recVars, frame, call, viewer>>

\* A diff against another save than the recorded one makes no save.
MisreadDiff ==
  /\ Running /\ ~AtEnd /\ base # file.seg
  /\ viewer' = "lost"
  /\ UNCHANGED <<recVars, file, world, zeroed, base, outOfSync, cmdsInvalid, options, checkpoints,
                 actions, valid, frame, call, done, did>>

\* The step ends.  FORWARD's last round was not fast; GOTO synchronises.
EndForward ==
  /\ viewer = "forward" /\ ~Running
  /\ Leave(valid)
  /\ UNCHANGED <<recVars, file, world, zeroed, base, outOfSync, cmdsInvalid, options, checkpoints,
                 actions, call, done, did>>

EndGoto ==
  /\ viewer = "goto" /\ ~Running
  /\ world' = Synced(world, base, outOfSync) /\ zeroed' = (zeroed /\ ~outOfSync)
  /\ did' = (call.what = "retry" \/ TrueMoves = call.to)
  /\ Leave(Armed(valid, outOfSync))
  /\ UNCHANGED <<recVars, file, base, outOfSync, cmdsInvalid, options, checkpoints, actions, call, done>>

-----------------------------------------------------------------------------
Kinds == {"same", "silent", "result", "parse", "dies"}

ViewInit ==
  /\ kind \in {f \in [Recorded -> Kinds] : f[0] \in {"same", "silent"}}
  /\ clock \in {f \in [Recorded -> 1..MaxAction + 1] :
                 f[0] = 1 /\ \A k \in 1..MaxAction : f[k] \in {f[k - 1], f[k - 1] + 1}}
  /\ file = [seg |-> 0, mid |-> FALSE] /\ world = Own /\ zeroed = FALSE /\ base = 0
  /\ outOfSync = FALSE /\ cmdsInvalid = FALSE
  /\ options = Users /\ checkpoints = <<>> /\ actions = 0
  /\ valid = 0 /\ frame = FALSE /\ call = Nothing /\ done = 0 /\ did = TRUE
  /\ viewer = "menu"

ViewNext ==
  \/ ViewStart \/ ViewFinish
  \/ StepForward \/ StepBackward \/ \E count \in 1..MaxAction + 2 : StepGoto(count)
  \/ Retry \/ GiveUpView
  \/ ReadEnd \/ CommandFails \/ ReadDiff \/ MisreadDiff \/ EndForward \/ EndGoto

ViewSpec == ViewInit /\ [][ViewNext]_viewVars

-----------------------------------------------------------------------------
World == Recorded \cup {Own}
Checkpoint == [actions : Recorded, seg : Recorded, data : World]
Call == [what : {"nothing", "forward", "backward", "goto", "retry", "given up"},
         from : Recorded, to : Int, start : 0..MaxAction + 1]

ViewTypeOK ==
  /\ kind \in [Recorded -> Kinds] /\ clock \in [Recorded -> 1..MaxAction + 1]
  /\ file \in [seg : Recorded, mid : BOOLEAN]
  /\ world \in World /\ base \in World /\ options \in Recorded \cup {Users}
  /\ zeroed \in BOOLEAN /\ outOfSync \in BOOLEAN /\ cmdsInvalid \in BOOLEAN
  /\ checkpoints \in Seq(Checkpoint)
  /\ actions \in Recorded /\ valid \in -1..1 /\ frame \in BOOLEAN /\ did \in BOOLEAN
  /\ call \in Call
  /\ done \in Nat
  /\ viewer \in {"menu", "idle", "forward", "goto", "failed", "exited", "lost"}

\* Where the screen may show something else: it was said that the state could
\* not be restored, or the step ran into the end of the log on its way (the
\* counter was behind where a checkpoint was made and is not now, so that a
\* step back counts too many), and no diff was left to load.
Unrestored ==
  \/ call.what = "given up"
  \/ outOfSync /\ AtEnd /\ ~did

\* What is on the screen after a step is the recorded game after as many
\* actions as diffs were read, with its options, whatever this build makes of
\* the commands; the action counter may be behind (a command that failed is
\* not counted when its diff is read), but not ahead.  This needs a new game like the
\* recorded one: its diff is not compared, and its checkpoint is what the next
\* diff is applied to.
ShownIsRecorded ==
  viewer = "idle" /\ kind[0] = "same" /\ call # Nothing =>
    /\ ~Unrestored => world = file.seg
    /\ base = file.seg
    /\ options = IF file.mid THEN file.seg + 1 ELSE file.seg
    /\ actions \in 0..file.seg

\* Where commands at most give another result, a step leads where it should:
\* one action on, one back, to the first action of a move; that is what the
\* screen shows, and nothing that is not there is announced.
Calm == \A k \in Recorded : kind[k] \in IF k = 0 THEN {"same"} ELSE {"same", "result"}
ArrivesWhereAsked ==
  viewer = "idle" /\ Calm /\ call # Nothing =>
    /\ actions = file.seg /\ world = file.seg
    /\ call.what = "forward" => IF call.from = MaxAction THEN ~did /\ actions = MaxAction
                                ELSE did /\ actions = call.from + 1
    /\ call.what = "backward" => actions = IF call.from = 0 THEN 0 ELSE call.from - 1
    /\ call.what = "goto" =>
         /\ clock[actions] >= call.to \/ actions = MaxAction
         /\ actions \in {0, call.from} \/ clock[actions - 1] < call.to

\* "This can only happen when an unguarded api function calls panic()" (the
\* exit of terminate, end.c): nh_view_replay_step is guarded, so a recording of
\* this very build, which at most ends with a death, is viewed to the end
\* without that.
Mortal == \A k \in Recorded : kind[k] \in IF k = 0 THEN {"same"} ELSE {"same", "dies"}
SurvivesFailure == Mortal => viewer # "exited"
=============================================================================
