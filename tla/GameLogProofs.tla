--------------------------- MODULE GameLogProofs ----------------------------
(***************************************************************************)
(* What holds of the log for every number of slots, commands, crashes and  *)
(* saves.                                                                  *)
(*                                                                         *)
(*   1. The offsets, for both readings of fclose.  The inductive invariant *)
(*      is TypeOK /\ Bookkeeping: TypeOK alone does not say that a         *)
(*      truncation to last_cmd_pos spares the journal.                     *)
(*   2. The reader: the forced replay of a log is a recursive function of  *)
(*      its tokens; it exists, it reads one token at a time, and logs that *)
(*      begin alike are read alike.                                        *)
(*   3. The journal (Journal): wherever the header or last_cmd_pos points, *)
(*      the reader stands between two commands with the last finished turn *)
(*      in its hands, or has met a question nobody answers or the death of *)
(*      the hero.                                                          *)
(*   4. The answers (Heard): when the replay asks what the player was      *)
(*      asked and dies of what the hero died of, there is no such question *)
(*      and no such death but the hero's own.                              *)
(*   5. The promise (Steady): the file implements DurableGame.             *)
(***************************************************************************)
EXTENDS GameLog, WellFoundedInduction, TLAPS

-----------------------------------------------------------------------------
(* 1. The offsets.                                                         *)

IInv == TypeOK /\ Bookkeeping

USE DEF Slots

(* A token the writer can produce is a token, of the kind it says. *)
LEMMA TokenTypes ==
  /\ \A t \in Kinds : Tok(t) \in Token /\ Tok(t).t = t
  /\ Hole \in Token /\ Hole.t = "hole"
  /\ \A c \in Commands : CmdTok(c) \in Token /\ CmdTok(c).t = "cmd"
  /\ \A w \in Worlds : ResTok(w) \in Token /\ ResTok(w).t = "res"
  /\ \A w \in Worlds : BinTok(w) \in Token /\ BinTok(w).w = w
  /\ \A b \in Worlds \cup {NoWorld}, w \in Worlds :
       DiffTok(b, w) \in Token /\ DiffTok(b, w).t = "diff"
BY DEF Token, Tok, Hole, CmdTok, ResTok, BinTok, DiffTok, Kinds

(* The file is well formed: tokens in its slots, worlds in its saves. *)
FileOK ==
  /\ body \in [Slots -> Token]
  /\ size \in 0..MaxLog
  /\ \A i \in Slots : body[i].t = "bin" => body[i].w \in Worlds

(* write() keeps the file well formed and touches the slot at the offset only. *)
LEMMA WriteFile ==
  ASSUME TypeOK, NEW tok \in Token, tok.t # "bin", Write(tok)
  PROVE  /\ FileOK'
         /\ pos' = pos + 1 /\ pos' \in 0..MaxLog
         /\ size = pos => size' = pos'
         /\ \A i \in Slots : i <= pos => body'[i] = body[i]
BY BoundsAssumption DEF TypeOK, FileOK, Write, Larger

(* ftruncate() keeps the file well formed and everything below its length. *)
LEMMA TruncateFile ==
  ASSUME TypeOK, NEW n \in 0..MaxLog, Truncate(n)
  PROVE  /\ FileOK'
         /\ size' = n
         /\ \A i \in Slots : i <= n => body'[i] = body[i]
BY BoundsAssumption, TokenTypes DEF TypeOK, FileOK, Truncate

(* What a process that is gone leaves in its variables is well typed. *)
LEMMA ForgetTypes ==
  ASSUME Forget
  PROVE  /\ pos' \in 0..MaxLog /\ lastCmd' \in 0..MaxLog /\ acts' \in Nat
         /\ base' \in Worlds \cup {NoWorld} /\ world' \in Worlds \cup {NoWorld}
         /\ cur' \in Commands \cup {NoCmd}
         /\ asked' \in BOOLEAN /\ dying' \in BOOLEAN /\ force' \in BOOLEAN
<1>1. pos' = 0 /\ lastCmd' = 0 /\ acts' = 0
  BY DEF Forget
<1>2. base' = NoWorld /\ world' = NoWorld /\ cur' = NoCmd
  BY DEF Forget
<1>3. asked' \in BOOLEAN /\ dying' \in BOOLEAN /\ force' \in BOOLEAN
  BY DEF Forget
<1>. QED
  BY <1>1, <1>2, <1>3, BoundsAssumption

LEMMA InitInv == Init => IInv
<1> SUFFICES ASSUME Init PROVE IInv
  OBVIOUS
<1> USE BoundsAssumption
<1>1. hdr \in Header /\ hdr.end = 0
  BY DEF Init, Header, Status
<1>2. body \in [Slots -> Token]
  BY TokenTypes DEF Init
<1>3. \A i \in Slots : body[i].t # "bin"
  BY TokenTypes DEF Init
<1>4. pc = "off" /\ pc \in PCs /\ pc \notin InMemory
  BY DEF Init, PCs, InMemory
<1>5. used \in [crash : Nat, opt : Nat, save : Nat, dead : Nat]
  BY DEF Init
<1>6. /\ size \in 0..MaxLog /\ pos \in 0..MaxLog /\ lastCmd \in 0..MaxLog
      /\ acts \in Nat
  BY DEF Init
<1>7. /\ base \in Worlds \cup {NoWorld} /\ world \in Worlds \cup {NoWorld}
      /\ cur \in Commands \cup {NoCmd}
  BY DEF Init
<1>8. asked \in BOOLEAN /\ dying \in BOOLEAN /\ force \in BOOLEAN
  BY DEF Init
<1>9. TypeOK
  BY <1>1, <1>2, <1>3, <1>4, <1>5, <1>6, <1>7, <1>8 DEF TypeOK
<1>10. Bookkeeping
  BY <1>1, <1>4 DEF Bookkeeping
<1>. QED
  BY <1>9, <1>10 DEF IInv

(* Every step keeps the invariant and, unless it is the end of a forced replay
   that failed, the journal. *)
Kept ==
  \/ force /\ pc \in {"read", "unwind"} /\ pc' \in {"unwind", "refused"} /\ hdr' = hdr
  \/ /\ hdr.end <= hdr'.end
     /\ \A i \in 1..hdr.end : body'[i] = body[i]

Good == TypeOK' /\ Bookkeeping' /\ Kept

LEMMA StutterStep == ASSUME IInv, UNCHANGED vars PROVE Good
<1>1. TypeOK'
  BY DEF IInv, TypeOK, vars, file, proc
<1>2. Bookkeeping'
  BY DEF IInv, Bookkeeping, vars, file, proc
<1>3. Kept
  BY DEF IInv, TypeOK, Kept, Header, vars, file, proc
<1>. QED
  BY <1>1, <1>2, <1>3 DEF Good

(* Steps of a running game that write one token at the end of the log: an
   option, a command, an answer, a result, the '~' of a diff, the diff. *)
LEMMA WriteStep ==
  ASSUME IInv, pc \in {"setup", "ready", "play", "mark", "data"},
         NEW tok \in Token, tok.t # "bin", Write(tok),
         UNCHANGED <<hdr, force>>,
         pc' \in {"ready", "play", "mark", "data", "header"},
         lastCmd' \in {lastCmd, pos'}, pc' = "ready" => lastCmd' = pos',
         acts' \in Nat, base' \in Worlds \cup {NoWorld}, world' \in Worlds,
         cur' \in Commands \cup {NoCmd}, pc' = "play" => cur' \in Commands,
         asked' \in BOOLEAN, dying' \in BOOLEAN,
         used' \in [crash : Nat, opt : Nat, save : Nat, dead : Nat]
  PROVE  Good
<1> USE BoundsAssumption
<1>1. /\ FileOK'
      /\ pos' = pos + 1 /\ pos' \in 0..MaxLog
      /\ size' = pos'
      /\ \A i \in Slots : i <= pos => body'[i] = body[i]
  BY WriteFile DEF IInv, Bookkeeping
<1>2. /\ hdr.end \in 0..MaxLog /\ lastCmd \in 0..MaxLog /\ pos \in 0..MaxLog
      /\ hdr.end <= lastCmd /\ lastCmd <= pos
      /\ hdr.st = "none" => hdr.end = 0
  BY DEF IInv, TypeOK, Bookkeeping, Header
<1>3. TypeOK'
  BY <1>1, <1>2 DEF IInv, TypeOK, FileOK, PCs, InMemory
<1>4. Bookkeeping'
  BY <1>1, <1>2 DEF Bookkeeping
<1>5. Kept
  BY <1>1, <1>2 DEF Kept
<1>. QED
  BY <1>3, <1>4, <1>5 DEF Good

(* A write the process makes while it lets go of the game: the score entry, the
   binary save or what there was time to write of it. *)
LEMMA LastWriteStep ==
  ASSUME IInv, NEW tok \in Token, tok.t = "bin" => tok.w \in Worlds,
         pc \in {"saving", "entry"}, pc' = "off", Forget, pos < MaxLog,
         body' = [body EXCEPT ![pos+1] = tok], size' = Larger(size, pos+1),
         UNCHANGED hdr, used' \in [crash : Nat, opt : Nat, save : Nat, dead : Nat]
  PROVE  Good
<1> USE BoundsAssumption
<1>0. /\ TypeOK /\ hdr.end \in 0..MaxLog /\ pos \in 0..MaxLog
      /\ (hdr.st = "none" => hdr.end = 0) /\ hdr.end <= pos
  BY DEF IInv, TypeOK, Bookkeeping, Header
<1>1. FileOK'
  BY <1>0 DEF TypeOK, FileOK, Larger
<1>2. TypeOK'
  BY <1>0, <1>1, ForgetTypes DEF TypeOK, FileOK, PCs, InMemory
<1>3. Bookkeeping'
  BY <1>0 DEF Bookkeeping
<1>4. Kept
  BY <1>0 DEF TypeOK, Kept
<1>. QED
  BY <1>2, <1>3, <1>4 DEF Good

LEMMA PlayStep == ASSUME IInv, Play PROVE Good
<1> USE BoundsAssumption
<1>0. /\ TypeOK /\ (pc \in InMemory => world \in Worlds)
      /\ hdr.end \in 0..MaxLog /\ lastCmd \in 0..MaxLog /\ pos \in 0..MaxLog
      /\ hdr \in Header
  BY DEF IInv, TypeOK, Header
<1>1. CASE NewGame
  <2>1. Tok("setup") \in Token /\ Tok("setup").t = "setup"
    BY TokenTypes DEF Kinds
  <2>2. hdr' \in Header /\ hdr'.end = 0 /\ world' \in Worlds
    BY <1>0, <1>1 DEF NewGame, Header, Status, Worlds, NewWorld
  <2>3. FileOK'
    BY <1>0, <1>1, <2>1 DEF NewGame, TypeOK, FileOK
  <2>4. TypeOK'
    BY <1>0, <1>1, <2>2, <2>3 DEF NewGame, TypeOK, FileOK, PCs, InMemory
  <2>5. Bookkeeping'
    BY <1>1, <2>2 DEF NewGame, Bookkeeping
  <2>6. Kept
    BY <1>0, <1>1, <2>2 DEF NewGame, IInv, Bookkeeping, Kept
  <2>. QED
    BY <2>4, <2>5, <2>6 DEF Good
<1>2. CASE SetOption
  <2>1. Tok("opt") \in Token /\ Tok("opt").t # "bin"
    BY TokenTypes DEF Kinds
  <2>2. used' \in [crash : Nat, opt : Nat, save : Nat, dead : Nat]
    <3>1. used \in [crash : Nat, opt : Nat, save : Nat, dead : Nat] /\ used.opt + 1 \in Nat
      BY <1>0 DEF TypeOK
    <3>. QED
      BY <1>2, <3>1 DEF SetOption
  <2>. QED
    BY <1>0, <1>2, <2>1, <2>2, WriteStep DEF SetOption, TypeOK, InMemory, Write
<1>3. ASSUME NEW c \in Commands, StartCommand(c) PROVE Good
  <2>1. CmdTok(c) \in Token /\ CmdTok(c).t # "bin"
    BY TokenTypes
  <2>. QED
    BY <1>0, <1>3, <2>1, WriteStep DEF StartCommand, TypeOK, InMemory
<1>4. CASE LogInput
  <2>1. Tok("in") \in Token /\ Tok("in").t # "bin"
    BY TokenTypes DEF Kinds
  <2>. QED
    BY <1>0, <1>4, <2>1, WriteStep DEF LogInput, TypeOK, InMemory
<1>5. CASE RevertCommand
  <2>1. /\ FileOK' /\ size' = lastCmd
        /\ \A i \in Slots : i <= lastCmd => body'[i] = body[i]
    BY <1>0, <1>5, TruncateFile DEF RevertCommand
  <2>2. hdr.end <= lastCmd /\ hdr' = hdr /\ (hdr.st = "none" => hdr.end = 0)
    BY <1>5 DEF RevertCommand, IInv, Bookkeeping
  <2>3. TypeOK'
    BY <1>0, <1>5, <2>1 DEF RevertCommand, TypeOK, FileOK, PCs, InMemory
  <2>4. Bookkeeping'
    BY <1>0, <1>5, <2>1, <2>2 DEF RevertCommand, Bookkeeping
  <2>5. Kept
    BY <1>0, <2>1, <2>2 DEF Kept
  <2>. QED
    BY <2>3, <2>4, <2>5 DEF Good
<1>6. ASSUME NEW w \in Worlds, NEW dead \in BOOLEAN, LogResult(w, dead),
             pc \in {"setup", "play"}
      PROVE  Good
  <2>1. ResTok(w) \in Token /\ ResTok(w).t # "bin"
    BY TokenTypes
  <2>. QED
    BY <1>0, <1>6, <2>1, WriteStep DEF LogResult, TypeOK
<1>7. CASE FirstResult
  BY <1>0, <1>6, <1>7 DEF FirstResult, InMemory
<1>8. ASSUME NEW dead \in BOOLEAN, FinishCommand(dead) PROVE Good
  <2>1. Append(world, cur) \in Worlds
    BY <1>0, <1>8 DEF FinishCommand, TypeOK, InMemory, Worlds
  <2>. QED
    BY <1>6, <1>8, <2>1 DEF FinishCommand
<1>9. CASE LogMark
  <2>1. Tok("mark") \in Token /\ Tok("mark").t # "bin"
    BY TokenTypes DEF Kinds
  <2>. QED
    BY <1>0, <1>9, <2>1, WriteStep DEF LogMark, TypeOK, InMemory
<1>10. CASE LogDiff
  <2>1. DiffTok(base, world) \in Token /\ DiffTok(base, world).t # "bin"
    BY <1>0, <1>10, TokenTypes DEF LogDiff, TypeOK, InMemory
  <2>. QED
    BY <1>0, <1>10, <2>1, WriteStep DEF LogDiff, TypeOK, InMemory
<1>11. CASE CommitHeader
  <2>1. /\ hdr' \in Header /\ hdr'.end = pos /\ hdr.end <= pos
        /\ hdr'.st = "inpr"
    BY <1>0, <1>11 DEF CommitHeader, TypeOK, IInv, Bookkeeping, Header, Status
  <2>5. used' \in [crash : Nat, opt : Nat, save : Nat, dead : Nat]
    <3>1. /\ used \in [crash : Nat, opt : Nat, save : Nat, dead : Nat]
          /\ used.dead + 0 \in Nat /\ used.dead + 1 \in Nat
      BY <1>0 DEF TypeOK
    <3>. QED
      BY <1>11, <3>1 DEF CommitHeader
  <2>2. TypeOK'
    BY <1>0, <1>11, <2>1, <2>5 DEF CommitHeader, TypeOK, PCs, InMemory
  <2>3. Bookkeeping'
    BY <1>0, <1>11, <2>1 DEF CommitHeader, IInv, Bookkeeping
  <2>4. Kept
    BY <1>0, <1>11, <2>1 DEF CommitHeader, Kept
  <2>. QED
    BY <2>2, <2>3, <2>4 DEF Good
<1>12. CASE FinishGame
  <2>1. hdr' \in Header /\ hdr'.end = lastCmd /\ hdr'.st = "done" /\ hdr.end <= lastCmd
    BY <1>0, <1>12 DEF FinishGame, IInv, Bookkeeping, Header, Status
  <2>2. TypeOK'
    BY <1>0, <1>12, <2>1 DEF FinishGame, TypeOK, PCs, InMemory
  <2>3. Bookkeeping'
    BY <1>0, <1>12, <2>1 DEF FinishGame, Bookkeeping
  <2>4. Kept
    BY <1>0, <1>12, <2>1 DEF FinishGame, Kept
  <2>. QED
    BY <2>2, <2>3, <2>4 DEF Good
<1>13. CASE LogEntry
  <2>1. Tok("top") \in Token /\ Tok("top").t # "bin"
    BY TokenTypes DEF Kinds
  <2>. QED
    BY <1>0, <1>13, <2>1, LastWriteStep DEF LogEntry, TypeOK
<1>. QED
  BY <1>1, <1>2, <1>3, <1>4, <1>5, <1>7, <1>8, <1>9, <1>10, <1>11, <1>12, <1>13 DEF Play

LEMMA LeaveStep == ASSUME IInv, Leave PROVE Good
<1> USE BoundsAssumption
<1>0. /\ TypeOK /\ (pc \in InMemory => world \in Worlds)
      /\ (pc = "play" => cur \in Commands)
      /\ hdr.end \in 0..MaxLog /\ lastCmd \in 0..MaxLog /\ pos \in 0..MaxLog
      /\ hdr \in Header /\ (hdr.st = "none" => hdr.end = 0)
      /\ used \in [crash : Nat, opt : Nat, save : Nat, dead : Nat]
      /\ used.save + 1 \in Nat /\ used.crash + 1 \in Nat
  BY DEF IInv, TypeOK, Bookkeeping, Header
<1>1. CASE BeginSave
  <2>1. pc \in {"ready", "play"} /\ hdr.end <= lastCmd
    BY <1>1 DEF BeginSave, IInv, Bookkeeping
  <2>2. hdr' \in Header /\ hdr'.end = lastCmd /\ hdr'.st = "save"
    BY <1>0, <1>1 DEF BeginSave, Header, Status
  <2>3. world' \in Worlds
    <3>1. world \in Worlds
      BY <1>0, <2>1 DEF InMemory
    <3>2. pc = "play" => Append(world, cur) \in Worlds
      BY <1>0, <3>1 DEF Worlds
    <3>. QED
      BY <1>1, <3>1, <3>2 DEF BeginSave
  <2>4. used' \in [crash : Nat, opt : Nat, save : Nat, dead : Nat]
    BY <1>0, <1>1 DEF BeginSave
  <2>5. TypeOK'
    BY <1>0, <1>1, <2>2, <2>3, <2>4 DEF BeginSave, TypeOK, PCs, InMemory
  <2>6. Bookkeeping'
    BY <1>0, <1>1, <2>2 DEF BeginSave, Bookkeeping
  <2>7. Kept
    BY <1>0, <1>1, <2>1, <2>2 DEF BeginSave, Kept
  <2>. QED
    BY <2>5, <2>6, <2>7 DEF Good
<1>3. CASE StoreSave
  <2>1. BinTok(world) \in Token /\ BinTok(world).w \in Worlds
    BY <1>0, <1>3, TokenTypes DEF StoreSave, InMemory
  <2>. QED
    BY <1>0, <1>3, <2>1, LastWriteStep DEF StoreSave
<1>4. Die => used' \in [crash : Nat, opt : Nat, save : Nat, dead : Nat]
  BY <1>0 DEF Die
<1>5. CASE Crash
  <2>1. TypeOK'
    BY <1>0, <1>4, <1>5, ForgetTypes DEF Crash, Die, file, TypeOK, PCs, InMemory
  <2>2. Bookkeeping'
    BY <1>0, <1>5 DEF Crash, Die, file, Bookkeeping
  <2>3. Kept
    BY <1>0, <1>5 DEF Crash, file, Kept
  <2>. QED
    BY <2>1, <2>2, <2>3 DEF Good
<1>6. CASE CrashInStore
  <2>1. Tok("torn") \in Token /\ Tok("torn").t # "bin"
    BY TokenTypes DEF Kinds
  <2>. QED
    BY <1>0, <1>4, <1>6, <2>1, LastWriteStep DEF CrashInStore, Die
<1>. QED
  BY <1>1, <1>3, <1>5, <1>6 DEF Leave

(* Wherever stdio left the shared offset, it is in the file and not before the
   slot the reader stopped at. *)
LEMMA Offsets ==
  ASSUME TypeOK, NEW n \in 0..MaxLog, NEW p \in OffsetAfter(n)
  PROVE  p \in 0..MaxLog /\ n <= p
BY BoundsAssumption DEF TypeOK, OffsetAfter, Larger

(* replay_end writes at the offset, wherever that is. *)
LEMMA ReplayEndFile ==
  ASSUME TypeOK, ReplayEnd
  PROVE  /\ FileOK'
         /\ pos' \in 0..MaxLog /\ pos <= pos' /\ lastCmd' \in {lastCmd, pos'}
         /\ \A i \in Slots : i <= pos => body'[i] = body[i]
<1>1. CASE UNCHANGED <<body, size, pos, lastCmd>>
  BY <1>1 DEF TypeOK, FileOK
<1>2. CASE LogZone
  <2>1. Tok("tz") \in Token /\ Tok("tz").t # "bin"
    BY TokenTypes DEF Kinds
  <2>. QED
    BY <1>2, <2>1, WriteFile DEF LogZone, TypeOK
<1>3. CASE LogOptions
  <2>1. Tok("opt") \in Token /\ Tok("opt").t # "bin"
    BY TokenTypes DEF Kinds
  <2>. QED
    BY <1>3, <2>1, WriteFile DEF LogOptions, TypeOK
<1>. QED
  BY <1>1, <1>2, <1>3 DEF ReplayEnd

LEMMA ResumeStep == ASSUME IInv, Resume PROVE Good
<1> USE BoundsAssumption
<1>0. /\ TypeOK /\ (pc \in InMemory => world \in Worlds)
      /\ hdr.end \in 0..MaxLog /\ lastCmd \in 0..MaxLog /\ pos \in 0..MaxLog
      /\ hdr \in Header /\ hdr.acts \in Nat /\ (hdr.st = "none" => hdr.end = 0)
      /\ used \in [crash : Nat, opt : Nat, save : Nat, dead : Nat]
      /\ used.opt + 1 \in Nat
  BY DEF IInv, TypeOK, Bookkeeping, Header
<1>1. CASE OpenLog
  <2>1. TypeOK'
    BY <1>0, <1>1 DEF OpenLog, file, TypeOK, PCs, InMemory
  <2>2. Bookkeeping'
    BY <1>0, <1>1 DEF OpenLog, file, Bookkeeping
  <2>3. Kept
    BY <1>0, <1>1 DEF OpenLog, file, Kept
  <2>. QED
    BY <2>1, <2>2, <2>3 DEF Good
<1>2. CASE LoadSave
  <2>1. hdr.end + 1 \in Slots /\ world' \in Worlds
    BY <1>0, <1>2 DEF LoadSave, HasImage, TypeOK
  <2>2. pos' \in 0..MaxLog /\ hdr.end <= pos'
    BY <1>0, <1>2, Offsets DEF LoadSave
  <2>3. /\ FileOK' /\ size' = hdr.end
        /\ \A i \in Slots : i <= hdr.end => body'[i] = body[i]
    BY <1>0, <1>2, TruncateFile DEF LoadSave
  <2>4. hdr.end <= lastCmd
    BY <1>2 DEF LoadSave, IInv, Bookkeeping
  <2>5. TypeOK'
    BY <1>0, <1>2, <2>1, <2>2, <2>3 DEF LoadSave, TypeOK, FileOK, PCs, InMemory
  <2>6. Bookkeeping'
    BY <1>0, <1>2, <2>2, <2>4 DEF LoadSave, Bookkeeping
  <2>7. Kept
    BY <1>0, <1>2, <2>3 DEF LoadSave, Kept
  <2>. QED
    BY <2>5, <2>6, <2>7 DEF Good
<1>3. CASE LoadFails
  <2>1. pos' \in 0..MaxLog /\ hdr.end <= pos'
    BY <1>0, <1>3, Offsets DEF LoadFails
  <2>2. TypeOK'
    BY <1>0, <1>3, <2>1 DEF LoadFails, file, TypeOK, PCs, InMemory
  <2>3. Bookkeeping'
    BY <1>0, <1>3, <2>1 DEF LoadFails, file, Bookkeeping
  <2>4. Kept
    BY <1>0, <1>3 DEF LoadFails, file, Kept
  <2>. QED
    BY <2>2, <2>3, <2>4 DEF Good
<1>4. CASE ReplayLog
  <2>1. pos' \in 0..MaxLog /\ hdr.end <= pos'
    BY <1>0, <1>4, Offsets DEF ReplayLog
  <2>2. hdr.end <= lastCmd
    BY <1>4 DEF ReplayLog, IInv, Bookkeeping
  <2>3. TypeOK'
    BY <1>0, <1>4, <2>1 DEF ReplayLog, file, TypeOK, PCs, InMemory
  <2>4. Bookkeeping'
    BY <1>0, <1>4, <2>1, <2>2 DEF ReplayLog, file, Bookkeeping
  <2>5. Kept
    BY <1>0, <1>4 DEF ReplayLog, file, Kept
  <2>. QED
    BY <2>3, <2>4, <2>5 DEF Good
<1>5. CASE ReplayFails
  <2>1. PICK n \in FailsAt : pos' \in OffsetAfter(n)
    BY <1>5 DEF ReplayFails
  <2>2. n \in 0..MaxLog
    BY <1>0 DEF FailsAt
  <2>3. pos' \in 0..MaxLog
    BY <1>0, <2>1, <2>2, Offsets
  <2>4. TypeOK'
    BY <1>0, <1>5, <2>3 DEF ReplayFails, file, TypeOK, PCs, InMemory
  <2>5. Bookkeeping'
    BY <1>0, <1>5 DEF ReplayFails, file, Bookkeeping
  <2>6. Kept
    BY <1>0, <1>5 DEF ReplayFails, file, Kept
  <2>. QED
    BY <2>4, <2>5, <2>6 DEF Good
<1>9. CASE ReplayDies
  <2>1. PICK n \in FailsAt : \E at \in n..size :
              /\ at < MaxLog
              /\ body' = [body EXCEPT ![at+1] = Tok("top")]
              /\ size' = Larger(size, at+1)
              /\ pos' \in n..size'
    BY <1>9 DEF ReplayDies
  <2>2. PICK at \in n..size : /\ at < MaxLog
                              /\ body' = [body EXCEPT ![at+1] = Tok("top")]
                              /\ size' = Larger(size, at+1)
                              /\ pos' \in n..size'
    BY <2>1
  <2>3. n \in 0..MaxLog
    BY <1>0 DEF FailsAt
  <2>4. at \in 0..MaxLog-1 /\ size' \in 0..MaxLog /\ pos' \in 0..MaxLog
    BY <1>0, <2>2, <2>3 DEF TypeOK, Larger
  <2>5. Tok("top") \in Token /\ Tok("top").t # "bin"
    BY TokenTypes DEF Kinds
  <2>6. FileOK'
    BY <1>0, <2>2, <2>4, <2>5 DEF TypeOK, FileOK
  <2>7. TypeOK'
    BY <1>0, <1>9, <2>4, <2>6 DEF ReplayDies, TypeOK, FileOK, PCs, InMemory
  <2>8. Bookkeeping'
    BY <1>0, <1>9 DEF ReplayDies, Bookkeeping
  <2>9. Kept
    BY <1>0, <1>9 DEF ReplayDies, Kept
  <2>. QED
    BY <2>7, <2>8, <2>9 DEF Good
<1>6. CASE EndReplay
  <2>1. /\ FileOK' /\ pos' \in 0..MaxLog /\ pos <= pos'
        /\ lastCmd' \in {lastCmd, pos'}
        /\ \A i \in Slots : i <= pos => body'[i] = body[i]
    BY <1>0, <1>6, ReplayEndFile DEF EndReplay
  <2>2. hdr.end <= pos /\ hdr.end <= lastCmd
    BY <1>6 DEF EndReplay, IInv, Bookkeeping
  <2>3. used' \in [crash : Nat, opt : Nat, save : Nat, dead : Nat]
    BY <1>0, <1>6 DEF EndReplay
  <2>4. TypeOK'
    BY <1>0, <1>6, <2>1, <2>3 DEF EndReplay, TypeOK, FileOK, PCs, InMemory
  <2>5. Bookkeeping'
    BY <1>0, <1>6, <2>1, <2>2 DEF EndReplay, Bookkeeping
  <2>6. Kept
    BY <1>0, <1>6, <2>1, <2>2 DEF EndReplay, Kept
  <2>. QED
    BY <2>4, <2>5, <2>6 DEF Good
<1>7. CASE TruncateLog
  <2>1. /\ FileOK' /\ size' = lastCmd
        /\ \A i \in Slots : i <= lastCmd => body'[i] = body[i]
    BY <1>0, <1>7, TruncateFile DEF TruncateLog
  <2>2. hdr.end <= lastCmd
    BY <1>7 DEF TruncateLog, IInv, Bookkeeping
  <2>3. TypeOK'
    BY <1>0, <1>7, <2>1 DEF TruncateLog, TypeOK, FileOK, PCs, InMemory
  <2>4. Bookkeeping'
    BY <1>0, <1>7, <2>1, <2>2 DEF TruncateLog, Bookkeeping
  <2>5. Kept
    BY <1>0, <1>7, <2>1, <2>2 DEF TruncateLog, Kept
  <2>. QED
    BY <2>3, <2>4, <2>5 DEF Good
<1>8. CASE Unwind
  <2>1. /\ FileOK' /\ pos' \in 0..MaxLog /\ pos <= pos'
        /\ lastCmd' \in {lastCmd, pos'}
        /\ \A i \in Slots : i <= pos => body'[i] = body[i]
    BY <1>0, <1>8, ReplayEndFile DEF Unwind
  <2>2. ~force => hdr.end <= pos
    BY <1>8 DEF Unwind, IInv, Bookkeeping
  <2>3. used' \in [crash : Nat, opt : Nat, save : Nat, dead : Nat]
    BY <1>0, <1>8 DEF Unwind
  <2>4. TypeOK'
    BY <1>0, <1>8, <2>1, <2>3 DEF Unwind, TypeOK, FileOK, PCs, InMemory
  <2>5. Bookkeeping'
    BY <1>0, <1>8, <2>1 DEF Unwind, Bookkeeping
  <2>6. Kept
    BY <1>0, <1>8, <2>1, <2>2 DEF Unwind, Kept
  <2>. QED
    BY <2>4, <2>5, <2>6 DEF Good
<1>. QED
  BY <1>1, <1>2, <1>3, <1>4, <1>5, <1>6, <1>7, <1>8, <1>9 DEF Resume

LEMMA NextStep == ASSUME IInv, [Next]_vars PROVE IInv' /\ Kept
BY StutterStep, PlayStep, LeaveStep, ResumeStep DEF Next, Good, IInv

(* Both together are kept by every step of log.c, save.c, end.c and
   nh_restore_game. *)
THEOREM Invariant == Spec => []IInv
<1>1. Init => IInv
  BY InitInv
<1>2. IInv /\ [Next]_vars => IInv'
  BY NextStep
<1>. QED
  BY <1>1, <1>2, PTL DEF Spec

(* The variables of the log and of its process keep their types, a game in
   memory is a world, and a complete binary save holds one (log.c, save.c,
   restore.c, allmain.c). *)
THEOREM TypeCorrect == Spec => []TypeOK
<1>1. IInv => TypeOK
  BY DEF IInv
<1>. QED
  BY <1>1, Invariant, PTL

(* last_cmd_pos, the file offset, the end of the file and endpos keep the order
   every seek and truncation of log.c, save.c and nh_restore_game relies on. *)
THEOREM OffsetsInOrder == Spec => []Bookkeeping
<1>1. IInv => Bookkeeping
  BY DEF IInv
<1>. QED
  BY <1>1, Invariant, PTL

(* While the game waits for a command, nothing of the file lies beyond
   last_cmd_pos: log_truncate, log_revert_command and log_command_result leave
   no half-written command behind. *)
THEOREM NothingIsPending == Spec => []NothingPending
<1>1. IInv => NothingPending
  BY DEF IInv, TypeOK, Bookkeeping, NothingPending
<1>. QED
  BY <1>1, Invariant, PTL

-----------------------------------------------------------------------------
(* 2. The reader.                                                          *)
(*                                                                         *)
(* ReplayTo is a recursive function.  That one exists for every log and    *)
(* every length is shown by the least length for which it does not, and so *)
(* is everything that is said of all lengths below.                        *)

(* A set of numbers that is not empty has a least element. *)
LEMMA Least ==
  ASSUME NEW T, T \subseteq Nat, T # {}
  PROVE  \E x \in T : \A y \in T : x <= y
<1>1. PICK x \in T : \A y \in T : ~(<<y, x>> \in OpToRel(<, Nat))
  BY NatLessThanWellFounded, WFMin
<1>2. \A y \in T : x <= y
  <2> TAKE y \in T
  <2>1. ~(y < x)
    BY <1>1 DEF OpToRel
  <2> QED
    BY <2>1
<1> QED
  BY <1>2

(* What the readers of S make of a token. *)
ReadersAfter(S, tok) == {ReplayStep(r, tok) : r \in S}

(* f is the reader after each of the first n tokens of b, if h is. *)
Reads(b, f, h, n) ==
  f = [i \in 0..n |-> IF i = 0 THEN {ReplayInit} ELSE {ReplayStep(r, b[i]) : r \in h[i-1]}]
Rounds(b, f, n) == Reads(b, f, f, n)

(* The function, one length at a time. *)
LEMMA RoundOf ==
  ASSUME NEW b, NEW n \in Nat, NEW f, NEW h, Reads(b, f, h, n)
  PROVE  /\ f[0] = {ReplayInit}
         /\ \A i \in 1..n : f[i] = ReadersAfter(h[i-1], b[i])
BY DEF ReadersAfter, Reads

(* There is always one more token to read. *)
LEMMA OneMore ==
  ASSUME NEW b, NEW n \in Nat, NEW f, Rounds(b, f, n)
  PROVE  \E g : Rounds(b, g, n + 1)
<1> DEFINE g == [i \in 0..n+1 |-> IF i = n + 1 THEN ReadersAfter(f[n], b[i]) ELSE f[i]]
<1>1. \A i \in 0..n : g[i] = f[i]
  OBVIOUS
<1>2. ASSUME NEW i \in 0..n+1
      PROVE  g[i] = IF i = 0 THEN {ReplayInit} ELSE ReadersAfter(g[i-1], b[i])
  <2>1. CASE i = n + 1
    <3>1. g[n] = f[n] /\ i - 1 = n /\ i # 0
      BY <1>1, <2>1
    <3>2. g[i] = ReadersAfter(f[n], b[i])
      BY <2>1
    <3> QED
      BY <3>1, <3>2
  <2>2. CASE i \in 1..n
    <3>1. g[i] = f[i] /\ g[i-1] = f[i-1]
      BY <1>1, <2>2
    <3>2. f[i] = ReadersAfter(f[i-1], b[i])
      BY <2>2, RoundOf DEF Rounds
    <3> QED
      BY <2>2, <3>1, <3>2
  <2>3. CASE i = 0
    <3>1. f[0] = {ReplayInit}
      BY RoundOf DEF Rounds
    <3> QED
      BY <1>1, <2>3, <3>1
  <2> QED
    BY <2>1, <2>2, <2>3
<1>3. g = [i \in 0..n+1 |-> IF i = 0 THEN {ReplayInit} ELSE ReadersAfter(g[i-1], b[i])]
  <2> HIDE DEF g
  <2>1. DOMAIN g = 0..n+1 /\ g = [i \in 0..n+1 |-> g[i]]
    BY DEF g
  <2> QED
    BY <1>2, <2>1
<1> QED
  BY <1>3 DEF Rounds, Reads, ReadersAfter

(* So the replay of a log is defined for every length. *)
LEMMA RoundsExist ==
  ASSUME NEW b, NEW n \in Nat
  PROVE  \E f : Rounds(b, f, n)
<1> DEFINE T == {k \in Nat : ~\E f : Rounds(b, f, k)}
<1>1. SUFFICES ASSUME T # {} PROVE FALSE
  OBVIOUS
<1>2. PICK k \in T : \A j \in T : k <= j
  <2> HIDE DEF T
  <2>1. T \subseteq Nat
    BY DEF T
  <2> QED
    BY <1>1, <2>1, Least
<1>3. CASE k = 0
  <2>1. Rounds(b, [i \in 0..0 |-> {ReplayInit}], 0)
    BY DEF Rounds, Reads
  <2> QED
    BY <1>3, <2>1
<1>4. CASE k # 0
  <2>1. k - 1 \in Nat /\ k - 1 \notin T /\ (k - 1) + 1 = k
    BY <1>2, <1>4
  <2>2. PICK f : Rounds(b, f, k - 1)
    BY <2>1
  <2> QED
    BY <2>1, <2>2, OneMore
<1> QED
  BY <1>3, <1>4

(* The recursive function of GameReplay does what its equation says. *)
LEMMA RoundsOf ==
  ASSUME NEW b, NEW n \in Nat
  PROVE  /\ ReplayTo(b, n)[0] = {ReplayInit}
         /\ \A i \in 1..n : ReplayTo(b, n)[i] = ReadersAfter(ReplayTo(b, n)[i-1], b[i])
<1>1. PICK f : Rounds(b, f, n)
  BY RoundsExist
<1>2. Rounds(b, ReplayTo(b, n), n)
  BY <1>1 DEF Rounds, Reads, ReplayTo
<1> QED
  BY <1>2, RoundOf DEF Rounds

(* Two logs that begin alike are read alike. *)
LEMMA RoundsAgree ==
  ASSUME NEW b, NEW c, NEW m \in Nat, NEW n \in Nat, NEW k \in 0..m, k <= n,
         \A i \in 1..k : b[i] = c[i]
  PROVE  ReplayTo(b, m)[k] = ReplayTo(c, n)[k]
<1> DEFINE f == ReplayTo(b, m)
           g == ReplayTo(c, n)
           T == {j \in 0..k : f[j] # g[j]}
<1>1. /\ f[0] = {ReplayInit} /\ g[0] = {ReplayInit}
      /\ \A i \in 1..m : f[i] = ReadersAfter(f[i-1], b[i])
      /\ \A i \in 1..n : g[i] = ReadersAfter(g[i-1], c[i])
  BY RoundsOf
<1> HIDE DEF f, g
<1>2. SUFFICES ASSUME T # {} PROVE FALSE
  BY DEF f, g
<1>3. PICK j \in T : \A i \in T : j <= i
  <2>1. T \subseteq Nat
    OBVIOUS
  <2> HIDE DEF T
  <2> QED
    BY <1>2, <2>1, Least
<1>4. j # 0
  BY <1>1
<1>5. j - 1 \notin T /\ j - 1 \in 0..k /\ j \in 1..m /\ j \in 1..n /\ j \in 1..k
  <2>1. j \in 0..k
    OBVIOUS
  <2>2. j - 1 \in 0..k /\ j \in 1..m /\ j \in 1..n /\ j \in 1..k /\ ~(j <= j - 1)
    BY <2>1, <1>4
  <2> HIDE DEF T
  <2> QED
    BY <2>2, <1>3
<1>6. f[j-1] = g[j-1] /\ b[j] = c[j]
  BY <1>5
<1>7. f[j] = ReadersAfter(f[j-1], b[j]) /\ g[j] = ReadersAfter(g[j-1], c[j])
  BY <1>1, <1>5
<1> QED
  BY <1>6, <1>7

(* There is one reader after each token. *)
LEMMA RoundIsOne ==
  ASSUME NEW b, NEW n \in Nat, NEW k \in 0..n
  PROVE  ReplayTo(b, n)[k] = {Replay(b, k)}
<1> DEFINE f == ReplayTo(b, n)
           T == {j \in 0..n : ~\E x : f[j] = {x}}
<1>1. f[0] = {ReplayInit} /\ \A i \in 1..n : f[i] = ReadersAfter(f[i-1], b[i])
  BY RoundsOf
<1>2. ReplayTo(b, k)[k] = f[k]
  BY RoundsAgree
<1> HIDE DEF f
<1>3. T = {}
  <2>1. SUFFICES ASSUME T # {} PROVE FALSE
    OBVIOUS
  <2>2. PICK j \in T : \A i \in T : j <= i
    <3>1. T \subseteq Nat
      OBVIOUS
    <3> HIDE DEF T
    <3> QED
      BY <2>1, <3>1, Least
  <2>3. j # 0
    BY <1>1
  <2>4. j - 1 \notin T /\ j - 1 \in 0..n /\ j \in 1..n
    <3>1. j \in 0..n
      OBVIOUS
    <3>2. j - 1 \in 0..n /\ j \in 1..n /\ ~(j <= j - 1)
      BY <3>1, <2>3
    <3> HIDE DEF T
    <3> QED
      BY <3>2, <2>2
  <2>5. PICK x : f[j-1] = {x}
    BY <2>4
  <2>6. f[j] = ReadersAfter({x}, b[j])
    BY <1>1, <2>4, <2>5
  <2>7. f[j] = {ReplayStep(x, b[j])}
    BY <2>6 DEF ReadersAfter
  <2> QED
    BY <2>7
<1>4. PICK x : f[k] = {x}
  BY <1>3
<1>5. Replay(b, k) = CHOOSE r \in {x} : TRUE
  BY <1>2, <1>4 DEF Replay
<1>6. (CHOOSE r \in {x} : TRUE) = x
  OBVIOUS
<1> QED
  BY <1>4, <1>5, <1>6 DEF f

(* The reader token by token. *)
LEMMA ReplayStarts ==
  ASSUME NEW b
  PROVE  Replay(b, 0) = ReplayInit
<1>1. ReplayTo(b, 0)[0] = {Replay(b, 0)}
  BY RoundIsOne
<1>2. ReplayTo(b, 0)[0] = {ReplayInit}
  BY RoundsOf
<1> QED
  BY <1>1, <1>2

LEMMA ReplayGoesOn ==
  ASSUME NEW b, NEW n \in Nat
  PROVE  Replay(b, n + 1) = ReplayStep(Replay(b, n), b[n + 1])
<1> DEFINE f == ReplayTo(b, n + 1)
<1>1. f[n] = {Replay(b, n)} /\ f[n + 1] = {Replay(b, n + 1)}
  BY RoundIsOne
<1>2. n + 1 \in 1..n+1 /\ (n + 1) - 1 = n
  OBVIOUS
<1>3. f[n + 1] = ReadersAfter(f[n], b[n + 1])
  BY <1>2, RoundsOf
<1> HIDE DEF f
<1>4. f[n + 1] = {ReplayStep(Replay(b, n), b[n + 1])}
  BY <1>1, <1>3 DEF ReadersAfter
<1> QED
  BY <1>1, <1>4

LEMMA ReplaySame ==
  ASSUME NEW b, NEW c, NEW n \in Nat, \A i \in 1..n : b[i] = c[i]
  PROVE  Replay(b, n) = Replay(c, n)
<1>1. ReplayTo(b, n)[n] = ReplayTo(c, n)[n]
  BY RoundsAgree
<1> QED
  BY <1>1, RoundIsOne
-----------------------------------------------------------------------------
(* What one token does to the reader.                                      *)

(* What a command may say when it is asked whether it asks. *)
Answers == {Asks(c, w) : c \in Commands, w \in Worlds}
Answer == {FALSE} \cup Answers

(* A record of the reader's. *)
Reader(r) ==
  /\ r \in [played : Worlds, base : Worlds \cup {NoWorld}, diffs : Nat, valid : BOOLEAN,
            asks : Answer, mark : BOOLEAN, fail : BOOLEAN]
  /\ r.diffs >= 1 => r.base \in Worlds
  /\ r.mark => ~r.asks

(* A token whose world or command is one. *)
SoundToken(tok) ==
  /\ tok.t \in {"res", "diff"} => tok.w \in Worlds
  /\ tok.t = "cmd" => tok.c \in Commands

(* The reader has not given up, and waits neither for a diff nor for input. *)
Calm(r) == ~r.fail /\ ~r.mark /\ ~r.asks

(* One lemma for each kind of token.  Between two commands the reader skips
   what it has no case for. *)
LEMMA StepSkips ==
  ASSUME NEW r, Reader(r), NEW tok, Calm(r), tok.t \notin {"cmd", "res", "mark"}
  PROVE  ReplayStep(r, tok) = r
BY DEF ReplayStep, Calm

LEMMA StepCommand ==
  ASSUME NEW r, Reader(r), NEW tok, Calm(r), tok.t = "cmd", ~Died(ReplayStep(r, tok))
  PROVE  LET s == ReplayStep(r, tok) IN
         /\ s.fail = FALSE /\ s.mark = FALSE /\ s.base = r.base /\ s.diffs = r.diffs
         /\ s.valid = r.valid
         /\ r.valid => s.played = Append(r.played, tok.c) /\ s.asks = Asks(tok.c, r.played)
         /\ ~r.valid => s.played = r.played /\ ~s.asks
<1>1. ReplayStep(r, tok) = ReadCommand(r, tok)
  BY DEF ReplayStep, Calm
<1>2. CASE ~r.valid
  BY <1>1, <1>2 DEF ReadCommand, Calm, Reader
<1>3. CASE r.valid
  <2> DEFINE w    == Append(r.played, tok.c)
             asks == Asks(tok.c, r.played)
             s    == [r EXCEPT !.played = w, !.asks = asks, !.fail = ~asks /\ Fatal(w)]
  <2>1. ReplayStep(r, tok) = s
    BY <1>1, <1>3 DEF ReadCommand
  <2>2. /\ s.fail = (~asks /\ Fatal(w)) /\ s.mark = FALSE /\ s.base = r.base
        /\ s.diffs = r.diffs /\ s.valid = r.valid /\ s.played = w /\ s.asks = asks
    BY DEF Reader, Calm
  <2>3. s.fail = FALSE
    <3> HIDE DEF w, asks, s
    <3>1. ~(~asks /\ Fatal(w))
      BY <2>1, <2>2 DEF Died
    <3> QED
      BY <2>2, <3>1
  <2> QED
    BY <1>3, <2>1, <2>2, <2>3
<1> QED
  BY <1>2, <1>3 DEF Reader

LEMMA StepInput ==
  ASSUME NEW r, Reader(r), NEW tok, ~r.fail, ~r.mark, tok.t = "in", ~Died(ReplayStep(r, tok))
  PROVE  LET s == ReplayStep(r, tok) IN
         /\ s.fail = FALSE /\ s.mark = FALSE /\ s.base = r.base /\ s.diffs = r.diffs
         /\ s.valid = r.valid /\ s.played = r.played /\ ~s.asks
<1>1. CASE r.asks
  <2> DEFINE s == [r EXCEPT !.asks = FALSE, !.fail = r.fail \/ Fatal(r.played)]
  <2>1. ReplayStep(r, tok) = s
    BY <1>1 DEF ReplayStep, ReadInput
  <2>2. /\ s.fail = (r.fail \/ Fatal(r.played)) /\ s.mark = FALSE /\ s.base = r.base
        /\ s.diffs = r.diffs /\ s.valid = r.valid /\ s.played = r.played /\ s.asks = FALSE
    BY DEF Reader
  <2>3. s.fail = FALSE
    <3> HIDE DEF s
    <3> QED
      BY <2>1, <2>2 DEF Died
  <2> QED
    BY <2>1, <2>2, <2>3
<1>2. CASE ~r.asks
  <2>1. ReplayStep(r, tok) = r
    BY <1>2 DEF ReplayStep
  <2> QED
    BY <1>2, <2>1 DEF Reader
<1> QED
  BY <1>1, <1>2

LEMMA StepResult ==
  ASSUME NEW r, Reader(r), NEW tok, Calm(r), tok.t = "res"
  PROVE  LET s == ReplayStep(r, tok) IN
         /\ s.fail = FALSE /\ s.mark = FALSE /\ s.base = r.base /\ s.diffs = r.diffs
         /\ s.played = r.played /\ ~s.asks
         /\ s.valid <=> r.valid /\ tok.w = r.played
<1>1. ReplayStep(r, tok) = ReadResult(r, tok)
  BY DEF ReplayStep, Calm
<1> QED
  BY <1>1 DEF ReadResult, Calm, Reader

LEMMA StepMark ==
  ASSUME NEW r, Reader(r), NEW tok, Calm(r), tok.t = "mark"
  PROVE  LET s == ReplayStep(r, tok) IN
         /\ s.fail = FALSE /\ s.mark = TRUE /\ s.base = r.base /\ s.diffs = r.diffs
         /\ s.played = r.played /\ ~s.asks /\ s.valid = r.valid
<1>1. ReplayStep(r, tok) = [r EXCEPT !.mark = TRUE]
  BY DEF ReplayStep, Calm
<1> QED
  BY <1>1 DEF Calm, Reader

LEMMA StepDiff ==
  ASSUME NEW r, Reader(r), NEW tok, ~r.fail, r.mark, tok.t = "diff", tok.b \in {NoWorld, r.base}
  PROVE  LET s == ReplayStep(r, tok) IN
         /\ s.fail = FALSE /\ s.mark = FALSE /\ s.base = tok.w /\ s.diffs = r.diffs + 1
         /\ s.played = r.played /\ s.asks = r.asks /\ s.valid = r.valid
<1>1. ReplayStep(r, tok) = ReadDiff(r, tok)
  BY DEF ReplayStep
<1> QED
  BY <1>1 DEF ReadDiff, Reader

(* A round of replay_run_cmdloop keeps the reader's types. *)
LEMMA StepType ==
  ASSUME NEW r, Reader(r), NEW tok, SoundToken(tok)
  PROVE  Reader(ReplayStep(r, tok))
<1>0. Reader(Failed(r))
  BY DEF Reader, Failed
<1>1. CASE r.fail
  <2>1. ReplayStep(r, tok) = r
    BY <1>1 DEF ReplayStep
  <2> QED
    BY <2>1
<1>2. CASE ~r.fail /\ r.mark
  <2>1. ReplayStep(r, tok) = ReadDiff(r, tok)
    BY <1>2 DEF ReplayStep
  <2>2. CASE tok.t = "diff" /\ tok.b \in {NoWorld, r.base}
    <3>1. ReadDiff(r, tok) = [r EXCEPT !.base = tok.w, !.diffs = r.diffs + 1, !.mark = FALSE]
      BY <2>2 DEF ReadDiff
    <3>2. tok.w \in Worlds
      BY <2>2 DEF SoundToken
    <3> DEFINE s == [r EXCEPT !.base = tok.w, !.diffs = r.diffs + 1, !.mark = FALSE]
    <3>3. Reader(s)
      <4>1. s.base = tok.w /\ s.mark = FALSE
        BY DEF Reader
      <4>2. s \in [played : Worlds, base : Worlds \cup {NoWorld}, diffs : Nat, valid : BOOLEAN,
                  asks : Answer, mark : BOOLEAN, fail : BOOLEAN]
        <5>1. tok.w \in Worlds \cup {NoWorld} /\ r.diffs + 1 \in Nat /\ FALSE \in BOOLEAN
          BY <3>2 DEF Reader
        <5> QED
          BY <5>1 DEF Reader
      <4> HIDE DEF s
      <4> QED
        BY <3>2, <4>1, <4>2 DEF Reader
    <3> QED
      BY <2>1, <3>1, <3>3
  <2>3. CASE ~(tok.t = "diff" /\ tok.b \in {NoWorld, r.base})
    BY <1>0, <2>1, <2>3 DEF ReadDiff
  <2> QED
    BY <2>2, <2>3
<1>3. CASE ~r.fail /\ ~r.mark /\ r.asks
  <2>1. ReplayStep(r, tok) = ReadInput(r, tok)
    BY <1>3 DEF ReplayStep
  <2>2. FALSE \in Answer
    BY DEF Answer
  <2>3. Reader([r EXCEPT !.asks = FALSE, !.fail = r.fail \/ Fatal(r.played)])
    <3>1. (r.fail \/ Fatal(r.played)) \in BOOLEAN
      OBVIOUS
    <3> QED
      BY <2>2, <3>1 DEF Reader
  <2> QED
    BY <1>0, <2>1, <2>3 DEF ReadInput
<1>4. CASE ~r.fail /\ ~r.mark /\ ~r.asks
  <2>1. CASE tok.t = "cmd"
    <3>1. ReplayStep(r, tok) = ReadCommand(r, tok)
      BY <1>4, <2>1 DEF ReplayStep
    <3>2. Append(r.played, tok.c) \in Worlds
      BY <2>1 DEF Worlds, Reader, SoundToken
    <3>3. Asks(tok.c, r.played) \in Answer
      <4>1. tok.c \in Commands /\ r.played \in Worlds
        BY <2>1 DEF Reader, SoundToken
      <4>2. Asks(tok.c, r.played) \in Answers
        BY <4>1 DEF Answers
      <4> QED
        BY <4>2 DEF Answer
    <3>4. ASSUME NEW w \in Worlds, NEW asks \in Answer, NEW fail \in BOOLEAN
          PROVE  Reader([r EXCEPT !.played = w, !.asks = asks, !.fail = fail])
      BY <1>4 DEF Reader
    <3> DEFINE w    == Append(r.played, tok.c)
               asks == Asks(tok.c, r.played)
               fail == ~asks /\ Fatal(w)
    <3>5. ReadCommand(r, tok) =
            IF r.valid THEN [r EXCEPT !.played = w, !.asks = asks, !.fail = fail] ELSE r
      BY DEF ReadCommand
    <3>6. w \in Worlds /\ asks \in Answer /\ fail \in BOOLEAN
      BY <3>2, <3>3
    <3> HIDE DEF w, asks, fail
    <3>7. Reader([r EXCEPT !.played = w, !.asks = asks, !.fail = fail])
      BY <3>4, <3>6
    <3> QED
      BY <3>1, <3>5, <3>7
  <2>2. CASE tok.t = "res"
    <3>1. ReplayStep(r, tok) = ReadResult(r, tok)
      BY <1>4, <2>2 DEF ReplayStep
    <3>2. Reader([r EXCEPT !.valid = r.valid /\ tok.w = r.played])
      BY DEF Reader
    <3> QED
      BY <3>1, <3>2 DEF ReadResult
  <2>3. CASE tok.t = "mark"
    <3>1. ReplayStep(r, tok) = [r EXCEPT !.mark = TRUE]
      BY <1>4, <2>3 DEF ReplayStep
    <3> QED
      BY <1>4, <3>1 DEF Reader
  <2>4. CASE tok.t \notin {"cmd", "res", "mark"}
    BY <1>4, <2>4, StepSkips DEF Calm
  <2> QED
    BY <2>1, <2>2, <2>3, <2>4
<1> QED
  BY <1>1, <1>2, <1>3, <1>4 DEF Reader
-----------------------------------------------------------------------------
(* Logs, as the reader sees them.                                          *)

(* A token that answers the question the reader has, if it has one, and does
   not make it kill the hero. *)
Quiet(r, tok) ==
  /\ r.asks /\ ~r.fail => tok.t = "in"
  /\ ~Died(ReplayStep(r, tok))

(* So are the tokens of b up to n. *)
Smooth(b, n) == \A k \in 0..n-1 : Quiet(Replay(b, k), b[k+1])

(* w is the world of the last result among the first n tokens of b. *)
LastIs(b, n, w) ==
  \E k \in 1..n : b[k].t = "res" /\ b[k].w = w /\ \A i \in k+1..n : b[i].t # "res"

(* Where a log may end: the reader stands between two commands, and the save
   it holds is the world of the last result unless that was in the middle of
   a multi-turn command. *)
Clean(b, n) ==
  Smooth(b, n) =>
    LET r == Replay(b, n) IN
    /\ Calm(r) /\ r.diffs >= 1
    /\ \E w \in Worlds : /\ LastIs(b, n, w)
                         /\ ~Busy(w) => r.base = w /\ (r.diffs >= 2 \/ r.played = w)

(* The reader keeps to its types. *)
LEMMA ReplayType ==
  ASSUME NEW b, NEW n \in Nat, \A i \in 1..n : SoundToken(b[i])
  PROVE  Reader(Replay(b, n))
<1> DEFINE T == {k \in 0..n : ~Reader(Replay(b, k))}
<1>1. T = {}
  <2>1. SUFFICES ASSUME T # {} PROVE FALSE
    OBVIOUS
  <2>2. PICK k \in T : \A j \in T : k <= j
    <3>1. T \subseteq Nat
      OBVIOUS
    <3> HIDE DEF T
    <3> QED
      BY <2>1, <3>1, Least
  <2>3. k # 0
    <3>1. Reader(ReplayInit)
      BY DEF ReplayInit, Reader, Answer, NewWorld, Worlds
    <3> QED
      BY <3>1, ReplayStarts
  <2>4. k - 1 \notin T /\ k - 1 \in 0..n /\ k - 1 \in Nat /\ (k - 1) + 1 = k /\ k \in 1..n
    <3>1. k \in 0..n
      OBVIOUS
    <3>2. k - 1 \in 0..n /\ k - 1 \in Nat /\ (k - 1) + 1 = k /\ k \in 1..n /\ ~(k <= k - 1)
      BY <3>1, <2>3
    <3> HIDE DEF T
    <3> QED
      BY <3>2, <2>2
  <2>5. Reader(Replay(b, k - 1)) /\ SoundToken(b[k])
    BY <2>4
  <2>6. Replay(b, k) = ReplayStep(Replay(b, k - 1), b[k])
    <3>1. Replay(b, (k - 1) + 1) = ReplayStep(Replay(b, k - 1), b[(k - 1) + 1])
      BY <2>4, ReplayGoesOn
    <3> QED
      BY <2>4, <3>1
  <2> QED
    BY <2>5, <2>6, StepType
<1> QED
  BY <1>1

(* A replay that has failed stays so. *)
LEMMA FailSticks ==
  ASSUME NEW b, NEW n \in Nat, NEW m \in 0..n, Replay(b, m).fail
  PROVE  Replay(b, n) = Replay(b, m)
<1> DEFINE T == {k \in m..n : Replay(b, k) # Replay(b, m)}
<1>1. T = {}
  <2>1. SUFFICES ASSUME T # {} PROVE FALSE
    OBVIOUS
  <2>2. PICK k \in T : \A j \in T : k <= j
    <3>1. T \subseteq Nat
      OBVIOUS
    <3> HIDE DEF T
    <3> QED
      BY <2>1, <3>1, Least
  <2>3. k # m
    OBVIOUS
  <2>4. k - 1 \notin T /\ k - 1 \in m..n /\ k - 1 \in Nat /\ (k - 1) + 1 = k
    <3>1. k \in m..n
      OBVIOUS
    <3>2. k - 1 \in m..n /\ k - 1 \in Nat /\ (k - 1) + 1 = k /\ ~(k <= k - 1)
      BY <3>1, <2>3
    <3> HIDE DEF T
    <3> QED
      BY <3>2, <2>2
  <2>5. Replay(b, k - 1) = Replay(b, m)
    BY <2>4
  <2>6. Replay(b, k) = ReplayStep(Replay(b, k - 1), b[k])
    <3>1. Replay(b, (k - 1) + 1) = ReplayStep(Replay(b, k - 1), b[(k - 1) + 1])
      BY <2>4, ReplayGoesOn
    <3> QED
      BY <2>4, <3>1
  <2>7. Replay(b, k) = Replay(b, k - 1)
    BY <2>5, <2>6 DEF ReplayStep
  <2> QED
    BY <2>5, <2>7
<1> QED
  BY <1>1

(* One token at a time. *)
LEMMA SmoothNext ==
  ASSUME NEW b, NEW n \in Nat
  PROVE  /\ Smooth(b, 0)
         /\ Smooth(b, n + 1) <=>
              Smooth(b, n) /\ Quiet(Replay(b, n), b[n+1])
<1>1. 0..0-1 = {} /\ 0..(n+1)-1 = (0..n-1) \cup {n}
  OBVIOUS
<1> QED
  BY <1>1 DEF Smooth

LEMMA SmoothBefore ==
  ASSUME NEW b, NEW n \in Nat, NEW m \in 0..n, Smooth(b, n)
  PROVE  Smooth(b, m)
<1>1. 0..m-1 \subseteq 0..n-1
  OBVIOUS
<1> QED
  BY <1>1 DEF Smooth

(* A replay that does not go smoothly fails. *)
LEMMA RoughFails ==
  ASSUME NEW b, NEW n \in Nat, \A i \in 1..n : SoundToken(b[i]), ~Smooth(b, n)
  PROVE  Replay(b, n).fail
<1>1. PICK k \in 0..n-1 : ~Quiet(Replay(b, k), b[k+1])
  BY DEF Smooth
<1>2. k \in Nat /\ k + 1 \in 0..n /\ \A i \in 1..k : SoundToken(b[i])
  OBVIOUS
<1> DEFINE r == Replay(b, k)
<1>3. Reader(r)
  BY <1>2, ReplayType
<1>4. ReplayStep(r, b[k+1]).fail
  <2>1. CASE Died(ReplayStep(r, b[k+1]))
    BY <2>1 DEF Died
  <2>2. CASE r.asks /\ ~r.fail /\ b[k+1].t # "in"
    <3>1. ~r.mark
      BY <1>3, <2>2 DEF Reader
    <3>2. ReplayStep(r, b[k+1]) = Failed(r)
      BY <2>2, <3>1 DEF ReplayStep, ReadInput
    <3> QED
      BY <1>3, <3>2 DEF Failed, Reader
  <2> QED
    BY <1>1, <2>1, <2>2 DEF Quiet
<1>5. Replay(b, k + 1).fail
  BY <1>2, <1>4, ReplayGoesOn
<1> QED
  BY <1>2, <1>5, FailSticks

(* Logs that begin alike. *)
LEMMA LogsAgree ==
  ASSUME NEW b, NEW c, NEW n \in Nat, \A i \in 1..n : b[i] = c[i]
  PROVE  /\ Replay(b, n) = Replay(c, n)
         /\ Smooth(b, n) <=> Smooth(c, n)
         /\ \A w : LastIs(b, n, w) <=> LastIs(c, n, w)
         /\ Clean(b, n) <=> Clean(c, n)
<1>1. Replay(b, n) = Replay(c, n)
  BY ReplaySame
<1>2. \A k \in 0..n-1 : Replay(b, k) = Replay(c, k) /\ b[k+1] = c[k+1]
  <2> TAKE k \in 0..n-1
  <2>1. k \in Nat /\ k + 1 \in 1..n /\ \A i \in 1..k : b[i] = c[i]
    OBVIOUS
  <2> QED
    BY <2>1, ReplaySame
<1>3. Smooth(b, n) <=> Smooth(c, n)
  BY <1>2 DEF Smooth
<1>4. ASSUME NEW w PROVE LastIs(b, n, w) <=> LastIs(c, n, w)
  BY DEF LastIs
<1> QED
  BY <1>1, <1>3, <1>4 DEF Clean

(* The last result when one more token is read. *)
LEMMA LastNext ==
  ASSUME NEW b, NEW n \in Nat, NEW w
  PROVE  /\ b[n+1].t = "res" /\ b[n+1].w = w => LastIs(b, n + 1, w)
         /\ b[n+1].t # "res" => (LastIs(b, n + 1, w) <=> LastIs(b, n, w))
<1>1. 1..n+1 = (1..n) \cup {n+1} /\ (n+1)+1..n+1 = {}
  OBVIOUS
<1>2. \A k \in 1..n : k+1..n+1 = (k+1..n) \cup {n+1}
  OBVIOUS
<1> QED
  BY <1>1, <1>2 DEF LastIs

(* Only one world is that of the last result. *)
LEMMA LastIsOne ==
  ASSUME NEW b, NEW n \in Nat, NEW v, NEW w, LastIs(b, n, v), LastIs(b, n, w)
  PROVE  v = w
<1>1. PICK j \in 1..n : b[j].t = "res" /\ b[j].w = v /\ \A i \in j+1..n : b[i].t # "res"
  BY DEF LastIs
<1>2. PICK k \in 1..n : b[k].t = "res" /\ b[k].w = w /\ \A i \in k+1..n : b[i].t # "res"
  BY DEF LastIs
<1>3. ~(j < k) /\ ~(k < j)
  BY <1>1, <1>2
<1> QED
  BY <1>1, <1>2, <1>3

-----------------------------------------------------------------------------
(* What a replay that fails may not write over.                            *)

(* It gives up at one token only. *)
LEMMA FailsOnce ==
  ASSUME TypeOK, NEW m \in FailsAt, NEW n \in FailsAt
  PROVE  m = n
<1>1. hdr.end \in Nat /\ m \in 1..hdr.end /\ n \in 1..hdr.end
  BY DEF FailsAt, TypeOK, Header
<1>2. ASSUME NEW k \in FailsAt, NEW l \in FailsAt, k < l PROVE FALSE
  <2>1. k \in 1..hdr.end /\ l \in 1..hdr.end
    BY DEF FailsAt
  <2>2. Replay(body, k).fail /\ ~Replay(body, l - 1).fail
    BY <1>1, <1>2, <2>1 DEF FailsAt
  <2>3. l - 1 \in Nat /\ k \in 0..l-1
    BY <1>1, <1>2, <2>1
  <2> QED
    BY <2>2, <2>3, FailSticks
<1> QED
  BY <1>1, <1>2

(* On the way out the file offset is not before that token. *)
FarOn == pc = "unwind" /\ force => \A n \in FailsAt : n <= pos

LEMMA InitFarOn == Init => FarOn
BY DEF Init, FarOn

(* The death of a hero who has died before is written behind the token that
   killed him. *)
LEMMA DiesFarOn ==
  ASSUME IInv, ReplayDies
  PROVE  FarOn' /\ \A i \in Journaled : body'[i] = body[i]
<1>1. PICK n \in FailsAt : \E at \in n..size :
            /\ at < MaxLog /\ body' = [body EXCEPT ![at+1] = Tok("top")]
            /\ pos' \in n..size'
  BY DEF ReplayDies
<1>2. PICK at \in n..size : /\ at < MaxLog /\ body' = [body EXCEPT ![at+1] = Tok("top")]
                            /\ pos' \in n..size'
  BY <1>1
<1>3. /\ TypeOK /\ hdr.end \in 0..MaxLog /\ MaxLog \in Nat /\ size \in 0..MaxLog
      /\ n \in 1..hdr.end /\ pc = "read" /\ force /\ hdr' = hdr
      /\ Replay(body, hdr.end).fail
  BY BoundsAssumption DEF IInv, TypeOK, Header, FailsAt, ReplayDies, Died
<1>4. \A i \in Slots : i <= n => body'[i] = body[i]
  BY <1>2, <1>3 DEF TypeOK
<1>5. \A i \in Journaled : body'[i] = body[i]
  <2>1. SUFFICES ASSUME NEW i \in Journaled PROVE body'[i] = body[i]
    OBVIOUS
  <2>2. PICK m \in FailsAt : i <= m
    BY <1>3, <2>1 DEF Journaled
  <2>3. i \in Slots /\ i <= n
    BY <1>3, <2>1, <2>2, FailsOnce DEF Journaled
  <2> QED
    BY <1>4, <2>3
<1>6. FarOn'
  <2> DEFINE c == body'
  <2>1. \A i \in 1..n : c[i] = body[i]
    BY <1>3, <1>4
  <2> HIDE DEF c
  <2>2. Replay(c, n).fail
    <3>1. Replay(body, n).fail
      BY <1>3 DEF FailsAt
    <3>2. Replay(c, n) = Replay(body, n)
      BY <1>3, <2>1, ReplaySame
    <3> QED
      BY <3>1, <3>2
  <2>3. Replay(c, hdr.end).fail
    BY <1>3, <2>2, FailSticks
  <2>4. ASSUME NEW m \in 1..hdr.end, ~Replay(c, m - 1).fail PROVE m <= n
    <3>1. SUFFICES ASSUME n < m PROVE FALSE
      BY <1>3
    <3>2. m - 1 \in Nat /\ n \in 0..m-1
      BY <1>3, <3>1
    <3> QED
      BY <2>2, <2>4, <3>2, FailSticks
  <2>5. \A m \in FailsAt' : m <= n
    BY <1>3, <2>3, <2>4 DEF FailsAt, c
  <2>6. n <= pos'
    BY <1>2
  <2>7. pos' \in Nat
    BY <1>2, <1>3
  <2> QED
    BY <1>3, <2>5, <2>6, <2>7 DEF FarOn, FailsAt
<1> QED
  BY <1>5, <1>6

LEMMA NextFarOn ==
  ASSUME IInv, FarOn, [Next]_vars
  PROVE  FarOn' /\ hdr.end <= hdr'.end /\ \A i \in Journaled : body'[i] = body[i]
<1>0. /\ TypeOK /\ MaxLog \in Nat /\ hdr.end \in 0..MaxLog /\ hdr.end \in Nat
      /\ Journaled \subseteq 1..hdr.end
  BY BoundsAssumption DEF IInv, TypeOK, Header, Journaled
<1>1. CASE ReplayDies
  <2>1. hdr' = hdr
    BY <1>1 DEF ReplayDies
  <2> QED
    BY <1>0, <1>1, <2>1, DiesFarOn
<1>2. CASE ReplayFails
  <2>1. PICK n \in FailsAt : pos' \in OffsetAfter(n)
    BY <1>2 DEF ReplayFails
  <2>2. n <= pos'
    <3>1. n \in 0..MaxLog
      BY <1>0 DEF FailsAt
    <3> QED
      BY <1>0, <2>1, <3>1, Offsets
  <2>3. UNCHANGED <<hdr, body, force>> /\ pc = "read" /\ force
    BY <1>2 DEF ReplayFails, file
  <2>4. FailsAt' = FailsAt
    BY <2>3 DEF FailsAt
  <2> QED
    BY <1>0, <2>1, <2>2, <2>3, <2>4, FailsOnce DEF FarOn
<1>3. CASE Unwind /\ force
  <2>1. \A i \in Slots : i <= pos => body'[i] = body[i]
    BY <1>0, <1>3, ReplayEndFile DEF Unwind
  <2>2. pc = "unwind" /\ pc' # "unwind" /\ hdr' = hdr
    BY <1>3 DEF Unwind
  <2>3. \A i \in Journaled : i <= pos
    <3>1. SUFFICES ASSUME NEW i \in Journaled PROVE i <= pos
      OBVIOUS
    <3>2. PICK n \in FailsAt : i <= n
      BY <1>3, <2>2 DEF Journaled
    <3>3. n <= pos /\ n \in Nat /\ i \in Nat /\ pos \in Nat
      BY <1>0, <1>3, <2>2 DEF FarOn, FailsAt, TypeOK
    <3> QED
      BY <3>2, <3>3
  <2>4. Journaled \subseteq Slots
    BY <1>0
  <2>5. \A i \in Journaled : body'[i] = body[i]
    BY <2>1, <2>3, <2>4
  <2>6. FarOn'
    BY <2>2 DEF FarOn
  <2>7. hdr.end <= hdr'.end
    BY <1>0, <2>2
  <2> QED
    BY <2>5, <2>6, <2>7
<1>4. CASE UNCHANGED vars
  <2>1. UNCHANGED <<hdr, body, pc, pos, force>>
    BY <1>4 DEF vars, file, proc
  <2>2. FailsAt' = FailsAt
    BY <2>1 DEF FailsAt
  <2> QED
    BY <1>0, <2>1, <2>2 DEF FarOn
<1>5. CASE Next /\ ~ReplayDies /\ ~ReplayFails /\ ~(Unwind /\ force)
  <2>1. ~(force /\ pc \in {"read", "unwind"} /\ pc' \in {"unwind", "refused"})
        /\ ~(pc' = "unwind" /\ force')
    <3>1. CASE Play
      BY <3>1 DEF Play, NewGame, SetOption, StartCommand, LogInput, RevertCommand, FirstResult,
                  FinishCommand, LogResult, LogMark, LogDiff, CommitHeader, FinishGame, LogEntry
    <3>2. CASE Leave
      BY <3>2 DEF Leave, BeginSave, StoreSave, Crash, CrashInStore, Die
    <3>3. CASE Resume
      BY <1>5, <3>3 DEF Resume, OpenLog, LoadSave, LoadFails, ReplayLog, EndReplay, TruncateLog,
                        Unwind
    <3> QED
      BY <1>5, <3>1, <3>2, <3>3 DEF Next
  <2>2. hdr.end <= hdr'.end /\ \A i \in 1..hdr.end : body'[i] = body[i]
    BY <1>5, <2>1, NextStep DEF Kept
  <2> QED
    BY <1>0, <2>1, <2>2 DEF FarOn
<1> QED
  BY <1>1, <1>2, <1>3, <1>4, <1>5

(* No step of playing, leaving, dying or coming back rewrites or cuts off a
   token the header vouches for; a forced replay that fails, by a death too,
   spares at least what it has read (log.c, save.c, restore.c, replay_end in
   logreplay.c, write_log_toptenentry in topten.c). *)
THEOREM JournalIsKept == Spec => JournalKept
<1>1. Init => IInv /\ FarOn
  BY InitInv, InitFarOn
<1>2. IInv /\ FarOn /\ [Next]_vars => (IInv /\ FarOn)'
  BY NextStep, NextFarOn
<1>3. IInv /\ FarOn /\ [Next]_vars =>
        hdr.end <= hdr'.end /\ \A i \in Journaled : body'[i] = body[i]
  BY NextFarOn
<1>. QED
  BY <1>1, <1>2, <1>3, PTL DEF Spec, JournalKept

-----------------------------------------------------------------------------
(* 3. The journal.                                                         *)

(* The next diff is made against nothing or against the save the reader holds. *)
Follows(b, n) == base \in {NoWorld, Replay(b, n).base}

(* Where a diff is due. *)
Pending(b, n) ==
  LET r == Replay(b, n) IN
  /\ ~r.fail /\ ~r.asks /\ Follows(b, n)
  /\ LastIs(b, n, world) /\ (r.diffs >= 1 \/ r.played = world)

Sound == \A i \in Slots : SoundToken(body[i])

(* In the middle of a command. *)
Midway(b, n) ==
  LET r == Replay(b, n) IN ~r.fail /\ ~r.mark /\ r.diffs >= 1 /\ Follows(b, n)

(* What the reader makes of the file at each program point, as long as it reads
   smoothly. *)
Journal ==
  /\ Sound
  /\ hdr.end > 0 => Clean(body, hdr.end)
  /\ pc \in {"ready", "play", "finish", "entry", "saving", "read", "ending", "truncate"} =>
       hdr.end > 0 /\ lastCmd > 0 /\ Clean(body, lastCmd)
  /\ pc \in {"finish", "entry", "saving", "read"} => lastCmd = hdr.end
  /\ pc \in {"entry", "saving", "ending"} => pos = hdr.end
  /\ pc = "ending" => lastCmd = hdr.end
  /\ pc = "setup" => pos = 1 /\ body[1].t = "setup" /\ world = NewWorld /\ base = NoWorld
  /\ pc \in {"ready", "play"} /\ Smooth(body, lastCmd) => Follows(body, lastCmd)
  /\ pc = "play" /\ Smooth(body, pos) => Midway(body, pos)
  /\ pc = "mark" /\ Smooth(body, pos) => Pending(body, pos) /\ ~Replay(body, pos).mark
  /\ pc = "data" /\ Smooth(body, pos) => Pending(body, pos) /\ Replay(body, pos).mark
  /\ pc = "header" => pos > 0 /\ Clean(body, pos) /\ (Smooth(body, pos) => Follows(body, pos))
  /\ pc = "unwind" /\ ~force => pos = hdr.end
  /\ pc = "unwind" /\ force => \E n \in 1..hdr.end : n <= pos /\ ~Smooth(body, n)

LEMMA Numbers ==
  ASSUME TypeOK
  PROVE  /\ MaxLog \in Nat /\ pos \in 0..MaxLog /\ lastCmd \in 0..MaxLog /\ hdr.end \in 0..MaxLog
         /\ size \in 0..MaxLog
BY BoundsAssumption DEF TypeOK, Header

(* What is at a position of the log is settled by the tokens before it. *)
Same(n) ==
  /\ Replay(body', n) = Replay(body, n)
  /\ Smooth(body', n) <=> Smooth(body, n)
  /\ Clean(body', n) <=> Clean(body, n)
  /\ \A w : LastIs(body', n, w) <=> LastIs(body, n, w)

LEMMA SameLog ==
  ASSUME NEW n \in Nat, \A i \in 1..n : body'[i] = body[i]
  PROVE  Same(n)
<1> DEFINE c == body'
<1>1. \A i \in 1..n : c[i] = body[i]
  OBVIOUS
<1> HIDE DEF c
<1>2. /\ Replay(c, n) = Replay(body, n)
      /\ Smooth(c, n) <=> Smooth(body, n)
      /\ \A w : LastIs(c, n, w) <=> LastIs(body, n, w)
      /\ Clean(c, n) <=> Clean(body, n)
  BY <1>1, LogsAgree
<1> QED
  BY <1>2 DEF c, Same

(* A file that is not touched, *)
LEMMA Unchanged ==
  ASSUME TypeOK, body' = body
  PROVE  \A n \in 0..MaxLog : Same(n)
BY SameLog, Numbers

(* and one that is cut: nothing below the cut changes to the reader. *)
LEMMA Cut ==
  ASSUME TypeOK, Sound, NEW n \in 0..MaxLog, Truncate(n)
  PROVE  /\ Sound'
         /\ \A k \in 0..n : Same(k)
<1>1. \A i \in Slots : body'[i] = IF i <= n THEN body[i] ELSE Hole
  BY DEF Truncate
<1>2. SoundToken(Hole)
  BY TokenTypes DEF SoundToken
<1>3. Sound'
  BY <1>1, <1>2 DEF Sound
<1>4. ASSUME NEW k \in 0..n PROVE Same(k)
  <2>1. k \in Nat /\ \A i \in 1..k : body'[i] = body[i]
    BY <1>1, Numbers
  <2> QED
    BY <2>1, SameLog
<1> QED
  BY <1>3, <1>4

(* The slots before the one that is written are what they were. *)
LEMMA Overwrote ==
  ASSUME TypeOK, Sound, NEW n \in 0..MaxLog-1, NEW tok, SoundToken(tok),
         body' = [body EXCEPT ![n+1] = tok]
  PROVE  /\ Sound' /\ body'[n+1] = tok
         /\ \A k \in 0..n : Same(k)
<1>0. n + 1 \in Slots /\ DOMAIN body = Slots
  BY Numbers DEF TypeOK
<1>1. body'[n+1] = tok /\ \A i \in Slots : i # n + 1 => body'[i] = body[i]
  BY <1>0
<1>2. Sound'
  BY <1>1 DEF Sound
<1>3. ASSUME NEW k \in 0..n PROVE Same(k)
  <2>1. k \in Nat /\ \A i \in 1..k : body'[i] = body[i]
    BY <1>1, Numbers
  <2> QED
    BY <2>1, SameLog
<1> QED
  BY <1>1, <1>2, <1>3

(* And the reader takes one token more. *)
Took(n, tok) ==
  /\ Replay(body', n + 1) = ReplayStep(Replay(body, n), tok)
  /\ Reader(Replay(body, n))
  /\ Smooth(body', n + 1) <=>
       Smooth(body, n) /\ Quiet(Replay(body, n), tok)
  /\ tok.t = "res" => LastIs(body', n + 1, tok.w)
  /\ tok.t # "res" => \A w : LastIs(body', n + 1, w) <=> LastIs(body, n, w)

LEMMA Wrote ==
  ASSUME TypeOK, Sound, NEW n \in 0..MaxLog-1, NEW tok, SoundToken(tok),
         body' = [body EXCEPT ![n+1] = tok]
  PROVE  /\ Sound'
         /\ \A k \in 0..n : Same(k)
         /\ Took(n, tok)
<1>1. /\ Sound' /\ body'[n+1] = tok
      /\ \A k \in 0..n : Same(k)
  BY Overwrote
<1>2. n \in Nat
  OBVIOUS
<1>3. Same(n)
  BY <1>1, <1>2
<1> DEFINE c == body'
<1>4. c[n+1] = tok
  BY <1>1
<1> HIDE DEF c
<1>5. /\ Replay(c, n + 1) = ReplayStep(Replay(c, n), tok)
      /\ Smooth(c, n + 1) <=>
           Smooth(c, n) /\ Quiet(Replay(c, n), tok)
      /\ tok.t = "res" => LastIs(c, n + 1, tok.w)
      /\ tok.t # "res" => \A w : LastIs(c, n + 1, w) <=> LastIs(c, n, w)
  BY <1>2, <1>4, ReplayGoesOn, SmoothNext, LastNext
<1>6. Reader(Replay(body, n))
  <2>1. \A i \in 1..n : SoundToken(body[i])
    BY Numbers DEF Sound
  <2> QED
    BY <1>2, <2>1, ReplayType
<1> QED
  BY <1>1, <1>3, <1>5, <1>6 DEF c, Same, Took

(* An option is nothing to the reader between two commands. *)
LEMMA CleanOn ==
  ASSUME NEW n \in Nat, NEW tok, tok.t \in {"opt", "tz"}, Took(n, tok), Clean(body, n)
  PROVE  /\ Clean(body', n + 1)
         /\ Smooth(body', n + 1) =>
              Smooth(body, n) /\ Replay(body', n + 1) = Replay(body, n)
<1>1. SUFFICES ASSUME Smooth(body', n + 1)
               PROVE  /\ Clean(body', n + 1)
                      /\ Smooth(body, n) /\ Replay(body', n + 1) = Replay(body, n)
  BY DEF Clean
<1>2. Smooth(body, n)
  BY <1>1 DEF Took
<1>3. Calm(Replay(body, n)) /\ Reader(Replay(body, n))
  BY <1>2 DEF Clean, Took
<1>4. Replay(body', n + 1) = Replay(body, n)
  BY <1>3, StepSkips DEF Took
<1>5. \A w : LastIs(body', n + 1, w) <=> LastIs(body, n, w)
  BY DEF Took
<1> QED
  BY <1>2, <1>4, <1>5 DEF Clean

-----------------------------------------------------------------------------
(* The tokens the program writes, and what a write does to the reader.     *)

Tokens ==
  /\ \A t \in {"setup", "opt", "tz", "in", "mark", "torn", "top"} : SoundToken(Tok(t)) /\ Tok(t).t = t
  /\ \A c \in Commands : SoundToken(CmdTok(c)) /\ CmdTok(c).t = "cmd" /\ CmdTok(c).c = c
  /\ \A w \in Worlds : /\ SoundToken(ResTok(w)) /\ ResTok(w).t = "res" /\ ResTok(w).w = w
                       /\ SoundToken(BinTok(w)) /\ BinTok(w).t = "bin"
  /\ \A b, w : w \in Worlds => /\ SoundToken(DiffTok(b, w)) /\ DiffTok(b, w).t = "diff"
                               /\ DiffTok(b, w).b = b /\ DiffTok(b, w).w = w

LEMMA TokensSound == Tokens
BY DEF Tokens, SoundToken, Tok, CmdTok, ResTok, BinTok, DiffTok

LEMMA Writes ==
  ASSUME IInv, Journal, NEW tok, SoundToken(tok), Write(tok)
  PROVE  /\ pos \in Nat /\ pos' = pos + 1 /\ Sound'
         /\ \A k \in 0..pos : Same(k)
         /\ Took(pos, tok)
<1>0. TypeOK /\ Sound
  BY DEF Journal, IInv
<1>1. pos \in 0..MaxLog-1 /\ body' = [body EXCEPT ![pos+1] = tok] /\ pos' = pos + 1
  BY <1>0, Numbers DEF Write
<1>2. pos \in Nat
  BY <1>1
<1>3. Sound' /\ (\A k \in 0..pos : Same(k)) /\ Took(pos, tok)
  BY <1>0, <1>1, Wrote
<1> QED
  BY <1>1, <1>2, <1>3

-----------------------------------------------------------------------------
(* Each step keeps the journal.                                            *)

LEMMA NewGameJournal == ASSUME IInv, Journal, NewGame PROVE Journal'
<1>0. TypeOK /\ Sound
  BY DEF Journal, IInv
<1>1. 0 \in 0..MaxLog-1 /\ body' = [body EXCEPT ![0+1] = Tok("setup")] /\ 0 + 1 = 1
  BY <1>0, Numbers DEF NewGame
<1>2. SoundToken(Tok("setup"))
  BY TokensSound DEF Tokens
<1>3. Sound' /\ body'[0+1] = Tok("setup")
  BY <1>0, <1>1, <1>2, Overwrote
<1>4. Tok("setup").t = "setup"
  BY DEF Tok
<1>5. hdr'.end = 0 /\ pc' = "setup" /\ pos' = 1 /\ world' = NewWorld /\ base' = NoWorld
  BY DEF NewGame
<1> QED
  BY <1>1, <1>3, <1>4, <1>5 DEF Journal

LEMMA SetOptionJournal == ASSUME IInv, Journal, SetOption PROVE Journal'
<1>0. /\ pc = "ready" /\ pc' = "ready" /\ Write(Tok("opt")) /\ lastCmd' = pos + 1
      /\ lastCmd = pos /\ hdr.end <= lastCmd /\ hdr' = hdr /\ base' = base
  BY DEF SetOption, IInv, Bookkeeping
<1>1. /\ pos \in Nat /\ Sound' /\ \A k \in 0..pos : Same(k)
      /\ Took(pos, Tok("opt")) /\ Tok("opt").t = "opt"
  BY <1>0, Writes, TokensSound DEF Tokens
<1>2. Clean(body, pos) /\ hdr.end > 0 /\ hdr.end \in 0..pos
  BY <1>0, Numbers DEF Journal, IInv
<1>3. /\ Clean(body', lastCmd')
      /\ Smooth(body', lastCmd') =>
           Smooth(body, pos) /\ Replay(body', lastCmd') = Replay(body, pos)
  BY <1>0, <1>1, <1>2, CleanOn
<1>4. Smooth(body', lastCmd') => base' \in {NoWorld, Replay(body', lastCmd').base}
  BY <1>0, <1>3 DEF Journal, Follows
<1>5. Clean(body', hdr.end)
  BY <1>1, <1>2 DEF Same, Journal
<1> QED
  BY <1>0, <1>1, <1>2, <1>3, <1>4, <1>5 DEF Journal, Follows

LEMMA StartCommandJournal ==
  ASSUME IInv, Journal, NEW c \in Commands, StartCommand(c)
  PROVE  Journal'
<1>0. /\ pc = "ready" /\ pc' = "play" /\ Write(CmdTok(c)) /\ lastCmd' = lastCmd
      /\ lastCmd = pos /\ hdr.end <= lastCmd /\ hdr' = hdr /\ base' = base
  BY DEF StartCommand, IInv, Bookkeeping
<1>1. /\ pos \in Nat /\ pos' = pos + 1 /\ Sound' /\ \A k \in 0..pos : Same(k)
      /\ Took(pos, CmdTok(c)) /\ CmdTok(c).t = "cmd"
  BY <1>0, Writes, TokensSound DEF Tokens
<1>2. Clean(body, pos) /\ hdr.end > 0 /\ pos > 0 /\ hdr.end \in 0..pos /\ Clean(body, hdr.end)
  BY <1>0, Numbers DEF Journal, IInv
<1>3. ASSUME Smooth(body', pos')
      PROVE  /\ ~Replay(body', pos').fail /\ ~Replay(body', pos').mark
             /\ Replay(body', pos').diffs >= 1 /\ base' \in {NoWorld, Replay(body', pos').base}
  <2>1. Smooth(body, pos) /\ ~Died(ReplayStep(Replay(body, pos), CmdTok(c)))
    BY <1>1, <1>3 DEF Took, Quiet
  <2>2. Calm(Replay(body, pos)) /\ Replay(body, pos).diffs >= 1 /\ Reader(Replay(body, pos))
        /\ base \in {NoWorld, Replay(body, pos).base}
    BY <1>0, <1>1, <1>2, <2>1 DEF Clean, Journal, Follows, Took
  <2> DEFINE s == ReplayStep(Replay(body, pos), CmdTok(c))
  <2>3. Replay(body', pos') = s
    BY <1>1 DEF Took
  <2>4. s.fail = FALSE /\ s.mark = FALSE /\ s.base = Replay(body, pos).base
        /\ s.diffs = Replay(body, pos).diffs
    BY <1>1, <2>1, <2>2, StepCommand
  <2> QED
    BY <1>0, <2>2, <2>3, <2>4
<1>4. Same(pos) /\ Same(hdr.end)
  BY <1>1, <1>2
<1>5. Clean(body', pos) /\ Clean(body', hdr.end) /\ Replay(body', pos) = Replay(body, pos)
      /\ (Smooth(body', pos) <=> Smooth(body, pos))
  BY <1>2, <1>4 DEF Same
<1> QED
  BY <1>0, <1>1, <1>2, <1>3, <1>5 DEF Journal, Follows, Midway

LEMMA LogInputJournal == ASSUME IInv, Journal, LogInput PROVE Journal'
<1>0. /\ pc = "play" /\ pc' = "play" /\ Write(Tok("in")) /\ lastCmd' = lastCmd
      /\ lastCmd <= pos /\ hdr.end <= lastCmd /\ hdr' = hdr /\ base' = base
  BY DEF LogInput, IInv, Bookkeeping
<1>1. /\ pos \in Nat /\ pos' = pos + 1 /\ Sound' /\ \A k \in 0..pos : Same(k)
      /\ Took(pos, Tok("in")) /\ Tok("in").t = "in"
  BY <1>0, Writes, TokensSound DEF Tokens
<1>2. /\ hdr.end > 0 /\ lastCmd > 0 /\ hdr.end \in 0..pos /\ lastCmd \in 0..pos
      /\ Clean(body, hdr.end) /\ Clean(body, lastCmd)
      /\ Smooth(body, lastCmd) => base \in {NoWorld, Replay(body, lastCmd).base}
  BY <1>0, Numbers DEF Journal, IInv, Follows
<1>3. ASSUME Smooth(body', pos')
      PROVE  /\ ~Replay(body', pos').fail /\ ~Replay(body', pos').mark
             /\ Replay(body', pos').diffs >= 1 /\ base' \in {NoWorld, Replay(body', pos').base}
  <2>1. Smooth(body, pos) /\ ~Died(ReplayStep(Replay(body, pos), Tok("in")))
    BY <1>1, <1>3 DEF Took, Quiet
  <2>2. ~Replay(body, pos).fail /\ ~Replay(body, pos).mark /\ Replay(body, pos).diffs >= 1
        /\ Reader(Replay(body, pos)) /\ base \in {NoWorld, Replay(body, pos).base}
    BY <1>0, <1>1, <2>1 DEF Journal, Follows, Took, Midway
  <2> DEFINE s == ReplayStep(Replay(body, pos), Tok("in"))
  <2>3. Replay(body', pos') = s
    BY <1>1 DEF Took
  <2>4. s.fail = FALSE /\ s.mark = FALSE /\ s.base = Replay(body, pos).base
        /\ s.diffs = Replay(body, pos).diffs
    BY <1>1, <2>1, <2>2, StepInput
  <2> QED
    BY <1>0, <2>2, <2>3, <2>4
<1>4. Same(lastCmd) /\ Same(hdr.end)
  BY <1>1, <1>2
<1>5. Clean(body', lastCmd) /\ Clean(body', hdr.end)
      /\ (Smooth(body', lastCmd) => base' \in {NoWorld, Replay(body', lastCmd).base})
  BY <1>0, <1>2, <1>4 DEF Same
<1> QED
  BY <1>0, <1>1, <1>2, <1>3, <1>5 DEF Journal, Follows, Midway

LEMMA RevertJournal == ASSUME IInv, Journal, RevertCommand PROVE Journal'
<1>0. /\ pc = "play" /\ pc' = "ready" /\ Truncate(lastCmd) /\ lastCmd' = lastCmd
      /\ hdr.end <= lastCmd /\ hdr' = hdr /\ base' = base
  BY DEF RevertCommand, IInv, Bookkeeping
<1>1. Sound' /\ \A k \in 0..lastCmd : Same(k)
  BY <1>0, Cut, Numbers DEF Journal, IInv
<1>2. /\ hdr.end > 0 /\ lastCmd > 0 /\ hdr.end \in 0..lastCmd /\ lastCmd \in 0..lastCmd
      /\ Clean(body, hdr.end) /\ Clean(body, lastCmd)
      /\ Smooth(body, lastCmd) => base \in {NoWorld, Replay(body, lastCmd).base}
  BY <1>0, Numbers DEF Journal, IInv, Follows
<1>4. Same(lastCmd) /\ Same(hdr.end)
  BY <1>1, <1>2
<1>5. Clean(body', lastCmd) /\ Clean(body', hdr.end)
      /\ (Smooth(body', lastCmd) => base' \in {NoWorld, Replay(body', lastCmd).base})
  BY <1>0, <1>2, <1>4 DEF Same
<1> QED
  BY <1>0, <1>1, <1>2, <1>5 DEF Journal, Follows

(* log_command_result begins. *)
LEMMA ResultRead ==
  ASSUME IInv, Journal, NEW w \in Worlds, NEW dead, LogResult(w, dead),
         Smooth(body', pos')
  PROVE  LET r == Replay(body, pos)
             s == Replay(body', pos')
         IN  /\ Smooth(body, pos) /\ (r.fail \/ ~r.asks) /\ LastIs(body', pos', w)
             /\ ~r.fail /\ ~r.mark => /\ Calm(s) /\ s.base = r.base /\ s.diffs = r.diffs
                                      /\ s.played = r.played
<1>1. Write(ResTok(w))
  BY DEF LogResult
<1>2. pos' = pos + 1 /\ Took(pos, ResTok(w)) /\ ResTok(w).t = "res" /\ ResTok(w).w = w
  BY <1>1, Writes, TokensSound DEF Tokens
<1>3. Smooth(body, pos) /\ (Replay(body, pos).fail \/ ~Replay(body, pos).asks)
      /\ LastIs(body', pos', w) /\ Reader(Replay(body, pos))
      /\ Replay(body', pos') = ReplayStep(Replay(body, pos), ResTok(w))
  BY <1>2 DEF Took, Quiet
<1>4. ASSUME ~Replay(body, pos).fail, ~Replay(body, pos).mark
      PROVE  LET r == Replay(body, pos)
                 s == Replay(body', pos')
             IN  Calm(s) /\ s.base = r.base /\ s.diffs = r.diffs /\ s.played = r.played
  <2>1. Calm(Replay(body, pos))
    BY <1>3, <1>4 DEF Calm
  <2> DEFINE s == ReplayStep(Replay(body, pos), ResTok(w))
  <2>2. s.fail = FALSE /\ s.mark = FALSE /\ s.base = Replay(body, pos).base
        /\ s.diffs = Replay(body, pos).diffs /\ s.played = Replay(body, pos).played /\ ~s.asks
    BY <1>2, <1>3, <2>1, StepResult
  <2> QED
    BY <1>3, <2>2 DEF Calm
<1> QED
  BY <1>3, <1>4

LEMMA FirstResultJournal == ASSUME IInv, Journal, FirstResult PROVE Journal'
<1>0. /\ pc = "setup" /\ LogResult(world, FALSE) /\ world = NewWorld /\ world \in Worlds
      /\ pos = 1 /\ body[1].t = "setup" /\ base = NoWorld
  <2>1. << >> \in Seq(Commands)
    OBVIOUS
  <2> QED
    BY <2>1 DEF FirstResult, Journal, NewWorld, Worlds
<1>1. /\ pc' = "mark" /\ Write(ResTok(world)) /\ hdr' = hdr /\ base' = base /\ world' = world
  <2>1. ~Busy(world)
    BY <1>0 DEF Busy, NewWorld
  <2> QED
    BY <1>0, <2>1 DEF LogResult
<1>2. SoundToken(ResTok(world))
  BY <1>0, TokensSound DEF Tokens
<1>3. Sound' /\ (\A k \in 0..pos : Same(k)) /\ pos' = pos + 1
  BY <1>1, <1>2, Writes
<1>4. hdr.end \in 0..pos
  BY <1>0, Numbers DEF IInv, Bookkeeping
<1>5. Same(hdr.end)
  BY <1>3, <1>4
<1>6. hdr.end > 0 => Clean(body', hdr.end)
  BY <1>5 DEF Same, Journal
<1>7. Replay(body, 1) = ReplayInit
  <2>1. Replay(body, 0 + 1) = ReplayStep(Replay(body, 0), body[0+1]) /\ Replay(body, 0) = ReplayInit
    BY ReplayGoesOn, ReplayStarts
  <2>2. ReplayStep(ReplayInit, body[1]) = ReplayInit
    BY <1>0 DEF ReplayStep, ReplayInit
  <2> QED
    BY <2>1, <2>2
<1>8. ASSUME Smooth(body', pos')
      PROVE  LET s == Replay(body', pos') IN
             /\ Calm(s) /\ s.base = NoWorld /\ s.played = NewWorld /\ LastIs(body', pos', world)
  <2>1. /\ LastIs(body', pos', world)
        /\ ~Replay(body, pos).fail /\ ~Replay(body, pos).mark =>
             /\ Calm(Replay(body', pos')) /\ Replay(body', pos').base = Replay(body, pos).base
             /\ Replay(body', pos').played = Replay(body, pos).played
    BY <1>0, <1>8, ResultRead
  <2>2. ReplayInit.fail = FALSE /\ ReplayInit.mark = FALSE /\ ReplayInit.base = NoWorld
        /\ ReplayInit.played = NewWorld
    BY DEF ReplayInit
  <2> QED
    BY <1>0, <1>7, <2>1, <2>2
<1> QED
  BY <1>0, <1>1, <1>3, <1>6, <1>8 DEF Journal, Pending, Follows, Calm

LEMMA FinishCommandJournal ==
  ASSUME IInv, Journal, NEW dead \in BOOLEAN, FinishCommand(dead)
  PROVE  Journal'
<1> DEFINE w == Append(world, cur)
<1>0. /\ pc = "play" /\ LogResult(w, dead) /\ hdr.end <= pos
      /\ w \in Worlds
  <2>1. world \in Worlds /\ cur \in Commands /\ pc = "play"
    BY DEF FinishCommand, IInv, TypeOK, InMemory
  <2>2. hdr.end <= pos
    BY <2>1, Numbers DEF IInv, Bookkeeping
  <2> QED
    BY <2>1, <2>2 DEF FinishCommand, Worlds
<1> HIDE DEF w
<1>1. /\ pc' = IF Busy(w) THEN "header" ELSE "mark"
      /\ Write(ResTok(w)) /\ hdr' = hdr /\ base' = base /\ world' = w
  BY <1>0 DEF LogResult
<1>2. SoundToken(ResTok(w))
  BY <1>0, TokensSound DEF Tokens
<1>3. Sound' /\ (\A k \in 0..pos : Same(k)) /\ pos' = pos + 1 /\ pos \in Nat
  BY <1>1, <1>2, Writes
<1>4. hdr.end \in 0..pos
  BY <1>0, Numbers DEF IInv
<1>5. Same(hdr.end)
  BY <1>3, <1>4
<1>6. hdr.end > 0 => Clean(body', hdr.end)
  BY <1>5 DEF Same, Journal
<1>8. ASSUME Smooth(body', pos')
      PROVE  LET s == Replay(body', pos') IN
             /\ Calm(s) /\ base' \in {NoWorld, s.base} /\ s.diffs >= 1 /\ LastIs(body', pos', w)
  <2>1. /\ LastIs(body', pos', w) /\ Smooth(body, pos)
        /\ ~Replay(body, pos).fail /\ ~Replay(body, pos).mark =>
             /\ Calm(Replay(body', pos')) /\ Replay(body', pos').base = Replay(body, pos).base
             /\ Replay(body', pos').diffs = Replay(body, pos).diffs
    BY <1>0, <1>8, ResultRead
  <2>2. /\ ~Replay(body, pos).fail /\ ~Replay(body, pos).mark /\ Replay(body, pos).diffs >= 1
        /\ base \in {NoWorld, Replay(body, pos).base}
    BY <1>0, <2>1 DEF Journal, Midway, Follows
  <2> QED
    BY <1>1, <2>1, <2>2
<1>9. CASE Busy(w)
  <2>1. pc' = "header"
    BY <1>1, <1>9
  <2>2. Clean(body', pos')
    BY <1>0, <1>8, <1>9 DEF Clean
  <2> QED
    BY <1>1, <1>3, <1>6, <1>8, <2>1, <2>2 DEF Journal, Follows
<1>10. CASE ~Busy(w)
  <2>1. pc' = "mark"
    BY <1>1, <1>10
  <2> QED
    BY <1>1, <1>3, <1>6, <1>8, <2>1 DEF Journal, Follows, Pending, Calm
<1> QED
  BY <1>9, <1>10

LEMMA LogMarkJournal == ASSUME IInv, Journal, LogMark PROVE Journal'
<1>0. /\ pc = "mark" /\ pc' = "data" /\ Write(Tok("mark")) /\ hdr.end <= pos
      /\ hdr' = hdr /\ base' = base /\ world' = world
  <2>1. pc = "mark"
    BY DEF LogMark
  <2>2. hdr.end <= pos
    BY <2>1, Numbers DEF IInv, Bookkeeping
  <2> QED
    BY <2>1, <2>2 DEF LogMark
<1>1. /\ pos \in Nat /\ pos' = pos + 1 /\ Sound' /\ (\A k \in 0..pos : Same(k))
      /\ Took(pos, Tok("mark")) /\ Tok("mark").t = "mark"
  BY <1>0, Writes, TokensSound DEF Tokens
<1>2. hdr.end \in 0..pos
  BY <1>0, Numbers DEF IInv
<1>3. hdr.end > 0 => Clean(body', hdr.end)
  <2>1. Same(hdr.end)
    BY <1>1, <1>2
  <2> QED
    BY <2>1 DEF Same, Journal
<1>4. ASSUME Smooth(body', pos')
      PROVE  Pending(body, pos)' /\ Replay(body', pos').mark
  <2> DEFINE r == Replay(body, pos)
             s == Replay(body', pos')
  <2>1. Smooth(body, pos) /\ Reader(r) /\ s = ReplayStep(r, Tok("mark"))
        /\ (LastIs(body', pos', world) <=> LastIs(body, pos, world))
    BY <1>1, <1>4 DEF Took
  <2>2. Pending(body, pos) /\ ~r.mark
    BY <1>0, <2>1 DEF Journal
  <2>3. Calm(r)
    BY <2>2 DEF Pending, Calm
  <2>4. s.fail = FALSE /\ s.mark = TRUE /\ s.base = r.base /\ s.diffs = r.diffs
        /\ s.played = r.played /\ ~s.asks
    <3> HIDE DEF r, s
    <3> QED
      BY <1>1, <2>1, <2>3, StepMark
  <2> QED
    BY <1>0, <2>1, <2>2, <2>4 DEF Pending, Follows
<1> QED
  BY <1>0, <1>1, <1>3, <1>4 DEF Journal

LEMMA LogDiffJournal == ASSUME IInv, Journal, LogDiff PROVE Journal'
<1>0. /\ pc = "data" /\ pc' = "header" /\ Write(DiffTok(base, world)) /\ hdr.end <= pos
      /\ hdr' = hdr /\ base' = world /\ world' = world /\ world \in Worlds
  <2>1. pc = "data"
    BY DEF LogDiff
  <2>2. hdr.end <= pos /\ world \in Worlds
    BY <2>1, Numbers DEF IInv, Bookkeeping, TypeOK, InMemory
  <2> QED
    BY <2>1, <2>2 DEF LogDiff
<1> DEFINE tok == DiffTok(base, world)
<1>a. tok.t = "diff" /\ tok.b = base /\ tok.w = world /\ SoundToken(tok)
  BY <1>0, TokensSound DEF Tokens
<1>b. Write(tok)
  BY <1>0
<1> HIDE DEF tok
<1>1. /\ pos \in Nat /\ pos' = pos + 1 /\ Sound' /\ (\A k \in 0..pos : Same(k))
      /\ Took(pos, tok)
  BY <1>a, <1>b, Writes
<1>2. hdr.end \in 0..pos
  BY <1>0, Numbers DEF IInv
<1>3. hdr.end > 0 => Clean(body', hdr.end)
  <2>1. Same(hdr.end)
    BY <1>1, <1>2
  <2> QED
    BY <2>1 DEF Same, Journal
<1>4. ASSUME Smooth(body', pos')
      PROVE  LET s == Replay(body', pos') IN
             /\ Calm(s) /\ s.diffs >= 1 /\ s.base = world /\ LastIs(body', pos', world)
             /\ s.diffs >= 2 \/ s.played = world
  <2> DEFINE r == Replay(body, pos)
             s == Replay(body', pos')
  <2>1. Smooth(body, pos) /\ Reader(r) /\ s = ReplayStep(r, tok)
        /\ (LastIs(body', pos', world) <=> LastIs(body, pos, world))
    BY <1>1, <1>4, <1>a DEF Took
  <2>2. Pending(body, pos) /\ r.mark
    BY <1>0, <2>1 DEF Journal
  <2>3. ~r.fail /\ ~r.asks /\ base \in {NoWorld, r.base} /\ LastIs(body, pos, world)
        /\ (r.diffs >= 1 \/ r.played = world) /\ r.diffs \in Nat
    BY <2>1, <2>2 DEF Pending, Follows, Reader
  <2>4. s.fail = FALSE /\ s.mark = FALSE /\ s.base = tok.w /\ s.diffs = r.diffs + 1
        /\ s.played = r.played /\ s.asks = r.asks
    BY <1>a, <2>1, <2>2, <2>3, StepDiff
  <2>5. s.diffs >= 1 /\ (s.diffs >= 2 \/ s.played = world)
    BY <2>3, <2>4
  <2> QED
    BY <1>a, <2>1, <2>3, <2>4, <2>5 DEF Calm
<1>5. Clean(body', pos')
  BY <1>0, <1>4 DEF Clean
<1> QED
  BY <1>0, <1>1, <1>3, <1>4, <1>5 DEF Journal, Follows

LEMMA CommitHeaderJournal == ASSUME IInv, Journal, CommitHeader PROVE Journal'
<1>1. /\ pc = "header" /\ pc' \in {"finish", "ready"} /\ lastCmd' = pos /\ hdr'.end = pos
      /\ body' = body /\ pos' = pos /\ base' = base
  BY DEF CommitHeader
<1>2. pos > 0 /\ Clean(body, pos) /\ (Smooth(body, pos) => Follows(body, pos)) /\ Sound
  BY <1>1 DEF Journal
<1>3. Sound'
  BY <1>1, <1>2 DEF Sound
<1>4. Same(pos)
  BY <1>1, Unchanged, Numbers DEF IInv
<1>5. Clean(body', pos) /\ (Smooth(body', pos) => base' \in {NoWorld, Replay(body', pos).base})
  BY <1>1, <1>2, <1>4 DEF Same, Follows
<1> QED
  BY <1>1, <1>2, <1>3, <1>5 DEF Journal, Follows

(* What lies beyond the journal makes no difference to it. *)
LEMMA StoreJournal ==
  ASSUME IInv, Journal, NEW tok, SoundToken(tok), pc \in {"saving", "entry"}, pc' = "off",
         pos < MaxLog, body' = [body EXCEPT ![pos+1] = tok], hdr' = hdr
  PROVE  Journal'
<1>0. TypeOK /\ Sound /\ pos = hdr.end
  BY DEF Journal, IInv
<1>1. pos \in 0..MaxLog-1
  BY <1>0, Numbers
<1>2. Sound' /\ (\A k \in 0..pos : Same(k))
  BY <1>0, <1>1, Overwrote
<1>3. Same(hdr.end)
  BY <1>0, <1>1, <1>2
<1>4. hdr.end > 0 => Clean(body', hdr.end)
  BY <1>3 DEF Same, Journal
<1> QED
  BY <1>2, <1>4 DEF Journal

LEMMA LeaveJournal == ASSUME IInv, Journal, Leave \/ FinishGame \/ LogEntry PROVE Journal'
<1>1. CASE FinishGame
  <2>0. hdr \in Header
    BY DEF IInv, TypeOK
  <2>1. /\ pc = "finish" /\ pc' = "entry" /\ hdr'.end = lastCmd /\ body' = body
        /\ lastCmd' = lastCmd /\ pos' = lastCmd
    BY <1>1, <2>0 DEF FinishGame, Header
  <2>2. Sound' /\ Clean(body, lastCmd) /\ lastCmd > 0
    BY <2>1 DEF Journal, Sound
  <2>3. Same(lastCmd)
    BY <2>1, Unchanged, Numbers DEF IInv
  <2>4. Clean(body', hdr'.end)
    BY <2>1, <2>2, <2>3 DEF Same
  <2> QED
    BY <2>1, <2>2, <2>4 DEF Journal
<1>2. CASE BeginSave
  <2>1. /\ pc \in {"ready", "play"} /\ pc' = "saving" /\ pos' = lastCmd /\ lastCmd' = lastCmd
        /\ hdr'.end = lastCmd /\ body' = body
    BY <1>2 DEF BeginSave, IInv, TypeOK, Header
  <2>2. Sound' /\ Clean(body, lastCmd) /\ lastCmd > 0
    BY <2>1 DEF Journal, Sound
  <2>3. Same(lastCmd)
    BY <2>1, Unchanged, Numbers DEF IInv
  <2>4. Clean(body', lastCmd)
    BY <2>2, <2>3 DEF Same
  <2> QED
    BY <2>1, <2>2, <2>4 DEF Journal
<1>3. CASE StoreSave
  <2>1. SoundToken(BinTok(world))
    BY <1>3, TokensSound DEF Tokens, StoreSave, IInv, TypeOK, InMemory
  <2> QED
    BY <1>3, <2>1, StoreJournal DEF StoreSave
<1>4. CASE Crash
  <2>1. pc' = "off" /\ hdr' = hdr /\ body' = body
    BY <1>4 DEF Crash, Die, file
  <2>2. Sound' /\ (hdr.end > 0 => Clean(body, hdr.end))
    BY <2>1 DEF Journal, Sound
  <2>3. Same(hdr.end)
    BY <2>1, Unchanged, Numbers DEF IInv
  <2>4. hdr.end > 0 => Clean(body', hdr'.end)
    BY <2>1, <2>2, <2>3 DEF Same
  <2> QED
    BY <2>1, <2>2, <2>4 DEF Journal
<1>5. CASE CrashInStore
  <2>1. SoundToken(Tok("torn"))
    BY TokensSound DEF Tokens
  <2> QED
    BY <1>5, <2>1, StoreJournal DEF CrashInStore, Die
<1>6. CASE LogEntry
  <2>1. SoundToken(Tok("top"))
    BY TokensSound DEF Tokens
  <2> QED
    BY <1>6, <2>1, StoreJournal DEF LogEntry
<1> QED
  BY <1>1, <1>2, <1>3, <1>4, <1>5, <1>6 DEF Leave

(* Coming back, when fclose leaves the offset at the last byte read. *)
LEMMA OpenLogJournal == ASSUME IInv, Journal, OpenLog PROVE Journal'
<1>1. /\ body' = body /\ hdr' = hdr /\ lastCmd' = hdr.end
      /\ pc' \in {"refused", "read"} /\ (pc' = "read" => hdr.end # 0)
  BY DEF OpenLog, file
<1>2. Sound' /\ (hdr.end > 0 => Clean(body, hdr.end)) /\ hdr.end \in Nat
  BY <1>1, Numbers DEF Journal, Sound, IInv
<1>3. Same(hdr.end)
  BY <1>1, Unchanged, Numbers DEF IInv
<1>4. hdr.end > 0 => Clean(body', hdr.end)
  BY <1>2, <1>3 DEF Same
<1> QED
  BY <1>1, <1>2, <1>4 DEF Journal

LEMMA LoadSaveJournal == ASSUME IInv, Journal, ~ReadAhead, LoadSave PROVE Journal'
<1>1. /\ pc = "read" /\ pc' = "ending" /\ Truncate(hdr.end) /\ pos' = hdr.end
      /\ hdr' = hdr /\ lastCmd' = lastCmd
  BY DEF LoadSave, OffsetAfter
<1>2. TypeOK /\ Sound /\ hdr.end > 0 /\ lastCmd = hdr.end /\ Clean(body, hdr.end)
  BY <1>1 DEF Journal, IInv
<1>3. Sound' /\ Same(hdr.end)
  BY <1>1, <1>2, Cut, Numbers
<1>4. Clean(body', hdr.end)
  BY <1>2, <1>3 DEF Same
<1> QED
  BY <1>1, <1>2, <1>3, <1>4 DEF Journal

LEMMA ReadJournal == ASSUME IInv, Journal, ~ReadAhead, LoadFails \/ ReplayLog PROVE Journal'
<1>1. /\ pc = "read" /\ ((pc' = "unwind" /\ ~force') \/ pc' = "ending") /\ pos' = hdr.end
      /\ body' = body /\ hdr' = hdr /\ lastCmd' = lastCmd
  BY DEF LoadFails, ReplayLog, OffsetAfter, file
<1>2. TypeOK /\ Sound' /\ hdr.end > 0 /\ lastCmd = hdr.end /\ Clean(body, hdr.end)
  BY <1>1 DEF Journal, IInv, Sound
<1>3. Same(hdr.end)
  BY <1>1, <1>2, Unchanged, Numbers
<1>4. Clean(body', hdr.end)
  BY <1>2, <1>3 DEF Same
<1> QED
  BY <1>1, <1>2, <1>4 DEF Journal

(* A replay that fails does so at a question the journal does not answer or at
   the death of the hero. *)
LEMMA FailsRough ==
  ASSUME TypeOK, Sound, hdr.end > 0, Clean(body, hdr.end), NEW n \in FailsAt,
         Outcome(body, hdr.end) \notin Worlds
  PROVE  n \in 1..hdr.end /\ ~Smooth(body, n)
<1> DEFINE e == hdr.end
<1>0. e \in Nat /\ e \in 0..MaxLog /\ n \in 1..e
  BY Numbers DEF FailsAt
<1>1. Reader(Replay(body, e))
  <2>1. \A i \in 1..e : SoundToken(body[i])
    BY <1>0, Numbers DEF Sound
  <2> QED
    BY <1>0, <2>1, ReplayType
<1>2. ~Smooth(body, e)
  <2>1. SUFFICES ASSUME Smooth(body, e) PROVE Outcome(body, e) \in Worlds
    OBVIOUS
  <2>2. Calm(Replay(body, e)) /\ Replay(body, e).diffs >= 1
    BY <2>1 DEF Clean
  <2> QED
    BY <1>1, <2>2 DEF Outcome, Reader, Calm
<1>3. SUFFICES ASSUME n # e PROVE ~Smooth(body, n)
  BY <1>0, <1>2
<1>4. Replay(body, e).fail /\ Replay(body, n).fail /\ ~Replay(body, n - 1).fail
  BY <1>3 DEF FailsAt
<1>5. PICK k \in 0..e-1 : ~Quiet(Replay(body, k), body[k+1])
  BY <1>2 DEF Smooth
<1>6. CASE k \in 0..n-1
  BY <1>5, <1>6 DEF Smooth
<1>7. CASE n <= k
  <2>1. k \in Nat /\ n \in 0..k
    BY <1>0, <1>7
  <2>2. Replay(body, k) = Replay(body, n)
    BY <1>4, <2>1, FailSticks
  <2>3. ReplayStep(Replay(body, k), body[k+1]) = Replay(body, n)
    BY <1>4, <2>2 DEF ReplayStep
  <2>4. Died(Replay(body, n))
    BY <1>4, <1>5, <2>2, <2>3 DEF Quiet
  <2>5. n - 1 \in 0..n-1 /\ n - 1 \in Nat /\ (n - 1) + 1 = n
    BY <1>0
  <2>6. Replay(body, n) = ReplayStep(Replay(body, n - 1), body[n])
    <3>1. Replay(body, (n - 1) + 1) = ReplayStep(Replay(body, n - 1), body[(n - 1) + 1])
      BY <2>5, ReplayGoesOn
    <3> QED
      BY <2>5, <3>1
  <2>7. ~Quiet(Replay(body, n - 1), body[(n - 1) + 1])
    BY <2>4, <2>5, <2>6 DEF Quiet
  <2> QED
    BY <2>5, <2>7 DEF Smooth
<1> QED
  BY <1>0, <1>6, <1>7

LEMMA ReplayFailsJournal == ASSUME IInv, Journal, ~ReadAhead, ReplayFails PROVE Journal'
<1>1. /\ pc = "read" /\ pc' = "unwind" /\ force /\ force' = force
      /\ body' = body /\ hdr' = hdr /\ Outcome(body, hdr.end) \notin Worlds
  BY DEF ReplayFails, file
<1>2. PICK n \in FailsAt : pos' = n
  BY DEF ReplayFails, OffsetAfter
<1>3. TypeOK /\ Sound /\ Sound' /\ hdr.end > 0 /\ Clean(body, hdr.end)
  BY <1>1 DEF Journal, IInv, Sound
<1>4. n \in 1..hdr.end /\ ~Smooth(body, n)
  BY <1>1, <1>3, FailsRough
<1>5. Same(hdr.end) /\ Same(n)
  BY <1>1, <1>3, <1>4, Unchanged, Numbers
<1>6. Clean(body', hdr.end) /\ ~Smooth(body', n)
  BY <1>3, <1>4, <1>5 DEF Same
<1> QED
  BY <1>1, <1>2, <1>3, <1>4, <1>6 DEF Journal

LEMMA ReplayDiesJournal == ASSUME IInv, Journal, ReplayDies PROVE Journal'
<1>1. /\ pc = "read" /\ pc' = "unwind" /\ force /\ force' = force /\ hdr' = hdr
      /\ Died(Replay(body, hdr.end))
  BY DEF ReplayDies
<1>2. TypeOK /\ Sound /\ hdr.end > 0 /\ Clean(body, hdr.end)
  BY <1>1 DEF Journal, IInv
<1>3. PICK n \in FailsAt : \E at \in n..size :
            /\ at < MaxLog /\ body' = [body EXCEPT ![at+1] = Tok("top")]
            /\ pos' \in n..size'
  BY DEF ReplayDies
<1>4. PICK at \in n..size : /\ at < MaxLog /\ body' = [body EXCEPT ![at+1] = Tok("top")]
                            /\ pos' \in n..size'
  BY <1>3
<1>5. Outcome(body, hdr.end) \notin Worlds
  BY <1>1, SentinelAssumption DEF Outcome, Died
<1>6. n \in 1..hdr.end /\ ~Smooth(body, n)
  BY <1>2, <1>5, FailsRough
<1>7. at \in 0..MaxLog-1 /\ n \in 0..at /\ n <= pos'
  BY <1>2, <1>4, <1>6, Numbers
<1>8. SoundToken(Tok("top"))
  BY TokensSound DEF Tokens
<1>9. Sound' /\ Same(n)
  BY <1>2, <1>4, <1>7, <1>8, Overwrote
<1> DEFINE c == body'
<1>10. ~Smooth(c, n)
  BY <1>6, <1>9 DEF Same
<1> HIDE DEF c
<1>11. ~Smooth(c, hdr.end)
  <2>1. hdr.end \in Nat /\ n \in 0..hdr.end
    BY <1>2, <1>6, Numbers
  <2> QED
    BY <1>10, <2>1, SmoothBefore
<1>12. Clean(c, hdr.end)
  BY <1>11 DEF Clean
<1> QED
  BY <1>1, <1>6, <1>7, <1>9, <1>10, <1>12 DEF Journal, c

(* What replay_end may write is nothing to the reader. *)
LEMMA EndWrites ==
  ASSUME IInv, Journal, ReplayEnd
  PROVE  /\ Sound'
         /\ \A k \in 0..pos : Same(k)
         /\ \/ body' = body /\ pos' = pos /\ lastCmd' = lastCmd
            \/ /\ pos' = pos + 1 /\ lastCmd' \in {lastCmd, pos + 1}
               /\ \E tok : tok.t \in {"opt", "tz"} /\ Took(pos, tok)
<1>1. CASE UNCHANGED <<body, size, pos, lastCmd>>
  <2>1. \A k \in 0..MaxLog : Same(k)
    BY <1>1, Unchanged DEF IInv
  <2>2. Sound'
    BY <1>1 DEF Sound, Journal
  <2>3. 0..pos \subseteq 0..MaxLog
    BY Numbers DEF IInv
  <2> QED
    BY <1>1, <2>1, <2>2, <2>3
<1>2. ASSUME NEW tok, SoundToken(tok), tok.t \in {"opt", "tz"}, Write(tok),
             lastCmd' \in {lastCmd, pos + 1}
      PROVE  /\ Sound'
             /\ \A k \in 0..pos : Same(k)
             /\ pos' = pos + 1 /\ lastCmd' \in {lastCmd, pos + 1}
             /\ \E t : t.t \in {"opt", "tz"} /\ Took(pos, t)
  BY <1>2, Writes
<1>3. CASE LogZone
  <2>1. SoundToken(Tok("tz")) /\ Tok("tz").t = "tz"
    BY DEF SoundToken, Tok
  <2> QED
    BY <1>2, <1>3, <2>1 DEF LogZone
<1>4. CASE LogOptions
  <2>1. SoundToken(Tok("opt")) /\ Tok("opt").t = "opt"
    BY TokensSound DEF Tokens
  <2> QED
    BY <1>2, <1>4, <2>1 DEF LogOptions
<1> QED
  BY <1>1, <1>3, <1>4 DEF ReplayEnd

LEMMA EndReplayJournal == ASSUME IInv, Journal, EndReplay PROVE Journal'
<1>1. pc = "ending" /\ pc' = "truncate" /\ ReplayEnd /\ hdr' = hdr
  BY DEF EndReplay
<1>2. hdr.end > 0 /\ lastCmd = hdr.end /\ pos = hdr.end /\ Clean(body, pos)
  BY <1>1 DEF Journal
<1>3. pos \in Nat /\ pos \in 0..pos
  BY Numbers DEF IInv
<1>4. Sound' /\ Same(pos)
  BY <1>1, <1>3, EndWrites
<1>5. Clean(body', pos)
  BY <1>2, <1>4 DEF Same
<1>6. lastCmd' > 0 /\ Clean(body', lastCmd')
  <2>1. CASE lastCmd' = lastCmd
    BY <1>2, <1>5, <2>1
  <2>2. CASE lastCmd' # lastCmd
    <3>1. lastCmd' = pos + 1 /\ \E tok : tok.t \in {"opt", "tz"} /\ Took(pos, tok)
      BY <1>1, <2>2, EndWrites
    <3>2. Clean(body', pos + 1)
      BY <1>2, <1>3, <3>1, CleanOn
    <3> QED
      BY <1>3, <3>1, <3>2
  <2> QED
    BY <2>1, <2>2
<1> QED
  BY <1>1, <1>2, <1>4, <1>5, <1>6 DEF Journal

LEMMA TruncateLogJournal == ASSUME IInv, Journal, TruncateLog PROVE Journal'
<1>1. /\ pc = "truncate" /\ pc' = "ready" /\ Truncate(lastCmd) /\ lastCmd' = lastCmd
      /\ hdr' = hdr /\ base' = NoWorld /\ hdr.end <= lastCmd
  BY DEF TruncateLog, IInv, Bookkeeping
<1>2. TypeOK /\ Sound /\ hdr.end > 0 /\ lastCmd > 0 /\ Clean(body, lastCmd) /\ Clean(body, hdr.end)
  BY <1>1 DEF Journal, IInv
<1>3. lastCmd \in 0..lastCmd /\ hdr.end \in 0..lastCmd
  BY <1>1, <1>2, Numbers
<1>4. Sound' /\ Same(lastCmd) /\ Same(hdr.end)
  BY <1>1, <1>2, <1>3, Cut, Numbers
<1>5. Clean(body', lastCmd) /\ Clean(body', hdr.end)
  BY <1>2, <1>4 DEF Same
<1> QED
  BY <1>1, <1>2, <1>4, <1>5 DEF Journal, Follows

LEMMA UnwindJournal == ASSUME IInv, Journal, Unwind PROVE Journal'
<1>1. pc = "unwind" /\ pc' \in {"refused", "retry"} /\ ReplayEnd /\ hdr' = hdr
  BY DEF Unwind
<1>2. Sound' /\ (\A k \in 0..pos : Same(k)) /\ pos \in Nat /\ hdr.end \in Nat
  BY <1>1, EndWrites, Numbers DEF IInv
<1>3. hdr.end > 0 => Clean(body', hdr.end)
  <2>1. CASE ~force
    <3>1. Same(hdr.end)
      BY <1>1, <1>2, <2>1 DEF Journal
    <3> QED
      BY <3>1 DEF Journal, Same
  <2>2. CASE force
    <3>1. PICK n \in 1..hdr.end : n <= pos /\ ~Smooth(body, n)
      BY <1>1, <2>2 DEF Journal
    <3>2. n \in 0..hdr.end /\ n \in 0..pos
      BY <1>2, <3>1
    <3> DEFINE c == body'
    <3>3. ~Smooth(c, n)
      BY <1>2, <3>1, <3>2 DEF Same
    <3> HIDE DEF c
    <3>4. ~Smooth(c, hdr.end)
      BY <1>2, <3>2, <3>3, SmoothBefore
    <3> QED
      BY <3>4 DEF Clean, c
  <2> QED
    BY <2>1, <2>2
<1> QED
  BY <1>1, <1>2, <1>3 DEF Journal

LEMMA StutterJournal == ASSUME IInv, Journal, UNCHANGED vars PROVE Journal'
<1>1. \A n \in 0..MaxLog : Same(n)
  BY Unchanged DEF IInv, vars, file
<1>2. Same(hdr.end) /\ Same(lastCmd) /\ Same(pos)
  BY <1>1, Numbers DEF IInv
<1>3. UNCHANGED <<hdr, body, size, pc, pos, lastCmd, base, world, force>>
  BY DEF vars, file, proc
<1> QED
  BY <1>2, <1>3 DEF Journal, Same, Sound, Follows, Pending, Midway

LEMMA InitJournal == Init => Journal
<1> SUFFICES ASSUME Init PROVE Journal
  OBVIOUS
<1>1. Sound
  BY DEF Init, Sound, SoundToken, Hole, Tok
<1>2. hdr.end = 0 /\ pc = "off"
  BY DEF Init
<1> QED
  BY <1>1, <1>2 DEF Journal

LEMMA NextJournal == ASSUME IInv, Journal, ~ReadAhead, [Next]_vars PROVE Journal'
<1>1. CASE Play
  BY <1>1, NewGameJournal, SetOptionJournal, StartCommandJournal, LogInputJournal, RevertJournal,
     FirstResultJournal, FinishCommandJournal, LogMarkJournal, LogDiffJournal,
     CommitHeaderJournal, LeaveJournal DEF Play
<1>2. CASE Leave
  BY <1>2, LeaveJournal
<1>3. CASE Resume
  BY <1>3, OpenLogJournal, LoadSaveJournal, ReadJournal, ReplayFailsJournal, ReplayDiesJournal, EndReplayJournal,
     TruncateLogJournal, UnwindJournal DEF Resume
<1> QED
  BY <1>1, <1>2, <1>3, StutterJournal DEF Next

(* What the journal holds is the last finished turn. *)
LEMMA JournalRestores == ASSUME IInv, Journal PROVE FinishedTurnRestores
<1>1. SUFFICES ASSUME hdr.end > 0, ~Unanswered, ~Died(Replay(body, hdr.end)),
                      ~Busy(body[LastResult].w)
               PROVE  Outcome(body, hdr.end) = body[LastResult].w
  BY DEF FinishedTurnRestores
<1>2. hdr.end \in Nat /\ Clean(body, hdr.end)
  BY <1>1, Numbers DEF Journal, IInv
<1>3. Smooth(body, hdr.end)
  <2>1. SUFFICES ASSUME NEW k \in 0..hdr.end-1
                 PROVE  Quiet(Replay(body, k), body[k+1])
    BY DEF Smooth
  <2>2. Replay(body, k).asks /\ ~Replay(body, k).fail => body[k+1].t = "in"
    <3>1. SUFFICES ASSUME Replay(body, k).asks, ~Replay(body, k).fail
                   PROVE  body[k+1].t = "in"
      OBVIOUS
    <3>2. k # 0
      BY <3>1, ReplayStarts DEF ReplayInit
    <3>3. k \in 1..(hdr.end - 1)
      BY <1>2, <3>2
    <3> QED
      BY <1>1, <3>1, <3>3 DEF Unanswered
  <2>3. ~Died(ReplayStep(Replay(body, k), body[k+1]))
    <3>1. SUFFICES ASSUME Died(Replay(body, k + 1)) PROVE FALSE
      BY ReplayGoesOn
    <3>2. k + 1 \in 0..hdr.end /\ Replay(body, k + 1).fail
      BY <1>2, <3>1 DEF Died
    <3>3. Replay(body, hdr.end) = Replay(body, k + 1)
      BY <1>2, <3>2, FailSticks
    <3> QED
      BY <1>1, <3>1, <3>3
  <2> QED
    BY <2>2, <2>3 DEF Quiet
<1>4. PICK w \in Worlds : /\ LastIs(body, hdr.end, w)
                          /\ ~Busy(w) => Replay(body, hdr.end).base = w
                               /\ \/ Replay(body, hdr.end).diffs >= 2
                                  \/ Replay(body, hdr.end).played = w
  BY <1>2, <1>3 DEF Clean
<1>5. body[LastResult].w = w
  <2> DEFINE P(k) == body[k].t = "res" /\ \A i \in (k+1)..hdr.end : body[i].t # "res"
  <2>1. PICK k \in 1..hdr.end : P(k) /\ body[k].w = w
    BY <1>4 DEF LastIs
  <2>2. LastResult \in 1..hdr.end /\ P(LastResult)
    BY <2>1 DEF LastResult
  <2>3. LastIs(body, hdr.end, body[LastResult].w)
    BY <2>2 DEF LastIs
  <2> QED
    BY <1>2, <1>4, <2>3, LastIsOne
<1>6. Calm(Replay(body, hdr.end))
  BY <1>2, <1>3 DEF Clean
<1> QED
  BY <1>1, <1>4, <1>5, <1>6 DEF Outcome, Calm

(* The journal of a finished command restores to the very world its result
   recorded, for every log that playing, leaving, dying and coming back can
   write, if fclose leaves the shared offset at the last byte the reader used
   (log_command_result, log_truncate, replay_check_diff, replay_sync_save). *)
THEOREM FinishedTurnsRestore ==
  ASSUME ~ReadAhead
  PROVE  Spec => []FinishedTurnRestores
<1>1. Init => IInv /\ Journal
  BY InitInv, InitJournal
<1>2. IInv /\ Journal /\ [Next]_vars => (IInv /\ Journal)'
  BY NextStep, NextJournal
<1>3. IInv /\ Journal => FinishedTurnRestores
  BY JournalRestores
<1> QED
  BY <1>1, <1>2, <1>3, PTL DEF Spec

-----------------------------------------------------------------------------
(* 4. The answers.                                                         *)

(* Whether a command asks, and whether it kills the hero, does not depend on the
   world it is issued in. *)
AskingFixed == \A c \in Commands, v \in Worlds, w \in Worlds : Asks(c, v) = Asks(c, w)

DyingFixed ==
  \A c \in Commands, v \in Worlds, w \in Worlds : Fatal(Append(v, c)) <=> Fatal(Append(w, c))

(* The reader would ask what the player was asked, and die of what the player
   died of. *)
Alike(c) ==
  LET r == Replay(body, lastCmd) IN
  r.valid => /\ Asks(c, r.played) = Asks(c, world)
             /\ Fatal(Append(r.played, c)) <=> Fatal(Append(world, c))

(* The header vouches for the hero's death, and nobody plays on. *)
Over ==
  /\ used.dead > 0 /\ hdr.st # "save"
  /\ pc \in {"finish", "entry", "off", "read", "unwind", "refused"}
  /\ pc \in {"read", "unwind"} => force

(* The command under way kills the hero. *)
Doomed == pc = "play" /\ Fatal(Append(world, cur))

(* Every question the reader asks is answered, and it dies only where the player
   did; the command under way asks the reader for an input only when it asks the
   player. *)
Heard ==
  /\ hdr.end > 0 => Smooth(body, hdr.end) \/ Over
  /\ pc \in {"ready", "play", "truncate"} => Smooth(body, lastCmd)
  /\ pc \in {"setup", "play", "mark", "data", "header"} =>
       Smooth(body, pos) \/ Doomed \/ (pc \in {"mark", "data", "header"} /\ dying)
  /\ pc = "play" /\ Smooth(body, pos) /\ Replay(body, pos).asks =>
       Asks(cur, world) /\ ~asked /\ (Fatal(Replay(body, pos).played) => Doomed)
  /\ pc = "unwind" /\ force => Over
  /\ pc = "refused" => hdr.end = 0 \/ used.dead > 0

Standing == IInv /\ Journal /\ Heard

(* Where a game is played, the reader has no quarrel with what is vouched for. *)
LEMMA VouchedSmooth ==
  ASSUME Heard, hdr.end > 0,
         pc \notin {"finish", "entry", "off", "unwind", "refused"},
         pc = "read" => ~force
  PROVE  Smooth(body, hdr.end)
BY DEF Heard, Over

(* The reader goes on. *)
LEMMA QuietOf ==
  ASSUME NEW r, NEW tok, r.asks /\ ~r.fail => tok.t = "in", ReplayStep(r, tok).fail = FALSE
  PROVE  Quiet(r, tok)
BY DEF Quiet, Died

(* What the reader may die of. *)
LEMMA CommandDies ==
  ASSUME NEW r, Reader(r), NEW tok, Calm(r), tok.t = "cmd", Died(ReplayStep(r, tok))
  PROVE  r.valid /\ Fatal(Append(r.played, tok.c))
<1>1. ReplayStep(r, tok) = ReadCommand(r, tok)
  BY DEF ReplayStep, Calm
<1>2. CASE ~r.valid
  BY <1>1, <1>2 DEF ReadCommand, Calm, Died
<1>3. CASE r.valid
  <2> DEFINE w    == Append(r.played, tok.c)
             asks == Asks(tok.c, r.played)
             s    == [r EXCEPT !.played = w, !.asks = asks, !.fail = ~asks /\ Fatal(w)]
  <2>1. ReplayStep(r, tok) = s
    BY <1>1, <1>3 DEF ReadCommand
  <2>2. s.fail = (~asks /\ Fatal(w)) /\ s.played = w
    BY DEF Reader, Calm
  <2> HIDE DEF s, w, asks
  <2>3. Fatal(w)
    BY <2>1, <2>2 DEF Died
  <2> QED
    BY <1>3, <2>3 DEF w
<1> QED
  BY <1>2, <1>3 DEF Reader

LEMMA InputDies ==
  ASSUME NEW r, Reader(r), NEW tok, ~r.fail, ~r.mark, tok.t = "in", Died(ReplayStep(r, tok))
  PROVE  r.asks /\ Fatal(r.played)
<1>1. CASE r.asks
  <2> DEFINE s == [r EXCEPT !.asks = FALSE, !.fail = r.fail \/ Fatal(r.played)]
  <2>1. ReplayStep(r, tok) = s
    BY <1>1 DEF ReplayStep, ReadInput
  <2>2. s.played = r.played
    BY DEF Reader
  <2> HIDE DEF s
  <2> QED
    BY <1>1, <2>1, <2>2 DEF Died
<1>2. CASE ~r.asks
  <2>1. ReplayStep(r, tok) = r
    BY <1>2 DEF ReplayStep
  <2> QED
    BY <2>1 DEF Died
<1> QED
  BY <1>1, <1>2

LEMMA FirstHeard == ASSUME Standing, NewGame PROVE Heard'
<1>1. ReplayInit.asks = FALSE /\ ReplayStep(ReplayInit, Tok("setup")).fail = FALSE
  BY DEF ReplayInit, ReplayStep, Tok
<1>2. Quiet(ReplayInit, Tok("setup"))
  BY <1>1, QuietOf
<1>3. ASSUME NEW b, b[0+1] = Tok("setup") PROVE Smooth(b, 0 + 1)
  <2>1. Smooth(b, 0) /\ Replay(b, 0) = ReplayInit
    BY SmoothNext, ReplayStarts
  <2> QED
    BY <1>2, <1>3, <2>1, SmoothNext
<1>4. hdr'.end = 0 /\ pc' = "setup" /\ pos' = 1 /\ 0 + 1 = 1
  BY DEF NewGame
<1>5. body'[1] = Tok("setup")
  <2>1. 1 \in Slots /\ DOMAIN body = Slots
    BY BoundsAssumption DEF NewGame, Standing, IInv, TypeOK, Slots
  <2> QED
    BY <2>1 DEF NewGame
<1>6. Smooth(body', 1)
  BY <1>3, <1>4, <1>5
<1> QED
  BY <1>4, <1>6 DEF Heard

(* One more token at the end of the log. *)
LEMMA WriteHeard ==
  ASSUME Standing, NEW tok, SoundToken(tok), Write(tok), hdr' = hdr,
         pc \in {"setup", "ready", "play", "mark", "data"},
         pc' \in {"ready", "play", "mark", "data", "header"},
         lastCmd' \in {lastCmd, pos + 1},
         pc' = "play" => lastCmd' = lastCmd /\ pc \in {"ready", "play"},
         pc' = "ready" => lastCmd' = pos + 1 /\ Smooth(body', pos + 1),
         pc' # "ready" => Smooth(body', pos + 1) \/ Doomed' \/ (pc' # "play" /\ dying'),
         pc' = "play" /\ Smooth(body', pos + 1) /\ Replay(body', pos + 1).asks =>
           Asks(cur', world') /\ ~asked' /\ (Fatal(Replay(body', pos + 1).played) => Doomed')
  PROVE  Heard'
<1>1. /\ pos \in Nat /\ pos' = pos + 1 /\ \A k \in 0..pos : Same(k)
  BY Writes DEF Standing
<1>2. hdr.end \in 0..pos /\ lastCmd \in 0..pos
  BY Numbers DEF Standing, IInv, Bookkeeping
<1>3. Same(hdr.end) /\ Same(lastCmd)
  BY <1>1, <1>2
<1>4. hdr.end > 0 => Smooth(body', hdr.end)
  BY <1>3, VouchedSmooth DEF Same, Standing
<1>5. pc' = "play" => Smooth(body', lastCmd)
  BY <1>3 DEF Same, Standing, Heard
<1>6. hdr'.end > 0 => Smooth(body', hdr'.end)
  BY <1>4
<1>7. pc' \in {"ready", "play", "truncate"} => Smooth(body', lastCmd')
  BY <1>5
<1>8. pc' \in {"setup", "play", "mark", "data", "header"} =>
        Smooth(body', pos') \/ Doomed' \/ (pc' \in {"mark", "data", "header"} /\ dying')
  BY <1>1
<1>9. pc' = "play" /\ Smooth(body', pos') /\ Replay(body', pos').asks =>
        Asks(cur', world') /\ ~asked' /\ (Fatal(Replay(body', pos').played) => Doomed')
  BY <1>1
<1> QED
  BY <1>6, <1>7, <1>8, <1>9 DEF Heard

(* While the game waits for a command, so does the reader. *)
LEMMA CalmAt ==
  ASSUME Standing, pc = "ready"
  PROVE  LET r == Replay(body, pos) IN
         Calm(r) /\ Reader(r) /\ lastCmd = pos /\ Smooth(body, pos)
<1>1. lastCmd = pos /\ Smooth(body, lastCmd) /\ Clean(body, lastCmd) /\ Sound /\ TypeOK
  BY DEF Standing, IInv, Bookkeeping, Heard, Journal
<1>2. Reader(Replay(body, pos))
  <2>0. pos \in 0..MaxLog /\ MaxLog \in Nat
    BY <1>1, Numbers
  <2>1. pos \in Nat /\ \A i \in 1..pos : SoundToken(body[i])
    BY <1>1, <2>0 DEF Sound
  <2> QED
    BY <2>1, ReplayType
<1> QED
  BY <1>1, <1>2 DEF Clean

LEMMA SetOptionHeard == ASSUME Standing, SetOption PROVE Heard'
<1>1. SoundToken(Tok("opt")) /\ Tok("opt").t = "opt" /\ pc = "ready" /\ Write(Tok("opt"))
  BY TokensSound DEF Tokens, SetOption
<1> DEFINE r == Replay(body, pos)
<1>2. Calm(r) /\ Reader(r) /\ Smooth(body, pos)
  BY <1>1, CalmAt
<1>3. Took(pos, Tok("opt"))
  BY <1>1, Writes DEF Standing
<1>4. Quiet(r, Tok("opt"))
  <2> HIDE DEF r
  <2>1. ReplayStep(r, Tok("opt")) = r /\ ~r.fail /\ ~r.asks
    BY <1>1, <1>2, StepSkips DEF Calm
  <2>2. ReplayStep(r, Tok("opt")).fail = FALSE
    BY <1>2, <2>1 DEF Reader
  <2> QED
    BY <2>1, <2>2, QuietOf
<1>5. Smooth(body', pos + 1)
  BY <1>2, <1>3, <1>4 DEF Took
<1>6. hdr' = hdr /\ pc' = "ready" /\ lastCmd' = pos + 1
  BY <1>1 DEF SetOption
<1> QED
  BY <1>1, <1>5, <1>6, WriteHeard

(* A command, as long as the reader would ask and die as the player does. *)
LEMMA StartCommandHeard ==
  ASSUME Standing, NEW c \in Commands, StartCommand(c), Alike(c)
  PROVE  Heard'
<1>1. /\ SoundToken(CmdTok(c)) /\ CmdTok(c).t = "cmd" /\ CmdTok(c).c = c /\ pc = "ready"
      /\ Write(CmdTok(c))
  BY TokensSound DEF Tokens, StartCommand
<1> DEFINE r == Replay(body, pos)
           tok == CmdTok(c)
           s == ReplayStep(r, tok)
<1>2. Calm(r) /\ Reader(r) /\ lastCmd = pos /\ Smooth(body, pos)
  BY <1>1, CalmAt
<1>3. Took(pos, tok)
  BY <1>1, Writes DEF Standing
<1>4. r.valid => Asks(c, r.played) = Asks(c, world)
                 /\ (Fatal(Append(r.played, c)) <=> Fatal(Append(world, c)))
  BY <1>2 DEF Alike
<1>5. cur' = c /\ world' = world /\ ~asked' /\ hdr' = hdr /\ pc' = "play" /\ lastCmd' = lastCmd
  BY <1>1 DEF StartCommand
<1>6. Doomed' <=> Fatal(Append(world, c))
  BY <1>5 DEF Doomed
<1>7. Replay(body', pos + 1) = s /\ (Smooth(body', pos + 1) <=> Quiet(r, tok))
  BY <1>2, <1>3 DEF Took
<1>8. ~r.asks
  BY <1>2 DEF Calm
<1>9. tok.t = "cmd" /\ tok.c = c
  BY <1>1
<1> HIDE DEF r, tok
<1>10. Smooth(body', pos + 1) \/ Doomed'
  <2>1. SUFFICES ASSUME Died(s) PROVE Fatal(Append(world, c))
    BY <1>6, <1>7, <1>8 DEF Quiet
  <2>2. r.valid /\ Fatal(Append(r.played, c))
    BY <1>2, <1>9, <2>1, CommandDies
  <2> QED
    BY <1>4, <2>2
<1>11. ASSUME Smooth(body', pos + 1), s.asks
       PROVE  Asks(c, world) /\ (Fatal(s.played) => Fatal(Append(world, c)))
  <2>1. ~Died(s)
    BY <1>7, <1>11 DEF Quiet
  <2>2. /\ r.valid => s.played = Append(r.played, c) /\ s.asks = Asks(c, r.played)
        /\ ~r.valid => ~s.asks
    BY <1>2, <1>9, <2>1, StepCommand
  <2> QED
    BY <1>4, <1>11, <2>2
<1> HIDE DEF s
<1>12. pc' = "play" /\ Smooth(body', pos + 1) /\ Replay(body', pos + 1).asks =>
         Asks(cur', world') /\ ~asked' /\ (Fatal(Replay(body', pos + 1).played) => Doomed')
  BY <1>5, <1>6, <1>7, <1>11
<1>13. SoundToken(tok) /\ Write(tok)
  BY <1>1 DEF tok
<1> QED
  BY <1>1, <1>5, <1>10, <1>12, <1>13, WriteHeard

LEMMA LogInputHeard == ASSUME Standing, LogInput PROVE Heard'
<1>1. SoundToken(Tok("in")) /\ Tok("in").t = "in" /\ pc = "play" /\ Write(Tok("in"))
  BY TokensSound DEF Tokens, LogInput
<1> DEFINE r == Replay(body, pos)
           tok == Tok("in")
           s == ReplayStep(r, tok)
<1>2. Took(pos, tok)
  BY <1>1, Writes DEF Standing
<1>3. hdr' = hdr /\ pc' = "play" /\ lastCmd' = lastCmd /\ world' = world /\ cur' = cur
  BY <1>1 DEF LogInput
<1>4. Doomed' <=> Doomed
  BY <1>1, <1>3 DEF Doomed
<1>5. Replay(body', pos + 1) = s /\ Reader(r)
      /\ (Smooth(body', pos + 1) <=> Smooth(body, pos) /\ Quiet(r, tok))
  BY <1>2 DEF Took
<1>6. Smooth(body, pos) => ~r.fail /\ ~r.mark
  BY <1>1 DEF Standing, Journal, Midway
<1>7. Smooth(body, pos) \/ Doomed
  BY <1>1 DEF Standing, Heard
<1>8. Smooth(body, pos) /\ r.asks => (Fatal(r.played) => Doomed)
  BY <1>1 DEF Standing, Heard
<1>9. tok.t = "in" /\ SoundToken(tok) /\ Write(tok)
  BY <1>1
<1> HIDE DEF r, tok
<1>10. Smooth(body', pos + 1) \/ Doomed'
  <2>1. SUFFICES ASSUME Smooth(body, pos), Died(s) PROVE Doomed
    BY <1>4, <1>5, <1>7, <1>9 DEF Quiet
  <2>2. r.asks /\ Fatal(r.played)
    BY <1>5, <1>6, <1>9, <2>1, InputDies
  <2> QED
    BY <1>8, <2>1, <2>2
<1>11. Smooth(body', pos + 1) => ~s.asks
  <2>1. SUFFICES ASSUME Smooth(body, pos), ~Died(s) PROVE ~s.asks
    BY <1>5 DEF Quiet
  <2> QED
    BY <1>5, <1>6, <1>9, <2>1, StepInput
<1> HIDE DEF s
<1> QED
  BY <1>1, <1>3, <1>5, <1>9, <1>10, <1>11, WriteHeard

(* The result of a command the reader has run, or of one that kills the hero. *)
LEMMA ResultHeard ==
  ASSUME Standing, NEW w \in Worlds, NEW dead, LogResult(w, dead), pc \in {"setup", "play"},
         Smooth(body, pos) => LET r == Replay(body, pos) IN Calm(r) /\ Reader(r),
         Smooth(body, pos) \/ dead
  PROVE  Heard'
<1>1. SoundToken(ResTok(w)) /\ ResTok(w).t = "res" /\ Write(ResTok(w))
  BY TokensSound DEF Tokens, LogResult
<1> DEFINE r == Replay(body, pos)
           tok == ResTok(w)
<1>2. Took(pos, tok)
  BY <1>1, Writes DEF Standing
<1>3. pc' \in {"mark", "header"} /\ hdr' = hdr /\ lastCmd' = lastCmd /\ dying' = dead
  BY DEF LogResult
<1>4. Smooth(body', pos + 1) <=> Smooth(body, pos) /\ Quiet(r, tok)
  BY <1>2 DEF Took
<1>5. SoundToken(tok) /\ tok.t = "res" /\ Write(tok)
  BY <1>1
<1>6. Smooth(body, pos) => Calm(r) /\ Reader(r)
  OBVIOUS
<1> HIDE DEF r, tok
<1>7. Smooth(body, pos) => Quiet(r, tok)
  <2>1. SUFFICES ASSUME Smooth(body, pos) PROVE Quiet(r, tok)
    OBVIOUS
  <2>2. ~r.asks /\ ReplayStep(r, tok).fail = FALSE
    BY <1>5, <1>6, <2>1, StepResult DEF Calm
  <2> QED
    BY <2>2, QuietOf
<1> QED
  BY <1>3, <1>4, <1>5, <1>7, WriteHeard

LEMMA FirstResultHeard == ASSUME Standing, FirstResult PROVE Heard'
<1>1. /\ pc = "setup" /\ pos = 1 /\ body[1].t = "setup" /\ world \in Worlds
      /\ LogResult(world, FALSE)
  BY DEF FirstResult, Standing, Journal, IInv, TypeOK, InMemory
<1>2. Replay(body, 0 + 1) = ReplayStep(Replay(body, 0), body[0+1]) /\ Replay(body, 0) = ReplayInit
  BY ReplayGoesOn, ReplayStarts
<1>3. ReplayStep(ReplayInit, body[1]) = ReplayInit
  BY <1>1 DEF ReplayStep, ReplayInit
<1>4. Replay(body, pos) = ReplayInit
  BY <1>1, <1>2, <1>3
<1>5. Calm(ReplayInit) /\ Reader(ReplayInit)
  BY DEF ReplayInit, Calm, Reader, Answer, NewWorld, Worlds
<1>6. Smooth(body, pos)
  BY <1>1 DEF Standing, Heard, Doomed
<1> QED
  BY <1>1, <1>4, <1>5, <1>6, ResultHeard

LEMMA FinishCommandHeard ==
  ASSUME Standing, NEW dead \in BOOLEAN, FinishCommand(dead)
  PROVE  Heard'
<1>1. pc = "play" /\ world \in Worlds /\ cur \in Commands /\ Append(world, cur) \in Worlds
  <2>1. pc = "play" /\ world \in Worlds /\ cur \in Commands
    BY DEF FinishCommand, Standing, IInv, TypeOK, InMemory
  <2> QED
    BY <2>1 DEF Worlds
<1>2. (Asks(cur, world) => asked) /\ (dead <=> Fatal(Append(world, cur)))
      /\ LogResult(Append(world, cur), dead)
  BY DEF FinishCommand
<1>3. Smooth(body, pos) \/ dead
  BY <1>1, <1>2 DEF Standing, Heard, Doomed
<1>4. ASSUME Smooth(body, pos)
      PROVE  LET r == Replay(body, pos) IN Calm(r) /\ Reader(r)
  <2>1. Midway(body, pos) /\ ~Replay(body, pos).asks
    BY <1>1, <1>2, <1>4 DEF Standing, Journal, Heard
  <2>2. pos \in Nat /\ \A i \in 1..pos : SoundToken(body[i])
    BY Numbers DEF Standing, IInv, Journal, Sound
  <2>3. Reader(Replay(body, pos))
    BY <2>2, ReplayType
  <2> QED
    BY <2>1, <2>3 DEF Midway, Calm
<1> QED
  BY <1>1, <1>2, <1>3, <1>4, ResultHeard

(* The rest of the turn. *)
LEMMA LogMarkHeard == ASSUME Standing, LogMark PROVE Heard'
<1>1. /\ SoundToken(Tok("mark")) /\ Tok("mark").t = "mark" /\ pc = "mark" /\ Write(Tok("mark"))
      /\ pc' = "data" /\ hdr' = hdr /\ lastCmd' = lastCmd /\ dying' = dying
  BY TokensSound DEF Tokens, LogMark
<1> DEFINE r == Replay(body, pos)
           tok == Tok("mark")
<1>2. Took(pos, tok)
  BY <1>1, Writes DEF Standing
<1>3. (Smooth(body', pos + 1) <=> Smooth(body, pos) /\ Quiet(r, tok)) /\ Reader(r)
  BY <1>2 DEF Took
<1>4. Smooth(body, pos) => Calm(r)
  BY <1>1 DEF Standing, Journal, Pending, Calm
<1>5. Smooth(body, pos) \/ dying
  BY <1>1 DEF Standing, Heard, Doomed
<1>6. SoundToken(tok) /\ tok.t = "mark" /\ Write(tok)
  BY <1>1
<1> HIDE DEF r, tok
<1>7. Smooth(body, pos) => Quiet(r, tok)
  <2>1. SUFFICES ASSUME Smooth(body, pos) PROVE Quiet(r, tok)
    OBVIOUS
  <2>2. ~r.asks /\ ReplayStep(r, tok).fail = FALSE
    BY <1>3, <1>4, <1>6, <2>1, StepMark DEF Calm
  <2> QED
    BY <2>2, QuietOf
<1> QED
  BY <1>1, <1>3, <1>5, <1>6, <1>7, WriteHeard

LEMMA LogDiffHeard == ASSUME Standing, LogDiff PROVE Heard'
<1> DEFINE r == Replay(body, pos)
           tok == DiffTok(base, world)
<1>1. /\ pc = "data" /\ world \in Worlds /\ Write(tok)
      /\ pc' = "header" /\ hdr' = hdr /\ lastCmd' = lastCmd /\ dying' = dying
  BY DEF LogDiff, Standing, IInv, TypeOK, InMemory
<1>2. SoundToken(tok) /\ tok.t = "diff" /\ tok.b = base
  BY <1>1, TokensSound DEF Tokens
<1>3. Took(pos, tok)
  BY <1>1, <1>2, Writes DEF Standing
<1>4. (Smooth(body', pos + 1) <=> Smooth(body, pos) /\ Quiet(r, tok)) /\ Reader(r)
  BY <1>3 DEF Took
<1>5. Smooth(body, pos) => ~r.fail /\ ~r.asks /\ r.mark /\ base \in {NoWorld, r.base}
  BY <1>1 DEF Standing, Journal, Pending, Follows
<1>6. Smooth(body, pos) \/ dying
  BY <1>1 DEF Standing, Heard, Doomed
<1> HIDE DEF r, tok
<1>7. Smooth(body, pos) => Quiet(r, tok)
  <2>1. SUFFICES ASSUME Smooth(body, pos) PROVE Quiet(r, tok)
    OBVIOUS
  <2>2. tok.b \in {NoWorld, r.base}
    BY <1>2, <1>5, <2>1
  <2>3. ReplayStep(r, tok).fail = FALSE
    BY <1>2, <1>4, <1>5, <2>1, <2>2, StepDiff
  <2> QED
    BY <1>5, <2>1, <2>3, QuietOf
<1> QED
  BY <1>1, <1>2, <1>4, <1>6, <1>7, WriteHeard

LEMMA CommitHeaderHeard == ASSUME Standing, CommitHeader PROVE Heard'
<1>1. /\ pc = "header" /\ pc' = (IF dying THEN "finish" ELSE "ready")
      /\ hdr'.end = pos /\ hdr'.st = "inpr" /\ lastCmd' = pos /\ body' = body
  BY DEF CommitHeader
<1>2. Same(pos)
  BY <1>1, Unchanged, Numbers DEF Standing, IInv
<1>3. Smooth(body, pos) \/ dying
  BY <1>1 DEF Standing, Heard, Doomed
<1>4. dying => used'.dead > 0
  BY DEF CommitHeader, Standing, IInv, TypeOK
<1>5. Smooth(body', pos) \/ Over'
  BY <1>1, <1>2, <1>3, <1>4 DEF Same, Over
<1>6. ~dying => Smooth(body', pos)
  BY <1>2, <1>3 DEF Same
<1> QED
  BY <1>1, <1>5, <1>6 DEF Heard

(* done(): the log is closed, and the score entry lies behind it. *)
LEMMA FinishGameHeard == ASSUME Standing, FinishGame PROVE Heard'
<1>1. pc = "finish" /\ pc' = "entry" /\ hdr'.end = hdr.end /\ hdr'.st = "done" /\ body' = body
      /\ used' = used
  <2>1. hdr \in Header /\ (pc = "finish" => lastCmd = hdr.end)
    BY DEF Standing, IInv, TypeOK, Journal
  <2> QED
    BY <2>1 DEF FinishGame, Header
<1>2. Same(hdr.end)
  BY <1>1, Unchanged, Numbers DEF Standing, IInv
<1> QED
  BY <1>1, <1>2 DEF Same, Standing, Heard, Over

(* What is written behind the journal on the way out is not read. *)
LEMMA LastHeard ==
  ASSUME Standing, NEW tok, SoundToken(tok), pc \in {"entry", "saving"}, pc' = "off", pos < MaxLog,
         body' = [body EXCEPT ![pos+1] = tok], hdr' = hdr, used'.dead = used.dead
  PROVE  Heard'
<1>0. TypeOK /\ Sound /\ pos = hdr.end
  BY DEF Standing, Journal, IInv
<1>1. pos \in 0..MaxLog-1
  BY <1>0, Numbers
<1>2. \A k \in 0..pos : Same(k)
  BY <1>0, <1>1, Overwrote
<1>3. Same(hdr.end)
  BY <1>0, <1>1, <1>2
<1> QED
  BY <1>3 DEF Same, Standing, Heard, Over

LEMMA RevertHeard == ASSUME Standing, RevertCommand PROVE Heard'
<1>1. /\ pc = "play" /\ pc' = "ready" /\ Truncate(lastCmd) /\ hdr' = hdr /\ lastCmd' = lastCmd
      /\ hdr.end <= lastCmd
  BY DEF RevertCommand, Standing, IInv, Bookkeeping
<1>2. Sound' /\ \A k \in 0..lastCmd : Same(k)
  BY <1>1, Cut, Numbers DEF Standing, IInv, Journal
<1>3. lastCmd \in 0..lastCmd /\ hdr.end \in 0..lastCmd
  BY <1>1, Numbers DEF Standing, IInv
<1>4. Same(lastCmd) /\ Same(hdr.end)
  BY <1>2, <1>3
<1>5. hdr.end > 0 => Smooth(body, hdr.end)
  BY <1>1, VouchedSmooth DEF Standing
<1> QED
  BY <1>1, <1>4, <1>5 DEF Same, Standing, Heard

(* Playing, as long as the reader would ask and die as the player does. *)
LEMMA PlayHeard ==
  ASSUME Standing, Play, \A c \in Commands : pc = "ready" => Alike(c)
  PROVE  Heard'
<1>1. ASSUME NEW c \in Commands, StartCommand(c) PROVE Heard'
  BY <1>1, StartCommandHeard DEF StartCommand
<1>2. ASSUME LogEntry PROVE Heard'
  <2>1. SoundToken(Tok("top"))
    BY TokensSound DEF Tokens
  <2> QED
    BY <1>2, <2>1, LastHeard DEF LogEntry
<1> QED
  BY <1>1, <1>2, FirstHeard, SetOptionHeard, LogInputHeard, RevertHeard, FirstResultHeard,
     FinishCommandHeard, LogMarkHeard, LogDiffHeard, CommitHeaderHeard, FinishGameHeard DEF Play

LEMMA LeaveHeard == ASSUME Standing, Leave PROVE Heard'
<1>1. CASE BeginSave
  <2>1. /\ pc \in {"ready", "play"} /\ pc' = "saving"
        /\ hdr'.end = lastCmd /\ body' = body
    BY <1>1 DEF BeginSave, Standing, IInv, TypeOK, Header
  <2>2. Same(lastCmd)
    BY <2>1, Unchanged, Numbers DEF Standing, IInv
  <2> QED
    BY <2>1, <2>2 DEF Same, Standing, Heard
<1>2. CASE StoreSave
  <2>1. SoundToken(BinTok(world))
    BY <1>2, TokensSound DEF Tokens, StoreSave, Standing, IInv, TypeOK, InMemory
  <2> QED
    BY <1>2, <2>1, LastHeard DEF StoreSave
<1>3. ASSUME Die PROVE pc' = "off" /\ used'.dead = used.dead
  BY <1>3 DEF Die, Standing, IInv, TypeOK
<1>4. CASE Crash
  <2>1. pc' = "off" /\ hdr' = hdr /\ body' = body /\ used'.dead = used.dead
    BY <1>3, <1>4 DEF Crash, file
  <2>2. Same(hdr.end)
    BY <2>1, Unchanged, Numbers DEF Standing, IInv
  <2> QED
    BY <2>1, <2>2 DEF Same, Standing, Heard, Over
<1>5. CASE CrashInStore
  <2>1. SoundToken(Tok("torn"))
    BY TokensSound DEF Tokens
  <2> QED
    BY <1>3, <1>5, <2>1, LastHeard DEF CrashInStore
<1> QED
  BY <1>1, <1>2, <1>4, <1>5 DEF Leave

(* A replay that gives up stands at the death of a hero who is dead. *)
LEMMA RoughIsOver ==
  ASSUME Standing, pc = "read", force, Outcome(body, hdr.end) \notin Worlds, NEW n \in FailsAt
  PROVE  n \in 1..hdr.end /\ ~Smooth(body, n) /\ ~Smooth(body, hdr.end) /\ Over
<1>1. TypeOK /\ Sound /\ hdr.end \in Nat /\ hdr.end > 0 /\ Clean(body, hdr.end)
  BY Numbers DEF Standing, IInv, Journal
<1>2. n \in 1..hdr.end /\ ~Smooth(body, n)
  BY <1>1, FailsRough
<1>3. n \in 0..hdr.end
  BY <1>1, <1>2
<1>4. ~Smooth(body, hdr.end)
  BY <1>1, <1>2, <1>3, SmoothBefore
<1> QED
  BY <1>1, <1>2, <1>4 DEF Standing, Heard

(* A replay that hands back a world went smoothly. *)
LEMMA OutcomeSmooth ==
  ASSUME Standing, Outcome(body, hdr.end) \in Worlds
  PROVE  Smooth(body, hdr.end)
<1>1. ~Replay(body, hdr.end).fail
  BY SentinelAssumption DEF Outcome
<1>2. hdr.end \in Nat /\ \A i \in 1..hdr.end : SoundToken(body[i])
  BY Numbers DEF Standing, IInv, Journal, Sound
<1> QED
  BY <1>1, <1>2, RoughFails

(* After Unwind the log reads no more smoothly than it did. *)
LEMMA UnwindRough ==
  ASSUME IInv, Journal, Unwind, force
  PROVE  ~Smooth(body, hdr.end) /\ ~Smooth(body', hdr.end)
<1>1. pc = "unwind" /\ ReplayEnd /\ hdr' = hdr
  BY DEF Unwind
<1>2. (\A k \in 0..pos : Same(k)) /\ pos \in Nat /\ hdr.end \in Nat
  BY <1>1, EndWrites, Numbers DEF IInv
<1>3. PICK n \in 1..hdr.end : n <= pos /\ ~Smooth(body, n)
  BY <1>1 DEF Journal
<1>4. n \in 0..hdr.end /\ n \in 0..pos
  BY <1>2, <1>3
<1> DEFINE c == body'
<1>5. ~Smooth(c, n)
  BY <1>2, <1>3, <1>4 DEF Same
<1> HIDE DEF c
<1>6. ~Smooth(body, hdr.end) /\ ~Smooth(c, hdr.end)
  BY <1>2, <1>3, <1>4, <1>5, SmoothBefore
<1> QED
  BY <1>6 DEF c

LEMMA ResumeHeard == ASSUME Standing, ~ReadAhead, Resume PROVE Heard'
<1>0. TypeOK /\ Sound /\ hdr.end \in Nat
  BY Numbers DEF Standing, IInv, Journal
<1>1. CASE OpenLog
  <2>1. /\ pc' \in {"refused", "read"} /\ (pc' = "refused" => hdr.end = 0)
        /\ hdr' = hdr /\ body' = body /\ used' = used
    BY <1>1 DEF OpenLog, file
  <2>2. Same(hdr.end)
    BY <1>0, <2>1, Unchanged, Numbers
  <2>3. Over /\ pc' = "read" => Over'
    BY <1>1 DEF OpenLog, Over, Crashed, file
  <2> QED
    BY <2>1, <2>2, <2>3 DEF Same, Standing, Heard
<1>2. CASE LoadSave
  <2>1. pc = "read" /\ ~force /\ pc' = "ending" /\ Truncate(hdr.end) /\ hdr' = hdr
    BY <1>2 DEF LoadSave
  <2>2. Same(hdr.end)
    BY <1>0, <2>1, Cut, Numbers
  <2>3. hdr.end > 0 => Smooth(body, hdr.end)
    BY <2>1, VouchedSmooth DEF Standing
  <2> QED
    BY <2>1, <2>2, <2>3 DEF Same, Heard
<1>3. CASE LoadFails \/ ReplayLog
  <2>1. /\ pc = "read" /\ ((pc' = "unwind" /\ ~force /\ ~force') \/ (pc' = "ending" /\ force))
        /\ body' = body /\ hdr' = hdr
    BY <1>3 DEF LoadFails, ReplayLog, file
  <2>2. Same(hdr.end)
    BY <1>0, <2>1, Unchanged, Numbers
  <2>3. hdr.end > 0 => Smooth(body, hdr.end)
    <3>1. CASE ~force
      BY <2>1, <3>1, VouchedSmooth DEF Standing
    <3>2. CASE force
      <4>1. Outcome(body, hdr.end) \in Worlds
        BY <1>3, <3>2 DEF LoadFails, ReplayLog
      <4> QED
        BY <4>1, OutcomeSmooth
    <3> QED
      BY <3>1, <3>2
  <2> QED
    BY <2>1, <2>2, <2>3 DEF Same, Heard
<1>4. CASE ReplayFails
  <2>1. /\ pc = "read" /\ force /\ Outcome(body, hdr.end) \notin Worlds /\ \E n : n \in FailsAt
        /\ pc' = "unwind" /\ force' = force /\ hdr' = hdr /\ used' = used
    BY <1>4 DEF ReplayFails, file
  <2>2. Over
    BY <2>1, RoughIsOver
  <2>3. Over'
    BY <2>1, <2>2 DEF Over
  <2> QED
    BY <2>1, <2>3 DEF Heard
<1>5. CASE ReplayDies
  <2>1. /\ pc = "read" /\ force /\ Died(Replay(body, hdr.end)) /\ \E n : n \in FailsAt
        /\ pc' = "unwind" /\ force' = force /\ hdr' = hdr /\ used' = used
    BY <1>5 DEF ReplayDies
  <2>2. Outcome(body, hdr.end) \notin Worlds
    BY <2>1, SentinelAssumption DEF Outcome, Died
  <2>3. Over
    BY <2>1, <2>2, RoughIsOver
  <2>4. Over'
    BY <2>1, <2>3 DEF Over
  <2> QED
    BY <2>1, <2>4 DEF Heard
<1>6. CASE EndReplay
  <2>1. pc = "ending" /\ pc' = "truncate" /\ ReplayEnd /\ hdr' = hdr
    BY <1>6 DEF EndReplay
  <2>2. hdr.end > 0 /\ lastCmd = hdr.end /\ pos = hdr.end /\ Clean(body, pos) /\ Smooth(body, pos)
    BY <2>1, VouchedSmooth DEF Standing, Journal
  <2>3. pos \in Nat /\ pos \in 0..pos
    BY <1>0, <2>2
  <2>4. Same(pos)
    BY <2>1, <2>3, EndWrites DEF Standing
  <2>5. Smooth(body', pos)
    BY <2>2, <2>4 DEF Same
  <2>6. Smooth(body', lastCmd')
    <3>1. CASE lastCmd' = lastCmd
      BY <2>2, <2>5, <3>1
    <3>2. CASE lastCmd' # lastCmd
      <4>1. PICK tok : lastCmd' = pos + 1 /\ tok.t \in {"opt", "tz"} /\ Took(pos, tok)
        BY <2>1, <3>2, EndWrites DEF Standing
      <4> DEFINE r == Replay(body, pos)
      <4>2. Calm(r) /\ Reader(r)
        BY <2>2, <4>1 DEF Clean, Took
      <4>3. Quiet(r, tok)
        <5> HIDE DEF r
        <5>1. ReplayStep(r, tok) = r /\ ~r.fail /\ ~r.asks
          BY <4>1, <4>2, StepSkips DEF Calm
        <5>2. ReplayStep(r, tok).fail = FALSE
          BY <4>2, <5>1 DEF Reader
        <5> QED
          BY <5>1, <5>2, QuietOf
      <4> QED
        BY <2>2, <4>1, <4>3 DEF Took
    <3> QED
      BY <3>1, <3>2
  <2> QED
    BY <2>1, <2>2, <2>5, <2>6 DEF Heard
<1>7. CASE TruncateLog
  <2>1. /\ pc = "truncate" /\ pc' = "ready" /\ Truncate(lastCmd) /\ lastCmd' = lastCmd
        /\ hdr' = hdr /\ hdr.end <= lastCmd
    BY <1>7 DEF TruncateLog, Standing, IInv, Bookkeeping
  <2>2. lastCmd \in 0..lastCmd /\ hdr.end \in 0..lastCmd
    BY <1>0, <2>1, Numbers
  <2>3. Same(lastCmd) /\ Same(hdr.end)
    BY <1>0, <2>1, <2>2, Cut, Numbers
  <2>4. hdr.end > 0 => Smooth(body, hdr.end)
    BY <2>1, VouchedSmooth DEF Standing
  <2> QED
    BY <2>1, <2>3, <2>4 DEF Same, Standing, Heard
<1>8. CASE Unwind
  <2>1. /\ pc = "unwind" /\ ReplayEnd /\ hdr' = hdr
        /\ pc' = (IF force THEN "refused" ELSE "retry")
        /\ used'.dead = used.dead
    BY <1>0, <1>8 DEF Unwind, TypeOK
  <2>2. CASE ~force
    <3>1. pos = hdr.end
      BY <2>1, <2>2 DEF Standing, Journal
    <3>2. Same(hdr.end)
      BY <1>0, <2>1, <3>1, EndWrites DEF Standing
    <3>3. hdr.end > 0 => Smooth(body, hdr.end)
      BY <2>1, <2>2 DEF Standing, Heard, Over
    <3> QED
      BY <2>1, <2>2, <3>2, <3>3 DEF Same, Heard
  <2>3. CASE force
    <3>1. Over
      BY <2>1, <2>3 DEF Standing, Heard
    <3>2. Over' /\ used'.dead > 0
      BY <2>1, <2>3, <3>1 DEF Over
    <3> QED
      BY <2>1, <2>3, <3>2 DEF Heard
  <2> QED
    BY <2>2, <2>3
<1> QED
  BY <1>1, <1>2, <1>3, <1>4, <1>5, <1>6, <1>7, <1>8 DEF Resume

LEMMA StutterHeard == ASSUME Standing, UNCHANGED vars PROVE Heard'
<1>1. \A n \in 0..MaxLog : Same(n)
  BY Unchanged DEF Standing, IInv, vars, file
<1>2. Same(hdr.end) /\ Same(lastCmd) /\ Same(pos)
  BY <1>1, Numbers DEF Standing, IInv
<1>3. UNCHANGED <<hdr, body, size, pc, pos, lastCmd, base, world, force, cur, asked, dying, used>>
  BY DEF vars, file, proc
<1> QED
  BY <1>2, <1>3 DEF Standing, Heard, Same, Over, Doomed

LEMMA InitHeard == Init => Heard
<1> SUFFICES ASSUME Init PROVE Heard
  OBVIOUS
<1>1. hdr.end = 0 /\ pc = "off"
  BY DEF Init
<1> QED
  BY <1>1 DEF Heard

LEMMA FixedAlike ==
  ASSUME AskingFixed, DyingFixed, Standing, pc = "ready", NEW c \in Commands
  PROVE  Alike(c)
<1>1. Reader(Replay(body, pos)) /\ lastCmd = pos /\ world \in Worlds
  BY CalmAt DEF Standing, IInv, TypeOK, InMemory
<1>2. Replay(body, lastCmd).played \in Worlds
  BY <1>1 DEF Reader
<1> QED
  BY <1>1, <1>2 DEF Alike, AskingFixed, DyingFixed

LEMMA NextHeard ==
  ASSUME AskingFixed, DyingFixed, ~ReadAhead, Standing, [Next]_vars
  PROVE  Standing'
<1>1. IInv' /\ Journal'
  BY NextStep, NextJournal DEF Standing
<1>2. CASE Play
  BY <1>1, <1>2, FixedAlike, PlayHeard DEF Standing
<1>3. CASE Leave
  BY <1>1, <1>3, LeaveHeard DEF Standing
<1>4. CASE Resume
  BY <1>1, <1>4, ResumeHeard DEF Standing
<1>5. CASE UNCHANGED vars
  BY <1>1, <1>5, StutterHeard DEF Standing
<1> QED
  BY <1>2, <1>3, <1>4, <1>5 DEF Next

(* If no command asks, or kills, in one world and not in another, every question
   is answered and the reader dies only with the hero, wherever the player left
   or the process died. *)
THEOREM HeardAlways ==
  ASSUME AskingFixed, DyingFixed, ~ReadAhead
  PROVE  Spec => []Standing
<1>1. Init => Standing
  BY InitInv, InitJournal, InitHeard DEF Standing
<1>2. Standing /\ [Next]_vars => Standing'
  BY NextHeard
<1> QED
  BY <1>1, <1>2, PTL DEF Spec

-----------------------------------------------------------------------------
(* 5. The promise.                                                         *)

(* The reader at the end of what the header vouches for. *)
Vouched == Replay(body, hdr.end)

(* Until a second diff is read, and always when no command takes more than one
   turn, the reader has played along to w. *)
Along(r, w) == r.diffs = 1 \/ Long = {} => r.valid /\ r.played = w

(* A complete save waits in the file. *)
Imaged == hdr.st = "save" /\ HasImage

(* How the reader stands to the game in memory, as long as it reads smoothly. *)
InStep ==
  LET e == Vouched
      r == Replay(body, pos)
  IN
  /\ pc \in {"ready", "play", "truncate"} => Replay(body, lastCmd) = e
  /\ pc \in {"ready", "play", "saving", "ending", "truncate"} => Along(e, world)
  /\ pc = "truncate" => lastCmd <= size \/ lastCmd = hdr.end
  /\ pc = "play" /\ Smooth(body, pos) =>
       r.diffs = e.diffs /\ r.base = e.base /\ Along(r, Append(world, cur))
  /\ pc \in {"mark", "data"} => ~Busy(world)
  /\ pc \in {"mark", "data"} /\ Smooth(body, pos) /\ (r.diffs = 0 \/ Long = {}) =>
       r.valid /\ r.played = world
  /\ pc = "header" /\ Smooth(body, pos) =>
       /\ LastIs(body, pos, world) /\ Along(r, world)
       /\ Busy(world) => hdr.end > 0 /\ r.diffs = e.diffs /\ r.base = e.base
  /\ pc \in {"mark", "data", "header"} /\ dying => Fatal(world)

(* What the file, the image in it and the game in memory have to do with each
   other, beyond the journal. *)
Steady ==
  /\ hdr.st = "done" => pc \in {"off", "entry"}
  /\ pc = "entry" => hdr.st = "done"
  /\ pc = "saving" \/ (pc = "read" /\ ~force) => hdr.st = "save"
  /\ Imaged => pc \in {"off", "refused"} \/ (pc = "read" /\ ~force)
  /\ Imaged => Along(Vouched, body[hdr.end+1].w)
  /\ hdr.end > 0 /\ Durable # NoWorld => Along(Vouched, Durable)
  /\ InStep

(* What DurableGame calls saved and durable. *)
LEMMA SavedIs ==
  ASSUME TypeOK
  PROVE  /\ Imaged => Saved = body[hdr.end+1].w /\ Saved \in Worlds /\ Saved # NoWorld
         /\ ~Imaged => Saved = NoWorld
<1>1. ASSUME HasImage PROVE body[hdr.end+1].w \in Worlds
  <2>1. hdr.end + 1 \in Slots /\ body[hdr.end+1].t = "bin"
    BY <1>1, Numbers DEF HasImage
  <2> QED
    BY <2>1 DEF TypeOK
<1>2. NoWorld \notin Worlds
  BY SentinelAssumption
<1> QED
  BY <1>1, <1>2 DEF Imaged, Saved

LEMMA OutcomeSame ==
  ASSUME NEW b, NEW c, NEW m, NEW n, Replay(b, m) = Replay(c, n)
  PROVE  Outcome(b, m) = Outcome(c, n)
BY DEF Outcome

LEMMA DurableIs ==
  ASSUME Standing, NEW n \in 1..MaxLog, Clean(body, n), Smooth(body, n)
  PROVE  LET r == Replay(body, n) IN
         /\ Outcome(body, n) = IF r.diffs >= 2 THEN r.base ELSE r.played
         /\ Outcome(body, n) \in Worlds
<1>1. Calm(Replay(body, n)) /\ Replay(body, n).diffs >= 1
  BY DEF Clean
<1>2. Reader(Replay(body, n))
  <2>1. n \in Nat
    BY Numbers DEF Standing, IInv
  <2>2. \A i \in 1..n : SoundToken(body[i])
    BY Numbers DEF Standing, IInv, Journal, Sound
  <2> QED
    BY <2>1, <2>2, ReplayType
<1> DEFINE r == Replay(body, n)
<1> HIDE DEF r
<1>3. Outcome(body, n) = IF r.diffs >= 2 THEN r.base ELSE r.played
  BY <1>1 DEF Outcome, Calm, r
<1>4. r.base \in Worlds /\ r.played \in Worlds
  BY <1>1, <1>2 DEF Reader, r
<1> QED
  BY <1>3, <1>4 DEF r

(* A log that can be restored is no game that is over, *)
LEMMA NotEnded ==
  ASSUME Standing, hdr.st # "done", hdr.end > 0 => Smooth(body, hdr.end)
  PROVE  /\ ~Ended
         /\ hdr.end > 0 => Durable \in Worlds /\ Durable # NoWorld
<1>1. hdr.end > 0 => Durable \in Worlds
  <2>1. SUFFICES ASSUME hdr.end > 0 PROVE Durable \in Worlds
    OBVIOUS
  <2>2. hdr.end \in 1..MaxLog /\ hdr.end # 0 /\ Clean(body, hdr.end)
    BY <2>1, Numbers DEF Standing, IInv, Journal
  <2>3. Outcome(body, hdr.end) \in Worlds
    BY <2>1, <2>2, DurableIs
  <2> QED
    BY <2>2, <2>3 DEF Durable
<1> QED
  BY <1>1, SentinelAssumption DEF Ended

(* and one that cannot hands back no world. *)
LEMMA DeadLog ==
  ASSUME NEW b, NEW n \in Nat, \A i \in 1..n : SoundToken(b[i]), ~Smooth(b, n)
  PROVE  Outcome(b, n) = NoWorld
BY RoughFails DEF Outcome

(* The file keeps its promise in a step. *)
Promised == [Promise!Next]_(Promise!vars)

(* A stutter of DurableGame, and a move of the player's. *)
LEMMA Stays ==
  ASSUME Durable' = Durable, Live' = Live, Saved' = Saved, Ended' = Ended
  PROVE  Promised
BY DEF Promised, Promise!vars

LEMMA LivesOn ==
  ASSUME Live # NoWorld, Live' \in Worlds, Durable' = Durable, Saved' = Saved,
         ~Ended, Ended' = Ended
  PROVE  Promised
BY DEF Promised, Promise!Next, Promise!Play

(* What is in the journal is the same to the reader. *)
LEMMA JournalSame ==
  ASSUME hdr' = hdr, Same(hdr.end)
  PROVE  Vouched' = Vouched /\ Durable' = Durable /\ Ended' = Ended
<1>1. Replay(body', hdr.end) = Replay(body, hdr.end)
  BY DEF Same
<1>2. Outcome(body', hdr.end) = Outcome(body, hdr.end)
  BY <1>1 DEF Outcome
<1>3. Vouched' = Vouched /\ Durable' = Durable
  BY <1>1, <1>2 DEF Vouched, Durable
<1> QED
  BY <1>3 DEF Ended

Playing == {"setup", "ready", "play", "mark", "data", "header", "truncate"}

(* A step of a running game that leaves the header alone. *)
LEMMA PlayingStep ==
  ASSUME Standing, Steady, pc \in Playing \cup {"ending"}, pc' \in Playing,
         hdr' = hdr, Same(hdr.end), ~Imaged', InStep', world' \in Worlds
  PROVE  Steady' /\ Promised
<1>1. Vouched' = Vouched /\ Durable' = Durable /\ Ended' = Ended
  BY JournalSame
<1>2. hdr.st # "done" /\ ~Imaged
  BY DEF Steady, Playing
<1>3. Steady'
  <2>1. pc' \notin {"off", "entry", "saving", "read"}
    BY DEF Playing
  <2>2. (hdr.end > 0 /\ Durable # NoWorld => Along(Vouched, Durable))'
    BY <1>1 DEF Steady
  <2> QED
    BY <1>2, <2>1, <2>2 DEF Steady
<1>4. Saved = NoWorld /\ Saved' = NoWorld
  BY <1>2 DEF Saved, Imaged
<1>5. Live = world /\ Live' = world' /\ world \in Worlds
  BY DEF Live, Playing, Standing, IInv, TypeOK, InMemory
<1>6. Live # NoWorld
  BY <1>5, SentinelAssumption
<1>7. ~Ended
  <2>1. hdr.end > 0 => Smooth(body, hdr.end)
    BY VouchedSmooth DEF Playing, Standing
  <2> QED
    BY <1>2, <2>1, NotEnded
<1>8. Promised
  BY <1>1, <1>4, <1>5, <1>6, <1>7, LivesOn
<1> QED
  BY <1>3, <1>8

(* One more token at the end of a log that a game is written to. *)
LEMMA TokenStep ==
  ASSUME Standing, Steady, NEW tok, SoundToken(tok), tok.t # "bin", Write(tok), hdr' = hdr,
         pc \in {"setup", "ready", "play", "mark", "data"}
  PROVE  /\ Same(hdr.end) /\ Same(pos) /\ Vouched' = Vouched /\ ~Imaged'
         /\ Same(lastCmd) /\ pos' = pos + 1 /\ Took(pos, tok)
<1>1. /\ pos \in Nat /\ pos' = pos + 1 /\ \A k \in 0..pos : Same(k)
      /\ Took(pos, tok)
  BY Writes DEF Standing
<1>2. hdr.end \in 0..pos /\ lastCmd \in 0..pos /\ size = pos /\ TypeOK
  BY Numbers DEF Standing, IInv, Bookkeeping
<1>3. Same(hdr.end) /\ Same(lastCmd) /\ Same(pos)
  BY <1>1, <1>2
<1>4. ~Imaged'
  <2>1. SUFFICES ASSUME hdr.st = "save", body'[hdr.end+1].t = "bin" PROVE FALSE
    BY DEF Imaged, HasImage
  <2>2. ~Imaged
    BY DEF Steady
  <2>3. hdr.end + 1 \in Slots /\ pos + 1 \in Slots /\ body' = [body EXCEPT ![pos+1] = tok]
        /\ DOMAIN body = Slots
    BY <1>1, <1>2, Numbers DEF Write, TypeOK
  <2>4. CASE hdr.end = pos
    BY <2>1, <2>3, <2>4
  <2>5. CASE hdr.end < pos
    BY <1>2, <2>1, <2>2, <2>3, <2>5 DEF Imaged, HasImage
  <2> QED
    BY <1>1, <1>2, <2>4, <2>5
<1> QED
  BY <1>1, <1>3, <1>4, JournalSame

(* A file that is cut holds no save it did not hold. *)
LEMMA CutImage ==
  ASSUME Standing, ~Imaged, hdr' = hdr, Truncate(lastCmd), lastCmd <= size \/ lastCmd = hdr.end
  PROVE  ~Imaged'
<1>1. SUFFICES ASSUME hdr.st = "save", hdr.end < lastCmd, body'[hdr.end+1].t = "bin" PROVE FALSE
  BY DEF Imaged, HasImage, Truncate
<1>2. hdr.end \in Nat /\ hdr.end + 1 \in Slots /\ hdr.end + 1 <= lastCmd
  BY <1>1, Numbers DEF Standing, IInv
<1>3. body'[hdr.end+1] = body[hdr.end+1]
  BY <1>2 DEF Truncate
<1>4. hdr.end < size
  BY <1>1, Numbers DEF Standing, IInv
<1> QED
  BY <1>1, <1>3, <1>4 DEF Imaged, HasImage

-----------------------------------------------------------------------------
(* Each step keeps Steady, and is a step of DurableGame or a stutter.      *)

LEMMA NewGameSteady == ASSUME Standing, Steady, NewGame PROVE Steady' /\ Promised
<1>1. /\ pc = "off" /\ hdr.st = "none" /\ hdr.end = 0
      /\ hdr'.st = "inpr" /\ hdr'.end = 0 /\ pc' = "setup" /\ world' = NewWorld
  BY DEF NewGame, Standing, IInv, Bookkeeping
<1>2. ~Imaged' /\ Saved' = NoWorld /\ Saved = NoWorld
  BY <1>1 DEF Imaged, Saved
<1>3. Steady'
  BY <1>1, <1>2 DEF Steady, InStep
<1>4. /\ Durable = NoWorld /\ Durable' = NoWorld /\ Live = NoWorld /\ Live' = NewWorld
      /\ Ended = FALSE /\ Ended' = FALSE
  BY <1>1 DEF Durable, Live, Ended
<1>5. NewWorld \in Worlds
  <2>1. << >> \in Seq(Commands)
    OBVIOUS
  <2> QED
    BY <2>1 DEF NewWorld, Worlds
<1>6. Promised
  BY <1>1, <1>2, <1>4, <1>5 DEF Promised, Promise!Next, Promise!Begin
<1> QED
  BY <1>3, <1>6

LEMMA SetOptionSteady == ASSUME Standing, Steady, SetOption PROVE Steady' /\ Promised
<1> DEFINE tok == Tok("opt")
<1>1. /\ pc = "ready" /\ pc' = "ready" /\ Write(tok) /\ hdr' = hdr /\ lastCmd' = pos + 1
      /\ world' = world /\ SoundToken(tok) /\ tok.t = "opt" /\ world \in Worlds
  BY TokensSound DEF SetOption, Tokens, Standing, IInv, TypeOK, InMemory
<1> HIDE DEF tok
<1>2. /\ Same(hdr.end) /\ Vouched' = Vouched /\ ~Imaged' /\ Took(pos, tok)
  BY <1>1, TokenStep
<1>3. Calm(Replay(body, pos)) /\ Reader(Replay(body, pos)) /\ lastCmd = pos
  BY <1>1, CalmAt
<1>4. Replay(body', pos + 1) = Replay(body, pos)
  <2>1. Replay(body', pos + 1) = ReplayStep(Replay(body, pos), tok)
    BY <1>2 DEF Took
  <2> QED
    BY <1>1, <1>3, <2>1, StepSkips
<1>5. Replay(body, lastCmd) = Vouched /\ Along(Vouched, world)
  BY <1>1 DEF Steady, InStep
<1>6. Replay(body, lastCmd)' = Vouched' /\ Along(Vouched', world')
  BY <1>1, <1>2, <1>3, <1>4, <1>5
<1>7. InStep'
  BY <1>1, <1>6 DEF InStep
<1> QED
  BY <1>1, <1>2, <1>7, PlayingStep DEF Playing

LEMMA StartCommandSteady ==
  ASSUME Standing, Steady, NEW c \in Commands, StartCommand(c)
  PROVE  Steady' /\ Promised
<1> DEFINE tok == CmdTok(c)
<1>1. /\ pc = "ready" /\ pc' = "play" /\ Write(tok) /\ hdr' = hdr /\ lastCmd' = lastCmd
      /\ world' = world /\ SoundToken(tok) /\ tok.t = "cmd" /\ tok.c = c /\ world \in Worlds
      /\ cur' = c
  BY TokensSound DEF StartCommand, Tokens, Standing, IInv, TypeOK, InMemory
<1> HIDE DEF tok
<1>2. /\ Same(hdr.end) /\ Vouched' = Vouched /\ ~Imaged' /\ Took(pos, tok) /\ pos' = pos + 1
      /\ Same(lastCmd)
  BY <1>1, TokenStep
<1>3. Calm(Replay(body, pos)) /\ Reader(Replay(body, pos)) /\ lastCmd = pos
  BY <1>1, CalmAt
<1>5. Replay(body, lastCmd) = Vouched /\ Along(Vouched, world)
  BY <1>1 DEF Steady, InStep
<1> DEFINE r == Replay(body, pos)
           s == ReplayStep(r, tok)
<1>6. Replay(body', pos') = s
  BY <1>2 DEF Took
<1>7. r = Vouched
  BY <1>3, <1>5
<1> HIDE DEF r
<1>8. Smooth(body', pos') => /\ s.base = r.base /\ s.diffs = r.diffs /\ s.valid = r.valid
                             /\ r.valid => s.played = Append(r.played, c)
  <2>1. SUFFICES ASSUME Smooth(body', pos + 1)
                 PROVE  /\ s.base = r.base /\ s.diffs = r.diffs /\ s.valid = r.valid
                        /\ r.valid => s.played = Append(r.played, c)
    BY <1>2
  <2>2. ~Died(s)
    BY <1>2, <2>1 DEF Took, Quiet, r
  <2> QED
    BY <1>1, <1>3, <2>2, StepCommand DEF r
<1> HIDE DEF s
<1>9. Smooth(body', pos') =>
        s.diffs = Vouched.diffs /\ s.base = Vouched.base /\ Along(s, Append(world, c))
  BY <1>5, <1>7, <1>8 DEF Along
<1>10. Replay(body', lastCmd) = Vouched'
  BY <1>2, <1>5 DEF Same
<1>11. Along(Vouched', world')
  BY <1>1, <1>2, <1>5
<1>12. InStep'
  BY <1>1, <1>2, <1>6, <1>9, <1>10, <1>11 DEF InStep
<1> QED
  BY <1>1, <1>2, <1>12, PlayingStep DEF Playing

LEMMA LogInputSteady == ASSUME Standing, Steady, LogInput PROVE Steady' /\ Promised
<1> DEFINE tok == Tok("in")
<1>1. /\ pc = "play" /\ pc' = "play" /\ Write(tok) /\ hdr' = hdr /\ lastCmd' = lastCmd
      /\ world' = world /\ SoundToken(tok) /\ tok.t = "in" /\ world \in Worlds
      /\ cur' = cur
  BY TokensSound DEF LogInput, Tokens, Standing, IInv, TypeOK, InMemory
<1> HIDE DEF tok
<1>2. /\ Same(hdr.end) /\ Vouched' = Vouched /\ ~Imaged' /\ Took(pos, tok) /\ pos' = pos + 1
      /\ Same(lastCmd)
  BY <1>1, TokenStep
<1> DEFINE r == Replay(body, pos)
           s == ReplayStep(r, tok)
<1>3. /\ Reader(r) /\ (Smooth(body, pos) => ~r.fail /\ ~r.mark)
      /\ Smooth(body', pos') => Smooth(body, pos) /\ ~Died(s)
  BY <1>1, <1>2 DEF Standing, Journal, Took, Midway, Quiet
<1>5. /\ Replay(body, lastCmd) = Vouched /\ Along(Vouched, world)
      /\ Smooth(body, pos) =>
           r.diffs = Vouched.diffs /\ r.base = Vouched.base /\ Along(r, Append(world, cur))
  BY <1>1 DEF Steady, InStep
<1>6. Replay(body', pos') = s
  BY <1>2 DEF Took
<1> HIDE DEF r
<1>8. Smooth(body', pos') => /\ s.base = r.base /\ s.diffs = r.diffs
                             /\ s.valid = r.valid /\ s.played = r.played
  BY <1>1, <1>3, StepInput
<1> HIDE DEF s
<1>9. Smooth(body', pos') =>
        s.diffs = Vouched.diffs /\ s.base = Vouched.base /\ Along(s, Append(world, cur))
  BY <1>3, <1>5, <1>8 DEF Along
<1>10. Replay(body', lastCmd) = Vouched'
  BY <1>2, <1>5 DEF Same
<1>11. Along(Vouched', world')
  BY <1>1, <1>2, <1>5
<1>12. InStep'
  BY <1>1, <1>2, <1>6, <1>9, <1>10, <1>11 DEF InStep
<1> QED
  BY <1>1, <1>2, <1>12, PlayingStep DEF Playing

(* The log is cut back to last_cmd_pos, and the game goes on. *)
LEMMA CutSteady ==
  ASSUME Standing, Steady, RevertCommand \/ TruncateLog
  PROVE  Steady' /\ Promised
<1>1. /\ pc \in {"play", "truncate"} /\ pc' = "ready" /\ Truncate(lastCmd) /\ hdr' = hdr
      /\ lastCmd' = lastCmd /\ world' = world /\ world \in Worlds /\ hdr.end <= lastCmd
  BY DEF RevertCommand, TruncateLog, Standing, IInv, TypeOK, Bookkeeping, InMemory
<1>2. lastCmd \in 0..lastCmd /\ hdr.end \in 0..lastCmd /\ TypeOK /\ Sound
  BY <1>1, Numbers DEF Standing, IInv, Journal
<1>3. Same(lastCmd) /\ Same(hdr.end)
  BY <1>1, <1>2, Cut, Numbers
<1>4. ~Imaged'
  <2>1. lastCmd <= size \/ lastCmd = hdr.end
    BY <1>1 DEF Steady, InStep, Standing, IInv, Bookkeeping
  <2> QED
    BY <1>1, <2>1, CutImage DEF Steady
<1>5. Replay(body, lastCmd) = Vouched /\ Along(Vouched, world)
  BY <1>1 DEF Steady, InStep
<1>6. Vouched' = Vouched
  BY <1>1, <1>3, JournalSame
<1>7. Replay(body', lastCmd) = Vouched' /\ Along(Vouched', world')
  BY <1>1, <1>3, <1>5, <1>6 DEF Same
<1>8. InStep'
  BY <1>1, <1>7 DEF InStep
<1> QED
  BY <1>1, <1>3, <1>4, <1>8, PlayingStep DEF Playing

(* The first half of a result. *)
LEMMA ResultSteady ==
  ASSUME Standing, Steady, NEW w \in Worlds, NEW dead, dead => Fatal(w),
         LogResult(w, dead), pc \in {"setup", "play"},
         Smooth(body, pos) =>
           LET r == Replay(body, pos) IN
           /\ Calm(r) /\ (r.diffs = 0 \/ r.diffs >= 1) /\ Along(r, w)
           /\ r.diffs = 0 => ~Busy(w) /\ r.valid /\ r.played = w
           /\ Busy(w) => hdr.end > 0 /\ r.diffs = Vouched.diffs /\ r.base = Vouched.base
  PROVE  Steady' /\ Promised
<1> DEFINE tok == ResTok(w)
           r == Replay(body, pos)
           s == ReplayStep(r, tok)
<1>1. /\ Write(tok) /\ hdr' = hdr /\ pc' = (IF Busy(w) THEN "header" ELSE "mark")
      /\ world' = w /\ SoundToken(tok) /\ tok.t = "res" /\ tok.w = w /\ dying' = dead
  BY TokensSound DEF LogResult, Tokens
<1> HIDE DEF tok
<1>2. /\ Same(hdr.end) /\ Vouched' = Vouched /\ ~Imaged' /\ Took(pos, tok) /\ pos' = pos + 1
  BY <1>1, TokenStep
<1>3. /\ Reader(r) /\ Replay(body', pos') = s /\ LastIs(body', pos', w)
      /\ Smooth(body', pos') => Smooth(body, pos)
  BY <1>1, <1>2 DEF Took
<1>4. Smooth(body, pos) =>
        /\ Calm(r) /\ (r.diffs = 0 \/ r.diffs >= 1) /\ Along(r, w)
        /\ (r.diffs = 0 => ~Busy(w) /\ r.valid /\ r.played = w)
        /\ (Busy(w) => hdr.end > 0 /\ r.diffs = Vouched.diffs /\ r.base = Vouched.base)
  OBVIOUS
<1> HIDE DEF r
<1>5. Smooth(body, pos) => /\ s.base = r.base /\ s.diffs = r.diffs /\ s.played = r.played
                           /\ s.valid <=> r.valid /\ tok.w = r.played
  BY <1>1, <1>3, <1>4, StepResult
<1> HIDE DEF s
<1>6. Smooth(body', pos') => /\ Along(s, w)
                             /\ s.diffs = 0 \/ Long = {} => s.valid /\ s.played = w
  BY <1>1, <1>3, <1>4, <1>5 DEF Along
<1>7. CASE Busy(w)
  <2>1. pc' = "header"
    BY <1>1, <1>7
  <2>2. Smooth(body', pos') => hdr.end > 0 /\ s.diffs = Vouched.diffs /\ s.base = Vouched.base
    BY <1>3, <1>4, <1>5, <1>7
  <2>3. InStep'
    BY <1>1, <1>2, <1>3, <1>6, <2>1, <2>2 DEF InStep
  <2> QED
    BY <1>1, <1>2, <2>1, <2>3, PlayingStep DEF Playing
<1>8. CASE ~Busy(w)
  <2>1. pc' = "mark"
    BY <1>1, <1>8
  <2>2. ~Busy(world')
    BY <1>1, <1>8
  <2>3. InStep'
    BY <1>1, <1>2, <1>3, <1>6, <2>1, <2>2 DEF InStep
  <2> QED
    BY <1>1, <1>2, <2>1, <2>3, PlayingStep DEF Playing
<1> QED
  BY <1>7, <1>8

LEMMA FirstResultSteady == ASSUME Standing, Steady, FirstResult PROVE Steady' /\ Promised
<1>1. /\ pc = "setup" /\ pos = 1 /\ body[1].t = "setup" /\ world \in Worlds /\ world = << >>
      /\ LogResult(world, FALSE)
  BY DEF FirstResult, Standing, Journal, IInv, TypeOK, InMemory, NewWorld
<1>2. Replay(body, 0 + 1) = ReplayStep(Replay(body, 0), body[0+1]) /\ Replay(body, 0) = ReplayInit
      /\ 0 + 1 = 1
  BY ReplayGoesOn, ReplayStarts
<1>3. ReplayStep(ReplayInit, body[1]) = ReplayInit
  BY <1>1 DEF ReplayStep, ReplayInit
<1>4. Replay(body, pos) = ReplayInit
  BY <1>1, <1>2, <1>3
<1>5. ~Busy(world)
  BY <1>1 DEF Busy
<1>6. Calm(ReplayInit) /\ ReplayInit.diffs = 0 /\ ReplayInit.valid /\ ReplayInit.played = world
  BY <1>1 DEF ReplayInit, Calm, NewWorld
<1>7. Along(ReplayInit, world)
  BY <1>6 DEF Along
<1> QED
  BY <1>1, <1>4, <1>5, <1>6, <1>7, ResultSteady

LEMMA FinishCommandSteady ==
  ASSUME Standing, Steady, NEW dead \in BOOLEAN, FinishCommand(dead)
  PROVE  Steady' /\ Promised
<1> DEFINE w == Append(world, cur)
           r == Replay(body, pos)
<1>1. /\ pc = "play" /\ world \in Worlds /\ cur \in Commands /\ LogResult(w, dead)
      /\ dead => Fatal(w)
  BY DEF FinishCommand, Standing, IInv, TypeOK, InMemory
<1>2. w \in Worlds
  BY <1>1 DEF Worlds
<1>3. Smooth(body, pos) => ~r.asks
  BY <1>1 DEF FinishCommand, Standing, Heard
<1>4. Smooth(body, pos) => ~r.fail /\ ~r.mark /\ r.diffs >= 1 /\ hdr.end > 0
  BY <1>1 DEF Standing, Journal, Midway
<1>5. Smooth(body, pos) => r.diffs = Vouched.diffs /\ r.base = Vouched.base /\ Along(r, w)
  BY <1>1 DEF Steady, InStep
<1>6. Smooth(body, pos) => Calm(r)
  BY <1>3, <1>4 DEF Calm
<1>7. Smooth(body, pos) => r.diffs # 0
  BY <1>4
<1> HIDE DEF w
<1> QED
  BY <1>1, <1>2, <1>4, <1>5, <1>6, <1>7, ResultSteady

LEMMA LogMarkSteady == ASSUME Standing, Steady, LogMark PROVE Steady' /\ Promised
<1> DEFINE tok == Tok("mark")
           r == Replay(body, pos)
           s == ReplayStep(r, tok)
<1>1. /\ pc = "mark" /\ pc' = "data" /\ Write(tok) /\ hdr' = hdr /\ world \in Worlds
      /\ world' = world /\ dying' = dying /\ SoundToken(tok) /\ tok.t = "mark"
  BY TokensSound DEF LogMark, Tokens, Standing, IInv, TypeOK, InMemory
<1> HIDE DEF tok
<1>2. /\ Same(hdr.end) /\ Vouched' = Vouched /\ ~Imaged' /\ Took(pos, tok) /\ pos' = pos + 1
  BY <1>1, TokenStep
<1>3. Reader(r) /\ Replay(body', pos') = s /\ (Smooth(body', pos') => Smooth(body, pos))
  BY <1>2 DEF Took
<1>4. Smooth(body, pos) => Calm(r)
  BY <1>1 DEF Standing, Journal, Pending, Calm
<1>5. /\ ~Busy(world) /\ (dying => Fatal(world))
      /\ Smooth(body, pos) /\ (r.diffs = 0 \/ Long = {}) => r.valid /\ r.played = world
  BY <1>1 DEF Steady, InStep
<1> HIDE DEF r
<1>6. Smooth(body, pos) => s.diffs = r.diffs /\ s.played = r.played /\ s.valid = r.valid
  BY <1>1, <1>3, <1>4, StepMark
<1> HIDE DEF s
<1>7. InStep'
  BY <1>1, <1>3, <1>5, <1>6 DEF InStep
<1> QED
  BY <1>1, <1>2, <1>7, PlayingStep DEF Playing

LEMMA LogDiffSteady == ASSUME Standing, Steady, LogDiff PROVE Steady' /\ Promised
<1> DEFINE tok == DiffTok(base, world)
           r == Replay(body, pos)
           s == ReplayStep(r, tok)
<1>1. /\ pc = "data" /\ pc' = "header" /\ Write(tok) /\ hdr' = hdr /\ world \in Worlds
      /\ world' = world /\ dying' = dying /\ SoundToken(tok) /\ tok.t = "diff" /\ tok.b = base
  BY TokensSound DEF LogDiff, Tokens, Standing, IInv, TypeOK, InMemory
<1> HIDE DEF tok
<1>2. /\ Same(hdr.end) /\ Vouched' = Vouched /\ ~Imaged' /\ Took(pos, tok) /\ pos' = pos + 1
  BY <1>1, TokenStep
<1>3. /\ Reader(r) /\ Replay(body', pos') = s /\ (Smooth(body', pos') => Smooth(body, pos))
      /\ LastIs(body', pos', world) <=> LastIs(body, pos, world)
  BY <1>1, <1>2 DEF Took
<1>4. Smooth(body, pos) =>
        ~r.fail /\ r.mark /\ base \in {NoWorld, r.base} /\ LastIs(body, pos, world)
  BY <1>1 DEF Standing, Journal, Pending, Follows
<1>5. /\ ~Busy(world) /\ (dying => Fatal(world))
      /\ Smooth(body, pos) /\ (r.diffs = 0 \/ Long = {}) => r.valid /\ r.played = world
  BY <1>1 DEF Steady, InStep
<1> HIDE DEF r
<1>6. Smooth(body, pos) => s.diffs = r.diffs + 1 /\ s.played = r.played /\ s.valid = r.valid
  BY <1>1, <1>3, <1>4, StepDiff
<1>7. r.diffs \in Nat
  BY <1>3 DEF Reader
<1> HIDE DEF s
<1>8. Smooth(body', pos') => Along(s, world)
  BY <1>3, <1>5, <1>6, <1>7 DEF Along
<1>9. InStep'
  BY <1>1, <1>3, <1>4, <1>5, <1>8 DEF InStep
<1> QED
  BY <1>1, <1>2, <1>9, PlayingStep DEF Playing

(* The header is written: what was live is durable. *)
LEMMA SmoothCommit ==
  ASSUME Standing, Steady, CommitHeader, Smooth(body, pos)
  PROVE  Steady' /\ Promised
<1> DEFINE r == Replay(body, pos)
<1>1. /\ pc = "header" /\ pc' \in {"finish", "ready"} /\ lastCmd' = pos /\ hdr'.end = pos
      /\ hdr'.st = "inpr" /\ body' = body /\ world' = world /\ world \in Worlds
  BY DEF CommitHeader, Standing, IInv, TypeOK, InMemory
<1>2. /\ pos > 0 /\ Clean(body, pos) /\ (hdr.end > 0 => Smooth(body, hdr.end))
      /\ pos \in 1..MaxLog /\ hdr.end \in 0..MaxLog
  BY <1>1, Numbers, VouchedSmooth DEF Standing, Journal, IInv
<1>3. /\ LastIs(body, pos, world) /\ Along(r, world)
      /\ Busy(world) => hdr.end > 0 /\ r.diffs = Vouched.diffs /\ r.base = Vouched.base
      /\ hdr.st # "done" /\ ~Imaged
  BY <1>1 DEF Steady, InStep
<1>4. Vouched' = r /\ Replay(body, lastCmd)' = r
  <2>1. Replay(body', pos) = r
    BY <1>1
  <2> QED
    BY <1>1, <2>1 DEF Vouched
<1>5. ~Imaged' /\ Saved = NoWorld /\ Saved' = NoWorld
  BY <1>1, <1>3 DEF Imaged, Saved
<1>7. InStep'
  BY <1>1, <1>3, <1>4 DEF InStep
<1>9. /\ Outcome(body, pos) = IF r.diffs >= 2 THEN r.base ELSE r.played
      /\ Outcome(body, pos) \in Worlds
  BY <1>2, DurableIs
<1>10. Durable' = Outcome(body, pos)
  <2>1. Outcome(body', pos) = Outcome(body, pos)
    BY <1>1
  <2> QED
    BY <1>1, <1>2, <2>1 DEF Durable
<1>11. r.diffs \in Nat /\ r.diffs >= 1
  <2>1. Reader(r)
    <3>1. pos \in Nat /\ (\A i \in 1..pos : SoundToken(body[i]))
      BY <1>2, Numbers DEF Standing, IInv, Journal, Sound
    <3> QED
      BY <3>1, ReplayType
  <2>2. r.diffs >= 1
    BY <1>2 DEF Clean
  <2> QED
    BY <2>1, <2>2 DEF Reader
<1>12. Durable' = world \/ (Busy(world) /\ Durable' = Durable)
  <2>1. CASE ~Busy(world)
    <3>1. PICK w \in Worlds : /\ LastIs(body, pos, w)
                              /\ ~Busy(w) => r.base = w /\ (r.diffs >= 2 \/ r.played = w)
      BY <1>2 DEF Clean
    <3>2. w = world
      <4>1. pos \in Nat
        BY <1>2, Numbers DEF Standing, IInv
      <4> QED
        BY <1>3, <3>1, <4>1, LastIsOne
    <3> QED
      BY <1>9, <1>10, <2>1, <3>1, <3>2
  <2>2. CASE Busy(world) /\ r.diffs = 1
    BY <1>3, <1>9, <1>10, <2>2 DEF Along
  <2>3. CASE Busy(world) /\ r.diffs >= 2
    <3>1. Durable' = r.base
      BY <1>9, <1>10, <2>3
    <3>2. hdr.end > 0 /\ Vouched.diffs >= 2 /\ Vouched.base = r.base
      BY <1>3, <2>3
    <3>3. hdr.end \in 1..MaxLog /\ Clean(body, hdr.end) /\ Smooth(body, hdr.end)
      BY <1>2, <3>2 DEF Standing, Journal
    <3>4. Durable = Vouched.base
      BY <3>2, <3>3, DurableIs DEF Durable, Vouched
    <3> QED
      BY <2>3, <3>1, <3>2, <3>4
  <2> QED
    BY <1>11, <2>1, <2>2, <2>3
<1>6. Along(r, Durable')
  <2>1. CASE ~Busy(world)
    BY <1>3, <1>12, <2>1
  <2>2. CASE Busy(world)
    <3>1. Long # {}
      BY <2>2 DEF Busy
    <3>2. r.diffs = 1 => r.valid /\ r.played = Durable'
      BY <1>3, <1>9, <1>10 DEF Along
    <3> QED
      BY <3>1, <3>2 DEF Along
  <2> QED
    BY <2>1, <2>2
<1>8. Steady'
  BY <1>1, <1>3, <1>4, <1>5, <1>6, <1>7 DEF Steady
<1>13. Live = world /\ Live' = world /\ Live # NoWorld
  BY <1>1, SentinelAssumption DEF Live
<1>16. Ended = FALSE /\ Ended' = FALSE
  <2>1. ~Ended
    BY <1>2, <1>3, NotEnded
  <2>2. Durable' # NoWorld
    BY <1>9, <1>10, SentinelAssumption
  <2> QED
    BY <1>1, <2>1, <2>2 DEF Ended
<1>14. Live # NoWorld /\ Live' = Live /\ Saved' = Saved /\ ~Ended /\ Ended' = Ended
       /\ (Durable' = Live \/ (Busy(Live) /\ Durable' = Durable))
  BY <1>1, <1>3, <1>5, <1>12, <1>13, <1>16
<1>15. Promised
  BY <1>14 DEF Promised, Promise!Next, Promise!Commit
<1> QED
  BY <1>8, <1>15

(* The header vouches for a death the reader dies of too: nothing brings the
   game back. *)
LEMMA RoughCommit ==
  ASSUME Standing, Steady, CommitHeader, ~Smooth(body, pos)
  PROVE  Steady' /\ Promised
<1>1. /\ pc = "header" /\ pos > 0 /\ hdr'.end = pos /\ hdr'.st = "inpr" /\ body' = body
      /\ size' = size /\ world' = world /\ world \in Worlds
      /\ pc' = IF dying THEN "finish" ELSE "ready"
  BY DEF CommitHeader, Standing, IInv, TypeOK, InMemory, Journal
<1>2. dying /\ Fatal(world) /\ hdr.st # "done" /\ ~Imaged
  BY <1>1 DEF Standing, Heard, Doomed, Steady, InStep
<1>3. pc' = "finish"
  BY <1>1, <1>2
<1>4. Durable' = NoWorld
  <2>1. pos \in Nat /\ \A i \in 1..pos : SoundToken(body[i])
    BY Numbers DEF Standing, IInv, Journal, Sound
  <2>2. Outcome(body, pos) = NoWorld
    BY <2>1, DeadLog
  <2>3. Outcome(body', pos) = NoWorld
    BY <1>1, <2>2
  <2> QED
    BY <1>1, <2>3 DEF Durable
<1>5. ~Ended /\ Ended'
  <2>1. hdr.end > 0 => Smooth(body, hdr.end)
    BY <1>1, VouchedSmooth DEF Standing
  <2>2. ~Ended
    BY <1>2, <2>1, NotEnded
  <2> QED
    BY <1>1, <1>4, <2>2 DEF Ended
<1>6. ~Imaged' /\ Saved = NoWorld /\ Saved' = NoWorld
  BY <1>1, <1>2 DEF Imaged, Saved
<1>7. Steady'
  BY <1>1, <1>3, <1>4, <1>6 DEF Steady, InStep
<1>8. Live = world /\ Live' = world /\ Live # NoWorld
  BY <1>1, <1>3, SentinelAssumption DEF Live
<1>9. Promised
  BY <1>2, <1>4, <1>5, <1>6, <1>8 DEF Promised, Promise!Next, Promise!Commit
<1> QED
  BY <1>7, <1>9

LEMMA FinishGameSteady == ASSUME Standing, Steady, FinishGame PROVE Steady' /\ Promised
<1>1. pc = "finish" /\ pc' = "entry" /\ body' = body /\ size' = size
  BY DEF FinishGame
<1>2. hdr'.st = "done" /\ hdr'.end = hdr.end
  <2>1. hdr \in Header /\ lastCmd = hdr.end
    BY <1>1 DEF Standing, IInv, TypeOK, Journal
  <2> QED
    BY <2>1 DEF FinishGame, Header
<1>3. Vouched' = Vouched /\ Durable' = Durable
  BY <1>1, <1>2 DEF Vouched, Durable
<1>4. hdr.st # "done" /\ ~Imaged /\ (hdr.end > 0 /\ Durable # NoWorld => Along(Vouched, Durable))
  BY <1>1 DEF Steady
<1>5. ~Imaged' /\ Saved = NoWorld /\ Saved' = NoWorld
  BY <1>2, <1>4 DEF Imaged, Saved
<1>6. Steady'
  BY <1>1, <1>2, <1>3, <1>4, <1>5 DEF Steady, InStep
<1>7. Live = world /\ Live # NoWorld /\ Live' = NoWorld
  BY <1>1, SentinelAssumption DEF Live, Standing, IInv, TypeOK, InMemory
<1>8. Ended' = TRUE
  BY <1>2 DEF Ended
<1>9. Promised
  BY <1>3, <1>5, <1>7, <1>8 DEF Promised, Promise!Next, Promise!Finish
<1> QED
  BY <1>6, <1>9

(* The score entry lies behind the journal. *)
LEMMA LogEntrySteady == ASSUME Standing, Steady, LogEntry PROVE Steady' /\ Promised
<1>1. /\ pc = "entry" /\ pc' = "off" /\ pos < MaxLog /\ hdr' = hdr /\ hdr.st = "done"
      /\ body' = [body EXCEPT ![pos+1] = Tok("top")]
  BY DEF LogEntry, Steady
<1>2. TypeOK /\ Sound /\ pos = hdr.end /\ SoundToken(Tok("top"))
  BY <1>1, TokensSound DEF Standing, IInv, Journal, Tokens
<1>3. pos \in 0..MaxLog-1 /\ hdr.end \in 0..pos
  BY <1>1, <1>2, Numbers
<1>4. Same(hdr.end)
  BY <1>1, <1>2, <1>3, Overwrote
<1>5. Vouched' = Vouched /\ Durable' = Durable /\ Ended' = Ended
  BY <1>1, <1>4, JournalSame
<1>6. ~Imaged' /\ Saved = NoWorld /\ Saved' = NoWorld /\ Live = NoWorld /\ Live' = NoWorld
  BY <1>1 DEF Imaged, Saved, Live
<1>7. Steady'
  BY <1>1, <1>5, <1>6 DEF Steady, InStep
<1> QED
  BY <1>5, <1>6, <1>7, Stays

LEMMA BeginSaveSteady == ASSUME Standing, Steady, ~Partial, BeginSave PROVE Steady' /\ Promised
<1>1. /\ pc = "ready" /\ pc' = "saving" /\ body' = body /\ size' = size /\ world' = world
      /\ lastCmd = pos /\ size = pos
  BY DEF BeginSave, Standing, IInv, Bookkeeping
<1>2. hdr'.st = "save" /\ hdr'.end = lastCmd /\ hdr.end > 0 /\ lastCmd > 0
  <2>1. hdr \in Header /\ hdr.end > 0 /\ lastCmd > 0
    BY <1>1 DEF Standing, IInv, TypeOK, Journal
  <2> QED
    BY <2>1 DEF BeginSave, Header
<1>3. /\ hdr.st # "done" /\ ~Imaged /\ Along(Vouched, world)
      /\ Replay(body, lastCmd) = Vouched
  BY <1>1 DEF Steady, InStep
<1>4. Vouched' = Vouched
  BY <1>1, <1>2, <1>3 DEF Vouched
<1>5. Durable' = Durable
  <2>1. Outcome(body, lastCmd) = Outcome(body, hdr.end)
    BY <1>3, OutcomeSame DEF Vouched
  <2>2. hdr.end # 0 /\ lastCmd # 0
    BY <1>2
  <2> QED
    BY <1>1, <1>2, <2>1, <2>2 DEF Durable
<1>6. ~Imaged' /\ Saved = NoWorld /\ Saved' = NoWorld
  <2>1. ~(lastCmd < size)
    BY <1>1, Numbers DEF Standing, IInv
  <2>2. ~HasImage'
    BY <1>1, <1>2, <2>1 DEF HasImage
  <2> QED
    BY <1>3, <2>2 DEF Imaged, Saved
<1>7. InStep'
  BY <1>1, <1>3, <1>4 DEF InStep
<1>10. Along(Vouched, Durable) /\ ~Ended
  <2>1. hdr.end > 0 => Smooth(body, hdr.end)
    BY <1>1, VouchedSmooth DEF Standing
  <2>2. ~Ended /\ Durable # NoWorld
    BY <1>2, <1>3, <2>1, NotEnded
  <2> QED
    BY <1>2, <2>2 DEF Steady
<1>8. Steady'
  BY <1>1, <1>2, <1>3, <1>4, <1>5, <1>6, <1>7, <1>10 DEF Steady
<1>9. Live' = Live /\ Ended' = Ended
  BY <1>1, <1>2, <1>3, <1>5 DEF Live, Ended
<1> QED
  BY <1>5, <1>6, <1>8, <1>9, Stays

(* store_mf writes all of the save, or is cut short. *)
LEMMA StoreSteady ==
  ASSUME Standing, Steady, NEW tok, SoundToken(tok), pc = "saving", pc' = "off", pos < MaxLog,
         body' = [body EXCEPT ![pos+1] = tok], size' = Larger(size, pos+1), hdr' = hdr,
         tok.t # "bin" \/ tok = BinTok(world)
  PROVE  Steady' /\ Promised
<1>1. TypeOK /\ Sound /\ pos = hdr.end /\ world \in Worlds
  BY DEF Standing, IInv, Journal, TypeOK, InMemory
<1>2. pos \in 0..MaxLog-1 /\ hdr.end \in 0..pos
  BY <1>1, Numbers
<1>3. Same(hdr.end) /\ body'[hdr.end+1] = tok
  BY <1>1, <1>2, Overwrote
<1>4. Vouched' = Vouched /\ Durable' = Durable /\ Ended' = Ended
  BY <1>3, JournalSame
<1>5. hdr.st = "save" /\ ~Imaged /\ Along(Vouched, world)
      /\ (hdr.end > 0 /\ Durable # NoWorld => Along(Vouched, Durable))
  BY DEF Steady, InStep
<1>6. hdr.end < size'
  BY <1>1, <1>2, Numbers DEF Larger
<1>7. Live = world /\ Live' = NoWorld /\ Live # NoWorld /\ Saved = NoWorld /\ ~Ended
  <2>1. hdr.end > 0 => Smooth(body, hdr.end)
    BY VouchedSmooth DEF Standing
  <2>2. ~Ended
    BY <1>5, <2>1, NotEnded
  <2> QED
    BY <1>1, <1>5, <2>2, SentinelAssumption DEF Live, Saved, Imaged
<1>8. CASE tok.t # "bin"
  <2>1. ~Imaged' /\ Saved' = NoWorld
    BY <1>3, <1>8 DEF Imaged, HasImage, Saved
  <2>2. Steady'
    BY <1>4, <1>5, <2>1 DEF Steady, InStep
  <2>3. Promised
    BY <1>4, <1>7, <2>1 DEF Promised, Promise!Next, Promise!Crash
  <2> QED
    BY <2>2, <2>3
<1>9. CASE tok = BinTok(world)
  <2>1. tok.t = "bin" /\ tok.w = world
    BY <1>9 DEF BinTok
  <2>2. Imaged' /\ Saved' = world /\ body'[hdr'.end+1].w = world
    BY <1>3, <1>5, <1>6, <2>1 DEF Imaged, HasImage, Saved
  <2>3. Along(Vouched', body'[hdr'.end+1].w)
    BY <1>4, <1>5, <2>2
  <2>4. Steady'
    BY <1>4, <1>5, <2>3 DEF Steady, InStep
  <2>5. Promised
    BY <1>4, <1>7, <2>2 DEF Promised, Promise!Next, Promise!Save
  <2> QED
    BY <2>4, <2>5
<1> QED
  BY <1>8, <1>9

LEMMA CrashSteady == ASSUME Standing, Steady, Crash PROVE Steady' /\ Promised
<1>1. pc # "off" /\ pc' = "off" /\ hdr' = hdr /\ body' = body /\ size' = size
  BY DEF Crash, Die, file
<1>2. /\ Vouched' = Vouched /\ Durable' = Durable /\ Saved' = Saved /\ Imaged' = Imaged
  BY <1>1 DEF Vouched, Durable, Saved, Imaged, HasImage
<1>3. Steady'
  BY <1>1, <1>2 DEF Steady, InStep
<1>4. Live' = NoWorld /\ Ended' = Ended
  BY <1>1, <1>2 DEF Live, Ended
<1>5. Promised
  <2>1. CASE Live = NoWorld
    BY <1>2, <1>4, <2>1, Stays
  <2>2. CASE Live # NoWorld
    BY <1>2, <1>4, <2>2 DEF Promised, Promise!Next, Promise!Crash
  <2> QED
    BY <2>1, <2>2
<1> QED
  BY <1>3, <1>5

LEMMA LeaveSteady == ASSUME Standing, Steady, ~Partial, Leave PROVE Steady' /\ Promised
<1>1. CASE BeginSave
  BY <1>1, BeginSaveSteady
<1>2. CASE StoreSave
  <2>1. SoundToken(BinTok(world))
    BY <1>2, TokensSound DEF Tokens, StoreSave, Standing, IInv, TypeOK, InMemory
  <2> QED
    BY <1>2, <2>1, StoreSteady DEF StoreSave
<1>3. CASE Crash
  BY <1>3, CrashSteady
<1>4. CASE CrashInStore
  <2>1. SoundToken(Tok("torn")) /\ Tok("torn").t = "torn"
    BY TokensSound DEF Tokens
  <2> QED
    BY <1>4, <2>1, StoreSteady DEF CrashInStore, Die
<1> QED
  BY <1>1, <1>2, <1>3, <1>4 DEF Leave

LEMMA PlaySteady == ASSUME Standing, Steady, Play PROVE Steady' /\ Promised
BY NewGameSteady, SetOptionSteady, StartCommandSteady, LogInputSteady, CutSteady,
   FirstResultSteady, FinishCommandSteady, LogMarkSteady, LogDiffSteady, SmoothCommit,
   RoughCommit, FinishGameSteady, LogEntrySteady DEF Play

LEMMA OpenLogSteady == ASSUME Standing, Steady, OpenLog PROVE Steady' /\ Promised
<1>1. /\ pc \in {"off", "retry"} /\ pc' \in {"refused", "read"} /\ hdr.st \in {"inpr", "save"}
      /\ hdr' = hdr /\ body' = body /\ size' = size /\ force' = (pc = "retry" \/ Crashed)
  BY DEF OpenLog, file
<1>2. /\ Vouched' = Vouched /\ Durable' = Durable /\ Saved' = Saved /\ Imaged' = Imaged
  BY <1>1 DEF Vouched, Durable, Saved, Imaged, HasImage
<1>3. ~force' => hdr.st = "save"
  BY <1>1 DEF Crashed
<1>4. Imaged => ~force'
  <2>1. SUFFICES ASSUME Imaged PROVE pc = "off" /\ ~Crashed
    BY <1>1
  <2>2. pc = "off"
    BY <1>1, <2>1 DEF Steady
  <2>3. hdr.end < size /\ hdr.st = "save"
    BY <2>1 DEF Imaged, HasImage
  <2>4. size # hdr.end
    BY <2>3, Numbers DEF Standing, IInv
  <2> QED
    BY <2>2, <2>3, <2>4 DEF Crashed
<1>5. Steady'
  BY <1>1, <1>2, <1>3, <1>4 DEF Steady, InStep
<1>6. Live' = Live /\ Ended' = Ended
  BY <1>1, <1>2 DEF Live, Ended
<1> QED
  BY <1>2, <1>5, <1>6, Stays

(* What a restore may rely on. *)
LEMMA Restorable ==
  ASSUME Standing, Steady, pc = "read", Smooth(body, hdr.end)
  PROVE  /\ hdr.end > 0 /\ Durable = Outcome(body, hdr.end)
         /\ Durable \in Worlds /\ Durable # NoWorld
         /\ Along(Vouched, Durable)
         /\ Live = NoWorld /\ ~Ended
<1>1. hdr.end > 0 /\ hdr.end # 0
  <2>1. hdr.end > 0
    BY DEF Standing, Journal
  <2> QED
    BY <2>1, Numbers DEF Standing, IInv
<1>2. Durable = Outcome(body, hdr.end)
  BY <1>1 DEF Durable
<1>3. Live = NoWorld /\ hdr.st # "done"
  BY DEF Live, Steady
<1>4. ~Ended /\ Durable \in Worlds /\ Durable # NoWorld
  BY <1>1, <1>3, NotEnded
<1>5. Along(Vouched, Durable)
  BY <1>1, <1>4 DEF Steady
<1> QED
  BY <1>1, <1>2, <1>3, <1>4, <1>5

LEMMA LoadSaveSteady == ASSUME Standing, Steady, LoadSave PROVE Steady' /\ Promised
<1>1. /\ pc = "read" /\ ~force /\ HasImage /\ world' = body[hdr.end+1].w
      /\ Truncate(hdr.end) /\ pc' = "ending" /\ hdr' = hdr
  BY DEF LoadSave
<1>2. hdr.st = "save" /\ Imaged /\ Along(Vouched, world')
      /\ (hdr.end > 0 /\ Durable # NoWorld => Along(Vouched, Durable))
  BY <1>1 DEF Steady, Imaged
<1>3. Same(hdr.end) /\ TypeOK
  <2>1. TypeOK /\ Sound
    BY DEF Standing, IInv, Journal
  <2>2. hdr.end \in 0..MaxLog /\ hdr.end \in 0..hdr.end
    BY <2>1, Numbers
  <2> QED
    BY <1>1, <2>1, <2>2, Cut
<1>4. Vouched' = Vouched /\ Durable' = Durable /\ Ended' = Ended
  BY <1>1, <1>3, JournalSame
<1>5. ~Imaged' /\ Saved' = NoWorld
  <2>1. size' = hdr.end /\ ~(hdr.end < hdr.end)
    BY <1>1, <1>3, Numbers DEF Truncate
  <2> QED
    BY <1>1, <2>1 DEF Imaged, HasImage, Saved
<1>6. InStep'
  BY <1>1, <1>2, <1>4 DEF InStep
<1>7. Steady'
  BY <1>1, <1>2, <1>4, <1>5, <1>6 DEF Steady
<1>8. Saved = world' /\ Saved # NoWorld
  BY <1>1, <1>2, <1>3, SavedIs
<1>9. Live' = world'
  BY <1>1 DEF Live
<1>10. Promised
  <2>1. Smooth(body, hdr.end)
    BY <1>1, VouchedSmooth DEF Standing, Journal
  <2>2. Live = NoWorld /\ Durable # NoWorld /\ ~Ended
    BY <1>1, <2>1, Restorable
  <2> QED
    BY <1>4, <1>5, <1>8, <1>9, <2>2 DEF Promised, Promise!Next, Promise!Resume
<1> QED
  BY <1>7, <1>10

LEMMA ReplayLogSteady == ASSUME Standing, Steady, ReplayLog PROVE Steady' /\ Promised
<1>1. /\ pc = "read" /\ force /\ world' = Outcome(body, hdr.end) /\ pc' = "ending"
      /\ hdr' = hdr /\ body' = body /\ size' = size
  BY DEF ReplayLog, file
<1>2. /\ Vouched' = Vouched /\ Durable' = Durable /\ Saved' = Saved /\ Imaged' = Imaged
  BY <1>1 DEF Vouched, Durable, Saved, Imaged, HasImage
<1>3. /\ Durable = world' /\ Durable \in Worlds /\ Durable # NoWorld
      /\ Along(Vouched, Durable) /\ Live = NoWorld /\ ~Ended
  <2>1. Smooth(body, hdr.end)
    BY OutcomeSmooth DEF ReplayLog
  <2> QED
    BY <1>1, <2>1, Restorable
<1>4. ~Imaged /\ Saved = NoWorld
  BY <1>1 DEF Steady, Saved, Imaged
<1>5. InStep'
  BY <1>1, <1>2, <1>3 DEF InStep
<1>6. Steady'
  BY <1>1, <1>2, <1>3, <1>4, <1>5 DEF Steady
<1>7. Live' = Durable /\ Ended' = Ended
  BY <1>1, <1>2, <1>3 DEF Live, Ended
<1>8. Promised
  BY <1>2, <1>3, <1>4, <1>7 DEF Promised, Promise!Next, Promise!Resume
<1> QED
  BY <1>6, <1>8

LEMMA LoadFailsSteady == ASSUME Standing, Steady, LoadFails PROVE Steady' /\ Promised
<1>1. /\ pc = "read" /\ ~HasImage /\ pc' = "unwind" /\ hdr' = hdr /\ body' = body /\ size' = size
  BY DEF LoadFails, file
<1>2. /\ Vouched' = Vouched /\ Durable' = Durable /\ Saved' = Saved /\ Imaged' = Imaged
  BY <1>1 DEF Vouched, Durable, Saved, Imaged, HasImage
<1>3. Steady'
  BY <1>1, <1>2 DEF Steady, InStep, Imaged
<1>4. Live' = Live /\ Ended' = Ended
  BY <1>1, <1>2 DEF Live, Ended
<1> QED
  BY <1>2, <1>3, <1>4, Stays

(* A replay that gives up leaves a log that cannot be restored as it was. *)
LEMMA RoughStep ==
  ASSUME Standing, Steady, hdr' = hdr, hdr.st \notin {"save", "done"}, hdr.end > 0,
         ~Smooth(body, hdr.end), ~Smooth(body', hdr.end), Sound',
         pc \in {"read", "unwind"}, pc' \in {"unwind", "refused"}
  PROVE  Steady' /\ Promised
<1>1. Durable = NoWorld /\ Durable' = NoWorld
  <2>1. hdr.end \in Nat /\ hdr.end # 0 /\ hdr.end \in 0..MaxLog
    BY Numbers DEF Standing, IInv
  <2>2. \A i \in 1..hdr.end : SoundToken(body[i])
    BY <2>1, Numbers DEF Standing, IInv, Journal, Sound
  <2> DEFINE c == body'
  <2>3. \A i \in 1..hdr.end : SoundToken(c[i])
    BY <2>1, Numbers DEF Sound, Standing, IInv
  <2>4. ~Smooth(c, hdr.end)
    OBVIOUS
  <2> HIDE DEF c
  <2>5. Outcome(body, hdr.end) = NoWorld /\ Outcome(c, hdr.end) = NoWorld
    BY <2>1, <2>2, <2>3, <2>4, DeadLog
  <2> QED
    BY <2>1, <2>5 DEF Durable, c
<1>2. ~Imaged /\ ~Imaged' /\ Saved = NoWorld /\ Saved' = NoWorld
  BY DEF Imaged, Saved
<1>3. Live = NoWorld /\ Live' = NoWorld /\ Ended' = Ended
  BY <1>1 DEF Live, Ended
<1>4. Steady'
  BY <1>1, <1>2 DEF Steady, InStep
<1> QED
  BY <1>1, <1>2, <1>3, <1>4, Stays

LEMMA ReplayFailsSteady ==
  ASSUME Standing, Steady, ReplayFails
  PROVE  Steady' /\ Promised
<1>1. /\ pc = "read" /\ force /\ pc' = "unwind" /\ hdr' = hdr /\ body' = body
      /\ Outcome(body, hdr.end) \notin Worlds /\ \E n : n \in FailsAt
  BY DEF ReplayFails, file
<1>2. ~Smooth(body, hdr.end) /\ Over
  BY <1>1, RoughIsOver
<1>3. ~Smooth(body', hdr.end)
  BY <1>1, <1>2
<1>4. hdr.end > 0 /\ Sound' /\ hdr.st \notin {"save", "done"}
  BY <1>1, <1>2 DEF Standing, Journal, Sound, Over, Steady
<1> QED
  BY <1>1, <1>2, <1>3, <1>4, RoughStep

LEMMA ReplayDiesSteady ==
  ASSUME Standing, Steady, ReplayDies
  PROVE  Steady' /\ Promised
<1>1. /\ pc = "read" /\ force /\ pc' = "unwind" /\ hdr' = hdr /\ force'
      /\ Died(Replay(body, hdr.end)) /\ \E n : n \in FailsAt
  BY DEF ReplayDies
<1>2. Outcome(body, hdr.end) \notin Worlds
  BY <1>1, SentinelAssumption DEF Outcome, Died
<1>3. ~Smooth(body, hdr.end) /\ Over
  BY <1>1, <1>2, RoughIsOver
<1>4. Journal' /\ hdr.end \in Nat
  BY ReplayDiesJournal, Numbers DEF Standing, IInv
<1> DEFINE c == body'
<1>5. PICK n \in 1..hdr.end : ~Smooth(c, n)
  BY <1>1, <1>4 DEF Journal
<1> HIDE DEF c
<1>6. ~Smooth(c, hdr.end)
  <2>1. n \in 0..hdr.end
    BY <1>4
  <2> QED
    BY <1>4, <1>5, <2>1, SmoothBefore
<1>7. hdr.end > 0 /\ Sound' /\ hdr.st \notin {"save", "done"}
  BY <1>1, <1>3, <1>4 DEF Standing, Journal, Over, Steady
<1> QED
  BY <1>1, <1>3, <1>6, <1>7, RoughStep DEF c

(* What replay_end writes is no save, and lies in the file. *)
LEMMA EndImage ==
  ASSUME Standing, ~Imaged, hdr' = hdr, pos = hdr.end, ReplayEnd
  PROVE  ~Imaged' /\ (lastCmd' = lastCmd \/ lastCmd' <= size')
<1>1. CASE UNCHANGED <<body, size, pos, lastCmd>>
  BY <1>1 DEF Imaged, HasImage
<1>2. ASSUME NEW tok, tok.t # "bin", Write(tok), lastCmd' \in {lastCmd, pos + 1}
      PROVE  ~Imaged' /\ (lastCmd' = lastCmd \/ lastCmd' <= size')
  <2>1. pos + 1 \in Slots /\ DOMAIN body = Slots /\ size \in Nat /\ pos \in Nat
    BY <1>2, Numbers DEF Write, Standing, IInv, TypeOK
  <2>2. body'[hdr.end+1] = tok
    BY <1>2, <2>1 DEF Write
  <2>3. pos + 1 <= size'
    BY <1>2, <2>1 DEF Write, Larger
  <2> QED
    BY <1>2, <2>2, <2>3 DEF Imaged, HasImage
<1>3. Tok("tz").t # "bin" /\ Tok("opt").t # "bin"
  BY DEF Tok
<1> QED
  BY <1>1, <1>2, <1>3 DEF ReplayEnd, LogZone, LogOptions

LEMMA EndReplaySteady == ASSUME Standing, Steady, EndReplay PROVE Steady' /\ Promised
<1>1. /\ pc = "ending" /\ pc' = "truncate" /\ ReplayEnd /\ hdr' = hdr /\ world' = world
      /\ world \in Worlds
  BY DEF EndReplay, Standing, IInv, TypeOK, InMemory
<1>2. pos = hdr.end /\ lastCmd = hdr.end /\ hdr.end > 0 /\ Clean(body, pos) /\ Smooth(body, pos)
      /\ pos \in Nat /\ pos \in 0..pos
  BY <1>1, Numbers, VouchedSmooth DEF Standing, Journal, IInv
<1>3. Same(pos) /\ Same(hdr.end)
  BY <1>1, <1>2, EndWrites DEF Standing
<1>4. ~Imaged' /\ (lastCmd' = lastCmd \/ lastCmd' <= size')
  BY <1>1, <1>2, EndImage DEF Steady
<1>5. Vouched' = Vouched
  BY <1>1, <1>3, JournalSame
<1>6. Replay(body', lastCmd') = Vouched
  <2>1. CASE lastCmd' = lastCmd
    BY <1>2, <1>3, <2>1 DEF Same, Vouched
  <2>2. CASE lastCmd' # lastCmd
    <3>1. lastCmd' = pos + 1 /\ \E tok : tok.t \in {"opt", "tz"} /\ Took(pos, tok)
      BY <1>1, <2>2, EndWrites DEF Standing
    <3>2. PICK tok : tok.t \in {"opt", "tz"} /\ Took(pos, tok)
      BY <3>1
    <3>3. Replay(body', pos + 1) = ReplayStep(Replay(body, pos), tok) /\ Reader(Replay(body, pos))
      BY <3>2 DEF Took
    <3>4. Calm(Replay(body, pos))
      BY <1>2 DEF Clean
    <3>5. ReplayStep(Replay(body, pos), tok) = Replay(body, pos)
      BY <3>2, <3>3, <3>4, StepSkips
    <3> QED
      BY <1>2, <3>1, <3>3, <3>5 DEF Vouched
  <2> QED
    BY <2>1, <2>2
<1>7. Along(Vouched', world')
  BY <1>1, <1>5 DEF Steady, InStep
<1>8. InStep'
  BY <1>1, <1>2, <1>4, <1>5, <1>6, <1>7 DEF InStep
<1> QED
  BY <1>1, <1>3, <1>4, <1>8, PlayingStep DEF Playing

LEMMA UnwindSteady == ASSUME Standing, Steady, Unwind PROVE Steady' /\ Promised
<1>1. /\ pc = "unwind" /\ pc' = (IF force THEN "refused" ELSE "retry") /\ ReplayEnd
      /\ hdr' = hdr
  BY DEF Unwind
<1>2. CASE ~force
  <2>1. pos = hdr.end /\ pos \in 0..pos
    BY <1>1, <1>2, Numbers DEF Standing, Journal, IInv
  <2>2. Same(hdr.end)
    BY <1>1, <2>1, EndWrites DEF Standing
  <2>3. ~Imaged /\ ~Imaged' /\ hdr.st # "done"
    BY <1>1, <2>1, EndImage DEF Steady
  <2>4. Vouched' = Vouched /\ Durable' = Durable /\ Ended' = Ended
    BY <1>1, <2>2, JournalSame
  <2>5. Steady'
    BY <1>1, <1>2, <2>3, <2>4 DEF Steady, InStep
  <2>6. Saved' = Saved /\ Live' = Live
    BY <1>1, <1>2, <2>3 DEF Saved, Imaged, Live
  <2> QED
    BY <2>4, <2>5, <2>6, Stays
<1>3. CASE force
  <2>1. Over
    BY <1>1, <1>3 DEF Standing, Heard
  <2>2. ~Smooth(body, hdr.end) /\ ~Smooth(body', hdr.end)
    BY <1>3, UnwindRough DEF Standing
  <2>3. \E n \in 1..hdr.end : n <= pos
    BY <1>1, <1>3 DEF Standing, Journal
  <2>4. hdr.end > 0
    BY <2>3, Numbers DEF Standing, IInv
  <2>5. Sound' /\ hdr.st \notin {"save", "done"}
    BY <1>1, <2>1, EndWrites DEF Standing, Over, Steady
  <2> QED
    BY <1>1, <1>3, <2>2, <2>4, <2>5, RoughStep
<1> QED
  BY <1>2, <1>3

LEMMA ResumeSteady == ASSUME Standing, Steady, Resume PROVE Steady' /\ Promised
BY OpenLogSteady, LoadSaveSteady, LoadFailsSteady, ReplayLogSteady, ReplayFailsSteady,
   ReplayDiesSteady, EndReplaySteady, CutSteady, UnwindSteady DEF Resume

LEMMA StutterSteady == ASSUME Steady, UNCHANGED vars PROVE Steady' /\ Promised
<1>1. UNCHANGED <<hdr, body, size, pc, pos, lastCmd, base, world, force, cur, asked, dying>>
  BY DEF vars, file, proc
<1>2. Vouched' = Vouched /\ Durable' = Durable /\ Saved' = Saved /\ Imaged' = Imaged /\ Live' = Live
  BY <1>1 DEF Vouched, Durable, Saved, Imaged, HasImage, Live
<1>3. InStep => InStep'
  BY <1>1, <1>2 DEF InStep
<1>4. Steady'
  BY <1>1, <1>2, <1>3 DEF Steady
<1>5. Ended' = Ended
  BY <1>1, <1>2 DEF Ended
<1> QED
  BY <1>2, <1>4, <1>5, Stays

LEMMA InitSteady == Init => Steady /\ Promise!Init
<1> SUFFICES ASSUME Init PROVE Steady /\ Promise!Init
  OBVIOUS
<1>1. hdr.st = "none" /\ hdr.end = 0 /\ pc = "off" /\ world = NoWorld
  BY DEF Init
<1>2. ~Imaged
  BY <1>1 DEF Imaged
<1>3. Steady
  BY <1>1, <1>2 DEF Steady, InStep
<1>4. Durable = NoWorld /\ Live = NoWorld /\ Saved = NoWorld /\ Ended = FALSE
  BY <1>1 DEF Durable, Live, Saved, Ended
<1> QED
  BY <1>3, <1>4 DEF Promise!Init

(* The reader plays what the player played. *)
LEMMA StepAlike ==
  ASSUME Standing, Steady, Long = {}, pc = "ready", NEW c \in Commands
  PROVE  Alike(c)
<1>1. Replay(body, lastCmd) = Vouched /\ Along(Vouched, world)
  BY DEF Steady, InStep
<1> QED
  BY <1>1 DEF Along, Alike

LEMMA SteadyNext ==
  ASSUME ~ReadAhead, ~Partial, (AskingFixed /\ DyingFixed) \/ Long = {}, Standing, Steady, [Next]_vars
  PROVE  Standing' /\ Steady' /\ Promised
<1>1. IInv' /\ Journal'
  BY NextStep, NextJournal DEF Standing
<1>2. Heard'
  <2>1. CASE Play
    <3>1. \A c \in Commands : pc = "ready" => Alike(c)
      BY FixedAlike, StepAlike
    <3> QED
      BY <2>1, <3>1, PlayHeard
  <2> QED
    BY <2>1, LeaveHeard, ResumeHeard, StutterHeard DEF Next
<1>3. Steady' /\ Promised
  BY PlaySteady, LeaveSteady, ResumeSteady, StutterSteady DEF Next
<1> QED
  BY <1>1, <1>2, <1>3 DEF Standing

(* Players leave between commands, and no command takes several turns, or none
   asks or kills in one world and not in another. *)
THEOREM SteadyAlways ==
  ASSUME ~ReadAhead, ~Partial, (AskingFixed /\ DyingFixed) \/ Long = {}
  PROVE  Spec => [](Standing /\ Steady)
<1>1. Init => Standing /\ Steady
  BY InitInv, InitJournal, InitHeard, InitSteady DEF Standing
<1>2. Standing /\ Steady /\ [Next]_vars => (Standing /\ Steady)'
  BY SteadyNext
<1> QED
  BY <1>1, <1>2, PTL DEF Spec

(* A game whose first turn was committed is never refused by nh_restore_game,
   wherever the process died, unless its hero is dead, if whether a command asks
   and whether it kills does not depend on the world, or if the replay can only
   be in the world the player was in: no command takes several turns, and players
   leave between commands (log_command_result, done, replay_end,
   ERR_REPLAY_FAILED). *)
THEOREM GamesAreNotLost ==
  ASSUME ~ReadAhead, (AskingFixed /\ DyingFixed) \/ (Long = {} /\ ~Partial)
  PROVE  Spec => []NoLostGame
<1>1. Standing => NoLostGame
  BY DEF Standing, Heard, NoLostGame
<1>2. CASE AskingFixed /\ DyingFixed
  BY <1>1, <1>2, HeardAlways, PTL
<1>3. CASE Long = {} /\ ~Partial
  BY <1>1, <1>3, SteadyAlways, PTL
<1> QED
  BY <1>2, <1>3

(* The log implements DurableGame: what a restore hands back is the image of the
   last complete save, or else the world of the last finished command, and only
   the death of the hero makes a log that hands back nothing
   (log_command_result, dosave0, done, nh_restore_game). *)
THEOREM PromiseKept ==
  ASSUME ~ReadAhead, ~Partial, (AskingFixed /\ DyingFixed) \/ Long = {}
  PROVE  Spec => KeepsPromise
<1>1. Init => Promise!Init
  BY InitSteady
<1>2. Standing /\ Steady /\ [Next]_vars => Promised
  BY SteadyNext
<1> QED
  BY <1>1, <1>2, SteadyAlways, PTL DEF Spec, KeepsPromise, Promise!Spec, Promised
=============================================================================
