-------------------------- MODULE SharedFilesProofs --------------------------
(***************************************************************************)
(* What holds of the logs, the bones and the scores for any number of      *)
(* processes, games and entries of the list: the locks by themselves       *)
(* first, then what SharedFiles makes of them, then the ends of games.     *)
(***************************************************************************)
EXTENDS SharedFiles, FiniteSetTheorems, TLAPS

\* Nobody works on a log that does not exist, and only one process, its
\* creator, on one that has no header: a status request needs a header.
Fresh ==
  /\ \A p \in Procs : At(p) # "menu" => log[On(p)].st # "absent"
  /\ \A p \in Procs : At(p) \in {"created", "header"} => log[On(p)].st = "empty"
  /\ \A p \in Procs : log[On(p)].st = "empty" => At(p) \in {"menu", "created", "header"}
  /\ \A p, q \in Procs : p # q /\ On(p) = On(q) /\ At(p) \in {"created", "header"} => At(q) = "menu"

\* Who holds a lock is at a stage that gives it back ...
Holder ==
  \A g \in Logs, p \in Procs :
    lock[g] = p => /\ On(p) = g
                   /\ At(p) \in {"probed", "header", "first", "saved", "dead", "begin", "loading", "loaded"}

\* ... and these stages have the lock.  "saved" and "dead" may not: a game in
\* its second sitting ends without it.
Holds ==
  \A p \in Procs :
    \/ At(p) \in {"header", "first", "begin", "loading", "loaded"}
    \/ At(p) = "probed" /\ proc[p].saw # "playing"
    => lock[On(p)] = p

\* During a game's first sitting others only ask for its status, and are told
\* that it is being played.
Alone ==
  \A p, q \in Procs :
    p # q /\ On(p) = On(q) /\ At(p) = "first" => At(q) \in {"menu", "status", "probed"}

\* A process that has not taken a log up yet, or alone has it, misses nothing.
Fresher ==
  \A p \in Procs :
    At(p) \in {"menu", "created", "header", "first", "status", "probed", "locking", "retry", "begin"}
      => p \notin stale

LockInv == LockTypeOK /\ Fresh /\ Holder /\ Holds /\ Alone /\ Fresher

\* A process between games, and one whose replay has ended, are well formed.
LEMMA IdleType ==
  /\ Idle \in ProcStates /\ Idle.at = "menu"
  /\ \A g \in Logs : LET e == [Idle EXCEPT !.at = "ended", !.log = g]
                     IN  e \in ProcStates /\ e.at = "ended" /\ e.log = g
<1>1. (CHOOSE g \in Logs : TRUE) \in Logs
  BY SomeLog
<1> QED
  BY <1>1 DEF Idle, ProcStates, Stages

\* Going to another stage keeps the type of proc.
LEMMA StageType ==
  ASSUME proc \in [Procs -> ProcStates], NEW p \in Procs, NEW stage \in Stages, To(p, stage)
  PROVE  proc' \in [Procs -> ProcStates]
  BY DEF To, ProcStates

\* Nor does changing a log's status or cutting its image off spoil it.
LEMMA LogStateType ==
  ASSUME NEW l \in LogStates
  PROVE  /\ \A b \in BOOLEAN : [l EXCEPT !.img = b] \in LogStates
         /\ \A st \in {"inpr", "save", "done"} : [l EXCEPT !.st = st] \in LogStates
  BY DEF LogStates

\* A write to a log keeps the types of log and stale.
LEMMA WriteType ==
  ASSUME LockTypeOK, NEW p \in Procs, NEW l \in LogStates, Write(p, l)
  PROVE  log' \in [Logs -> LogStates] /\ stale' \subseteq Procs
  BY DEF LockTypeOK, Write

\* The inductive invariant holds at first.
LEMMA LockInitOK == LockInit => LockInv
<1> SUFFICES ASSUME LockInit PROVE LockInv
  OBVIOUS
<1>1. LockTypeOK
  BY IdleType DEF LockInit, LockTypeOK, LogStates
<1> QED
  BY <1>1, IdleType, NobodyIsNoProcess DEF LockInit, LockInv, Fresh, Holder, Holds, Alone, Fresher, At

\* A process that closes its log (and forgets it, or goes on with nothing but
\* the descriptor) leaves everything in order: Home after Drop, and ReplayEnd.
LEMMA Leaves ==
  ASSUME LockInv, NEW p \in Procs, NEW rest \in ProcStates,
         \/ rest.at = "menu" /\ p \notin stale'
         \/ rest.at = "ended" /\ rest.log = On(p) /\ At(p) = "loaded",
         stale' \in {stale, stale \ {p}},
         proc' = [proc EXCEPT ![p] = rest], Drop(p), Reads
  PROVE  LockInv'
<1> USE DEF LockInv, LockTypeOK, At, On, Drop, Reads
<1>1. LockTypeOK'
  BY DEF ProcStates
<1>2. Fresh'
  BY DEF Fresh
<1>3. Holder'
  BY NobodyIsNoProcess DEF Holder
<1>4. Holds'
  BY DEF Holds, Holder
<1>5. Alone'
  BY DEF Alone
<1>6. Fresher'
  BY DEF Fresher
<1> QED
  BY <1>1, <1>2, <1>3, <1>4, <1>5, <1>6

\* The steps one by one.  Asking for a status and restoring:
LEMMA StatusKnownOK ==
  ASSUME LockInv, NEW p \in Procs, StatusKnown(p)
  PROVE  LockInv'
<1>1. CASE ~Wanted(p)
  BY <1>1, Leaves, IdleType DEF StatusKnown, Home, Reads, LockInv, Fresher
<1>2. CASE Wanted(p)
  <2>0. At(p) = "probed" /\ proc[p].saw # "playing" /\ To(p, "locking") /\ Drop(p) /\ Reads /\ stale' = stale
    BY <1>2 DEF StatusKnown, Wanted
  <2> USE <2>0 DEF LockInv, LockTypeOK, At, On, Reads
  <2>1. LockTypeOK'
    BY StageType DEF Drop, Stages
  <2>2. Fresh'
    BY DEF Fresh, To
  <2>3. Holder'
    BY NobodyIsNoProcess DEF Holder, Drop, To
  <2>4. Holds'
    BY DEF Holds, Holder, Drop, To
  <2>5. Alone'
    BY DEF Alone, Holds, To
  <2>6. Fresher'
    BY DEF Fresher, To
  <2> QED
    BY <2>1, <2>2, <2>3, <2>4, <2>5, <2>6
<1> QED
  BY <1>1, <1>2

LEMMA SetLogfileOK ==
  ASSUME LockInv, NEW p \in Procs, SetLogfile(p)
  PROVE  LockInv'
<1>1. CASE ~Free(p) /\ At(p) = "retry"
  <2>1. Drop(p)
    BY <1>1 DEF SetLogfile, Free, Drop, LockInv, LockTypeOK, Fresher
  <2> QED
    BY <1>1, <2>1, Leaves, IdleType DEF SetLogfile, Home, Reads, LockInv, Fresher
<1>2. CASE ~Free(p) /\ At(p) = "locking"
  <2>0. To(p, "retry") /\ UNCHANGED <<log, lock, stale>>
    BY <1>2 DEF SetLogfile, Reads
  <2> USE <1>2, <2>0 DEF LockInv, LockTypeOK, At, On
  <2>1. LockTypeOK'
    BY StageType DEF Stages
  <2>2. Fresh'
    BY DEF Fresh, To
  <2>3. Holder'
    BY DEF Holder, To
  <2>4. Holds' /\ Alone' /\ Fresher'
    BY DEF Holds, Alone, Fresher, To
  <2> QED
    BY <2>1, <2>2, <2>3, <2>4
<1>3. CASE Free(p)
  <2>0. At(p) \in {"locking", "retry"} /\ To(p, "begin") /\ Take(p) /\ UNCHANGED <<log, stale>>
    BY <1>3 DEF SetLogfile, Reads
  <2> USE <1>3, <2>0 DEF LockInv, LockTypeOK, At, On
  <2>1. LockTypeOK'
    BY StageType DEF Take, Stages
  <2>2. Fresh'
    BY DEF Fresh, To
  <2>3. Holder'
    BY NobodyIsNoProcess DEF Holder, Take, To
  <2>4. Holds'
    BY NobodyIsNoProcess DEF Holds, Take, To, Free, ProcStates
  <2>5. Alone'
    BY DEF Alone, To
  <2>6. Fresher'
    BY DEF Fresher, To
  <2> QED
    BY <2>1, <2>2, <2>3, <2>4, <2>5, <2>6
<1> QED
  BY <1>1, <1>2, <1>3 DEF SetLogfile

LEMMA ReplayOK ==
  ASSUME LockInv, NEW p \in Procs, Replay(p)
  PROVE  LockInv'
<1>1. CASE log[On(p)].st = "done"
  BY <1>1, Leaves, IdleType DEF Replay, Home, Reads, LockInv, LockTypeOK
<1>2. CASE log[On(p)].st # "done"
  <2>0. At(p) = "loading" /\ To(p, "loaded") /\ UNCHANGED <<log, lock, stale>>
    BY <1>2 DEF Replay, Reads
  <2> USE <2>0 DEF LockInv, LockTypeOK, At, On
  <2>1. LockTypeOK'
    BY StageType DEF Stages
  <2>2. Fresh' /\ Holder'
    BY DEF Fresh, Holder, To
  <2>3. Holds' /\ Alone' /\ Fresher'
    BY DEF Holds, Alone, Fresher, To
  <2> QED
    BY <2>1, <2>2, <2>3
<1> QED
  BY <1>1, <1>2

\* Leaving, in the three ways there are:
LEMMA ReplayEndOK ==
  ASSUME LockInv, NEW p \in Procs, ReplayEnd(p)
  PROVE  LockInv'
BY Leaves, IdleType DEF ReplayEnd, Reads, LockInv, LockTypeOK, On, ProcStates

LEMMA CloseLogOK ==
  ASSUME LockInv, NEW p \in Procs, CloseLog(p)
  PROVE  LockInv'
BY Leaves, IdleType DEF CloseLog, Home, Reads, LockInv, LockTypeOK

LEMMA CrashOK ==
  ASSUME LockInv, NEW p \in Procs, Crash(p)
  PROVE  LockInv'
BY Leaves, IdleType DEF Crash, Home, Reads, LockInv, LockTypeOK

LEMMA TryStatusLockOK ==
  ASSUME LockInv, NEW p \in Procs, TryStatusLock(p)
  PROVE  LockInv'
<1>1. CASE Free(p)
  <2>0. At(p) = "status" /\ To(p, "probed") /\ Take(p) /\ UNCHANGED <<log, stale>>
    BY <1>1 DEF TryStatusLock, Reads
  <2> USE <1>1, <2>0 DEF LockInv, LockTypeOK, At, On
  <2>1. LockTypeOK'
    BY StageType DEF Take, Stages
  <2>2. Fresh'
    BY DEF Fresh, To
  <2>3. Holder'
    BY NobodyIsNoProcess DEF Holder, Take, To
  <2>4. Holds'
    BY NobodyIsNoProcess DEF Holds, Take, To, Free, ProcStates
  <2>5. Alone'
    BY DEF Alone, To
  <2>6. Fresher'
    BY DEF Fresher, To
  <2> QED
    BY <2>1, <2>2, <2>3, <2>4, <2>5, <2>6
<1>2. CASE ~Free(p)
  <2>0. /\ At(p) = "status" /\ UNCHANGED <<log, lock, stale>>
        /\ proc' = [proc EXCEPT ![p].at = "probed", ![p].saw = "playing"]
    BY <1>2 DEF TryStatusLock, Reads
  <2> USE <1>2, <2>0 DEF LockInv, LockTypeOK, At, On
  <2>1. LockTypeOK'
    <3> DEFINE f == [proc EXCEPT ![p].at = "probed"]
    <3>1. f \in [Procs -> ProcStates]
      BY DEF ProcStates, Stages
    <3> HIDE DEF f
    <3>2. [f EXCEPT ![p].saw = "playing"] \in [Procs -> ProcStates]
      BY <3>1 DEF ProcStates
    <3> QED
      BY <3>2 DEF f
  <2>2. Fresh'
    BY DEF Fresh
  <2>3. Holder'
    BY DEF Holder, Free
  <2>4. Holds'
    BY DEF Holds
  <2>5. Alone' /\ Fresher'
    BY DEF Alone, Fresher
  <2> QED
    BY <2>1, <2>2, <2>3, <2>4, <2>5
<1> QED
  BY <1>1, <1>2

\* Starting a game:
LEMMA CreateOK ==
  ASSUME LockInv, NEW p \in Procs, NEW g \in Logs, Create(p, g)
  PROVE  LockInv'
<1> USE DEF LockInv, LockTypeOK, At, On
<1>1. log' \in [Logs -> LogStates]
  BY DEF Create, LogStates
<1>2. proc' \in [Procs -> ProcStates]
  <2> DEFINE f == [proc EXCEPT ![p].at = "created"]
  <2>1. f \in [Procs -> ProcStates]
    BY DEF ProcStates, Stages
  <2> HIDE DEF f
  <2>2. [f EXCEPT ![p].log = g] \in [Procs -> ProcStates]
    BY <2>1 DEF ProcStates
  <2> QED
    BY <2>2 DEF Create, f
<1>3. Fresh'
  BY DEF Create, Fresh
<1>4. Holder'
  BY DEF Create, Holder, Fresh
<1>5. Holds' /\ Alone'
  BY DEF Create, Holds, Alone, Fresh
<1>6. Fresher'
  BY DEF Create, Fresher
<1> QED
  BY <1>1, <1>2, <1>3, <1>4, <1>5, <1>6 DEF Create

LEMMA ReadHeaderOK ==
  ASSUME LockInv, NEW p \in Procs, NEW g \in Logs, NEW why \in {"list", "restore"}, ReadHeader(p, g, why)
  PROVE  LockInv'
<1> USE DEF LockInv, LockTypeOK, At, On
<1>1. LockTypeOK'
  BY DEF ReadHeader, Status, Reads, ProcStates, Stages
<1>2. Fresh'
  BY DEF Fresh, ReadHeader, Status, Reads
<1>3. Holder'
  BY NobodyIsNoProcess DEF Holder, Holds, Fresh, ReadHeader, Status, Reads
<1>4. Holds'
  BY DEF Holds, Holder, ReadHeader, Status, Reads
<1>5. Alone'
  BY DEF Alone, Fresh, Holds, Holder, ReadHeader, Status, Reads
<1>6. Fresher'
  BY DEF Fresher, Alone, ReadHeader, Status, Reads
<1> QED
  BY <1>1, <1>2, <1>3, <1>4, <1>5, <1>6

LEMMA LockNewOK ==
  ASSUME LockInv, NEW p \in Procs, LockNew(p)
  PROVE  LockInv'
<1> USE DEF LockInv, LockTypeOK, At, On
<1>1. LockTypeOK'
  BY StageType DEF LockNew, Free, Take, Reads, Stages
<1>2. Fresh'
  BY DEF Fresh, LockNew, Free, Take, To, Reads
<1>3. Holder'
  BY NobodyIsNoProcess DEF Holder, Holds, Fresh, LockNew, Free, Take, To, Reads
<1>4. Holds'
  BY NobodyIsNoProcess DEF Holds, Holder, ProcStates, LockNew, Free, Take, To, Reads
<1>5. Alone'
  BY DEF Alone, Fresh, Holds, Holder, LockNew, Free, Take, To, Reads
<1>6. Fresher'
  BY DEF Fresher, Alone, LockNew, Free, Take, To, Reads
<1> QED
  BY <1>1, <1>2, <1>3, <1>4, <1>5, <1>6

LEMMA LogHeaderOK ==
  ASSUME LockInv, NEW p \in Procs, LogHeader(p)
  PROVE  LockInv'
<1> USE DEF LockInv, LockTypeOK, At, On
<1>0. [st |-> "inpr", img |-> FALSE] \in LogStates
  BY LogStateType DEF LogStates
<1>1. LockTypeOK'
  BY <1>0, StageType, WriteType DEF LogHeader, Stages
<1>2. Fresh'
  BY DEF Fresh, ProcStates, Knowing, LogHeader, Write, To
<1>3. Holder'
  BY NobodyIsNoProcess DEF Holder, Holds, Fresh, Knowing, LogHeader, Write, To
<1>4. Holds'
  BY DEF Holds, Holder, Knowing, LogHeader, Write, To
<1>5. Alone'
  BY DEF Alone, Fresh, Holds, Holder, Knowing, LogHeader, Write, To
<1>6. Fresher'
  BY DEF Fresher, Alone, Knowing, LogHeader, Write, To
<1> QED
  BY <1>1, <1>2, <1>3, <1>4, <1>5, <1>6

LEMMA ReplayBeginOK ==
  ASSUME LockInv, NEW p \in Procs, ReplayBegin(p)
  PROVE  LockInv'
<1> USE DEF LockInv, LockTypeOK, At, On
<1>1. LockTypeOK'
  BY StageType DEF ReplayBegin, Reads, Stages
<1>2. Fresh'
  BY DEF Fresh, ReplayBegin, To, Reads
<1>3. Holder'
  BY NobodyIsNoProcess DEF Holder, Holds, Fresh, ReplayBegin, To, Reads
<1>4. Holds'
  BY DEF Holds, Holder, ReplayBegin, To, Reads
<1>5. Alone'
  BY DEF Alone, Fresh, Holds, Holder, ReplayBegin, To, Reads
<1>6. Fresher'
  BY DEF Fresher, Alone, ReplayBegin, To, Reads
<1> QED
  BY <1>1, <1>2, <1>3, <1>4, <1>5, <1>6

LEMMA LoadImageOK ==
  ASSUME LockInv, NEW p \in Procs, LoadImage(p)
  PROVE  LockInv'
<1> USE DEF LockInv, LockTypeOK, At, On
<1>0. [log[On(p)] EXCEPT !.img = FALSE] \in LogStates
  BY LogStateType DEF ProcStates
<1>1. LockTypeOK'
  BY <1>0, StageType, WriteType DEF LoadImage, Stages
<1>2. Fresh'
  BY DEF Fresh, Knowing, LoadImage, Write, To
<1>3. Holder'
  BY NobodyIsNoProcess DEF Holder, Holds, Fresh, Knowing, LoadImage, Write, To
<1>4. Holds'
  BY DEF Holds, Holder, Knowing, LoadImage, Write, To
<1>5. Alone'
  BY DEF Alone, Fresh, Holds, Holder, Knowing, LoadImage, Write, To
<1>6. Fresher'
  BY DEF Fresher, Alone, Knowing, LoadImage, Write, To
<1> QED
  BY <1>1, <1>2, <1>3, <1>4, <1>5, <1>6

LEMMA LoadFailsOK ==
  ASSUME LockInv, NEW p \in Procs, LoadFails(p)
  PROVE  LockInv'
<1> USE DEF LockInv, LockTypeOK, At, On
<1>1. LockTypeOK'
  BY DEF LoadFails, Drop, Status, Reads, ProcStates, Stages
<1>2. Fresh'
  BY DEF Fresh, LoadFails, Drop, Status, Reads
<1>3. Holder'
  BY NobodyIsNoProcess DEF Holder, Holds, Fresh, LoadFails, Drop, Status, Reads
<1>4. Holds'
  BY DEF Holds, Holder, LoadFails, Drop, Status, Reads
<1>5. Alone'
  BY DEF Alone, Fresh, Holds, Holder, LoadFails, Drop, Status, Reads
<1>6. Fresher'
  BY DEF Fresher, Alone, LoadFails, Drop, Status, Reads
<1> QED
  BY <1>1, <1>2, <1>3, <1>4, <1>5, <1>6

LEMMA LogTruncateOK ==
  ASSUME LockInv, NEW p \in Procs, LogTruncate(p)
  PROVE  LockInv'
<1> USE DEF LockInv, LockTypeOK, At, On
<1>0. [log[On(p)] EXCEPT !.img = FALSE] \in LogStates
  BY LogStateType DEF ProcStates
<1>1. LockTypeOK'
  BY <1>0, StageType, WriteType DEF LogTruncate, Stages
<1>2. Fresh'
  BY DEF Fresh, Knowing, LogTruncate, Write, To
<1>3. Holder'
  BY NobodyIsNoProcess DEF Holder, Holds, Fresh, Knowing, LogTruncate, Write, To
<1>4. Holds'
  BY DEF Holds, Holder, Knowing, LogTruncate, Write, To
<1>5. Alone'
  BY DEF Alone, Fresh, Holds, Holder, Knowing, LogTruncate, Write, To
<1>6. Fresher'
  BY DEF Fresher, Alone, Knowing, LogTruncate, Write, To
<1> QED
  BY <1>1, <1>2, <1>3, <1>4, <1>5, <1>6

LEMMA LogCommandOK ==
  ASSUME LockInv, NEW p \in Procs, LogCommand(p)
  PROVE  LockInv'
<1> USE DEF LockInv, LockTypeOK, At, On
<1>0. [log[On(p)] EXCEPT !.st = "inpr"] \in LogStates
  BY LogStateType DEF ProcStates
<1>1. LockTypeOK'
  BY <1>0, WriteType DEF LogCommand, Playing
<1>2. Fresh'
  BY DEF Fresh, Knowing, LogCommand, Write, Playing
<1>3. Holder'
  BY NobodyIsNoProcess DEF Holder, Holds, Fresh, Knowing, LogCommand, Write, Playing
<1>4. Holds'
  BY DEF Holds, Holder, Knowing, LogCommand, Write, Playing
<1>5. Alone'
  BY DEF Alone, Fresh, Holds, Holder, Knowing, LogCommand, Write, Playing
<1>6. Fresher'
  BY DEF Fresher, Alone, Knowing, LogCommand, Write, Playing
<1> QED
  BY <1>1, <1>2, <1>3, <1>4, <1>5, <1>6

LEMMA FinishHeaderOK ==
  ASSUME LockInv, NEW p \in Procs, NEW status \in {"save", "done"}, FinishHeader(p, status)
  PROVE  LockInv'
<1> USE DEF LockInv, LockTypeOK, At, On
<1>0. [log[On(p)] EXCEPT !.st = status] \in LogStates
  BY LogStateType DEF ProcStates
<1>1. LockTypeOK'
  BY <1>0, StageType, WriteType DEF FinishHeader, Playing, Stages
<1>2. Fresh'
  BY DEF Fresh, Knowing, FinishHeader, Write, To, Playing
<1>3. Holder'
  BY NobodyIsNoProcess DEF Holder, Holds, Fresh, Knowing, FinishHeader, Write, To, Playing
<1>4. Holds'
  BY DEF Holds, Holder, Knowing, FinishHeader, Write, To, Playing
<1>5. Alone'
  BY DEF Alone, Fresh, Holds, Holder, Knowing, FinishHeader, Write, To, Playing
<1>6. Fresher'
  BY DEF Fresher, Alone, Knowing, FinishHeader, Write, To, Playing
<1> QED
  BY <1>1, <1>2, <1>3, <1>4, <1>5, <1>6

LEMMA FinishUnlockOK ==
  ASSUME LockInv, NEW p \in Procs, FinishUnlock(p)
  PROVE  LockInv'
<1> USE DEF LockInv, LockTypeOK, At, On
<1>1. LockTypeOK'
  BY StageType DEF FinishUnlock, Drop, Reads, Stages
<1>2. Fresh'
  BY DEF Fresh, FinishUnlock, Drop, To, Reads
<1>3. Holder'
  BY NobodyIsNoProcess DEF Holder, Holds, Fresh, FinishUnlock, Drop, To, Reads
<1>4. Holds'
  BY DEF Holds, Holder, FinishUnlock, Drop, To, Reads
<1>5. Alone'
  BY DEF Alone, Fresh, Holds, Holder, FinishUnlock, Drop, To, Reads
<1>6. Fresher'
  BY DEF Fresher, Alone, FinishUnlock, Drop, To, Reads
<1> QED
  BY <1>1, <1>2, <1>3, <1>4, <1>5, <1>6

LEMMA StoreImageOK ==
  ASSUME LockInv, NEW p \in Procs, StoreImage(p)
  PROVE  LockInv'
<1> USE DEF LockInv, LockTypeOK, At, On
<1>0. [log[On(p)] EXCEPT !.img = TRUE] \in LogStates
  BY LogStateType DEF ProcStates
<1>1. LockTypeOK'
  BY <1>0, StageType, WriteType DEF StoreImage, Stages
<1>2. Fresh'
  BY DEF Fresh, Knowing, StoreImage, Write, To
<1>3. Holder'
  BY NobodyIsNoProcess DEF Holder, Holds, Fresh, Knowing, StoreImage, Write, To
<1>4. Holds'
  BY DEF Holds, Holder, Knowing, StoreImage, Write, To
<1>5. Alone'
  BY DEF Alone, Fresh, Holds, Holder, Knowing, StoreImage, Write, To
<1>6. Fresher'
  BY DEF Fresher, Alone, Knowing, StoreImage, Write, To
<1> QED
  BY <1>1, <1>2, <1>3, <1>4, <1>5, <1>6

LEMMA LogScoreOK ==
  ASSUME LockInv, NEW p \in Procs, LogScore(p)
  PROVE  LockInv'
<1> USE DEF LockInv, LockTypeOK, At, On
<1>0. log[On(p)] \in LogStates
  BY LogStateType DEF ProcStates
<1>1. LockTypeOK'
  BY <1>0, StageType, WriteType DEF LogScore, Stages
<1>2. Fresh'
  BY DEF Fresh, Knowing, LogScore, Write, To
<1>3. Holder'
  BY NobodyIsNoProcess DEF Holder, Holds, Fresh, Knowing, LogScore, Write, To
<1>4. Holds'
  BY DEF Holds, Holder, Knowing, LogScore, Write, To
<1>5. Alone'
  BY DEF Alone, Fresh, Holds, Holder, Knowing, LogScore, Write, To
<1>6. Fresher'
  BY DEF Fresher, Alone, Knowing, LogScore, Write, To
<1> QED
  BY <1>1, <1>2, <1>3, <1>4, <1>5, <1>6

\* Every step keeps the inductive invariant.
LEMMA LockStepOK == LockInv /\ [LockNext]_lockVars => LockInv'
<1> SUFFICES ASSUME LockInv, [LockNext]_lockVars PROVE LockInv'
  OBVIOUS
<1>1. CASE UNCHANGED lockVars
  BY <1>1 DEF lockVars, LockInv, LockTypeOK, Fresh, Holder, Holds, Alone, Fresher, At, On
<1>2. CASE LockNext
  <2>1. PICK p \in Procs : LockStep(p)
    BY <1>2 DEF LockNext
  <2> QED
    BY <2>1, CreateOK, ReadHeaderOK, LockNewOK, LogHeaderOK, TryStatusLockOK, StatusKnownOK,
       SetLogfileOK, ReplayBeginOK, LoadImageOK, LoadFailsOK, ReplayOK, ReplayEndOK,
       LogTruncateOK, LogCommandOK, FinishHeaderOK, FinishUnlockOK, StoreImageOK, LogScoreOK,
       CloseLogOK, CrashOK
    DEF LockStep
<1> QED
  BY <1>1, <1>2

\* The inductive invariant always holds.
LEMMA Invariance == LockSpec => []LockInv
<1>1. LockInit => LockInv
  BY LockInitOK
<1>2. LockInv /\ [LockNext]_lockVars => LockInv'
  BY LockStepOK
<1> QED
  BY <1>1, <1>2, PTL DEF LockSpec

-----------------------------------------------------------------------------
\* Every variable of the lock model keeps its type.
THEOREM TypeCorrect == LockSpec => []LockTypeOK
<1>1. LockInv => LockTypeOK
  BY DEF LockInv
<1> QED
  BY <1>1, Invariance, PTL

\* A game in its first sitting belongs to the process that started it, and no
\* log is loaded or replayed twice at a time (log_newgame, replay_set_logfile).
THEOREM NewGamesAreOwn == LockSpec => []NewGameIsOwn
<1>1. LockInv => NewGameIsOwn
  <2> SUFFICES ASSUME LockInv PROVE NewGameIsOwn
    OBVIOUS
  <2> USE DEF LockInv, LockTypeOK, At, On
  <2>1. ASSUME NEW p \in Procs, At(p) = "created" PROVE Free(p)
    <3> SUFFICES ASSUME lock[On(p)] \in Procs PROVE FALSE
      BY DEF Free, ProcStates
    <3>1. At(lock[On(p)]) # "menu" /\ lock[On(p)] # p /\ On(lock[On(p)]) = On(p)
      BY <2>1 DEF Holder, ProcStates
    <3> QED
      BY <2>1, <3>1 DEF Fresh
  <2>2. ASSUME NEW p \in Procs, At(p) = "first"
        PROVE  /\ p \notin stale
               /\ \A q \in Procs \ {p} : On(q) = On(p) => At(q) \notin Counting \cup Knowing
    BY <2>2 DEF Alone, Fresher, Counting, Knowing
  <2>3. ASSUME NEW p \in Procs, NEW q \in Procs, p # q, On(p) = On(q)
        PROVE  ~({At(p), At(q)} \subseteq {"begin", "loading", "loaded"})
    BY <2>3 DEF Holds
  <2> QED
    BY <2>1, <2>2, <2>3 DEF NewGameIsOwn
<1> QED
  BY <1>1, Invariance, PTL

\* Every way out of a status request, a restore or a game gives the lock back.
THEOREM LocksAreGivenBack == LockSpec => []NoForgottenLock
<1>1. LockInv => NoForgottenLock
  BY DEF LockInv, Holder, NoForgottenLock
<1> QED
  BY <1>1, Invariance, PTL
-----------------------------------------------------------------------------
\* The games of one directory share its logs as LogLock says: no other step
\* touches a log, so what holds of the locks holds here.
LEMMA LogsAreShared == Spec => LockSpec
<1>1. Init => LockInit
  BY DEF Init
<1>2. [Next]_vars => [LockNext]_lockVars
  BY DEF Next, vars, Contend, WithBones, WithScores, Exit, LockNext
<1> QED
  BY <1>1, <1>2, PTL DEF Spec, LockSpec

\* A game in its first sitting is its creator's alone, and every lock is given
\* back, with everything else that processes do.
THEOREM LocksAreRight == Spec => [](NewGameIsOwn /\ NoForgottenLock)
<1> QED
  BY LogsAreShared, NewGamesAreOwn, LocksAreGivenBack, PTL

-----------------------------------------------------------------------------
(* The bones.                                                              *)

\* One process at a time plays a game, but for those in twice.
Seats == \A p, q \in Heroes : Game(p) \in Games \ twice /\ Game(p) = Game(q) => p = q

\* The log says of a game what its process has done about it, unless two have
\* played it or one died with the death in the log and the log not finished.
Fates ==
  /\ \A p \in Heroes : /\ Game(p) \in Games <=> ~Is(p, "away")
                       /\ Game(p) \in Games => fate[Game(p)] # "new"
                       /\ Game(p) \notin twice =>
                            /\ hero[p].at \in {"plays", "read", "arrives"} => fate[Game(p)] = "alive"
                            /\ Is(p, "judged") => fate[Game(p)] = "judged"
                            /\ hero[p].at \in {"dead", "writes", "buried"} => fate[Game(p)] = "over"
  /\ \A g \in Games \ twice : fate[g] = "judged" => \E p \in Heroes : Game(p) = g

\* No level, no file and no process holds bones of g.
NoTrace(g) ==
  /\ bones # g
  /\ \A h \in Games : level[h] # g
  /\ \A p \in Heroes : hero[p].level # g

\* Whose bones have not been put in place yet.
Unburied(g) == fate[g] # "over" \/ \E p \in Heroes : Game(p) = g /\ hero[p].at \in {"dead", "writes"}
NotYet == \A g \in Games \ twice : Unburied(g) => NoTrace(g)

Once(b) ==
  /\ \A g, h \in Games : Has(g, b) /\ Has(h, b) => g = h
  /\ bones = b => \A g \in Games : ~Has(g, b)
FoundOnce == ~wiped => \A b \in Buried \ twice : Once(b)

BonesInv == BonesTypeOK /\ Seats /\ Fates /\ NotYet /\ FoundOnce

\* A game is on the list of what was scored once, after all else its process
\* does about it.
Scored ==
  /\ \A p \in Procs : spc[p].at # "ready" => Is(p, "buried")
  /\ \A i, j \in DOMAIN scored : scored[i] = scored[j] /\ scored[i] \in Games \ twice => i = j
  /\ \A i \in DOMAIN scored : scored[i] \in Games \ twice =>
       /\ fate[scored[i]] = "over"
       /\ \A p \in Procs : Game(p) = scored[i] =>
                            Is(p, "buried") /\ spc[p].at \notin {"ready", "locked"}

-----------------------------------------------------------------------------
(* The steps of one process with the bones.                                *)

HeroStages == {"away", "plays", "read", "arrives", "judged", "dead", "writes", "buried"}

HeroTypes == [at : HeroStages, game : Games \cup {None}, level : Buried \cup {"fresh", None}, locks : BOOLEAN]

LEMMA HeroType ==
  ASSUME BonesTypeOK, NEW p \in Heroes
  PROVE  hero[p] \in HeroTypes
BY DEF BonesTypeOK, HeroStages, HeroTypes

LEMMA BeginOK ==
  ASSUME BonesInv, NEW p \in Heroes, NEW g \in Games, Begin(p, g)
  PROVE  BonesInv'
<1> USE BonesAssumption DEF BonesInv, BonesTypeOK, HeroStages, HeroTypes, Is, Game, Goes, Buried
<1>0. hero[p] \in HeroTypes
  BY HeroType
<1>1. BonesTypeOK'
  BY <1>0 DEF Begin, Away, Lose, Fates
<1>2. Seats'
  BY <1>0 DEF Seats, Fates, Begin, Away
<1>3. Fates'
  BY <1>0 DEF Fates, Seats, Begin, Away
<1>4. NotYet'
  BY <1>0 DEF NotYet, NoTrace, Unburied, Fates, Seats, Begin, Away
<1>5. FoundOnce'
  BY <1>0 DEF FoundOnce, Once, Has, NotYet, NoTrace, Unburied, Fates, Begin, Away, Lose
<1> QED
  BY <1>1, <1>2, <1>3, <1>4, <1>5

LEMMA SitOK ==
  ASSUME BonesInv, NEW p \in Heroes, NEW g \in Games, Sit(p, g)
  PROVE  BonesInv'
<1> USE BonesAssumption DEF BonesInv, BonesTypeOK, HeroStages, HeroTypes, Is, Game, Goes, Buried
<1>0. hero[p] \in HeroTypes
  BY HeroType
<1>1. BonesTypeOK'
  BY <1>0 DEF Sit, Away, Lose, Fates
<1>2. Seats'
  BY <1>0 DEF Seats, Sit, Away
<1>3. Fates'
  BY <1>0 DEF Fates, Seats, Sit, Away
<1>4. NotYet'
  BY <1>0 DEF NotYet, NoTrace, Unburied, Fates, Seats, Sit, Away
<1>5. FoundOnce'
  BY <1>0 DEF FoundOnce, Once, Has, NotYet, NoTrace, Unburied, Fates, Sit, Away, Lose
<1> QED
  BY <1>1, <1>2, <1>3, <1>4, <1>5

LEMMA GoneOK ==
  ASSUME BonesInv, NEW p \in Heroes, Gone(p)
  PROVE  BonesInv'
<1> USE BonesAssumption DEF BonesInv, BonesTypeOK, HeroStages, HeroTypes, Is, Game, Goes, Buried
<1>0. hero[p] \in HeroTypes
  BY HeroType
<1>1. BonesTypeOK'
  BY <1>0 DEF Gone, Away, Lose, Fates
<1>2. Seats'
  BY <1>0 DEF Seats, Gone, Away
<1>3. Fates'
  BY <1>0 DEF Fates, Seats, Gone, Away
<1>4. NotYet'
  BY <1>0 DEF NotYet, NoTrace, Unburied, Fates, Seats, Gone, Away
<1>5. FoundOnce'
  BY <1>0 DEF FoundOnce, Once, Has, NotYet, NoTrace, Unburied, Fates, Gone, Away, Lose
<1> QED
  BY <1>1, <1>2, <1>3, <1>4, <1>5

LEMMA MakeLevelOK ==
  ASSUME BonesInv, NEW p \in Heroes, MakeLevel(p)
  PROVE  BonesInv'
<1> USE BonesAssumption DEF BonesInv, BonesTypeOK, HeroStages, HeroTypes, Is, Game, Goes, Buried
<1>0. hero[p] \in HeroTypes
  BY HeroType
<1>1. BonesTypeOK'
  BY <1>0 DEF MakeLevel, Away, Lose, Fates
<1>2. Seats'
  BY <1>0 DEF Seats, MakeLevel, Away
<1>3. Fates'
  BY <1>0 DEF Fates, Seats, MakeLevel, Away
<1>4. NotYet'
  BY <1>0 DEF NotYet, NoTrace, Unburied, Fates, Seats, MakeLevel, Away
<1>5. FoundOnce'
  BY <1>0 DEF FoundOnce, Once, Has, NotYet, NoTrace, Unburied, Fates, MakeLevel, Away, Lose
<1> QED
  BY <1>1, <1>2, <1>3, <1>4, <1>5

LEMMA ReadBonesOK ==
  ASSUME BonesInv, NEW p \in Heroes, ReadBones(p)
  PROVE  BonesInv'
<1> USE BonesAssumption DEF BonesInv, BonesTypeOK, HeroStages, HeroTypes, Is, Game, Goes, Buried
<1>0. hero[p] \in HeroTypes
  BY HeroType
<1>1. BonesTypeOK'
  BY <1>0 DEF ReadBones, Away, Lose, Fates
<1>2. Seats'
  BY <1>0 DEF Seats, ReadBones, Away
<1>3. Fates'
  BY <1>0 DEF Fates, Seats, ReadBones, Away
<1>4. NotYet'
  BY <1>0 DEF NotYet, NoTrace, Unburied, Fates, Seats, ReadBones, Away
<1>5. FoundOnce'
  BY <1>0 DEF FoundOnce, Once, Has, NotYet, NoTrace, Unburied, Fates, ReadBones, Away, Lose
<1> QED
  BY <1>1, <1>2, <1>3, <1>4, <1>5

LEMMA DeleteBonesOK ==
  ASSUME BonesInv, NEW p \in Heroes, DeleteBones(p)
  PROVE  BonesInv'
<1> USE BonesAssumption DEF BonesInv, BonesTypeOK, HeroStages, HeroTypes, Is, Game, Goes, Buried
<1>0. hero[p] \in HeroTypes
  BY HeroType
<1>1. BonesTypeOK'
  BY <1>0 DEF DeleteBones, Away, Lose, Fates
<1>2. Seats'
  BY <1>0 DEF Seats, DeleteBones, Away
<1>3. Fates'
  BY <1>0 DEF Fates, Seats, DeleteBones, Away
<1>4. NotYet'
  BY <1>0 DEF NotYet, NoTrace, Unburied, Fates, Seats, DeleteBones, Away
<1>5. FoundOnce'
  <2>1. /\ bones' = None /\ level' = level /\ twice' = twice /\ (~wiped' => ~wiped)
        /\ ~wiped' => bones = None \/ bones = hero[p].level
    BY DEF DeleteBones, Lose
  <2>2. hero'[p].game = hero[p].game /\ \A q \in Heroes \ {p} : hero'[q] = hero[q]
    BY <1>0 DEF DeleteBones
  <2>3. hero'[p].level = IF bones # None THEN hero[p].level ELSE "fresh"
    BY <1>0 DEF DeleteBones
  <2>4. ASSUME ~wiped', NEW b \in Buried, NEW h \in Games, Has(h, b)'
        PROVE  Has(h, b) \/ (bones = b /\ h = hero[p].game)
    BY <2>1, <2>2, <2>3, <2>4 DEF Has
  <2> QED
    BY <2>1, <2>4 DEF FoundOnce, Once
<1> QED
  BY <1>1, <1>2, <1>3, <1>4, <1>5

LEMMA LogResultOK ==
  ASSUME BonesInv, NEW p \in Heroes, LogResult(p)
  PROVE  BonesInv'
<1> USE BonesAssumption DEF BonesInv, BonesTypeOK, HeroStages, HeroTypes, Is, Game, Goes, Buried
<1>0. hero[p] \in HeroTypes
  BY HeroType
<1>1. BonesTypeOK'
  BY <1>0 DEF LogResult, Away, Lose, Fates
<1>2. Seats'
  BY <1>0 DEF Seats, LogResult, Away
<1>3. Fates'
  BY <1>0 DEF Fates, Seats, LogResult, Away
<1>4. NotYet'
  BY <1>0 DEF NotYet, NoTrace, Unburied, Fates, Seats, LogResult, Away
<1>5. FoundOnce'
  BY <1>0 DEF FoundOnce, Once, Has, NotYet, NoTrace, Unburied, Fates, LogResult, Away, Lose
<1> QED
  BY <1>1, <1>2, <1>3, <1>4, <1>5

LEMMA JudgeOK ==
  ASSUME BonesInv, NEW p \in Heroes, Judge(p)
  PROVE  BonesInv'
<1> USE BonesAssumption DEF BonesInv, BonesTypeOK, HeroStages, HeroTypes, Is, Game, Goes, Buried
<1>0. hero[p] \in HeroTypes
  BY HeroType
<1>1. BonesTypeOK'
  BY <1>0 DEF Judge, Away, Lose, Fates
<1>2. Seats'
  BY <1>0 DEF Seats, Judge, Away
<1>3. Fates'
  BY <1>0 DEF Fates, Seats, Judge, Away
<1>4. NotYet'
  BY <1>0 DEF NotYet, NoTrace, Unburied, Fates, Seats, Judge, Away
<1>5. FoundOnce'
  <2>1. ASSUME NEW b \in Buried, NEW h \in Games, Has(h, b)' PROVE Has(h, b)
    BY <1>0, <2>1 DEF Has, Fates, Judge
  <2> QED
    BY <2>1 DEF FoundOnce, Once, Judge
<1> QED
  BY <1>1, <1>2, <1>3, <1>4, <1>5

LEMMA FinishLogOK ==
  ASSUME BonesInv, NEW p \in Heroes, FinishLog(p)
  PROVE  BonesInv'
<1> USE BonesAssumption DEF BonesInv, BonesTypeOK, HeroStages, HeroTypes, Is, Game, Goes, Buried
<1>0. hero[p] \in HeroTypes
  BY HeroType
<1>1. BonesTypeOK'
  BY <1>0 DEF FinishLog, Away, Lose, Fates
<1>2. Seats'
  BY <1>0 DEF Seats, FinishLog, Away
<1>3. Fates'
  BY <1>0 DEF Fates, Seats, FinishLog, Away
<1>4. NotYet'
  BY <1>0 DEF NotYet, NoTrace, Unburied, Fates, Seats, FinishLog, Away
<1>5. FoundOnce'
  <2>1. ASSUME NEW b \in Buried, NEW h \in Games, Has(h, b)' PROVE Has(h, b)
    BY <1>0, <2>1 DEF Has, Fates, FinishLog
  <2> QED
    BY <2>1 DEF FoundOnce, Once, FinishLog
<1> QED
  BY <1>1, <1>2, <1>3, <1>4, <1>5

LEMMA NoNewBonesOK ==
  ASSUME BonesInv, NEW p \in Heroes, NoNewBones(p)
  PROVE  BonesInv'
<1> USE BonesAssumption DEF BonesInv, BonesTypeOK, HeroStages, HeroTypes, Is, Game, Goes, Buried
<1>0. hero[p] \in HeroTypes
  BY HeroType
<1>1. BonesTypeOK'
  BY <1>0 DEF NoNewBones, Away, Lose, Fates
<1>2. Seats'
  BY <1>0 DEF Seats, NoNewBones, Away
<1>3. Fates'
  BY <1>0 DEF Fates, Seats, NoNewBones, Away
<1>4. NotYet'
  BY <1>0 DEF NotYet, NoTrace, Unburied, Fates, Seats, NoNewBones, Away
<1>5. FoundOnce'
  BY <1>0 DEF FoundOnce, Once, Has, NotYet, NoTrace, Unburied, Fates, NoNewBones, Away, Lose
<1> QED
  BY <1>1, <1>2, <1>3, <1>4, <1>5

LEMMA LookForBonesOK ==
  ASSUME BonesInv, NEW p \in Heroes, LookForBones(p)
  PROVE  BonesInv'
<1> USE BonesAssumption DEF BonesInv, BonesTypeOK, HeroStages, HeroTypes, Is, Game, Goes, Buried
<1>0. hero[p] \in HeroTypes
  BY HeroType
<1>1. BonesTypeOK'
  BY <1>0 DEF LookForBones, Away, Lose, Fates
<1>2. Seats'
  BY <1>0 DEF Seats, LookForBones, Away
<1>3. Fates'
  BY <1>0 DEF Fates, Seats, LookForBones, Away
<1>4. NotYet'
  BY <1>0 DEF NotYet, NoTrace, Unburied, Fates, Seats, LookForBones, Away
<1>5. FoundOnce'
  BY <1>0 DEF FoundOnce, Once, Has, NotYet, NoTrace, Unburied, Fates, LookForBones, Away, Lose
<1> QED
  BY <1>1, <1>2, <1>3, <1>4, <1>5

LEMMA CommitBonesOK ==
  ASSUME BonesInv, NEW p \in Heroes, CommitBones(p)
  PROVE  BonesInv'
<1> USE BonesAssumption DEF BonesInv, BonesTypeOK, HeroStages, HeroTypes, Is, Game, Goes, Buried
<1>0. hero[p] \in HeroTypes
  BY HeroType
<1>1. BonesTypeOK'
  BY <1>0 DEF CommitBones, Away, Lose, Fates
<1>2. Seats'
  BY <1>0 DEF Seats, CommitBones, Away
<1>3. Fates'
  BY <1>0 DEF Fates, Seats, CommitBones, Away
<1>4. NotYet'
  BY <1>0 DEF NotYet, NoTrace, Unburied, Fates, Seats, CommitBones, Away
<1>5. FoundOnce'
  BY <1>0 DEF FoundOnce, Once, Has, NotYet, NoTrace, Unburied, Fates, CommitBones, Away, Lose
<1> QED
  BY <1>1, <1>2, <1>3, <1>4, <1>5

\* One step of one process.
LEMMA WithBonesOK ==
  ASSUME BonesInv, NEW p \in Procs, WithBones(p)
  PROVE  BonesInv'
BY SharedAssumption, BeginOK, SitOK, MakeLevelOK, ReadBonesOK, DeleteBonesOK, LogResultOK, JudgeOK, FinishLogOK,
   NoNewBonesOK, LookForBonesOK, CommitBonesOK DEF WithBones

LEMMA BonesIdle == BonesInv /\ UNCHANGED bonesVars => BonesInv'
BY DEF bonesVars, BonesInv, BonesTypeOK, Seats, Fates, NotYet, NoTrace, Unburied, FoundOnce, Once, Has, Is, Game

LEMMA BonesStepOK == BonesInv /\ [Next]_vars => BonesInv'
<1> SUFFICES ASSUME BonesInv, [Next]_vars PROVE BonesInv'
  OBVIOUS
<1>1. CASE UNCHANGED vars
  BY <1>1, BonesIdle DEF vars
<1>2. ASSUME NEW p \in Procs, Contend(p) \/ WithScores(p)
      PROVE  BonesInv'
  BY <1>2, BonesIdle DEF Contend, WithScores
<1>3. ASSUME NEW p \in Procs, WithBones(p)
      PROVE  BonesInv'
  BY <1>3, WithBonesOK
<1>4. ASSUME NEW p \in Procs, Exit(p)
      PROVE  BonesInv'
  BY <1>4, GoneOK, SharedAssumption DEF Exit
<1> QED
  BY <1>1, <1>2, <1>3, <1>4 DEF Next

LEMMA BonesInitOK == Init => BonesInv
<1> SUFFICES ASSUME Init PROVE BonesInv
  OBVIOUS
<1> USE BonesAssumption DEF Init, BonesInit, Away, Is, Game, Buried
<1>1. BonesTypeOK
  BY DEF BonesTypeOK
<1>2. Seats /\ Fates
  BY DEF Seats, Fates
<1>3. NotYet
  BY DEF NotYet, NoTrace, Unburied
<1>4. FoundOnce
  BY DEF FoundOnce, Once, Has
<1> QED
  BY <1>1, <1>2, <1>3, <1>4 DEF BonesInv

\* Where at most one thing is, a count finds at most one.
LEMMA AtMostOne ==
  ASSUME NEW T, \A x, y \in T : x = y
  PROVE  IsFiniteSet(T) /\ Cardinality(T) \in {0, 1} /\ (T = {} => Cardinality(T) = 0)
<1>1. CASE T = {}
  BY <1>1, FS_EmptySet
<1>2. CASE T # {}
  <2>1. PICK x \in T : TRUE
    BY <1>2
  <2>2. T = {x}
    BY <2>1
  <2> QED
    BY <2>2, FS_Singleton
<1> QED
  BY <1>1, <1>2

LEMMA BonesInvOnce == BonesInv => BonesOnce
<1> SUFFICES ASSUME BonesInv, NEW b \in Buried, ~wiped, b \notin twice
             PROVE  Copies(b) \in {0, 1}
  BY DEF BonesOnce
<1> DEFINE T == {g \in Games : Has(g, b)}
<1>1. Once(b)
  BY DEF BonesInv, FoundOnce
<1>2. Cardinality(T) \in {0, 1} /\ (T = {} => Cardinality(T) = 0)
  <2>1. \A x, y \in T : x = y
    BY <1>1 DEF Once
  <2> HIDE DEF T
  <2> QED
    BY <2>1, AtMostOne
<1>3. bones = b => T = {}
  BY <1>1 DEF Once
<1> HIDE DEF T
<1>4. Copies(b) = Cardinality(T) + (IF bones = b THEN 1 ELSE 0)
  BY DEF Copies, T
<1> QED
  BY <1>2, <1>3, <1>4

-----------------------------------------------------------------------------
(* toptenlist_insert                                                       *)

SpcStages == {"ready", "locked", "rewrite", "write", "unlock", "scored"}

LEMMA PartOf ==
  ASSUME NEW s \in Seq(Entries), NEW a \in Nat, NEW b \in Nat, 1 <= a, b <= Len(s)
  PROVE  /\ SubSeq(s, a, b) \in Seq(Entries)
         /\ Len(SubSeq(s, a, b)) = IF a <= b THEN b - a + 1 ELSE 0
OBVIOUS

LEMMA JoinOf ==
  ASSUME NEW s \in Seq(Entries), NEW t \in Seq(Entries)
  PROVE  s \o t \in Seq(Entries) /\ Len(s \o t) = Len(s) + Len(t)
OBVIOUS

\* Where an entry goes and which one makes room, in a list it belongs on.
LEMMA InsDelBounds ==
  ASSUME NEW list \in Seq(Entries), NEW x \in Entries, MakesList(list, x), Len(list) <= TTLISTLEN
  PROVE  /\ Ins(list, x) \in 1 .. Len(list) + 1 /\ Ins(list, x) <= TTLISTLEN
         /\ Del(list, x) \in Ins(list, x) .. Len(list) + 1 /\ Del(list, x) <= TTLISTLEN
<1> DEFINE B == Better(list, x)
           mine == Mine(list, x)
           ins == Ins(list, x)
<1>1. Len(list) \in Nat /\ B \subseteq 1 .. Len(list)
  BY DEF Better
<1>2. IsFiniteSet(1 .. Len(list)) /\ Cardinality(1 .. Len(list)) = Len(list)
  BY <1>1, FS_Interval
<1>3. IsFiniteSet(B) /\ Cardinality(B) <= Len(list) /\ Cardinality(B) \in Nat
  BY <1>1, <1>2, FS_Subset, FS_CardinalityType
<1>4. mine \in Nat
  BY <1>3, FS_Subset, FS_CardinalityType DEF Mine
<1>5. ins = Cardinality(B) + 1 /\ mine < PLAYERMAX /\ ins <= TTLISTLEN
  BY DEF MakesList, Ins
<1> HIDE DEF mine
<1> HIDE DEF ins
<1> HIDE DEF B
<1>6. ins \in 1 .. Len(list) + 1
  BY <1>1, <1>3, <1>5
<1> DEFINE end == Len(list) + 1
           later == ins + PLAYERMAX - mine - 1
           own == ins < end /\ Player[list[ins]] = Player[x]
           del == IF own /\ later < end THEN later ELSE end
<1>7. del \in ins .. end
  BY <1>1, <1>4, <1>5, <1>6, ScoreAssumption
<1>8. Del(list, x) = IF del > TTLISTLEN THEN TTLISTLEN ELSE del
  BY DEF Del, mine, ins
<1> HIDE DEF del
<1>9. Del(list, x) \in ins .. end /\ Del(list, x) <= TTLISTLEN
  BY <1>1, <1>5, <1>6, <1>7, <1>8, ScoreAssumption
<1> QED
  BY <1>5, <1>6, <1>9 DEF ins

LEMMA InsertType ==
  ASSUME NEW list \in Seq(Entries), NEW x \in Entries, MakesList(list, x), Len(list) <= TTLISTLEN
  PROVE  Insert(list, x) \in Seq(Entries) /\ Len(Insert(list, x)) <= TTLISTLEN
<1> DEFINE ins == Ins(list, x)
           del == Del(list, x)
           a == SubSeq(list, 1, ins - 1)
           b == <<x>>
           c == SubSeq(list, ins, del - 1)
           d == SubSeq(list, del + 1, Len(list))
<1>1. /\ Len(list) \in Nat /\ ins \in 1 .. Len(list) + 1 /\ ins <= TTLISTLEN
      /\ del \in ins .. Len(list) + 1 /\ del <= TTLISTLEN
  BY InsDelBounds
<1>2. Insert(list, x) = ((a \o b) \o c) \o d
  BY DEF Insert
<1> HIDE DEF ins
<1> HIDE DEF del
<1>3. a \in Seq(Entries) /\ Len(a) = ins - 1
  BY <1>1, PartOf
<1>4. b \in Seq(Entries) /\ Len(b) = 1
  OBVIOUS
<1>5. c \in Seq(Entries) /\ Len(c) = del - ins
  BY <1>1, PartOf
<1>6. d \in Seq(Entries) /\ Len(d) = IF del <= Len(list) THEN Len(list) - del ELSE 0
  BY <1>1, PartOf
<1> HIDE DEF a, b, c, d
<1>7. a \o b \in Seq(Entries) /\ Len(a \o b) = ins
  <2>1. a \o b \in Seq(Entries) /\ Len(a \o b) = Len(a) + Len(b)
    BY ONLY <1>3, <1>4, JoinOf
  <2> QED
    BY <1>1, <1>3, <1>4, <2>1
<1>8. (a \o b) \o c \in Seq(Entries) /\ Len((a \o b) \o c) = del
  <2>1. (a \o b) \o c \in Seq(Entries) /\ Len((a \o b) \o c) = Len(a \o b) + Len(c)
    BY ONLY <1>5, <1>7, JoinOf
  <2> QED
    BY <1>1, <1>5, <1>7, <2>1
<1>9. ((a \o b) \o c) \o d \in Seq(Entries) /\ Len(((a \o b) \o c) \o d) = del + Len(d)
  BY ONLY <1>6, <1>8, JoinOf
<1> QED
  BY <1>1, <1>2, <1>6, <1>9

-----------------------------------------------------------------------------
(* The steps of one process with the scores.                               *)

SpcTypes == [at : SpcStages, list : Seq(Entries)]

LEMMA ScoreStepTypes ==
  ASSUME ScoreTypeOK, NEW p \in Losers, NEW x \in Entries, ScoreStep(p, x)
  PROVE  ScoreTypeOK'
<1> USE ScoreAssumption DEF SpcStages, SpcTypes
<1>1. /\ record \in Seq(Entries) /\ Len(record) <= TTLISTLEN /\ Len(record) \in Nat
      /\ spc \in [Losers -> SpcTypes] /\ spc[p] \in SpcTypes /\ Len(spc[p].list) <= TTLISTLEN
      /\ scored \in Seq(Entries) /\ rlock \in Losers \cup {NoOne} /\ torn \in BOOLEAN
      /\ \A q \in Losers : Len(spc[q].list) <= TTLISTLEN
  BY DEF ScoreTypeOK
<1>2. <<>> \in Seq(Entries) /\ Len(<<>>) = 0 /\ 0 <= TTLISTLEN
  OBVIOUS
<1>3. ASSUME NEW at \in SpcStages, NEW l \in Seq(Entries), Len(l) <= TTLISTLEN,
             spc' = [spc EXCEPT ![p] = [at |-> at, list |-> l]],
             record' \in Seq(Entries), Len(record') <= TTLISTLEN, scored' \in Seq(Entries),
             rlock' \in Losers \cup {NoOne}, torn' \in BOOLEAN
      PROVE  ScoreTypeOK'
  <2>1. [at |-> at, list |-> l] \in SpcTypes
    OBVIOUS
  <2>2. spc' \in [Losers -> SpcTypes] /\ spc'[p].list = l /\ \A q \in Losers \ {p} : spc'[q] = spc[q]
    BY <1>1, <1>3, <2>1
  <2>3. \A q \in Losers : Len(spc'[q].list) <= TTLISTLEN
    BY <1>1, <1>3, <2>2
  <2> QED
    BY <1>3, <2>2, <2>3 DEF ScoreTypeOK
<1>4. ASSUME NEW at \in SpcStages, spc' = [spc EXCEPT ![p].at = at],
             record' \in Seq(Entries), Len(record') <= TTLISTLEN, scored' \in Seq(Entries),
             rlock' \in Losers \cup {NoOne}, torn' \in BOOLEAN
      PROVE  ScoreTypeOK'
  <2>1. [spc[p] EXCEPT !.at = at] = [at |-> at, list |-> spc[p].list] /\ spc[p].list \in Seq(Entries)
    BY <1>1
  <2>2. spc' = [spc EXCEPT ![p] = [at |-> at, list |-> spc[p].list]]
    BY <1>4, <2>1
  <2> QED
    BY <1>1, <1>3, <1>4, <2>1, <2>2
<1>5. CASE LockScores(p) \/ GiveUp(p)
  <2>1. PICK at \in {"locked", "scored"} : spc' = [spc EXCEPT ![p].at = at]
    BY <1>5 DEF LockScores, GiveUp, Moves
  <2>2. record' = record /\ scored' = scored /\ torn' = torn /\ rlock' \in Losers \cup {NoOne}
    BY <1>1, <1>5 DEF LockScores, GiveUp
  <2> QED
    BY <1>1, <1>4, <2>1, <2>2
<1>6. CASE ReadScores(p, x)
  <2>1. scored' \in Seq(Entries) /\ UNCHANGED <<record, rlock, torn>>
    BY <1>1, <1>6 DEF ReadScores
  <2>2. CASE MakesList(record, x)
    <3>1. spc' = [spc EXCEPT ![p] = [at |-> "rewrite", list |-> Insert(record, x)]]
      BY <1>6, <2>2 DEF ReadScores
    <3>2. Insert(record, x) \in Seq(Entries) /\ Len(Insert(record, x)) <= TTLISTLEN
      BY <1>1, <2>2, InsertType
    <3> QED
      BY <1>1, <1>3, <2>1, <3>1, <3>2
  <2>3. CASE ~MakesList(record, x)
    <3>1. spc' = [spc EXCEPT ![p] = [at |-> "unlock", list |-> <<>>]]
      BY <1>6, <2>3 DEF ReadScores
    <3> QED
      BY <1>1, <1>2, <1>3, <2>1, <3>1
  <2> QED
    BY <2>2, <2>3
<1>7. CASE EmptyScores(p)
  <2>1. record' = <<>> /\ spc' = [spc EXCEPT ![p].at = "write"] /\ UNCHANGED <<rlock, scored, torn>>
    BY <1>7 DEF EmptyScores, Moves
  <2> QED
    BY <1>1, <1>2, <1>4, <2>1
<1>8. CASE WriteScore(p)
  <2>1. /\ spc[p].list \in Seq(Entries) /\ Len(spc[p].list) \in Nat /\ Len(record) < Len(spc[p].list)
        /\ record' = Append(record, spc[p].list[Len(record) + 1]) /\ UNCHANGED <<rlock, spc, scored, torn>>
    BY <1>1, <1>8 DEF WriteScore
  <2>2. record' \in Seq(Entries) /\ Len(record') <= TTLISTLEN
    BY <1>1, <2>1
  <2> QED
    BY <1>1, <2>1, <2>2 DEF ScoreTypeOK
<1>9. CASE UnlockScores(p)
  <2>1. spc' = [spc EXCEPT ![p] = [at |-> "scored", list |-> <<>>]] /\ UNCHANGED <<record, scored, torn>>
    BY <1>9 DEF UnlockScores
  <2>2. rlock' \in Losers \cup {NoOne}
    BY <1>1, <1>9 DEF UnlockScores
  <2> QED
    BY <1>1, <1>2, <1>3, <2>1, <2>2
<1> QED
  BY <1>5, <1>6, <1>7, <1>8, <1>9 DEF ScoreStep

LEMMA ScoreTypesKept ==
  BonesInv /\ ScoreTypeOK /\ [Next]_vars => ScoreTypeOK'
<1> SUFFICES ASSUME BonesInv, ScoreTypeOK, [Next]_vars PROVE ScoreTypeOK'
  OBVIOUS
<1>1. ASSUME UNCHANGED scoreVars PROVE ScoreTypeOK'
  BY <1>1 DEF scoreVars, ScoreTypeOK
<1>2. ASSUME NEW p \in Procs, WithScores(p) PROVE ScoreTypeOK'
  <2>1. p \in Losers /\ hero[p].game \in Entries /\ ScoreStep(p, hero[p].game)
    BY <1>2, SharedAssumption DEF WithScores, BonesInv, Fates, Is, Game
  <2> QED
    BY <2>1, ScoreStepTypes
<1>3. ASSUME NEW p \in Procs, Exit(p) PROVE ScoreTypeOK'
  <2>1. <<>> \in Seq(Entries) /\ Len(<<>>) = 0 /\ 0 <= TTLISTLEN
    BY ScoreAssumption
  <2>2. Ready \in SpcTypes /\ Ready.list = <<>>
    BY <2>1 DEF Ready, SpcTypes, SpcStages
  <2>3. /\ spc' = [spc EXCEPT ![p] = Ready] /\ UNCHANGED <<record, scored>>
        /\ torn' \in BOOLEAN /\ rlock' \in Losers \cup {NoOne}
    BY <1>3 DEF Exit, ScoresGone, ScoreTypeOK
  <2>4. spc' \in [Losers -> SpcTypes] /\ \A q \in Losers : spc'[q] = spc[q] \/ spc'[q] = Ready
    BY <2>2, <2>3 DEF ScoreTypeOK, SpcTypes, SpcStages
  <2> QED
    BY <2>1, <2>2, <2>3, <2>4 DEF ScoreTypeOK, SpcTypes, SpcStages
<1> QED
  BY <1>1, <1>2, <1>3 DEF Next, vars, Contend, WithBones

\* What a step leaves alone that neither scores nor touches a game that has a
\* score.
LEMMA ScoresAside ==
  ASSUME BonesInv, ScoreTypeOK, ScoreTypeOK', Scored, NEW p \in Procs,
         scored' = scored, twice \subseteq twice', spc'[p].at = "ready", UNCHANGED part,
         \A q \in Procs \ {p} : spc'[q] = spc[q] /\ hero'[q] = hero[q],
         \A i \in DOMAIN scored : scored[i] \in Games \ twice' =>
           hero'[p].game # scored[i] /\ fate'[scored[i]] = fate[scored[i]]
  PROVE  Scored'
BY SharedAssumption DEF Scored, Is, Game

\* The end of a game comes before its score: no step with the bones touches a
\* game that has one.
LEMMA ScoresAfterBones ==
  ASSUME BonesInv, ScoreTypeOK, ScoreTypeOK', Scored, NEW p \in Procs, WithBones(p)
  PROVE  Scored'
<1> USE BonesAssumption, SharedAssumption
    DEF Is, Game, Goes, WithBones, scoreVars, Begin, Sit, MakeLevel, ReadBones, DeleteBones, LogResult, Judge, FinishLog,
        NoNewBones, LookForBones, CommitBones
<1>1. p \in Heroes /\ hero[p] \in HeroTypes
  BY HeroType DEF BonesInv
<1>2. spc' = spc /\ scored' = scored /\ twice \subseteq twice' /\ part' = part
  OBVIOUS
<1>3. spc[p].at = "ready"
  BY DEF Scored
<1>4. \A q \in Heroes \ {p} : hero'[q] = hero[q]
  BY <1>1 DEF BonesInv, BonesTypeOK
<1>5. \A i \in DOMAIN scored : scored[i] \in Games \ twice' =>
        hero'[p].game # scored[i] /\ fate'[scored[i]] = fate[scored[i]]
  BY <1>1, <1>3 DEF Scored, BonesInv, BonesTypeOK
<1> QED
  BY <1>2, <1>3, <1>4, <1>5, ScoresAside

LEMMA ScoresAfterExit ==
  ASSUME BonesInv, ScoreTypeOK, ScoreTypeOK', Scored, NEW p \in Procs, Exit(p)
  PROVE  Scored'
<1> USE BonesAssumption, SharedAssumption
    DEF Is, Game, Exit, Gone, ScoresGone, Ready, Away
<1>1. /\ hero' = [hero EXCEPT ![p] = Away] /\ spc' = [spc EXCEPT ![p] = Ready]
      /\ UNCHANGED <<scored, fate, part>> /\ twice \subseteq twice'
  OBVIOUS
<1>2. spc'[p].at = "ready" /\ hero'[p].game = None
  BY <1>1 DEF ScoreTypeOK, BonesInv, BonesTypeOK
<1>3. \A q \in Procs \ {p} : spc'[q] = spc[q] /\ hero'[q] = hero[q]
  BY <1>1 DEF ScoreTypeOK, BonesInv, BonesTypeOK
<1> QED
  BY <1>1, <1>2, <1>3, ScoresAside

\* A process scores its game when all else about it is done, and once.
LEMMA ScoreStepOK ==
  ASSUME BonesInv, ScoreTypeOK, ScoreTypeOK', Scored, NEW p \in Procs, WithScores(p)
  PROVE  Scored'
<1> USE BonesAssumption, SharedAssumption DEF Is, Game
<1> DEFINE g == hero[p].game
<1>1. /\ p \in Heroes /\ hero[p].at = "buried" /\ ScoreStep(p, g)
      /\ UNCHANGED <<hero, fate, twice>>
  BY DEF WithScores, bonesVars
<1>2. g \in Games /\ (g \notin twice => fate[g] = "over")
  BY <1>1 DEF BonesInv, Fates
<1>3. g \notin twice => \A q \in Procs : hero[q].game = g => q = p
  BY <1>1, <1>2 DEF BonesInv, Seats
<1>4. CASE ReadScores(p, g)
  <2>1. scored' = Append(scored, g) /\ spc[p].at = "locked"
    BY <1>4 DEF ReadScores
  <2>2. g \notin twice => \A i \in DOMAIN scored : scored[i] # g
    BY <1>2, <2>1 DEF Scored
  <2> HIDE DEF g
  <2>3. /\ Len(scored) \in Nat /\ DOMAIN scored = 1 .. Len(scored)
        /\ DOMAIN scored' = 1 .. Len(scored) + 1 /\ scored'[Len(scored) + 1] = g
        /\ \A i \in DOMAIN scored : scored'[i] = scored[i]
    BY <2>1 DEF ScoreTypeOK
  <2>4. /\ \A q \in Procs \ {p} : spc'[q] = spc[q]
        /\ spc'[p].at \in {"rewrite", "unlock"}
    BY <1>1, <1>4 DEF ReadScores, ScoreTypeOK
  <2>5. \A i, j \in DOMAIN scored' :
          scored'[i] = scored'[j] /\ scored'[i] \in Games \ twice => i = j
    BY <2>2, <2>3 DEF Scored
  <2>6. ASSUME NEW i \in DOMAIN scored', scored'[i] \in Games \ twice
        PROVE  /\ fate[scored'[i]] = "over"
               /\ \A q \in Procs : hero[q].game = scored'[i] =>
                      hero[q].at = "buried" /\ spc'[q].at \notin {"ready", "locked"}
    <3>1. CASE i \in DOMAIN scored
      BY <1>1, <2>1, <2>3, <2>4, <2>6, <3>1 DEF Scored
    <3>2. CASE i = Len(scored) + 1
      BY <1>1, <1>2, <1>3, <2>3, <2>4, <2>6, <3>2
    <3> QED
      BY <2>3, <3>1, <3>2
  <2>7. \A q \in Procs : spc'[q].at # "ready" => hero'[q].at = "buried"
    BY <1>1, <2>4 DEF Scored
  <2> QED
    BY <1>1, <2>5, <2>6, <2>7 DEF Scored
<1>5. CASE ~ReadScores(p, g)
  <2>1. /\ scored' = scored
        /\ \A q \in Procs \ {p} : spc'[q] = spc[q]
        /\ spc[p].at \notin {"ready", "locked"} => spc'[p].at \notin {"ready", "locked"}
    BY <1>1, <1>5
       DEF ScoreStep, LockScores, GiveUp, EmptyScores, WriteScore, UnlockScores, Moves, ScoreTypeOK
  <2> QED
    BY <1>1, <2>1 DEF Scored
<1> QED
  BY <1>4, <1>5

LEMMA ScoresStepOK == BonesInv /\ ScoreTypeOK /\ Scored /\ [Next]_vars => ScoreTypeOK' /\ Scored'
<1> SUFFICES ASSUME BonesInv, ScoreTypeOK, Scored, [Next]_vars PROVE Scored'
  BY ScoreTypesKept
<1>1. ScoreTypeOK'
  BY ScoreTypesKept
<1>2. ASSUME UNCHANGED <<bonesVars, scoreVars>> PROVE Scored'
  BY <1>2 DEF bonesVars, scoreVars, Scored, Is, Game
<1>3. CASE UNCHANGED vars
  BY <1>2, <1>3 DEF vars
<1>4. ASSUME NEW p \in Procs, Contend(p) PROVE Scored'
  BY <1>2, <1>4 DEF Contend
<1>5. ASSUME NEW p \in Procs, WithBones(p) \/ WithScores(p) \/ Exit(p) PROVE Scored'
  BY <1>1, <1>5, ScoresAfterBones, ScoreStepOK, ScoresAfterExit
<1> QED
  BY <1>3, <1>4, <1>5 DEF Next

LEMMA ScoresInitOK == Init => ScoreTypeOK /\ Scored
<1> SUFFICES ASSUME Init PROVE ScoreTypeOK /\ Scored
  OBVIOUS
<1>1. <<>> \in Seq(Entries) /\ Len(<<>>) = 0 /\ 0 <= TTLISTLEN /\ DOMAIN <<>> = {}
  BY ScoreAssumption
<1>2. Ready \in SpcTypes /\ Ready.list = <<>> /\ Ready.at = "ready"
  BY <1>1 DEF Ready, SpcTypes, SpcStages
<1>3. spc \in [Losers -> SpcTypes] /\ \A p \in Losers : spc[p] = Ready
  BY <1>2 DEF Init, ScoreInit
<1>4. ScoreTypeOK
  BY <1>1, <1>2, <1>3, ScoreAssumption DEF Init, ScoreInit, ScoreTypeOK, SpcTypes, SpcStages
<1>5. scored = <<>> /\ \A p \in Procs : spc[p].at = "ready"
  BY <1>2, <1>3, SharedAssumption DEF Init, ScoreInit
<1> QED
  BY <1>1, <1>4, <1>5 DEF Scored

LEMMA ScoredIsOnce == BonesInv /\ ScoreTypeOK /\ Scored => ScoredOnce
<1> SUFFICES ASSUME BonesInv, ScoreTypeOK, Scored, NEW g \in Games \ twice
             PROVE  Times(g) <= 1 /\ (Times(g) = 1 => fate[g] = "over")
  BY DEF ScoredOnce
<1> DEFINE T == {i \in DOMAIN scored : scored[i] = g}
<1>1. \A i, j \in T : i = j
  BY DEF Scored
<1>2. T # {} => fate[g] = "over"
  BY DEF Scored
<1>3. Times(g) = Cardinality(T)
  BY DEF Times
<1> HIDE DEF T
<1>4. Cardinality(T) \in {0, 1} /\ (T = {} => Cardinality(T) = 0)
  BY <1>1, AtMostOne
<1> QED
  BY <1>2, <1>3, <1>4

LEMMA EndsInvariant == Spec => [](BonesInv /\ ScoreTypeOK /\ Scored)
<1>1. Init => BonesInv /\ ScoreTypeOK /\ Scored
  BY BonesInitOK, ScoresInitOK
<1>2. BonesInv /\ ScoreTypeOK /\ Scored /\ [Next]_vars => (BonesInv /\ ScoreTypeOK /\ Scored)'
  BY BonesStepOK, ScoresStepOK
<1> QED
  BY <1>1, <1>2, PTL DEF Spec

-----------------------------------------------------------------------------
\* The list of scores stays within its array: an entry that is put in goes in
\* at a place there is, and pushes one out when the list is full.
THEOREM ScoreListFits == Spec => []ScoreTypeOK
<1> QED
  BY EndsInvariant, PTL

\* A hero's bones are on one level of one game, or in the file, and not in
\* both, whoever reads and deletes at the same time (getbones, savebones).
THEOREM BonesAreFoundOnce == Spec => []BonesOnce
<1> QED
  BY EndsInvariant, BonesInvOnce, PTL

\* A game is entered in the list once, and only when its log is finished.
THEOREM GamesAreScoredOnce == Spec => []ScoredOnce
<1> QED
  BY EndsInvariant, ScoredIsOnce, PTL

-----------------------------------------------------------------------------
(* The list of the best, of any number of games.                           *)

\* Games in the order of the list: of two, one is ahead of the other, and
\* whoever is ahead has the smaller rank.
LEMMA RankBounds ==
  ASSUME NEW a \in Seq(Entries), NEW i \in 1 .. Len(a)
  PROVE  /\ IsFiniteSet(Ahead(a, i)) /\ i \in Ahead(a, i) /\ Ahead(a, i) \subseteq 1 .. Len(a)
         /\ Rank(a, i) \in 1 .. Len(a)
<1>1. Len(a) \in Nat /\ DOMAIN a = 1 .. Len(a) /\ \A j \in 1 .. Len(a) : Points[a[j]] \in Nat
  BY ScoreAssumption
<1>2. i \in Ahead(a, i) /\ Ahead(a, i) \subseteq 1 .. Len(a)
  BY <1>1 DEF Ahead
<1>3. IsFiniteSet(1 .. Len(a)) /\ Cardinality(1 .. Len(a)) = Len(a)
  BY SMTT(60), Len(a) \in Nat, FS_Interval
<1>4. IsFiniteSet(Ahead(a, i)) /\ Cardinality(Ahead(a, i)) \in Nat /\ Cardinality(Ahead(a, i)) <= Len(a)
  BY <1>2, <1>3, FS_Subset, FS_CardinalityType
<1>5. Cardinality(Ahead(a, i)) # 0
  BY <1>2, <1>4, FS_EmptySet
<1> QED
  BY <1>1, <1>2, <1>4, <1>5 DEF Rank

LEMMA RankOrder ==
  ASSUME NEW a \in Seq(Entries), NEW i \in 1 .. Len(a), NEW j \in 1 .. Len(a)
  PROVE  /\ i # j => (j \in Ahead(a, i) <=> i \notin Ahead(a, j))
         /\ i # j /\ j \in Ahead(a, i) => Rank(a, j) < Rank(a, i)
         /\ Rank(a, i) = Rank(a, j) => i = j
<1>1. Len(a) \in Nat /\ DOMAIN a = 1 .. Len(a) /\ \A k \in 1 .. Len(a) : Points[a[k]] \in Nat
  BY ScoreAssumption
<1>2. ASSUME NEW k \in 1 .. Len(a), NEW l \in 1 .. Len(a), k # l
      PROVE  (l \in Ahead(a, k) <=> k \notin Ahead(a, l))
  BY <1>1, <1>2 DEF Ahead
<1>3. ASSUME NEW k \in 1 .. Len(a), NEW l \in 1 .. Len(a), k # l, l \in Ahead(a, k)
      PROVE  Rank(a, l) < Rank(a, k)
  <2>1. Ahead(a, l) \subseteq Ahead(a, k)
    BY <1>1, <1>3 DEF Ahead
  <2>2. Ahead(a, l) # Ahead(a, k)
    BY <1>2, <1>3, RankBounds
  <2>3. IsFiniteSet(Ahead(a, k)) /\ Rank(a, k) \in 1 .. Len(a) /\ Rank(a, l) \in 1 .. Len(a)
    BY RankBounds
  <2>4. Cardinality(Ahead(a, l)) <= Cardinality(Ahead(a, k))
        /\ Cardinality(Ahead(a, l)) # Cardinality(Ahead(a, k))
    BY <2>1, <2>2, <2>3, FS_Subset
  <2> QED
    BY <1>1, <2>3, <2>4 DEF Rank
<1>4. Rank(a, i) \in Nat /\ Rank(a, j) \in Nat
  BY RankBounds
<1> QED
  BY <1>2, <1>3, <1>4

\* Every place up to the number of games is somebody's.
LEMMA RankOnto ==
  ASSUME NEW a \in Seq(Entries), NEW k \in 1 .. Len(a)
  PROVE  /\ AtRank(a, k) \in 1 .. Len(a) /\ Rank(a, AtRank(a, k)) = k
         /\ \A i \in 1 .. Len(a) : Rank(a, i) = k => AtRank(a, k) = i
<1>1. Len(a) \in Nat /\ DOMAIN a = 1 .. Len(a)
  OBVIOUS
<1> DEFINE S == 1 .. Len(a)
           f == [i \in S |-> Rank(a, i)]
<1>2. IsFiniteSet(S) /\ f \in [S -> S]
  <2>1. IsFiniteSet(S)
    BY <1>1, FS_Interval
  <2>2. \A i \in S : Rank(a, i) \in S
    BY RankBounds
  <2> QED
    BY <2>1, <2>2
<1>3. \A i, j \in S : f[i] = f[j] => i = j
  BY RankOrder
<1>4. f \in Injection(S, S)
  BY <1>2, <1>3 DEF Injection, IsInjective
<1>5. f \in Surjection(S, S)
  BY <1>2, <1>4, FS_Injection
<1>6. \E i \in S : f[i] = k
  BY <1>5 DEF Surjection
<1>7. \E i \in DOMAIN a : Rank(a, i) = k
  BY <1>1, <1>6
<1>8. AtRank(a, k) \in DOMAIN a /\ Rank(a, AtRank(a, k)) = k
  BY <1>7, Zenon DEF AtRank
<1> QED
  BY <1>1, <1>8, RankOrder

\* The games that have as many points as e, and e behind them.
NoWorse(a, e) == {i \in DOMAIN a : Points[a[i]] >= Points[e]}

LEMMA NoWorseType ==
  ASSUME NEW a \in Seq(Entries), NEW e \in Entries
  PROVE  /\ IsFiniteSet(NoWorse(a, e)) /\ NoWorse(a, e) \subseteq 1 .. Len(a)
         /\ Cardinality(NoWorse(a, e)) \in 0 .. Len(a)
<1>1. Len(a) \in Nat /\ DOMAIN a = 1 .. Len(a)
  OBVIOUS
<1>2. NoWorse(a, e) \subseteq 1 .. Len(a)
  BY <1>1 DEF NoWorse
<1>3. IsFiniteSet(1 .. Len(a)) /\ Cardinality(1 .. Len(a)) = Len(a)
  BY <1>1, FS_Interval
<1>4. IsFiniteSet(NoWorse(a, e)) /\ Cardinality(NoWorse(a, e)) \in Nat /\ Cardinality(NoWorse(a, e)) <= Len(a)
  BY <1>2, <1>3, FS_Subset, FS_CardinalityType
<1> QED
  BY <1>1, <1>2, <1>4

LEMMA RankOfNext ==
  ASSUME NEW a \in Seq(Entries), NEW e \in Entries
  PROVE  LET b == Append(a, e)
             n == Len(a)
             g == Cardinality(NoWorse(a, e))
         IN  /\ Rank(b, n + 1) = g + 1
             /\ \A i \in 1 .. n : /\ i \in NoWorse(a, e) => Rank(b, i) = Rank(a, i)
                                  /\ i \notin NoWorse(a, e) => Rank(b, i) = Rank(a, i) + 1
                                  /\ i \in NoWorse(a, e) <=> Rank(a, i) <= g
<1> DEFINE b == Append(a, e)
           n == Len(a)
           G == NoWorse(a, e)
<1>1. /\ n \in Nat /\ DOMAIN a = 1 .. n /\ b \in Seq(Entries) /\ Len(b) = n + 1 /\ DOMAIN b = 1 .. n + 1
      /\ b[n + 1] = e /\ \A i \in 1 .. n : b[i] = a[i]
  OBVIOUS
<1>2. Points[e] \in Nat /\ \A i \in 1 .. n : Points[a[i]] \in Nat
  BY ScoreAssumption
<1> HIDE DEF b, n
<1>3. IsFiniteSet(G) /\ G \subseteq 1 .. n /\ Cardinality(G) \in Nat
  BY <1>1, NoWorseType DEF n
<1>4. Ahead(b, n + 1) = G \cup {n + 1}
  BY <1>1, <1>2 DEF Ahead, NoWorse
<1>5. n + 1 \notin G
  BY <1>1, <1>3
<1>6. Rank(b, n + 1) = Cardinality(G) + 1
  BY <1>3, <1>4, <1>5, FS_AddElement DEF Rank
<1>7. ASSUME NEW i \in 1 .. n
      PROVE  /\ i \in G => Rank(b, i) = Rank(a, i)
             /\ i \notin G => Rank(b, i) = Rank(a, i) + 1
             /\ i \in G <=> Rank(a, i) <= Cardinality(G)
  <2>1. IsFiniteSet(Ahead(a, i)) /\ Ahead(a, i) \subseteq 1 .. n /\ Rank(a, i) \in Nat /\ n + 1 \notin Ahead(a, i)
    BY <1>1, RankBounds DEF n
  <2>2. i \in G => Ahead(b, i) = Ahead(a, i)
    BY <1>1, <1>2 DEF Ahead, NoWorse
  <2>3. i \notin G => Ahead(b, i) = Ahead(a, i) \cup {n + 1}
    BY <1>1, <1>2 DEF Ahead, NoWorse
  <2>4. i \in G => Rank(b, i) = Rank(a, i)
    BY <2>2 DEF Rank
  <2>5. i \notin G => Rank(b, i) = Rank(a, i) + 1
    BY <2>1, <2>3, FS_AddElement DEF Rank
  <2>6. i \in 1 .. Len(b) /\ n + 1 \in 1 .. Len(b) /\ i # n + 1
    BY <1>1
  <2>7. i \in G => Rank(b, i) < Rank(b, n + 1)
    BY <1>1, <1>4, <2>6, RankOrder
  <2>8. i \notin G => Rank(b, n + 1) < Rank(b, i)
    BY <1>1, <1>4, <2>3, <2>6, RankOrder
  <2> QED
    BY <1>3, <1>6, <2>1, <2>4, <2>5, <2>7, <2>8
<1> QED
  BY <1>6, <1>7 DEF b, n

LEMMA AtRankOfNext ==
  ASSUME NEW a \in Seq(Entries), NEW e \in Entries
  PROVE  LET b == Append(a, e)
             n == Len(a)
             g == Cardinality(NoWorse(a, e))
         IN  \A k \in 1 .. n + 1 :
               /\ k <= g => AtRank(b, k) = AtRank(a, k)
               /\ k = g + 1 => AtRank(b, k) = n + 1
               /\ k > g + 1 => AtRank(b, k) = AtRank(a, k - 1)
<1> DEFINE b == Append(a, e)
           n == Len(a)
           G == NoWorse(a, e)
           g == Cardinality(G)
<1>1. n \in Nat /\ b \in Seq(Entries) /\ Len(b) = n + 1
  OBVIOUS
<1>2. g \in 0 .. n
  BY NoWorseType
<1>3. /\ Rank(b, n + 1) = g + 1
      /\ \A i \in 1 .. n : /\ i \in G => Rank(b, i) = Rank(a, i)
                           /\ i \notin G => Rank(b, i) = Rank(a, i) + 1
                           /\ i \in G <=> Rank(a, i) <= g
  BY RankOfNext
<1> HIDE DEF b, n, G, g
<1> SUFFICES ASSUME NEW k \in 1 .. n + 1
             PROVE  /\ k <= g => AtRank(b, k) = AtRank(a, k)
                    /\ k = g + 1 => AtRank(b, k) = n + 1
                    /\ k > g + 1 => AtRank(b, k) = AtRank(a, k - 1)
  BY DEF b, n, G, g
<1>4. \A i \in 1 .. n + 1 : Rank(b, i) = k => AtRank(b, k) = i
  BY <1>1, RankOnto
<1>5. ASSUME NEW l \in 1 .. n PROVE AtRank(a, l) \in 1 .. n /\ Rank(a, AtRank(a, l)) = l
  BY <1>5, RankOnto DEF n
<1>6. CASE k <= g
  <2>1. k \in 1 .. n
    BY <1>1, <1>2, <1>6
  <2>2. Rank(b, AtRank(a, k)) = k /\ AtRank(a, k) \in 1 .. n + 1
    BY <1>1, <1>3, <1>5, <1>6, <2>1
  <2> QED
    BY <1>2, <1>4, <1>6, <2>2
<1>7. CASE k = g + 1
  BY <1>1, <1>2, <1>3, <1>4, <1>7
<1>8. CASE k > g + 1
  <2>1. k - 1 \in 1 .. n /\ ~(k - 1 <= g)
    BY <1>1, <1>2, <1>8
  <2>2. Rank(b, AtRank(a, k - 1)) = k - 1 + 1 /\ AtRank(a, k - 1) \in 1 .. n + 1
    BY <1>1, <1>3, <1>5, <2>1
  <2>3. Rank(b, AtRank(a, k - 1)) = k
    BY <2>2
  <2> QED
    BY <1>2, <1>4, <1>8, <2>2, <2>3
<1> QED
  BY <1>1, <1>2, <1>6, <1>7, <1>8

Least2(x, y) == IF x < y THEN x ELSE y

LEMMA BestType ==
  ASSUME NEW a \in Seq(Entries)
  PROVE  /\ Best(a) \in Seq(Entries) /\ Len(Best(a)) = Least2(Len(a), TTLISTLEN)
         /\ Least2(Len(a), TTLISTLEN) \in Nat
         /\ \A k \in 1 .. Least2(Len(a), TTLISTLEN) :
              k \in 1 .. Len(a) /\ Best(a)[k] = a[AtRank(a, k)] /\ a[AtRank(a, k)] \in Entries
<1> DEFINE m == Least2(Len(a), TTLISTLEN)
<1>1. Len(a) \in Nat /\ TTLISTLEN \in Nat /\ m \in 0 .. Len(a)
  BY ScoreAssumption DEF Least2
<1>2. Best(a) = [k \in 1 .. m |-> a[AtRank(a, k)]]
  BY DEF Best, Least2
<1> HIDE DEF m
<1>3. \A k \in 1 .. m : k \in 1 .. Len(a) /\ AtRank(a, k) \in 1 .. Len(a)
  BY <1>1, RankOnto
<1>4. \A k \in 1 .. m : a[AtRank(a, k)] \in Entries
  BY <1>3
<1>5. Best(a) \in Seq(Entries) /\ Len(Best(a)) = m
  BY <1>1, <1>2, <1>4
<1> QED
  BY <1>1, <1>2, <1>3, <1>4, <1>5 DEF m

\* In the list of the best, those with as many points as e come first.
LEMMA BetterOfBest ==
  ASSUME NEW a \in Seq(Entries), NEW e \in Entries
  PROVE  LET g == Cardinality(NoWorse(a, e))
             m == Least2(Len(a), TTLISTLEN)
         IN  /\ Better(Best(a), e) = 1 .. Least2(m, g)
             /\ Ins(Best(a), e) = Least2(m, g) + 1
             /\ Mine(Best(a), e) \in 0 .. Least2(m, g)
<1> DEFINE G == NoWorse(a, e)
           g == Cardinality(G)
           m == Least2(Len(a), TTLISTLEN)
           h == Least2(m, g)
           list == Best(a)
<1>1. /\ list \in Seq(Entries) /\ Len(list) = m /\ m \in Nat
      /\ \A k \in 1 .. m : k \in 1 .. Len(a) /\ list[k] = a[AtRank(a, k)]
  BY BestType
<1>2. g \in Nat
  BY NoWorseType
<1>3. h \in Nat /\ \A k \in 1 .. m : k \in 1 .. h <=> k <= g
  BY <1>1, <1>2 DEF Least2
<1>4. ASSUME NEW k \in 1 .. m PROVE Points[list[k]] >= Points[e] <=> k <= g
  <2>1. AtRank(a, k) \in 1 .. Len(a) /\ Rank(a, AtRank(a, k)) = k
    BY <1>1, RankOnto
  <2>2. AtRank(a, k) \in G <=> k <= g
    BY <2>1, RankOfNext
  <2>3. AtRank(a, k) \in G <=> Points[a[AtRank(a, k)]] >= Points[e]
    BY <2>1 DEF NoWorse
  <2> QED
    BY <1>1, <2>2, <2>3
<1> HIDE DEF list, g, m
<1>5. DOMAIN list = 1 .. m /\ 1 .. h \subseteq 1 .. m
  BY <1>1, <1>2 DEF Least2
<1> HIDE DEF h
<1>6. Better(list, e) = 1 .. h
  BY <1>3, <1>4, <1>5 DEF Better
<1>7. IsFiniteSet(1 .. h) /\ Cardinality(1 .. h) = h
  BY <1>3, FS_Interval
<1>8. Ins(list, e) = h + 1
  BY <1>6, <1>7 DEF Ins
<1>9. Mine(list, e) \in 0 .. h
  <2> DEFINE M == {i \in Better(list, e) : Player[list[i]] = Player[e]}
  <2>1. M \in SUBSET (1 .. h) /\ Mine(list, e) = Cardinality(M)
    BY <1>6 DEF Mine
  <2> HIDE DEF M
  <2>2. Cardinality(M) \in Nat /\ Cardinality(M) <= h
    BY <1>7, <2>1, FS_Subset, FS_CardinalityType
  <2> QED
    BY <1>3, <2>1, <2>2
<1> QED
  BY <1>6, <1>8, <1>9 DEF list, g, m, h

LEMMA JoinAt ==
  ASSUME NEW s \in Seq(Entries), NEW t \in Seq(Entries)
  PROVE  /\ s \o t \in Seq(Entries) /\ Len(s \o t) = Len(s) + Len(t)
         /\ \A k \in 1 .. Len(s) + Len(t) : (s \o t)[k] = IF k <= Len(s) THEN s[k] ELSE t[k - Len(s)]
OBVIOUS

LEMMA InsertBest ==
  ASSUME NEW a \in Seq(Entries), NEW e \in Entries, Len(a) + 1 <= PLAYERMAX \/ TTLISTLEN <= PLAYERMAX
  PROVE  Best(Append(a, e)) = IF MakesList(Best(a), e) THEN Insert(Best(a), e) ELSE Best(a)
<1> DEFINE b == Append(a, e)
           n == Len(a)
           g == Cardinality(NoWorse(a, e))
           m == Least2(n, TTLISTLEN)
           w == Least2(n + 1, TTLISTLEN)
           list == Best(a)
           next == Best(b)
<1>1. n \in Nat /\ b \in Seq(Entries) /\ Len(b) = n + 1
      /\ b[n + 1] = e /\ \A i \in 1 .. n : b[i] = a[i]
  OBVIOUS
<1>2. g \in 0 .. n
  BY NoWorseType
<1>3. /\ list \in Seq(Entries) /\ Len(list) = m /\ m \in Nat
      /\ \A k \in 1 .. m : k \in 1 .. n /\ list[k] = a[AtRank(a, k)]
  BY BestType
<1>4. /\ next \in Seq(Entries) /\ Len(next) = w /\ w \in Nat
      /\ \A k \in 1 .. w : k \in 1 .. n + 1 /\ next[k] = b[AtRank(b, k)]
  BY <1>1, BestType
<1>5. \A k \in 1 .. n + 1 :
        /\ k <= g => AtRank(b, k) = AtRank(a, k)
        /\ k = g + 1 => AtRank(b, k) = n + 1
        /\ k > g + 1 => AtRank(b, k) = AtRank(a, k - 1)
  BY AtRankOfNext
<1>6. \A k \in 1 .. n : AtRank(a, k) \in 1 .. n
  BY RankOnto
<1>7. Ins(list, e) = Least2(m, g) + 1 /\ Mine(list, e) \in 0 .. Least2(m, g)
  BY BetterOfBest
<1>8. /\ TTLISTLEN \in Nat \ {0} /\ PLAYERMAX \in Nat \ {0}
      /\ n + 1 <= PLAYERMAX \/ TTLISTLEN <= PLAYERMAX
  BY ScoreAssumption
<1> HIDE DEF b, n, g, m, w, list, next
<1>9. ASSUME NEW k \in 1 .. w
      PROVE  /\ k <= g => next[k] = a[AtRank(a, k)]
             /\ k = g + 1 => next[k] = e
             /\ k > g + 1 => next[k] = a[AtRank(a, k - 1)]
  <2>1. k \in 1 .. n + 1 /\ next[k] = b[AtRank(b, k)]
    BY <1>4
  <2>2. CASE k <= g
    <3>1. k \in 1 .. n
      BY <1>1, <1>2, <2>1, <2>2
    <3>2. AtRank(a, k) \in 1 .. n
      BY <1>6, <3>1
    <3> QED
      BY <1>1, <1>2, <1>5, <2>1, <2>2, <3>2
  <2>3. CASE k = g + 1
    BY <1>1, <1>2, <1>5, <2>1, <2>3
  <2>4. CASE k > g + 1
    <3>1. k - 1 \in 1 .. n
      BY <1>1, <1>2, <2>1, <2>4
    <3>2. AtRank(a, k - 1) \in 1 .. n
      BY <1>6, <3>1
    <3> QED
      BY <1>1, <1>2, <1>5, <2>1, <2>4, <3>2
  <2> QED
    BY <1>2, <1>4, <2>2, <2>3, <2>4
<1>10. CASE g >= TTLISTLEN
  <2>1. m = TTLISTLEN /\ w = TTLISTLEN /\ Least2(m, g) = TTLISTLEN
    BY <1>1, <1>2, <1>8, <1>10 DEF m, w, Least2
  <2>2. ~MakesList(list, e)
    BY <1>7, <1>8, <2>1 DEF MakesList
  <2>3. \A k \in 1 .. TTLISTLEN : next[k] = list[k]
    BY <1>2, <1>3, <1>8, <1>9, <1>10, <2>1
  <2>4. next = list
    BY <1>3, <1>4, <2>1, <2>3
  <2> QED
    BY <2>2, <2>4 DEF next, list, b
<1>11. CASE g < TTLISTLEN
  <2>1. /\ g <= m /\ m <= n /\ m <= TTLISTLEN /\ Least2(m, g) = g /\ w = Least2(m + 1, TTLISTLEN) /\ g + 1 <= w
        /\ m < PLAYERMAX \/ TTLISTLEN <= PLAYERMAX
    BY <1>1, <1>2, <1>8, <1>11 DEF m, w, Least2
  <2>2. Ins(list, e) = g + 1 /\ Mine(list, e) \in 0 .. g
    BY <1>7, <2>1
  <2>3. MakesList(list, e)
    BY <1>1, <1>2, <1>3, <1>8, <1>11, <2>1, <2>2 DEF MakesList
  <2>4. Del(list, e) = w
    <3> DEFINE later == g + 1 + PLAYERMAX - Mine(list, e) - 1
    <3>1. later \in Nat /\ later >= PLAYERMAX /\ (later < m + 1 => m = TTLISTLEN /\ later = TTLISTLEN)
      BY <1>2, <1>3, <1>8, <2>1, <2>2
    <3>2. Del(list, e) = LET del == IF (g + 1 < m + 1 /\ Player[list[g + 1]] = Player[e]) /\ later < m + 1
                                    THEN later ELSE m + 1
                         IN  IF del > TTLISTLEN THEN TTLISTLEN ELSE del
      BY <1>3, <2>2 DEF Del
    <3> HIDE DEF later
    <3> QED
      BY <1>3, <1>8, <2>1, <3>1, <3>2 DEF Least2
  <2> DEFINE c == SubSeq(list, 1, g)
             d == SubSeq(list, g + 1, w - 1)
             z == SubSeq(list, w + 1, m)
  <2>5. Insert(list, e) = ((c \o <<e>>) \o d) \o z
    <3>1. Ins(list, e) - 1 = g
      BY <1>1, <1>2, <2>2
    <3> QED
      BY <1>3, <2>2, <2>4, <3>1, Zenon DEF Insert
  <2>6. c \in Seq(Entries) /\ Len(c) = g /\ \A k \in 1 .. g : c[k] = list[k]
    BY <1>2, <1>3, <2>1
  <2>7. d \in Seq(Entries) /\ Len(d) = w - 1 - g /\ \A k \in 1 .. w - 1 - g : d[k] = list[g + k]
    BY <1>2, <1>3, <1>4, <1>8, <2>1 DEF Least2
  <2>8. z = <<>>
    BY <1>3, <1>4, <1>8, <2>1 DEF Least2
  <2> DEFINE v == c \o <<e>>
  <2>9. v \in Seq(Entries) /\ Len(v) = g + 1
        /\ \A k \in 1 .. g + 1 : v[k] = IF k <= g THEN list[k] ELSE e
    <3> HIDE DEF c
    <3> QED
      BY <1>2, <2>6
  <2>10. (v \o d) \in Seq(Entries) /\ Len(v \o d) = w
         /\ \A k \in 1 .. w : (v \o d)[k] = IF k <= g + 1 THEN v[k] ELSE d[k - g - 1]
    <3> HIDE DEF v, d
    <3> QED
      <4>1. g \in Nat /\ w \in Nat
        BY <1>1, <1>2, <1>4
      <4>2. Len(d) = w - 1 - g
        BY <2>7
      <4>3. g + 1 + Len(d) = w
        BY ONLY <4>1, <4>2
      <4>4. v \in Seq(Entries) /\ d \in Seq(Entries)
        BY <2>7, <2>9
      <4>5. /\ v \o d \in Seq(Entries) /\ Len(v \o d) = Len(v) + Len(d)
            /\ \A k \in 1 .. Len(v) + Len(d) : (v \o d)[k] = IF k <= Len(v) THEN v[k] ELSE d[k - Len(v)]
        BY ONLY <4>4, JoinAt
      <4>6. Len(v) = g + 1
        BY <2>9
      <4>7. \A k \in 1 .. w : k - (g + 1) = k - g - 1
        BY ONLY <4>1
      <4> QED
        BY ONLY <4>3, <4>4, <4>5, <4>6, <4>7
  <2> DEFINE u == v \o d
  <2>11. Insert(list, e) = u
    <3>1. Insert(list, e) = u \o <<>>
      BY <2>5, <2>8
    <3> HIDE DEF u
    <3> QED
      BY <2>10, <3>1
  <2> HIDE DEF u, v, c, d
  <2>12. ASSUME NEW k \in 1 .. w PROVE u[k] = next[k]
    <3>1. CASE k <= g
      BY <1>2, <1>3, <1>4, <1>9, <2>1, <2>9, <2>10, <3>1 DEF u, v
    <3>2. CASE k = g + 1
      BY <1>2, <1>4, <1>9, <2>9, <2>10, <3>2 DEF u, v
    <3>3. CASE k > g + 1
      <4>1. k - g - 1 \in 1 .. w - 1 - g /\ k - 1 \in 1 .. m /\ g + (k - g - 1) = k - 1
        BY <1>2, <1>3, <1>4, <1>8, <2>1, <3>3 DEF Least2
      <4>2. u[k] = d[k - g - 1]
        BY <1>2, <1>4, <2>10, <3>3 DEF u
      <4>3. d[k - g - 1] = list[k - 1]
        BY <2>7, <4>1
      <4> QED
        BY <1>3, <1>9, <3>3, <4>1, <4>2, <4>3
    <3> QED
      BY <1>2, <1>4, <3>1, <3>2, <3>3
  <2>13. u = next
    BY <1>4, <2>10, <2>12 DEF u
  <2> QED
    BY <2>3, <2>11, <2>13 DEF next, list, b
<1> QED
  BY <1>2, <1>8, <1>10, <1>11

-----------------------------------------------------------------------------
(* The file is the list of the best.                                       *)

LEMMA StartIsBest == Best(Start) = Start
<1>1. /\ Start \in Seq(Entries) /\ Len(Start) \in Nat /\ DOMAIN Start = 1 .. Len(Start)
      /\ Len(Start) <= TTLISTLEN /\ TTLISTLEN \in Nat
      /\ \A i, j \in 1 .. Len(Start) : i < j => Points[Start[i]] >= Points[Start[j]]
      /\ \A i \in 1 .. Len(Start) : Points[Start[i]] \in Nat
  BY ScoreAssumption
<1>2. ASSUME NEW i \in 1 .. Len(Start) PROVE Rank(Start, i) = i
  <2>1. Ahead(Start, i) = 1 .. i
    BY <1>1 DEF Ahead
  <2>2. Cardinality(1 .. i) = i
    BY <1>1, FS_Interval
  <2> QED
    BY <2>1, <2>2 DEF Rank
<1>3. \A i \in 1 .. Len(Start) : AtRank(Start, i) = i
  BY <1>1, <1>2, RankOnto
<1>4. Least2(Len(Start), TTLISTLEN) = Len(Start)
  <2>1. Len(Start) \in Nat /\ Len(Start) <= TTLISTLEN /\ TTLISTLEN \in Nat
    BY <1>1
  <2> QED
    BY ONLY <2>1 DEF Least2
<1>5. /\ Best(Start) \in Seq(Entries) /\ Len(Best(Start)) = Len(Start)
      /\ \A k \in 1 .. Len(Start) : Best(Start)[k] = Start[k]
  BY <1>1, <1>3, <1>4, BestType
<1> QED
  BY <1>1, <1>5

\* Who writes has the list of the best in memory, and as much of it as he has
\* written is in the file; anybody else who has the lock sees it there.
Copying(list) == Len(record) <= Len(list) /\ \A i \in 1 .. Len(record) : record[i] = list[i]

Listed(p) ==
  /\ spc[p].at \in {"locked", "unlock"} => record = Best(All)
  /\ spc[p].at \in {"rewrite", "write"} => spc[p].list = Best(All)
  /\ spc[p].at = "write" => Copying(spc[p].list)

Working(p) == spc[p].at \in {"locked", "rewrite", "write", "unlock"}

ListInv ==
  /\ \A p \in Losers : Working(p) <=> rlock = p
  /\ ~torn /\ Uncrowded => /\ rlock = NoOne => record = Best(All)
                           /\ \A p \in Losers : Listed(p)

LEMMA ListInitOK == Init => ListInv
<1> SUFFICES ASSUME Init PROVE ListInv
  OBVIOUS
<1>1. record = Start /\ rlock = NoOne /\ scored = <<>> /\ \A p \in Losers : spc[p] = Ready
  BY DEF Init, ScoreInit
<1>2. All = Start
  BY <1>1, ScoreAssumption DEF All
<1>3. record = Best(All)
  BY <1>1, <1>2, StartIsBest
<1>4. \A p \in Losers : spc[p].at = "ready"
  BY <1>1 DEF Ready
<1> QED
  BY <1>1, <1>3, <1>4, ScoreAssumption DEF ListInv, Listed, Working

\* A step of one process that changes what Listed says of it, and puts no
\* game in.
LEMMA ListStep ==
  ASSUME ScoreTypeOK, ListInv, NEW p \in Losers, UNCHANGED scored,
         spc' \in [Losers -> SpcTypes],
         \A q \in Losers \ {p} : spc'[q] = spc[q],
         rlock' = rlock \/ (rlock = NoOne /\ rlock' = p) \/ (rlock = p /\ rlock' = NoOne),
         Working(p)' <=> rlock' = p,
         torn => torn',
         record' = record \/ rlock = p,
         ~torn' /\ Uncrowded => Listed(p)' /\ (rlock' = NoOne => record' = Best(All))
  PROVE  ListInv'
<1> USE ScoreAssumption
<1>1. All' = All /\ (Uncrowded' <=> Uncrowded)
  BY DEF All, Uncrowded
<1>2. Best(All)' = Best(All)
  BY <1>1 DEF Best, AtRank, Rank, Ahead
<1>4. \A q \in Losers : Working(q) <=> rlock = q
  BY DEF ListInv
<1>5. ASSUME NEW q \in Losers \ {p} PROVE Working(q)' <=> rlock' = q
  <2>1. Working(q)' <=> Working(q)
    BY <1>5 DEF Working
  <2> QED
    BY <1>4, <2>1
<1>6. ASSUME NEW q \in Losers \ {p}, ~torn', Uncrowded PROVE Listed(q)'
  <2>1. Listed(q)
    BY <1>6 DEF ListInv
  <2>2. Working(q) => record' = record
    BY <1>4
  <2> QED
    BY <1>2, <1>6, <2>1, <2>2 DEF Listed, Working, Copying
<1> QED
  BY <1>1, <1>2, <1>5, <1>6 DEF ListInv

LEMMA SameList ==
  ASSUME NEW s \in Seq(Entries), NEW t \in Seq(Entries), Len(s) = Len(t), \A i \in 1 .. Len(s) : s[i] = t[i]
  PROVE  s = t
OBVIOUS

\* update_topten, a step at a time.
LEMMA ScoreStepListed ==
  ASSUME ScoreTypeOK, ScoreTypeOK', ListInv, NEW p \in Losers, NEW e \in Entries, ScoreStep(p, e)
  PROVE  ListInv'
<1> USE ScoreAssumption
<1>1. /\ spc \in [Losers -> SpcTypes] /\ spc' \in [Losers -> SpcTypes]
      /\ record \in Seq(Entries) /\ spc[p].list \in Seq(Entries)
      /\ scored \in Seq(Entries) /\ torn \in BOOLEAN
  BY DEF ScoreTypeOK, SpcTypes, SpcStages
<1>2. /\ Working(p) <=> rlock = p
      /\ p # NoOne
      /\ ~torn /\ Uncrowded => (rlock = NoOne => record = Best(All)) /\ Listed(p)
  BY DEF ListInv
<1>3. ASSUME UNCHANGED scored PROVE Best(All)' = Best(All)
  BY <1>3 DEF Best, AtRank, Rank, Ahead, All
<1>4. CASE LockScores(p) \/ GiveUp(p)
  <2>1. PICK at \in {"locked", "scored"} :
          /\ spc' = [spc EXCEPT ![p].at = at] /\ spc[p].at = "ready" /\ UNCHANGED <<record, scored, torn>>
          /\ \/ at = "locked" /\ rlock = NoOne /\ rlock' = p
             \/ at = "scored" /\ rlock # NoOne /\ rlock' = rlock
    BY <1>4 DEF LockScores, GiveUp, Moves
  <2>2. spc'[p].at = at /\ \A q \in Losers \ {p} : spc'[q] = spc[q]
    BY <1>1, <2>1
  <2>3. rlock # p
    BY <1>2, <2>1 DEF Working
  <2>4. Working(p)' <=> rlock' = p
    BY <2>1, <2>2, <2>3 DEF Working
  <2>5. ~torn' /\ Uncrowded => Listed(p)' /\ (rlock' = NoOne => record' = Best(All))
    BY <1>2, <1>3, <2>1, <2>2 DEF Listed
  <2> QED
    BY <1>1, <2>1, <2>2, <2>4, <2>5, ListStep
<1>5. CASE ReadScores(p, e)
  <2>1. /\ spc[p].at = "locked" /\ scored' = Append(scored, e) /\ UNCHANGED <<record, rlock, torn>>
        /\ spc' = [spc EXCEPT ![p] = IF MakesList(record, e) THEN [at |-> "rewrite", list |-> Insert(record, e)]
                                     ELSE [at |-> "unlock", list |-> <<>>]]
    BY <1>5 DEF ReadScores
  <2>2. All \in Seq(Entries) /\ All' = Append(All, e) /\ Len(All) \in Nat /\ Len(All') = Len(All) + 1
    BY <1>1, <2>1 DEF All
  <2>3. Uncrowded' => Uncrowded /\ (Len(All) + 1 <= PLAYERMAX \/ TTLISTLEN <= PLAYERMAX)
    BY <2>2 DEF Uncrowded
  <2>4. rlock = p /\ \A q \in Losers \ {p} : spc'[q] = spc[q]
    BY <1>1, <1>2, <2>1 DEF Working
  <2>5. \A q \in Losers \ {p} : ~Working(q)
    BY <2>4 DEF ListInv
  <2>6. spc'[p] = IF MakesList(record, e) THEN [at |-> "rewrite", list |-> Insert(record, e)]
                  ELSE [at |-> "unlock", list |-> <<>>]
    BY <1>1, <2>1
  <2>7. \A q \in Losers : Working(q)' <=> rlock' = q
    BY <2>1, <2>4, <2>5, <2>6 DEF Working
  <2>8. ASSUME ~torn', Uncrowded' PROVE \A q \in Losers : Listed(q)'
    <3>1. record = Best(All)
      BY <1>2, <2>1, <2>3, <2>8 DEF Listed
    <3>2. Best(All') = IF MakesList(record, e) THEN Insert(record, e) ELSE record
      BY <2>2, <2>3, <2>8, <3>1, InsertBest
    <3>3. Best(All)' = Best(All')
      BY DEF Best, AtRank, Rank, Ahead
    <3>4. Listed(p)'
      BY <2>1, <2>6, <3>2, <3>3 DEF Listed
    <3>5. ASSUME NEW q \in Losers \ {p} PROVE Listed(q)'
      BY <2>4, <2>5, <3>5 DEF Listed, Working
    <3> QED
      BY <3>4, <3>5
  <2>9. rlock' # NoOne
    BY <2>1, <2>4
  <2> QED
    BY <2>7, <2>8, <2>9 DEF ListInv
<1>6. CASE EmptyScores(p)
  <2>1. /\ spc[p].at = "rewrite" /\ record' = <<>> /\ spc' = [spc EXCEPT ![p].at = "write"]
        /\ UNCHANGED <<rlock, scored, torn>>
    BY <1>6 DEF EmptyScores, Moves
  <2>2. spc'[p].at = "write" /\ spc'[p].list = spc[p].list /\ \A q \in Losers \ {p} : spc'[q] = spc[q]
    BY <1>1, <2>1 DEF SpcTypes
  <2>3. rlock = p
    BY <1>2, <2>1 DEF Working
  <2>4. Working(p)' <=> rlock' = p
    BY <2>1, <2>2, <2>3 DEF Working
  <2>5. Copying(spc[p].list)'
    <3>1. Len(spc'[p].list) \in Nat /\ Len(record') = 0
      BY <1>1, <2>1, <2>2
    <3> QED
      BY <3>1 DEF Copying
  <2>6. ~torn' /\ Uncrowded => Listed(p)' /\ (rlock' = NoOne => record' = Best(All))
    BY <1>2, <1>3, <2>1, <2>2, <2>3, <2>5 DEF Listed
  <2> QED
    BY <1>1, <2>1, <2>2, <2>3, <2>4, <2>6, ListStep
<1>7. CASE WriteScore(p)
  <2>1. /\ spc[p].at = "write" /\ Len(record) < Len(spc[p].list)
        /\ record' = Append(record, spc[p].list[Len(record) + 1])
        /\ UNCHANGED <<rlock, spc, scored, torn>>
    BY <1>7 DEF WriteScore
  <2>2. rlock = p
    BY <1>2, <2>1 DEF Working
  <2>3. Working(p)' <=> rlock' = p
    BY <2>1, <2>2 DEF Working
  <2>4. ASSUME Copying(spc[p].list) PROVE Copying(spc[p].list)'
    <3>1. /\ Len(record) \in Nat /\ Len(spc[p].list) \in Nat /\ Len(record') = Len(record) + 1
          /\ record'[Len(record) + 1] = spc[p].list[Len(record) + 1]
          /\ \A i \in 1 .. Len(record) : record'[i] = record[i]
      BY <1>1, <2>1
    <3>2. ASSUME NEW i \in 1 .. Len(record') PROVE record'[i] = spc[p].list[i]
      <4>1. CASE i = Len(record) + 1
        BY <3>1, <4>1
      <4>2. CASE i \in 1 .. Len(record)
        BY <2>4, <3>1, <4>2 DEF Copying
      <4> QED
        BY <3>1, <4>1, <4>2
    <3> QED
      BY <2>1, <3>1, <3>2 DEF Copying
  <2>5. ~torn' /\ Uncrowded => Listed(p)' /\ (rlock' = NoOne => record' = Best(All))
    BY <1>2, <1>3, <2>1, <2>2, <2>4 DEF Listed
  <2> QED
    BY <1>1, <2>1, <2>2, <2>3, <2>5, ListStep
<1>8. CASE UnlockScores(p)
  <2>1. /\ spc[p].at = "unlock" \/ (spc[p].at = "write" /\ Len(record) >= Len(spc[p].list))
        /\ rlock' = IF rlock = p THEN NoOne ELSE rlock
        /\ spc' = [spc EXCEPT ![p] = [at |-> "scored", list |-> <<>>]]
        /\ UNCHANGED <<record, scored, torn>>
    BY <1>8 DEF UnlockScores
  <2>2. spc'[p].at = "scored" /\ \A q \in Losers \ {p} : spc'[q] = spc[q]
    BY <1>1, <2>1
  <2>3. rlock = p
    BY <1>2, <2>1 DEF Working
  <2>4. Working(p)' <=> rlock' = p
    BY <1>2, <2>1, <2>2, <2>3 DEF Working
  <2>5. ASSUME ~torn, Uncrowded PROVE record = Best(All)
    <3>1. Listed(p)
      BY <1>2, <2>5
    <3>2. CASE spc[p].at = "unlock"
      BY <3>1, <3>2 DEF Listed
    <3>3. CASE spc[p].at = "write" /\ Len(record) >= Len(spc[p].list)
      <4>1. /\ spc[p].list = Best(All) /\ Len(record) = Len(spc[p].list)
            /\ \A i \in 1 .. Len(record) : record[i] = spc[p].list[i]
        BY <1>1, <3>1, <3>3 DEF Listed, Copying
      <4>2. record = spc[p].list
        BY <1>1, <4>1, SameList
      <4> QED
        BY <4>1, <4>2
    <3> QED
      BY <2>1, <3>2, <3>3
  <2>6. ~torn' /\ Uncrowded => Listed(p)' /\ (rlock' = NoOne => record' = Best(All))
    BY <2>1, <2>2, <2>5 DEF Listed
  <2> QED
    BY <1>1, <2>1, <2>2, <2>3, <2>4, <2>6, ListStep
<1> QED
  BY <1>4, <1>5, <1>6, <1>7, <1>8 DEF ScoreStep

LEMMA ExitListed ==
  ASSUME ScoreTypeOK, ScoreTypeOK', ListInv, NEW p \in Losers, ScoresGone(p)
  PROVE  ListInv'
<1> USE ScoreAssumption
<1>1. /\ rlock' = IF rlock = p THEN NoOne ELSE rlock
      /\ torn' = (torn \/ spc[p].at \in {"rewrite", "write"})
      /\ spc' = [spc EXCEPT ![p] = Ready] /\ UNCHANGED <<record, scored>>
  BY DEF ScoresGone
<1>2. spc \in [Losers -> SpcTypes] /\ spc' \in [Losers -> SpcTypes]
  BY DEF ScoreTypeOK, SpcTypes, SpcStages
<1>3. spc'[p].at = "ready" /\ \A q \in Losers \ {p} : spc'[q] = spc[q]
  BY <1>1, <1>2 DEF Ready
<1>4. Working(p)' <=> rlock' = p
  BY <1>1, <1>3 DEF Working
<1>5. ASSUME ~torn', Uncrowded, rlock' = NoOne PROVE record = Best(All)
  <2>1. ~torn /\ spc[p].at \notin {"rewrite", "write"}
    BY <1>1, <1>5
  <2>2. rlock = NoOne \/ Working(p)
    BY <1>1, <1>5 DEF ListInv
  <2>3. (rlock = NoOne => record = Best(All)) /\ Listed(p)
    BY <1>5, <2>1 DEF ListInv
  <2> QED
    BY <2>1, <2>2, <2>3 DEF Listed, Working
<1>6. ~torn' /\ Uncrowded => Listed(p)' /\ (rlock' = NoOne => record' = Best(All))
  BY <1>1, <1>3, <1>5 DEF Listed
<1>7. rlock' = rlock \/ (rlock = p /\ rlock' = NoOne)
  BY <1>1
<1>8. torn => torn'
  BY <1>1
<1> QED
  BY <1>1, <1>2, <1>3, <1>4, <1>6, <1>7, <1>8, ListStep

LEMMA ListStepOK == BonesInv /\ ScoreTypeOK /\ ListInv /\ [Next]_vars => ListInv'
<1> SUFFICES ASSUME BonesInv, ScoreTypeOK, ListInv, [Next]_vars PROVE ListInv'
  OBVIOUS
<1>1. ScoreTypeOK'
  BY ScoreTypesKept
<1>2. ASSUME UNCHANGED scoreVars PROVE ListInv'
  <2>1. UNCHANGED <<record, rlock, spc, scored, torn>>
    BY <1>2 DEF scoreVars
  <2>2. All' = All /\ (Uncrowded' <=> Uncrowded)
    BY <2>1 DEF All, Uncrowded
  <2>3. Best(All)' = Best(All)
    BY <2>2 DEF Best, AtRank, Rank, Ahead
  <2>4. \A p \in Losers : (Listed(p)' <=> Listed(p)) /\ (Working(p)' <=> Working(p))
    BY <2>1, <2>3 DEF Listed, Copying, Working
  <2> QED
    BY <2>1, <2>2, <2>3, <2>4 DEF ListInv
<1>3. ASSUME NEW p \in Procs, WithScores(p) PROVE ListInv'
  <2>1. p \in Losers /\ hero[p].game \in Entries /\ ScoreStep(p, hero[p].game)
    BY <1>3, SharedAssumption DEF WithScores, BonesInv, Fates, Is, Game
  <2> QED
    BY <1>1, <2>1, ScoreStepListed
<1>4. ASSUME NEW p \in Procs, Exit(p) PROVE ListInv'
  BY <1>1, <1>4, ExitListed, SharedAssumption DEF Exit
<1> QED
  BY <1>2, <1>3, <1>4 DEF Next, vars, Contend, WithBones

\* While nobody holds the record lock the file is the list of the best of all
\* games that were put in, in their order, however many games end at the same
\* time, unless a process died while it wrote, or there are more games than
\* toptenlist_insert gets right.
THEOREM NoScoreIsLost == Spec => []ScoresKept
<1>1. Init => ListInv
  BY ListInitOK
<1>2. BonesInv /\ ScoreTypeOK /\ ListInv /\ [Next]_vars => ListInv'
  BY ListStepOK
<1>3. ListInv => ScoresKept
  BY DEF ListInv, ScoresKept
<1> QED
  BY <1>1, <1>2, <1>3, EndsInvariant, PTL DEF Spec
=============================================================================
