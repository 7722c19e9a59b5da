--------------------------- MODULE LogReadingProofs ----------------------------
(***************************************************************************)
(* What the three readers of LogReading promise, for logs, saves and       *)
(* recordings of any size.                                                 *)
(*                                                                         *)
(* The scan: after each block the line was seen, or it lies before the     *)
(* block and the block is not the first.  The diffs: the invariant says    *)
(* what the reader lacks, the pending run, if it is a copy or an edit, and *)
(* otherwise nothing but a seek.  The viewer: a diff is applied to what it *)
(* was made against, and the world that is shown is the recorded one, or a *)
(* diff that will be loaded is still to come.                              *)
(***************************************************************************)
EXTENDS LogReading, WellFoundedInduction, TLAPS

-----------------------------------------------------------------------------
(* replay_begin: RecoveryScan                                              *)

(* After n blocks of a short log: the line has been seen, or it lies before
   the block and the block is not the first. *)
ScanInv ==
  /\ ScanTypeOK
  /\ scan = "on" => endpos = filesize
  /\ mark = None => found = None
  /\ mark # None => mark < filesize
  /\ filesize <= 2 * Block /\ mark # None =>
       /\ fstart \in {filesize, Back(filesize), 0}
       /\ found = None => mark < fstart \/ (mark = fstart /\ fstart > 0)
       /\ found # None => found = mark /\ mark > fstart
  /\ scan = "done" => endpos = found /\ fstart = 0

(* replay_begin begins at the end of the file. *)
LEMMA ScanStarts == ScanInit => ScanInv
BY BlockAssumption DEF ScanInit, ScanInv, ScanTypeOK, None, Back

(* A block looked through, and the last. *)
LEMMA ScanGoesOn == ASSUME ScanInv, [ScanNext]_scanVars PROVE ScanInv'
<1> USE BlockAssumption DEF None
<1>1. CASE ScanBlock
  <2> DEFINE from == Back(fstart)
             local == IF Seen(from) THEN mark - from ELSE found
  <2>1. /\ fstart \in 1..filesize /\ filesize \in 0..MaxSize
        /\ mark \in 1..filesize \cup {-1} /\ found \in Int /\ endpos = filesize
        /\ mark # -1 => mark < filesize
        /\ scan = "on"
    BY <1>1 DEF ScanBlock, ScanInv, ScanTypeOK
  <2>2. from \in 0..(fstart - 1) /\ (from = 0 \/ from = fstart - Block) /\ fstart <= from + Block
    BY <2>1 DEF Back
  <2>3. /\ fstart' = from /\ found' = (IF local > 0 THEN local + from ELSE local)
        /\ filesize' = filesize /\ mark' = mark /\ endpos' = endpos /\ scan' = scan
    BY <1>1 DEF ScanBlock
  <2>4. mark = -1 => ~Seen(from)
    BY DEF Seen
  <2>5. Seen(from) <=>
          mark # -1 /\ mark - 1 >= from /\ (mark < filesize /\ mark < from + (Block + Overlap))
    BY <2>1, <2>2 DEF Seen
  <2>6. ScanTypeOK'
    BY <2>1, <2>2, <2>3, <2>4 DEF ScanTypeOK, ScanInv
  <2>7. ASSUME filesize <= 2 * Block, mark # -1
        PROVE  /\ from \in {filesize, Back(filesize), 0}
               /\ found' = -1 => mark < from \/ (mark = from /\ from > 0)
               /\ found' # -1 => found' = mark /\ mark > from
    <3>1. /\ fstart \in {filesize, Back(filesize), 0}
          /\ found = -1 => mark < fstart \/ (mark = fstart /\ fstart > 0)
          /\ found # -1 => found = mark /\ mark > fstart
      BY <2>7 DEF ScanInv
    <3>2. from \in {Back(filesize), 0}
      BY <2>1, <2>2, <2>7, <3>1 DEF Back
    <3>3. CASE Seen(from)
      <4>1. local = mark - from /\ mark \in Nat /\ mark - from >= 1
        BY <2>1, <2>2, <2>5, <3>3
      <4>2. found' = mark
        BY <2>2, <2>3, <4>1
      <4> QED
        BY <2>1, <2>2, <2>7, <3>2, <4>1, <4>2
    <3>4. CASE ~Seen(from) /\ found = -1
      <4>1. found' = -1
        BY <2>3, <3>4
      <4>2. mark <= from
        BY <2>1, <2>2, <2>5, <2>7, <3>1, <3>4
      <4>3. mark >= 1
        BY <2>1, <2>7
      <4> QED
        BY <2>2, <3>2, <4>1, <4>2, <4>3, <2>1
    <3>5. CASE ~Seen(from) /\ found # -1
      <4>1. fstart # filesize /\ fstart # 0
        BY <2>1, <2>7, <3>1, <3>5
      <4>2. fstart = Back(filesize) /\ from = 0
        BY <2>1, <2>7, <3>1, <4>1 DEF Back
      <4>3. found' = mark /\ mark > from
        BY <2>1, <2>3, <2>7, <3>1, <3>5, <4>2
      <4> QED
        BY <2>1, <2>7, <3>2, <4>3
    <3> QED
      BY <3>1, <3>3, <3>4, <3>5
  <2> QED
    BY <2>1, <2>3, <2>4, <2>6, <2>7 DEF ScanInv
<1>2. CASE EndScan
  BY <1>2 DEF EndScan, ScanInv, ScanTypeOK
<1>3. CASE UNCHANGED scanVars
  BY <1>3 DEF scanVars, ScanInv, ScanTypeOK, Back
<1> QED
  BY <1>1, <1>2, <1>3 DEF ScanNext

(* fstart and found stay inside the file.                                  *)
THEOREM ScanTypeCorrect == ScanSpec => []ScanTypeOK
<1>1. ScanInv => ScanTypeOK
  BY DEF ScanInv
<1> QED
  BY <1>1, ScanStarts, ScanGoesOn, PTL DEF ScanSpec

(* In a log of at most two blocks replay_begin finds the last diff, where  *)
(* it is; what the blocks overlap by, a byte or more, is enough.           *)
THEOREM ShortLogsAreFound == ScanSpec => []FindsInShortLog
<1>1. ScanInv => FindsInShortLog
  BY BlockAssumption DEF ScanInv, ScanTypeOK, FindsInShortLog, FindsLastDiff, None
<1> QED
  BY <1>1, ScanStarts, ScanGoesOn, PTL DEF ScanSpec

-----------------------------------------------------------------------------
(* memfile.c and replay_check_diff: MemDiff                                *)

(* Words carry every count the writer pends. *)
LEMMA Fields ==
  /\ Half \in Nat /\ Half >= 2 /\ Field = Half + Half /\ Field \in Nat
  /\ \A n \in 0..(Field-1) : Word(n) = n
  /\ \A n \in (1-Half)..(-1) : Word(n) = n + Field
<1>1. Half \in Nat /\ Half >= 2 /\ Field = Half + Half /\ Field \in Nat
  BY ConstantsAssumption DEF Half
<1>2. ASSUME NEW n \in 0..(Field-1) PROVE Word(n) = n
  BY <1>1 DEF Word
<1>3. ASSUME NEW n \in (1-Half)..(-1) PROVE Word(n) = n + Field
  BY <1>1 DEF Word
<1>. QED
  BY <1>1, <1>2, <1>3

(* The reader holds the save up to the pending run. *)
Behind(n) ==
  /\ rd.ok /\ rd.dbpos \in Nat
  /\ rd.pos \in Nat /\ rd.pos + n = pos
  /\ \A i \in 1..rd.pos : rd.buf[i] = buf[i]

RunLength == curcount \in 1..(Field-1)

(* What is pending, and where the reader is before it. *)
PendingRun ==
  /\ curcmd = "copy" =>
       /\ RunLength /\ Behind(curcount)
       /\ rd.dbpos + curcount = relativepos
       /\ relativepos <= relativeto.pos
       /\ \A i \in 1..curcount : relativeto.buf[rd.dbpos + i] = buf[rd.pos + i]
  /\ curcmd = "edit" =>
       RunLength /\ Behind(curcount) /\ rd.dbpos + curcount = relativepos
  /\ curcmd = "seek" =>
       /\ curcount \in (1-Half)..(Half-1) /\ curcount # 0
       /\ Behind(0) /\ rd.dbpos - curcount = relativepos
  /\ curcmd = "invalid" => Behind(0) /\ rd.dbpos = relativepos

(* In mtag's loop: the seeks still to be written lead to the tag. *)
PendingSeek ==
  /\ curcmd \in {"seek", "invalid"} /\ Behind(0)
  /\ curcount \in (1-Half)..(Half-1)
  /\ rd.dbpos - (curcount + offset) = goal

DiffInv ==
  /\ DiffTypeOK
  /\ pc \in {"open", "align"} => PendingRun
  /\ pc = "tag" => PendingSeek
  /\ pc = "closed" => Behind(0)

(* The save a diff is made against. *)
LEMMA ParentTypes ==
  ASSUME DiffTypeOK
  PROVE  /\ relativeto.buf \in Buffer /\ relativeto.pos \in 0..MaxLen
         /\ relativeto.tags \in [Tags -> 0..MaxLen \cup {NoTag}]
BY ConstantsAssumption DEF DiffTypeOK

(* mnew writes nothing yet. *)
LEMMA DiffStarts == DiffInit => DiffInv
<1> SUFFICES ASSUME DiffInit PROVE DiffInv
  OBVIOUS
<1>1. [i \in 1..MaxLen |-> Zero] \in Buffer
  BY ConstantsAssumption DEF Buffer
<1>2. DiffTypeOK
  BY <1>1, ConstantsAssumption DEF DiffInit, DiffTypeOK, Cmds
<1>3. PendingRun
  BY DEF DiffInit, PendingRun, Behind
<1>. QED
  BY <1>2, <1>3 DEF DiffInit, DiffInv

(* mdiffflush: the reader catches up with the writer. *)
LEMMA FlushCatchesUp ==
  ASSUME DiffTypeOK, PendingRun
  PROVE  /\ Flushed \in [buf : Buffer, pos : 0..MaxLen, dbpos : Int, ok : BOOLEAN]
         /\ Flushed.ok /\ Flushed.pos = pos /\ Flushed.dbpos = relativepos
         /\ \A i \in 1..pos : Flushed.buf[i] = buf[i]
<1> USE Fields, ParentTypes, ConstantsAssumption
<1>0. /\ rd \in [buf : Buffer, pos : 0..MaxLen, dbpos : Int, ok : BOOLEAN]
      /\ buf \in Buffer /\ pos \in 0..MaxLen /\ relativepos \in Nat
      /\ MaxLen \in Nat /\ curcount \in Int
  BY DEF DiffTypeOK
<1>1. CASE curcmd = "seek"
  <2>1. /\ curcount \in (1-Half)..(Half-1) /\ curcount # 0
        /\ Behind(0) /\ rd.dbpos - curcount = relativepos
    BY <1>1 DEF PendingRun
  <2>2. CASE curcount > 0
    <3>1. Word(curcount) = curcount /\ ~(curcount >= Half)
      BY <2>1, <2>2
    <3>2. Flushed = [rd EXCEPT !.dbpos = @ - curcount]
      BY <1>0, <1>1, <2>1, <2>2, <3>1 DEF Flushed, ReadSeek
    <3>. QED
      BY <1>0, <2>1, <3>2 DEF Behind
  <2>3. CASE curcount < 0
    <3>1. /\ Word(curcount) = curcount + Field /\ Word(curcount) >= Half
          /\ Word(curcount) # 0
      BY <2>1, <2>3
    <3>2. Flushed = [rd EXCEPT !.dbpos = @ - curcount]
      BY <1>0, <1>1, <2>1, <2>3, <3>1 DEF Flushed, ReadSeek
    <3>. QED
      BY <1>0, <2>1, <3>2 DEF Behind
  <2>. QED
    BY <2>1, <2>2, <2>3
<1>2. ASSUME RunLength, Behind(curcount), rd.dbpos + curcount = relativepos,
             NEW bytes, \A i \in 1..curcount : bytes[i] = buf[rd.pos + i],
             Flushed = Extend(rd, bytes, curcount)
      PROVE  /\ Flushed \in [buf : Buffer, pos : 0..MaxLen, dbpos : Int, ok : BOOLEAN]
             /\ Flushed.ok /\ Flushed.pos = pos /\ Flushed.dbpos = relativepos
             /\ \A i \in 1..pos : Flushed.buf[i] = buf[i]
  <2>1. rd.pos + curcount = pos /\ rd.pos \in Nat /\ curcount \in Nat /\ rd.ok
    BY <1>2 DEF Behind, RunLength
  <2>2. ASSUME NEW i \in (rd.pos+1)..(rd.pos+curcount)
        PROVE  bytes[i - rd.pos] = buf[i]
    BY <1>2, <2>1
  <2> DEFINE nb == [i \in 1..MaxLen |-> IF i \in (rd.pos+1)..(rd.pos+curcount)
                                         THEN bytes[i - rd.pos] ELSE rd.buf[i]]
  <2>3. nb \in Buffer
    BY <1>0, <2>1, <2>2 DEF Buffer
  <2>4. \A i \in 1..pos : nb[i] = buf[i]
    BY <1>0, <1>2, <2>1, <2>2 DEF Behind
  <2>5. Flushed = [rd EXCEPT !.buf = nb, !.pos = @ + curcount, !.dbpos = @ + curcount]
    BY <1>2 DEF Extend
  <2>. HIDE DEF nb
  <2>6. /\ Flushed.buf = nb /\ Flushed.pos = pos /\ Flushed.dbpos = relativepos
        /\ Flushed.ok = rd.ok
    BY <1>0, <1>2, <2>1, <2>5
  <2>7. Flushed \in [buf : Buffer, pos : 0..MaxLen, dbpos : Int, ok : BOOLEAN]
    <3>1. Flushed = [buf |-> nb, pos |-> pos, dbpos |-> relativepos, ok |-> rd.ok]
      BY <1>0, <1>2, <2>1, <2>5
    <3>. QED
      BY <1>0, <2>3, <3>1
  <2>. QED
    BY <2>1, <2>4, <2>6, <2>7
<1>3. CASE curcmd = "copy"
  <2> DEFINE bytes == [i \in 1..curcount |-> relativeto.buf[rd.dbpos + i]]
  <2>1. /\ RunLength /\ Behind(curcount)
        /\ rd.dbpos \in Nat /\ rd.dbpos + curcount = relativepos
        /\ relativepos <= relativeto.pos
        /\ \A i \in 1..curcount : bytes[i] = buf[rd.pos + i]
    BY <1>3 DEF PendingRun, Behind
  <2>2. Word(curcount) = curcount
    BY <2>1 DEF RunLength
  <2>3. Flushed = Extend(rd, bytes, curcount)
    BY <1>0, <1>3, <2>1, <2>2 DEF Flushed, ReadCopy
  <2>. HIDE DEF bytes
  <2>. QED
    BY <1>2, <2>1, <2>3
<1>4. CASE curcmd = "edit"
  <2> DEFINE bytes == [i \in 1..curcount |-> buf[pos - curcount + i]]
  <2>1. RunLength /\ Behind(curcount) /\ rd.dbpos + curcount = relativepos
    BY <1>4 DEF PendingRun
  <2>2. Word(curcount) = curcount
    BY <2>1 DEF RunLength
  <2>3. \A i \in 1..curcount : bytes[i] = buf[rd.pos + i]
    BY <1>0, <2>1 DEF Behind, RunLength
  <2>4. Flushed = Extend(rd, bytes, curcount)
    BY <1>4, <2>2 DEF Flushed, ReadEdit
  <2>. HIDE DEF bytes
  <2>. QED
    BY <1>2, <2>1, <2>3, <2>4
<1>5. CASE curcmd = "invalid"
  BY <1>0, <1>5 DEF Flushed, PendingRun, Behind
<1>. QED
  BY <1>1, <1>3, <1>4, <1>5 DEF DiffTypeOK, Cmds

(* mwrite of one byte, from mwrite8 or from mfalign. *)
LEMMA PutKeeps ==
  ASSUME DiffTypeOK, PendingRun, NEW b \in Byte, Put(b)
  PROVE  /\ buf' \in Buffer /\ pos' \in 0..MaxLen /\ relativepos' \in Nat
         /\ curcmd' \in Cmds /\ curcount' \in Int
         /\ rd' \in [buf : Buffer, pos : 0..MaxLen, dbpos : Int, ok : BOOLEAN]
         /\ relativeto' = relativeto => PendingRun'
<1> USE Fields, ParentTypes, ConstantsAssumption
<1>0. /\ rd \in [buf : Buffer, pos : 0..MaxLen, dbpos : Int, ok : BOOLEAN]
      /\ buf \in Buffer /\ pos \in 0..MaxLen /\ relativepos \in Nat
      /\ MaxLen \in Nat /\ curcount \in Int
  BY DEF DiffTypeOK
<1> DEFINE same == relativepos < relativeto.pos /\ relativeto.buf[relativepos + 1] = b
           cmd  == IF same THEN "copy" ELSE "edit"
           new  == curcmd # cmd \/ RunFull(curcount)
<1>1. /\ pos < MaxLen /\ pos' = pos + 1 /\ relativepos' = relativepos + 1
      /\ buf' = [buf EXCEPT ![pos+1] = b]
      /\ rd' = IF new THEN Flushed ELSE rd
      /\ curcount' = IF new THEN 1 ELSE curcount + 1
      /\ curcmd' = cmd
  BY DEF Put
<1>2. buf' \in Buffer /\ pos' \in 0..MaxLen /\ relativepos' \in Nat
  BY <1>0, <1>1 DEF Buffer
<1>3. buf'[pos+1] = b /\ \A i \in 1..pos : buf'[i] = buf[i]
  BY <1>0, <1>1 DEF Buffer
<1>4. curcmd' \in Cmds /\ curcount' \in Int
  BY <1>0, <1>1 DEF Cmds
<1>5. CASE new
  <2>1. /\ rd' \in [buf : Buffer, pos : 0..MaxLen, dbpos : Int, ok : BOOLEAN]
        /\ rd'.ok /\ rd'.pos = pos /\ rd'.dbpos = relativepos
        /\ \A i \in 1..pos : rd'.buf[i] = buf[i]
    BY <1>1, <1>5, FlushCatchesUp
  <2>2. curcount' = 1
    BY <1>1, <1>5
  <2>3. ASSUME relativeto' = relativeto PROVE PendingRun'
    <3>1. Behind(curcount)' /\ RunLength'
      BY <1>0, <1>1, <1>3, <2>1, <2>2 DEF Behind, RunLength
    <3>2. rd'.dbpos \in Nat /\ rd'.dbpos + curcount' = relativepos'
      BY <1>0, <1>1, <2>1, <2>2
    <3>3. curcmd' = "copy" => /\ relativepos' <= relativeto'.pos
                              /\ relativeto'.buf[rd'.dbpos + 1] = buf'[rd'.pos + 1]
      BY <1>0, <1>1, <1>3, <2>1, <2>3
    <3>4. curcmd' \in {"copy", "edit"}
      BY <1>1
    <3>. QED
      BY <2>2, <3>1, <3>2, <3>3, <3>4 DEF PendingRun
  <2>. QED
    BY <1>2, <1>4, <2>1, <2>3
<1>6. CASE ~new
  <2>1. /\ curcmd = cmd /\ curcmd' = curcmd /\ rd' = rd /\ curcount' = curcount + 1
        /\ curcount < Field - 1
    BY <1>0, <1>1, <1>6 DEF RunFull
  <2>2. curcmd \in {"copy", "edit"}
    BY <2>1
  <2>3. /\ RunLength /\ Behind(curcount) /\ rd.dbpos + curcount = relativepos
    BY <2>2 DEF PendingRun
  <2>4. ASSUME relativeto' = relativeto PROVE PendingRun'
    <3>1. Behind(curcount)' /\ RunLength'
      BY <1>0, <1>1, <1>3, <2>1, <2>3 DEF Behind, RunLength
    <3>2. rd'.dbpos + curcount' = relativepos'
      BY <1>0, <1>1, <2>1, <2>3 DEF RunLength
    <3>3. ASSUME curcmd' = "copy"
          PROVE  /\ rd'.dbpos \in Nat /\ relativepos' <= relativeto'.pos
                 /\ \A i \in 1..curcount' : relativeto'.buf[rd'.dbpos + i] = buf'[rd'.pos + i]
      <4>1. /\ rd.dbpos \in Nat /\ same
            /\ \A i \in 1..curcount : relativeto.buf[rd.dbpos + i] = buf[rd.pos + i]
        BY <2>1, <3>3 DEF PendingRun, Behind
      <4>2. rd.pos + curcount = pos /\ rd.pos \in Nat /\ curcount \in 1..(Field-1)
        BY <2>3 DEF Behind, RunLength
      <4>3. relativepos' <= relativeto'.pos
        BY <1>0, <1>1, <2>4, <4>1
      <4>4. ASSUME NEW i \in 1..curcount'
            PROVE  relativeto'.buf[rd'.dbpos + i] = buf'[rd'.pos + i]
        <5>1. CASE i <= curcount
          BY <1>0, <1>3, <2>1, <2>4, <4>1, <4>2, <5>1
        <5>2. CASE i = curcount + 1
          BY <1>0, <1>3, <2>1, <2>3, <2>4, <4>1, <4>2, <5>2
        <5>. QED
          BY <2>1, <4>2, <5>1, <5>2
      <4>. QED
        BY <2>1, <4>1, <4>3, <4>4
    <3>. QED
      BY <2>1, <2>2, <3>1, <3>2, <3>3 DEF PendingRun
  <2>. QED
    BY <1>0, <1>2, <1>4, <2>1, <2>4
<1>. QED
  BY <1>5, <1>6

(* Every write, tag, alignment and the end. *)
LEMMA DiffGoesOn == ASSUME DiffInv, [DiffNext]_diffVars PROVE DiffInv'
<1> USE Fields, ParentTypes, ConstantsAssumption
<1>0. DiffTypeOK /\ (pc \in {"open", "align"} => PendingRun)
  BY DEF DiffInv
<1>1. CASE UNCHANGED diffVars
  <2>1. DiffTypeOK'
    BY <1>0, <1>1 DEF diffVars, writer, DiffTypeOK
  <2>. QED
    BY <1>1, <2>1 DEF diffVars, writer, DiffInv, PendingRun, PendingSeek, Behind, RunLength
<1>2. ASSUME NEW b \in Byte, Put(b), pc \in {"open", "align"}, pc' \in {"open", "align"},
             relativeto' = relativeto, UNCHANGED <<offset, goal>>, pad' \in Nat
      PROVE  DiffInv'
  <2>1. DiffTypeOK' /\ PendingRun'
    BY <1>0, <1>2, PutKeeps DEF DiffTypeOK
  <2>. QED
    BY <1>2, <2>1 DEF DiffInv
<1>3. ASSUME NEW b \in Byte, Write(b) PROVE DiffInv'
  BY <1>0, <1>2, <1>3 DEF Write, DiffTypeOK
<1>4. ASSUME NEW b \in Byte, Magic(b) PROVE DiffInv'
  BY <1>0, <1>2, <1>4 DEF Magic, DiffTypeOK
<1>5. CASE PadByte
  BY <1>0, <1>2, <1>5 DEF PadByte, DiffTypeOK
<1>6. CASE Align
  <2>1. pad' \in Nat
    <3>1. pos \in 0..MaxLen /\ pos % Aln \in 0..(Aln-1) /\ Aln \in Nat
      BY <1>0 DEF DiffTypeOK
    <3>. QED
      BY <1>6, <3>1 DEF Align, AlignBytes
  <2>2. DiffTypeOK'
    BY <1>0, <1>6, <2>1 DEF Align, writer, DiffTypeOK
  <2>3. PendingRun'
    BY <1>0, <1>6 DEF Align, writer, PendingRun, Behind, RunLength
  <2>. QED
    BY <1>6, <2>2, <2>3 DEF Align, DiffInv
<1>7. ASSUME NEW t \in Tags, Tag(t) PROVE DiffInv'
  <2>0. PendingRun /\ pc' = "tag"
    BY <1>0, <1>7 DEF Tag
  <2>1. /\ goal' \in 0..MaxLen /\ goal' = relativeto.tags[t]
        /\ offset' = relativepos - goal' /\ offset' \in Int
    BY <1>0, <1>7 DEF Tag, DiffTypeOK
  <2>2. CASE curcmd = "seek"
    <3>1. UNCHANGED <<rd, curcount, curcmd, buf, pos, relativeto, pad>>
      BY <1>7, <2>2 DEF Tag
    <3>2. DiffTypeOK'
      BY <1>0, <1>7, <2>0, <2>1, <3>1 DEF Tag, DiffTypeOK
    <3>3. /\ curcount \in (1-Half)..(Half-1)
          /\ Behind(0) /\ rd.dbpos - curcount = relativepos
      BY <2>0, <2>2 DEF PendingRun
    <3>4. Behind(0)'
      BY <3>1, <3>3 DEF Behind
    <3>5. rd.dbpos - (curcount + offset') = goal'
      BY <1>0, <2>1, <3>3 DEF DiffTypeOK
    <3>. QED
      BY <2>0, <2>2, <3>1, <3>2, <3>3, <3>4, <3>5 DEF DiffInv, PendingSeek
  <2>3. CASE curcmd # "seek"
    <3>1. /\ UNCHANGED <<buf, pos, relativeto, relativepos, pad>>
          /\ rd' = Flushed /\ curcount' = 0 /\ curcmd' = "invalid"
      BY <1>7, <2>3 DEF Tag
    <3>2. /\ rd' \in [buf : Buffer, pos : 0..MaxLen, dbpos : Int, ok : BOOLEAN]
          /\ rd'.ok /\ rd'.pos = pos /\ rd'.dbpos = relativepos
          /\ \A i \in 1..pos : rd'.buf[i] = buf[i]
      BY <1>0, <2>0, <3>1, FlushCatchesUp
    <3>3. DiffTypeOK'
      BY <1>0, <2>0, <2>1, <3>1, <3>2 DEF DiffTypeOK, Cmds
    <3>4. Behind(0)'
      BY <1>0, <3>1, <3>2 DEF Behind, DiffTypeOK
    <3>5. rd'.dbpos - (curcount' + offset') = goal'
      BY <1>0, <2>1, <3>1, <3>2 DEF DiffTypeOK
    <3>. QED
      BY <2>0, <3>1, <3>3, <3>4, <3>5 DEF DiffInv, PendingSeek
  <2>. QED
    BY <2>2, <2>3
<1>8. CASE SeekChunk
  <2> DEFINE n == IF offset + curcount < 0 THEN -(Half - 1) ELSE Half - 1
  <2>1. /\ PendingSeek /\ Far(offset + curcount) /\ pc' = "tag"
        /\ rd' = ReadSeek(rd, Word(n)) /\ offset' = offset - n
        /\ UNCHANGED <<relativeto, buf, pos, relativepos, curcmd, curcount, goal, pad>>
    BY <1>8 DEF SeekChunk, DiffInv, writer
  <2>2. /\ Behind(0) /\ curcount \in (1-Half)..(Half-1)
        /\ rd.dbpos - (curcount + offset) = goal
    BY <2>1 DEF PendingSeek
  <2>3. /\ rd.dbpos \in Int /\ goal \in Nat /\ offset \in Int /\ curcount \in Int
        /\ rd \in [buf : Buffer, pos : 0..MaxLen, dbpos : Int, ok : BOOLEAN]
    BY <1>0 DEF DiffTypeOK
  <2>4. rd' = [rd EXCEPT !.dbpos = @ - n]
    <3>1. CASE offset + curcount < 0
      <4>1. Word(n) = n + Field /\ n + Field >= Half /\ n + Field # 0 /\ rd.dbpos >= n
        <5>1. n = 1 - Half /\ n \in (1-Half)..(-1)
          BY <3>1
        <5>2. Word(n) = n + Field
          BY <5>1
        <5>3. rd.dbpos >= n
          BY <2>2, <3>1, <5>1 DEF Behind
        <5>. HIDE DEF n
        <5>. QED
          BY <5>1, <5>2, <5>3
      <4>. QED
        BY <2>1, <2>3, <4>1 DEF ReadSeek
    <3>2. CASE offset + curcount >= 0
      <4>1. Word(n) = n /\ n < Half /\ n # 0 /\ rd.dbpos >= n
        BY <2>1, <2>2, <2>3, <3>2 DEF Far
      <4>. QED
        BY <2>1, <2>3, <4>1 DEF ReadSeek
    <3>. QED
      BY <2>3, <3>1, <3>2
  <2>5. n \in Int
    OBVIOUS
  <2>. HIDE DEF n
  <2>6. DiffTypeOK'
    BY <1>0, <2>1, <2>3, <2>4, <2>5 DEF DiffTypeOK
  <2>7. Behind(0)'
    <3>1. rd'.dbpos \in Nat
      BY <2>1, <2>2, <2>3, <2>4 DEF n, Far, Behind
    <3>. QED
      BY <2>1, <2>2, <2>3, <2>4, <3>1 DEF Behind
  <2>8. rd'.dbpos - (curcount' + offset') = goal'
    BY <2>1, <2>2, <2>3, <2>4, <2>5
  <2>. QED
    BY <2>1, <2>2, <2>6, <2>7, <2>8 DEF DiffInv, PendingSeek
<1>9. CASE SeekRest
  <2>1. /\ PendingSeek /\ ~Far(offset + curcount) /\ pc' = "open"
        /\ curcount' = curcount + offset /\ relativepos' = goal
        /\ curcmd' = IF curcount' # 0 THEN "seek" ELSE "invalid"
        /\ offset' = 0
        /\ UNCHANGED <<relativeto, buf, pos, goal, pad, rd>>
    BY <1>9 DEF SeekRest, DiffInv
  <2>2. /\ Behind(0) /\ rd.dbpos - curcount' = relativepos'
        /\ curcount' \in (1-Half)..(Half-1)
    BY <1>0, <2>1 DEF PendingSeek, Far, DiffTypeOK
  <2>3. DiffTypeOK'
    BY <1>0, <2>1, <2>2 DEF DiffTypeOK, Cmds
  <2>4. Behind(0)'
    BY <2>1, <2>2 DEF Behind
  <2>5. PendingRun'
    BY <1>0, <2>1, <2>2, <2>4 DEF PendingRun, DiffTypeOK
  <2>. QED
    BY <2>1, <2>3, <2>5 DEF DiffInv
<1>10. CASE Close
  <2>1. /\ PendingRun /\ pc' = "closed" /\ rd' = Flushed /\ curcmd' = "invalid"
        /\ UNCHANGED <<relativeto, buf, pos, relativepos, curcount, offset, goal, pad>>
    BY <1>0, <1>10 DEF Close
  <2>2. /\ rd' \in [buf : Buffer, pos : 0..MaxLen, dbpos : Int, ok : BOOLEAN]
        /\ rd'.ok /\ rd'.pos = pos
        /\ \A i \in 1..pos : rd'.buf[i] = buf[i]
    BY <1>0, <2>1, FlushCatchesUp
  <2>3. DiffTypeOK'
    BY <1>0, <2>1, <2>2 DEF DiffTypeOK, Cmds
  <2>4. Behind(0)'
    <3>1. rd'.dbpos \in Nat
      BY <1>0, <2>1, FlushCatchesUp DEF DiffTypeOK
    <3>. QED
      BY <1>0, <2>1, <2>2, <3>1 DEF Behind, DiffTypeOK
  <2>. QED
    BY <2>1, <2>3, <2>4 DEF DiffInv
<1>. QED
  BY <1>1, <1>3, <1>4, <1>5, <1>6, <1>7, <1>8, <1>9, <1>10 DEF DiffNext

(* The reader lacks the pending run and nothing else.                      *)
THEOREM DiffInvariant == DiffSpec => []DiffInv
<1>1. DiffInit => DiffInv
  BY DiffStarts
<1>2. DiffInv /\ [DiffNext]_diffVars => DiffInv'
  BY DiffGoesOn
<1>. QED
  BY <1>1, <1>2, PTL DEF DiffSpec

(* The buffers, positions and counts of writer and reader keep their types; in
   particular the reader never holds more than the save has bytes. *)
THEOREM DiffTypeCorrect == DiffSpec => []DiffTypeOK
<1>1. DiffInv => DiffTypeOK
  BY DEF DiffInv
<1>. QED
  BY <1>1, DiffInvariant, PTL

(* replay_check_diff neither rejects nor cuts short a diff of memfile.c: no
   word of 0 is written, no seek leaves the parent, no copy reads past it. *)
THEOREM AlwaysAccepted == DiffSpec => []Accepted
<1>1. DiffInv => Accepted
  BY DEF DiffInv, DiffTypeOK, PendingRun, PendingSeek, Behind, Accepted, Cmds
<1>. QED
  BY <1>1, DiffInvariant, PTL

(* The save rebuilt from a finished diff is the save it was made of. *)
THEOREM DiffsRoundTrip == DiffSpec => []RoundTrip
<1>1. DiffInv => RoundTrip
  BY DEF DiffInv, DiffTypeOK, Behind, RoundTrip
<1>. QED
  BY <1>1, DiffInvariant, PTL

-----------------------------------------------------------------------------
(* nh_view_replay_*: ReplayView                                            *)

(* Where the program is, and what the frames, the counter and the         *)
(* checkpoints then are; whatever this build makes of the recording.      *)
ViewTyped ==
  /\ ViewTypeOK
  /\ viewer \in {"menu", "idle"} => valid \in {-1, 0}
  /\ viewer \in {"forward", "goto"} => valid \in {0, 1}
  /\ viewer = "failed" => valid = 0 /\ file.mid
  /\ viewer = "menu" => call = Nothing
  /\ viewer \in {"forward", "goto", "failed"} => call.what # "given up"
  /\ viewer = "forward" => call.what \in {"forward", "backward"}
  /\ actions <= file.seg
  /\ file.mid => file.seg < MaxAction
  /\ viewer # "menu" => Len(checkpoints) > 0
  /\ \A k \in 1..MaxAction : clock[k - 1] <= clock[k]
  /\ \A i \in 1..Len(checkpoints) : checkpoints[i].actions <= checkpoints[i].seg

\* The diffs are applied to what they were made against.
Faithful ==
  /\ \A i \in 1..Len(checkpoints) : checkpoints[i].data = checkpoints[i].seg
  /\ viewer # "menu" =>
       base = file.seg /\ options = IF file.mid THEN file.seg + 1 ELSE file.seg

\* Moves are 0 only while a failed step is done again.
Clocked ==
  /\ zeroed /\ ~outOfSync =>
       \/ viewer \in {"menu", "exited", "lost"}
       \/ viewer = "goto" /\ call.what = "retry" /\ file.mid /\ did
  /\ viewer \in {"forward", "goto", "failed"} => call.start > 0
  /\ viewer = "goto" /\ call.what = "retry" => call.to = call.start
  /\ viewer = "goto" /\ call.what = "retry" /\ valid > 0 => outOfSync
  /\ viewer = "failed" /\ call.what = "retry" => outOfSync
  /\ viewer = "idle" /\ call.what = "given up" => outOfSync /\ file.mid

\* The world is the recorded one, or a diff is still to be loaded.
Rebuilt ==
  /\ viewer = "idle" => world = file.seg \/ Unrestored
  /\ viewer = "forward" /\ file.mid => call.to = 1 /\ done = 0 /\ did
  /\ viewer = "forward" =>
       \/ world = file.seg
       \/ outOfSync /\ AtEnd /\ (done < call.to \/ ~did)
       \/ done < call.to /\ did /\ ~AtEnd
  /\ viewer = "goto" => world = file.seg \/ outOfSync \/ (Running /\ ~AtEnd)

\* Nothing fails, every action is counted.
Undisturbed ==
  /\ viewer \in {"menu", "idle", "forward", "goto"}
  /\ ~file.mid /\ ~zeroed
  /\ call.what \in {"nothing", "forward", "backward", "goto"}
  /\ viewer # "menu" =>
       /\ actions = file.seg
       /\ world = file.seg \/ (outOfSync /\ cmdsInvalid)
       /\ \A i \in 1..Len(checkpoints) : checkpoints[i].actions = checkpoints[i].seg
       /\ checkpoints[1].actions = 0
  /\ viewer = "idle" => world = file.seg /\ ArrivesWhereAsked

\* How far the step under way has come.
Underway ==
  /\ viewer = "forward" /\ call.what = "forward" =>
       /\ call.to = 1
       /\ \/ done = 0 /\ did /\ actions = call.from /\ world = file.seg
          \/ done = 1 /\ did /\ actions = call.from + 1
          \/ /\ done = 1 /\ ~did /\ actions = call.from
             /\ call.from = MaxAction /\ world = file.seg
  /\ viewer = "forward" /\ call.what = "backward" =>
       /\ did
       /\ call.from = 0 => call.to = -1 /\ done = 0 /\ actions = 0
       /\ call.from > 0 => done <= call.to /\ actions = call.from - 1 - call.to + done
  /\ viewer = "goto" =>
       /\ call.what = "goto"
       /\ actions \in {0, call.from} \/ clock[actions - 1] < call.to
       /\ did \/ actions = MaxAction

\* The new game is the recorded one.
Honest == kind[0] = "same"

(* The last part is for a recording whose commands at most give another    *)
(* result, the second for one whose new game this build makes as recorded. *)
ViewInv ==
  /\ ViewTyped
  /\ Honest => Faithful /\ Clocked /\ Rebuilt
  /\ Calm => Undisturbed /\ Underway

(* A set of numbers that is not empty has a least one. *)
LEMMA Least ==
  ASSUME NEW T, T \subseteq Nat, T # {}
  PROVE  \E x \in T : \A y \in T : x <= y
<1>1. PICK x \in T : \A y \in T : ~(<<y, x>> \in OpToRel(<, Nat))
  BY NatLessThanWellFounded, WFMin
<1>2. \A y \in T : x <= y
  <2> TAKE y \in T
  <2>1. ~(y < x)
    BY <1>1 DEF OpToRel
  <2> QED
    BY <2>1
<1> QED
  BY <1>2

(* Arithmetic of a step back: n actions were done, m at the checkpoint. *)
LEMMA StepsBack ==
  /\ \A n, m \in Int : n - 1 - m \in Int
  /\ \A n, m \in Nat :
       /\ m = n - 1 - (n - 1 - m) + 0
       /\ m = 0 \/ m < n - 1 =>
            /\ n = 0 => m = 0 /\ n - 1 - m = -1
            /\ n > 0 => 0 <= n - 1 - m
OBVIOUS

(* The new game is one of the segments that Calm is about. *)
LEMMA CalmIsHonest == Calm => Honest
BY ViewBounds DEF Calm, Honest, Recorded

(* The types, one variable at a time. *)
LEMMA ViewTypes ==
  ASSUME ViewTyped
  PROVE  /\ kind \in [Recorded -> Kinds] /\ clock \in [Recorded -> 1..(MaxAction + 1)]
         /\ file.seg \in Recorded /\ file.mid \in BOOLEAN
         /\ file = [seg |-> file.seg, mid |-> file.mid]
         /\ world \in World /\ base \in World /\ actions \in Recorded
         /\ Len(checkpoints) \in Nat /\ (viewer # "menu" => Len(checkpoints) > 0)
         /\ \A i \in 1..Len(checkpoints) :
              /\ checkpoints[i].actions \in Recorded /\ checkpoints[i].seg \in Recorded
              /\ checkpoints[i].data \in World /\ checkpoints[i].actions <= checkpoints[i].seg
         /\ call.to \in Int /\ call.start \in 0..(MaxAction + 1) /\ call.from \in Recorded
         /\ Recorded = 0..MaxAction /\ MaxAction \in Nat /\ 0 \in Recorded
<1>1. /\ checkpoints \in Seq(Checkpoint) /\ call \in Call /\ world \in World /\ base \in World
      /\ actions \in Recorded
      /\ file \in [seg : Recorded, mid : BOOLEAN]
      /\ kind \in [Recorded -> Kinds] /\ clock \in [Recorded -> 1..(MaxAction + 1)]
  BY DEF ViewTyped, ViewTypeOK
<1>2. Len(checkpoints) \in Nat /\ \A i \in 1..Len(checkpoints) : checkpoints[i] \in Checkpoint
  BY <1>1
<1>3. call.to \in Int /\ call.start \in 0..(MaxAction + 1) /\ call.from \in Recorded
  BY <1>1 DEF Call
<1>4. \A i \in 1..Len(checkpoints) :
        /\ checkpoints[i].actions \in Recorded /\ checkpoints[i].seg \in Recorded
        /\ checkpoints[i].data \in World
  BY <1>2 DEF Checkpoint
<1>5. file.seg \in Recorded /\ file.mid \in BOOLEAN /\ file = [seg |-> file.seg, mid |-> file.mid]
  BY <1>1
<1>6. Recorded = 0..MaxAction /\ MaxAction \in Nat /\ 0 \in Recorded
  BY ViewBounds DEF Recorded
<1> QED
  BY <1>1, <1>2, <1>3, <1>4, <1>5, <1>6 DEF ViewTyped

(* Likewise, those that are not numbers. *)
LEMMA OtherTypes ==
  ASSUME ViewTyped
  PROVE  /\ options \in Recorded \cup {Users} /\ checkpoints \in Seq(Checkpoint) /\ call \in Call
         /\ zeroed \in BOOLEAN /\ outOfSync \in BOOLEAN /\ cmdsInvalid \in BOOLEAN
         /\ frame \in BOOLEAN /\ did \in BOOLEAN /\ done \in Nat /\ valid \in -1..1
         /\ file \in [seg : Recorded, mid : BOOLEAN]
         /\ viewer \in {"menu", "idle", "forward", "goto", "failed", "exited", "lost"}
<1>1. ViewTypeOK
  BY DEF ViewTyped
<1> QED
  BY <1>1 DEF ViewTypeOK

(* true_moves is the recorded clock of the world it looks at, or 0. *)
LEMMA Clocks ==
  ASSUME ViewTyped
  PROVE  /\ \A w \in World : Moves(w) \in 1..(MaxAction + 1)
         /\ \A w \in Recorded : Moves(w) = clock[w]
         /\ TrueMoves \in 0..(MaxAction + 1)
         /\ ~zeroed \/ outOfSync => TrueMoves > 0
         /\ outOfSync => TrueMoves = Moves(base)
         /\ ~outOfSync /\ ~zeroed => TrueMoves = Moves(world)
<1>1. /\ clock \in [Recorded -> 1..(MaxAction + 1)] /\ 0 \in Recorded /\ Own \notin Recorded
      /\ World = Recorded \cup {Own} /\ world \in World /\ base \in World
  BY ViewTypes DEF Own, World
<1>2. \A w \in World : Moves(w) \in 1..(MaxAction + 1)
  BY <1>1 DEF Moves
<1>3. \A w \in Recorded : Moves(w) = clock[w]
  BY <1>1 DEF Moves
<1> QED
  BY <1>1, <1>2, <1>3, ViewBounds DEF TrueMoves

(* The checkpoint that is loaded: the first, or one that is not late. *)
LEMMA Chosen ==
  ASSUME ViewTyped, viewer # "menu", NEW late, late \subseteq 2..Len(checkpoints)
  PROVE  \E i \in 1..Len(checkpoints) :
           Before(late) = checkpoints[i] /\ (i = 1 \/ i \notin late)
<1>1. Len(checkpoints) \in Nat /\ Len(checkpoints) > 0
  BY ViewTypes
<1>2. CASE late = {}
  <2>1. Before(late) = checkpoints[Len(checkpoints)]
    BY <1>2 DEF Before
  <2> QED
    BY <1>1, <1>2, <2>1
<1>3. CASE late # {}
  <2>1. late \subseteq Nat
    BY <1>1
  <2>0. \E x \in late : \A y \in late : x <= y
    BY <1>3, <2>1, Least
  <2>2. Min(late) \in late /\ \A y \in late : Min(late) <= y
    BY <2>0 DEF Min
  <2>3. Before(late) = checkpoints[Min(late) - 1]
    BY <1>3 DEF Before
  <2>6. Min(late) \in 2..Len(checkpoints)
    BY <2>2
  <2>4. Min(late) \in 2..Len(checkpoints) /\ Min(late) - 1 \in 1..Len(checkpoints)
    BY <1>1, <2>6
  <2>5. Min(late) - 1 \notin late
    BY <2>2, <2>4
  <2> QED
    BY <2>3, <2>4, <2>5
<1> QED
  BY <1>2, <1>3

(* load_checkpoint: the game, the options and the diff base of one moment. *)
LEMMA Loading ==
  ASSUME ViewTyped, viewer # "menu", NEW late, late \subseteq 2..Len(checkpoints),
         LoadCheckpoint(Before(late))
  PROVE  /\ file' \in [seg : Recorded, mid : BOOLEAN] /\ ~file'.mid
         /\ actions' \in Recorded /\ actions' <= file'.seg
         /\ world' \in World /\ base' = world' /\ options' = file'.seg
         /\ options' \in Recorded \cup {Users}
         /\ ~zeroed' /\ zeroed' \in BOOLEAN /\ ~outOfSync' /\ outOfSync' \in BOOLEAN
         /\ Faithful => world' = file'.seg
         /\ \E i \in 1..Len(checkpoints) :
              /\ actions' = checkpoints[i].actions /\ file'.seg = checkpoints[i].seg
              /\ i = 1 \/ i \notin late
<1>1. PICK i \in 1..Len(checkpoints) :
        Before(late) = checkpoints[i] /\ (i = 1 \/ i \notin late)
  BY Chosen
<1>2. /\ checkpoints[i].actions \in Recorded /\ checkpoints[i].seg \in Recorded
      /\ checkpoints[i].data \in World
  BY ViewTypes
<1>3. checkpoints[i].actions <= checkpoints[i].seg
  BY ViewTypes
<1>4. Faithful => checkpoints[i].data = checkpoints[i].seg
  BY DEF Faithful
<1> QED
  BY <1>1, <1>2, <1>3, <1>4 DEF LoadCheckpoint

(* No replay is on. *)
LEMMA ViewStarts == ViewInit => ViewInv
<1> SUFFICES ASSUME ViewInit PROVE ViewInv
  OBVIOUS
<1>0. 0 \in Recorded /\ MaxAction \in Nat
  BY ViewBounds DEF Recorded
<1>1. ViewTypeOK
  <2>1. clock \in [Recorded -> 1..MaxAction + 1] /\ kind \in [Recorded -> Kinds]
    BY DEF ViewInit
  <2>2. call \in Call
    BY <1>0 DEF ViewInit, Call, Nothing
  <2>3. checkpoints \in Seq(Checkpoint)
    BY DEF ViewInit
  <2>4. /\ file = [seg |-> 0, mid |-> FALSE] /\ world = Own /\ zeroed = FALSE /\ base = 0
        /\ outOfSync = FALSE /\ cmdsInvalid = FALSE /\ options = Users /\ actions = 0
        /\ valid = 0 /\ frame = FALSE /\ done = 0 /\ did = TRUE /\ viewer = "menu"
    BY DEF ViewInit
  <2> QED
    BY <1>0, <2>1, <2>2, <2>3, <2>4 DEF ViewTypeOK, World
<1>5. \A k \in 1..MaxAction : clock[k - 1] <= clock[k]
  <2>1. /\ clock \in [Recorded -> 1..MaxAction + 1]
        /\ \A k \in 1..MaxAction : clock[k] \in {clock[k - 1], clock[k - 1] + 1}
    BY DEF ViewInit
  <2> SUFFICES ASSUME NEW k \in 1..MaxAction PROVE clock[k - 1] <= clock[k]
    OBVIOUS
  <2>2. k - 1 \in Recorded
    BY <1>0 DEF Recorded
  <2> QED
    BY <1>0, <2>1, <2>2
<1>2. ViewTyped
  BY <1>0, <1>1, <1>5 DEF ViewInit, ViewTyped
<1>3. Faithful /\ Clocked /\ Rebuilt
  BY DEF ViewInit, Faithful, Clocked, Rebuilt
<1>4. Undisturbed /\ Underway
  BY DEF ViewInit, Undisturbed, Underway, Nothing
<1> QED
  BY <1>2, <1>3, <1>4 DEF ViewInv

(* What never changes. *)
LEMMA Recording ==
  ASSUME ViewNext \/ UNCHANGED viewVars
  PROVE  kind' = kind /\ clock' = clock
BY DEF ViewNext, viewVars, recVars, ViewStart, ViewFinish, StepForward, StepBackward, StepGoto,
       Retry, GiveUpView, ReadEnd, CommandFails, ReadDiff, MisreadDiff, EndForward, EndGoto

(* nh_view_replay_start makes the first checkpoint. *)
LEMMA ViewStartStep == ASSUME ViewInv, ViewStart PROVE ViewInv'
<1>0. 0 \in Recorded /\ MaxAction \in Nat
  BY ViewBounds DEF Recorded
<1>1. /\ viewer = "menu" /\ viewer' = "idle" /\ file' = [seg |-> 0, mid |-> FALSE]
      /\ world' = (IF kind[0] = "same" THEN 0 ELSE Own)
      /\ base' = 0 /\ zeroed' = FALSE /\ outOfSync' = FALSE /\ cmdsInvalid' = FALSE
      /\ options' = 0 /\ actions' = 0
      /\ checkpoints' = <<[actions |-> 0, seg |-> 0, data |-> world']>>
      /\ kind' = kind /\ clock' = clock /\ valid' = valid /\ frame' = frame /\ call' = call
      /\ done' = done /\ did' = did
  BY DEF ViewStart, recVars
<1>2. ViewTyped
  BY DEF ViewInv
<1>3. world' \in World
  BY <1>0, <1>1 DEF World
<1>4. Len(checkpoints') = 1 /\ checkpoints'[1] = [actions |-> 0, seg |-> 0, data |-> world']
  BY <1>1
<1>5. checkpoints' \in Seq(Checkpoint)
  <2>1. [actions |-> 0, seg |-> 0, data |-> world'] \in Checkpoint
    BY <1>0, <1>3 DEF Checkpoint
  <2> QED
    BY <1>1, <2>1
<1>9. ViewTypeOK'
  BY <1>0, <1>1, <1>2, <1>3, <1>5 DEF ViewTyped, ViewTypeOK, World
<1>6. ViewTyped'
  BY <1>0, <1>1, <1>2, <1>4, <1>9 DEF ViewTyped
<1>7. ASSUME Honest PROVE (Faithful /\ Clocked /\ Rebuilt)'
  <2>1. world' = 0
    BY <1>1, <1>7 DEF Honest
  <2>2. Faithful'
    BY <1>1, <1>4, <2>1 DEF Faithful
  <2>3. Clocked' /\ Rebuilt'
    <3>1. call'.what = "nothing"
      BY <1>1, <1>2 DEF ViewTyped, Nothing
    <3>2. Clocked'
      BY <1>1, <3>1 DEF Clocked
    <3>3. file'.seg = 0 /\ ~file'.mid
      BY <1>1
    <3>4. Rebuilt'
      BY <1>1, <2>1, <3>3 DEF Rebuilt
    <3> QED
      BY <3>2, <3>4
  <2> QED
    BY <2>2, <2>3
<1>8. ASSUME Calm PROVE (Undisturbed /\ Underway)'
  <2>1. Undisturbed /\ Honest /\ call = Nothing
    BY <1>1, <1>2, <1>8, CalmIsHonest DEF ViewInv, ViewTyped
  <2> QED
    BY <1>1, <1>4, <2>1 DEF Undisturbed, Underway, Honest, ArrivesWhereAsked, Nothing
<1> QED
  BY <1>1, <1>6, <1>7, <1>8 DEF ViewInv, Honest, Calm

(* nh_view_replay_finish gives everything back. *)
LEMMA ViewFinishStep == ASSUME ViewInv, ViewFinish PROVE ViewInv'
<1>1. /\ viewer = "idle" /\ viewer' = "menu"
      /\ options' = Users /\ checkpoints' = <<>> /\ call' = Nothing
      /\ kind' = kind /\ clock' = clock /\ file' = file /\ world' = world /\ zeroed' = zeroed
      /\ base' = base /\ outOfSync' = outOfSync /\ cmdsInvalid' = cmdsInvalid
      /\ actions' = actions /\ valid' = valid /\ frame' = frame /\ done' = done /\ did' = did
  BY DEF ViewFinish, recVars
<1>2. ViewTyped
  BY DEF ViewInv
<1>3. 0 \in Recorded /\ MaxAction \in Nat
  BY ViewBounds DEF Recorded
<1>4. Nothing \in Call
  BY <1>3 DEF Nothing, Call
<1>5. Len(checkpoints') = 0 /\ checkpoints' \in Seq(Checkpoint)
  BY <1>1
<1>6. ViewTyped'
  BY <1>1, <1>2, <1>4, <1>5 DEF ViewTyped, ViewTypeOK, World
<1>7. ASSUME Honest PROVE (Faithful /\ Clocked /\ Rebuilt)'
  BY <1>1, <1>5, <1>7 DEF Faithful, Clocked, Rebuilt
<1>8. ASSUME Calm PROVE (Undisturbed /\ Underway)'
  BY <1>1, <1>8 DEF Undisturbed, Underway, ViewInv, Nothing
<1> QED
  BY <1>1, <1>6, <1>7, <1>8 DEF ViewInv, Honest, Calm

(* One step on. *)
LEMMA StepForwardStep == ASSUME ViewInv, StepForward PROVE ViewInv'
<1>1. /\ viewer = "idle" /\ viewer' = "forward"
      /\ valid' = valid + 1 /\ frame' = (frame \/ valid = 0)
      /\ call' = [what |-> "forward", from |-> actions, to |-> 1, start |-> TrueMoves]
      /\ done' = 0 /\ did' = TRUE
      /\ kind' = kind /\ clock' = clock /\ file' = file /\ world' = world /\ zeroed' = zeroed
      /\ base' = base /\ outOfSync' = outOfSync /\ cmdsInvalid' = cmdsInvalid
      /\ options' = options /\ checkpoints' = checkpoints /\ actions' = actions
  BY DEF StepForward, Enter, Calls, recVars
<1>2. ViewTyped
  BY DEF ViewInv
<1>3. call' \in Call
  BY <1>1, <1>2, ViewTypes, Clocks DEF Call
<1>4. ViewTypeOK'
  BY <1>1, <1>2, <1>3 DEF ViewTyped, ViewTypeOK, World
<1>5. /\ call'.what = "forward" /\ call'.to = 1 /\ call'.from = actions
      /\ call'.start = TrueMoves
  BY <1>1
<1>6. ViewTyped'
  BY <1>1, <1>2, <1>4, <1>5 DEF ViewTyped
<1>7. ASSUME Honest PROVE (Faithful /\ Clocked /\ Rebuilt)'
  <2>1. Faithful /\ Clocked /\ Rebuilt
    BY <1>7 DEF ViewInv
  <2>2. Faithful'
    BY <1>1, <2>1 DEF Faithful
  <2>3. ~zeroed \/ outOfSync
    BY <1>1, <2>1 DEF Clocked
  <2>4. Clocked'
    BY <1>1, <1>2, <1>5, <2>3, Clocks DEF Clocked
  <2>5. world = file.seg \/ Unrestored
    BY <1>1, <2>1 DEF Rebuilt
  <2>6. CASE call.what = "given up"
    <3>1. file.mid /\ file.seg < MaxAction
      BY <1>1, <1>2, <2>1, <2>6 DEF Clocked, ViewTyped
    <3>2. ~AtEnd'
      BY <1>1, <1>2, <3>1, ViewTypes DEF AtEnd
    <3> QED
      BY <1>1, <1>5, <2>2, <2>4, <3>2 DEF Rebuilt
  <2>7. CASE outOfSync /\ AtEnd
    BY <1>1, <1>5, <2>2, <2>4, <2>7 DEF Rebuilt, AtEnd
  <2>8. CASE world = file.seg
    BY <1>1, <1>5, <2>2, <2>4, <2>8 DEF Rebuilt
  <2> QED
    BY <2>5, <2>6, <2>7, <2>8 DEF Unrestored
<1>8. ASSUME Calm PROVE (Undisturbed /\ Underway)'
  BY <1>1, <1>5, <1>8 DEF Undisturbed, Underway, ViewInv
<1> QED
  BY <1>1, <1>6, <1>7, <1>8 DEF ViewInv, Honest, Calm

(* A step back starts from the checkpoint before. *)
LEMMA StepBackwardStep == ASSUME ViewInv, StepBackward PROVE ViewInv'
<1>0. ViewTyped
  BY DEF ViewInv
<1>1. /\ viewer = "idle" /\ viewer' = "forward"
      /\ LoadCheckpoint(Before(LateActions(actions - 1)))
      /\ valid' = valid + 1 /\ frame' = (frame \/ valid = 0)
      /\ call' = [what |-> "backward", from |-> actions, to |-> actions - 1 - actions',
                  start |-> TrueMoves]
      /\ done' = 0 /\ did' = TRUE
      /\ kind' = kind /\ clock' = clock
      /\ cmdsInvalid' = cmdsInvalid /\ checkpoints' = checkpoints
  BY DEF StepBackward, Enter, Calls, recVars
<1>2. LateActions(actions - 1) \subseteq 2..Len(checkpoints)
  BY DEF LateActions
<1>3. /\ file' \in [seg : Recorded, mid : BOOLEAN] /\ ~file'.mid
      /\ actions' \in Recorded /\ actions' <= file'.seg
      /\ world' \in World /\ base' = world' /\ options' = file'.seg
      /\ options' \in Recorded \cup {Users}
      /\ ~zeroed' /\ zeroed' \in BOOLEAN /\ ~outOfSync' /\ outOfSync' \in BOOLEAN
      /\ Faithful => world' = file'.seg
      /\ \E i \in 1..Len(checkpoints) :
           /\ actions' = checkpoints[i].actions /\ file'.seg = checkpoints[i].seg
           /\ i = 1 \/ i \notin LateActions(actions - 1)
  BY <1>0, <1>1, <1>2, Loading
<1>4. /\ call'.what = "backward" /\ call'.to = actions - 1 - actions' /\ call'.from = actions
      /\ call'.start = TrueMoves /\ call' \in Call
  <2>1. actions \in Recorded /\ actions - 1 - actions' \in Int /\ TrueMoves \in 0..(MaxAction + 1)
    <3>1. actions \in Int /\ actions' \in Int /\ actions \in Recorded
      BY <1>0, <1>3, ViewTypes
    <3> QED
      BY <1>0, <3>1, Clocks, StepsBack
  <2> QED
    BY <1>1, <2>1 DEF Call
<1>5. ViewTypeOK'
  BY <1>0, <1>1, <1>3, <1>4 DEF ViewTyped, ViewTypeOK, World
<1>6. ViewTyped'
  BY <1>0, <1>1, <1>3, <1>4, <1>5 DEF ViewTyped
<1>7. ASSUME Honest PROVE (Faithful /\ Clocked /\ Rebuilt)'
  <2>1. Faithful /\ Clocked
    BY <1>7 DEF ViewInv
  <2>2. Faithful'
    BY <1>1, <1>3, <2>1 DEF Faithful
  <2>3. ~zeroed \/ outOfSync
    BY <1>1, <2>1 DEF Clocked
  <2>4. Clocked'
    BY <1>0, <1>1, <1>3, <1>4, <2>3, Clocks DEF Clocked
  <2>5. Rebuilt'
    BY <1>1, <1>3, <2>1 DEF Rebuilt
  <2> QED
    BY <2>2, <2>4, <2>5
<1>8. ASSUME Calm PROVE (Undisturbed /\ Underway)'
  <2>1. Undisturbed /\ Faithful
    BY <1>8, CalmIsHonest DEF ViewInv
  <2>2. PICK i \in 1..Len(checkpoints) :
           /\ actions' = checkpoints[i].actions /\ file'.seg = checkpoints[i].seg
           /\ i = 1 \/ i \notin LateActions(actions - 1)
    BY <1>3
  <2>3. actions \in Nat /\ actions' \in Nat /\ Len(checkpoints) \in Nat
    BY <1>0, <1>3, ViewTypes
  <2>4. actions' = file'.seg /\ checkpoints[1].actions = 0
    BY <1>1, <2>1, <2>2 DEF Undisturbed
  <2>5. i = 1 => actions' = 0
    BY <2>2, <2>4
  <2>6. i # 1 => actions' < actions - 1
    BY <2>2, <2>3 DEF LateActions
  <2>7. Undisturbed'
    BY <1>1, <1>3, <1>4, <2>1, <2>4 DEF Undisturbed
  <2>9. /\ actions = 0 => actions' = 0 /\ actions - 1 - actions' = -1
        /\ actions > 0 => 0 <= actions - 1 - actions'
        /\ actions' = actions - 1 - (actions - 1 - actions') + 0
    BY <2>3, <2>5, <2>6, StepsBack
  <2>8. Underway'
    BY <1>1, <1>4, <2>9 DEF Underway
  <2> QED
    BY <2>7, <2>8
<1> QED
  BY <1>1, <1>6, <1>7, <1>8 DEF ViewInv, Honest, Calm

(* Where REPLAY_GOTO begins. *)
LEMMA GoesTo ==
  ASSUME ViewTyped, viewer # "menu", NEW count \in Int, NEW now \in Int, GoTo(count, now)
  PROVE  /\ viewer' = "goto" /\ did' \in BOOLEAN
         /\ did' <=> actions' < MaxAction
         /\ file' \in [seg : Recorded, mid : BOOLEAN]
         /\ file'.mid => file'.seg < MaxAction
         /\ actions' \in Recorded /\ actions' <= file'.seg
         /\ world' \in World /\ base' \in World
         /\ options' \in Recorded \cup {Users} /\ outOfSync' \in BOOLEAN
         /\ Faithful =>
              base' = file'.seg /\ options' = IF file'.mid THEN file'.seg + 1 ELSE file'.seg
         /\ ~(count < now) =>
              /\ file' = file /\ world' = world /\ base' = base /\ outOfSync' = outOfSync
              /\ options' = options /\ actions' = actions
         /\ count < now =>
              /\ ~file'.mid /\ ~zeroed' /\ zeroed' \in BOOLEAN /\ ~outOfSync'
              /\ Faithful => world' = file'.seg
              /\ \E i \in 1..Len(checkpoints) :
                   /\ actions' = checkpoints[i].actions /\ file'.seg = checkpoints[i].seg
                   /\ i = 1 \/ i \notin LateMoves(count)
<1>1. /\ viewer' = "goto" /\ did' = (actions' < MaxAction)
      /\ count < now => LoadCheckpoint(Before(LateMoves(count)))
      /\ ~(count < now) =>
           /\ file' = file /\ world' = world /\ base' = base /\ outOfSync' = outOfSync
           /\ options' = options /\ actions' = actions
  BY DEF GoTo
<1>2. LateMoves(count) \subseteq 2..Len(checkpoints)
  BY DEF LateMoves
<1>5. did' \in BOOLEAN /\ (did' <=> actions' < MaxAction)
  <2>1. did' = (actions' < MaxAction)
    BY DEF GoTo
  <2>2. did' <=> actions' < MaxAction
    BY <2>1
  <2>3. did' \in BOOLEAN
    <3>1. (actions' < MaxAction) \in BOOLEAN
      OBVIOUS
    <3> QED
      BY <2>1, <3>1, Zenon
  <2> QED
    BY <2>2, <2>3
<1>3. CASE count < now
  <2>1. LoadCheckpoint(Before(LateMoves(count)))
    BY <1>1, <1>3
  <2>2. /\ file' \in [seg : Recorded, mid : BOOLEAN] /\ ~file'.mid
        /\ actions' \in Recorded /\ actions' <= file'.seg
        /\ world' \in World /\ base' = world' /\ options' = file'.seg
        /\ options' \in Recorded \cup {Users}
        /\ ~zeroed' /\ zeroed' \in BOOLEAN /\ ~outOfSync' /\ outOfSync' \in BOOLEAN
        /\ Faithful => world' = file'.seg
        /\ \E i \in 1..Len(checkpoints) :
             /\ actions' = checkpoints[i].actions /\ file'.seg = checkpoints[i].seg
             /\ i = 1 \/ i \notin LateMoves(count)
    BY <1>2, <2>1, Loading
  <2> QED
    BY <1>1, <1>3, <1>5, <2>2
<1>4. CASE ~(count < now)
  <2>1. /\ file' = file /\ world' = world /\ base' = base /\ outOfSync' = outOfSync
        /\ options' = options /\ actions' = actions
    BY <1>1, <1>4
  <2>2. /\ file \in [seg : Recorded, mid : BOOLEAN] /\ world \in World /\ base \in World
        /\ options \in Recorded \cup {Users} /\ outOfSync \in BOOLEAN
        /\ actions \in Recorded
    BY DEF ViewTyped, ViewTypeOK
  <2>3. actions <= file.seg /\ (file.mid => file.seg < MaxAction)
    BY DEF ViewTyped
  <2>4. Faithful =>
          base = file.seg /\ options = IF file.mid THEN file.seg + 1 ELSE file.seg
    BY DEF Faithful
  <2> QED
    BY <1>1, <1>4, <1>5, <2>1, <2>2, <2>3, <2>4
<1> QED
  BY <1>3, <1>4

(* So does a step to a move, when it is in the past. *)
LEMMA StepGotoStep ==
  ASSUME ViewInv, NEW count \in 1..MaxAction + 2, StepGoto(count) PROVE ViewInv'
<1>0. ViewTyped /\ count \in Int /\ TrueMoves \in Int /\ count > 0
  BY ViewTypes, Clocks DEF ViewInv
<1>1. /\ viewer = "idle" /\ GoTo(count, TrueMoves)
      /\ valid' = valid + 1 /\ frame' = (frame \/ valid = 0)
      /\ call' = [what |-> "goto", from |-> actions, to |-> count, start |-> TrueMoves]
      /\ ~(count < TrueMoves) => zeroed' = zeroed
      /\ kind' = kind /\ clock' = clock /\ done' = 0
      /\ cmdsInvalid' = cmdsInvalid /\ checkpoints' = checkpoints
  BY DEF StepGoto, Enter, Calls, recVars
<1>2. /\ viewer' = "goto" /\ did' \in BOOLEAN
      /\ did' <=> actions' < MaxAction
      /\ file' \in [seg : Recorded, mid : BOOLEAN]
      /\ file'.mid => file'.seg < MaxAction
      /\ actions' \in Recorded /\ actions' <= file'.seg
      /\ world' \in World /\ base' \in World
      /\ options' \in Recorded \cup {Users} /\ outOfSync' \in BOOLEAN
      /\ Faithful =>
           base' = file'.seg /\ options' = IF file'.mid THEN file'.seg + 1 ELSE file'.seg
  BY <1>0, <1>1, GoesTo
<1>3. ~(count < TrueMoves) =>
        /\ file' = file /\ world' = world /\ base' = base /\ outOfSync' = outOfSync
        /\ options' = options /\ actions' = actions
  BY <1>0, <1>1, GoesTo
<1>4. count < TrueMoves =>
        /\ ~file'.mid /\ ~zeroed' /\ zeroed' \in BOOLEAN /\ ~outOfSync'
        /\ Faithful => world' = file'.seg
        /\ \E i \in 1..Len(checkpoints) :
             /\ actions' = checkpoints[i].actions /\ file'.seg = checkpoints[i].seg
             /\ i = 1 \/ i \notin LateMoves(count)
  BY <1>0, <1>1, GoesTo
<1>5. zeroed' \in BOOLEAN /\ (zeroed' /\ ~outOfSync' => zeroed /\ ~outOfSync)
  BY <1>0, <1>1, <1>3, <1>4 DEF ViewTyped, ViewTypeOK
<1>6. /\ call'.what = "goto" /\ call'.to = count /\ call'.from = actions
      /\ call'.start = TrueMoves /\ call' \in Call
  BY <1>0, <1>1, ViewTypes, Clocks DEF Call
<1>7. ViewTypeOK'
  BY <1>0, <1>1, <1>2, <1>5, <1>6 DEF ViewTyped, ViewTypeOK, World
<1>8. ViewTyped'
  BY <1>0, <1>1, <1>2, <1>6, <1>7 DEF ViewTyped
<1>9. ASSUME Honest PROVE (Faithful /\ Clocked /\ Rebuilt)'
  <2>1. Faithful /\ Clocked /\ Rebuilt
    BY <1>9 DEF ViewInv
  <2>2. Faithful'
    BY <1>1, <1>2, <2>1 DEF Faithful
  <2>3. ~zeroed \/ outOfSync
    BY <1>1, <2>1 DEF Clocked
  <2>4. Clocked'
    BY <1>0, <1>2, <1>5, <1>6, <2>3, Clocks DEF Clocked
  <2>5. world' = file'.seg \/ outOfSync'
    BY <1>1, <1>3, <1>4, <2>1 DEF Rebuilt, Unrestored, Clocked
  <2>6. Rebuilt'
    BY <1>2, <2>5 DEF Rebuilt
  <2> QED
    BY <2>2, <2>4, <2>6
<1>10. ASSUME Calm PROVE (Undisturbed /\ Underway)'
  <2>1. Undisturbed /\ Faithful
    BY <1>10, CalmIsHonest DEF ViewInv
  <2>2. CASE count < TrueMoves
    <3>1. PICK i \in 1..Len(checkpoints) :
            /\ actions' = checkpoints[i].actions /\ file'.seg = checkpoints[i].seg
            /\ i = 1 \/ i \notin LateMoves(count)
      BY <1>4, <2>2
    <3>2. actions' = file'.seg /\ checkpoints[1].actions = 0
      BY <1>1, <2>1, <3>1 DEF Undisturbed
    <3>3. i = 1 => actions' = 0
      BY <3>1, <3>2
    <3>4. ASSUME i # 1, actions' # 0 PROVE clock[actions' - 1] < count
      <4>1. ~(Moves(checkpoints[i].seg) >= count)
        BY <1>0, <3>1, <3>4, ViewTypes DEF LateMoves
      <4>2. actions' \in Recorded /\ actions' \in 1..MaxAction /\ actions' - 1 \in Recorded
        <5>1. actions' \in 0..MaxAction /\ Recorded = 0..MaxAction /\ MaxAction \in Nat
          BY <1>0, <1>2, ViewTypes
        <5>2. \A n \in 0..MaxAction : n # 0 => n \in 1..MaxAction /\ n - 1 \in 0..MaxAction
          BY <5>1
        <5> QED
          BY <3>4, <5>1, <5>2
      <4>3. clock[actions'] < count
        <5>1. Moves(checkpoints[i].seg) = clock[actions']
          BY <1>0, <3>1, <3>2, <4>2, Clocks
        <5>2. clock[actions'] \in Int
          BY <1>0, <4>2, ViewTypes
        <5> QED
          BY <1>0, <4>1, <5>1, <5>2
      <4>4. clock[actions' - 1] <= clock[actions']
        BY <1>0, <4>2 DEF ViewTyped
      <4>5. clock[actions'] \in Int /\ clock[actions' - 1] \in Int
        BY <1>0, <4>2, ViewTypes
      <4> QED
        BY <1>0, <4>3, <4>4, <4>5
    <3>5. Undisturbed'
      BY <1>1, <1>2, <1>4, <1>6, <2>1, <2>2, <3>2 DEF Undisturbed
    <3>6. Underway'
      <4>1. actions' = 0 \/ clock'[actions' - 1] < call'.to
        BY <1>1, <1>6, <3>3, <3>4
      <4>2. did' \/ actions' = MaxAction
        <5>1. actions' \in 0..MaxAction /\ MaxAction \in Nat
          BY <1>0, <1>2, ViewTypes
        <5> QED
          BY <1>2, <5>1
      <4> QED
        BY <1>2, <1>6, <4>1, <4>2 DEF Underway
    <3> QED
      BY <3>5, <3>6
  <2>3. CASE ~(count < TrueMoves)
    <3>1. Undisturbed'
      BY <1>1, <1>2, <1>3, <1>6, <2>1, <2>3 DEF Undisturbed
    <3>2. Underway'
      BY <1>0, <1>1, <1>2, <1>3, <1>6, <2>3, ViewTypes DEF Underway
    <3> QED
      BY <3>1, <3>2
  <2> QED
    BY <2>2, <2>3
<1> QED
  BY <1>1, <1>8, <1>9, <1>10 DEF ViewInv, Honest, Calm

(* After a failure: a diff is still to come, or a checkpoint is loaded. *)
LEMMA RetryStep == ASSUME ViewInv, Retry PROVE ViewInv'
<1> DEFINE now == IF outOfSync THEN Moves(base) ELSE 0
<1>0. ViewTyped /\ call.start \in Int /\ now \in Int
  BY ViewTypes, Clocks DEF ViewInv
<1>1. /\ viewer = "failed" /\ GoTo(call.start, now)
      /\ call' = [what |-> "retry", from |-> call.from, to |-> call.start, start |-> call.start]
      /\ ~(call.start < now) => zeroed' = TRUE
      /\ kind' = kind /\ clock' = clock /\ done' = 0
      /\ cmdsInvalid' = cmdsInvalid /\ checkpoints' = checkpoints
      /\ valid' = valid /\ frame' = frame
  BY DEF Retry, Calls, recVars
<1> HIDE DEF now
<1>2. /\ viewer' = "goto" /\ did' \in BOOLEAN
      /\ did' <=> actions' < MaxAction
      /\ file' \in [seg : Recorded, mid : BOOLEAN]
      /\ file'.mid => file'.seg < MaxAction
      /\ actions' \in Recorded /\ actions' <= file'.seg
      /\ world' \in World /\ base' \in World
      /\ options' \in Recorded \cup {Users} /\ outOfSync' \in BOOLEAN
      /\ Faithful =>
           base' = file'.seg /\ options' = IF file'.mid THEN file'.seg + 1 ELSE file'.seg
  BY <1>0, <1>1, GoesTo
<1>3. ~(call.start < now) =>
        /\ file' = file /\ world' = world /\ base' = base /\ outOfSync' = outOfSync
        /\ options' = options /\ actions' = actions
  BY <1>0, <1>1, GoesTo
<1>4. call.start < now =>
        /\ ~file'.mid /\ ~zeroed' /\ zeroed' \in BOOLEAN /\ ~outOfSync'
        /\ Faithful => world' = file'.seg
  BY <1>0, <1>1, GoesTo
<1>5. zeroed' \in BOOLEAN
  BY <1>1, <1>4
<1>6. /\ call'.what = "retry" /\ call'.to = call.start
      /\ call'.start = call.start /\ call' \in Call
  BY <1>0, <1>1, ViewTypes DEF Call
<1>7. ViewTypeOK'
  BY <1>0, <1>1, <1>2, <1>5, <1>6 DEF ViewTyped, ViewTypeOK, World
<1>8. ViewTyped'
  BY <1>0, <1>1, <1>2, <1>6, <1>7 DEF ViewTyped
<1>9. ASSUME Honest PROVE (Faithful /\ Clocked /\ Rebuilt)'
  <2>1. Faithful /\ Clocked
    BY <1>9 DEF ViewInv
  <2>2. Faithful'
    BY <1>1, <1>2, <2>1 DEF Faithful
  <2>3. call.start > 0 /\ valid = 0 /\ file.mid
    BY <1>0, <1>1, <2>1 DEF Clocked, ViewTyped
  \* Nothing is loaded and the diff is still to come, or all is well.
  <2>4. CASE ~(call.start < now)
    <3>1. file' = file /\ outOfSync' = outOfSync /\ actions' = actions
      BY <1>3, <2>4
    <3>2. file.seg < MaxAction /\ actions <= file.seg /\ actions \in Int /\ file.seg \in Int
      <4>1. file.seg < MaxAction /\ actions <= file.seg
        BY <1>0, <2>3 DEF ViewTyped
      <4>2. actions \in 0..MaxAction /\ file.seg \in 0..MaxAction /\ MaxAction \in Nat
        BY <1>0, ViewTypes
      <4> QED
        BY <4>1, <4>2
    <3>3. did' /\ file'.mid /\ file'.seg < MaxAction
      BY <1>2, <2>3, <3>1, <3>2, ViewBounds
    <3>4. Clocked'
      BY <1>1, <1>2, <1>6, <2>3, <3>3 DEF Clocked
    <3>5. ~outOfSync' => TrueMoves' = 0
      BY <1>1, <2>4 DEF TrueMoves
    <3>6. ~AtEnd'
      BY <3>1, <3>2, ViewBounds DEF AtEnd
    <3>7. ~outOfSync' => Running'
      BY <1>2, <1>6, <2>3, <3>3, <3>5 DEF Running
    <3>8. Rebuilt'
      BY <1>2, <3>6, <3>7 DEF Rebuilt
    <3> QED
      BY <2>2, <3>4, <3>8
  <2>5. CASE call.start < now
    BY <1>1, <1>2, <1>4, <1>6, <2>1, <2>2, <2>3, <2>5 DEF Clocked, Rebuilt
  <2> QED
    BY <2>4, <2>5
<1>10. ~Calm
  BY <1>1 DEF ViewInv, Undisturbed
<1> QED
  BY <1>1, <1>8, <1>9, <1>10 DEF ViewInv, Honest, Calm

(* The second failure of a step. *)
LEMMA GiveUpStep == ASSUME ViewInv, GiveUpView PROVE ViewInv'
<1>0. ViewTyped
  BY DEF ViewInv
<1>1. /\ viewer = "failed" /\ call.what = "retry"
      /\ viewer' = "idle" /\ frame' = FALSE /\ did' = TRUE
      /\ call' = [call EXCEPT !.what = "given up"]
      /\ kind' = kind /\ clock' = clock /\ file' = file /\ world' = world /\ zeroed' = zeroed
      /\ base' = base /\ outOfSync' = outOfSync /\ cmdsInvalid' = cmdsInvalid
      /\ options' = options /\ checkpoints' = checkpoints
      /\ actions' = actions /\ valid' = valid /\ done' = done
  BY DEF GiveUpView, recVars
<1>2. call' \in Call /\ call'.what = "given up"
  BY <1>0, <1>1 DEF ViewTyped, ViewTypeOK, Call
<1>3. ViewTypeOK'
  BY <1>0, <1>1, <1>2 DEF ViewTyped, ViewTypeOK, World
<1>4. ViewTyped'
  BY <1>0, <1>1, <1>3 DEF ViewTyped
<1>5. ASSUME Honest PROVE (Faithful /\ Clocked /\ Rebuilt)'
  <2>1. Faithful /\ Clocked /\ file.mid
    BY <1>0, <1>1, <1>5 DEF ViewInv, ViewTyped
  <2>2. Faithful'
    BY <1>1, <2>1 DEF Faithful
  <2>3. Clocked' /\ Rebuilt'
    BY <1>1, <1>2, <2>1 DEF Clocked, Rebuilt, Unrestored
  <2> QED
    BY <2>2, <2>3
<1>6. ~Calm
  BY <1>1 DEF ViewInv, Undisturbed
<1> QED
  BY <1>1, <1>4, <1>5, <1>6 DEF ViewInv, Honest, Calm

(* The log is at its end, so a calm step was already where it should be. *)
LEMMA ReadEndStep == ASSUME ViewInv, ReadEnd PROVE ViewInv'
<1>0. ViewTyped
  BY DEF ViewInv
<1>1. /\ Running /\ AtEnd /\ did' = FALSE
      /\ done' = IF viewer = "forward" THEN done + 1 ELSE done
      /\ kind' = kind /\ clock' = clock /\ file' = file /\ world' = world /\ zeroed' = zeroed
      /\ base' = base /\ outOfSync' = outOfSync /\ cmdsInvalid' = cmdsInvalid
      /\ options' = options /\ checkpoints' = checkpoints /\ actions' = actions
      /\ valid' = valid /\ frame' = frame /\ call' = call /\ viewer' = viewer
  BY DEF ReadEnd, Counted, recVars
<1>2. did /\ viewer \in {"forward", "goto"} /\ (viewer = "forward" => done < call.to)
  BY <1>1 DEF Running
<1>3. done \in Nat /\ done' \in Nat
  <2>1. done \in Nat
    BY <1>0, OtherTypes
  <2> QED
    BY <1>1, <2>1
<1>4. ViewTypeOK'
  BY <1>0, <1>1, <1>3 DEF ViewTyped, ViewTypeOK, World
<1>5. ViewTyped'
  BY <1>0, <1>1, <1>4 DEF ViewTyped
<1>6. ~file.mid /\ file.seg = MaxAction
  <2>1. file.seg = MaxAction
    BY <1>1 DEF AtEnd
  <2>2. ~(MaxAction < MaxAction)
    BY ViewBounds
  <2> QED
    BY <1>0, <2>1, <2>2 DEF ViewTyped
<1>7. ASSUME Honest PROVE (Faithful /\ Clocked /\ Rebuilt)'
  <2>1. Faithful /\ Clocked /\ Rebuilt
    BY <1>7 DEF ViewInv
  <2>2. Faithful'
    BY <1>1, <2>1 DEF Faithful
  <2>3. Clocked'
    BY <1>1, <1>2, <1>6, <2>1 DEF Clocked
  <2>4. AtEnd'
    BY <1>1 DEF AtEnd
  <2>5. Rebuilt'
    BY <1>1, <1>2, <1>6, <2>1, <2>4 DEF Rebuilt
  <2> QED
    BY <2>2, <2>3, <2>5
<1>8. ASSUME Calm PROVE (Undisturbed /\ Underway)'
  <2>1. Undisturbed /\ Underway
    BY <1>8 DEF ViewInv
  <2>2. actions = MaxAction /\ MaxAction \in Nat
    BY <1>2, <1>6, <2>1, ViewBounds DEF Undisturbed
  <2>3. Undisturbed'
    BY <1>1, <1>2, <2>1 DEF Undisturbed
  <2>4. CASE viewer = "goto"
    <3>1. Underway' <=> /\ call.what = "goto"
                        /\ actions \in {0, call.from} \/ clock[actions - 1] < call.to
                        /\ did' \/ actions = MaxAction
      BY <1>1, <2>4 DEF Underway
    <3> QED
      BY <2>1, <2>2, <2>3, <2>4, <3>1 DEF Underway
  <2>5. CASE viewer = "forward" /\ call.what = "forward"
    <3>1. /\ call.to = 1
          /\ \/ done = 0 /\ actions = call.from /\ world = file.seg
             \/ done = 1 /\ actions = call.from + 1
      BY <1>2, <2>1, <2>5 DEF Underway
    <3>2. done = 0
      BY <1>2, <2>5, <3>1
    <3>3. /\ done' = 1 /\ ~did' /\ viewer' = "forward" /\ call' = call /\ actions' = actions
          /\ world' = file'.seg
      BY <1>1, <2>5, <3>1, <3>2
    <3> QED
      BY <2>2, <2>3, <2>5, <3>1, <3>2, <3>3 DEF Underway
  <2>6. ~(viewer = "forward" /\ call.what = "backward")
    <3>1. SUFFICES ASSUME viewer = "forward", call.what = "backward" PROVE FALSE
      OBVIOUS
    <3>2. call.from \in 0..MaxAction /\ call.to \in Int
      BY <1>0, ViewTypes
    <3>3. /\ call.from = 0 => call.to = -1 /\ done = 0
          /\ call.from > 0 => actions = call.from - 1 - call.to + done
      BY <2>1, <3>1 DEF Underway
    <3> QED
      BY <1>2, <1>3, <2>2, <3>1, <3>2, <3>3
  <2> QED
    BY <1>0, <1>2, <2>3, <2>4, <2>5, <2>6 DEF ViewTyped
<1> QED
  BY <1>1, <1>5, <1>7, <1>8 DEF ViewInv, Honest, Calm

(* The next action of the recording. *)
LEMMA NextAction ==
  ASSUME ViewTyped, ~AtEnd
  PROVE  /\ file.seg + 1 \in 1..MaxAction /\ file.seg + 1 \in Recorded
         /\ actions + 1 \in Recorded /\ actions + 1 <= file.seg + 1
         /\ (file.seg + 1) - 1 = file.seg
<1>1. file.seg \in 0..MaxAction /\ actions \in 0..MaxAction /\ MaxAction \in Nat
      /\ Recorded = 0..MaxAction
  BY ViewTypes
<1>2. file.seg # MaxAction /\ actions <= file.seg
  BY DEF AtEnd, ViewTyped
<1>3. \A n, m \in 0..MaxAction : n # MaxAction /\ m <= n =>
        /\ n + 1 \in 1..MaxAction /\ n + 1 \in 0..MaxAction /\ m + 1 \in 0..MaxAction
        /\ m + 1 <= n + 1 /\ (n + 1) - 1 = n
  BY <1>1
<1> QED
  BY <1>1, <1>2, <1>3

(* terminate leaves the command in the middle. *)
LEMMA CommandFailsStep == ASSUME ViewInv, CommandFails PROVE ViewInv'
<1>0. ViewTyped
  BY DEF ViewInv
<1>1. /\ Running /\ ~AtEnd /\ ~file.mid /\ ~cmdsInvalid
      /\ file' = [file EXCEPT !.mid = TRUE] /\ world' = Own /\ options' = file.seg + 1
      /\ viewer' = IF valid = 0 THEN "exited" ELSE IF frame THEN "failed" ELSE "lost"
      /\ valid' = 0 /\ frame' = frame
      /\ kind' = kind /\ clock' = clock /\ zeroed' = zeroed /\ base' = base
      /\ outOfSync' = outOfSync /\ checkpoints' = checkpoints /\ actions' = actions
      /\ call' = call /\ done' = done /\ did' = did
  BY DEF CommandFails, Terminate, recVars
<1>2. PICK o \in Outcomes \cap {"parse", "dies"} : cmdsInvalid' = (o = "parse")
  BY DEF CommandFails
<1>3. did /\ viewer \in {"forward", "goto"}
  BY <1>1 DEF Running
<1>4. file' = [seg |-> file.seg, mid |-> TRUE] /\ file'.seg = file.seg /\ file'.mid
  BY <1>0, <1>1, ViewTypes
<1>5. cmdsInvalid' \in BOOLEAN
  BY <1>2, Zenon
<1>6. file.seg + 1 \in Recorded /\ file.seg < MaxAction /\ file.seg \in Recorded
  BY <1>0, <1>1, NextAction, ViewTypes
<1>7. ViewTypeOK'
  <2>1. viewer' \in {"menu", "idle", "forward", "goto", "failed", "exited", "lost"}
    BY <1>1
  <2>2. file' \in [seg : Recorded, mid : BOOLEAN] /\ options' \in Recorded \cup {Users}
    BY <1>1, <1>4, <1>6
  <2>3. world' \in World /\ valid' \in -1..1
    BY <1>1 DEF World
  <2> QED
    BY <1>0, <1>1, <1>5, <2>1, <2>2, <2>3, ViewTypes, OtherTypes DEF ViewTypeOK, World
<1>8. ViewTyped'
  BY <1>0, <1>1, <1>3, <1>4, <1>6, <1>7 DEF ViewTyped
<1>9. ASSUME Honest PROVE (Faithful /\ Clocked /\ Rebuilt)'
  <2>1. Faithful /\ Clocked
    BY <1>9 DEF ViewInv
  <2>2. Faithful'
    BY <1>1, <1>3, <1>4, <2>1 DEF Faithful
  <2>3. valid \in {0, 1} /\ (viewer = "forward" => call.what \in {"forward", "backward"})
    BY <1>0, <1>3 DEF ViewTyped
  <2>4. Clocked'
    <3>1. zeroed' /\ ~outOfSync' => viewer' \in {"exited", "lost"}
      <4> SUFFICES ASSUME zeroed, ~outOfSync PROVE viewer' \in {"exited", "lost"}
        BY <1>1
      <4>1. viewer = "goto" /\ call.what = "retry" /\ file.mid
        BY <1>3, <2>1 DEF Clocked
      <4> QED
        BY <1>1, <4>1
    <3>2. viewer' = "failed" /\ call'.what = "retry" => outOfSync'
      BY <1>1, <1>3, <2>1, <2>3 DEF Clocked
    <3>3. call.start > 0
      BY <1>3, <2>1 DEF Clocked
    <3> QED
      BY <1>1, <3>1, <3>2, <3>3 DEF Clocked
  <2>5. Rebuilt'
    BY <1>1 DEF Rebuilt
  <2> QED
    BY <2>2, <2>4, <2>5
<1>10. ~Calm
  <2> SUFFICES ASSUME Calm PROVE FALSE
    OBVIOUS
  <2>1. Undisturbed
    BY DEF ViewInv
  <2>2. world = file.seg
    BY <1>1, <1>3, <2>1 DEF Undisturbed
  <2>3. o = kind[file.seg + 1]
    BY <1>2, <2>2 DEF Outcomes
  <2>4. kind[file.seg + 1] \in {"same", "result"}
    BY <1>6 DEF Calm
  <2> QED
    BY <1>2, <2>3, <2>4
<1> QED
  BY <1>1, <1>8, <1>9, <1>10 DEF ViewInv, Honest, Calm

(* No diff is misread when the new game was as recorded. *)
LEMMA MisreadStep == ASSUME ViewInv, MisreadDiff PROVE ViewInv'
<1>0. ViewTyped
  BY DEF ViewInv
<1>1. /\ Running /\ base # file.seg /\ viewer' = "lost"
      /\ kind' = kind /\ clock' = clock /\ file' = file /\ world' = world /\ zeroed' = zeroed
      /\ base' = base /\ outOfSync' = outOfSync /\ cmdsInvalid' = cmdsInvalid
      /\ options' = options /\ checkpoints' = checkpoints /\ actions' = actions
      /\ valid' = valid /\ frame' = frame /\ call' = call /\ done' = done /\ did' = did
  BY DEF MisreadDiff, recVars
<1>2. viewer \in {"forward", "goto"}
  BY <1>1 DEF Running
<1>3. ViewTypeOK'
  BY <1>0, <1>1 DEF ViewTyped, ViewTypeOK, World
<1>4. ViewTyped'
  BY <1>0, <1>1, <1>2, <1>3 DEF ViewTyped
<1>5. ~Honest
  BY <1>1, <1>2 DEF ViewInv, Faithful
<1> QED
  BY <1>1, <1>4, <1>5, CalmIsHonest DEF ViewInv, Honest, Calm

(* The last round of a step was not fast. *)
LEMMA EndForwardStep == ASSUME ViewInv, EndForward PROVE ViewInv'
<1>0. ViewTyped
  BY DEF ViewInv
<1>1. /\ viewer = "forward" /\ ~Running
      /\ valid' = valid - 1 /\ frame' = FALSE /\ viewer' = "idle"
      /\ kind' = kind /\ clock' = clock /\ file' = file /\ world' = world /\ zeroed' = zeroed
      /\ base' = base /\ outOfSync' = outOfSync /\ cmdsInvalid' = cmdsInvalid
      /\ options' = options /\ checkpoints' = checkpoints /\ actions' = actions
      /\ call' = call /\ done' = done /\ did' = did
  BY DEF EndForward, Leave, recVars
<1>2. ~(done < call.to /\ did)
  BY <1>1 DEF Running
<1>3. valid' \in {-1, 0}
  <2>1. valid \in {0, 1}
    BY <1>0, <1>1 DEF ViewTyped
  <2> QED
    BY <1>1, <2>1
<1>4. ViewTypeOK'
  <2>0. \A v \in {-1, 0} : v \in -1..1
    OBVIOUS
  <2>3. valid' \in -1..1
    BY <1>3, <2>0
  <2>1. valid' \in -1..1 /\ frame' \in BOOLEAN
    BY <1>1, <2>3, Zenon
  <2>2. viewer' \in {"menu", "idle", "forward", "goto", "failed", "exited", "lost"}
    BY <1>1
  <2> QED
    BY <1>0, <1>1, <2>1, <2>2, ViewTypes, OtherTypes DEF ViewTypeOK, World
<1>5. ViewTyped'
  BY <1>0, <1>1, <1>3, <1>4 DEF ViewTyped
<1>6. call.what \in {"forward", "backward"}
  BY <1>0, <1>1 DEF ViewTyped
<1>7. ASSUME Honest PROVE (Faithful /\ Clocked /\ Rebuilt)'
  <2>1. Faithful /\ Clocked /\ Rebuilt
    BY <1>7 DEF ViewInv
  <2>2. Faithful' /\ Clocked'
    BY <1>1, <1>6, <2>1 DEF Faithful, Clocked
  <2>3. world = file.seg \/ (outOfSync /\ AtEnd /\ ~did)
    BY <1>1, <1>2, <2>1 DEF Rebuilt
  <2>4. Rebuilt'
    BY <1>1, <2>3 DEF Rebuilt, Unrestored, AtEnd
  <2> QED
    BY <2>2, <2>4
<1>8. ASSUME Calm PROVE (Undisturbed /\ Underway)'
  <2>1. Undisturbed /\ Underway
    BY <1>8 DEF ViewInv
  <2>2. actions = file.seg
    BY <1>1, <2>1 DEF Undisturbed
  <2>3. call.what = "forward" =>
          IF call.from = MaxAction THEN ~did /\ actions = MaxAction
          ELSE did /\ actions = call.from + 1
    <3>1. SUFFICES ASSUME call.what = "forward"
                   PROVE  IF call.from = MaxAction THEN ~did /\ actions = MaxAction
                          ELSE did /\ actions = call.from + 1
      OBVIOUS
    <3>2. /\ call.to = 1
          /\ \/ done = 0 /\ did /\ actions = call.from
             \/ done = 1 /\ did /\ actions = call.from + 1
             \/ done = 1 /\ ~did /\ actions = call.from /\ call.from = MaxAction
      BY <1>1, <2>1, <3>1 DEF Underway
    <3>3. actions \in 0..MaxAction /\ call.from \in 0..MaxAction /\ MaxAction \in Nat
      BY <1>0, ViewTypes
    <3> QED
      BY <1>2, <3>2, <3>3
  <2>4. call.what = "backward" => actions = IF call.from = 0 THEN 0 ELSE call.from - 1
    <3>1. SUFFICES ASSUME call.what = "backward"
                   PROVE  actions = IF call.from = 0 THEN 0 ELSE call.from - 1
      OBVIOUS
    <3>2. /\ did
          /\ call.from = 0 => call.to = -1 /\ done = 0 /\ actions = 0
          /\ call.from > 0 => done <= call.to /\ actions = call.from - 1 - call.to + done
      BY <1>1, <2>1, <3>1 DEF Underway
    <3>3. /\ actions \in Nat /\ call.from \in 0..MaxAction /\ MaxAction \in Nat
          /\ call.to \in Int /\ done \in Nat
      BY <1>0, ViewTypes, OtherTypes
    <3>4. call.from > 0 => done = call.to
      BY <1>2, <3>2, <3>3
    <3> QED
      BY <3>2, <3>3, <3>4
  <2>8. world = file.seg
    <3>1. world = file.seg \/ ~did
      BY <1>1, <1>2, <1>8, CalmIsHonest DEF ViewInv, Rebuilt
    <3>2. ~did /\ call.what = "forward" => world = file.seg
      BY <1>1, <2>1 DEF Underway
    <3>3. call.what = "backward" => did
      BY <1>1, <2>1 DEF Underway
    <3> QED
      BY <1>6, <3>1, <3>2, <3>3
  <2>5. ArrivesWhereAsked'
    BY <1>1, <1>6, <2>2, <2>3, <2>4, <2>8 DEF ArrivesWhereAsked
  <2>6. Undisturbed'
    BY <1>1, <2>1, <2>5, <2>8 DEF Undisturbed
  <2>7. Underway'
    BY <1>1 DEF Underway
  <2> QED
    BY <2>6, <2>7
<1> QED
  BY <1>1, <1>5, <1>7, <1>8 DEF ViewInv, Honest, Calm

(* A step to a move loads what it skipped. *)
LEMMA EndGotoStep == ASSUME ViewInv, EndGoto PROVE ViewInv'
<1>0. ViewTyped
  BY DEF ViewInv
<1>1. /\ viewer = "goto" /\ ~Running
      /\ world' = IF outOfSync THEN base ELSE world
      /\ zeroed' = (zeroed /\ ~outOfSync)
      /\ did' = (call.what = "retry" \/ TrueMoves = call.to)
      /\ valid' = (IF outOfSync THEN 1 ELSE valid) - 1 /\ frame' = FALSE /\ viewer' = "idle"
      /\ kind' = kind /\ clock' = clock /\ file' = file
      /\ base' = base /\ outOfSync' = outOfSync /\ cmdsInvalid' = cmdsInvalid
      /\ options' = options /\ checkpoints' = checkpoints /\ actions' = actions
      /\ call' = call /\ done' = done
  BY DEF EndGoto, Leave, Synced, Armed, recVars
<1>2. ~(TrueMoves < call.to /\ did)
  BY <1>1 DEF Running
<1>3. valid' \in {-1, 0}
  <2>1. valid \in {0, 1}
    BY <1>0, <1>1 DEF ViewTyped
  <2> QED
    BY <1>1, <2>1
<1>4. did' \in BOOLEAN /\ zeroed' \in BOOLEAN
  BY <1>1, Zenon
<1>5. world' \in World
  BY <1>0, <1>1, ViewTypes
<1>6. ViewTypeOK'
  <2>0. \A v \in {-1, 0} : v \in -1..1
    OBVIOUS
  <2>3. valid' \in -1..1
    BY <1>3, <2>0
  <2>1. valid' \in -1..1 /\ frame' \in BOOLEAN
    BY <1>1, <2>3, Zenon
  <2>2. viewer' \in {"menu", "idle", "forward", "goto", "failed", "exited", "lost"}
    BY <1>1
  <2> QED
    BY <1>0, <1>1, <1>4, <1>5, <2>1, <2>2, ViewTypes, OtherTypes DEF ViewTypeOK, World
<1>7. ViewTyped'
  BY <1>0, <1>1, <1>3, <1>6 DEF ViewTyped
<1>8. TrueMoves \in Int /\ call.to \in Int
  BY <1>0, Clocks, ViewTypes
<1>9. ASSUME Honest PROVE (Faithful /\ Clocked /\ Rebuilt)'
  <2>1. Faithful /\ Clocked /\ Rebuilt
    BY <1>9 DEF ViewInv
  <2>2. Faithful' /\ base = file.seg
    BY <1>1, <2>1 DEF Faithful
  <2>3. ~zeroed \/ outOfSync
    <3> SUFFICES ASSUME zeroed, ~outOfSync PROVE FALSE
      OBVIOUS
    <3>1. TrueMoves = 0
      BY DEF TrueMoves
    <3>2. did /\ call.to > 0
      BY <1>1, <2>1 DEF Clocked
    <3> QED
      BY <1>2, <3>1, <3>2
  <2>4. call.what # "given up"
    BY <1>0, <1>1 DEF ViewTyped
  <2>5. Clocked'
    BY <1>1, <2>1, <2>3, <2>4 DEF Clocked
  <2>6. world' = file.seg
    BY <1>1, <2>1, <2>2 DEF Rebuilt
  <2>7. Rebuilt'
    BY <1>1, <2>6 DEF Rebuilt
  <2> QED
    BY <2>2, <2>5, <2>7
<1>10. ASSUME Calm PROVE (Undisturbed /\ Underway)'
  <2>1. Undisturbed /\ Underway /\ Faithful
    BY <1>10, CalmIsHonest DEF ViewInv
  <2>2. actions = file.seg /\ base = file.seg /\ (world = file.seg \/ outOfSync) /\ ~zeroed
    BY <1>1, <2>1 DEF Undisturbed, Faithful
  <2>3. TrueMoves = clock[actions]
    BY <1>0, <2>2, ViewTypes, Clocks
  <2>4. clock[actions] >= call.to \/ actions = MaxAction
    BY <1>1, <1>2, <1>8, <2>1, <2>3 DEF Underway
  <2>5. /\ call.what = "goto"
        /\ actions \in {0, call.from} \/ clock[actions - 1] < call.to
    BY <1>1, <2>1 DEF Underway
  <2>6. ArrivesWhereAsked'
    BY <1>1, <2>2, <2>4, <2>5 DEF ArrivesWhereAsked
  <2>7. Undisturbed'
    BY <1>1, <2>1, <2>2, <2>6 DEF Undisturbed
  <2>8. Underway'
    BY <1>1 DEF Underway
  <2> QED
    BY <2>7, <2>8
<1> QED
  BY <1>1, <1>7, <1>9, <1>10 DEF ViewInv, Honest, Calm

(* What executing a command, or not, may come to. *)
LEMMA Execution ==
  ASSUME ViewTyped, ~AtEnd, NEW e \in Executed
  PROVE  /\ e.world \in World /\ e.ok \in BOOLEAN
         /\ cmdsInvalid => ~e.ok
         /\ Calm /\ world = file.seg /\ ~file.mid /\ e.ok => e.world = file.seg + 1 \/ cmdsInvalid
<1>1. world \in World /\ file.seg + 1 \in World /\ Own \in World /\ file.seg + 1 \in Recorded
      /\ file.seg + 1 # 0
  <2>1. file.seg + 1 \in Recorded /\ file.seg + 1 \in 1..MaxAction /\ MaxAction \in Nat
    BY NextAction, ViewBounds
  <2> QED
    BY <2>1, ViewTypes DEF World
<1>2. CASE cmdsInvalid
  <2>1. e = [world |-> world, ok |-> FALSE]
    BY <1>2 DEF Executed
  <2> QED
    BY <1>1, <1>2, <2>1
<1>3. CASE ~cmdsInvalid /\ file.mid
  <2>1. PICK b \in BOOLEAN : e = [world |-> world, ok |-> b]
    BY <1>3 DEF Executed
  <2> QED
    BY <1>1, <1>3, <2>1
<1>4. CASE ~cmdsInvalid /\ ~file.mid
  <2>1. PICK o \in Outcomes \ {"parse", "dies"} :
          e = [world |-> IF o = "same" THEN file.seg + 1 ELSE Own, ok |-> o # "result"]
    BY <1>4 DEF Executed
  <2>2. e.world = (IF o = "same" THEN file.seg + 1 ELSE Own) /\ e.ok = (o # "result")
    BY <2>1
  <2>3. e.ok \in BOOLEAN
    <3>1. (o # "result") \in BOOLEAN
      OBVIOUS
    <3> QED
      BY <2>2, <3>1
  <2>4. ASSUME Calm, world = file.seg, e.ok PROVE e.world = file.seg + 1
    <3>1. o = kind[file.seg + 1]
      BY <2>4 DEF Outcomes
    <3>2. kind[file.seg + 1] \in {"same", "result"}
      BY <1>1, <2>4 DEF Calm
    <3> QED
      BY <2>2, <2>4, <3>1, <3>2
  <2> QED
    BY <1>1, <1>4, <2>2, <2>3, <2>4
<1> QED
  BY <1>2, <1>3, <1>4

(* A diff is read, and loaded unless it is skipped or there is no need. *)
LEMMA ReadDiffStep == ASSUME ViewInv, ReadDiff PROVE ViewInv'
<1>0. ViewTyped
  BY DEF ViewInv
<1>1. PICK e \in Executed, busy \in BOOLEAN :
        LET k     == file.seg + 1
            agree == ~Fast /\ e.ok /\ e.world = k
            out   == outOfSync \/ ~agree
            load  == ~Fast /\ ~agree
            w     == IF load THEN k ELSE e.world
            n     == actions + 1
            cp    == ~file.mid /\ Due(n, k) /\ ~busy
        IN  /\ file' = [seg |-> k, mid |-> FALSE] /\ base' = k /\ options' = k
            /\ outOfSync' = out /\ cmdsInvalid' = (~e.ok \/ load)
            /\ world' = IF cp THEN Synced(w, k, out) ELSE w
            /\ zeroed' = (zeroed /\ ~load /\ ~(cp /\ out))
            /\ valid' = Armed(valid, load \/ (cp /\ out))
            /\ did' = ~file.mid
            /\ actions' = IF file.mid THEN actions ELSE n
            /\ checkpoints' = IF cp THEN Append(checkpoints, [actions |-> n, seg |-> k, data |-> world'])
                              ELSE checkpoints
  BY DEF ReadDiff
<1> DEFINE k     == file.seg + 1
           agree == ~Fast /\ e.ok /\ e.world = k
           n     == actions + 1
           cp    == ~file.mid /\ Due(n, k) /\ ~busy
           new   == [actions |-> n, seg |-> k, data |-> world']
<1>2. /\ Running /\ ~AtEnd /\ base = file.seg
      /\ done' = IF viewer = "forward" THEN done + 1 ELSE done
      /\ kind' = kind /\ clock' = clock /\ frame' = frame /\ call' = call /\ viewer' = viewer
  BY DEF ReadDiff, Counted, recVars
<1>3. /\ file' = [seg |-> k, mid |-> FALSE] /\ base' = k /\ options' = k
      /\ did' = ~file.mid
      /\ actions' = IF file.mid THEN actions ELSE n
      /\ checkpoints' = IF cp THEN Append(checkpoints, new) ELSE checkpoints
  BY <1>1
<1>4. /\ outOfSync' = (outOfSync \/ ~agree)
      /\ cmdsInvalid' = (~e.ok \/ (~Fast /\ ~agree))
      /\ zeroed' = (zeroed /\ ~(~Fast /\ ~agree) /\ ~(cp /\ (outOfSync \/ ~agree)))
  BY <1>1
<1>5. valid' = 1 \/ valid' = valid
  BY <1>1 DEF Armed
<1>6. /\ ~Fast => world' = k
      /\ cp => world' = k
      /\ Fast => world' = e.world \/ world' = k
  BY <1>1 DEF Synced
<1>7. Fast => outOfSync'
  BY <1>4
<1>8. ~agree => outOfSync'
  BY <1>4
<1>9. /\ zeroed' \in BOOLEAN /\ outOfSync' \in BOOLEAN /\ cmdsInvalid' \in BOOLEAN
      /\ did' \in BOOLEAN /\ (zeroed' => zeroed) /\ (outOfSync => outOfSync')
  BY <1>3, <1>4, Zenon
<1>10. ~e.ok => cmdsInvalid'
  BY <1>4
<1> HIDE DEF cp, agree
<1>11. /\ k \in 1..MaxAction /\ k \in Recorded /\ n \in Recorded /\ n <= k /\ k - 1 = file.seg
       /\ actions <= k /\ actions \in Recorded /\ k \in Nat
  <2>1. k \in 1..MaxAction /\ k \in Recorded /\ n \in Recorded /\ n <= k /\ k - 1 = file.seg
    BY <1>0, <1>2, NextAction
  <2>2. actions \in 0..MaxAction /\ MaxAction \in Nat /\ actions \in Recorded
    BY <1>0, ViewTypes
  <2>3. \A a, b \in Int : a + 1 <= b => a <= b
    OBVIOUS
  <2> QED
    BY <2>1, <2>2, <2>3
<1>12. /\ e.world \in World /\ e.ok \in BOOLEAN
       /\ cmdsInvalid => ~e.ok
       /\ Calm /\ world = file.seg /\ ~file.mid /\ e.ok => e.world = file.seg + 1 \/ cmdsInvalid
  BY <1>0, <1>2, Execution
<1>13. did /\ viewer \in {"forward", "goto"} /\ (viewer = "forward" => done < call.to)
       /\ (viewer = "goto" => TrueMoves < call.to)
  BY <1>2 DEF Running
<1> HIDE DEF k, n
<1>14. file' \in [seg : Recorded, mid : BOOLEAN] /\ file'.seg = k /\ ~file'.mid
  BY <1>3, <1>11
<1>15. world' \in World /\ base' \in World /\ options' \in Recorded \cup {Users}
  BY <1>3, <1>6, <1>11, <1>12 DEF World
<1>16. actions' \in Recorded /\ actions' <= k
  BY <1>3, <1>11
<1>17. checkpoints \in Seq(Checkpoint) /\ new \in Checkpoint
  BY <1>0, <1>11, <1>15, OtherTypes DEF Checkpoint
<1>18. new.actions = n /\ new.seg = k /\ new.data = world'
  OBVIOUS
<1> HIDE DEF new
<1>19. /\ checkpoints' \in Seq(Checkpoint)
       /\ Len(checkpoints) \in Nat /\ Len(checkpoints) > 0
       /\ Len(checkpoints') >= Len(checkpoints)
       /\ \A i \in 1..Len(checkpoints') :
            \/ cp /\ checkpoints'[i] = new
            \/ i \in 1..Len(checkpoints) /\ checkpoints'[i] = checkpoints[i]
       /\ checkpoints'[1] = checkpoints[1]
  <2>1. Len(checkpoints) \in Nat /\ Len(checkpoints) > 0
    BY <1>0, <1>13, ViewTypes
  <2>2. CASE cp
    BY <1>3, <1>17, <2>1, <2>2
  <2>3. CASE ~cp
    BY <1>3, <1>17, <2>1, <2>3
  <2> QED
    BY <2>2, <2>3
<1>20. valid' \in {0, 1} /\ valid' \in -1..1
  <2>1. valid \in {0, 1}
    BY <1>0, <1>13 DEF ViewTyped
  <2>2. \A v \in {0, 1} : v \in -1..1
    OBVIOUS
  <2> QED
    BY <1>5, <2>1, <2>2
<1>21. done \in Nat /\ done' \in Nat
  <2>1. done \in Nat
    BY <1>0, OtherTypes
  <2> QED
    BY <1>2, <2>1
<1>22. ViewTypeOK'
  BY <1>0, <1>2, <1>9, <1>14, <1>15, <1>16, <1>19, <1>20, <1>21, ViewTypes, OtherTypes
  DEF ViewTypeOK, World
<1>23. ViewTyped'
  <2>1. \A i \in 1..Len(checkpoints') : checkpoints'[i].actions <= checkpoints'[i].seg
    <3>1. \A i \in 1..Len(checkpoints) : checkpoints[i].actions <= checkpoints[i].seg
      BY <1>0 DEF ViewTyped
    <3> QED
      BY <1>11, <1>18, <1>19, <3>1
  <2>2. Len(checkpoints') > 0
    <3>1. Len(checkpoints') \in Nat
      BY <1>19
    <3> QED
      BY <1>19, <3>1
  <2> QED
    BY <1>0, <1>2, <1>13, <1>14, <1>16, <1>20, <1>22, <2>1, <2>2 DEF ViewTyped
<1>24. ASSUME Honest PROVE (Faithful /\ Clocked /\ Rebuilt)'
  <2>1. Faithful /\ Clocked /\ Rebuilt
    BY <1>24 DEF ViewInv
  <2>2. Faithful'
    <3>1. \A i \in 1..Len(checkpoints') : checkpoints'[i].data = checkpoints'[i].seg
      BY <1>6, <1>18, <1>19, <2>1 DEF Faithful
    <3> QED
      BY <1>3, <1>14, <3>1 DEF Faithful
  <2>3. ~(zeroed' /\ ~outOfSync')
    <3> SUFFICES ASSUME zeroed', ~outOfSync' PROVE FALSE
      OBVIOUS
    <3>1. zeroed /\ ~outOfSync
      BY <1>9
    <3>2. viewer = "goto"
      BY <1>13, <2>1, <3>1 DEF Clocked
    <3> QED
      BY <1>7, <3>2 DEF Fast
  <2>4. Clocked'
    <3>1. viewer' = "goto" => outOfSync'
      BY <1>2, <1>7 DEF Fast
    <3> QED
      BY <1>2, <1>13, <2>1, <2>3, <3>1 DEF Clocked
  <2>5. Rebuilt'
    <3>1. viewer = "goto" => outOfSync'
      BY <1>7 DEF Fast
    <3>2. ASSUME viewer = "forward", Fast
          PROVE  done' < call'.to /\ did' /\ outOfSync'
      <4>1. done + 1 # call.to /\ done < call.to /\ call.to \in Int
        BY <1>0, <1>13, <3>2, ViewTypes DEF Fast
      <4>2. done + 1 < call.to
        BY <1>21, <4>1
      <4>3. ~file.mid
        BY <1>21, <2>1, <3>2, <4>1 DEF Rebuilt
      <4> QED
        BY <1>2, <1>3, <1>7, <3>2, <4>2, <4>3
    <3>3. viewer = "forward" =>
            \/ world' = file'.seg
            \/ outOfSync' /\ AtEnd' /\ (done' < call'.to \/ ~did')
            \/ done' < call'.to /\ did' /\ ~AtEnd'
      BY <1>6, <1>14, <3>2
    <3> QED
      BY <1>2, <1>13, <1>14, <3>1, <3>3 DEF Rebuilt
  <2> QED
    BY <2>2, <2>4, <2>5
<1>25. ASSUME Calm PROVE (Undisturbed /\ Underway)'
  <2>1. Undisturbed /\ Underway
    BY <1>25 DEF ViewInv
  <2>2. ~file.mid /\ ~zeroed /\ actions = file.seg /\ (world = file.seg \/ (outOfSync /\ cmdsInvalid))
    BY <1>13, <2>1 DEF Undisturbed
  <2>3. did' /\ actions' = n /\ n = k
    BY <1>3, <2>2 DEF n, k
  <2>4. world' = k \/ (outOfSync' /\ cmdsInvalid')
    <3>1. CASE ~Fast
      BY <1>6, <3>1
    <3>2. CASE Fast /\ ~e.ok
      BY <1>7, <1>10, <3>2
    <3>3. CASE Fast /\ e.ok
      BY <1>6, <1>12, <1>25, <2>2, <3>3 DEF k
    <3> QED
      BY <3>1, <3>2, <3>3
  <2>5. /\ \A i \in 1..Len(checkpoints') : checkpoints'[i].actions = checkpoints'[i].seg
        /\ checkpoints'[1].actions = 0
    BY <1>13, <1>18, <1>19, <2>1, <2>3 DEF Undisturbed
  <2>6. Undisturbed'
    <3>1. ~zeroed' /\ file'.seg = k /\ ~file'.mid
      BY <1>9, <1>14, <2>2
    <3>2. viewer' \in {"forward", "goto"} /\ call'.what \in {"nothing", "forward", "backward", "goto"}
      BY <1>2, <1>13, <2>1 DEF Undisturbed
    <3> QED
      BY <2>3, <2>4, <2>5, <3>1, <3>2 DEF Undisturbed
  <2>7. CASE viewer = "goto"
    <3>1. TrueMoves = clock[file.seg]
      BY <1>0, <1>2, <2>2, ViewTypes, Clocks
    <3>2. clock'[actions' - 1] < call'.to
      BY <1>2, <1>11, <1>13, <2>3, <2>7, <3>1
    <3>3. call'.what = "goto"
      BY <1>2, <2>1, <2>7 DEF Underway
    <3> QED
      BY <1>2, <2>3, <2>6, <2>7, <3>2, <3>3 DEF Underway
  <2>8. CASE viewer = "forward" /\ call.what = "forward"
    <3>1. /\ call.to = 1
          /\ \/ done = 0 /\ actions = call.from
             \/ done = 1
      BY <2>1, <2>8 DEF Underway
    <3>2. done = 0 /\ actions = call.from
      BY <1>13, <2>8, <3>1
    <3>3. done' = 1 /\ actions' = call.from + 1
      BY <1>2, <2>3, <2>8, <3>2 DEF n
    <3> QED
      BY <1>2, <2>3, <2>6, <2>8, <3>1, <3>3 DEF Underway
  <2>9. CASE viewer = "forward" /\ call.what = "backward"
    <3>1. /\ call.from = 0 => call.to = -1 /\ done = 0
          /\ call.from > 0 => actions = call.from - 1 - call.to + done
      BY <2>1, <2>9 DEF Underway
    <3>2. call.from \in Nat /\ call.to \in Int /\ actions \in Int
      <4>1. call.from \in 0..MaxAction /\ call.to \in Int /\ actions \in 0..MaxAction /\ MaxAction \in Nat
        BY <1>0, ViewTypes
      <4> QED
        BY <4>1
    <3>3. done < call.to /\ done' = done + 1
      BY <1>2, <1>13, <2>9
    <3>4. call.from > 0 /\ actions = call.from - 1 - call.to + done
      BY <1>21, <3>1, <3>2, <3>3
    <3>5. done + 1 <= call.to /\ actions + 1 = call.from - 1 - call.to + (done + 1)
      BY <1>21, <3>2, <3>3, <3>4
    <3>6. done' <= call'.to /\ actions' = call'.from - 1 - call'.to + done'
      BY <1>2, <2>3, <3>3, <3>5 DEF n
    <3>7. call'.from # 0
      BY <1>2, <3>2, <3>4
    <3> QED
      BY <1>2, <2>3, <2>6, <2>9, <3>6, <3>7 DEF Underway
  <2> QED
    BY <1>0, <1>13, <2>7, <2>8, <2>9 DEF ViewTyped
<1> QED
  BY <1>2, <1>23, <1>24, <1>25 DEF ViewInv, Honest, Calm

(* Every action of the viewer. *)
LEMMA NextViewInv == ViewInv /\ [ViewNext]_viewVars => ViewInv'
<1> SUFFICES ASSUME ViewInv, [ViewNext]_viewVars PROVE ViewInv'
  OBVIOUS
<1>1. ASSUME NEW count \in 1..MaxAction + 2, StepGoto(count) PROVE ViewInv'
  BY <1>1, StepGotoStep
<1>2. CASE UNCHANGED viewVars
  <2>1. /\ kind' = kind /\ clock' = clock /\ file' = file /\ world' = world /\ zeroed' = zeroed
        /\ base' = base /\ outOfSync' = outOfSync /\ cmdsInvalid' = cmdsInvalid
        /\ options' = options /\ checkpoints' = checkpoints /\ actions' = actions
        /\ valid' = valid /\ frame' = frame /\ call' = call /\ done' = done /\ did' = did
        /\ viewer' = viewer
    BY <1>2 DEF viewVars, recVars
  <2>2. (Honest' <=> Honest) /\ (Calm' <=> Calm)
    BY <2>1 DEF Honest, Calm
  <2>3. ViewTypeOK' <=> ViewTypeOK
    BY <2>1 DEF ViewTypeOK, World
  <2>4. ViewTyped' <=> ViewTyped
    BY <2>1, <2>3 DEF ViewTyped
  <2>5. (Faithful' <=> Faithful) /\ (Clocked' <=> Clocked)
    BY <2>1 DEF Faithful, Clocked
  <2>6. (TrueMoves' = TrueMoves) /\ (AtEnd' <=> AtEnd)
    BY <2>1 DEF TrueMoves, Moves, AtEnd
  <2>7. Rebuilt' <=> Rebuilt
    BY <2>1, <2>6 DEF Rebuilt, Running, Unrestored
  <2>8. ArrivesWhereAsked' <=> ArrivesWhereAsked
    BY <2>1, <2>2 DEF ArrivesWhereAsked
  <2>9. (Undisturbed' <=> Undisturbed) /\ (Underway' <=> Underway)
    BY <2>1, <2>8 DEF Undisturbed, Underway
  <2> QED
    BY <2>2, <2>4, <2>5, <2>7, <2>9 DEF ViewInv
<1> QED
  BY <1>1, <1>2, ViewStartStep, ViewFinishStep, StepForwardStep, StepBackwardStep, RetryStep,
     GiveUpStep, ReadEndStep, CommandFailsStep, ReadDiffStep, MisreadStep, EndForwardStep,
     EndGotoStep DEF ViewNext

(* The counters of frames, actions and moves stay in range.                *)
THEOREM ViewTypeCorrect == ViewSpec => []ViewTypeOK
<1>1. ViewInv => ViewTypeOK
  BY DEF ViewInv, ViewTyped
<1> QED
  BY <1>1, ViewStarts, NextViewInv, PTL DEF ViewSpec

(* After a step the screen shows a recorded game with the options it had,  *)
(* whatever this build makes of the commands, unless the viewer could not  *)
(* restore one or ran out of diffs on its way.                             *)
THEOREM ShownIsTheRecording == ViewSpec => []ShownIsRecorded
<1>1. ViewInv => ShownIsRecorded
  <2> SUFFICES ASSUME ViewInv, viewer = "idle", Honest PROVE
         /\ ~Unrestored => world = file.seg
         /\ base = file.seg
         /\ options = IF file.mid THEN file.seg + 1 ELSE file.seg
         /\ actions \in 0..file.seg
    BY DEF ShownIsRecorded, Honest
  <2>1. ViewTyped /\ Faithful /\ Rebuilt
    BY DEF ViewInv
  <2>2. actions \in 0..MaxAction /\ file.seg \in 0..MaxAction /\ MaxAction \in Nat
    BY <2>1, ViewTypes
  <2>3. actions <= file.seg
    BY <2>1 DEF ViewTyped
  <2>4. actions \in 0..file.seg
    BY <2>2, <2>3
  <2> QED
    BY <2>1, <2>4 DEF Faithful, Rebuilt
<1> QED
  BY <1>1, ViewStarts, NextViewInv, PTL DEF ViewSpec

(* Where commands at most give another result, one step leads one action   *)
(* on or back, and one to a move to the first action of it.                *)
THEOREM StepsArrive == ViewSpec => []ArrivesWhereAsked
<1>1. ViewInv => ArrivesWhereAsked
  <2>1. ViewInv /\ viewer = "idle" /\ Calm => ArrivesWhereAsked
    BY DEF ViewInv, Undisturbed
  <2> QED
    BY <2>1 DEF ArrivesWhereAsked
<1> QED
  BY <1>1, ViewStarts, NextViewInv, PTL DEF ViewSpec

-----------------------------------------------------------------------------
(* A behaviour of the whole is one of each part.                           *)

(* No reader touches what another one keeps. *)
LEMMA EachReader == Spec => ScanSpec /\ DiffSpec /\ ViewSpec
<1>1. Init => ScanInit /\ DiffInit /\ ViewInit
  BY DEF Init
<1>2. [Next]_vars => [ScanNext]_scanVars
  BY DEF Next, vars, ScanLog, RebuildSave, ViewLog
<1>3. [Next]_vars => [DiffNext]_diffVars
  BY DEF Next, vars, ScanLog, RebuildSave, ViewLog
<1>4. [Next]_vars => [ViewNext]_viewVars
  BY DEF Next, vars, ScanLog, RebuildSave, ViewLog
<1> QED
  BY <1>1, <1>2, <1>3, <1>4, PTL DEF Spec, ScanSpec, DiffSpec, ViewSpec

(* What the run log_reading checks, all together.                          *)
THEOREM ReadersAreRight ==
  Spec => [](FindsInShortLog /\ Accepted /\ RoundTrip /\ ShownIsRecorded /\ ArrivesWhereAsked)
BY EachReader, ShortLogsAreFound, AlwaysAccepted, DiffsRoundTrip, ShownIsTheRecording, StepsArrive, PTL
=============================================================================
