------------------------------ MODULE MemDiff -------------------------------
(***************************************************************************)
(* The binary diffs of the game log: libnitrohack/src/memfile.c writing a  *)
(* save relative to the previous one, and replay_check_diff of logreplay.c *)
(* rebuilding it.  The writer run-length encodes into 16-bit words of a    *)
(* command and a count; the reader is fed every word as it is written,     *)
(* which is all the same to it.                                            *)
(*                                                                         *)
(* A buffer is a function on 1..MaxLen with a length beside it, as in C.   *)
(***************************************************************************)
EXTENDS Integers

CONSTANTS
  Byte,      \* the bytes a save consists of
  Zero,      \* the byte mfalign pads with
  Tags,      \* what the sections of a save are tagged with
  Parents,   \* the saves a diff may be made against
  Field,     \* number of values of the count field (2^14)
  Aln,       \* alignment of a magic number (4)
  MaxLen     \* bound: bytes in a save

Half == Field \div 2       \* seek counts are signed
Buffer == [1..MaxLen -> Byte]
NoTag  == -1               \* the tag is not in the parent

ASSUME ConstantsAssumption ==
  /\ Zero \in Byte
  /\ MaxLen \in Nat /\ Aln \in Nat \ {0}
  /\ Field \in Nat /\ Field >= 4 /\ Field = 2 * Half
  /\ Parents \subseteq [buf : Buffer, pos : 0..MaxLen,
                        tags : [Tags -> 0..MaxLen \cup {NoTag}]]

VARIABLES
  relativeto,                 \* the parent save
  buf, pos,                   \* the save being written
  relativepos,                \* where pos corresponds to in the parent
  curcmd, curcount,           \* the run not written out yet
  pc,                         \* inside mtag's loop, inside mfalign's, closed
  offset,                     \* mtag: what is still to be sought
  goal,                       \* mtag: where to
  pad,                        \* mfalign: zero bytes still to be written
  rd                          \* the reader: [buf, pos, dbpos, ok]

writer == <<buf, pos, relativepos, curcmd, curcount>>
diffVars   == <<relativeto, writer, pc, offset, goal, pad, rd>>

Cmds == {"seek", "copy", "edit", "invalid"}

DiffTypeOK ==
  /\ relativeto \in Parents
  /\ buf \in Buffer /\ pos \in 0..MaxLen
  /\ relativepos \in Nat
  /\ curcmd \in Cmds
  /\ curcount \in Int
  /\ pc \in {"open", "tag", "align", "closed"}
  /\ offset \in Int /\ goal \in 0..MaxLen /\ pad \in Nat
  /\ rd \in [buf : Buffer, pos : 0..MaxLen, dbpos : Int, ok : BOOLEAN]

----------------------------------------------------------------------------
(* The reader: what one word, and the bytes behind it, do to replay_check_diff. *)

Reject(r) == [r EXCEPT !.ok = FALSE]

Extend(r, bytes, n) ==
  [r EXCEPT !.buf = [i \in 1..MaxLen |-> IF i \in (r.pos+1)..(r.pos+n)
                                           THEN bytes[i - r.pos] ELSE r.buf[i]],
            !.pos = @ + n,
            !.dbpos = @ + n]

(* A seek of 0 is how a diff ends: what follows it is never read. *)
ReadSeek(r, w) ==
  LET n == IF w >= Half THEN w - Field ELSE w
  IN  IF w = 0 \/ r.dbpos < n THEN Reject(r) ELSE [r EXCEPT !.dbpos = @ - n]

ReadCopy(r, n) ==
  IF r.dbpos + n > relativeto.pos THEN Reject(r)
  ELSE Extend(r, [i \in 1..n |-> relativeto.buf[r.dbpos + i]], n)

ReadEdit(r, n) == Extend(r, [i \in 1..n |-> buf[pos - n + i]], n)

(* mdiffwrite14: the count is cut to its field. *)
Word(n) == n % Field

(* The reader after the words of mdiffflush. *)
Flushed ==
  CASE curcmd = "seek" -> ReadSeek(rd, Word(curcount))
    [] curcmd = "copy" -> ReadCopy(rd, Word(curcount))
    [] curcmd = "edit" -> ReadEdit(rd, Word(curcount))
    [] OTHER -> rd

----------------------------------------------------------------------------
(* The writer. *)

(* Mutant: the run may grow by one more before it is flushed. *)
RunFull_late(n) == n > Field - 1

RunFull(n) == n >= Field - 1

(* mwrite, one byte. *)
Put(b) ==
  LET same == relativepos < relativeto.pos /\ relativeto.buf[relativepos + 1] = b
      cmd  == IF same THEN "copy" ELSE "edit"
      new  == curcmd # cmd \/ RunFull(curcount)
  IN  /\ pos < MaxLen
      /\ buf' = [buf EXCEPT ![pos+1] = b]
      /\ rd' = IF new THEN Flushed ELSE rd
      /\ curcount' = IF new THEN 1 ELSE curcount + 1
      /\ curcmd' = cmd
      /\ pos' = pos + 1
      /\ relativepos' = relativepos + 1

Write(b) ==
  /\ pc = "open"
  /\ Put(b)
  /\ UNCHANGED <<relativeto, pc, offset, goal, pad>>

(* mtag: the parent has the tag somewhere else.  A run that is no seek is
   flushed first; a pending seek is added to. *)
Tag(t) ==
  /\ pc = "open"
  /\ relativeto.tags[t] \notin {NoTag, relativepos}
  /\ goal' = relativeto.tags[t]
  /\ offset' = relativepos - goal'
  /\ rd' = IF curcmd = "seek" THEN rd ELSE Flushed
  /\ curcount' = IF curcmd = "seek" THEN curcount ELSE 0
  /\ curcmd' = IF curcmd = "seek" THEN "seek" ELSE "invalid"
  /\ pc' = "tag"
  /\ UNCHANGED <<relativeto, buf, pos, relativepos, pad>>

Far(n) == n >= Half \/ n <= -Half

(* One round of mtag's loop: the longest seek a word can hold. *)
SeekChunk ==
  LET n == IF offset + curcount < 0 THEN -(Half - 1) ELSE Half - 1
  IN  /\ pc = "tag" /\ Far(offset + curcount)
      /\ rd' = ReadSeek(rd, Word(n))
      /\ offset' = offset - n
      /\ UNCHANGED <<relativeto, writer, pc, goal, pad>>

(* Mutant: two seeks that cancel out are still written. *)
SeekRest_zero ==
  /\ pc = "tag" /\ ~Far(offset + curcount)
  /\ curcount' = curcount + offset
  /\ curcmd' = "seek"
  /\ relativepos' = goal
  /\ pc' = "open" /\ offset' = 0
  /\ UNCHANGED <<relativeto, buf, pos, goal, pad, rd>>

(* The rest of the seek stays pending; two seeks that cancel out vanish. *)
SeekRest ==
  /\ pc = "tag" /\ ~Far(offset + curcount)
  /\ curcount' = curcount + offset
  /\ curcmd' = IF curcount' # 0 THEN "seek" ELSE "invalid"
  /\ relativepos' = goal
  /\ pc' = "open" /\ offset' = 0
  /\ UNCHANGED <<relativeto, buf, pos, goal, pad, rd>>

(* mfmagic_set aligns first: alignbytes is computed from the bits alignmask
   keeps, not from those it masks out. *)
AlignBytes ==
  LET kept == pos - (pos % Aln)
  IN  IF Aln > kept THEN Aln - kept ELSE 0

Align ==
  /\ pc = "open"
  /\ pad' = AlignBytes
  /\ pc' = "align"
  /\ UNCHANGED <<relativeto, writer, offset, goal, rd>>

PadByte ==
  /\ pc = "align" /\ pad > 0
  /\ Put(Zero)
  /\ pad' = pad - 1
  /\ UNCHANGED <<relativeto, pc, offset, goal>>

(* mfmagic_set writes its number. *)
Magic(b) ==
  /\ pc = "align" /\ pad = 0
  /\ Put(b)
  /\ pc' = "open"
  /\ UNCHANGED <<relativeto, offset, goal, pad>>

(* log_command_result: mdiffflush, then the diff goes to the log. *)
Close ==
  /\ pc = "open"
  /\ rd' = Flushed
  /\ curcmd' = "invalid"
  /\ pc' = "closed"
  /\ UNCHANGED <<relativeto, buf, pos, relativepos, curcount, offset, goal, pad>>

(* mnew(mf, relativeto), and mnew(&mf, NULL) of the reader. *)
DiffInit ==
  /\ relativeto \in Parents
  /\ buf = [i \in 1..MaxLen |-> Zero] /\ pos = 0
  /\ relativepos = 0
  /\ curcmd = "invalid" /\ curcount = 0
  /\ pc = "open" /\ offset = 0 /\ goal = 0 /\ pad = 0
  /\ rd = [buf |-> [i \in 1..MaxLen |-> Zero], pos |-> 0, dbpos |-> 0, ok |-> TRUE]

DiffNext ==
  \/ \E b \in Byte : Write(b) \/ Magic(b)
  \/ \E t \in Tags : Tag(t)
  \/ SeekChunk
  \/ SeekRest
  \/ Align
  \/ PadByte
  \/ Close

DiffSpec == DiffInit /\ [][DiffNext]_diffVars
----------------------------------------------------------------------------
(* Properties. *)

(* "0x0000 means "seek 0" which would never be generated" (logreplay.c:937):
   no diff memfile.c writes is cut short or rejected by replay_check_diff. *)
Accepted == rd.ok

(* A diff rebuilds, byte for byte, the save it was made of, however runs
   were split, seeks merged and sections tagged. *)
RoundTrip ==
  pc = "closed" => rd.pos = pos /\ \A i \in 1..pos : rd.buf[i] = buf[i]
=============================================================================
