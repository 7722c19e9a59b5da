------------------------------ MODULE ScoreList ------------------------------
(***************************************************************************)
(* The list of the best games (topten.c).  A game that is over reads the   *)
(* whole file under the record lock, puts its entry in, empties the file   *)
(* and writes it again, an entry at a time.                                *)
(***************************************************************************)
EXTENDS Naturals, Sequences, SequencesExt

CONSTANTS Losers,      \* the processes
          Entries,     \* what can be on the list
          Start,       \* the list in the beginning, a sequence of entries
          Points,      \* [Entries -> Nat]
          Player,      \* [Entries -> names]
          TTLISTLEN, PLAYERMAX,
          NoOne,
          MaxScored    \* bound: games that are put in

ASSUME ScoreAssumption == /\ Points \in [Entries -> Nat]
                          /\ TTLISTLEN \in Nat \ {0} /\ PLAYERMAX \in Nat \ {0}
                          /\ NoOne \notin Losers /\ MaxScored \in Nat
                          /\ Start \in Seq(Entries) /\ Len(Start) <= TTLISTLEN
                          /\ \A i, j \in DOMAIN Start : i < j => Points[Start[i]] >= Points[Start[j]]

VARIABLES
  record,   \* the file: a sequence of entries
  rlock,    \* who holds its record lock
  spc,      \* [Losers -> [at, list]]: stage, toptenlist
  scored,   \* history: the entries that were put in, in that order
  torn      \* history: a process died while it wrote the file

scoreVars == <<record, rlock, spc, scored, torn>>

Ready == [at |-> "ready", list |-> <<>>]
Moves(p, stage) == spc' = [spc EXCEPT ![p].at = stage]

-----------------------------------------------------------------------------
(* toptenlist_insert                                                       *)

Better(list, e) == {i \in DOMAIN list : Points[list[i]] >= Points[e]}
\* The list is sorted: the entry goes behind those with as many points.
Ins(list, e) == Cardinality(Better(list, e)) + 1

Mine(list, e) == Cardinality({i \in Better(list, e) : Player[list[i]] = Player[e]})

\* The entry that makes room.  The loop compares ttlist[ins], not ttlist[del]:
\* it counts either every entry from ins on or none.
Del(list, e) ==
  LET ins == Ins(list, e)
      end == Len(list) + 1
      own == ins < end /\ Player[list[ins]] = Player[e]
      del == IF own /\ ins + PLAYERMAX - Mine(list, e) - 1 < end
             THEN ins + PLAYERMAX - Mine(list, e) - 1 ELSE end
  IN  IF del > TTLISTLEN THEN TTLISTLEN ELSE del

MakesList(list, e) == Mine(list, e) < PLAYERMAX /\ Ins(list, e) <= TTLISTLEN

Insert(list, e) ==
  LET ins == Ins(list, e)
      del == Del(list, e)
  IN  SubSeq(list, 1, ins - 1) \o <<e>> \o SubSeq(list, ins, del - 1) \o SubSeq(list, del + 1, Len(list))

-----------------------------------------------------------------------------
(* update_topten                                                           *)

LockScores_none(p) ==                 \* mutant: the list is read without the lock
  /\ spc[p].at = "ready" /\ Moves(p, "locked")
  /\ UNCHANGED <<record, rlock, scored, torn>>

LockScores(p) ==
  /\ spc[p].at = "ready" /\ rlock = NoOne
  /\ rlock' = p /\ Moves(p, "locked")
  /\ UNCHANGED <<record, scored, torn>>

\* After thirty tries, a second apart, the game is not scored.
GiveUp(p) ==
  /\ spc[p].at = "ready" /\ rlock # NoOne
  /\ Moves(p, "scored")
  /\ UNCHANGED <<record, rlock, scored, torn>>

\* read_topten and toptenlist_insert
ReadScores(p, e) ==
  /\ spc[p].at = "locked" /\ Len(scored) < MaxScored
  /\ spc' = [spc EXCEPT ![p] =
               IF MakesList(record, e) THEN [at |-> "rewrite", list |-> Insert(record, e)]
               ELSE [at |-> "unlock", list |-> <<>>]]
  /\ scored' = Append(scored, e)
  /\ UNCHANGED <<record, rlock, torn>>

\* write_topten: ftruncate, then one entry after the other.
EmptyScores(p) ==
  /\ spc[p].at = "rewrite"
  /\ record' = <<>> /\ Moves(p, "write")
  /\ UNCHANGED <<rlock, scored, torn>>

WriteScore(p) ==
  /\ spc[p].at = "write" /\ Len(record) < Len(spc[p].list)
  /\ record' = Append(record, spc[p].list[Len(record) + 1])
  /\ UNCHANGED <<rlock, spc, scored, torn>>

UnlockScores(p) ==
  /\ \/ spc[p].at = "unlock"
     \/ spc[p].at = "write" /\ Len(record) >= Len(spc[p].list)
  /\ rlock' = IF rlock = p THEN NoOne ELSE rlock
  /\ spc' = [spc EXCEPT ![p] = [at |-> "scored", list |-> <<>>]]
  /\ UNCHANGED <<record, scored, torn>>

\* The process ends, or dies in the middle of it.
ScoresGone(p) ==
  /\ rlock' = IF rlock = p THEN NoOne ELSE rlock
  /\ torn' = (torn \/ spc[p].at \in {"rewrite", "write"})
  /\ spc' = [spc EXCEPT ![p] = Ready]
  /\ UNCHANGED <<record, scored>>

ScoreStep(p, e) ==
  LockScores(p) \/ GiveUp(p) \/ ReadScores(p, e) \/ EmptyScores(p) \/ WriteScore(p) \/ UnlockScores(p)

-----------------------------------------------------------------------------
ScoreInit ==
  /\ record = Start /\ rlock = NoOne
  /\ spc = [p \in Losers |-> Ready]
  /\ scored = <<>> /\ torn = FALSE

ScoreTypeOK ==
  /\ record \in Seq(Entries) /\ Len(record) <= TTLISTLEN
  /\ rlock \in Losers \cup {NoOne}
  /\ spc \in [Losers -> [at : {"ready", "locked", "rewrite", "write", "unlock", "scored"},
                        list : Seq(Entries)]]
  /\ \A p \in Losers : Len(spc[p].list) <= TTLISTLEN
  /\ scored \in Seq(Entries) /\ torn \in BOOLEAN

\* The list as it should be: of everything that was ever put in, the best,
\* the older ones first among equals.
All == Start \o scored
Ahead(a, i) == {j \in DOMAIN a : \/ Points[a[j]] > Points[a[i]]
                                 \/ Points[a[j]] = Points[a[i]] /\ j <= i}
Rank(a, i)   == Cardinality(Ahead(a, i))
AtRank(a, k) == CHOOSE i \in DOMAIN a : Rank(a, i) = k
Best(a) == [n \in 1..(IF Len(a) < TTLISTLEN THEN Len(a) ELSE TTLISTLEN) |-> a[AtRank(a, n)]]

\* Until as many games are over as a player may have entries, or if the list
\* has no more places than that: beyond, toptenlist_insert may throw out an
\* entry of anybody (see RoomIsOwn).
Uncrowded == Len(All) <= PLAYERMAX \/ TTLISTLEN <= PLAYERMAX

\* No score is lost or kept in the wrong place, however many games end at
\* the same time: while nobody holds the lock the file is the list of the
\* best, unless a process died while it wrote.
ScoresKept == rlock = NoOne /\ ~torn /\ Uncrowded => record = Best(All)

\* "If the player already has PLAYERMAX entries in the list, find the last
\* one.  Otherwise del is either the first empty entry or TTLISTLEN": in a
\* list with room nobody loses an entry but the player whose game is put in.
RoomIsOwn ==
  \A p \in Losers : spc[p].at = "rewrite" /\ Len(record) < TTLISTLEN =>
    \A i \in DOMAIN record : \/ record[i] \in ToSet(spc[p].list)
                             \/ Player[record[i]] = Player[Last(scored)]
=============================================================================
