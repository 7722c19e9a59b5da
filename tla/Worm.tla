-------------------------------- MODULE Worm --------------------------------
(***************************************************************************)
(* Long worms (worm.c): every level has MAX_NUM_WORMS - 1 usable slots,    *)
(* each with the list of one worm's segments from the end of its tail to a *)
(* dummy under its head, and the map of who stands where, in which every   *)
(* segment is the worm's monster.  Worms move, rest, are cut, named, tamed, *)
(* teleported, pushed aside, polymorphed and killed, leave the level with  *)
(* the length of their tail in the field of the slot, and come back.       *)
(***************************************************************************)
EXTENDS Integers, Sequences, FiniteSets, SequencesExt

CONSTANTS
  Creature,       \* the monst structures
  Nobody,         \* the NULL of the map
  Square,         \* the squares of the map, by number; 0 is off the map
  Beside,         \* pairs of adjoining squares
  MAX_NUM_WORMS,  \* 32 in the code; slot 0 is never used
  TailLength,     \* how long a new worm's tail may be: rn2(5)
  MaxSegs         \* bound on the segments of a list, the dummy included

ASSUME WormAssumption ==
  /\ IsFiniteSet(Creature) /\ Nobody \notin Creature
  /\ Square \subseteq Nat \ {0}
  /\ Beside \subseteq Square \X Square /\ \A p \in Beside : <<p[2], p[1]>> \in Beside
  /\ MAX_NUM_WORMS \in Nat \ {0, 1} /\ MaxSegs \in Nat \ {0}
  /\ TailLength \subseteq 0 .. MaxSegs - 1

VARIABLES
  monsters,  \* level->monsters: who is on each square
  wsegs,     \* per slot, the list from wtails to wheads; empty: a free slot
  monst,     \* the monsters' own records
  muddled    \* (history) somebody has been drawn over another's tail

wormVars == <<monsters, wsegs, monst, muddled>>

Slot == 1 .. MAX_NUM_WORMS - 1

\* A new worm's segments lie nowhere yet.
Unplaced == 0

Monst(there, at, long, wormno, named) ==
  [there |-> there, at |-> at, long |-> long, wormno |-> wormno, named |-> named]

NoMonst == Monst("none", 0, FALSE, 0, FALSE)

OnLevel(m) == monst[m].there = "level"
Tailed(m) == OnLevel(m) /\ monst[m].wormno # 0
Segs(m) == wsegs[monst[m].wormno]

\* The squares a monster takes: its own and those of its segments.
Body(m) == {monst[m].at} \cup IF monst[m].wormno = 0 THEN {} ELSE ToSet(Segs(m))

Erase(g, S) == [c \in Square |-> IF c \in S THEN Nobody ELSE g[c]]
Put(g, m, S) == [c \in Square |-> IF c \in S THEN m ELSE g[c]]
Vacant(x) == monsters[x] = Nobody

\* The first free slot, or 0: "level infested with worms".
GetWormno ==
  LET free == {i \in Slot : wsegs[i] = <<>>}
  IN  IF free = {} THEN 0 ELSE CHOOSE i \in free : \A j \in free : i <= j

-----------------------------------------------------------------------------
(* Laying a tail down.                                                     *)

\* Ways to lie down, square by square, from x over what is free in g.
Trails(g, x, n) ==
  {p \in UNION {[1 .. k -> Square] : k \in 0 .. n} :
     \A i \in DOMAIN p :
       /\ g[p[i]] = Nobody
       /\ <<IF i = 1 THEN x ELSE p[i - 1], p[i]>> \in Beside
       /\ \A j \in 1 .. i - 1 : p[j] # p[i]}

\* place_worm_tail_randomly: the list is turned round while it is laid down,
\* and what finds no place is tossed, with the coordinates it had before.
\* taken: somebody has come to stand on one of those in the meantime.
LaidDown(g, m, x, s) ==
  {LET lain == Put(g, m, ToSet(p))
       rest == {s[i] : i \in Len(p) + 2 .. Len(s)} \cap Square
   IN  [map |-> Erase(lain, rest), segs |-> Reverse(p) \o <<x>>,
        taken |-> \E c \in rest : lain[c] # Nobody] : p \in Trails(g, x, Len(s) - 1)}

\* rloc_to for a monster that has been picked up.
SetDown(g, m, x, s) ==
  IF s = <<>> THEN {[map |-> Put(g, m, {x}), segs |-> s, taken |-> FALSE]}
  ELSE LaidDown(Put(g, m, {x}), m, x, s)

\* initworm, with n segments behind the head and a slot if there is one.
NewSegs(n) == IF GetWormno = 0 THEN <<>> ELSE [i \in 1 .. n + 1 |-> Unplaced]

FillSlot(no, s) == IF no = 0 THEN wsegs ELSE [wsegs EXCEPT ![no] = s]

-----------------------------------------------------------------------------
WormInit ==
  /\ monsters = [c \in Square |-> Nobody]
  /\ wsegs = [i \in Slot |-> <<>>]
  /\ monst = [m \in Creature |-> NoMonst]
  /\ muddled = FALSE

\* makemon: a long worm gets a slot and a tail, if one is free.
Born(m, x) ==
  /\ monst[m].there = "none" /\ Vacant(x)
  /\ \E long \in BOOLEAN, n \in TailLength :
       LET no == IF long THEN GetWormno ELSE 0 IN
       \E d \in SetDown(monsters, m, x, IF long THEN NewSegs(n) ELSE <<>>) :
         /\ monsters' = d.map /\ wsegs' = FillSlot(no, d.segs)
         /\ monst' = [monst EXCEPT ![m] = Monst("level", x, long, no, FALSE)]
  /\ UNCHANGED muddled

\* m_move and worm_move: the dummy becomes a segment, a new dummy goes under
\* the head, and the end of the tail follows unless it is time to grow.
Moves(m, x) ==
  /\ OnLevel(m) /\ <<monst[m].at, x>> \in Beside /\ Vacant(x)
  /\ LET no == monst[m].wormno
         headed == Put(Erase(monsters, {monst[m].at}), m, {x})
         filled == Put(headed, m, {Last(Segs(m))})
     IN  IF no = 0 THEN monsters' = headed /\ UNCHANGED wsegs
         ELSE \/ /\ Len(Segs(m)) < MaxSegs
                 /\ monsters' = filled /\ wsegs' = [wsegs EXCEPT ![no] = Append(@, x)]
              \/ /\ monsters' = Erase(filled, {Head(Segs(m))})
                 /\ wsegs' = [wsegs EXCEPT ![no] = Append(Tail(@), x)]
  /\ monst' = [monst EXCEPT ![m].at = x]
  /\ UNCHANGED muddled

Shrink_keepsPlace(no) ==      \* mutant: the segment stays on the map
  /\ Len(wsegs[no]) > 1
  /\ wsegs' = [wsegs EXCEPT ![no] = Tail(@)] /\ UNCHANGED monsters

\* shrink_worm
Shrink(no) ==
  /\ Len(wsegs[no]) > 1
  /\ wsegs' = [wsegs EXCEPT ![no] = Tail(@)]
  /\ monsters' = Erase(monsters, {Head(wsegs[no])})

\* worm_nomove
Rests(m) == Tailed(m) /\ Shrink(monst[m].wormno) /\ UNCHANGED <<monst, muddled>>

-----------------------------------------------------------------------------
(* cutworm: worm m is hit on its segment at x.                             *)

CutAt(m, x) == {k \in DOMAIN Segs(m) : Segs(m)[k] = x}
FirstCut(m, x) == CHOOSE k \in CutAt(m, x) : \A j \in CutAt(m, x) : k <= j
CutOff(m, x) == SubSeq(Segs(m), 1, FirstCut(m, x))
LeftOver(m, x) == SubSeq(Segs(m), FirstCut(m, x) + 1, Len(Segs(m)))

Hit(m, x) == Tailed(m) /\ monsters[x] = m /\ x # monst[m].at /\ CutAt(m, x) # {}

\* The last segment is just lost; else the part cut off may die.
Docked(m, x) ==
  /\ Hit(m, x)
  /\ IF FirstCut(m, x) = 1 THEN Shrink(monst[m].wormno)
     ELSE /\ wsegs' = [wsegs EXCEPT ![monst[m].wormno] = LeftOver(m, x)]
          /\ monsters' = Erase(monsters, ToSet(CutOff(m, x)))
  /\ UNCHANGED <<monst, muddled>>

Halved_sameSlot(m, n, x) ==      \* mutant: the clone keeps the number it was copied with
  /\ Hit(m, x) /\ FirstCut(m, x) > 1 /\ GetWormno # 0 /\ monst[n].there = "none"
  /\ \E replaced \in {monst[m].named, TRUE} :
     LET no == GetWormno
         cloned == Put(monsters, n, {x})
         drawn == IF replaced THEN Put(cloned, n, ToSet(Front(LeftOver(m, x)))) ELSE cloned
     IN  /\ monsters' = Put(drawn, n, ToSet(Front(CutOff(m, x))))
         /\ wsegs' = [wsegs EXCEPT ![monst[m].wormno] = LeftOver(m, x), ![no] = CutOff(m, x)]
         /\ monst' = [monst EXCEPT ![n] = [monst[m] EXCEPT !.at = x]]
         /\ muddled' = (muddled \/ (replaced /\ Len(LeftOver(m, x)) > 1))

\* Or it lives, as clone n.  The clone of a named worm or of a shopkeeper is
\* christened, that of a pet tamed and that of a minion given its extension,
\* while it still has the old worm's number: replmon puts it on the squares
\* that are left to the old worm.  Any worm may be a pet, and its clone turn
\* wild.
Halved(m, n, x) ==
  /\ Hit(m, x) /\ FirstCut(m, x) > 1 /\ GetWormno # 0 /\ monst[n].there = "none"
  /\ \E replaced \in {monst[m].named, TRUE} :
     LET no == GetWormno
         cloned == Put(monsters, n, {x})
         drawn == IF replaced THEN Put(cloned, n, ToSet(Front(LeftOver(m, x)))) ELSE cloned
     IN  /\ monsters' = Put(drawn, n, ToSet(Front(CutOff(m, x))))
         /\ wsegs' = [wsegs EXCEPT ![monst[m].wormno] = LeftOver(m, x), ![no] = CutOff(m, x)]
         /\ monst' = [monst EXCEPT ![n] = [monst[m] EXCEPT !.at = x, !.wormno = no]]
         /\ muddled' = (muddled \/ (replaced /\ Len(LeftOver(m, x)) > 1))

\* christen_monst, tamedog: a larger structure takes the monster's place
\* everywhere.
Replaced(m) ==
  /\ OnLevel(m)
  /\ monsters' = Put(monsters, m, Body(m))
  /\ \E named \in {monst[m].named, TRUE} : monst' = [monst EXCEPT ![m].named = named]
  /\ UNCHANGED <<wsegs, muddled>>

-----------------------------------------------------------------------------
(* Going, coming and changing.                                             *)

\* wormgone: the tail and the head go from the map, the slot is free.
Tailless(m) == FillSlot(monst[m].wormno, <<>>)
Gone(m) == Erase(monsters, Body(m))

\* m_detach
Killed(m) ==
  /\ OnLevel(m)
  /\ monsters' = Gone(m) /\ wsegs' = Tailless(m)
  /\ monst' = [monst EXCEPT ![m] = NoMonst]
  /\ UNCHANGED muddled

\* migrate_to_level, keepdogs: the number becomes the length of the tail,
\* "truncated to # segs = max wormno size".
Departs(m) ==
  /\ OnLevel(m)
  /\ monsters' = Gone(m) /\ wsegs' = Tailless(m)
  /\ LET n == IF monst[m].wormno = 0 THEN 0 ELSE Len(Segs(m)) - 1
         kept == IF n < MAX_NUM_WORMS - 1 THEN n ELSE MAX_NUM_WORMS - 1
     IN  monst' = [monst EXCEPT ![m] = [@ EXCEPT !.there = "away", !.at = 0, !.wormno = kept]]
  /\ UNCHANGED muddled

\* mon_arrive
Arrives(m, x) ==
  /\ monst[m].there = "away" /\ Vacant(x)
  /\ LET no == IF monst[m].long THEN GetWormno ELSE 0 IN
     \E d \in SetDown(monsters, m, x, IF no = 0 THEN <<>> ELSE NewSegs(monst[m].wormno)) :
       /\ monsters' = d.map /\ wsegs' = FillSlot(no, d.segs)
       /\ monst' = [monst EXCEPT ![m] = [@ EXCEPT !.there = "level", !.at = x, !.wormno = no]]
  /\ UNCHANGED muddled

\* newcham, out of a worm's shape or into it.
ChangesShape(m) ==
  /\ OnLevel(m)
  /\ LET no == IF monst[m].long THEN 0 ELSE GetWormno
         at == monst[m].at
     IN  /\ IF monst[m].long
            THEN monsters' = Put(Gone(m), m, {at}) /\ wsegs' = Tailless(m)
            ELSE \E n \in TailLength : \E d \in SetDown(monsters, m, at, NewSegs(n)) :
                   monsters' = d.map /\ wsegs' = FillSlot(no, d.segs)
         /\ monst' = [monst EXCEPT ![m] = [@ EXCEPT !.long = ~monst[m].long, !.wormno = no]]
  /\ UNCHANGED muddled

-----------------------------------------------------------------------------
(* Moving without walking.                                                 *)

OwnSegs(m) == IF monst[m].wormno = 0 THEN <<>> ELSE Segs(m)

\* rloc_to
Relocated(m, x) ==
  /\ OnLevel(m) /\ Vacant(x)
  /\ \E d \in SetDown(Gone(m), m, x, OwnSegs(m)) :
       /\ monsters' = d.map /\ wsegs' = FillSlot(monst[m].wormno, d.segs)
       /\ muddled' = (muddled \/ d.taken)
  /\ monst' = [monst EXCEPT ![m].at = x]

\* mnearto: m takes the square of another monster o, which goes beside it.
Ousts(m, o) ==
  /\ OnLevel(m) /\ OnLevel(o) /\ m # o
  /\ LET x == monst[o].at
         picked == Erase(Erase(monsters, Body(o)), Body(m))
     IN  \E d \in SetDown(picked, m, x, OwnSegs(m)), y \in Square :
           /\ <<x, y>> \in Beside /\ d.map[y] = Nobody
           /\ \E e \in SetDown(d.map, o, y, OwnSegs(o)) :
                /\ monsters' = e.map
                /\ wsegs' = [i \in Slot |-> IF i = monst[m].wormno THEN d.segs
                                            ELSE IF i = monst[o].wormno THEN e.segs ELSE wsegs[i]]
                /\ muddled' = (muddled \/ d.taken \/ e.taken)
           /\ monst' = [monst EXCEPT ![m].at = x, ![o].at = y]

\* Who stands on c or has a segment there.
Claims(c) == {m \in Creature : OnLevel(m) /\ c \in Body(m)}

\* The map is made anew from the list of monsters and their segments; who
\* comes later on the list takes a square that two of them claim.
SaveAndRestoreWorms ==
  /\ \E place \in Bijection(Creature, 1 .. Cardinality(Creature)) :
       monsters' = [c \in Square |->
         IF Claims(c) = {} THEN Nobody
         ELSE CHOOSE m \in Claims(c) : \A n \in Claims(c) : place[n] <= place[m]]
  /\ UNCHANGED <<wsegs, monst, muddled>>

-----------------------------------------------------------------------------
\* Bound: nobody moves any more once a tail is muddled.
WormStep ==
  \/ \E m \in Creature, x \in Square :
       Born(m, x) \/ Moves(m, x) \/ Docked(m, x) \/ Arrives(m, x) \/ Relocated(m, x)
  \/ \E m, n \in Creature, x \in Square : Halved(m, n, x)
  \/ \E m, o \in Creature : Ousts(m, o)
  \/ \E m \in Creature : Rests(m) \/ Replaced(m) \/ Killed(m) \/ Departs(m) \/ ChangesShape(m)

WormNext == (~muddled /\ WormStep) \/ SaveAndRestoreWorms

WormSpec == WormInit /\ [][WormNext]_wormVars

-----------------------------------------------------------------------------
(* Properties.                                                             *)

WormTypeOK ==
  /\ monsters \in [Square -> Creature \cup {Nobody}]
  /\ wsegs \in [Slot -> Seq(Square)] /\ \A i \in Slot : Len(wsegs[i]) <= MaxSegs
  /\ monst \in [Creature -> [there : {"none", "level", "away"}, at : Square \cup {0},
                             long : BOOLEAN, wormno : 0 .. MAX_NUM_WORMS - 1, named : BOOLEAN]]
  /\ muddled \in BOOLEAN

\* Every list belongs to one worm that is on the level and every number to a
\* list: no slot is lost, shared or found again by another worm; the list ends
\* under the head, and each segment lies beside the next.
TailsWhole ==
  /\ \A i \in Slot : Cardinality({m \in Creature : Tailed(m) /\ monst[m].wormno = i}) =
                       IF wsegs[i] = <<>> THEN 0 ELSE 1
  /\ \A m \in Creature : Tailed(m) =>
       /\ monst[m].long /\ Last(Segs(m)) = monst[m].at
       /\ \A k \in 1 .. Len(Segs(m)) - 1 : <<Segs(m)[k + 1], Segs(m)[k]>> \in Beside

\* "Their position in the levels.monsters[][] array is held by the monst struct
\* of the head of the worm" (worm.c): whoever stands on a square is on the map
\* there, worms with their whole length, and nobody else is.
MapTrue == \A c \in Square, m \in Creature : monsters[c] = m <=> OnLevel(m) /\ c \in Body(m)

\* The same, as long as no tail was tossed that somebody had come to stand in
\* and no clone of a worm with a tail left was replaced, being named or tame.
MapKept == ~muddled => MapTrue
=============================================================================
