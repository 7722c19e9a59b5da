------------------------- MODULE LevelThingsProofs -------------------------
(***************************************************************************)
(* What holds of long worms (worm.c), on a level of any shape with any     *)
(* number of monsters, slots and segments; and of timers and light sources *)
(* (timeout.c, light.c), for any objects, any number of levels and any     *)
(* length of game.                                                         *)
(*                                                                         *)
(* Worms.  Every action lifts, changes or sets down one monster, or two,   *)
(* or a worm and its clone, one after the other; so the lemmas speak of a  *)
(* map g, lists ws and records ms of monsters, not of the variables, and a *)
(* step that changes two monsters is two such changes in a row.            *)
(*                                                                         *)
(* Timers and lights.  The calls that make up a step (start_timer,         *)
(* stop_timer, new_light_source, ...) are operators on a world w of        *)
(* queues, lights and objects; a lemma for each says what becomes of the   *)
(* object it is called for, and that it does not touch any other.          *)
(***************************************************************************)
EXTENDS LevelThings, SequenceTheorems, FiniteSetTheorems, WellFoundedInduction, TLAPS

Rec == [there : {"none", "level", "away"}, at : Square \cup {0},
        long : BOOLEAN, wormno : 0 .. MAX_NUM_WORMS - 1, named : BOOLEAN]

MapSet == [Square -> Creature \cup {Nobody}]

SegsSet == [Slot -> Seq(Square)]

\* The slot a monster has.
SlotOf(r) == IF r.there = "level" THEN r.wormno ELSE 0

\* The squares a monster takes, given everybody's segments.
Takes(ws, r) ==
  IF r.there # "level" THEN {}
  ELSE {r.at} \cup IF r.wormno = 0 THEN {} ELSE ToSet(ws[r.wormno])

\* A tail that ends under a head at x.
Lying(q, x) ==
  /\ q # <<>> /\ Last(q) = x
  /\ \A k \in 1 .. Len(q) - 1 : <<q[k + 1], q[k]>> \in Beside
  /\ \A j, k \in DOMAIN q : q[j] = q[k] => j = k

\* Slots and lists belong to one another, one to one, and to worms on the
\* level; every list lies under its head and crosses no square twice.  That
\* last part is what makes a list survive cutworm, which looks for the first
\* segment on a square, and worm_move, which clears the square of the last one.
Whole(ws, ms) ==
  /\ \A m \in Creature : ms[m].there = "level" => ms[m].at \in Square
  /\ \A m \in Creature :
       SlotOf(ms[m]) # 0 => ms[m].long /\ Lying(ws[SlotOf(ms[m])], ms[m].at)
  /\ \A m, n \in Creature : SlotOf(ms[m]) # 0 /\ SlotOf(ms[m]) = SlotOf(ms[n]) => m = n
  /\ \A i \in Slot : ws[i] # <<>> => \E m \in Creature : SlotOf(ms[m]) = i

\* The map shows exactly the squares that are taken.
Shown(g, ws, ms) ==
  \A c \in Square, m \in Creature : g[c] = m <=> c \in Takes(ws, ms[m])

\* The inductive invariant: a worm that is away brings back no more segments
\* than a list may have, everything is whole, and the map is right until a
\* tail is muddled.
WormInv ==
  /\ WormTypeOK
  /\ \A m \in Creature : monst[m].there = "away" => monst[m].wormno < MaxSegs
  /\ Whole(wsegs, monst)
  /\ ~muddled => Shown(monsters, wsegs, monst)

-----------------------------------------------------------------------------
\* A slot that is had is one of the level's.
LEMMA SlotType ==
  ASSUME NEW r \in Rec
  PROVE  SlotOf(r) \in 0 .. MAX_NUM_WORMS - 1 /\ (SlotOf(r) # 0 => SlotOf(r) \in Slot)
  BY WormAssumption DEF SlotOf, Rec, Slot

\* When one monster changes, and no list but those in its old and its new
\* slot, the new one having been its own or free, nobody else is touched.
LEMMA OthersKeep ==
  ASSUME NEW m \in Creature, NEW ws \in SegsSet, NEW ws2 \in SegsSet,
         NEW ms \in [Creature -> Rec], NEW ms2 \in [Creature -> Rec],
         Whole(ws, ms),
         \A n \in Creature : n # m => ms2[n] = ms[n],
         \A i \in Slot : i # SlotOf(ms[m]) /\ i # SlotOf(ms2[m]) => ws2[i] = ws[i],
         SlotOf(ms2[m]) # 0 => SlotOf(ms2[m]) = SlotOf(ms[m]) \/ ws[SlotOf(ms2[m])] = <<>>,
         NEW n \in Creature, n # m
  PROVE  /\ Takes(ws2, ms2[n]) = Takes(ws, ms[n])
         /\ SlotOf(ms2[n]) = SlotOf(ms[n])
         /\ SlotOf(ms[n]) # 0 => /\ ws2[SlotOf(ms[n])] = ws[SlotOf(ms[n])]
                                 /\ SlotOf(ms[n]) # SlotOf(ms[m]) /\ SlotOf(ms[n]) # SlotOf(ms2[m])
<1>1. ms2[n] = ms[n]
  OBVIOUS
<1>2. ms[n] \in Rec
  OBVIOUS
<1>3. CASE SlotOf(ms[n]) = 0
  BY <1>1, <1>3 DEF Takes, SlotOf
<1>4. CASE SlotOf(ms[n]) # 0
  <2>1. SlotOf(ms[n]) \in Slot
    BY <1>2, <1>4, SlotType
  <2>2. SlotOf(ms[n]) # SlotOf(ms[m])
    BY <1>4 DEF Whole
  <2>3. ws[SlotOf(ms[n])] # <<>>
    BY <1>4 DEF Whole, Lying
  <2>4. SlotOf(ms[n]) # SlotOf(ms2[m])
    BY <2>2, <2>3, <1>4
  <2>5. ws2[SlotOf(ms[n])] = ws[SlotOf(ms[n])]
    BY <2>1, <2>2, <2>4
  <2>6. ms[n].there = "level" /\ SlotOf(ms[n]) = ms[n].wormno
    BY <1>4 DEF SlotOf
  <2> QED
    BY <1>1, <2>2, <2>4, <2>5, <2>6 DEF Takes
<1> QED
  BY <1>3, <1>4

\* One monster changes, its slot with it.
LEMMA OneChanges ==
  ASSUME NEW m \in Creature, NEW ws \in SegsSet, NEW ws2 \in SegsSet,
         NEW ms \in [Creature -> Rec], NEW ms2 \in [Creature -> Rec],
         Whole(ws, ms),
         \A n \in Creature : n # m => ms2[n] = ms[n],
         \A i \in Slot : i # SlotOf(ms[m]) /\ i # SlotOf(ms2[m]) => ws2[i] = ws[i],
         SlotOf(ms[m]) # 0 /\ SlotOf(ms[m]) # SlotOf(ms2[m]) => ws2[SlotOf(ms[m])] = <<>>,
         ms2[m].there = "level" => ms2[m].at \in Square,
         SlotOf(ms2[m]) # 0 =>
           /\ SlotOf(ms2[m]) = SlotOf(ms[m]) \/ ws[SlotOf(ms2[m])] = <<>>
           /\ ms2[m].long /\ Lying(ws2[SlotOf(ms2[m])], ms2[m].at)
  PROVE  Whole(ws2, ms2)
<1>1. \A n \in Creature : n # m =>
        /\ SlotOf(ms2[n]) = SlotOf(ms[n])
        /\ SlotOf(ms[n]) # 0 => /\ ws2[SlotOf(ms[n])] = ws[SlotOf(ms[n])]
                                /\ SlotOf(ms[n]) # SlotOf(ms[m]) /\ SlotOf(ms[n]) # SlotOf(ms2[m])
  BY OthersKeep
<1>2. \A n \in Creature : ms2[n].there = "level" => ms2[n].at \in Square
  BY DEF Whole
<1>3. ASSUME NEW n \in Creature, SlotOf(ms2[n]) # 0
      PROVE  ms2[n].long /\ Lying(ws2[SlotOf(ms2[n])], ms2[n].at)
  <2>1. CASE n = m
    BY <1>3, <2>1
  <2>2. CASE n # m
    <3>1. ms2[n] = ms[n] /\ SlotOf(ms[n]) # 0 /\ ws2[SlotOf(ms[n])] = ws[SlotOf(ms[n])]
      BY <1>1, <1>3, <2>2
    <3> QED
      BY <3>1 DEF Whole
  <2> QED
    BY <2>1, <2>2
<1>4. ASSUME NEW n \in Creature, NEW o \in Creature, SlotOf(ms2[n]) # 0, SlotOf(ms2[n]) = SlotOf(ms2[o])
      PROVE  n = o
  <2>1. CASE n # m /\ o # m
    <3>1. SlotOf(ms[n]) # 0 /\ SlotOf(ms[n]) = SlotOf(ms[o])
      BY <1>1, <1>4, <2>1
    <3> QED
      BY <3>1 DEF Whole
  <2>2. CASE n = m \/ o = m
    BY <1>1, <1>4, <2>2
  <2> QED
    BY <2>1, <2>2
<1>5. ASSUME NEW i \in Slot, ws2[i] # <<>>
      PROVE  \E n \in Creature : SlotOf(ms2[n]) = i
  <2>1. CASE i = SlotOf(ms2[m])
    BY <2>1
  <2>2. CASE i # SlotOf(ms2[m])
    <3>1. i # 0
      BY DEF Slot
    <3>2. i # SlotOf(ms[m])
      BY <1>5, <2>2, <3>1
    <3>3. ws[i] # <<>>
      BY <1>5, <2>2, <3>2
    <3>4. PICK n \in Creature : SlotOf(ms[n]) = i
      BY <3>3 DEF Whole
    <3> QED
      BY <1>1, <3>2, <3>4
  <2> QED
    BY <2>1, <2>2
<1> QED
  BY <1>2, <1>3, <1>4, <1>5 DEF Whole

\* And the map stays right if it is changed where that monster was or is now,
\* and it comes only where nobody stood.
LEMMA MapFollows ==
  ASSUME NEW m \in Creature, NEW ws, NEW ws2, NEW ms, NEW ms2,
         NEW g \in MapSet, NEW g2,
         Shown(g, ws, ms),
         \A n \in Creature : n # m => Takes(ws2, ms2[n]) = Takes(ws, ms[n]),
         \A c \in Square :
           /\ c \in Takes(ws2, ms2[m]) => g2[c] = m /\ g[c] \in {m, Nobody}
           /\ c \notin Takes(ws2, ms2[m]) => g2[c] = IF g[c] = m THEN Nobody ELSE g[c]
  PROVE  Shown(g2, ws2, ms2)
<1> SUFFICES ASSUME NEW c \in Square, NEW n \in Creature
             PROVE  g2[c] = n <=> c \in Takes(ws2, ms2[n])
  BY DEF Shown
<1>1. Nobody \notin Creature
  BY WormAssumption
<1>2. g[c] = n <=> c \in Takes(ws, ms[n])
  BY DEF Shown
<1>3. CASE n = m
  BY <1>1, <1>3
<1>4. CASE n # m
  BY <1>1, <1>2, <1>4
<1> QED
  BY <1>3, <1>4
-----------------------------------------------------------------------------
\* What a sequence holds.
LEMMA ToSetOf ==
  ASSUME NEW S, NEW s \in Seq(S)
  PROVE  /\ ToSet(s) \subseteq S
         /\ \A c : c \in ToSet(s) <=> \E i \in 1 .. Len(s) : s[i] = c
  BY LenProperties, ElementOfSeq DEF ToSet

\* A part of a tail is a tail.
LEMMA PartOfTail ==
  ASSUME NEW q \in Seq(Square), NEW x, Lying(q, x),
         NEW i \in 1 .. Len(q), NEW j \in i .. Len(q)
  PROVE  /\ SubSeq(q, i, j) \in Seq(Square)
         /\ Lying(SubSeq(q, i, j), q[j])
         /\ Len(SubSeq(q, i, j)) = j - i + 1
         /\ \A c : c \in ToSet(SubSeq(q, i, j)) <=> \E n \in i .. j : q[n] = c
<1> DEFINE r == SubSeq(q, i, j)
<1>0. Len(q) \in Nat /\ i \in Nat /\ j \in Nat /\ i <= j /\ j <= Len(q) /\ 1 <= i /\ DOMAIN q = 1 .. Len(q)
  BY LenProperties
<1>1. \A n \in i .. j : q[n] \in Square
  BY <1>0, ElementOfSeq
<1>2. /\ r \in Seq(Square)
      /\ Len(r) = j - i + 1
      /\ \A n \in 1 .. j - i + 1 : r[n] = q[i + n - 1]
  BY <1>0, <1>1, SubSeqProperties
<1> HIDE DEF r
<1>3. DOMAIN r = 1 .. j - i + 1
  BY <1>2, LenProperties
<1>4. r # <<>> /\ Last(r) = q[j]
  <2>1. r[j - i + 1] = q[j]
    BY <1>0, <1>2
  <2> QED
    BY <1>0, <1>2, <2>1 DEF Last
<1>5. ASSUME NEW k \in 1 .. Len(r) - 1
      PROVE  <<r[k + 1], r[k]>> \in Beside
  <2>1. r[k] = q[i + k - 1] /\ r[k + 1] = q[i + k] /\ i + k - 1 \in 1 .. Len(q) - 1
    BY <1>0, <1>2
  <2>2. <<q[(i + k - 1) + 1], q[i + k - 1]>> \in Beside
    BY <2>1 DEF Lying
  <2>3. (i + k - 1) + 1 = i + k
    BY <1>0
  <2> QED
    BY <2>1, <2>2, <2>3
<1>6. ASSUME NEW a \in DOMAIN r, NEW b \in DOMAIN r, r[a] = r[b]
      PROVE  a = b
  <2>1. r[a] = q[i + a - 1] /\ r[b] = q[i + b - 1] /\ i + a - 1 \in DOMAIN q /\ i + b - 1 \in DOMAIN q
    BY <1>0, <1>2, <1>3
  <2>2. i + a - 1 = i + b - 1
    BY <1>6, <2>1 DEF Lying
  <2> QED
    BY <1>0, <1>3, <2>2
<1>7. ASSUME NEW c
      PROVE  c \in ToSet(r) <=> \E n \in i .. j : q[n] = c
  <2>1. c \in ToSet(r) <=> \E a \in 1 .. j - i + 1 : r[a] = c
    BY <1>2, ToSetOf
  <2>2. ASSUME NEW n \in i .. j
        PROVE  n - i + 1 \in 1 .. j - i + 1 /\ r[n - i + 1] = q[n]
    BY <1>0, <1>2
  <2>3. ASSUME NEW a \in 1 .. j - i + 1
        PROVE  i + a - 1 \in i .. j /\ r[a] = q[i + a - 1]
    BY <1>0, <1>2
  <2> QED
    BY <2>1, <2>2, <2>3
<1> QED
  BY <1>2, <1>4, <1>5, <1>6, <1>7 DEF Lying, r

\* A tail whose worm moves on.
\* A tail under a head that moves to a free square beside it is a tail.
LEMMA TailGrows ==
  ASSUME NEW q \in Seq(Square), NEW a \in Square, NEW x \in Square, Lying(q, a),
         <<a, x>> \in Beside, x \notin ToSet(q)
  PROVE  /\ Append(q, x) \in Seq(Square)
         /\ Lying(Append(q, x), x)
         /\ Len(Append(q, x)) = Len(q) + 1
         /\ \A c : c \in ToSet(Append(q, x)) <=> c \in ToSet(q) \/ c = x
<1> DEFINE r == Append(q, x)
<1>0. Len(q) \in Nat /\ DOMAIN q = 1 .. Len(q)
  BY LenProperties
<1>1. /\ r \in Seq(Square) /\ r # <<>> /\ Len(r) = Len(q) + 1
      /\ \A i \in 1 .. Len(q) : r[i] = q[i]
      /\ r[Len(q) + 1] = x
  BY AppendProperties
<1> HIDE DEF r
<1>2. DOMAIN r = 1 .. Len(q) + 1
  BY <1>1, LenProperties
<1>3. <<x, a>> \in Beside
  BY WormAssumption, <<a, x>> \in Beside
<1>4. ASSUME NEW k \in 1 .. Len(r) - 1
      PROVE  <<r[k + 1], r[k]>> \in Beside
  <2>0. Len(r) - 1 = Len(q) /\ k \in 1 .. Len(q)
    BY <1>0, <1>1
  <2>1. CASE k = Len(q)
    <3>1. Len(q) \in 1 .. Len(q) /\ q[Len(q)] = a
      BY <1>0, <1>1, <2>1 DEF Lying, Last
    <3>2. r[k] = a /\ r[k + 1] = x
      BY <1>1, <2>1, <3>1
    <3> QED
      BY <1>3, <3>2
  <2>2. CASE k # Len(q)
    <3>1. k \in 1 .. Len(q) - 1 /\ k + 1 \in 1 .. Len(q)
      <4>1. Len(q) \in Int /\ k \in Int /\ 1 <= k /\ k <= Len(q)
        BY <1>0, <2>0
      <4> QED
        BY <2>2, <4>1
    <3> QED
      BY <1>0, <1>1, <3>1 DEF Lying
  <2> QED
    BY <2>1, <2>2
<1>5. \A i \in 1 .. Len(q) : q[i] # x
  BY ToSetOf
<1>6. ASSUME NEW j \in DOMAIN r, NEW k \in DOMAIN r, r[j] = r[k]
      PROVE  j = k
  <2>1. CASE j \in 1 .. Len(q) /\ k \in 1 .. Len(q)
    BY <1>0, <1>1, <1>6, <2>1 DEF Lying
  <2>2. CASE ~(j \in 1 .. Len(q) /\ k \in 1 .. Len(q))
    BY <1>0, <1>1, <1>2, <1>5, <1>6, <2>2
  <2> QED
    BY <2>1, <2>2
<1>7. ASSUME NEW c
      PROVE  c \in ToSet(r) <=> c \in ToSet(q) \/ c = x
  <2>1. /\ c \in ToSet(r) <=> \E i \in 1 .. Len(q) + 1 : r[i] = c
        /\ c \in ToSet(q) <=> \E i \in 1 .. Len(q) : q[i] = c
    BY <1>1, ToSetOf
  <2> QED
    BY <1>0, <1>1, <2>1
<1>8. Last(r) = x
  BY <1>1 DEF Last
<1> QED
  BY <1>1, <1>4, <1>6, <1>7, <1>8 DEF Lying, r

\* A tail that is laid down along p.
\* A trail found by place_worm_tail_randomly, turned round, is a tail under
\* the head, over squares that were free.
LEMMA Trailed ==
  ASSUME NEW g \in MapSet, NEW x \in Square, NEW n \in Nat, NEW p \in Trails(g, x, n), g[x] # Nobody
  PROVE  /\ p \in Seq(Square) /\ Len(p) <= n
         /\ \A c \in ToSet(p) : c \in Square /\ c # x /\ g[c] = Nobody
         /\ Reverse(p) \o <<x>> \in Seq(Square)
         /\ Lying(Reverse(p) \o <<x>>, x)
         /\ Len(Reverse(p) \o <<x>>) = Len(p) + 1
         /\ \A c : c \in ToSet(Reverse(p) \o <<x>>) <=> c \in ToSet(p) \/ c = x
<1> DEFINE v == Reverse(p)
           r == v \o <<x>>
<1>1. PICK k \in 0 .. n : p \in [1 .. k -> Square]
  BY DEF Trails
<1>2. p \in Seq(Square) /\ Len(p) = k /\ DOMAIN p = 1 .. k
  <2>1. p \in Seq(Square)
    BY <1>1, SeqDef
  <2>2. DOMAIN p = 1 .. k /\ DOMAIN p = 1 .. Len(p) /\ Len(p) \in Nat
    BY <1>1, <2>1, LenProperties
  <2> QED
    BY <2>1, <2>2
<1>3. \A i \in 1 .. k : /\ p[i] \in Square /\ g[p[i]] = Nobody
                        /\ <<IF i = 1 THEN x ELSE p[i - 1], p[i]>> \in Beside
                        /\ \A j \in 1 .. i - 1 : p[j] # p[i]
  BY <1>1, <1>2 DEF Trails
<1>4. \A c \in ToSet(p) : c \in Square /\ c # x /\ g[c] = Nobody
  <2> TAKE c \in ToSet(p)
  <2>1. PICK i \in 1 .. k : p[i] = c
    BY <1>2, ToSetOf
  <2> QED
    BY <1>3, <2>1
<1>5. v \in Seq(Square) /\ Len(v) = k /\ \A i \in 1 .. k : v[i] = p[k - i + 1]
  <2>1. v = [i \in 1 .. k |-> p[(k - i) + 1]]
    BY <1>2 DEF Reverse
  <2>2. v \in [1 .. k -> Square]
    <3>1. \A i \in 1 .. k : (k - i) + 1 \in 1 .. k
      OBVIOUS
    <3> QED
      BY <1>3, <2>1, <3>1
  <2>3. v \in Seq(Square)
    BY <2>2, SeqDef
  <2>4. DOMAIN v = 1 .. k /\ DOMAIN v = 1 .. Len(v) /\ Len(v) \in Nat
    BY <2>2, <2>3, LenProperties
  <2> QED
    BY <2>1, <2>3, <2>4
<1> HIDE DEF v
<1>6. r \in Seq(Square) /\ Len(r) = k + 1 /\ r[k + 1] = x /\ \A i \in 1 .. k : r[i] = p[k - i + 1]
  <2>1. <<x>> \in Seq(Square) /\ Len(<<x>>) = 1 /\ <<x>>[1] = x
    OBVIOUS
  <2> DEFINE one == <<x>>
  <2> HIDE DEF one
  <2>2. /\ v \o one \in Seq(Square)
        /\ Len(v \o one) = Len(v) + Len(one)
        /\ \A i \in 1 .. Len(v) + Len(one) : (v \o one)[i] = IF i <= Len(v) THEN v[i] ELSE one[i - Len(v)]
    BY <1>5, <2>1, ConcatProperties DEF one
  <2> QED
    BY <1>5, <2>1, <2>2 DEF one
<1> HIDE DEF r
<1>7. DOMAIN r = 1 .. k + 1
  BY <1>6, LenProperties
<1>8. ASSUME NEW i \in 1 .. Len(r) - 1
      PROVE  <<r[i + 1], r[i]>> \in Beside
  <2> DEFINE j == k - i + 1
  <2>1. i \in 1 .. k /\ j \in 1 .. k /\ r[i] = p[j]
    BY <1>6
  <2>2. r[i + 1] = IF j = 1 THEN x ELSE p[j - 1]
    <3>1. CASE i = k
      BY <1>6, <3>1
    <3>2. CASE i # k
      <4>1. i + 1 \in 1 .. k /\ j # 1 /\ k - (i + 1) + 1 = j - 1
        BY <2>1, <3>2
      <4> QED
        BY <1>6, <4>1
    <3> QED
      BY <3>1, <3>2
  <2> QED
    BY <1>3, <2>1, <2>2
<1>9. ASSUME NEW i \in DOMAIN r, NEW j \in DOMAIN r, i < j
      PROVE  r[i] # r[j]
  <2>1. i \in 1 .. k /\ k - i + 1 \in 1 .. k /\ r[i] = p[k - i + 1]
    BY <1>6, <1>7, <1>9
  <2>2. CASE j = k + 1
    BY <1>2, <1>4, <1>6, <2>1, <2>2, ToSetOf
  <2>3. CASE j # k + 1
    <3>1. j \in 1 .. k /\ k - j + 1 \in 1 .. (k - i + 1) - 1
      BY <1>7, <1>9, <2>1, <2>3
    <3>2. r[j] = p[k - j + 1]
      BY <1>6, <3>1
    <3> QED
      BY <1>3, <2>1, <3>1, <3>2
  <2> QED
    BY <2>2, <2>3
<1>10. \A i, j \in DOMAIN r : r[i] = r[j] => i = j
  <2> SUFFICES ASSUME NEW i \in DOMAIN r, NEW j \in DOMAIN r, i # j PROVE r[i] # r[j]
    OBVIOUS
  <2>1. i < j \/ j < i
    BY <1>7
  <2> QED
    BY <1>9, <2>1
<1>11. ASSUME NEW c
       PROVE  c \in ToSet(r) <=> c \in ToSet(p) \/ c = x
  <2>a. r \in Seq(Square) /\ Len(r) = k + 1 /\ p \in Seq(Square) /\ Len(p) = k
    BY <1>2, <1>6
  <2>b. c \in ToSet(r) <=> \E i \in 1 .. k + 1 : r[i] = c
    BY <2>a, ToSetOf
  <2>c. c \in ToSet(p) <=> \E i \in 1 .. k : p[i] = c
    BY <2>a, ToSetOf
  <2>1. /\ c \in ToSet(r) <=> \E i \in 1 .. k + 1 : r[i] = c
        /\ c \in ToSet(p) <=> \E i \in 1 .. k : p[i] = c
    BY <2>b, <2>c
  <2>2. ASSUME NEW i \in 1 .. k PROVE k - i + 1 \in 1 .. k /\ r[k - i + 1] = p[i]
    <3>1. k - i + 1 \in 1 .. k /\ k - (k - i + 1) + 1 = i
      OBVIOUS
    <3> QED
      BY <1>6, <3>1
  <2>3. ASSUME NEW i \in 1 .. k PROVE k - i + 1 \in 1 .. k /\ r[i] = p[k - i + 1]
    BY <1>6
  <2>4. \A i \in 1 .. k + 1 : i = k + 1 \/ i \in 1 .. k
    OBVIOUS
  <2> QED
    BY <1>6, <2>1, <2>2, <2>3, <2>4
<1>12. r # <<>> /\ Last(r) = x
  BY <1>6 DEF Last
<1> QED
  BY <1>1, <1>2, <1>4, <1>6, <1>8, <1>10, <1>11, <1>12 DEF Lying, r, v
-----------------------------------------------------------------------------
\* What rloc_to and initworm lay down is a tail under x over free squares,
\* and the map shows it unless something tossed had been taken.
LEMMA TailPlaced ==
  ASSUME NEW g \in MapSet, NEW m \in Creature, NEW x \in Square,
         NEW s \in Seq(Square \cup {0}), NEW d \in SetDown(g, m, x, s)
  PROVE  /\ d.segs \in Seq(Square) /\ Len(d.segs) <= Len(s)
         /\ s = <<>> => d.segs = <<>>
         /\ s # <<>> => Lying(d.segs, x)
         /\ d.map \in MapSet /\ d.taken \in BOOLEAN
         /\ (\A i \in 1 .. Len(s) : s[i] = 0) => ~d.taken
         /\ \A c \in ToSet(d.segs) : c = x \/ g[c] = Nobody
         /\ ~d.taken => \A c \in Square :
              d.map[c] = IF c = x \/ c \in ToSet(d.segs) THEN m ELSE g[c]
<1> DEFINE g1 == Put(g, m, {x})
<1>0. Nobody \notin Creature /\ 0 \notin Square
  BY WormAssumption
<1>1. g1 \in MapSet /\ \A c \in Square : g1[c] = IF c = x THEN m ELSE g[c]
  BY DEF Put, MapSet
<1> HIDE DEF g1
<1>2. CASE s = <<>>
  <2>1. d.map = g1 /\ d.segs = <<>> /\ d.taken = FALSE
    BY <1>2 DEF SetDown, g1
  <2>2. ToSet(<<>>) = {} /\ <<>> \in Seq(Square) /\ Len(<<>>) <= Len(s)
    BY <1>2 DEF ToSet
  <2> QED
    BY <1>1, <1>2, <2>1, <2>2
<1>3. CASE s # <<>>
  <2>0. Len(s) \in Nat \ {0}
    BY <1>3, EmptySeq
  <2>1. PICK p \in Trails(g1, x, Len(s) - 1) :
          d = LET lain == Put(g1, m, ToSet(p))
                  rest == {s[i] : i \in Len(p) + 2 .. Len(s)} \cap Square
              IN  [map |-> Erase(lain, rest), segs |-> Reverse(p) \o <<x>>,
                   taken |-> \E c \in rest : lain[c] # Nobody]
    BY <1>3 DEF SetDown, LaidDown, g1
  <2> DEFINE lain == Put(g1, m, ToSet(p))
             rest == {s[i] : i \in Len(p) + 2 .. Len(s)} \cap Square
             q == Reverse(p) \o <<x>>
  <2>2. d.map = Erase(lain, rest) /\ d.segs = q /\ d.taken = (\E c \in rest : lain[c] # Nobody)
    BY <2>1
  <2>3. /\ p \in Seq(Square) /\ Len(p) <= Len(s) - 1
        /\ \A c \in ToSet(p) : c \in Square /\ c # x /\ g1[c] = Nobody
        /\ q \in Seq(Square) /\ Lying(q, x) /\ Len(q) = Len(p) + 1
        /\ \A c : c \in ToSet(q) <=> c \in ToSet(p) \/ c = x
    <3>1. g1[x] # Nobody /\ Len(s) - 1 \in Nat
      BY <1>0, <1>1, <2>0
    <3> QED
      BY <1>1, <3>1, Trailed
  <2>4. lain \in MapSet /\ \A c \in Square : lain[c] = IF c \in ToSet(p) THEN m ELSE g1[c]
    BY <1>1 DEF Put, MapSet
  <2>5. /\ Erase(lain, rest) \in MapSet
        /\ \A c \in Square : Erase(lain, rest)[c] = IF c \in rest THEN Nobody ELSE lain[c]
    BY <2>4 DEF Erase, MapSet
  <2>6. ASSUME \A i \in 1 .. Len(s) : s[i] = 0
        PROVE  rest = {}
    <3>1. \A i \in Len(p) + 2 .. Len(s) : i \in 1 .. Len(s)
      BY <2>0, <2>3, LenProperties
    <3> QED
      BY <1>0, <2>6, <3>1
  <2> HIDE DEF lain, rest, q
  <2>7. Len(q) <= Len(s)
    <3>1. Len(p) \in Nat
      BY <2>3, LenProperties
    <3> QED
      BY <2>0, <2>3, <3>1
  <2>8. \A c \in ToSet(q) : c = x \/ g[c] = Nobody
    BY <1>1, <2>3
  <2>9. ASSUME ~d.taken, NEW c \in Square
        PROVE  d.map[c] = IF c = x \/ c \in ToSet(q) THEN m ELSE g[c]
    <3>1. d.map[c] = lain[c]
      BY <2>2, <2>5, <2>9
    <3> QED
      BY <1>1, <2>3, <2>4, <3>1
  <2>10. d.taken \in BOOLEAN
    BY <2>2
  <2> QED
    BY <1>3, <2>2, <2>3, <2>5, <2>6, <2>7, <2>8, <2>9, <2>10
<1> QED
  BY <1>2, <1>3

\* A set of numbers that is not empty has a least element.
LEMMA Least ==
  ASSUME NEW T, T \subseteq Nat, T # {}
  PROVE  \E x \in T : \A y \in T : x <= y
<1>1. PICK x \in T : \A y \in T : ~(<<y, x>> \in OpToRel(<, Nat))
  BY NatLessThanWellFounded, WFMin
<1>2. \A y \in T : x <= y
  <2> TAKE y \in T
  <2>1. ~(y < x)
    BY <1>1 DEF OpToRel
  <2> QED
    BY <2>1
<1> QED
  BY <1>2

\* get_wormno returns a free slot, or 0.
LEMMA FreeSlot ==
  /\ GetWormno # 0 => GetWormno \in Slot /\ wsegs[GetWormno] = <<>>
  /\ GetWormno \in 0 .. MAX_NUM_WORMS - 1
<1> DEFINE free == {i \in Slot : wsegs[i] = <<>>}
<1>1. CASE free = {}
  BY <1>1, WormAssumption DEF GetWormno
<1>2. CASE free # {}
  <2>1. free \subseteq Nat /\ \A i \in Slot : i \in 0 .. MAX_NUM_WORMS - 1 /\ i # 0
    BY WormAssumption DEF Slot
  <2> HIDE DEF free
  <2>2. \E i \in free : \A j \in free : i <= j
    BY <1>2, <2>1, Least
  <2>3. (CHOOSE i \in free : \A j \in free : i <= j) \in free
    BY <2>2
  <2>4. GetWormno \in free
    BY <1>2, <2>3 DEF GetWormno, free
  <2> QED
    BY <2>1, <2>4 DEF free
<1> QED
  BY <1>1, <1>2

\* The list of a new worm: n segments and the dummy, nowhere yet.
LEMMA NewTail ==
  ASSUME NEW n \in Nat
  PROVE  /\ NewSegs(n) \in Seq(Square \cup {0})
         /\ GetWormno = 0 => NewSegs(n) = <<>>
         /\ GetWormno # 0 => NewSegs(n) # <<>> /\ Len(NewSegs(n)) = n + 1
         /\ \A i \in 1 .. Len(NewSegs(n)) : NewSegs(n)[i] = 0
<1>1. CASE GetWormno = 0
  BY <1>1 DEF NewSegs
<1>2. CASE GetWormno # 0
  <2> DEFINE s == [i \in 1 .. n + 1 |-> 0]
  <2>1. s \in [1 .. n + 1 -> Square \cup {0}]
    OBVIOUS
  <2>2. s \in Seq(Square \cup {0})
    BY <2>1, SeqDef
  <2>3. DOMAIN s = 1 .. n + 1 /\ DOMAIN s = 1 .. Len(s) /\ Len(s) \in Nat
    BY <2>2, LenProperties
  <2>4. Len(s) = n + 1
    BY <2>3
  <2>5. NewSegs(n) = s
    BY <1>2 DEF NewSegs, Unplaced
  <2>6. s # <<>>
    BY <2>4
  <2> QED
    BY <1>2, <2>2, <2>4, <2>5, <2>6
<1> QED
  BY <1>1, <1>2

\* Filling a slot changes that slot, and slot 0 changes nothing.
LEMMA SlotFilled ==
  ASSUME wsegs \in SegsSet, NEW no \in 0 .. MAX_NUM_WORMS - 1, NEW s \in Seq(Square)
  PROVE  /\ FillSlot(no, s) \in SegsSet
         /\ no = 0 => FillSlot(no, s) = wsegs
         /\ no # 0 => no \in Slot
         /\ \A i \in Slot : FillSlot(no, s)[i] = IF i = no THEN s ELSE wsegs[i]
<1>1. no # 0 => no \in Slot
  BY WormAssumption DEF Slot
<1>2. 0 \notin Slot
  BY DEF Slot
<1> QED
  BY <1>1, <1>2 DEF FillSlot, SegsSet
-----------------------------------------------------------------------------
\* The two lemmas above as a step: one monster becomes r.
LEMMA OneMonster ==
  ASSUME WormInv, ~muddled, NEW m \in Creature, NEW r \in Rec,
         monst' = [monst EXCEPT ![m] = r],
         wsegs' \in SegsSet, monsters' \in MapSet, muddled' \in BOOLEAN,
         r.there = "away" => r.wormno < MaxSegs,
         r.there = "level" => r.at \in Square,
         \A i \in Slot : i # SlotOf(monst[m]) /\ i # SlotOf(r) => wsegs'[i] = wsegs[i],
         SlotOf(monst[m]) # 0 /\ SlotOf(monst[m]) # SlotOf(r) => wsegs'[SlotOf(monst[m])] = <<>>,
         SlotOf(r) # 0 =>
           /\ SlotOf(r) = SlotOf(monst[m]) \/ wsegs[SlotOf(r)] = <<>>
           /\ r.long /\ Lying(wsegs'[SlotOf(r)], r.at) /\ Len(wsegs'[SlotOf(r)]) <= MaxSegs,
         ~muddled' => \A c \in Square :
           /\ c \in Takes(wsegs', r) => monsters'[c] = m /\ monsters[c] \in {m, Nobody}
           /\ c \notin Takes(wsegs', r) =>
                monsters'[c] = IF monsters[c] = m THEN Nobody ELSE monsters[c]
  PROVE  WormInv'
<1>1. /\ wsegs \in SegsSet /\ monst \in [Creature -> Rec] /\ monsters \in MapSet
      /\ Whole(wsegs, monst) /\ Shown(monsters, wsegs, monst)
      /\ \A i \in Slot : Len(wsegs[i]) <= MaxSegs
      /\ \A n \in Creature : monst[n].there = "away" => monst[n].wormno < MaxSegs
  BY DEF WormInv, WormTypeOK, SegsSet, Rec, MapSet
<1>2. /\ monst' \in [Creature -> Rec] /\ monst'[m] = r
      /\ \A n \in Creature : n # m => monst'[n] = monst[n]
  BY <1>1
<1> DEFINE ms2 == monst'
           ws2 == wsegs'
           g2 == monsters'
<1>a. /\ ms2 \in [Creature -> Rec] /\ ws2 \in SegsSet
      /\ \A n \in Creature : n # m => ms2[n] = monst[n]
      /\ \A i \in Slot : i # SlotOf(monst[m]) /\ i # SlotOf(ms2[m]) => ws2[i] = wsegs[i]
      /\ SlotOf(monst[m]) # 0 /\ SlotOf(monst[m]) # SlotOf(ms2[m]) => ws2[SlotOf(monst[m])] = <<>>
      /\ ms2[m].there = "level" => ms2[m].at \in Square
      /\ SlotOf(ms2[m]) # 0 =>
           /\ SlotOf(ms2[m]) = SlotOf(monst[m]) \/ wsegs[SlotOf(ms2[m])] = <<>>
           /\ ms2[m].long /\ Lying(ws2[SlotOf(ms2[m])], ms2[m].at)
  BY <1>2
<1> HIDE DEF ms2, ws2, g2
<1>b. Whole(ws2, ms2)
  BY <1>1, <1>a, OneChanges
<1>3. Whole(wsegs', monst')
  BY <1>b DEF ws2, ms2
<1>c. \A n \in Creature : n # m => Takes(ws2, ms2[n]) = Takes(wsegs, monst[n])
  BY <1>1, <1>a, OthersKeep
<1>5. ~muddled' => Shown(monsters', wsegs', monst')
  <2> HAVE ~muddled'
  <2>1. \A c \in Square :
           /\ c \in Takes(ws2, ms2[m]) => g2[c] = m /\ monsters[c] \in {m, Nobody}
           /\ c \notin Takes(ws2, ms2[m]) =>
                g2[c] = IF monsters[c] = m THEN Nobody ELSE monsters[c]
    BY <1>2 DEF ms2, ws2, g2
  <2>2. Shown(g2, ws2, ms2)
    BY <1>1, <1>c, <2>1, MapFollows
  <2> QED
    BY <2>2 DEF ms2, ws2, g2
<1>6. \A i \in Slot : Len(wsegs'[i]) <= MaxSegs
  <2> TAKE i \in Slot
  <2>1. i # 0
    BY DEF Slot
  <2>2. CASE i = SlotOf(r)
    BY <2>1, <2>2
  <2>3. CASE i # SlotOf(r) /\ i = SlotOf(monst[m])
    <3>1. wsegs'[i] = <<>> /\ Len(<<>>) = 0
      BY <2>1, <2>3
    <3> QED
      BY <3>1, WormAssumption
  <2>4. CASE i # SlotOf(r) /\ i # SlotOf(monst[m])
    BY <1>1, <2>4
  <2> QED
    BY <2>2, <2>3, <2>4
<1>7. WormTypeOK'
  BY <1>2, <1>6 DEF WormTypeOK, SegsSet, MapSet, Rec
<1>8. \A n \in Creature : monst'[n].there = "away" => monst'[n].wormno < MaxSegs
  BY <1>1, <1>2
<1> QED
  BY <1>3, <1>5, <1>7, <1>8 DEF WormInv

\* What the invariant says of a monster on the level.
\* What the invariant says of one monster on the level.
LEMMA OnMap ==
  ASSUME WormInv, ~muddled, NEW m \in Creature, OnLevel(m)
  PROVE  /\ monst[m].at \in Square /\ monsters[monst[m].at] = m
         /\ SlotOf(monst[m]) = monst[m].wormno
         /\ monst[m].wormno # 0 =>
              /\ monst[m].wormno \in Slot /\ Segs(m) \in Seq(Square)
              /\ Lying(Segs(m), monst[m].at) /\ monst[m].long
              /\ Len(Segs(m)) \in Nat \ {0} /\ Len(Segs(m)) <= MaxSegs
         /\ \A c \in Square : monsters[c] = m <=> c \in Body(m)
         /\ Body(m) = Takes(wsegs, monst[m])
         /\ Body(m) \subseteq Square
<1>1. /\ wsegs \in SegsSet /\ monst \in [Creature -> Rec]
      /\ Whole(wsegs, monst) /\ Shown(monsters, wsegs, monst)
      /\ \A i \in Slot : Len(wsegs[i]) <= MaxSegs
  BY DEF WormInv, WormTypeOK, SegsSet, Rec
<1>2. SlotOf(monst[m]) = monst[m].wormno /\ monst[m].at \in Square
  BY <1>1 DEF OnLevel, SlotOf, Whole
<1>3. Body(m) = Takes(wsegs, monst[m])
  BY DEF Body, Takes, OnLevel, Segs
<1>4. \A c \in Square : monsters[c] = m <=> c \in Body(m)
  BY <1>1, <1>3 DEF Shown
<1>5. monst[m].at \in Body(m)
  BY DEF Body
<1>6. ASSUME monst[m].wormno # 0
      PROVE  /\ monst[m].wormno \in Slot /\ Segs(m) \in Seq(Square)
             /\ Lying(Segs(m), monst[m].at) /\ monst[m].long
             /\ Len(Segs(m)) \in Nat \ {0} /\ Len(Segs(m)) <= MaxSegs
  <2>1. monst[m].wormno \in Slot
    <3>1. monst[m] \in Rec
      BY <1>1
    <3> QED
      BY <1>2, <1>6, <3>1, SlotType
  <2>2. Segs(m) \in Seq(Square) /\ Len(Segs(m)) <= MaxSegs
    BY <1>1, <2>1 DEF Segs, SegsSet
  <2>3. Lying(Segs(m), monst[m].at) /\ monst[m].long
    BY <1>1, <1>2, <1>6 DEF Whole, Segs
  <2>4. Len(Segs(m)) \in Nat \ {0}
    BY <2>2, <2>3, EmptySeq DEF Lying
  <2> QED
    BY <2>1, <2>2, <2>3, <2>4
<1>7. Body(m) \subseteq Square
  <2>1. monst[m].wormno # 0 => ToSet(Segs(m)) \subseteq Square
    BY <1>6, ToSetOf
  <2> QED
    BY <1>2, <2>1 DEF Body
<1> QED
  BY <1>2, <1>3, <1>4, <1>5, <1>6, <1>7

\* What it says of the types.
LEMMA Types ==
  ASSUME WormInv
  PROVE  wsegs \in SegsSet /\ monst \in [Creature -> Rec] /\ monsters \in MapSet
BY DEF WormInv, WormTypeOK, SegsSet, Rec, MapSet

\* A monster m is set down at x as r, with what it has of a tail.
Fits(ms, ws, m, x, r, s, g, d, ws2) ==
  /\ r \in Rec /\ s \in Seq(Square \cup {0}) /\ g \in MapSet /\ d \in SetDown(g, m, x, s)
  /\ r.there = "level" /\ r.at = x
  /\ r.wormno = 0 <=> s = <<>>
  /\ Len(s) <= MaxSegs
  /\ r.wormno # 0 => r.long /\ (r.wormno = SlotOf(ms[m]) \/ ws[r.wormno] = <<>>)
  /\ ws2 \in SegsSet
  /\ \A i \in Slot : ws2[i] = IF i = r.wormno THEN d.segs
                              ELSE IF i = SlotOf(ms[m]) THEN <<>> ELSE ws[i]

\* Map g is map f without m, and there is room at x.
Cleared(f, g, m, x) ==
  /\ f[x] \in {Nobody, m}
  /\ \A c \in Square : c # x => g[c] = IF f[c] = m THEN Nobody ELSE f[c]

\* It fits: everything is whole again, and the map right if it was and no
\* tossed segment had been taken.
LEMMA SettlesIn ==
  ASSUME NEW m \in Creature, NEW x \in Square,
         NEW ms \in [Creature -> Rec], NEW ws \in SegsSet, NEW f \in MapSet, Whole(ws, ms),
         \A i \in Slot : Len(ws[i]) <= MaxSegs,
         NEW r, NEW s, NEW g, NEW d, NEW ws2, Fits(ms, ws, m, x, r, s, g, d, ws2),
         NEW ms2 \in [Creature -> Rec], ms2[m] = r, \A n \in Creature : n # m => ms2[n] = ms[n]
  PROVE  /\ ws2 \in SegsSet /\ d.map \in MapSet
         /\ d.taken \in BOOLEAN
         /\ Whole(ws2, ms2)
         /\ \A i \in Slot : Len(ws2[i]) <= MaxSegs
         /\ Shown(f, ws, ms) /\ Cleared(f, g, m, x) /\ ~d.taken => Shown(d.map, ws2, ms2)
<1> DEFINE no == r.wormno
<1>0. r \in Rec /\ r.there = "level" /\ r.at = x /\ ws2 \in SegsSet /\ ms[m] \in Rec
  BY DEF Fits
<1>1. SlotOf(r) = no /\ (no # 0 => no \in Slot) /\ (SlotOf(ms[m]) # 0 => SlotOf(ms[m]) \in Slot)
  <2>1. SlotOf(r) = no
    BY <1>0 DEF SlotOf
  <2> QED
    BY <1>0, <2>1, SlotType
<1>2. /\ d.segs \in Seq(Square) /\ Len(d.segs) <= Len(s)
      /\ s = <<>> => d.segs = <<>>
      /\ s # <<>> => Lying(d.segs, x)
      /\ d.map \in MapSet /\ d.taken \in BOOLEAN
      /\ \A c \in ToSet(d.segs) : c = x \/ g[c] = Nobody
      /\ ~d.taken => \A c \in Square : d.map[c] = IF c = x \/ c \in ToSet(d.segs) THEN m ELSE g[c]
  BY TailPlaced DEF Fits
<1>3. \A c \in Square : c \in Takes(ws2, r) <=> c = x \/ c \in ToSet(d.segs)
  <2>1. CASE no = 0
    <3>1. ToSet(d.segs) = {}
      BY <1>2, <2>1 DEF ToSet, Fits
    <3> QED
      BY <1>0, <2>1, <3>1 DEF Takes
  <2>2. CASE no # 0
    BY <1>0, <1>1, <2>2 DEF Takes, Fits
  <2> QED
    BY <2>1, <2>2
<1>4. Nobody \notin Creature
  BY WormAssumption
<1>5. no # 0 => /\ no = SlotOf(ms[m]) \/ ws[no] = <<>>
                /\ r.long /\ Lying(ws2[no], x) /\ Len(ws2[no]) <= MaxSegs
  <2> HAVE no # 0
  <2>1. ws2[no] = d.segs /\ s # <<>> /\ s \in Seq(Square \cup {0}) /\ Len(s) <= MaxSegs
    BY <1>1 DEF Fits
  <2>2. Len(d.segs) <= MaxSegs
    BY <1>2, <2>1, WormAssumption, LenProperties
  <2>3. r.long /\ (no = SlotOf(ms[m]) \/ ws[no] = <<>>)
    BY DEF Fits
  <2> QED
    BY <1>2, <2>1, <2>2, <2>3
<1>6. ms2[m] = r
  OBVIOUS
<1>7. /\ \A i \in Slot : i # SlotOf(ms[m]) /\ i # SlotOf(ms2[m]) => ws2[i] = ws[i]
      /\ SlotOf(ms[m]) # 0 /\ SlotOf(ms[m]) # SlotOf(ms2[m]) => ws2[SlotOf(ms[m])] = <<>>
      /\ ms2[m].there = "level" => ms2[m].at \in Square
      /\ SlotOf(ms2[m]) # 0 =>
           /\ SlotOf(ms2[m]) = SlotOf(ms[m]) \/ ws[SlotOf(ms2[m])] = <<>>
           /\ ms2[m].long /\ Lying(ws2[SlotOf(ms2[m])], ms2[m].at)
  BY <1>0, <1>1, <1>5, <1>6 DEF Fits
<1>8. Whole(ws2, ms2)
  BY <1>0, <1>6, <1>7, OneChanges
<1>9. \A n \in Creature : n # m => Takes(ws2, ms2[n]) = Takes(ws, ms[n])
  BY <1>0, <1>6, <1>7, OthersKeep
<1>10. ASSUME NEW i \in Slot
       PROVE  Len(ws2[i]) <= MaxSegs
  <2>1. CASE i = no
    <3>1. i # 0
      BY DEF Slot
    <3> QED
      BY <1>5, <2>1, <3>1
  <2>2. CASE i # no
    <3>1. ws2[i] = IF i = SlotOf(ms[m]) THEN <<>> ELSE ws[i]
      BY <2>2 DEF Fits
    <3>2. Len(<<>>) <= MaxSegs
      BY WormAssumption
    <3> QED
      BY <3>1, <3>2
  <2> QED
    BY <2>1, <2>2
<1>11. ASSUME Shown(f, ws, ms), Cleared(f, g, m, x), ~d.taken
       PROVE  Shown(d.map, ws2, ms2)
  <2> DEFINE h == d.map
  <2>1. ASSUME NEW c \in Square
        PROVE  /\ c \in Takes(ws2, ms2[m]) => h[c] = m /\ f[c] \in {m, Nobody}
               /\ c \notin Takes(ws2, ms2[m]) => h[c] = IF f[c] = m THEN Nobody ELSE f[c]
    <3>1. h[c] = IF c = x \/ c \in ToSet(d.segs) THEN m ELSE g[c]
      BY <1>2, <1>11
    <3>2. CASE c = x
      BY <1>3, <1>6, <1>11, <3>1, <3>2 DEF Cleared
    <3>3. CASE c # x
      <4>1. g[c] = IF f[c] = m THEN Nobody ELSE f[c]
        BY <1>11, <3>3 DEF Cleared
      <4> QED
        BY <1>2, <1>3, <1>4, <1>6, <3>1, <3>3, <4>1
    <3> QED
      BY <3>2, <3>3
  <2> HIDE DEF h
  <2>2. Shown(h, ws2, ms2)
    BY <1>9, <1>11, <2>1, MapFollows
  <2> QED
    BY <2>2 DEF h
<1> QED
  BY <1>0, <1>2, <1>6, <1>8, <1>10, <1>11

\* The same as a step from the present state.
Setting(m, x, r, s, g, d) ==
  /\ Fits(monst, wsegs, m, x, r, s, g, d, wsegs') /\ Cleared(monsters, g, m, x)
  /\ monst' = [monst EXCEPT ![m] = r] /\ monsters' = d.map
  /\ muddled' \in BOOLEAN /\ (muddled' \/ ~d.taken)

\* Such a step keeps the invariant.
LEMMA Settles ==
  ASSUME WormInv, ~muddled, NEW m \in Creature, NEW x \in Square,
         NEW r, NEW s, NEW g, NEW d, Setting(m, x, r, s, g, d)
  PROVE  WormInv'
<1>1. /\ wsegs \in SegsSet /\ monst \in [Creature -> Rec] /\ monsters \in MapSet
      /\ Whole(wsegs, monst) /\ Shown(monsters, wsegs, monst)
      /\ \A i \in Slot : Len(wsegs[i]) <= MaxSegs
  BY Types DEF WormInv, WormTypeOK
<1> DEFINE ms2 == monst'
           ws2 == wsegs'
<1>a. /\ ms2 \in [Creature -> Rec] /\ ms2[m] = r /\ \A n \in Creature : n # m => ms2[n] = monst[n]
      /\ Fits(monst, wsegs, m, x, r, s, g, d, ws2) /\ Cleared(monsters, g, m, x)
      /\ monsters' = d.map
  BY <1>1 DEF Setting, Fits
<1> HIDE DEF ms2, ws2
<1>b. /\ ws2 \in SegsSet /\ d.map \in MapSet
      /\ Whole(ws2, ms2) /\ \A i \in Slot : Len(ws2[i]) <= MaxSegs
      /\ ~d.taken => Shown(d.map, ws2, ms2)
  BY <1>1, <1>a, SettlesIn
<1>2. /\ monst' \in [Creature -> Rec] /\ wsegs' \in SegsSet /\ monsters' \in MapSet
      /\ Whole(wsegs', monst') /\ \A i \in Slot : Len(wsegs'[i]) <= MaxSegs
      /\ ~d.taken => Shown(monsters', wsegs', monst')
  BY <1>a, <1>b DEF ms2, ws2
<1>3. \A n \in Creature : monst'[n].there = "away" => monst'[n].wormno < MaxSegs
  <2>1. r.there = "level" /\ monst' = [monst EXCEPT ![m] = r]
    BY DEF Setting, Fits
  <2> QED
    BY <1>1, <2>1 DEF WormInv
<1>4. WormTypeOK'
  BY <1>2 DEF WormTypeOK, SegsSet, MapSet, Rec, Setting
<1> QED
  BY <1>2, <1>3, <1>4 DEF WormInv, Setting

\* What a monster that has no body yet brings.
LEMMA SomeTail ==
  ASSUME NEW long \in BOOLEAN, NEW n \in Nat, n < MaxSegs
  PROVE  LET no == IF long THEN GetWormno ELSE 0
             s == IF long THEN NewSegs(n) ELSE <<>>
         IN  /\ no \in 0 .. MAX_NUM_WORMS - 1 /\ (no # 0 => long /\ wsegs[no] = <<>>)
             /\ s \in Seq(Square \cup {0}) /\ (no = 0 <=> s = <<>>) /\ Len(s) <= MaxSegs
             /\ \A i \in 1 .. Len(s) : s[i] = 0
<1> DEFINE no == IF long THEN GetWormno ELSE 0
           s == IF long THEN NewSegs(n) ELSE <<>>
<1>1. no \in 0 .. MAX_NUM_WORMS - 1 /\ (no # 0 => long /\ wsegs[no] = <<>>)
  BY FreeSlot, WormAssumption
<1>2. <<>> \in Seq(Square \cup {0}) /\ Len(<<>>) = 0
  BY EmptySeq
<1>3. CASE long
  <2>1. GetWormno = 0 => s = <<>>
    BY <1>3, NewTail
  <2>2. GetWormno # 0 => s # <<>> /\ Len(s) = n + 1
    BY <1>3, NewTail
  <2>3. s \in Seq(Square \cup {0}) /\ \A i \in 1 .. Len(s) : s[i] = 0
    BY <1>3, NewTail
  <2> QED
    BY <1>1, <1>2, <1>3, <2>1, <2>2, <2>3, WormAssumption
<1>4. CASE ~long
  BY <1>1, <1>2, <1>4, WormAssumption
<1> QED
  BY <1>3, <1>4

\* makemon keeps the invariant.
LEMMA BornKeeps ==
  ASSUME WormInv, ~muddled, NEW m \in Creature, NEW x \in Square, Born(m, x)
  PROVE  WormInv'
<1>1. PICK long \in BOOLEAN, n \in TailLength :
        LET no == IF long THEN GetWormno ELSE 0 IN
        \E d \in SetDown(monsters, m, x, IF long THEN NewSegs(n) ELSE <<>>) :
          /\ monsters' = d.map /\ wsegs' = FillSlot(no, d.segs)
          /\ monst' = [monst EXCEPT ![m] = Monst("level", x, long, no, FALSE)]
  BY DEF Born
<1> DEFINE no == IF long THEN GetWormno ELSE 0
           s == IF long THEN NewSegs(n) ELSE <<>>
           r == Monst("level", x, long, no, FALSE)
<1>2. PICK d \in SetDown(monsters, m, x, s) :
        monsters' = d.map /\ wsegs' = FillSlot(no, d.segs) /\ monst' = [monst EXCEPT ![m] = r]
  BY <1>1
<1>3. monst[m].there = "none" /\ monsters[x] = Nobody /\ muddled' = muddled
  BY DEF Born, Vacant
<1>4. n \in Nat /\ n < MaxSegs
  BY WormAssumption
<1>5. /\ no \in 0 .. MAX_NUM_WORMS - 1 /\ (no # 0 => long /\ wsegs[no] = <<>>)
      /\ s \in Seq(Square \cup {0}) /\ (no = 0 <=> s = <<>>) /\ Len(s) <= MaxSegs
      /\ \A i \in 1 .. Len(s) : s[i] = 0
  BY <1>4, SomeTail
<1>6. r \in Rec /\ r.there = "level" /\ r.at = x /\ r.long = long /\ r.wormno = no
  <2>1. Monst("level", x, long, no, FALSE) \in Rec
    BY <1>5, FALSE \in BOOLEAN DEF Monst, Rec
  <2> QED
    BY <2>1 DEF Monst
<1> HIDE DEF s, no, r
<1>7. d.segs \in Seq(Square) /\ ~d.taken
  BY <1>2, <1>5, Types, TailPlaced
<1>8. /\ wsegs' \in SegsSet
      /\ \A i \in Slot : wsegs'[i] = IF i = no THEN d.segs ELSE wsegs[i]
  BY <1>2, <1>5, <1>7, Types, SlotFilled
<1>9. SlotOf(monst[m]) = 0 /\ \A i \in Slot : i # 0
  BY <1>3 DEF SlotOf, Slot
<1>10. \A c \in Square : monsters[c] # m
  BY <1>3 DEF WormInv, Shown, Takes
<1>11. /\ \A c \in Square : c # x => monsters[c] = IF monsters[c] = m THEN Nobody ELSE monsters[c]
       /\ \A i \in Slot : wsegs'[i] = IF i = no THEN d.segs
                                      ELSE IF i = SlotOf(monst[m]) THEN <<>> ELSE wsegs[i]
  BY <1>8, <1>9, <1>10
<1>12. muddled' \in BOOLEAN
  BY <1>3 DEF WormInv, WormTypeOK
<1>13. /\ r.wormno = 0 <=> s = <<>>
       /\ r.wormno # 0 => r.long /\ (r.wormno = SlotOf(monst[m]) \/ wsegs[r.wormno] = <<>>)
       /\ \A i \in Slot : wsegs'[i] = IF i = r.wormno THEN d.segs
                                      ELSE IF i = SlotOf(monst[m]) THEN <<>> ELSE wsegs[i]
       /\ monsters[x] \in {Nobody, m} /\ (muddled' \/ ~d.taken)
  BY <1>3, <1>5, <1>6, <1>7, <1>11
<1>14. Setting(m, x, r, s, monsters, d)
  BY <1>2, <1>5, <1>6, <1>8, <1>11, <1>12, <1>13, Types DEF Setting, Fits, Cleared
<1> QED
  BY <1>14, Settles

\* mon_arrive keeps it.
LEMMA ArrivesKeeps ==
  ASSUME WormInv, ~muddled, NEW m \in Creature, NEW x \in Square, Arrives(m, x)
  PROVE  WormInv'
<1> DEFINE long == monst[m].long
           n == monst[m].wormno
           no == IF long THEN GetWormno ELSE 0
           s == IF long THEN NewSegs(n) ELSE <<>>
           r == [monst[m] EXCEPT !.there = "level", !.at = x, !.wormno = no]
<1>0. monst[m] \in Rec /\ monst[m].there = "away" /\ monsters[x] = Nobody /\ muddled' = muddled
  BY Types DEF Arrives, Vacant
<1>1. (IF no = 0 THEN <<>> ELSE NewSegs(n)) = s
  <2>1. n \in Nat
    BY <1>0, WormAssumption DEF Rec
  <2>2. no = 0 => s = <<>>
    BY <2>1, NewTail
  <2> QED
    BY <2>2
<1>2. PICK d \in SetDown(monsters, m, x, s) :
        monsters' = d.map /\ wsegs' = FillSlot(no, d.segs) /\ monst' = [monst EXCEPT ![m] = r]
  <2>1. \E d \in SetDown(monsters, m, x, IF no = 0 THEN <<>> ELSE NewSegs(n)) :
          monsters' = d.map /\ wsegs' = FillSlot(no, d.segs) /\ monst' = [monst EXCEPT ![m] = r]
    BY DEF Arrives
  <2> QED
    BY <1>1, <2>1
<1>4. n \in Nat /\ n < MaxSegs /\ long \in BOOLEAN
  BY <1>0, WormAssumption DEF Rec, WormInv
<1>5. /\ no \in 0 .. MAX_NUM_WORMS - 1 /\ (no # 0 => long /\ wsegs[no] = <<>>)
      /\ s \in Seq(Square \cup {0}) /\ (no = 0 <=> s = <<>>) /\ Len(s) <= MaxSegs
      /\ \A i \in 1 .. Len(s) : s[i] = 0
  <2> HIDE DEF long, n
  <2> QED
    BY <1>4, SomeTail
<1>6. r \in Rec /\ r.there = "level" /\ r.at = x /\ r.long = long /\ r.wormno = no
  BY <1>0, <1>5 DEF Rec
<1> HIDE DEF s, no, r, n, long
<1>7. d.segs \in Seq(Square) /\ ~d.taken
  BY <1>2, <1>5, Types, TailPlaced
<1>8. /\ wsegs' \in SegsSet
      /\ \A i \in Slot : wsegs'[i] = IF i = no THEN d.segs ELSE wsegs[i]
  BY <1>2, <1>5, <1>7, Types, SlotFilled
<1>9. SlotOf(monst[m]) = 0 /\ \A i \in Slot : i # 0
  BY <1>0 DEF SlotOf, Slot
<1>10. \A c \in Square : monsters[c] # m
  BY <1>0 DEF WormInv, Shown, Takes
<1>11. /\ \A c \in Square : c # x => monsters[c] = IF monsters[c] = m THEN Nobody ELSE monsters[c]
       /\ \A i \in Slot : wsegs'[i] = IF i = no THEN d.segs
                                      ELSE IF i = SlotOf(monst[m]) THEN <<>> ELSE wsegs[i]
  BY <1>8, <1>9, <1>10
<1>12. muddled' \in BOOLEAN
  BY <1>0 DEF WormInv, WormTypeOK
<1>13. /\ r.wormno = 0 <=> s = <<>>
       /\ r.wormno # 0 => r.long /\ (r.wormno = SlotOf(monst[m]) \/ wsegs[r.wormno] = <<>>)
       /\ \A i \in Slot : wsegs'[i] = IF i = r.wormno THEN d.segs
                                      ELSE IF i = SlotOf(monst[m]) THEN <<>> ELSE wsegs[i]
       /\ monsters[x] \in {Nobody, m} /\ (muddled' \/ ~d.taken)
  BY <1>0, <1>5, <1>6, <1>7, <1>11
<1>14. Setting(m, x, r, s, monsters, d)
  BY <1>2, <1>5, <1>6, <1>8, <1>11, <1>12, <1>13, Types DEF Setting, Fits, Cleared
<1> QED
  BY <1>14, Settles

\* Once a monster is lifted it is nowhere on the map and its slot is free.
LEMMA Lifted ==
  ASSUME WormInv, ~muddled, NEW m \in Creature, OnLevel(m)
  PROVE  /\ Gone(m) \in MapSet
         /\ \A c \in Square : Gone(m)[c] = IF monsters[c] = m THEN Nobody ELSE monsters[c]
         /\ OwnSegs(m) \in Seq(Square) /\ Len(OwnSegs(m)) <= MaxSegs
         /\ OwnSegs(m) = <<>> <=> monst[m].wormno = 0
         /\ Tailless(m) \in SegsSet
         /\ \A i \in Slot : Tailless(m)[i] = IF i = monst[m].wormno THEN <<>> ELSE wsegs[i]
<1>1. monst[m] \in Rec /\ monst[m].wormno \in 0 .. MAX_NUM_WORMS - 1 /\ wsegs \in SegsSet /\ monsters \in MapSet
  BY Types DEF Rec
<1>2. <<>> \in Seq(Square) /\ Len(<<>>) = 0
  BY EmptySeq
<1>3. /\ Tailless(m) \in SegsSet
      /\ \A i \in Slot : Tailless(m)[i] = IF i = monst[m].wormno THEN <<>> ELSE wsegs[i]
  BY <1>1, <1>2, SlotFilled DEF Tailless
<1>4. /\ Gone(m) \in MapSet
      /\ \A c \in Square : Gone(m)[c] = IF monsters[c] = m THEN Nobody ELSE monsters[c]
  BY <1>1, OnMap DEF Gone, Erase, MapSet
<1>5. /\ OwnSegs(m) \in Seq(Square) /\ Len(OwnSegs(m)) <= MaxSegs
      /\ OwnSegs(m) = <<>> <=> monst[m].wormno = 0
  BY <1>2, OnMap, WormAssumption DEF OwnSegs, Lying
<1> QED
  BY <1>3, <1>4, <1>5

\* rloc_to keeps it.
LEMMA RelocatedKeeps ==
  ASSUME WormInv, ~muddled, NEW m \in Creature, NEW x \in Square, Relocated(m, x)
  PROVE  WormInv'
<1> DEFINE no == monst[m].wormno
           s == OwnSegs(m)
           g == Gone(m)
           r == [monst[m] EXCEPT !.at = x]
<1>0. OnLevel(m) /\ monst[m] \in Rec /\ monsters[x] = Nobody /\ monst' = [monst EXCEPT ![m] = r]
  BY Types DEF Relocated, Vacant
<1>1. PICK d \in SetDown(g, m, x, s) :
        monsters' = d.map /\ wsegs' = FillSlot(no, d.segs) /\ muddled' = (muddled \/ d.taken)
  BY DEF Relocated
<1>2. /\ g \in MapSet /\ \A c \in Square : g[c] = IF monsters[c] = m THEN Nobody ELSE monsters[c]
      /\ s \in Seq(Square) /\ Len(s) <= MaxSegs /\ (no = 0 <=> s = <<>>)
  BY <1>0, Lifted
<1>3. s \in Seq(Square \cup {0})
  BY <1>2, SeqMonotonic
<1>4. /\ r \in Rec /\ r.there = "level" /\ r.at = x /\ r.long = monst[m].long /\ r.wormno = no
      /\ no \in 0 .. MAX_NUM_WORMS - 1
  BY <1>0 DEF Rec, OnLevel
<1>5. no = SlotOf(monst[m]) /\ (no # 0 => monst[m].long)
  BY <1>0, OnMap
<1> HIDE DEF s, no, r, g
<1>6. d.segs \in Seq(Square) /\ d.taken \in BOOLEAN
  BY <1>1, <1>2, <1>3, TailPlaced
<1>7. /\ wsegs' \in SegsSet
      /\ \A i \in Slot : wsegs'[i] = IF i = no THEN d.segs ELSE wsegs[i]
  BY <1>1, <1>4, <1>6, Types, SlotFilled
<1>8. \A i \in Slot : wsegs'[i] = IF i = no THEN d.segs
                                   ELSE IF i = SlotOf(monst[m]) THEN <<>> ELSE wsegs[i]
  BY <1>5, <1>7
<1>9. muddled' = d.taken
  BY <1>1, <1>6
<1>10. /\ r.wormno = 0 <=> s = <<>>
       /\ r.wormno # 0 => r.long /\ (r.wormno = SlotOf(monst[m]) \/ wsegs[r.wormno] = <<>>)
       /\ \A i \in Slot : wsegs'[i] = IF i = r.wormno THEN d.segs
                                      ELSE IF i = SlotOf(monst[m]) THEN <<>> ELSE wsegs[i]
       /\ monsters[x] \in {Nobody, m} /\ (muddled' \/ ~d.taken) /\ muddled' \in BOOLEAN
  BY <1>0, <1>2, <1>4, <1>5, <1>6, <1>8, <1>9
<1>11. Setting(m, x, r, s, g, d)
  BY <1>0, <1>1, <1>2, <1>3, <1>4, <1>7, <1>10 DEF Setting, Fits, Cleared
<1> QED
  BY <1>11, Settles

\* newcham keeps it.
LEMMA ChangesShapeKeeps ==
  ASSUME WormInv, ~muddled, NEW m \in Creature, ChangesShape(m)
  PROVE  WormInv'
<1> DEFINE long == ~monst[m].long
           at == monst[m].at
           no == IF monst[m].long THEN 0 ELSE GetWormno
           r == [monst[m] EXCEPT !.long = ~@, !.wormno = no]
<1>b. OnLevel(m) /\ monst[m] \in Rec /\ muddled' = muddled
  BY Types DEF ChangesShape
<1>c. monst' = [monst EXCEPT ![m] = r]
  BY DEF ChangesShape
<1>0. OnLevel(m) /\ monst[m] \in Rec /\ muddled' = muddled /\ monst' = [monst EXCEPT ![m] = r]
  BY <1>b, <1>c
<1>1. /\ at \in Square /\ monsters[at] = m /\ SlotOf(monst[m]) = monst[m].wormno
      /\ monst[m].wormno # 0 => monst[m].long
      /\ \A c \in Square : monsters[c] = m <=> c \in Body(m)
  BY <1>0, OnMap
<1>a. no = IF long THEN GetWormno ELSE 0
  OBVIOUS
<1>2. long \in BOOLEAN /\ no \in 0 .. MAX_NUM_WORMS - 1
  BY <1>0, FreeSlot, WormAssumption DEF Rec
<1>3. r \in Rec /\ r.there = "level" /\ r.at = at /\ r.long = long /\ r.wormno = no
  BY <1>0, <1>2 DEF Rec, OnLevel
<1>4. muddled' \in BOOLEAN
  BY <1>0 DEF WormInv, WormTypeOK
<1>5. CASE monst[m].long
  <2>1. monsters' = Put(Gone(m), m, {at}) /\ wsegs' = Tailless(m)
    BY <1>5 DEF ChangesShape
  <2>2. /\ Gone(m) \in MapSet
        /\ \A c \in Square : Gone(m)[c] = IF monsters[c] = m THEN Nobody ELSE monsters[c]
        /\ Tailless(m) \in SegsSet
        /\ \A i \in Slot : Tailless(m)[i] = IF i = monst[m].wormno THEN <<>> ELSE wsegs[i]
    BY <1>0, Lifted
  <2> DEFINE d == [map |-> Put(Gone(m), m, {at}), segs |-> <<>>, taken |-> FALSE]
  <2>3. d \in SetDown(Gone(m), m, at, <<>>) /\ d.map = monsters' /\ d.segs = <<>> /\ ~d.taken
    BY <2>1 DEF SetDown
  <2>4. r.wormno = 0 /\ \A i \in Slot : i # 0
    BY <1>3, <1>5 DEF Slot
  <2>5. <<>> \in Seq(Square \cup {0}) /\ Len(<<>>) <= MaxSegs
    BY WormAssumption
  <2> HIDE DEF d, r, at, no
  <2>6. Setting(m, at, r, <<>>, Gone(m), d)
    BY <1>0, <1>1, <1>3, <1>4, <2>1, <2>2, <2>3, <2>4, <2>5 DEF Setting, Fits, Cleared
  <2> QED
    BY <1>1, <2>6, Settles
<1>6. CASE ~monst[m].long
  <2>0. PICK n \in TailLength : \E d \in SetDown(monsters, m, at, NewSegs(n)) :
          monsters' = d.map /\ wsegs' = FillSlot(no, d.segs)
    BY <1>6 DEF ChangesShape
  <2>1. PICK d \in SetDown(monsters, m, at, NewSegs(n)) :
          monsters' = d.map /\ wsegs' = FillSlot(no, d.segs)
    BY <2>0
  <2> DEFINE s == NewSegs(n)
  <2>2. n \in Nat /\ n < MaxSegs
    BY WormAssumption
  <2>3. s = IF long THEN NewSegs(n) ELSE <<>>
    BY <1>6
  <2>4. /\ no # 0 => long /\ wsegs[no] = <<>>
        /\ s \in Seq(Square \cup {0}) /\ (no = 0 <=> s = <<>>) /\ Len(s) <= MaxSegs
        /\ \A i \in 1 .. Len(s) : s[i] = 0
    <3> HIDE DEF s, long
    <3> QED
      BY <1>a, <1>2, <2>2, <2>3, SomeTail
  <2>5. monst[m].wormno = 0 /\ \A i \in Slot : i # 0
    BY <1>1, <1>6 DEF Slot
  <2>6. \A c \in Square : monsters[c] = m => c = at
    BY <1>1, <2>5 DEF Body
  <2> HIDE DEF s, long, at, no, r
  <2>7. d \in SetDown(monsters, m, at, s)
    BY <2>1 DEF s
  <2>8. d.segs \in Seq(Square) /\ ~d.taken
    BY <1>1, <2>4, <2>7, Types, TailPlaced
  <2>9. /\ wsegs' \in SegsSet
        /\ \A i \in Slot : wsegs'[i] = IF i = no THEN d.segs ELSE wsegs[i]
    BY <1>2, <2>1, <2>8, Types, SlotFilled
  <2>10. \A i \in Slot : wsegs'[i] = IF i = no THEN d.segs
                                     ELSE IF i = SlotOf(monst[m]) THEN <<>> ELSE wsegs[i]
    BY <1>1, <2>5, <2>9
  <2>11. \A c \in Square : c # at => monsters[c] = IF monsters[c] = m THEN Nobody ELSE monsters[c]
    BY <2>6
  <2>12. Setting(m, at, r, s, monsters, d)
    BY <1>0, <1>1, <1>3, <1>4, <2>1, <2>4, <2>7, <2>8, <2>9, <2>10, <2>11, Types DEF Setting, Fits, Cleared
  <2> QED
    BY <1>1, <2>12, Settles
<1> QED
  BY <1>5, <1>6

\* The monster goes from the level, and its tail with it.
\* A monster that leaves the level frees its slot and its squares.
LEMMA Leaves ==
  ASSUME WormInv, ~muddled, NEW m \in Creature, OnLevel(m), NEW r \in Rec,
         r.there # "level", r.there = "away" => r.wormno < MaxSegs,
         monst' = [monst EXCEPT ![m] = r], monsters' = Gone(m), wsegs' = Tailless(m),
         muddled' = muddled
  PROVE  WormInv'
<1>1. /\ Gone(m) \in MapSet
      /\ \A c \in Square : Gone(m)[c] = IF monsters[c] = m THEN Nobody ELSE monsters[c]
      /\ Tailless(m) \in SegsSet
      /\ \A i \in Slot : Tailless(m)[i] = IF i = monst[m].wormno THEN <<>> ELSE wsegs[i]
  BY Lifted
<1>2. SlotOf(monst[m]) = monst[m].wormno /\ (monst[m].wormno # 0 => monst[m].wormno \in Slot)
  BY OnMap
<1>3. SlotOf(r) = 0 /\ Takes(wsegs', r) = {} /\ muddled' \in BOOLEAN
  BY DEF SlotOf, Takes, WormInv, WormTypeOK
<1>4. /\ \A i \in Slot : i # SlotOf(monst[m]) /\ i # SlotOf(r) => wsegs'[i] = wsegs[i]
      /\ SlotOf(monst[m]) # 0 /\ SlotOf(monst[m]) # SlotOf(r) => wsegs'[SlotOf(monst[m])] = <<>>
  BY <1>1, <1>2
<1>5. \A c \in Square :
           /\ c \in Takes(wsegs', r) => monsters'[c] = m /\ monsters[c] \in {m, Nobody}
           /\ c \notin Takes(wsegs', r) =>
                monsters'[c] = IF monsters[c] = m THEN Nobody ELSE monsters[c]
  BY <1>1, <1>3
<1> QED
  BY <1>1, <1>3, <1>4, <1>5, OneMonster

\* m_detach keeps the invariant.
LEMMA KilledKeeps ==
  ASSUME WormInv, ~muddled, NEW m \in Creature, Killed(m)
  PROVE  WormInv'
<1>1. NoMonst \in Rec /\ NoMonst.there = "none"
  <2>1. FALSE \in BOOLEAN /\ 0 \in 0 .. MAX_NUM_WORMS - 1
    BY WormAssumption
  <2> QED
    BY <2>1 DEF NoMonst, Monst, Rec
<1> QED
  BY <1>1, Leaves DEF Killed

\* migrate_to_level keeps it.
LEMMA DepartsKeeps ==
  ASSUME WormInv, ~muddled, NEW m \in Creature, Departs(m)
  PROVE  WormInv'
<1> DEFINE n == IF monst[m].wormno = 0 THEN 0 ELSE Len(Segs(m)) - 1
           kept == IF n < MAX_NUM_WORMS - 1 THEN n ELSE MAX_NUM_WORMS - 1
           r == [monst[m] EXCEPT !.there = "away", !.at = 0, !.wormno = kept]
<1>1. OnLevel(m) /\ monst[m] \in Rec /\ monst' = [monst EXCEPT ![m] = r]
  BY Types DEF Departs
<1>2. n \in Nat /\ n < MaxSegs
  BY <1>1, OnMap, WormAssumption
<1>3. kept \in 0 .. MAX_NUM_WORMS - 1 /\ kept < MaxSegs
  <2> HIDE DEF n
  <2> QED
    BY <1>2, WormAssumption
<1> HIDE DEF kept
<1>4. r \in Rec /\ r.there = "away" /\ r.wormno = kept
  BY <1>1, <1>3 DEF Rec
<1> HIDE DEF r
<1> QED
  BY <1>1, <1>3, <1>4, Leaves DEF Departs

\* replmon for a named or tamed monster keeps it.
LEMMA ReplacedKeeps ==
  ASSUME WormInv, ~muddled, NEW m \in Creature, Replaced(m)
  PROVE  WormInv'
<1>0. PICK named \in {monst[m].named, TRUE} : monst' = [monst EXCEPT ![m].named = named]
  BY DEF Replaced
<1> DEFINE r == [monst[m] EXCEPT !.named = named]
<1>1. OnLevel(m) /\ monst[m] \in Rec /\ monst' = [monst EXCEPT ![m] = r]
  BY <1>0, Types DEF Replaced
<1>2. /\ r \in Rec /\ r.there = "level" /\ r.at = monst[m].at
      /\ r.long = monst[m].long /\ r.wormno = monst[m].wormno
  BY <1>0, <1>1, TRUE \in BOOLEAN DEF Rec, OnLevel
<1> HIDE DEF r
<1>3. Takes(wsegs', r) = Body(m) /\ SlotOf(r) = SlotOf(monst[m]) /\ wsegs' = wsegs /\ muddled' = muddled
  BY <1>1, <1>2 DEF Takes, Body, Segs, SlotOf, OnLevel, Replaced
<1>4. monsters' \in MapSet /\ \A c \in Square : monsters'[c] = IF c \in Body(m) THEN m ELSE monsters[c]
  BY Types DEF Replaced, Put, MapSet
<1>5. \A c \in Square :
           /\ c \in Takes(wsegs', r) => monsters'[c] = m /\ monsters[c] \in {m, Nobody}
           /\ c \notin Takes(wsegs', r) =>
                monsters'[c] = IF monsters[c] = m THEN Nobody ELSE monsters[c]
  BY <1>1, <1>3, <1>4, OnMap
<1>6. /\ r.there = "away" => r.wormno < MaxSegs
      /\ r.there = "level" => r.at \in Square
      /\ SlotOf(r) # 0 =>
           /\ SlotOf(r) = SlotOf(monst[m]) \/ wsegs[SlotOf(r)] = <<>>
           /\ r.long /\ Lying(wsegs'[SlotOf(r)], r.at) /\ Len(wsegs'[SlotOf(r)]) <= MaxSegs
  BY <1>1, <1>2, <1>3, OnMap DEF Segs
<1>7. wsegs' \in SegsSet /\ muddled' \in BOOLEAN
  BY <1>3, Types DEF WormInv, WormTypeOK
<1> QED
  BY <1>1, <1>2, <1>3, <1>4, <1>5, <1>6, <1>7, OneMonster

-----------------------------------------------------------------------------
\* A worm that loses the first k segments of its list.
\* A worm that loses its last k segments: the rest is a tail under the same
\* head, and the squares it lost are free.
LEMMA CutShort ==
  ASSUME WormInv, ~muddled, NEW m \in Creature, OnLevel(m), monst[m].wormno # 0,
         NEW k \in 1 .. Len(Segs(m)) - 1
  PROVE  LET ws == [wsegs EXCEPT ![monst[m].wormno] = SubSeq(Segs(m), k + 1, Len(Segs(m)))]
             g == Erase(monsters, ToSet(SubSeq(Segs(m), 1, k)))
         IN  /\ ws \in SegsSet /\ g \in MapSet /\ Whole(ws, monst) /\ Shown(g, ws, monst)
             /\ \A i \in Slot : Len(ws[i]) <= MaxSegs
             /\ \A c \in ToSet(SubSeq(Segs(m), 1, k)) : c \in Square /\ g[c] = Nobody
<1> DEFINE a == monst[m].wormno
           q == Segs(m)
           old == SubSeq(q, 1, k)
           new == SubSeq(q, k + 1, Len(q))
           ws == [wsegs EXCEPT ![a] = new]
           g == Erase(monsters, ToSet(old))
<1>1. /\ a \in Slot /\ q \in Seq(Square) /\ Lying(q, monst[m].at) /\ monst[m].long
      /\ Len(q) \in Nat \ {0} /\ Len(q) <= MaxSegs /\ monst[m].at \in Square
      /\ SlotOf(monst[m]) = a
      /\ \A c \in Square : monsters[c] = m <=> c \in Body(m)
  BY OnMap
<1>2. /\ k \in 1 .. Len(q) /\ Len(q) \in k + 1 .. Len(q) /\ k + 1 \in 1 .. Len(q)
      /\ k \in 1 .. k /\ 1 \in 1 .. Len(q) /\ q[Len(q)] = monst[m].at /\ DOMAIN q = 1 .. Len(q)
      /\ Len(q) - (k + 1) + 1 <= MaxSegs
  <2>1. k \in Int /\ 1 <= k /\ k <= Len(q) - 1
    OBVIOUS
  <2>2. q[Len(q)] = monst[m].at /\ DOMAIN q = 1 .. Len(q)
    BY <1>1, LenProperties DEF Lying, Last
  <2> HIDE DEF q
  <2>3. Len(q) - (k + 1) + 1 <= MaxSegs
    BY <1>1, <2>1, WormAssumption
  <2> QED
    BY <1>1, <2>1, <2>2, <2>3
<1> HIDE DEF a, q
<1>3. /\ new \in Seq(Square) /\ Lying(new, monst[m].at) /\ Len(new) = Len(q) - (k + 1) + 1
      /\ \A c : c \in ToSet(new) <=> \E n \in k + 1 .. Len(q) : q[n] = c
  BY <1>1, <1>2, PartOfTail
<1>4. \A c : c \in ToSet(old) <=> \E n \in 1 .. k : q[n] = c
  BY <1>1, <1>2, PartOfTail
<1> HIDE DEF old, new
<1>5. \A c \in ToSet(old) : c \in Square /\ c \notin ToSet(new) /\ c # monst[m].at /\ monsters[c] = m
  <2> TAKE c \in ToSet(old)
  <2>1. PICK n \in 1 .. k : q[n] = c
    BY <1>4
  <2>2. n \in 1 .. Len(q) /\ n \notin k + 1 .. Len(q) /\ n # Len(q)
    <3>1. n \in Int /\ k \in Int /\ Len(q) \in Int /\ 1 <= n /\ n <= k /\ k + 1 <= Len(q)
      BY <1>1, <1>2
    <3> QED
      BY <3>1
  <2>3. \A j \in 1 .. Len(q) : q[j] = c => j = n
    BY <1>1, <1>2, <2>1, <2>2 DEF Lying
  <2>4. \A j \in k + 1 .. Len(q) : j \in 1 .. Len(q)
    BY <1>1, <1>2
  <2>5. c \notin ToSet(new) /\ c # monst[m].at
    BY <1>1, <1>2, <1>3, <2>2, <2>3, <2>4
  <2>6. c \in Square /\ c \in ToSet(q)
    BY <1>1, <2>1, <2>2, ToSetOf, ElementOfSeq
  <2>7. c \in Body(m)
    BY <2>6 DEF Body, q
  <2> QED
    BY <1>1, <2>5, <2>6, <2>7
<1>6. \A c \in Square : monsters[c] = m => c \in ToSet(old) \/ c \in ToSet(new)
  <2> TAKE c \in Square
  <2> HAVE monsters[c] = m
  <2>1. c = monst[m].at \/ c \in ToSet(q)
    BY <1>1 DEF Body, q
  <2>2. PICK n \in 1 .. Len(q) : q[n] = c
    BY <1>1, <1>2, <2>1, ToSetOf
  <2>3. n \in 1 .. k \/ n \in k + 1 .. Len(q)
    <3>1. n \in Int /\ k \in Int /\ Len(q) \in Int /\ 1 <= n /\ n <= Len(q)
      BY <1>1
    <3> QED
      BY <3>1
  <2> QED
    BY <1>3, <1>4, <2>2, <2>3
<1>7. \A c \in ToSet(new) : c \in Square /\ monsters[c] = m
  <2> TAKE c \in ToSet(new)
  <2>1. PICK n \in k + 1 .. Len(q) : q[n] = c
    BY <1>3
  <2>2. n \in 1 .. Len(q)
    BY <1>1, <1>2
  <2>3. c \in Square /\ c \in ToSet(q)
    BY <1>1, <2>1, <2>2, ToSetOf, ElementOfSeq
  <2>4. c \in Body(m)
    BY <2>3 DEF Body, q
  <2> QED
    BY <1>1, <2>3, <2>4
<1>8. /\ wsegs \in SegsSet /\ monst \in [Creature -> Rec] /\ monsters \in MapSet
      /\ Whole(wsegs, monst) /\ Shown(monsters, wsegs, monst)
      /\ \A i \in Slot : Len(wsegs[i]) <= MaxSegs
  BY Types DEF WormInv, WormTypeOK
<1>9. /\ ws \in SegsSet /\ ws[a] = new
      /\ \A i \in Slot : i # a => ws[i] = wsegs[i]
  BY <1>1, <1>3, <1>8 DEF SegsSet
<1>10. g \in MapSet /\ \A c \in Square : g[c] = IF c \in ToSet(old) THEN Nobody ELSE monsters[c]
  BY <1>8 DEF Erase, MapSet
<1>11. Takes(ws, monst[m]) = {monst[m].at} \cup ToSet(new) /\ a # 0 /\ monst[m].there = "level"
  BY <1>9 DEF Takes, OnLevel, a
<1> HIDE DEF ws, g
<1>12. monst[m].at \in ToSet(new)
  BY <1>2, <1>3
<1>13. Whole(ws, monst)
  BY SMTT(30), <1>1, <1>3, <1>8, <1>9, <1>11, OneChanges
<1>14. \A n \in Creature : n # m => Takes(ws, monst[n]) = Takes(wsegs, monst[n])
  BY <1>1, <1>8, <1>9, OthersKeep
<1>15. ASSUME NEW c \in Square
       PROVE  /\ c \in Takes(ws, monst[m]) => g[c] = m /\ monsters[c] \in {m, Nobody}
              /\ c \notin Takes(ws, monst[m]) => g[c] = IF monsters[c] = m THEN Nobody ELSE monsters[c]
  BY <1>5, <1>6, <1>7, <1>10, <1>11, <1>12
<1>16. Shown(g, ws, monst)
  BY <1>8, <1>14, <1>15, MapFollows
<1>17. \A i \in Slot : Len(ws[i]) <= MaxSegs
  BY <1>1, <1>2, <1>3, <1>8, <1>9
<1> QED
  BY <1>5, <1>9, <1>10, <1>13, <1>16, <1>17 DEF ws, g, new, old, q, a

\* shrink_worm, and the part of cutworm that leaves no second worm.
\* The same as a step.
LEMMA Shortened ==
  ASSUME WormInv, ~muddled, NEW m \in Creature, OnLevel(m), monst[m].wormno # 0,
         NEW k \in 1 .. Len(Segs(m)) - 1,
         wsegs' = [wsegs EXCEPT ![monst[m].wormno] = SubSeq(Segs(m), k + 1, Len(Segs(m)))],
         monsters' = Erase(monsters, ToSet(SubSeq(Segs(m), 1, k))),
         monst' = monst, muddled' = muddled
  PROVE  WormInv'
<1>1. /\ wsegs' \in SegsSet /\ monsters' \in MapSet /\ Whole(wsegs', monst)
      /\ Shown(monsters', wsegs', monst) /\ \A i \in Slot : Len(wsegs'[i]) <= MaxSegs
  BY CutShort
<1>2. WormTypeOK'
  BY <1>1 DEF WormInv, WormTypeOK, SegsSet, MapSet
<1> QED
  BY <1>1, <1>2 DEF WormInv

\* shrink_worm is that with one segment.
LEMMA Shrinks ==
  ASSUME WormInv, ~muddled, NEW m \in Creature, OnLevel(m), monst[m].wormno # 0,
         Shrink(monst[m].wormno), monst' = monst, muddled' = muddled
  PROVE  WormInv'
<1> DEFINE q == Segs(m)
<1>1. /\ q \in Seq(Square) /\ Len(q) \in Nat \ {0} /\ monst[m].wormno \in Slot
      /\ wsegs[monst[m].wormno] = q
  BY OnMap DEF Segs
<1>2. /\ Len(q) > 1 /\ wsegs' = [wsegs EXCEPT ![monst[m].wormno] = Tail(q)]
      /\ monsters' = Erase(monsters, {Head(q)})
  BY <1>1 DEF Shrink
<1>3. 1 \in 1 .. Len(q) - 1
  BY <1>1, <1>2
<1>4. Tail(q) = SubSeq(q, 1 + 1, Len(q)) /\ {Head(q)} = ToSet(SubSeq(q, 1, 1))
  <2> HIDE DEF q
  <2>1. q # <<>>
    BY <1>2, EmptySeq
  <2>2. Tail(q) = SubSeq(q, 1 + 1, Len(q))
    BY <1>1, <2>1, TailIsSubSeq
  <2>3. /\ SubSeq(q, 1, 1) \in Seq(Square) /\ Len(SubSeq(q, 1, 1)) = 1
        /\ SubSeq(q, 1, 1)[1] = q[1]
    BY <1>1, <1>3, ElementOfSeq
  <2>4. Head(q) = q[1]
    BY <1>1
  <2>5. \A c : c \in ToSet(SubSeq(q, 1, 1)) <=> \E i \in 1 .. 1 : SubSeq(q, 1, 1)[i] = c
    <3> DEFINE t == SubSeq(q, 1, 1)
    <3> HIDE DEF t
    <3>1. t \in Seq(Square) /\ Len(t) = 1
      BY <2>3 DEF t
    <3>2. \A c : c \in ToSet(t) <=> \E i \in 1 .. Len(t) : t[i] = c
      BY <3>1, ToSetOf
    <3> QED
      BY <3>1, <3>2 DEF t
  <2>6. \A i \in 1 .. 1 : i = 1
    OBVIOUS
  <2> QED
    BY <2>2, <2>3, <2>4, <2>5, <2>6
<1> HIDE DEF q
<1>5. /\ wsegs' = [wsegs EXCEPT ![monst[m].wormno] = SubSeq(Segs(m), 1 + 1, Len(Segs(m)))]
      /\ monsters' = Erase(monsters, ToSet(SubSeq(Segs(m), 1, 1)))
      /\ 1 \in 1 .. Len(Segs(m)) - 1
  BY <1>2, <1>3, <1>4 DEF q
<1> QED
  BY <1>5, Shortened

\* worm_nomove keeps the invariant.
LEMMA RestsKeeps ==
  ASSUME WormInv, ~muddled, NEW m \in Creature, Rests(m)
  PROVE  WormInv'
BY Shrinks DEF Rests, Tailed

\* The segment that is hit, and what lies on either side of it.
\* Where cutworm cuts: at a segment that is not the dummy.
LEMMA Severed ==
  ASSUME WormInv, ~muddled, NEW m \in Creature, NEW x \in Square, Hit(m, x)
  PROVE  /\ OnLevel(m) /\ monst[m].wormno # 0
         /\ FirstCut(m, x) \in 1 .. Len(Segs(m)) - 1
         /\ Segs(m)[FirstCut(m, x)] = x
<1> DEFINE q == Segs(m)
           k == FirstCut(m, x)
<1>1. OnLevel(m) /\ monst[m].wormno # 0 /\ x # monst[m].at /\ CutAt(m, x) # {}
  BY DEF Hit, Tailed
<1>2. q \in Seq(Square) /\ Len(q) \in Nat \ {0} /\ q[Len(q)] = monst[m].at
  BY <1>1, OnMap DEF Lying, Last
<1> HIDE DEF q
<1>3. CutAt(m, x) = {i \in 1 .. Len(q) : q[i] = x}
  BY <1>2, LenProperties DEF CutAt, q
<1>4. CutAt(m, x) \subseteq Nat
  BY <1>2, <1>3
<1>5. \E i \in CutAt(m, x) : \A j \in CutAt(m, x) : i <= j
  BY <1>1, <1>4, Least
<1>6. k \in CutAt(m, x)
  BY <1>5 DEF FirstCut
<1> HIDE DEF k
<1>7. k \in 1 .. Len(q) /\ q[k] = x /\ k # Len(q)
  BY <1>1, <1>2, <1>3, <1>6
<1>8. k \in 1 .. Len(q) - 1
  BY <1>2, <1>7
<1> QED
  BY <1>1, <1>7, <1>8 DEF q, k

\* cutworm keeps the invariant when the part cut off dies.
LEMMA DockedKeeps ==
  ASSUME WormInv, ~muddled, NEW m \in Creature, NEW x \in Square, Docked(m, x)
  PROVE  WormInv'
<1> DEFINE k == FirstCut(m, x)
<1>1. Hit(m, x) /\ monst' = monst /\ muddled' = muddled
  BY DEF Docked
<1>2. OnLevel(m) /\ monst[m].wormno # 0 /\ k \in 1 .. Len(Segs(m)) - 1
  BY <1>1, Severed
<1>3. CASE k = 1
  <2>1. Shrink(monst[m].wormno)
    BY <1>3 DEF Docked
  <2> QED
    BY <1>1, <1>2, <2>1, Shrinks
<1>4. CASE k # 1
  <2>1. /\ wsegs' = [wsegs EXCEPT ![monst[m].wormno] = SubSeq(Segs(m), k + 1, Len(Segs(m)))]
        /\ monsters' = Erase(monsters, ToSet(SubSeq(Segs(m), 1, k)))
    BY <1>4 DEF Docked, LeftOver, CutOff
  <2> HIDE DEF k
  <2> QED
    BY <1>1, <1>2, <2>1, Shortened
<1> QED
  BY <1>3, <1>4

-----------------------------------------------------------------------------
\* worm_move keeps it: the tail first grows under the new head, and then
\* loses its end unless the worm grows.
LEMMA MovesKeeps ==
  ASSUME WormInv, ~muddled, NEW m \in Creature, NEW x \in Square, Moves(m, x)
  PROVE  WormInv'
<1> DEFINE a == monst[m].at
           no == monst[m].wormno
           q == Segs(m)
           r == [monst[m] EXCEPT !.at = x]
           headed == Put(Erase(monsters, {a}), m, {x})
           filled == Put(headed, m, {Last(q)})
<1>1. /\ OnLevel(m) /\ monst[m] \in Rec /\ <<a, x>> \in Beside /\ monsters[x] = Nobody
      /\ muddled' = muddled /\ muddled' \in BOOLEAN /\ monst' = [monst EXCEPT ![m] = r]
  BY Types DEF Moves, Vacant, WormInv, WormTypeOK
<1>2. /\ a \in Square /\ monsters[a] = m /\ SlotOf(monst[m]) = no
      /\ \A c \in Square : monsters[c] = m <=> c \in Body(m)
      /\ no # 0 => /\ no \in Slot /\ q \in Seq(Square) /\ Lying(q, a) /\ monst[m].long
                   /\ Len(q) \in Nat \ {0} /\ Len(q) <= MaxSegs
  BY <1>1, OnMap
<1>3. r \in Rec /\ r.there = "level" /\ r.at = x /\ r.long = monst[m].long /\ r.wormno = no
      /\ SlotOf(r) = no
  BY <1>1 DEF Rec, OnLevel, SlotOf
<1> HIDE DEF r
<1>4. Nobody \notin Creature /\ x # a /\ monsters \in MapSet /\ wsegs \in SegsSet
  BY <1>1, <1>2, Types, WormAssumption
<1>5. headed \in MapSet /\ \A c \in Square : headed[c] = IF c = x THEN m ELSE IF c = a THEN Nobody ELSE monsters[c]
  BY <1>4 DEF Put, Erase, MapSet
<1>6. CASE no = 0
  <2>1. monsters' = headed /\ wsegs' = wsegs
    BY <1>6 DEF Moves
  <2>2. Takes(wsegs', r) = {x} /\ \A c \in Square : monsters[c] = m <=> c = a
    BY <1>2, <1>3, <1>6 DEF Takes, Body
  <2>3. \A c \in Square :
           /\ c \in Takes(wsegs', r) => monsters'[c] = m /\ monsters[c] \in {m, Nobody}
           /\ c \notin Takes(wsegs', r) =>
                monsters'[c] = IF monsters[c] = m THEN Nobody ELSE monsters[c]
    <3> HIDE DEF headed, a, no
    <3> QED
      BY <1>1, <1>5, <2>1, <2>2
  <2> HIDE DEF headed, a, no
  <2>4. /\ r.there = "away" => r.wormno < MaxSegs
        /\ r.there = "level" => r.at \in Square
        /\ SlotOf(r) = 0 /\ SlotOf(monst[m]) = 0
        /\ wsegs' \in SegsSet /\ monsters' \in MapSet
        /\ \A i \in Slot : wsegs'[i] = wsegs[i]
    BY <1>2, <1>3, <1>4, <1>5, <1>6, <2>1
  <2> QED
    BY ZenonT(60), <1>1, <1>3, <2>3, <2>4, OneMonster
<1>7. CASE no # 0
  <2>1. Last(q) = a /\ x \notin ToSet(q) /\ \A c \in ToSet(q) : c \in Square /\ monsters[c] = m
    <3>1. \A c \in ToSet(q) : c \in Square /\ c \in Body(m)
      BY <1>2, <1>7, ToSetOf DEF Body
    <3>2. Last(q) = a
      BY <1>2, <1>7 DEF Lying
    <3>3. \A c \in ToSet(q) : monsters[c] = m
      BY <1>2, <3>1
    <3> QED
      BY <1>1, <1>4, <3>1, <3>2, <3>3
  <2>2. \A c \in Square : monsters[c] = m => c \in ToSet(q)
    <3>1. a \in ToSet(q)
      <4>1. Len(q) \in 1 .. Len(q) /\ q[Len(q)] = a
        BY <1>2, <1>7, <2>1 DEF Last
      <4> QED
        BY <1>2, <1>7, <4>1, ToSetOf
    <3>2. \A c \in Body(m) : c = a \/ c \in ToSet(q)
      BY DEF Body
    <3> QED
      BY <1>2, <3>1, <3>2
  <2>3. filled \in MapSet /\ \A c \in Square : filled[c] = IF c = x \/ c = a THEN m ELSE monsters[c]
    <3>1. Last(q) = a
      BY <2>1
    <3> HIDE DEF headed, q, a
    <3> QED
      BY <1>2, <1>4, <1>5, <3>1 DEF Put, MapSet
  <2>4. /\ Append(q, x) \in Seq(Square) /\ Lying(Append(q, x), x) /\ Len(Append(q, x)) = Len(q) + 1
        /\ \A c : c \in ToSet(Append(q, x)) <=> c \in ToSet(q) \/ c = x
    BY <1>1, <1>2, <1>7, <2>1, TailGrows
  <2>5. \/ /\ Len(q) < MaxSegs /\ monsters' = filled
           /\ wsegs' = [wsegs EXCEPT ![no] = Append(@, x)]
        \/ /\ monsters' = Erase(filled, {Head(q)})
           /\ wsegs' = [wsegs EXCEPT ![no] = Append(Tail(@), x)]
    BY <1>7 DEF Moves
  <2>6. wsegs[no] = q
    BY DEF Segs
  <2>7. ASSUME NEW t \in Seq(Square), Lying(t, x), Len(t) <= MaxSegs,
               wsegs' = [wsegs EXCEPT ![no] = t], monsters' \in MapSet,
               \A c \in Square : monsters'[c] = IF c \in ToSet(t) THEN m
                                                ELSE IF monsters[c] = m THEN Nobody ELSE monsters[c],
               \A c \in ToSet(t) : monsters[c] \in {m, Nobody}
        PROVE  WormInv'
    <3>1. wsegs' \in SegsSet /\ wsegs'[no] = t /\ \A i \in Slot : i # no => wsegs'[i] = wsegs[i]
      BY <1>2, <1>4, <1>7, <2>7 DEF SegsSet
    <3>2. x \in ToSet(t)
      <4>1. t # <<>> /\ t[Len(t)] = x
        BY <2>7 DEF Lying, Last
      <4>2. Len(t) \in 1 .. Len(t)
        BY <4>1, EmptySeq
      <4> QED
        BY <4>1, <4>2, ToSetOf
    <3>3. Takes(wsegs', r) = ToSet(t)
      BY <1>3, <1>7, <3>1, <3>2 DEF Takes
    <3>4. \A c \in Square :
           /\ c \in Takes(wsegs', r) => monsters'[c] = m /\ monsters[c] \in {m, Nobody}
           /\ c \notin Takes(wsegs', r) =>
                monsters'[c] = IF monsters[c] = m THEN Nobody ELSE monsters[c]
      BY <2>7, <3>3
    <3>5. /\ r.there = "away" => r.wormno < MaxSegs
          /\ r.there = "level" => r.at \in Square
          /\ SlotOf(r) # 0 =>
               /\ SlotOf(r) = SlotOf(monst[m]) \/ wsegs[SlotOf(r)] = <<>>
               /\ r.long /\ Lying(wsegs'[SlotOf(r)], r.at) /\ Len(wsegs'[SlotOf(r)]) <= MaxSegs
          /\ \A i \in Slot : i # SlotOf(monst[m]) /\ i # SlotOf(r) => wsegs'[i] = wsegs[i]
          /\ SlotOf(monst[m]) # 0 /\ SlotOf(monst[m]) # SlotOf(r) => wsegs'[SlotOf(monst[m])] = <<>>
      <4> HIDE DEF no
      <4> QED
        BY <1>2, <1>3, <1>7, <2>7, <3>1
    <3> HIDE DEF no, a
    <3> QED
      BY ZenonT(60), <1>1, <1>3, <2>7, <3>1, <3>4, <3>5, OneMonster
  <2> HIDE DEF filled, headed, a, no, q
  <2>8. CASE /\ Len(q) < MaxSegs /\ monsters' = filled
             /\ wsegs' = [wsegs EXCEPT ![no] = Append(@, x)]
    <3> DEFINE t == Append(q, x)
    <3>1. t \in Seq(Square) /\ Lying(t, x) /\ Len(t) <= MaxSegs /\ wsegs' = [wsegs EXCEPT ![no] = t]
      <4>1. Len(q) + 1 <= MaxSegs
        BY <1>2, <1>7, <2>8, WormAssumption
      <4> QED
        BY <1>2, <1>7, <2>4, <2>6, <2>8, <4>1
    <3>2. \A c : c \in ToSet(t) <=> c \in ToSet(q) \/ c = x
      BY <2>4
    <3> HIDE DEF t
    <3>3. \A c \in Square : monsters'[c] = IF c \in ToSet(t) THEN m
                                           ELSE IF monsters[c] = m THEN Nobody ELSE monsters[c]
      BY <1>2, <2>1, <2>2, <2>3, <2>8, <3>2
    <3>4. \A c \in ToSet(t) : monsters[c] \in {m, Nobody}
      BY <1>1, <2>1, <3>2
    <3> QED
      BY <2>3, <2>7, <2>8, <3>1, <3>3, <3>4
  <2>9. CASE /\ monsters' = Erase(filled, {Head(q)})
             /\ wsegs' = [wsegs EXCEPT ![no] = Append(Tail(@), x)]
    <3> DEFINE u == Append(q, x)
               t == SubSeq(u, 2, Len(u))
    <3>0. Len(q) \in Nat /\ 1 <= Len(q) /\ q # <<>> /\ q[1] = Head(q)
      BY <1>2, <1>7, EmptySeq
    <3>1. u \in Seq(Square) /\ Lying(u, x) /\ Len(u) = Len(q) + 1 /\ u # <<>>
          /\ \A c : c \in ToSet(u) <=> c \in ToSet(q) \/ c = x
      BY <2>4, AppendProperties DEF Lying
    <3>2. t = Append(Tail(q), x)
      <4>1. t = Tail(u)
        BY <3>1, TailIsSubSeq
      <4>2. Tail(u) = Append(Tail(q), x)
        BY <1>2, <1>7, <3>0, HeadTailAppend
      <4> QED
        BY <4>1, <4>2
    <3>3. u[1] = Head(q)
      BY <1>2, <1>7, <3>0, AppendProperties
    <3> HIDE DEF u
    <3>4. 2 \in 1 .. Len(u) /\ Len(u) \in 2 .. Len(u) /\ Len(u) - 2 + 1 <= MaxSegs /\ u[Len(u)] = x
          /\ 1 \in 1 .. Len(u) /\ DOMAIN u = 1 .. Len(u)
      <4>1. u[Len(u)] = x /\ DOMAIN u = 1 .. Len(u)
        BY <3>1, LenProperties DEF Lying, Last
      <4>2. Len(q) <= MaxSegs /\ Len(u) = Len(q) + 1
        BY <1>2, <1>7, <3>1
      <4> QED
        BY <3>0, <4>1, <4>2, WormAssumption
    <3>5. /\ t \in Seq(Square) /\ Lying(t, x) /\ Len(t) <= MaxSegs
          /\ \A c : c \in ToSet(t) <=> \E n \in 2 .. Len(u) : u[n] = c
      BY <3>1, <3>4, PartOfTail
    <3> HIDE DEF t
    <3>6. \A c : c \in ToSet(t) <=> (c \in ToSet(q) \/ c = x) /\ c # Head(q)
      <4> TAKE c
      <4>1. c \in ToSet(u) <=> \E n \in 1 .. Len(u) : u[n] = c
        BY <3>1, ToSetOf
      <4>2. \A n \in 1 .. Len(u) : n = 1 \/ n \in 2 .. Len(u)
        <5>1. Len(u) \in Int
          BY <3>0, <3>1
        <5> QED
          BY <5>1
      <4>3. \A n \in 2 .. Len(u) : n \in 1 .. Len(u) /\ n # 1
        <5>1. Len(u) \in Int
          BY <3>0, <3>1
        <5> QED
          BY <5>1
      <4>4. \A n \in 2 .. Len(u) : u[n] # u[1]
        BY <3>1, <3>4, <4>3 DEF Lying
      <4> QED
        BY <3>1, <3>3, <3>5, <4>1, <4>2, <4>3, <4>4
    <3>7. wsegs' = [wsegs EXCEPT ![no] = t]
      BY <1>2, <1>4, <1>7, <2>6, <2>9, <3>2
    <3>8. Head(q) \in ToSet(q) /\ Head(q) # x
      <4>1. 1 \in 1 .. Len(q)
        BY <3>0
      <4>2. Head(q) \in ToSet(q)
        BY <1>2, <1>7, <3>0, <4>1, ToSetOf
      <4> QED
        BY <2>1, <4>2
    <3>9. /\ monsters' \in MapSet
          /\ \A c \in Square : monsters'[c] = IF c = Head(q) THEN Nobody ELSE filled[c]
      BY <2>3, <2>9 DEF Erase, MapSet
    <3>10. ASSUME NEW c \in Square
           PROVE  monsters'[c] = IF c \in ToSet(t) THEN m
                                 ELSE IF monsters[c] = m THEN Nobody ELSE monsters[c]
      BY <1>2, <2>1, <2>2, <2>3, <3>6, <3>8, <3>9
    <3>11. \A c \in ToSet(t) : monsters[c] \in {m, Nobody}
      BY <1>1, <2>1, <3>6
    <3> QED
      BY <2>7, <3>5, <3>7, <3>9, <3>10, <3>11
  <2> QED
    BY <2>5, <2>8, <2>9
<1> QED
  BY <1>6, <1>7

-----------------------------------------------------------------------------
\* cutworm keeps it when the part cut off lives: the old worm is cut short,
\* then its clone comes to the free squares with the rest of the list.
LEMMA HalvedKeeps ==
  ASSUME WormInv, ~muddled, NEW m \in Creature, NEW n \in Creature, NEW x \in Square, Halved(m, n, x)
  PROVE  WormInv'
<1> DEFINE k == FirstCut(m, x)
           q == Segs(m)
           a == monst[m].wormno
           no == GetWormno
           old == CutOff(m, x)
           new == LeftOver(m, x)
           r == [monst[m] EXCEPT !.at = x, !.wormno = no]
           ws1 == [wsegs EXCEPT ![a] = new]
           g1 == Erase(monsters, ToSet(old))
           cloned == Put(monsters, n, {x})
<1>1. PICK replaced \in {monst[m].named, TRUE} :
      /\ Hit(m, x) /\ no # 0 /\ monst[n].there = "none"
      /\ monsters' = Put(IF replaced THEN Put(cloned, n, ToSet(Front(new))) ELSE cloned, n,
                         ToSet(Front(old)))
      /\ wsegs' = [wsegs EXCEPT ![a] = new, ![no] = old]
      /\ monst' = [monst EXCEPT ![n] = r]
      /\ muddled' = (muddled \/ (replaced /\ Len(new) > 1))
  BY DEF Halved
<1> DEFINE drawn == IF replaced THEN Put(cloned, n, ToSet(Front(new))) ELSE cloned
<1>2. OnLevel(m) /\ a # 0 /\ k \in 1 .. Len(q) - 1 /\ q[k] = x
  BY <1>1, Severed
<1>3. /\ a \in Slot /\ q \in Seq(Square) /\ Lying(q, monst[m].at) /\ monst[m].long
      /\ Len(q) \in Nat \ {0} /\ Len(q) <= MaxSegs /\ monst[m].at \in Square
      /\ SlotOf(monst[m]) = a
      /\ \A c \in Square : monsters[c] = m <=> c \in Body(m)
  BY <1>2, OnMap
<1>4. no \in Slot /\ wsegs[no] = <<>> /\ wsegs[a] = q /\ no # a /\ no \in 0 .. MAX_NUM_WORMS - 1
  BY <1>1, <1>3, FreeSlot DEF Segs, Lying
<1>5. old = SubSeq(q, 1, k) /\ new = SubSeq(q, k + 1, Len(q))
  BY DEF CutOff, LeftOver
<1>6. /\ ws1 \in SegsSet /\ g1 \in MapSet /\ Whole(ws1, monst) /\ Shown(g1, ws1, monst)
      /\ \A i \in Slot : Len(ws1[i]) <= MaxSegs
      /\ \A c \in ToSet(old) : c \in Square /\ g1[c] = Nobody
  <2>1. LET ws == [wsegs EXCEPT ![monst[m].wormno] = SubSeq(Segs(m), k + 1, Len(Segs(m)))]
            g == Erase(monsters, ToSet(SubSeq(Segs(m), 1, k)))
        IN  /\ ws \in SegsSet /\ g \in MapSet /\ Whole(ws, monst) /\ Shown(g, ws, monst)
            /\ \A i \in Slot : Len(ws[i]) <= MaxSegs
            /\ \A c \in ToSet(SubSeq(Segs(m), 1, k)) : c \in Square /\ g[c] = Nobody
    <3> HIDE DEF k
    <3> QED
      BY <1>2, CutShort
  <2> QED
    BY <1>5, <2>1
<1>7. r \in Rec /\ r.there = "level" /\ r.at = x /\ r.long /\ r.wormno = no /\ SlotOf(r) = no
  <2>1. monst[m] \in Rec
    BY Types
  <2> QED
    BY <1>2, <1>3, <1>4, <2>1 DEF Rec, OnLevel, SlotOf
<1>8. /\ old \in Seq(Square) /\ Lying(old, x) /\ Len(old) = k /\ k <= MaxSegs /\ k \in Nat
      /\ x \in ToSet(old) /\ \A c : c \in ToSet(old) <=> c \in ToSet(Front(old)) \/ c = x
  <2> HIDE DEF q, k, old, new
  <2>1. /\ 1 \in 1 .. Len(q) /\ k \in 1 .. Len(q) /\ k - 1 + 1 = k /\ k <= MaxSegs /\ k \in Nat
        /\ k \in 1 .. k /\ k >= 1
    BY <1>2, <1>3, WormAssumption
  <2>2. old \in Seq(Square) /\ Lying(old, x) /\ Len(old) = k
    BY <1>2, <1>3, <1>5, <2>1, PartOfTail
  <2>3. /\ DOMAIN old = 1 .. k /\ old[k] = x
    BY <2>2, LenProperties DEF Lying, Last
  <2>4. \A c : c \in ToSet(old) <=> \E i \in 1 .. k : old[i] = c
    BY <2>2, ToSetOf
  <2>5. /\ Front(old) \in Seq(Square) /\ Len(Front(old)) = k - 1
        /\ \A i \in 1 .. k - 1 : Front(old)[i] = old[i]
    <3>1. \A i \in 1 .. k - 1 : old[i] \in Square
      BY <2>1, <2>2, ElementOfSeq
    <3>2. Front(old) = SubSeq(old, 1, k - 1) /\ k - 1 \in Int /\ 1 \in Int
      BY <2>1, <2>2 DEF Front
    <3>3. /\ SubSeq(old, 1, k - 1) \in Seq(Square)
          /\ Len(SubSeq(old, 1, k - 1)) = IF 1 <= k - 1 THEN (k - 1) - 1 + 1 ELSE 0
          /\ \A i \in 1 .. (k - 1) - 1 + 1 : SubSeq(old, 1, k - 1)[i] = old[1 + i - 1]
      BY <3>1, <3>2, SubSeqProperties
    <3> QED
      BY <2>1, <3>2, <3>3
  <2>6. \A c : c \in ToSet(Front(old)) <=> \E i \in 1 .. k - 1 : Front(old)[i] = c
    BY <2>5, ToSetOf
  <2>7. \A i \in 1 .. k : i = k \/ i \in 1 .. k - 1
    BY <2>1
  <2>8. \A i \in 1 .. k - 1 : i \in 1 .. k
    BY <2>1
  <2> QED
    BY <2>1, <2>2, <2>3, <2>4, <2>5, <2>6, <2>7, <2>8
<1>9. ~muddled' => drawn = cloned
  <2> SUFFICES ASSUME ~muddled', replaced PROVE drawn = cloned
    OBVIOUS
  <2>1. ~(Len(new) > 1)
    BY <1>1
  <2>2. new \in Seq(Square) /\ Len(new) \in Nat
    <3> HIDE DEF q, k, new, old
    <3>1. k + 1 \in Int /\ Len(q) \in Int /\ \A i \in k + 1 .. Len(q) : q[i] \in Square
      BY <1>2, <1>3, ElementOfSeq
    <3>2. new \in Seq(Square)
      BY <1>5, <3>1, SubSeqProperties
    <3> QED
      BY <3>2, LenProperties
  <2>3. Front(new) = <<>>
    <3> HIDE DEF new
    <3>1. Len(new) - 1 \in Int /\ Len(new) - 1 < 1
      BY <2>1, <2>2
    <3> QED
      BY <3>1, SubSeqEmpty DEF Front
  <2>4. ToSet(Front(new)) = {}
    BY <2>3 DEF ToSet
  <2>5. cloned \in [Square -> Creature \cup {Nobody}]
    BY Types DEF MapSet, Put
  <2> QED
    BY <2>4, <2>5 DEF Put
<1> DEFINE ms2 == monst'
           ws2 == wsegs'
           g2 == monsters'
<1>10. /\ ms2 \in [Creature -> Rec] /\ ms2[n] = r /\ \A o \in Creature : o # n => ms2[o] = monst[o]
       /\ monst \in [Creature -> Rec]
  BY <1>1, <1>7, Types
<1>11. ws2 \in SegsSet /\ ws2[no] = old /\ \A i \in Slot : i # no => ws2[i] = ws1[i]
  <2>1. wsegs \in SegsSet /\ new \in Seq(Square)
    <3>1. ws1[a] = new /\ ws1[a] \in Seq(Square)
      BY <1>3, <1>6, Types DEF SegsSet
    <3> QED
      BY <3>1, Types
  <2> HIDE DEF old, new, no, a
  <2> QED
    BY <1>1, <1>3, <1>4, <1>8, <2>1 DEF SegsSet
<1>12. ws1[no] = <<>> /\ SlotOf(monst[n]) = 0 /\ Takes(ws1, monst[n]) = {}
  <2>1. ws1[no] = wsegs[no]
    BY <1>3, <1>4, Types DEF SegsSet
  <2> QED
    BY <1>1, <1>4, <2>1 DEF SlotOf, Takes
<1> HIDE DEF r, ws1, g1, ms2, ws2, old, new, no, a, k, q
<1>13. /\ \A i \in Slot : i # SlotOf(monst[n]) /\ i # SlotOf(ms2[n]) => ws2[i] = ws1[i]
       /\ SlotOf(monst[n]) # 0 /\ SlotOf(monst[n]) # SlotOf(ms2[n]) => ws2[SlotOf(monst[n])] = <<>>
       /\ ms2[n].there = "level" => ms2[n].at \in Square
       /\ SlotOf(ms2[n]) # 0 =>
            /\ SlotOf(ms2[n]) = SlotOf(monst[n]) \/ ws1[SlotOf(ms2[n])] = <<>>
            /\ ms2[n].long /\ Lying(ws2[SlotOf(ms2[n])], ms2[n].at)
  BY <1>7, <1>8, <1>10, <1>11, <1>12
<1>14. Whole(ws2, ms2)
  BY <1>6, <1>10, <1>11, <1>13, OneChanges
<1>15. \A o \in Creature : o # n => Takes(ws2, ms2[o]) = Takes(ws1, monst[o])
  BY <1>6, <1>10, <1>11, <1>13, OthersKeep
<1>16. Takes(ws2, ms2[n]) = ToSet(old)
  BY <1>1, <1>4, <1>7, <1>8, <1>10, <1>11 DEF Takes
<1>17. \A c \in Square : g1[c] # n
  BY <1>6, <1>12 DEF Shown
<1>18. \A c \in Square : g1[c] = IF c \in ToSet(old) THEN Nobody ELSE monsters[c]
  BY DEF g1, Erase
<1>19. monsters' \in MapSet
  <2>1. cloned \in MapSet
    BY Types DEF Put, MapSet
  <2> HIDE DEF cloned
  <2>2. drawn \in MapSet
    BY <2>1 DEF Put, MapSet
  <2> HIDE DEF drawn
  <2>3. monsters' = Put(drawn, n, ToSet(Front(old)))
    BY <1>1 DEF drawn
  <2> QED
    BY <2>2, <2>3 DEF Put, MapSet
<1>20. ~muddled' => Shown(g2, ws2, ms2)
  <2> HAVE ~muddled'
  <2>1. monsters' = Put(Put(monsters, n, {x}), n, ToSet(Front(old)))
    BY <1>1, <1>9
  <2>2. \A c \in Square : g2[c] = IF c \in ToSet(old) THEN n ELSE monsters[c]
    BY <1>8, <2>1 DEF Put
  <2> HIDE DEF g2
  <2>3. \A c \in Square :
           /\ c \in Takes(ws2, ms2[n]) => g2[c] = n /\ g1[c] \in {n, Nobody}
           /\ c \notin Takes(ws2, ms2[n]) => g2[c] = IF g1[c] = n THEN Nobody ELSE g1[c]
    BY <1>16, <1>17, <1>18, <2>2
  <2> QED
    BY <1>6, <1>15, <2>3, MapFollows
<1>21. \A i \in Slot : Len(ws2[i]) <= MaxSegs
  BY <1>6, <1>8, <1>11
<1>22. \A o \in Creature : monst'[o].there = "away" => monst'[o].wormno < MaxSegs
  BY <1>7, <1>10 DEF WormInv, ms2
<1>23. muddled' \in BOOLEAN
  BY <1>1 DEF WormInv, WormTypeOK
<1>24. WormTypeOK'
  BY <1>10, <1>11, <1>19, <1>21, <1>23 DEF WormTypeOK, SegsSet, MapSet, Rec, ms2, ws2
<1> QED
  BY <1>14, <1>20, <1>22, <1>24 DEF WormInv, ms2, ws2

-----------------------------------------------------------------------------
\* mnearto keeps it: both are lifted, and set down one after the other.
LEMMA OustsKeeps ==
  ASSUME WormInv, ~muddled, NEW m \in Creature, NEW o \in Creature, Ousts(m, o)
  PROVE  WormInv'
<1> DEFINE x == monst[o].at
           picked == Erase(Erase(monsters, Body(o)), Body(m))
           s == OwnSegs(m)
           t == OwnSegs(o)
           a == monst[m].wormno
           b == monst[o].wormno
<1>1. OnLevel(m) /\ OnLevel(o) /\ m # o
  BY DEF Ousts
<1>2. PICK d \in SetDown(picked, m, x, s), y \in Square :
        /\ <<x, y>> \in Beside /\ d.map[y] = Nobody
        /\ \E e \in SetDown(d.map, o, y, t) :
             /\ monsters' = e.map
             /\ wsegs' = [i \in Slot |-> IF i = a THEN d.segs ELSE IF i = b THEN e.segs ELSE wsegs[i]]
             /\ muddled' = (muddled \/ d.taken \/ e.taken)
        /\ monst' = [monst EXCEPT ![m].at = x, ![o].at = y]
  BY DEF Ousts
<1>3. PICK e \in SetDown(d.map, o, y, t) :
        /\ monsters' = e.map
        /\ wsegs' = [i \in Slot |-> IF i = a THEN d.segs ELSE IF i = b THEN e.segs ELSE wsegs[i]]
        /\ muddled' = (muddled \/ d.taken \/ e.taken)
  BY <1>2
<1>4. /\ wsegs \in SegsSet /\ monst \in [Creature -> Rec] /\ monsters \in MapSet
      /\ Whole(wsegs, monst) /\ Shown(monsters, wsegs, monst)
      /\ \A i \in Slot : Len(wsegs[i]) <= MaxSegs
  BY Types DEF WormInv, WormTypeOK
<1>5. /\ x \in Square /\ SlotOf(monst[o]) = b /\ SlotOf(monst[m]) = a
      /\ a # 0 => a \in Slot /\ monst[m].long
      /\ b # 0 => b \in Slot /\ monst[o].long
      /\ \A c \in Square : monsters[c] = m <=> c \in Body(m)
      /\ \A c \in Square : monsters[c] = o <=> c \in Body(o)
  BY <1>1, OnMap
<1>6. a # 0 => a # b
  <2> HIDE DEF a, b
  <2> QED
    BY <1>1, <1>4, <1>5 DEF Whole
<1>7. /\ s \in Seq(Square) /\ Len(s) <= MaxSegs /\ (a = 0 <=> s = <<>>)
      /\ t \in Seq(Square) /\ Len(t) <= MaxSegs /\ (b = 0 <=> t = <<>>)
  BY <1>1, Lifted
<1>8. s \in Seq(Square \cup {0}) /\ t \in Seq(Square \cup {0})
  BY <1>7, SeqMonotonic
<1>9. Nobody \notin Creature /\ 0 \notin Slot
  BY WormAssumption DEF Slot
\* First the other one is picked up,
<1> DEFINE r1 == [monst[o] EXCEPT !.there = "none"]
           ms1 == [monst EXCEPT ![o] = r1]
           ws1 == [i \in Slot |-> IF i = b THEN <<>> ELSE wsegs[i]]
           g1 == Erase(monsters, Body(o))
<1>10. /\ ms1 \in [Creature -> Rec] /\ ms1[o] = r1 /\ \A n \in Creature : n # o => ms1[n] = monst[n]
       /\ r1 \in Rec /\ SlotOf(r1) = 0 /\ r1.there = "none" /\ \A ws : Takes(ws, r1) = {}
  <2>1. r1 \in Rec /\ r1.there = "none"
    BY <1>4 DEF Rec
  <2> HIDE DEF r1
  <2> QED
    BY <1>4, <2>1 DEF SlotOf, Takes
<1>11. ws1 \in SegsSet /\ \A i \in Slot : ws1[i] = IF i = b THEN <<>> ELSE wsegs[i]
  <2>1. <<>> \in Seq(Square)
    BY EmptySeq
  <2> QED
    BY <1>4, <2>1 DEF SegsSet
<1>12. g1 \in MapSet /\ \A c \in Square : g1[c] = IF monsters[c] = o THEN Nobody ELSE monsters[c]
  BY <1>4, <1>5 DEF Erase, MapSet
<1> HIDE DEF r1, ms1, ws1, g1, x, s, t, a, b
<1>13. Whole(ws1, ms1)
  <2>1. /\ \A i \in Slot : i # SlotOf(monst[o]) /\ i # SlotOf(ms1[o]) => ws1[i] = wsegs[i]
        /\ SlotOf(monst[o]) # 0 /\ SlotOf(monst[o]) # SlotOf(ms1[o]) => ws1[SlotOf(monst[o])] = <<>>
        /\ ms1[o].there # "level" /\ SlotOf(ms1[o]) = 0
    BY <1>5, <1>10, <1>11
  <2> QED
    BY <1>4, <1>10, <1>11, <2>1, OneChanges
<1>14. Shown(g1, ws1, ms1)
  <2>1. \A i \in Slot : i # SlotOf(monst[o]) /\ i # SlotOf(ms1[o]) => ws1[i] = wsegs[i]
    BY <1>5, <1>11
  <2>2. \A n \in Creature : n # o => Takes(ws1, ms1[n]) = Takes(wsegs, monst[n])
    BY <1>4, <1>10, <1>11, <2>1, OthersKeep
  <2>3. \A c \in Square :
           /\ c \in Takes(ws1, ms1[o]) => g1[c] = o /\ monsters[c] \in {o, Nobody}
           /\ c \notin Takes(ws1, ms1[o]) => g1[c] = IF monsters[c] = o THEN Nobody ELSE monsters[c]
    BY <1>10, <1>12
  <2> QED
    BY <1>4, <2>2, <2>3, MapFollows
<1>15. \A i \in Slot : Len(ws1[i]) <= MaxSegs
  <2>1. Len(<<>>) <= MaxSegs
    BY WormAssumption
  <2> QED
    BY <1>4, <1>11, <2>1
\* then m is set down in its place,
<1> DEFINE r2 == [monst[m] EXCEPT !.at = x]
           ms2 == [ms1 EXCEPT ![m] = r2]
           ws2 == [i \in Slot |-> IF i = a THEN d.segs ELSE ws1[i]]
<1>16. picked \in MapSet /\ Cleared(g1, picked, m, x)
  <2>1. picked = Erase(g1, Body(m))
    BY DEF g1
  <2>2. picked \in MapSet /\ \A c \in Square : picked[c] = IF c \in Body(m) THEN Nobody ELSE g1[c]
    BY <1>12, <2>1 DEF Erase, MapSet
  <2> HIDE DEF picked
  <2>3. \A c \in Square : c \in Body(m) <=> g1[c] = m
    BY <1>1, <1>5, <1>9, <1>12
  <2>4. monsters[x] = o
    BY <1>5 DEF Body, x
  <2> QED
    BY <1>5, <1>12, <2>2, <2>3, <2>4 DEF Cleared
<1> HIDE DEF picked
<1>17. /\ r2 \in Rec /\ r2.there = "level" /\ r2.at = x /\ r2.wormno = a /\ r2.long = monst[m].long
       /\ SlotOf(r2) = a
  <2>1. monst[m] \in Rec /\ monst[m].there = "level"
    BY <1>1, <1>4 DEF OnLevel
  <2> QED
    BY <1>5, <2>1 DEF Rec, SlotOf, a
<1>18. d \in SetDown(picked, m, x, s) /\ d.segs \in Seq(Square)
  <2>1. d \in SetDown(picked, m, x, s)
    BY <1>2
  <2> QED
    BY <1>5, <1>8, <1>16, <2>1, TailPlaced
<1>19. ws2 \in SegsSet /\ \A i \in Slot : ws2[i] = IF i = a THEN d.segs ELSE ws1[i]
  BY <1>11, <1>18 DEF SegsSet
<1> HIDE DEF r2, ws2
<1>20. Fits(ms1, ws1, m, x, r2, s, picked, d, ws2)
  <2>1. SlotOf(ms1[m]) = a
    BY <1>1, <1>5, <1>10
  <2>2. \A i \in Slot : ws2[i] = IF i = r2.wormno THEN d.segs
                                 ELSE IF i = SlotOf(ms1[m]) THEN <<>> ELSE ws1[i]
    BY <1>17, <1>19, <2>1
  <2> QED
    BY <1>5, <1>7, <1>8, <1>16, <1>17, <1>18, <1>19, <2>1, <2>2 DEF Fits
<1>22. /\ ms2 \in [Creature -> Rec] /\ ms2[o] = r1 /\ ms2[m] = r2
       /\ \A n \in Creature : n # m => ms2[n] = ms1[n]
       /\ \A n \in Creature : n # m /\ n # o => ms2[n] = monst[n]
  BY <1>1, <1>10, <1>17
<1> HIDE DEF ms2
<1>21. /\ d.map \in MapSet /\ d.taken \in BOOLEAN
       /\ Whole(ws2, ms2) /\ \A i \in Slot : Len(ws2[i]) <= MaxSegs
       /\ ~d.taken => Shown(d.map, ws2, ms2)
  BY <1>5, <1>10, <1>11, <1>12, <1>13, <1>14, <1>15, <1>16, <1>20, <1>22, SettlesIn
\* and the other one beside it.
<1> DEFINE r3 == [monst[o] EXCEPT !.at = y]
           ms3 == monst'
           ws3 == wsegs'
           g2 == d.map
<1>23. /\ r3 \in Rec /\ r3.there = "level" /\ r3.at = y /\ r3.wormno = b /\ r3.long = monst[o].long
  <2>1. monst[o] \in Rec /\ monst[o].there = "level"
    BY <1>1, <1>4 DEF OnLevel
  <2> QED
    BY <2>1 DEF Rec, b
<1> HIDE DEF r3
<1>24. ms3 = [ms2 EXCEPT ![o] = r3]
  <2>1. monst' = [monst EXCEPT ![m] = r2, ![o] = r3]
    BY <1>1, <1>2, <1>4 DEF r2, r3
  <2>2. /\ [ms2 EXCEPT ![o] = r3] \in [Creature -> Rec] /\ [monst EXCEPT ![m] = r2, ![o] = r3] \in [Creature -> Rec]
    BY <1>4, <1>17, <1>22, <1>23
  <2>3. \A n \in Creature : [ms2 EXCEPT ![o] = r3][n] = [monst EXCEPT ![m] = r2, ![o] = r3][n]
    BY <1>1, <1>4, <1>22
  <2> QED
    BY <2>1, <2>2, <2>3
<1>b. ms3 \in [Creature -> Rec] /\ ms3[o] = r3 /\ \A n \in Creature : n # o => ms3[n] = ms2[n]
  <2> HIDE DEF ms3
  <2> QED
    BY <1>22, <1>23, <1>24
<1>25. e \in SetDown(g2, o, y, t) /\ e.segs \in Seq(Square)
  <2>1. e \in SetDown(g2, o, y, t)
    BY <1>3
  <2> HIDE DEF g2
  <2>2. g2 \in MapSet
    BY <1>21 DEF g2
  <2> QED
    BY <1>8, <2>1, <2>2, TailPlaced
<1>26. ws3 \in SegsSet /\ \A i \in Slot : ws3[i] = IF i = b THEN e.segs ELSE ws2[i]
  <2>1. wsegs' = [i \in Slot |-> IF i = a THEN d.segs ELSE IF i = b THEN e.segs ELSE wsegs[i]]
    BY <1>3
  <2>2. wsegs' \in SegsSet
    BY <1>4, <1>18, <1>25, <2>1 DEF SegsSet
  <2>3. \A i \in Slot : wsegs'[i] = IF i = b THEN e.segs ELSE ws2[i]
    BY <1>6, <1>9, <1>11, <1>19, <2>1
  <2> QED
    BY <2>2, <2>3
<1> HIDE DEF ms3, ws3, g2
<1>27. Fits(ms2, ws2, o, y, r3, t, g2, e, ws3)
  <2>1. SlotOf(ms2[o]) = 0
    BY <1>10, <1>22
  <2>2. b # 0 => ws2[b] = <<>>
    BY <1>5, <1>6, <1>11, <1>19
  <2>3. \A i \in Slot : ws3[i] = IF i = r3.wormno THEN e.segs
                                 ELSE IF i = SlotOf(ms2[o]) THEN <<>> ELSE ws2[i]
    BY <1>9, <1>23, <1>26, <2>1
  <2>4. g2 \in MapSet
    BY <1>21 DEF g2
  <2> QED
    BY <1>5, <1>7, <1>8, <1>23, <1>25, <1>26, <2>1, <2>2, <2>3, <2>4 DEF Fits
<1>28. ~d.taken => Cleared(g2, g2, o, y)
  <2> HAVE ~d.taken
  <2>1. \A c \in Square : g2[c] # o
    BY <1>10, <1>21, <1>22 DEF Shown, g2
  <2>2. g2[y] = Nobody
    BY <1>2 DEF g2
  <2> QED
    BY <2>1, <2>2 DEF Cleared
<1>29. /\ ws3 \in SegsSet /\ e.map \in MapSet /\ e.taken \in BOOLEAN
       /\ Whole(ws3, ms3) /\ \A i \in Slot : Len(ws3[i]) <= MaxSegs
       /\ ~d.taken /\ ~e.taken => Shown(e.map, ws3, ms3)
  <2>1. g2 \in MapSet /\ (~d.taken => Shown(g2, ws2, ms2))
    BY <1>21 DEF g2
  <2> QED
    BY <1>19, <1>21, <1>22, <1>b, <1>27, <1>28, <2>1, SettlesIn
<1>30. \A n \in Creature : monst'[n].there = "away" => monst'[n].wormno < MaxSegs
  <2>1. \A n \in Creature : n # m /\ n # o => ms3[n] = monst[n]
    BY <1>22, <1>b
  <2>2. ms3[m].there = "level" /\ ms3[o].there = "level"
    BY <1>1, <1>17, <1>22, <1>23, <1>b
  <2> QED
    BY <2>1, <2>2 DEF WormInv, ms3
<1>31. muddled' \in BOOLEAN /\ (~muddled' => ~d.taken /\ ~e.taken) /\ monsters' = e.map
  BY <1>3, <1>21, <1>29
<1>32. WormTypeOK'
  BY <1>29, <1>31, <1>b DEF WormTypeOK, SegsSet, MapSet, Rec, ms3, ws3
<1> QED
  BY <1>29, <1>30, <1>31, <1>32 DEF WormInv, ms3, ws3

-----------------------------------------------------------------------------
\* Making the map anew from the lists makes it right.
LEMMA SaveAndRestoreKeeps ==
  ASSUME WormInv, SaveAndRestoreWorms
  PROVE  WormInv'
<1> DEFINE N == Cardinality(Creature)
<1>1. PICK place \in Bijection(Creature, 1 .. N) :
        monsters' = [c \in Square |->
          IF Claims(c) = {} THEN Nobody
          ELSE CHOOSE m \in Claims(c) : \A n \in Claims(c) : place[n] <= place[m]]
  BY DEF SaveAndRestoreWorms
<1>2. N \in Nat
  BY WormAssumption, FS_CardinalityType
<1>3. \A m \in Creature : place[m] \in 1 .. N
  BY <1>1 DEF Bijection, Injection
<1> HIDE DEF N
<1>4. \A c \in Square : Claims(c) # {} => monsters'[c] \in Claims(c)
  <2> TAKE c \in Square
  <2> HAVE Claims(c) # {}
  <2> DEFINE T == {N - place[n] : n \in Claims(c)}
  <2>1. \A n \in Claims(c) : n \in Creature /\ place[n] \in 1 .. N
    BY <1>3 DEF Claims
  <2>2. T \subseteq Nat /\ T # {}
    BY <1>2, <2>1
  <2> HIDE DEF T
  <2>3. PICK k \in T : \A j \in T : k <= j
    BY <2>2, Least
  <2>4. PICK m \in Claims(c) : k = N - place[m]
    BY DEF T
  <2>5. \A n \in Claims(c) : place[n] <= place[m]
    <3> TAKE n \in Claims(c)
    <3>1. k <= N - place[n]
      BY <2>3 DEF T
    <3> QED
      BY <1>2, <2>1, <2>4, <3>1
  <2>6. monsters'[c] = CHOOSE m1 \in Claims(c) : \A n \in Claims(c) : place[n] <= place[m1]
    BY <1>1
  <2> QED
    BY <2>5, <2>6
<1>5. \A c \in Square : Claims(c) = {} => monsters'[c] = Nobody
  BY <1>1
<1>6. \A c \in Square : Claims(c) \subseteq Creature
  BY DEF Claims
<1>7. monsters' \in [Square -> Creature \cup {Nobody}]
  <2>1. DOMAIN monsters' = Square
    BY <1>1
  <2>2. monsters' = [c \in Square |-> monsters'[c]]
    BY <1>1
  <2> QED
    BY <1>4, <1>5, <1>6, <2>2
<1>8. wsegs' = wsegs /\ monst' = monst /\ muddled' = muddled
  BY DEF SaveAndRestoreWorms
<1>9. ASSUME ~muddled
      PROVE  Shown(monsters', wsegs, monst)
  <2>1. \A c \in Square, m \in Creature : m \in Claims(c) <=> c \in Takes(wsegs, monst[m])
    BY DEF Claims, OnLevel, Takes, Body, Segs
  <2>2. \A c \in Square, m \in Creature : m \in Claims(c) <=> monsters[c] = m
    BY <1>9, <2>1 DEF WormInv, Shown
  <2>3. \A c \in Square, m \in Creature : monsters'[c] = m <=> m \in Claims(c)
    <3> TAKE c \in Square, m \in Creature
    <3>1. CASE Claims(c) = {}
      BY <1>5, <3>1, WormAssumption
    <3>2. CASE Claims(c) # {}
      <4>1. monsters'[c] \in Claims(c) /\ monsters'[c] \in Creature
        BY <1>4, <1>6, <3>2
      <4>2. monsters[c] = monsters'[c]
        BY <2>2, <4>1
      <4> QED
        BY <2>2, <4>1, <4>2
    <3> QED
      BY <3>1, <3>2
  <2> QED
    BY <2>1, <2>3 DEF Shown
<1>10. WormTypeOK'
  BY <1>7, <1>8 DEF WormInv, WormTypeOK
<1> QED
  BY <1>8, <1>9, <1>10 DEF WormInv

\* The level starts empty.
LEMMA WormStarts ==
  ASSUME WormInit
  PROVE  WormInv
<1>1. <<>> \in Seq(Square) /\ Len(<<>>) = 0
  BY EmptySeq
<1>2. NoMonst \in Rec /\ NoMonst.there = "none"
  <2>1. FALSE \in BOOLEAN /\ 0 \in 0 .. MAX_NUM_WORMS - 1
    BY WormAssumption
  <2> QED
    BY <2>1 DEF NoMonst, Monst, Rec
<1>3. /\ \A m \in Creature : monst[m] = NoMonst
      /\ \A i \in Slot : wsegs[i] = <<>>
      /\ \A c \in Square : monsters[c] = Nobody
      /\ muddled = FALSE
  BY DEF WormInit
<1>4. WormTypeOK
  <2>1. monst \in [Creature -> Rec]
    BY <1>2 DEF WormInit
  <2>2. wsegs \in [Slot -> Seq(Square)] /\ \A i \in Slot : Len(wsegs[i]) <= MaxSegs
    BY <1>1, WormAssumption DEF WormInit
  <2>3. monsters \in [Square -> Creature \cup {Nobody}]
    BY DEF WormInit
  <2>4. muddled \in BOOLEAN
    BY <1>3
  <2> QED
    BY <2>1, <2>2, <2>3, <2>4 DEF WormTypeOK, Rec
<1>5. \A m \in Creature : SlotOf(monst[m]) = 0 /\ Takes(wsegs, monst[m]) = {}
  BY <1>2, <1>3 DEF SlotOf, Takes
<1>6. Whole(wsegs, monst)
  BY <1>2, <1>3, <1>5 DEF Whole
<1>7. Shown(monsters, wsegs, monst)
  BY <1>3, <1>5, WormAssumption DEF Shown
<1> QED
  BY <1>2, <1>3, <1>4, <1>6, <1>7 DEF WormInv

\* Every step keeps the invariant.
LEMMA WormKept ==
  ASSUME WormInv, [WormNext]_wormVars
  PROVE  WormInv'
<1>1. CASE ~muddled /\ WormStep
  <2>1. ASSUME NEW m \in Creature, NEW x \in Square, Born(m, x)
        PROVE  WormInv'
    BY <1>1, <2>1, BornKeeps
  <2>2. ASSUME NEW m \in Creature, NEW x \in Square, Moves(m, x)
        PROVE  WormInv'
    BY <1>1, <2>2, MovesKeeps
  <2>3. ASSUME NEW m \in Creature, NEW x \in Square, Docked(m, x)
        PROVE  WormInv'
    BY <1>1, <2>3, DockedKeeps
  <2>4. ASSUME NEW m \in Creature, NEW x \in Square, Arrives(m, x)
        PROVE  WormInv'
    BY <1>1, <2>4, ArrivesKeeps
  <2>5. ASSUME NEW m \in Creature, NEW x \in Square, Relocated(m, x)
        PROVE  WormInv'
    BY <1>1, <2>5, RelocatedKeeps
  <2>6. ASSUME NEW m \in Creature, NEW n \in Creature, NEW x \in Square, Halved(m, n, x)
        PROVE  WormInv'
    BY <1>1, <2>6, HalvedKeeps
  <2>7. ASSUME NEW m \in Creature, NEW o \in Creature, Ousts(m, o)
        PROVE  WormInv'
    BY <1>1, <2>7, OustsKeeps
  <2>8. ASSUME NEW m \in Creature, Rests(m)
        PROVE  WormInv'
    BY <1>1, <2>8, RestsKeeps
  <2>9. ASSUME NEW m \in Creature, Replaced(m)
        PROVE  WormInv'
    BY <1>1, <2>9, ReplacedKeeps
  <2>10. ASSUME NEW m \in Creature, Killed(m)
         PROVE  WormInv'
    BY <1>1, <2>10, KilledKeeps
  <2>11. ASSUME NEW m \in Creature, Departs(m)
         PROVE  WormInv'
    BY <1>1, <2>11, DepartsKeeps
  <2>12. ASSUME NEW m \in Creature, ChangesShape(m)
         PROVE  WormInv'
    BY <1>1, <2>12, ChangesShapeKeeps
  <2> QED
    BY <1>1, <2>1, <2>2, <2>3, <2>4, <2>5, <2>6, <2>7, <2>8, <2>9, <2>10, <2>11, <2>12 DEF WormStep
<1>2. CASE SaveAndRestoreWorms
  BY <1>2, SaveAndRestoreKeeps
<1>3. CASE UNCHANGED wormVars
  BY <1>3 DEF wormVars, WormInv, WormTypeOK
<1> QED
  BY <1>1, <1>2, <1>3 DEF WormNext

\* What the invariant says, in the words of TailsWhole.
LEMMA TailsAreWhole ==
  ASSUME WormInv
  PROVE  TailsWhole
<1>1. wsegs \in SegsSet /\ monst \in [Creature -> Rec] /\ Whole(wsegs, monst)
  BY Types DEF WormInv
<1>2. \A m \in Creature : Tailed(m) <=> SlotOf(monst[m]) # 0
  BY DEF Tailed, OnLevel, SlotOf
<1>3. \A m \in Creature : Tailed(m) => SlotOf(monst[m]) = monst[m].wormno
  BY DEF Tailed, OnLevel, SlotOf
<1>4. ASSUME NEW i \in Slot
      PROVE  Cardinality({m \in Creature : Tailed(m) /\ monst[m].wormno = i}) =
               IF wsegs[i] = <<>> THEN 0 ELSE 1
  <2> DEFINE T == {m \in Creature : Tailed(m) /\ monst[m].wormno = i}
  <2>0. i # 0
    BY DEF Slot
  <2>1. T = {m \in Creature : SlotOf(monst[m]) = i}
    BY <1>2, <1>3, <2>0 DEF Tailed
  <2> HIDE DEF T
  <2>2. CASE wsegs[i] = <<>>
    <3>1. T = {}
      BY <1>1, <2>0, <2>1, <2>2 DEF Whole, Lying
    <3> QED
      BY <2>2, <3>1, FS_EmptySet DEF T
  <2>3. CASE wsegs[i] # <<>>
    <3>1. PICK m \in Creature : SlotOf(monst[m]) = i
      BY <1>1, <2>3 DEF Whole
    <3>2. T = {m}
      BY <1>1, <2>0, <2>1, <3>1 DEF Whole
    <3> QED
      BY <2>3, <3>2, FS_Singleton DEF T
  <2> QED
    BY <2>2, <2>3
<1>5. ASSUME NEW m \in Creature, Tailed(m)
      PROVE  /\ monst[m].long /\ Last(Segs(m)) = monst[m].at
             /\ \A k \in 1 .. Len(Segs(m)) - 1 : <<Segs(m)[k + 1], Segs(m)[k]>> \in Beside
  BY <1>1, <1>2, <1>3, <1>5 DEF Whole, Lying, Segs
<1> QED
  BY <1>4, <1>5 DEF TailsWhole

\* And in the words of the other.
LEMMA MapIsKept ==
  ASSUME WormInv
  PROVE  MapKept
BY DEF WormInv, MapKept, MapTrue, Shown, Takes, OnLevel, Body, Segs

\* The invariant holds of the specification.
LEMMA WormHolds == Spec => []WormInv
<1>1. Init => WormInv
  BY WormStarts DEF Init
<1>2. WormInv /\ [Next]_vars => WormInv'
  <2> SUFFICES ASSUME WormInv, [Next]_vars PROVE WormInv'
    OBVIOUS
  <2>1. [WormNext]_wormVars
    BY DEF Next, Crawl, Burn, vars
  <2> QED
    BY <2>1, WormKept
<1> QED
  BY <1>1, <1>2, PTL DEF Spec

\* Whatever happens to monsters and worms, their records, lists and map stay
\* within their types: every number is a slot's, no list is longer than the
\* bound, and only squares of the level are in a list.
THEOREM WormTypeCorrect == Spec => []WormTypeOK
<1>1. WormInv => WormTypeOK
  BY DEF WormInv
<1> QED
  BY <1>1, WormHolds, PTL

\* makemon, worm_move, cutworm, newcham, rloc_to, mnearto, migration and the
\* rest never lose, share or hand on a slot that is in use, and leave every
\* tail whole under its worm's head, the step that muddles the map included.
THEOREM TailsStayWhole == Spec => []TailsWhole
<1>1. WormInv => TailsWhole
  BY TailsAreWhole
<1> QED
  BY <1>1, WormHolds, PTL

\* As long as no segment was tossed that somebody had come to stand in, and
\* no clone of a worm with a tail left was replaced, being named or tame,
\* level->monsters shows every monster on exactly the squares that it and its
\* segments take.
THEOREM MapStaysTrue == Spec => []MapKept
<1>1. WormInv => MapKept
  BY MapIsKept
<1> QED
  BY <1>1, WormHolds, PTL

-----------------------------------------------------------------------------
(* Queues of timers.                                                       *)

\* No timer of o; one, which goes off at t.
None(q, o) == \A i \in DOMAIN q : q[i].o # o
Only(q, o, t) ==
  \E i \in DOMAIN q : q[i].o = o /\ q[i].at = t /\ \A j \in DOMAIN q : q[j].o = o => j = i

\* r has no other timers of p than q.
Like(q, r, p) ==
  /\ None(q, p) => None(r, p)
  /\ \A t \in Int : Only(q, p, t) => Only(r, p, t)

\* What is in a queue.
LEMMA TimerTypes ==
  ASSUME NEW q \in Seq(Timer)
  PROVE  /\ Len(q) \in Nat /\ DOMAIN q = 1 .. Len(q)
         /\ \A i \in DOMAIN q : q[i] \in Timer /\ q[i].o \in Obj /\ q[i].at \in Int
<1>1. Len(q) \in Nat /\ DOMAIN q = 1 .. Len(q) /\ \A i \in DOMAIN q : q[i] \in Timer
  OBVIOUS
<1> QED
  BY <1>1 DEF Timer

\* Parts of queues, and queues one behind the other.
LEMMA Part ==
  ASSUME NEW q \in Seq(Timer), NEW m \in 1 .. Len(q) + 1, NEW n \in m - 1 .. Len(q)
  PROVE  /\ SubSeq(q, m, n) \in Seq(Timer) /\ Len(SubSeq(q, m, n)) = (n - m) + 1
         /\ \A i \in 1 .. (n - m) + 1 : SubSeq(q, m, n)[i] = q[(m + i) - 1]
<1>1. Len(q) \in Nat /\ m \in Int /\ n \in Int /\ \A i \in 1 .. Len(q) : q[i] \in Timer
  OBVIOUS
<1>2. \A i \in m .. n : q[i] \in Timer
  BY <1>1
<1>3. /\ SubSeq(q, m, n) \in Seq(Timer)
      /\ Len(SubSeq(q, m, n)) = IF m <= n THEN n - m + 1 ELSE 0
      /\ \A i \in 1 .. n - m + 1 : SubSeq(q, m, n)[i] = q[m + i - 1]
  BY <1>1, <1>2, SubSeqProperties
<1>4. ~(m <= n) => (n - m) + 1 = 0
  BY <1>1
<1> QED
  BY <1>1, <1>3, <1>4

\* One queue behind another.
LEMMA Joined ==
  ASSUME NEW a \in Seq(Timer), NEW b \in Seq(Timer)
  PROVE  /\ a \o b \in Seq(Timer) /\ Len(a \o b) = Len(a) + Len(b)
         /\ \A i \in 1 .. Len(a) : (a \o b)[i] = a[i]
         /\ \A i \in 1 .. Len(b) : (a \o b)[Len(a) + i] = b[i]
OBVIOUS

\* What an object's timers are, seen in the queue.
LEMMA Counting ==
  ASSUME NEW q \in Seq(Timer), NEW o
  PROVE  /\ None(q, o) => ~HasTimer(q, o) /\ Cardinality(TimersOf(q, o)) = 0
         /\ \A t \in Int : Only(q, o, t) =>
              /\ HasTimer(q, o) /\ Cardinality(TimersOf(q, o)) = 1
              /\ FirstOf(q, o) \in DOMAIN q
              /\ q[FirstOf(q, o)].o = o /\ q[FirstOf(q, o)].at = t
              /\ \A j \in DOMAIN q : q[j].o = o => j = FirstOf(q, o)
         /\ HasTimer(q, o) => FirstOf(q, o) \in DOMAIN q /\ q[FirstOf(q, o)].o = o
<1>1. ASSUME None(q, o) PROVE ~HasTimer(q, o) /\ Cardinality(TimersOf(q, o)) = 0
  <2>1. TimersOf(q, o) = {}
    BY <1>1 DEF None, TimersOf
  <2> QED
    BY <2>1, FS_EmptySet DEF HasTimer
<1>2. ASSUME NEW t \in Int, Only(q, o, t)
      PROVE  /\ HasTimer(q, o) /\ Cardinality(TimersOf(q, o)) = 1
             /\ FirstOf(q, o) \in DOMAIN q
             /\ q[FirstOf(q, o)].o = o /\ q[FirstOf(q, o)].at = t
             /\ \A j \in DOMAIN q : q[j].o = o => j = FirstOf(q, o)
  <2>1. PICK i \in DOMAIN q : q[i].o = o /\ q[i].at = t /\ \A j \in DOMAIN q : q[j].o = o => j = i
    BY <1>2 DEF Only
  <2>2. TimersOf(q, o) = {i}
    BY <2>1 DEF TimersOf
  <2>3. i <= i
    BY TimerTypes
  <2>4. FirstOf(q, o) = i
    BY <2>2, <2>3 DEF FirstOf
  <2> QED
    BY <2>1, <2>2, <2>4, FS_Singleton DEF HasTimer
<1>3. ASSUME HasTimer(q, o) PROVE FirstOf(q, o) \in DOMAIN q /\ q[FirstOf(q, o)].o = o
  <2>1. TimersOf(q, o) \subseteq Nat /\ TimersOf(q, o) # {}
    BY <1>3, TimerTypes DEF HasTimer, TimersOf
  <2>2. \E x \in TimersOf(q, o) : \A y \in TimersOf(q, o) : x <= y
    BY <2>1, Least
  <2>3. FirstOf(q, o) \in TimersOf(q, o)
    BY <2>2 DEF FirstOf
  <2> QED
    BY <2>3 DEF TimersOf
<1> QED
  BY <1>1, <1>2, <1>3

\* Two queues where each timer of the one, and no other, is in the other.
LEMMA Renumbered ==
  ASSUME NEW q, NEW r, NEW p, NEW f,
         \A i \in DOMAIN q : q[i].o = p => f[i] \in DOMAIN r /\ r[f[i]] = q[i],
         \A j \in DOMAIN r : r[j].o = p => \E i \in DOMAIN q : q[i].o = p /\ f[i] = j
  PROVE  Like(q, r, p)
BY DEF Like, None, Only

\* insert_timer: one timer more, in its place.
LEMMA Inserted ==
  ASSUME NEW q \in Seq(Timer), NEW t \in Timer
  PROVE  /\ InsertTimer(q, t) \in Seq(Timer)
         /\ \A p : p # t.o => Like(q, InsertTimer(q, t), p)
         /\ None(q, t.o) => Only(InsertTimer(q, t), t.o, t.at)
         /\ Ordered(q) => Ordered(InsertTimer(q, t))
<1> DEFINE r == InsertTimer(q, t)
           Place(k) == /\ \A i \in 1 .. k : q[i].at < t.at
                       /\ k < Len(q) => q[k + 1].at >= t.at
<1>0. /\ Len(q) \in Nat /\ DOMAIN q = 1 .. Len(q) /\ t.at \in Int
      /\ \A i \in 1 .. Len(q) : q[i] \in Timer /\ q[i].at \in Int
  BY TimerTypes DEF Timer
<1>1. \E k \in 0 .. Len(q) : Place(k)
  <2> DEFINE Late == {i \in 1 .. Len(q) : q[i].at >= t.at}
  <2>1. CASE Late = {}
    <3>1. Place(Len(q))
      BY <1>0, <2>1
    <3> QED
      BY <1>0, <3>1
  <2>2. CASE Late # {}
    <3>1. Late \subseteq Nat
      BY <1>0
    <3>2. PICK i \in Late : \A j \in Late : i <= j
      BY <2>2, <3>1, Least
    <3>3. i - 1 \in 0 .. Len(q) /\ (i - 1) + 1 = i /\ i \in 1 .. Len(q)
      BY <1>0, <3>2
    <3>4. \A j \in 1 .. i - 1 : q[j].at < t.at
      <4> TAKE j \in 1 .. i - 1
      <4>1. j \in 1 .. Len(q) /\ ~(i <= j)
        BY <1>0, <3>3
      <4>2. j \notin Late
        BY <3>2, <4>1
      <4> QED
        BY <1>0, <4>1, <4>2
    <3> QED
      BY <3>2, <3>3, <3>4
  <2> QED
    BY <2>1, <2>2
<1> DEFINE k == CHOOSE k \in 0 .. Len(q) : Place(k)
<1>2. k \in 0 .. Len(q) /\ Place(k)
  BY <1>1
<1>3. r = SubSeq(q, 1, k) \o <<t>> \o SubSeq(q, k + 1, Len(q))
  BY DEF InsertTimer
<1> HIDE DEF k, r
<1>4. /\ r \in Seq(Timer) /\ Len(r) = Len(q) + 1 /\ DOMAIN r = 1 .. Len(q) + 1
      /\ \A i \in 1 .. k : r[i] = q[i]
      /\ r[k + 1] = t
      /\ \A i \in k + 2 .. Len(q) + 1 : r[i] = q[i - 1]
  <2> DEFINE a == SubSeq(q, 1, k)
             b == SubSeq(q, k + 1, Len(q))
  <2>1. a \in Seq(Timer) /\ Len(a) = k /\ \A i \in 1 .. k : a[i] = q[i]
    <3>1. 1 \in 1 .. Len(q) + 1 /\ k \in 1 - 1 .. Len(q) /\ (k - 1) + 1 = k /\ k \in Nat
      BY <1>0, <1>2
    <3>2. \A i \in 1 .. k : (1 + i) - 1 = i
      BY <3>1
    <3> QED
      BY <3>1, <3>2, Part
  <2>2. b \in Seq(Timer) /\ Len(b) = Len(q) - k /\ \A i \in 1 .. Len(q) - k : b[i] = q[k + i]
    <3>1. /\ k + 1 \in 1 .. Len(q) + 1 /\ Len(q) \in (k + 1) - 1 .. Len(q)
          /\ (Len(q) - (k + 1)) + 1 = Len(q) - k
      BY <1>0, <1>2
    <3>2. \A i \in 1 .. Len(q) - k : ((k + 1) + i) - 1 = k + i
      BY <1>0, <1>2
    <3> QED
      BY <3>1, <3>2, Part
  <2>3. <<t>> \in Seq(Timer) /\ Len(<<t>>) = 1 /\ <<t>>[1] = t
    OBVIOUS
  <2> DEFINE c == a \o <<t>>
  <2> HIDE DEF a, b
  <2>4. r = c \o b
    BY <1>3 DEF a, b
  <2>5. /\ c \in Seq(Timer) /\ Len(c) = k + 1
        /\ \A i \in 1 .. k : c[i] = q[i]
        /\ c[k + 1] = t
    BY <2>1, <2>3, Joined
  <2> HIDE DEF c
  <2>6. /\ r \in Seq(Timer) /\ Len(r) = (k + 1) + (Len(q) - k)
        /\ \A i \in 1 .. k + 1 : r[i] = c[i]
        /\ \A i \in 1 .. Len(q) - k : r[(k + 1) + i] = b[i]
    <3>1. c \in Seq(Timer) /\ b \in Seq(Timer)
      BY <2>2, <2>5
    <3>2. /\ r \in Seq(Timer) /\ Len(r) = Len(c) + Len(b)
          /\ \A i \in 1 .. Len(c) : r[i] = c[i]
          /\ \A i \in 1 .. Len(b) : r[Len(c) + i] = b[i]
      BY <2>4, <3>1, Joined, Zenon
    <3> QED
      BY <2>2, <2>5, <3>2, Zenon
  <2>7. \A i \in k + 2 .. Len(q) + 1 : r[i] = q[i - 1]
    <3> TAKE i \in k + 2 .. Len(q) + 1
    <3> DEFINE j == i - (k + 1)
    <3>1. j \in 1 .. Len(q) - k /\ (k + 1) + j = i /\ k + j = i - 1
      BY <1>0, <1>2
    <3> HIDE DEF j
    <3> QED
      BY <2>2, <2>6, <3>1
  <2>8. Len(r) = Len(q) + 1 /\ k \in Nat
    BY <1>0, <1>2, <2>6
  <2>9. \A i \in 1 .. k : i \in 1 .. k + 1
    BY <2>8
  <2> QED
    BY <1>0, <2>5, <2>6, <2>7, <2>8, <2>9
<1>5. ASSUME NEW p, p # t.o PROVE Like(q, r, p)
  <2> DEFINE f == [i \in DOMAIN q |-> IF i <= k THEN i ELSE i + 1]
  <2>1. \A i \in DOMAIN q : f[i] \in DOMAIN r /\ r[f[i]] = q[i]
    BY <1>0, <1>2, <1>4
  <2>2. \A j \in DOMAIN r : j # k + 1 => \E i \in DOMAIN q : q[i] = r[j] /\ f[i] = j
    <3> SUFFICES ASSUME NEW j \in DOMAIN r, j # k + 1
                 PROVE  \E i \in DOMAIN q : q[i] = r[j] /\ f[i] = j
      OBVIOUS
    <3>1. CASE j <= k
      BY <1>0, <1>2, <1>4, <3>1
    <3>2. CASE j > k + 1
      <4>1. j - 1 \in DOMAIN q /\ r[j] = q[j - 1] /\ ~(j - 1 <= k) /\ (j - 1) + 1 = j
        BY <1>0, <1>2, <1>4, <3>2
      <4> QED
        BY <4>1
    <3> QED
      BY <1>0, <1>2, <1>4, <3>1, <3>2
  <2> HIDE DEF f
  <2>3. \A j \in DOMAIN r : r[j].o = p => \E i \in DOMAIN q : q[i].o = p /\ f[i] = j
    BY <1>4, <1>5, <2>2
  <2> QED
    BY <2>1, <2>3, Renumbered
<1>6. None(q, t.o) => Only(r, t.o, t.at)
  <2> SUFFICES ASSUME None(q, t.o) PROVE Only(r, t.o, t.at)
    OBVIOUS
  <2>1. k + 1 \in DOMAIN r
    BY <1>0, <1>2, <1>4
  <2>2. \A j \in DOMAIN r : r[j].o = t.o => j = k + 1
    <3> SUFFICES ASSUME NEW j \in DOMAIN r, j # k + 1 PROVE r[j].o # t.o
      OBVIOUS
    <3>1. \E i \in DOMAIN q : r[j] = q[i]
      <4>1. CASE j <= k
        BY <1>0, <1>2, <1>4, <4>1
      <4>2. CASE j > k + 1
        <5>1. j - 1 \in DOMAIN q /\ r[j] = q[j - 1]
          BY <1>0, <1>2, <1>4, <4>2
        <5> QED
          BY <5>1
      <4> QED
        BY <1>0, <1>2, <1>4, <4>1, <4>2
    <3> QED
      BY <3>1 DEF None
  <2> QED
    BY <1>4, <2>1, <2>2 DEF Only
<1>7. ASSUME Ordered(q) PROVE Ordered(r)
  <2>1. \A i, j \in 1 .. Len(q) : i < j => q[i].at <= q[j].at
    BY <1>0, <1>7 DEF Ordered
  <2> SUFFICES ASSUME NEW i \in 1 .. Len(q) + 1, NEW j \in 1 .. Len(q) + 1, i < j
               PROVE  r[i].at <= r[j].at
    BY <1>4 DEF Ordered
  <2>2. CASE j <= k
    BY <1>0, <1>2, <1>4, <2>1, <2>2
  <2>3. CASE j = k + 1
    <3>1. r[i] = q[i] /\ q[i].at < t.at /\ i \in 1 .. Len(q)
      BY <1>0, <1>2, <1>4, <2>3
    <3> QED
      BY <1>0, <1>4, <2>3, <3>1
  <2>4. CASE j > k + 1
    <3>1. r[j] = q[j - 1] /\ j - 1 \in 1 .. Len(q) /\ k + 1 <= j - 1
      BY <1>0, <1>2, <1>4, <2>4
    <3>2. CASE i <= k
      <4>1. i \in 1 .. Len(q) /\ i < j - 1 /\ r[i] = q[i]
        BY <1>0, <1>2, <1>4, <3>1, <3>2
      <4> QED
        BY <2>1, <3>1, <4>1
    <3>3. CASE i = k + 1
      <4>1. q[k + 1].at >= t.at /\ k + 1 \in 1 .. Len(q)
        BY <1>0, <1>2, <3>1
      <4>2. q[k + 1].at <= q[j - 1].at
        <5>1. CASE k + 1 = j - 1
          BY <1>0, <3>1, <5>1
        <5>2. CASE k + 1 < j - 1
          BY <2>1, <3>1, <4>1, <5>2
        <5> QED
          BY <1>2, <3>1, <5>1, <5>2
      <4> QED
        BY <1>0, <1>4, <3>1, <3>3, <4>1, <4>2
    <3>4. CASE i > k + 1
      <4>1. r[i] = q[i - 1] /\ i - 1 \in 1 .. Len(q) /\ i - 1 < j - 1
        BY <1>0, <1>2, <1>4, <2>4, <3>4
      <4> QED
        BY <2>1, <3>1, <4>1
    <3> QED
      BY <1>2, <3>2, <3>3, <3>4
  <2> QED
    BY <1>2, <2>2, <2>3, <2>4
<1> QED
  BY <1>4, <1>5, <1>6, <1>7 DEF r

\* remove_timer: one timer less.
LEMMA Removed ==
  ASSUME NEW q \in Seq(Timer), NEW k \in DOMAIN q
  PROVE  /\ RemoveAt(q, k) \in Seq(Timer)
         /\ \A p : p # q[k].o => Like(q, RemoveAt(q, k), p)
         /\ (\A j \in DOMAIN q : q[j].o = q[k].o => j = k) => None(RemoveAt(q, k), q[k].o)
         /\ Ordered(q) => Ordered(RemoveAt(q, k))
<1> DEFINE r == RemoveAt(q, k)
<1>0. /\ Len(q) \in Nat /\ DOMAIN q = 1 .. Len(q) /\ k \in 1 .. Len(q)
      /\ \A i \in 1 .. Len(q) : q[i].at \in Int
  BY TimerTypes
<1> DEFINE a == SubSeq(q, 1, k - 1)
           b == SubSeq(q, k + 1, Len(q))
<1>1. a \in Seq(Timer) /\ Len(a) = k - 1 /\ \A i \in 1 .. k - 1 : a[i] = q[i]
  <2>1. 1 \in 1 .. Len(q) + 1 /\ k - 1 \in 1 - 1 .. Len(q) /\ ((k - 1) - 1) + 1 = k - 1
    BY <1>0
  <2>2. \A i \in 1 .. k - 1 : (1 + i) - 1 = i
    BY <1>0
  <2> QED
    BY <2>1, <2>2, Part
<1>2. b \in Seq(Timer) /\ Len(b) = Len(q) - k /\ \A i \in 1 .. Len(q) - k : b[i] = q[k + i]
  <2>1. /\ k + 1 \in 1 .. Len(q) + 1 /\ Len(q) \in (k + 1) - 1 .. Len(q)
        /\ (Len(q) - (k + 1)) + 1 = Len(q) - k
    BY <1>0
  <2>2. \A i \in 1 .. Len(q) - k : ((k + 1) + i) - 1 = k + i
    BY <1>0
  <2> QED
    BY <2>1, <2>2, Part
<1>3. r = a \o b
  BY DEF RemoveAt
<1> HIDE DEF a, b, r
<1>4. /\ r \in Seq(Timer) /\ Len(r) = (k - 1) + (Len(q) - k)
      /\ \A i \in 1 .. k - 1 : r[i] = q[i]
      /\ \A i \in 1 .. Len(q) - k : r[(k - 1) + i] = q[k + i]
  <2>1. /\ r \in Seq(Timer) /\ Len(r) = Len(a) + Len(b)
        /\ \A i \in 1 .. Len(a) : r[i] = a[i]
        /\ \A i \in 1 .. Len(b) : r[Len(a) + i] = b[i]
    BY <1>1, <1>2, <1>3, Joined, Zenon
  <2> QED
    BY <1>1, <1>2, <2>1
<1>5. /\ Len(r) = Len(q) - 1 /\ DOMAIN r = 1 .. Len(q) - 1
      /\ \A i \in 1 .. Len(q) - 1 : i < k => r[i] = q[i]
      /\ \A i \in 1 .. Len(q) - 1 : ~(i < k) => r[i] = q[i + 1]
  <2>1. Len(r) = Len(q) - 1 /\ DOMAIN r = 1 .. Len(q) - 1
    BY <1>0, <1>4
  <2>2. \A i \in 1 .. Len(q) - 1 : ~(i < k) => r[i] = q[i + 1]
    <3> SUFFICES ASSUME NEW i \in 1 .. Len(q) - 1, ~(i < k) PROVE r[i] = q[i + 1]
      OBVIOUS
    <3> DEFINE j == (i - k) + 1
    <3>1. j \in 1 .. Len(q) - k /\ (k - 1) + j = i /\ k + j = i + 1
      BY <1>0
    <3> HIDE DEF j
    <3> QED
      BY <1>4, <3>1
  <2> QED
    BY <1>0, <1>4, <2>1, <2>2
<1> DEFINE g == [i \in 1 .. Len(q) - 1 |-> IF i < k THEN i ELSE i + 1]
<1>6. \A i \in DOMAIN r : g[i] \in DOMAIN q /\ g[i] # k /\ r[i] = q[g[i]]
  BY <1>0, <1>5
<1>7. \A i, j \in DOMAIN r : i < j => g[i] < g[j]
  BY <1>0, <1>5
<1> DEFINE f == [i \in DOMAIN q |-> IF i < k THEN i ELSE i - 1]
<1>8. \A i \in DOMAIN q : i # k => f[i] \in DOMAIN r /\ r[f[i]] = q[i]
  <2> SUFFICES ASSUME NEW i \in DOMAIN q, i # k PROVE f[i] \in DOMAIN r /\ r[f[i]] = q[i]
    OBVIOUS
  <2>1. CASE i < k
    BY <1>0, <1>5, <2>1
  <2>2. CASE i > k
    <3>1. i - 1 \in 1 .. Len(q) - 1 /\ ~(i - 1 < k) /\ (i - 1) + 1 = i /\ ~(i < k)
      BY <1>0, <2>2
    <3> QED
      BY <1>5, <3>1
  <2> QED
    BY <1>0, <2>1, <2>2
<1>9. \A j \in DOMAIN r : f[g[j]] = j
  BY <1>0, <1>5
<1> HIDE DEF f, g
<1>10. ASSUME NEW p, p # q[k].o PROVE Like(q, r, p)
  <2>1. \A i \in DOMAIN q : q[i].o = p => f[i] \in DOMAIN r /\ r[f[i]] = q[i]
    BY <1>8, <1>10
  <2>2. \A j \in DOMAIN r : r[j].o = p => \E i \in DOMAIN q : q[i].o = p /\ f[i] = j
    BY <1>6, <1>9
  <2> QED
    BY <2>1, <2>2, Renumbered
<1>11. (\A j \in DOMAIN q : q[j].o = q[k].o => j = k) => None(r, q[k].o)
  BY <1>6 DEF None
<1>12. Ordered(q) => Ordered(r)
  BY <1>6, <1>7 DEF Ordered
<1> QED
  BY <1>4, <1>10, <1>11, <1>12 DEF r

\* run_timers takes the first.
LEMMA Taken ==
  ASSUME NEW q \in Seq(Timer), q # <<>>
  PROVE  /\ 1 \in DOMAIN q
         /\ Tail(q) \in Seq(Timer)
         /\ \A p : p # q[1].o => Like(q, Tail(q), p)
         /\ \A t \in Int : Only(q, q[1].o, t) => t = q[1].at /\ None(Tail(q), q[1].o)
         /\ Ordered(q) => Ordered(Tail(q))
<1>1. 1 \in DOMAIN q
  OBVIOUS
<1>2. Tail(q) = RemoveAt(q, 1)
  <2>1. RemoveAt(q, 1) = SubSeq(q, 1, 0) \o SubSeq(q, 2, Len(q))
    BY DEF RemoveAt
  <2>2. Tail(q) = SubSeq(q, 2, Len(q))
    BY TailIsSubSeq
  <2>3. SubSeq(q, 1, 0) = <<>>
    BY SubSeqEmpty
  <2>4. SubSeq(q, 2, Len(q)) \in Seq(Timer)
    BY <2>2
  <2>5. <<>> \o SubSeq(q, 2, Len(q)) = SubSeq(q, 2, Len(q))
    BY <2>4, ConcatEmptySeq
  <2> QED
    BY <2>1, <2>2, <2>3, <2>5
<1>3. \A t \in Int : Only(q, q[1].o, t) =>
        t = q[1].at /\ \A j \in DOMAIN q : q[j].o = q[1].o => j = 1
  BY <1>1 DEF Only
<1> QED
  BY <1>1, <1>2, <1>3, Removed

\* A queue the other way round, as transfer_timers leaves it.
LEMMA Turned ==
  ASSUME NEW q \in Seq(Timer)
  PROVE  Reverse(q) \in Seq(Timer) /\ \A p : Like(q, Reverse(q), p)
<1> DEFINE r == Reverse(q)
<1>0. Len(q) \in Nat /\ DOMAIN q = 1 .. Len(q) /\ \A i \in 1 .. Len(q) : q[i] \in Timer
  BY TimerTypes
<1>1. r = [i \in 1 .. Len(q) |-> q[(Len(q) - i) + 1]]
  BY DEF Reverse
<1>2. \A i \in 1 .. Len(q) : (Len(q) - i) + 1 \in 1 .. Len(q) /\ Len(q) - ((Len(q) - i) + 1) + 1 = i
  BY <1>0
<1>3. r \in Seq(Timer) /\ DOMAIN r = 1 .. Len(q) /\ \A i \in 1 .. Len(q) : r[i] = q[(Len(q) - i) + 1]
  BY <1>0, <1>1, <1>2
<1> HIDE DEF r
<1> DEFINE f == [i \in 1 .. Len(q) |-> (Len(q) - i) + 1]
<1>4. \A i \in 1 .. Len(q) : f[i] \in 1 .. Len(q) /\ f[f[i]] = i
  BY <1>2
<1>5. \A i \in 1 .. Len(q) : r[i] = q[f[i]]
  BY <1>3
<1> HIDE DEF f
<1>6. ASSUME NEW p PROVE Like(q, r, p)
  <2>1. \A i \in DOMAIN q : q[i].o = p => f[i] \in DOMAIN r /\ r[f[i]] = q[i]
    BY <1>0, <1>3, <1>4, <1>5
  <2>2. \A j \in DOMAIN r : r[j].o = p => \E i \in DOMAIN q : q[i].o = p /\ f[i] = j
    BY <1>0, <1>3, <1>4, <1>5
  <2> QED
    BY <2>1, <2>2, Renumbered
<1> QED
  BY <1>3, <1>6 DEF r

\* transfer_timers, save_timers.
LEMMA Gathered ==
  ASSUME NEW a \in Seq(Timer), NEW b \in Seq(Timer), NEW p
  PROVE  /\ a \o b \in Seq(Timer)
         /\ None(a, p) => Like(b, a \o b, p)
         /\ None(b, p) => Like(a, a \o b, p)
<1> DEFINE r == a \o b
<1>0. /\ Len(a) \in Nat /\ Len(b) \in Nat /\ DOMAIN a = 1 .. Len(a) /\ DOMAIN b = 1 .. Len(b)
  BY TimerTypes
<1>1. /\ r \in Seq(Timer) /\ Len(r) = Len(a) + Len(b)
      /\ \A i \in 1 .. Len(a) : r[i] = a[i]
      /\ \A i \in 1 .. Len(b) : r[Len(a) + i] = b[i]
  BY Joined, Zenon
<1> HIDE DEF r
<1>2. DOMAIN r = 1 .. Len(a) + Len(b)
  BY <1>0, <1>1
<1>3. \A j \in DOMAIN r : \/ j \in 1 .. Len(a)
                          \/ \E i \in 1 .. Len(b) : j = Len(a) + i
  <2> SUFFICES ASSUME NEW j \in DOMAIN r, j \notin 1 .. Len(a)
               PROVE  \E i \in 1 .. Len(b) : j = Len(a) + i
    OBVIOUS
  <2>1. j - Len(a) \in 1 .. Len(b) /\ j = Len(a) + (j - Len(a))
    BY <1>0, <1>2
  <2> QED
    BY <2>1
<1>4. ASSUME None(a, p) PROVE Like(b, r, p)
  <2> DEFINE f == [i \in 1 .. Len(b) |-> Len(a) + i]
  <2>0. \A i \in 1 .. Len(b) : f[i] = Len(a) + i
    OBVIOUS
  <2> HIDE DEF f
  <2>1. \A i \in DOMAIN b : b[i].o = p => f[i] \in DOMAIN r /\ r[f[i]] = b[i]
    BY <1>0, <1>1, <1>2, <2>0
  <2>2. \A j \in DOMAIN r : r[j].o = p => \E i \in DOMAIN b : b[i].o = p /\ f[i] = j
    <3>1. \A i \in 1 .. Len(a) : a[i].o # p
      BY <1>0, <1>4 DEF None
    <3>2. \A j \in DOMAIN r : r[j].o = p => \E i \in 1 .. Len(b) : j = Len(a) + i
      BY <1>1, <1>3, <3>1
    <3>3. \A i \in 1 .. Len(b) : r[f[i]] = b[i]
      BY <1>1, <2>0
    <3>4. \A j \in DOMAIN r : r[j].o = p => \E i \in 1 .. Len(b) : j = f[i]
      BY <2>0, <3>2
    <3> QED
      BY <1>0, <3>3, <3>4
  <2> QED
    BY <2>1, <2>2, Renumbered
<1>5. ASSUME None(b, p) PROVE Like(a, r, p)
  <2> DEFINE f == [i \in 1 .. Len(a) |-> i]
  <2>0. \A i \in 1 .. Len(a) : f[i] = i
    OBVIOUS
  <2> HIDE DEF f
  <2>1. \A i \in DOMAIN a : a[i].o = p => f[i] \in DOMAIN r /\ r[f[i]] = a[i]
    BY <1>0, <1>1, <1>2, <2>0
  <2>2. \A j \in DOMAIN r : r[j].o = p => \E i \in DOMAIN a : a[i].o = p /\ f[i] = j
    <3>1. \A i \in 1 .. Len(b) : b[i].o # p
      BY <1>0, <1>5 DEF None
    <3>2. \A j \in DOMAIN r : r[j].o = p => \E i \in 1 .. Len(a) : j = i
      BY <1>1, <1>3, <3>1
    <3> QED
      BY <1>0, <1>1, <2>0, <3>2
  <2> QED
    BY <2>1, <2>2, Renumbered
<1> QED
  BY <1>1, <1>4, <1>5 DEF r

\* The two recursions over a queue.
LEMMA SiftSteps ==
  ASSUME NEW q \in Seq(Timer), NEW S
  PROVE  \E s : /\ Sift(q, S) = s[Len(q)]
               /\ s[0] = <<>>
               /\ \A i \in 1 .. Len(q) : s[i] = IF q[i].o \in S THEN Append(s[i - 1], q[i]) ELSE s[i - 1]
<1> DEFINE G(v, i) == IF q[i].o \in S THEN Append(v, q[i]) ELSE v
           Steps(n, s) == s = [i \in 0 .. n |-> IF i = 0 THEN <<>> ELSE G(s[i - 1], i)]
<1>0. Len(q) \in Nat
  OBVIOUS
<1>3. (\E s : Steps(Len(q), s)) => \E s : Steps(Len(q), s) /\ Sift(q, S) = s[Len(q)]
  BY Zenon DEF Sift
<1> HIDE DEF G
<1>1. \E s : Steps(0, s)
  <2> DEFINE s == [i \in 0 .. 0 |-> <<>>]
  <2>1. s = [i \in 0 .. 0 |-> IF i = 0 THEN <<>> ELSE G(s[i - 1], i)]
    OBVIOUS
  <2> QED
    BY <2>1
<1>2. ASSUME NEW n \in Nat, NEW s, Steps(n, s) PROVE \E t : Steps(n + 1, t)
  <2> DEFINE t == [i \in 0 .. n + 1 |-> IF i = n + 1 THEN G(s[n], n + 1) ELSE s[i]]
             u == [i \in 0 .. n + 1 |-> IF i = 0 THEN <<>> ELSE G(t[i - 1], i)]
  <2>1. ASSUME NEW i \in 0 .. n + 1 PROVE t[i] = u[i]
    <3>1. \A j \in 0 .. n : t[j] = s[j] /\ s[j] = IF j = 0 THEN <<>> ELSE G(s[j - 1], j)
      BY <1>2
    <3>2. CASE i = 0
      <4>1. 0 \in 0 .. n /\ 0 \in 0 .. n + 1
        OBVIOUS
      <4>2. t[0] = <<>>
        BY <3>1, <4>1
      <4>3. u[0] = <<>>
        BY <4>1
      <4> QED
        BY <3>2, <4>2, <4>3
    <3>3. CASE i \in 1 .. n
      <4>1. i - 1 \in 0 .. n /\ i \in 0 .. n /\ i # 0
        BY <3>3
      <4> QED
        BY <3>1, <4>1
    <3>4. CASE i = n + 1
      <4>1. t[i] = G(s[n], n + 1) /\ u[i] = G(t[n], n + 1) /\ t[n] = s[n]
        <5>1. n \in 0 .. n /\ n + 1 \in 0 .. n + 1 /\ (n + 1) - 1 = n /\ n + 1 # 0
          OBVIOUS
        <5> QED
          BY <3>1, <3>4, <5>1
      <4> QED
        BY <4>1
    <3> QED
      BY <3>2, <3>3, <3>4
  <2>2. t = u
    BY <2>1
  <2> HIDE DEF t
  <2> QED
    BY <2>2
<1> HIDE DEF Steps
<1>4. \A n \in Nat : \E s : Steps(n, s)
  <2> DEFINE T == {n \in Nat : ~\E s : Steps(n, s)}
  <2> SUFFICES ASSUME T # {} PROVE FALSE
    OBVIOUS
  <2>1. PICK n \in T : \A m \in T : n <= m
    BY Least
  <2>2. n # 0
    BY <1>1
  <2>3. n - 1 \in Nat /\ ~(n <= n - 1) /\ (n - 1) + 1 = n
    BY <2>2
  <2>4. \E s : Steps(n - 1, s)
    BY <2>1, <2>3
  <2> QED
    BY <1>2, <2>3, <2>4
<1>5. PICK s : Steps(Len(q), s) /\ Sift(q, S) = s[Len(q)]
  BY <1>0, <1>3, <1>4
<1>6. \A i \in 0 .. Len(q) : s[i] = IF i = 0 THEN <<>> ELSE G(s[i - 1], i)
  BY <1>5 DEF Steps
<1>7. s[0] = <<>> /\ \A i \in 1 .. Len(q) : s[i] = G(s[i - 1], i)
  BY <1>0, <1>6
<1> QED
  BY <1>5, <1>7 DEF G


\* restore_timers inserts one timer at a time.
LEMMA RestoreSteps ==
  ASSUME NEW q \in Seq(Timer)
  PROVE  \E s : /\ Restored(q) = s[Len(q)]
               /\ s[0] = <<>>
               /\ \A i \in 1 .. Len(q) : s[i] = InsertTimer(s[i - 1], q[i])
<1> DEFINE G(v, i) == InsertTimer(v, q[i])
           Steps(n, s) == s = [i \in 0 .. n |-> IF i = 0 THEN <<>> ELSE G(s[i - 1], i)]
<1>0. Len(q) \in Nat
  OBVIOUS
<1>3. (\E s : Steps(Len(q), s)) => \E s : Steps(Len(q), s) /\ Restored(q) = s[Len(q)]
  BY Zenon DEF Restored
<1> HIDE DEF G
<1>1. \E s : Steps(0, s)
  <2> DEFINE s == [i \in 0 .. 0 |-> <<>>]
  <2>1. s = [i \in 0 .. 0 |-> IF i = 0 THEN <<>> ELSE G(s[i - 1], i)]
    OBVIOUS
  <2> QED
    BY <2>1
<1>2. ASSUME NEW n \in Nat, NEW s, Steps(n, s) PROVE \E t : Steps(n + 1, t)
  <2> DEFINE t == [i \in 0 .. n + 1 |-> IF i = n + 1 THEN G(s[n], n + 1) ELSE s[i]]
             u == [i \in 0 .. n + 1 |-> IF i = 0 THEN <<>> ELSE G(t[i - 1], i)]
  <2>1. ASSUME NEW i \in 0 .. n + 1 PROVE t[i] = u[i]
    <3>1. \A j \in 0 .. n : t[j] = s[j] /\ s[j] = IF j = 0 THEN <<>> ELSE G(s[j - 1], j)
      BY <1>2
    <3>2. CASE i = 0
      <4>1. 0 \in 0 .. n /\ 0 \in 0 .. n + 1
        OBVIOUS
      <4>2. t[0] = <<>>
        BY <3>1, <4>1
      <4>3. u[0] = <<>>
        BY <4>1
      <4> QED
        BY <3>2, <4>2, <4>3
    <3>3. CASE i \in 1 .. n
      <4>1. i - 1 \in 0 .. n /\ i \in 0 .. n /\ i # 0
        BY <3>3
      <4> QED
        BY <3>1, <4>1
    <3>4. CASE i = n + 1
      <4>1. t[i] = G(s[n], n + 1) /\ u[i] = G(t[n], n + 1) /\ t[n] = s[n]
        <5>1. n \in 0 .. n /\ n + 1 \in 0 .. n + 1 /\ (n + 1) - 1 = n /\ n + 1 # 0
          OBVIOUS
        <5> QED
          BY <3>1, <3>4, <5>1
      <4> QED
        BY <4>1
    <3> QED
      BY <3>2, <3>3, <3>4
  <2>2. t = u
    BY <2>1
  <2> HIDE DEF t
  <2> QED
    BY <2>2
<1> HIDE DEF Steps
<1>4. \A n \in Nat : \E s : Steps(n, s)
  <2> DEFINE T == {n \in Nat : ~\E s : Steps(n, s)}
  <2> SUFFICES ASSUME T # {} PROVE FALSE
    OBVIOUS
  <2>1. PICK n \in T : \A m \in T : n <= m
    BY Least
  <2>2. n # 0
    BY <1>1
  <2>3. n - 1 \in Nat /\ ~(n <= n - 1) /\ (n - 1) + 1 = n
    BY <2>2
  <2>4. \E s : Steps(n - 1, s)
    BY <2>1, <2>3
  <2> QED
    BY <1>2, <2>3, <2>4
<1>5. PICK s : Steps(Len(q), s) /\ Restored(q) = s[Len(q)]
  BY <1>0, <1>3, <1>4
<1>6. \A i \in 0 .. Len(q) : s[i] = IF i = 0 THEN <<>> ELSE G(s[i - 1], i)
  BY <1>5 DEF Steps
<1>7. s[0] = <<>> /\ \A i \in 1 .. Len(q) : s[i] = G(s[i - 1], i)
  BY <1>0, <1>6
<1> QED
  BY <1>5, <1>7 DEF G

\* Sifting picks out the timers of S, in their order.
LEMMA Sifted ==
  ASSUME NEW q \in Seq(Timer), NEW S
  PROVE  /\ Sift(q, S) \in Seq(Timer)
         /\ \A p \in S : Like(q, Sift(q, S), p)
         /\ \A p : p \notin S => None(Sift(q, S), p)
         /\ Ordered(q) => Ordered(Sift(q, S))
<1>0. /\ Len(q) \in Nat /\ DOMAIN q = 1 .. Len(q)
      /\ \A i \in 1 .. Len(q) : q[i] \in Timer
  BY TimerTypes
<1>1. PICK s : /\ Sift(q, S) = s[Len(q)]
               /\ s[0] = <<>>
               /\ \A i \in 1 .. Len(q) : s[i] = IF q[i].o \in S THEN Append(s[i - 1], q[i]) ELSE s[i - 1]
  BY SiftSteps
<1> DEFINE Picks(r, f, n) ==
             /\ f \in [1 .. Len(r) -> 1 .. n]
             /\ \A j, k \in 1 .. Len(r) : j < k => f[j] < f[k]
             /\ \A k \in 1 .. Len(r) : r[k] = q[f[k]] /\ q[f[k]].o \in S
             /\ \A i \in 1 .. n : q[i].o \in S => \E k \in 1 .. Len(r) : f[k] = i
           P(n) == s[n] \in Seq(Timer) /\ \E f : Picks(s[n], f, n)
<1>2. P(0)
  <2>1. s[0] = <<>> /\ Len(s[0]) = 0 /\ 1 .. 0 = {} /\ s[0] \in Seq(Timer)
    BY <1>1
  <2>2. Picks(s[0], [k \in {} |-> 0], 0)
    BY <2>1
  <2> QED
    BY <2>1, <2>2
<1>3. ASSUME NEW n \in Nat, n + 1 <= Len(q), P(n) PROVE P(n + 1)
  <2>0. n + 1 \in 1 .. Len(q) /\ q[n + 1] \in Timer
    BY <1>0, <1>3
  <2>1. PICK f : Picks(s[n], f, n)
    BY <1>3
  <2> DEFINE r == s[n]
  <2>2. r \in Seq(Timer) /\ Len(r) \in Nat
    BY <1>3
  <2>3. CASE q[n + 1].o \in S
    <3>1. s[n + 1] = Append(r, q[n + 1])
      <4>1. (n + 1) - 1 = n
        OBVIOUS
      <4> QED
        BY <1>1, <2>0, <2>3, <4>1
    <3> DEFINE g == [k \in 1 .. Len(r) + 1 |-> IF k = Len(r) + 1 THEN n + 1 ELSE f[k]]
    <3> HIDE DEF r
    <3>2. /\ s[n + 1] \in Seq(Timer) /\ Len(s[n + 1]) = Len(r) + 1
          /\ s[n + 1][Len(r) + 1] = q[n + 1]
          /\ \A k \in 1 .. Len(r) : s[n + 1][k] = r[k]
      BY <2>0, <2>2, <3>1
    <3>3. /\ g[Len(r) + 1] = n + 1
          /\ \A k \in 1 .. Len(r) : g[k] = f[k] /\ f[k] \in 1 .. n
      <4>1. /\ Len(r) + 1 \in 1 .. Len(r) + 1
            /\ \A k \in 1 .. Len(r) : k \in 1 .. Len(r) + 1 /\ k # Len(r) + 1
        BY <2>2
      <4>2. \A k \in 1 .. Len(r) : f[k] \in 1 .. n
        BY <2>1 DEF r
      <4>3. \A k \in 1 .. Len(r) : g[k] = f[k]
        BY <4>1
      <4>4. g[Len(r) + 1] = n + 1
        BY <4>1
      <4> QED
        BY <4>2, <4>3, <4>4
    <3>4. \A k \in 1 .. Len(r) + 1 : k = Len(r) + 1 \/ k \in 1 .. Len(r)
      BY <2>2
    <3>5. g \in [1 .. Len(r) + 1 -> 1 .. n + 1]
      <4>0. n + 1 \in 1 .. n + 1 /\ \A i \in 1 .. n : i \in 1 .. n + 1
        OBVIOUS
      <4>1. \A k \in 1 .. Len(r) + 1 : g[k] \in 1 .. n + 1
        <5> HIDE DEF g
        <5> QED
          BY <4>0, <3>3, <3>4, Zenon
      <4> QED
        BY <4>1
    <3> HIDE DEF g
    <3>6. \A j, k \in 1 .. Len(r) + 1 : j < k => g[j] < g[k]
      <4> SUFFICES ASSUME NEW j \in 1 .. Len(r) + 1, NEW k \in 1 .. Len(r) + 1, j < k
                   PROVE  g[j] < g[k]
        OBVIOUS
      <4>1. j \in 1 .. Len(r)
        BY <2>2
      <4>2. CASE k = Len(r) + 1
        <5>1. g[j] \in 1 .. n /\ g[k] = n + 1
          BY <3>3, <4>1, <4>2
        <5> QED
          BY <5>1
      <4>3. CASE k \in 1 .. Len(r)
        BY <2>1, <3>3, <4>1, <4>3 DEF r
      <4> QED
        BY <3>4, <4>2, <4>3
    <3>7. \A k \in 1 .. Len(r) + 1 : s[n + 1][k] = q[g[k]] /\ q[g[k]].o \in S
      BY <2>1, <2>3, <3>2, <3>3, <3>4 DEF r
    <3>8. \A i \in 1 .. n + 1 : q[i].o \in S => \E k \in 1 .. Len(r) + 1 : g[k] = i
      <4> SUFFICES ASSUME NEW i \in 1 .. n + 1, q[i].o \in S
                   PROVE  \E k \in 1 .. Len(r) + 1 : g[k] = i
        OBVIOUS
      <4>1. CASE i = n + 1
        BY <2>2, <3>3, <4>1
      <4>2. CASE i \in 1 .. n
        <5>1. PICK k \in 1 .. Len(r) : f[k] = i
          BY <2>1, <4>2 DEF r
        <5>2. k \in 1 .. Len(r) + 1 /\ g[k] = i
          BY <2>2, <3>3, <5>1
        <5> QED
          BY <5>2
      <4> QED
        BY <4>1, <4>2
    <3>9. Picks(s[n + 1], g, n + 1)
      BY <3>2, <3>5, <3>6, <3>7, <3>8
    <3> QED
      BY <3>2, <3>9
  <2>4. CASE q[n + 1].o \notin S
    <3>1. s[n + 1] = r
      <4>1. (n + 1) - 1 = n
        OBVIOUS
      <4> QED
        BY <1>1, <2>0, <2>4, <4>1
    <3>2. f \in [1 .. Len(r) -> 1 .. n + 1]
      BY <2>1
    <3>3. \A i \in 1 .. n + 1 : q[i].o \in S => i \in 1 .. n
      BY <2>4
    <3>4. Picks(r, f, n + 1)
      BY <2>1, <3>2, <3>3
    <3> HIDE DEF Picks, r
    <3>5. \E h : Picks(r, h, n + 1)
      BY <3>4
    <3> QED
      BY <2>2, <3>1, <3>5
  <2> QED
    BY <2>3, <2>4
<1> HIDE DEF P
<1>4. P(Len(q))
  <2> DEFINE T == {n \in Nat : n <= Len(q) /\ ~P(n)}
  <2> SUFFICES ASSUME T # {} PROVE FALSE
    BY <1>0
  <2>1. PICK n \in T : \A m \in T : n <= m
    BY Least
  <2>2. n # 0
    BY <1>2
  <2>3. n - 1 \in Nat /\ ~(n <= n - 1) /\ (n - 1) + 1 = n /\ n - 1 <= Len(q) /\ n <= Len(q)
    BY <1>0, <2>1, <2>2
  <2>4. P(n - 1)
    BY <2>1, <2>3
  <2> QED
    BY <1>3, <2>3, <2>4
<1> DEFINE r == Sift(q, S)
<1>5. r \in Seq(Timer) /\ \E f : Picks(r, f, Len(q))
  BY <1>1, <1>4 DEF P
<1> HIDE DEF r
<1>6. PICK f : Picks(r, f, Len(q))
  BY <1>5
<1>7. DOMAIN r = 1 .. Len(r) /\ Len(r) \in Nat
  BY <1>5
<1>8. ASSUME NEW p \in S PROVE Like(q, r, p)
  <2>1. \A j \in DOMAIN r : f[j] \in DOMAIN q /\ r[j] = q[f[j]]
    BY <1>0, <1>6, <1>7
  <2>2. \A j, k \in DOMAIN r : f[j] = f[k] => j = k
    <3> SUFFICES ASSUME NEW j \in DOMAIN r, NEW k \in DOMAIN r, f[j] = f[k], j # k PROVE FALSE
      OBVIOUS
    <3>1. f[j] \in Nat /\ (j < k \/ k < j)
      BY <1>6, <1>7
    <3> QED
      BY <1>6, <1>7, <3>1
  <2>3. \A i \in DOMAIN q : q[i].o = p => \E j \in DOMAIN r : f[j] = i
    BY <1>0, <1>6, <1>7
  <2> QED
    BY <2>1, <2>2, <2>3 DEF Like, None, Only
<1>9. ASSUME NEW p, p \notin S PROVE None(r, p)
  BY <1>6, <1>7, <1>9 DEF None
<1>10. Ordered(q) => Ordered(r)
  BY <1>0, <1>6, <1>7 DEF Ordered
<1> QED
  BY <1>5, <1>8, <1>9, <1>10 DEF r

\* Restoring puts every timer back, in order.
LEMMA PutBack ==
  ASSUME NEW q \in Seq(Timer)
  PROVE  /\ Restored(q) \in Seq(Timer) /\ Ordered(Restored(q))
         /\ \A p : Like(q, Restored(q), p)
<1>0. /\ Len(q) \in Nat /\ DOMAIN q = 1 .. Len(q)
      /\ \A i \in 1 .. Len(q) : q[i] \in Timer
  BY TimerTypes
<1>1. PICK s : /\ Restored(q) = s[Len(q)]
               /\ s[0] = <<>>
               /\ \A i \in 1 .. Len(q) : s[i] = InsertTimer(s[i - 1], q[i])
  BY RestoreSteps
<1> DEFINE First(n, p) == \A i \in 1 .. n : q[i].o # p
           Alone(n, p, t) == \E i \in 1 .. n : /\ q[i].o = p /\ q[i].at = t
                                              /\ \A j \in 1 .. n : q[j].o = p => j = i
           P(n) == /\ s[n] \in Seq(Timer) /\ Ordered(s[n])
                   /\ \A p : First(n, p) => None(s[n], p)
                   /\ \A p : \A t \in Int : Alone(n, p, t) => Only(s[n], p, t)
<1>2. P(0)
  BY <1>1 DEF Ordered, None
<1>3. ASSUME NEW n \in Nat, n + 1 <= Len(q), P(n) PROVE P(n + 1)
  <2> DEFINE t == q[n + 1]
             r == s[n]
             v == s[n + 1]
  <2>0. n + 1 \in 1 .. Len(q) /\ t \in Timer
    BY <1>0, <1>3
  <2>1. t \in Timer /\ v = InsertTimer(r, t) /\ r \in Seq(Timer) /\ Ordered(r)
    <3>1. (n + 1) - 1 = n /\ n + 1 \in 1 .. Len(q)
      BY <1>0, <1>3
    <3> QED
      BY <1>0, <1>1, <1>3, <3>1
  <2>2. /\ v \in Seq(Timer) /\ Ordered(v)
        /\ \A p : p # t.o => Like(r, v, p)
        /\ None(r, t.o) => Only(v, t.o, t.at)
    BY <2>1, Inserted
  <2>3. ASSUME NEW p, First(n + 1, p) PROVE None(v, p)
    <3>1. First(n, p) /\ p # t.o
      BY <2>3
    <3>2. None(r, p)
      BY <1>3, <3>1
    <3> QED
      BY <2>2, <3>1, <3>2 DEF Like
  <2>4. ASSUME NEW p, NEW a \in Int, Alone(n + 1, p, a) PROVE Only(v, p, a)
    <3>1. PICK i \in 1 .. n + 1 : /\ q[i].o = p /\ q[i].at = a
                                 /\ \A j \in 1 .. n + 1 : q[j].o = p => j = i
      BY <2>4
    <3>2. CASE i = n + 1
      <4>1. First(n, p)
        BY <3>1, <3>2
      <4>2. None(r, p)
        BY <1>3, <4>1
      <4> QED
        BY <2>2, <3>1, <3>2, <4>2
    <3>3. CASE i # n + 1
      <4>1. i \in 1 .. n /\ t.o # p
        BY <3>1, <3>3
      <4>2. Alone(n, p, a)
        BY <3>1, <4>1
      <4>3. Only(r, p, a)
        BY <1>3, <4>2
      <4> QED
        BY <2>2, <4>1, <4>3 DEF Like
    <3> QED
      BY <3>2, <3>3
  <2> QED
    BY <2>2, <2>3, <2>4
<1>5. (\A p : None(q, p) => First(Len(q), p)) /\ \A p, t : Only(q, p, t) => Alone(Len(q), p, t)
  BY <1>0 DEF None, Only
<1> HIDE DEF P
<1>4. P(Len(q))
  <2> DEFINE T == {n \in Nat : n <= Len(q) /\ ~P(n)}
  <2> SUFFICES ASSUME T # {} PROVE FALSE
    BY <1>0
  <2>1. PICK n \in T : \A m \in T : n <= m
    BY Least
  <2>2. n # 0
    BY <1>2
  <2>3. n - 1 \in Nat /\ ~(n <= n - 1) /\ (n - 1) + 1 = n /\ n - 1 <= Len(q) /\ n <= Len(q)
    BY <1>0, <2>1, <2>2
  <2>4. P(n - 1)
    BY <2>1, <2>3
  <2> QED
    BY <1>3, <2>3, <2>4
<1> HIDE DEF First, Alone
<1> QED
  BY <1>1, <1>4, <1>5 DEF P, Like

-----------------------------------------------------------------------------
(* Worlds: the queues, the lights and the objects, before and after a call.*)

Worlds == [q : [Level -> Seq(Timer)], ls : [Level -> [Obj -> Nat]], ob : [Obj -> Thing]]

\* v is w with x for the queue of o's level, n lights of o there, and r for o.
Change(w, v, o, x, n, r) ==
  /\ v \in Worlds
  /\ v.q[w.ob[o].olev] = x /\ v.ls[w.ob[o].olev][o] = n /\ v.ob[o] = r
  /\ \A k \in Level \ {w.ob[o].olev} : v.q[k] = w.q[k] /\ v.ls[k][o] = w.ls[k][o]
  /\ \A p \in Obj \ {o} : v.ob[p] = w.ob[p] /\ \A k \in Level : v.ls[k][p] = w.ls[k][p]

\* From w to v nothing happens to any object but o, and no queue gets out of order.
Touches(w, v, o) ==
  /\ v \in Worlds
  /\ \A p \in Obj \ {o} :
       /\ v.ob[p] = w.ob[p]
       /\ \A k \in Level : v.ls[k][p] = w.ls[k][p] /\ Like(w.q[k], v.q[k], p)
  /\ \A k \in Level : Ordered(w.q[k]) => Ordered(v.q[k])

\* What a world consists of.
LEMMA WorldTypes ==
  ASSUME NEW w \in Worlds, NEW o \in Obj
  PROVE  /\ w.ob[o] \in Thing /\ w.ob[o].olev \in Level
         /\ w.ob[o].timed \in Int /\ w.ob[o].age \in Int /\ w.ob[o].lit \in BOOLEAN
         /\ w.ob \in [Obj -> Thing]
         /\ w.q \in [Level -> Seq(Timer)] /\ w.ls \in [Level -> [Obj -> Nat]]
         /\ \A k \in Level : /\ w.q[k] \in Seq(Timer) /\ w.ls[k] \in [Obj -> Nat]
                             /\ w.ls[k][o] \in Nat
BY DEF Worlds, Thing

\* A world that is w with another queue x, n lights and another record r.
LEMMA Updated ==
  ASSUME NEW w \in Worlds, NEW o \in Obj, NEW x \in Seq(Timer), NEW n \in Nat, NEW r \in Thing,
         NEW v \in [q : {[w.q EXCEPT ![w.ob[o].olev] = x]},
                    ls : {[w.ls EXCEPT ![w.ob[o].olev] = [w.ls[w.ob[o].olev] EXCEPT ![o] = n]]},
                    ob : {[w.ob EXCEPT ![o] = r]}]
  PROVE  Change(w, v, o, x, n, r)
<1>1. /\ w.ob \in [Obj -> Thing] /\ w.ob[o].olev \in Level
      /\ w.q \in [Level -> Seq(Timer)] /\ w.ls \in [Level -> [Obj -> Nat]]
  BY WorldTypes
<1> DEFINE l == w.ob[o].olev
           Q == [w.q EXCEPT ![l] = x]
           F == [w.ls[l] EXCEPT ![o] = n]
           Ls == [w.ls EXCEPT ![l] = F]
           Ob == [w.ob EXCEPT ![o] = r]
<1>2. Q \in [Level -> Seq(Timer)] /\ Q[l] = x /\ \A k \in Level \ {l} : Q[k] = w.q[k]
  BY <1>1
<1>3. F \in [Obj -> Nat] /\ F[o] = n /\ \A p \in Obj \ {o} : F[p] = w.ls[l][p]
  BY <1>1
<1>4. Ob \in [Obj -> Thing] /\ Ob[o] = r /\ \A p \in Obj \ {o} : Ob[p] = w.ob[p]
  BY <1>1
<1> HIDE DEF F
<1>5. Ls \in [Level -> [Obj -> Nat]] /\ Ls[l] = F /\ \A k \in Level \ {l} : Ls[k] = w.ls[k]
  BY <1>1, <1>3
<1>6. v \in [q : {Q}, ls : {Ls}, ob : {Ob}] /\ v.q = Q /\ v.ls = Ls /\ v.ob = Ob
  BY DEF F
<1> HIDE DEF Q, Ls, Ob, l
<1>7. v \in Worlds
  BY <1>2, <1>4, <1>5, <1>6 DEF Worlds
<1>8. \A p \in Obj \ {o} : \A k \in Level : Ls[k][p] = w.ls[k][p]
  BY <1>3, <1>5
<1> QED
  BY <1>2, <1>3, <1>4, <1>5, <1>6, <1>7, <1>8 DEF Change, l

\* A world with what it has is itself.
LEMMA Same ==
  ASSUME NEW w \in Worlds, NEW o \in Obj
  PROVE  /\ w.q = [w.q EXCEPT ![w.ob[o].olev] = w.q[w.ob[o].olev]]
         /\ w.ls = [w.ls EXCEPT ![w.ob[o].olev] = [w.ls[w.ob[o].olev] EXCEPT ![o] = w.ls[w.ob[o].olev][o]]]
         /\ w.ob = [w.ob EXCEPT ![o] = w.ob[o]]
<1>1. /\ w.ob \in [Obj -> Thing] /\ w.ob[o].olev \in Level
      /\ w.q \in [Level -> Seq(Timer)] /\ w.ls \in [Level -> [Obj -> Nat]]
      /\ w.ls[w.ob[o].olev] \in [Obj -> Nat]
  BY WorldTypes
<1> QED
  BY <1>1

\* Such a change is about one object.
LEMMA ChangeTouches ==
  ASSUME NEW w \in Worlds, NEW o \in Obj, NEW v, NEW x, NEW n, NEW r, Change(w, v, o, x, n, r),
         \A p \in Obj \ {o} : Like(w.q[w.ob[o].olev], x, p),
         Ordered(w.q[w.ob[o].olev]) => Ordered(x)
  PROVE  Touches(w, v, o)
<1>1. \A q, p : Like(q, q, p)
  BY DEF Like
<1> QED
  BY <1>1 DEF Change, Touches

\* Two calls about the same object are one.
LEMMA TouchesOn ==
  ASSUME NEW w, NEW v, NEW u, NEW o, Touches(w, v, o), Touches(v, u, o)
  PROVE  Touches(w, u, o)
<1>1. \A p \in Obj \ {o}, k \in Level : Like(w.q[k], u.q[k], p)
  BY DEF Touches, Like
<1> QED
  BY <1>1 DEF Touches

\* And so is none.
LEMMA TouchesNot ==
  ASSUME NEW w \in Worlds, NEW o
  PROVE  Touches(w, w, o)
BY DEF Touches, Like

\* start_timer.
LEMMA Started ==
  ASSUME NEW w \in Worlds, NEW o \in Obj, moves \in Int, NEW k \in Int
  PROVE  LET r == w.ob[o]
             t == [o |-> o, at |-> moves + k]
             x == InsertTimer(w.q[r.olev], t)
         IN  /\ x \in Seq(Timer)
             /\ \A p \in Obj \ {o} : Like(w.q[r.olev], x, p)
             /\ Ordered(w.q[r.olev]) => Ordered(x)
             /\ None(w.q[r.olev], o) => Only(x, o, moves + k)
             /\ Change(w, StartTimer(w, o, k), o, x, w.ls[r.olev][o], [r EXCEPT !.timed = @ + 1])
<1> DEFINE r == w.ob[o]
           l == r.olev
           t == [o |-> o, at |-> moves + k]
           x == InsertTimer(w.q[l], t)
           r2 == [r EXCEPT !.timed = @ + 1]
           v == StartTimer(w, o, k)
<1>1. t \in Timer /\ t.o = o /\ t.at = moves + k
  BY DEF Timer
<1>2. w.q[l] \in Seq(Timer) /\ r \in Thing /\ w.ls[l][o] \in Nat
  BY WorldTypes
<1>3. r2 \in Thing
  BY <1>2 DEF Thing
<1> HIDE DEF t
<1>4. /\ x \in Seq(Timer)
      /\ \A p : p # o => Like(w.q[l], x, p)
      /\ None(w.q[l], o) => Only(x, o, moves + k)
      /\ Ordered(w.q[l]) => Ordered(x)
  BY <1>1, <1>2, Inserted
<1> HIDE DEF x
<1>5. v = [w EXCEPT !.q[l] = x, !.ob[o].timed = @ + 1]
  BY DEF StartTimer, x, t
<1>6. v \in [q : {[w.q EXCEPT ![l] = x]}, ls : {w.ls}, ob : {[w.ob EXCEPT ![o] = r2]}]
  BY <1>5 DEF Worlds
<1>7. w.ls = [w.ls EXCEPT ![l] = [w.ls[l] EXCEPT ![o] = w.ls[l][o]]]
  BY ZenonT(60), Same
<1> HIDE DEF r2, v, l
<1>8. Change(w, v, o, x, w.ls[l][o], r2)
  BY <1>2, <1>3, <1>4, <1>6, <1>7, Updated DEF l
<1> QED
  BY <1>4, <1>8 DEF x, t, r2, v, l

-----------------------------------------------------------------------------
(* The timers and the lights of one object.                                *)

\* The timers of o: n of them, 0 or 1, on the queue of its level, due at t.
Hung(w, o, n, t) ==
  /\ w.ob[o].timed = n
  /\ \A k \in Level : IF n = 1 /\ k = w.ob[o].olev THEN Only(w.q[k], o, t) ELSE None(w.q[k], o)

\* The lights of o: b of them, on its level.
Shines(w, o, b) == \A k \in Level : w.ls[k][o] = IF k = w.ob[o].olev THEN b ELSE 0

Dark(w, o) == ~w.ob[o].lit /\ Hung(w, o, 0, 0) /\ Shines(w, o, 0)
Burns(w, o, t) == w.ob[o].lit /\ Hung(w, o, 1, t) /\ Shines(w, o, 1)
Ripens(w, o, t) == ~w.ob[o].lit /\ Hung(w, o, 1, t) /\ Shines(w, o, 0)
\* Its timer has just gone off.
Glows(w, o) == w.ob[o].lit /\ Hung(w, o, 0, 0) /\ Shines(w, o, 1)

\* A change after a change.
LEMMA ChangeOn ==
  ASSUME NEW w, NEW v, NEW u, NEW o, NEW x, NEW n, NEW r, NEW y, NEW m, NEW s,
         Change(w, v, o, x, n, r), r.olev = w.ob[o].olev, Change(v, u, o, y, m, s)
  PROVE  Change(w, u, o, y, m, s)
BY DEF Change

\* What a change of queue, lights and record leaves of an object's timers and lights.
LEMMA ChangeStands ==
  ASSUME NEW w \in Worlds, NEW o \in Obj, NEW v, NEW x, NEW n, NEW r,
         Change(w, v, o, x, n, r), r.olev = w.ob[o].olev
  PROVE  /\ \A b : Shines(w, o, b) => Shines(v, o, n)
         /\ \A m, t : Hung(w, o, m, t) =>
              /\ r.timed = 0 /\ None(x, o) => Hung(v, o, 0, 0)
              /\ \A u : r.timed = 1 /\ Only(x, o, u) => Hung(v, o, 1, u)
<1>1. w.ob[o].olev \in Level
  BY WorldTypes
<1>2. \A b : Shines(w, o, b) => Shines(v, o, n)
  BY <1>1 DEF Shines, Change
<1>3. ASSUME NEW m, NEW t, Hung(w, o, m, t)
      PROVE  \A k \in Level : k # w.ob[o].olev => None(v.q[k], o)
  BY <1>3 DEF Hung, Change
<1> QED
  BY <1>2, <1>3 DEF Hung, Change

\* del_light_source, at the level of the object.
LEMMA LightDeleted ==
  ASSUME NEW w \in Worlds, NEW o \in Obj
  PROVE  \E n \in Nat :
           /\ Change(w, DelLight(w, w.ob[o].olev, o), o, w.q[w.ob[o].olev], n, w.ob[o])
           /\ w.ls[w.ob[o].olev][o] = 1 => n = 0
<1> DEFINE l == w.ob[o].olev
           v == DelLight(w, l, o)
           n == IF w.ls[l][o] = 0 THEN 0 ELSE w.ls[l][o] - 1
<1>1. w.q[l] \in Seq(Timer) /\ w.ob[o] \in Thing /\ w.ls[l][o] \in Nat
  BY WorldTypes
<1>2. n \in Nat /\ (w.ls[l][o] = 1 => n = 0)
  BY <1>1
<1>3. v \in [q : {w.q}, ls : {[w.ls EXCEPT ![l] = [w.ls[l] EXCEPT ![o] = n]]}, ob : {w.ob}]
  <2>1. CASE w.ls[l][o] = 0
    <3>1. v = w /\ n = w.ls[l][o]
      BY <2>1 DEF DelLight
    <3>2. w.ls = [w.ls EXCEPT ![l] = [w.ls[l] EXCEPT ![o] = w.ls[l][o]]]
      BY ZenonT(60), Same
    <3> HIDE DEF n
    <3>3. w.ls = [w.ls EXCEPT ![l] = [w.ls[l] EXCEPT ![o] = n]]
      BY <3>1, <3>2
    <3> QED
      BY <3>1, <3>3 DEF Worlds
  <2>2. CASE w.ls[l][o] # 0
    <3>1. v = [w EXCEPT !.ls[l][o] = n]
      BY <2>2 DEF DelLight
    <3> HIDE DEF n, v
    <3> QED
      BY <3>1 DEF Worlds
  <2> QED
    BY <2>1, <2>2
<1>4. w.q = [w.q EXCEPT ![l] = w.q[l]] /\ w.ob = [w.ob EXCEPT ![o] = w.ob[o]]
  BY Same
<1> HIDE DEF n, v, l
<1>5. Change(w, v, o, w.q[l], n, w.ob[o])
  BY <1>1, <1>2, <1>3, <1>4, Updated DEF l
<1> QED
  BY <1>2, <1>5 DEF v, l

\* new_light_source, at the level of the object.
LEMMA LightAdded ==
  ASSUME NEW w \in Worlds, NEW o \in Obj
  PROVE  Change(w, NewLight(w, w.ob[o].olev, o), o, w.q[w.ob[o].olev],
                w.ls[w.ob[o].olev][o] + 1, w.ob[o])
<1> DEFINE l == w.ob[o].olev
           v == NewLight(w, l, o)
           n == w.ls[l][o] + 1
<1>1. w.q[l] \in Seq(Timer) /\ w.ob[o] \in Thing /\ w.ls[l][o] \in Nat
  BY WorldTypes
<1>2. n \in Nat
  BY <1>1
<1>3. v \in [q : {w.q}, ls : {[w.ls EXCEPT ![l] = [w.ls[l] EXCEPT ![o] = n]]}, ob : {w.ob}]
  <2>1. v = [w EXCEPT !.ls[l][o] = n]
    BY DEF NewLight
  <2> HIDE DEF n, v
  <2> QED
    BY <2>1 DEF Worlds
<1>4. w.q = [w.q EXCEPT ![l] = w.q[l]] /\ w.ob = [w.ob EXCEPT ![o] = w.ob[o]]
  BY Same
<1> HIDE DEF n, v, l
<1>5. Change(w, v, o, w.q[l], n, w.ob[o])
  BY <1>1, <1>2, <1>3, <1>4, Updated DEF l
<1> QED
  BY <1>5 DEF v, l, n

\* Another record, and nothing else.
LEMMA RecordSet ==
  ASSUME NEW w \in Worlds, NEW o \in Obj, NEW r \in Thing, NEW v \in [q : {w.q}, ls : {w.ls}, ob : {[w.ob EXCEPT ![o] = r]}]
  PROVE  Change(w, v, o, w.q[w.ob[o].olev], w.ls[w.ob[o].olev][o], r)
<1> DEFINE l == w.ob[o].olev
<1>1. w.q[l] \in Seq(Timer) /\ w.ls[l][o] \in Nat
  BY WorldTypes
<1>2. w.q = [w.q EXCEPT ![l] = w.q[l]] /\ w.ls = [w.ls EXCEPT ![l] = [w.ls[l] EXCEPT ![o] = w.ls[l][o]]]
  BY Same
<1> QED
  BY <1>1, <1>2, Updated

\* How far it is to the next report.
LEMMA NextMarkType ==
  ASSUME NEW age \in Int
  PROVE  NextMark(age) \in Int
<1> DEFINE below == {m \in Marks \cup {0} : m < age}
<1>1. CASE below = {}
  BY <1>1 DEF NextMark
<1>2. CASE below # {}
  <2>1. \A m \in below : m \in Nat /\ m < age
    BY BurningAssumption
  <2>2. age \in Nat
    BY <1>2, <2>1
  <2> DEFINE left == {i \in Nat : \E m \in below : i = age - m}
  <2>3. left # {}
    <3>1. PICK m \in below : TRUE
      BY <1>2
    <3>2. age - m \in Nat
      BY <2>1, <2>2
    <3> QED
      BY <3>2
  <2>4. PICK i \in left : \A j \in left : i <= j
    BY <2>3, Least
  <2>5. PICK m \in below : i = age - m
    BY <2>4
  <2>6. \A n \in below : n <= m
    <3> TAKE n \in below
    <3>1. age - n \in left
      BY <2>1, <2>2
    <3>2. age - m <= age - n
      BY <2>4, <2>5, <3>1
    <3> QED
      BY <2>1, <2>2, <3>2
  <2> DEFINE c == CHOOSE m2 \in below : \A n \in below : n <= m2
  <2>7. c \in below
    BY <2>6
  <2>8. NextMark(age) = age - c
    BY <1>2 DEF NextMark
  <2> HIDE DEF c
  <2> QED
    BY <2>1, <2>7, <2>8
<1> QED
  BY <1>1, <1>2

-----------------------------------------------------------------------------
(* begin_burn, and end_burn of what has no timer left.                     *)

\* begin_burn of an object that has no timer: it burns, and its fuel is either
\* left or in the timer.
LEMMA BurnBegun ==
  ASSUME NEW w \in Worlds, NEW o \in Obj, moves \in Int, NEW lev, NEW alreadyLit \in BOOLEAN,
         alreadyLit \/ lev = w.ob[o].olev, w.ob[o].age # 0
  PROVE  LET v == BeginBurn(w, lev, o, alreadyLit)
         IN  /\ Touches(w, v, o)
             /\ v.ob[o].where = w.ob[o].where /\ v.ob[o].olev = w.ob[o].olev
             /\ (IF alreadyLit THEN Glows(w, o) ELSE Dark(w, o)) =>
                  \E t \in Int : Burns(v, o, t) /\ v.ob[o].age + t - moves = w.ob[o].age
<1> DEFINE r == w.ob[o]
           l == r.olev
           k == NextMark(r.age)
           t == moves + k
           w1 == StartTimer(w, o, k)
           r1 == [r EXCEPT !.timed = @ + 1]
           w2 == [w1 EXCEPT !.ob[o].lit = TRUE, !.ob[o].age = @ - k]
           r2 == [r1 EXCEPT !.lit = TRUE, !.age = @ - k]
           v == BeginBurn(w, lev, o, alreadyLit)
<1>0. /\ r \in Thing /\ l \in Level /\ w.q[l] \in Seq(Timer) /\ w.ls[l][o] \in Nat
      /\ r.age \in Int /\ r.timed \in Int
  BY WorldTypes
<1>1. k \in Int
  BY <1>0, NextMarkType
<1>2. v = IF alreadyLit THEN w2 ELSE NewLight(w2, lev, o)
  BY DEF BeginBurn
<1> HIDE DEF k, w1, v
<1>3. PICK x \in Seq(Timer) :
             /\ \A p \in Obj \ {o} : Like(w.q[l], x, p)
             /\ Ordered(w.q[l]) => Ordered(x)
             /\ None(w.q[l], o) => Only(x, o, t)
             /\ Change(w, w1, o, x, w.ls[l][o], r1)
  BY <1>1, Started DEF w1
<1>4. /\ r1 \in Thing /\ r1.olev = l /\ r1.age = r.age /\ r1.timed = r.timed + 1
      /\ r1.where = r.where
  BY <1>0 DEF Thing
<1>5. /\ r2 \in Thing /\ r2.olev = l /\ r2.age = r.age - k /\ r2.timed = r.timed + 1 /\ r2.lit
      /\ r2.where = r.where
  <2>1. r.age - k \in Int
    BY <1>0, <1>1
  <2> HIDE DEF r1, k
  <2>2. r2 \in Thing
    BY <1>4, <2>1 DEF Thing
  <2>3. r2.olev = r1.olev /\ r2.where = r1.where /\ r2.timed = r1.timed /\ r2.lit
    BY <1>4 DEF Thing
  <2>4. r2.age = r1.age - k
    BY <1>4 DEF Thing
  <2> HIDE DEF r2
  <2> QED
    BY <1>4, <2>2, <2>3, <2>4
<1>6. w1 \in Worlds /\ w1.ob[o] = r1 /\ w1.q[l] = x /\ w1.ls[l][o] = w.ls[l][o]
  BY <1>3 DEF Change
<1>7. Change(w1, w2, o, x, w.ls[l][o], r2)
  <2>1. w2 \in [q : {w1.q}, ls : {w1.ls}, ob : {[w1.ob EXCEPT ![o] = r2]}]
    <3>1. w2 \in [q : {w1.q}, ls : {w1.ls},
                  ob : {[w1.ob EXCEPT ![o] = [w1.ob[o] EXCEPT !.lit = TRUE, !.age = @ - k]]}]
      BY <1>6 DEF Worlds
    <3> HIDE DEF r1
    <3> QED
      BY <1>6, <3>1
  <2> HIDE DEF w2, r2, l
  <2>2. Change(w1, w2, o, w1.q[w1.ob[o].olev], w1.ls[w1.ob[o].olev][o], r2)
    BY <1>5, <1>6, <2>1, RecordSet
  <2>3. w1.ob[o].olev = l
    BY <1>4, <1>6
  <2> QED
    BY <1>6, <2>2, <2>3
<1> HIDE DEF w2, r2, r1, l, r
<1>8. Change(w, w2, o, x, w.ls[l][o], r2)
  BY <1>3, <1>4, <1>7, ChangeOn DEF r, l
<1>9. PICK n : /\ n = IF alreadyLit THEN w.ls[l][o] ELSE w.ls[l][o] + 1
               /\ Change(w, v, o, x, n, r2)
  <2>1. CASE alreadyLit
    BY <1>2, <1>8, <2>1
  <2>2. CASE ~alreadyLit
    <3>1. w2 \in Worlds /\ w2.ob[o] = r2 /\ w2.q[l] = x /\ w2.ls[l][o] = w.ls[l][o]
      BY <1>8 DEF Change, r, l
    <3>2. Change(w2, NewLight(w2, w2.ob[o].olev, o), o, w2.q[w2.ob[o].olev],
                w2.ls[w2.ob[o].olev][o] + 1, w2.ob[o])
      BY <3>1, LightAdded
    <3>3. w2.ob[o].olev = l /\ lev = l
      BY <1>5, <2>2, <3>1 DEF r, l
    <3>4. Change(w2, v, o, x, w.ls[l][o] + 1, r2)
      BY <1>2, <2>2, <3>1, <3>2, <3>3
    <3>5. Change(w, v, o, x, w.ls[l][o] + 1, r2)
      BY <1>5, <1>8, <3>4, ChangeOn DEF r, l
    <3> QED
      BY <2>2, <3>5
  <2> QED
    BY <2>1, <2>2
<1>10. Touches(w, v, o)
  BY <1>3, <1>9, ChangeTouches DEF r, l
<1>11. v.ob[o] = r2
  BY <1>9 DEF Change
<1>12. ASSUME IF alreadyLit THEN Glows(w, o) ELSE Dark(w, o)
       PROVE  Burns(v, o, t) /\ v.ob[o].age + t - moves = w.ob[o].age
  <2>1. Hung(w, o, 0, 0) /\ Shines(w, o, IF alreadyLit THEN 1 ELSE 0)
    BY <1>12 DEF Glows, Dark
  <2>2. r.timed = 0 /\ None(w.q[l], o) /\ w.ls[l][o] = IF alreadyLit THEN 1 ELSE 0
    BY <1>0, <2>1 DEF Hung, Shines, r, l
  <2>3. r2.timed = 1 /\ Only(x, o, t) /\ n = 1
    BY <1>3, <1>5, <1>9, <2>2
  <2>4. Hung(v, o, 1, t) /\ Shines(v, o, 1)
    BY <1>5, <1>9, <2>1, <2>3, ChangeStands DEF r, l
  <2>5. v.ob[o].age + t - moves = w.ob[o].age
    BY <1>0, <1>1, <1>5, <1>11 DEF r
  <2> QED
    BY <1>5, <1>11, <2>4, <2>5 DEF Burns
<1>13. t \in Int
  BY <1>1
<1> HIDE DEF t
<1>14. (IF alreadyLit THEN Glows(w, o) ELSE Dark(w, o)) =>
         \E i \in Int : Burns(v, o, i) /\ v.ob[o].age + i - moves = w.ob[o].age
  BY <1>12, <1>13
<1>15. v.ob[o].where = w.ob[o].where /\ v.ob[o].olev = w.ob[o].olev
  BY <1>5, <1>11 DEF r, l
<1> QED
  BY <1>10, <1>14, <1>15 DEF v

\* del_light_source of an object without a timer, and it is dark.
LEMMA PutOut ==
  ASSUME NEW w \in Worlds, NEW o \in Obj
  PROVE  LET v == EndBurn(w, o, FALSE)
         IN  /\ Touches(w, v, o)
             /\ v.ob[o].where = w.ob[o].where /\ v.ob[o].olev = w.ob[o].olev
             /\ v.ob[o].age = w.ob[o].age
             /\ Glows(w, o) => Dark(v, o)
<1> DEFINE r == w.ob[o]
           l == r.olev
           w1 == DelLight(w, l, o)
           v == EndBurn(w, o, FALSE)
           r2 == [r EXCEPT !.lit = FALSE]
<1>0. r \in Thing /\ l \in Level
  BY WorldTypes
<1>1. CASE ~r.lit
  <2>1. v = w
    BY <1>1 DEF EndBurn
  <2> QED
    BY <1>1, <2>1, TouchesNot DEF Glows
<1>2. CASE r.lit
  <2>1. v = [w1 EXCEPT !.ob[o].lit = FALSE]
    BY <1>2 DEF EndBurn
  <2>2. PICK n \in Nat : /\ Change(w, w1, o, w.q[l], n, r)
                         /\ w.ls[l][o] = 1 => n = 0
    BY LightDeleted
  <2> HIDE DEF w1, v
  <2>3. w1 \in Worlds /\ w1.ob[o] = r /\ w1.q[l] = w.q[l] /\ w1.ls[l][o] = n
    BY <2>2 DEF Change
  <2>4. r2 \in Thing /\ r2.olev = l /\ ~r2.lit /\ r2.where = r.where /\ r2.age = r.age
        /\ r2.timed = r.timed
    BY <1>0 DEF Thing
  <2>5. v \in [q : {w1.q}, ls : {w1.ls}, ob : {[w1.ob EXCEPT ![o] = r2]}]
    <3>1. v \in [q : {w1.q}, ls : {w1.ls}, ob : {[w1.ob EXCEPT ![o] = [w1.ob[o] EXCEPT !.lit = FALSE]]}]
      BY <2>1, <2>3 DEF Worlds
    <3> QED
      BY <2>3, <3>1
  <2> HIDE DEF r2
  <2>6. Change(w1, v, o, w.q[l], n, r2)
    BY <2>3, <2>4, <2>5, RecordSet
  <2>7. Change(w, v, o, w.q[l], n, r2)
    BY <2>2, <2>6, ChangeOn
  <2>8. Touches(w, v, o)
    BY <2>7, ChangeTouches DEF Like
  <2>9. v.ob[o] = r2
    BY <2>7 DEF Change
  <2>10. ASSUME Glows(w, o) PROVE Dark(v, o)
    <3>1. r.timed = 0 /\ None(w.q[l], o) /\ w.ls[l][o] = 1
      BY <1>0, <2>10 DEF Glows, Hung, Shines
    <3>2. Hung(v, o, 0, 0) /\ Shines(v, o, 0)
      BY <2>2, <2>4, <2>7, <2>10, <3>1, ChangeStands DEF Glows
    <3> QED
      BY <2>4, <2>9, <3>2 DEF Dark
  <2> QED
    BY <2>4, <2>8, <2>9, <2>10 DEF v
<1> QED
  BY <1>1, <1>2, <1>0 DEF Thing

-----------------------------------------------------------------------------
(* cleanup_burn, stop_timer.                                               *)

\* What the cleanup of a timer that was due at `at' makes of o.
Cleaned(w, v, o, at, n, r) ==
  /\ Change(w, v, o, w.q[w.ob[o].olev], n, r)
  /\ r.where = w.ob[o].where /\ r.olev = w.ob[o].olev /\ r.timed = w.ob[o].timed
  /\ ~w.ob[o].lit => ~r.lit /\ n = w.ls[w.ob[o].olev][o]
  /\ Burnable(o) /\ w.ob[o].lit =>
       /\ ~r.lit /\ r.age = w.ob[o].age + at - moves
       /\ w.ls[w.ob[o].olev][o] = 1 => n = 0

\* The cleanup of a timer: what burned goes out and has the rest of its time back.
LEMMA CleanedUp ==
  ASSUME NEW w \in Worlds, NEW o \in Obj, moves \in Int, NEW at \in Int
  PROVE  \E n \in Nat, r \in Thing : Cleaned(w, Cleanup(w, o, at), o, at, n, r)
<1> DEFINE r == w.ob[o]
           l == r.olev
           w1 == DelLight(w, l, o)
           v == Cleanup(w, o, at)
           r2 == [r EXCEPT !.age = @ + at - moves, !.lit = FALSE]
<1>0. r \in Thing /\ l \in Level /\ w.ls[l][o] \in Nat /\ r.age \in Int
  BY WorldTypes
<1>1. CASE ~(Burnable(o) /\ r.lit)
  <2>1. v = w
    BY <1>1 DEF Cleanup, CleanupBurn
  <2>2. Change(w, v, o, w.q[l], w.ls[l][o], r)
    BY <1>0, <2>1 DEF Change
  <2> HIDE DEF v
  <2> QED
    BY <1>0, <1>1, <2>2 DEF v, Cleaned
<1>2. CASE Burnable(o) /\ r.lit
  <2>1. v = [w1 EXCEPT !.ob[o].age = @ + at - moves, !.ob[o].lit = FALSE]
    BY <1>2 DEF Cleanup, CleanupBurn
  <2>2. PICK n \in Nat : /\ Change(w, w1, o, w.q[l], n, r)
                         /\ w.ls[l][o] = 1 => n = 0
    BY LightDeleted
  <2> HIDE DEF w1, v
  <2>3. w1 \in Worlds /\ w1.ob[o] = r /\ w1.q[l] = w.q[l] /\ w1.ls[l][o] = n
    BY <2>2 DEF Change
  <2>4. r.age + at - moves \in Int
    BY <1>0
  <2>5. r2 \in Thing
    BY <1>0, <2>4 DEF Thing
  <2>6. r2.olev = l /\ ~r2.lit /\ r2.where = r.where /\ r2.timed = r.timed
    BY <1>0 DEF Thing
  <2>7. r2.age = r.age + at - moves
    BY <1>0 DEF Thing
  <2>8. v \in [q : {w1.q}, ls : {w1.ls}, ob : {[w1.ob EXCEPT ![o] = r2]}]
    <3>1. v \in [q : {w1.q}, ls : {w1.ls},
                 ob : {[w1.ob EXCEPT ![o] = [w1.ob[o] EXCEPT !.age = @ + at - moves, !.lit = FALSE]]}]
      BY <2>1, <2>3 DEF Worlds
    <3> QED
      BY <2>3, <3>1
  <2> HIDE DEF r2
  <2>9. Change(w1, v, o, w.q[l], n, r2)
    BY <2>3, <2>5, <2>8, RecordSet
  <2>10. Change(w, v, o, w.q[l], n, r2)
    BY <2>2, <2>9, ChangeOn
  <2> QED
    BY <1>2, <2>2, <2>5, <2>6, <2>7, <2>10 DEF v, Cleaned
<1> QED
  BY <1>1, <1>2

\* stop_timer.
LEMMA Stopped ==
  ASSUME NEW w \in Worlds, NEW o \in Obj, moves \in Int
  PROVE  LET v == StopTimer(w, o)
         IN  /\ Touches(w, v, o)
             /\ v.ob[o].where = w.ob[o].where /\ v.ob[o].olev = w.ob[o].olev
             /\ \A t \in Int : Burnable(o) /\ Burns(w, o, t) =>
                  Dark(v, o) /\ v.ob[o].age = w.ob[o].age + t - moves
<1> DEFINE r == w.ob[o]
           l == r.olev
           i == FirstOf(w.q[l], o)
           x == RemoveAt(w.q[l], i)
           at == w.q[l][i].at
           w1 == [w EXCEPT !.q[l] = x, !.ob[o].timed = @ - 1]
           r1 == [r EXCEPT !.timed = @ - 1]
           v == StopTimer(w, o)
<1>0. /\ r \in Thing /\ l \in Level /\ w.ls[l][o] \in Nat /\ r.age \in Int /\ r.timed \in Int
      /\ w.q[l] \in Seq(Timer)
  BY WorldTypes
<1>1. CASE ~HasTimer(w.q[l], o)
  <2>1. v = w
    BY <1>1 DEF StopTimer
  <2>2. \A t \in Int : ~Burns(w, o, t)
    BY <1>0, <1>1, Counting DEF Burns, Hung
  <2> QED
    BY <2>1, <2>2, TouchesNot
<1>2. CASE HasTimer(w.q[l], o)
  <2>1. v = Cleanup(w1, o, at)
    BY <1>2 DEF StopTimer
  <2>2. i \in DOMAIN w.q[l] /\ w.q[l][i].o = o
    BY <1>0, <1>2, Counting
  <2>3. at \in Int
    BY <1>0, <2>2, TimerTypes
  <2> HIDE DEF i
  <2>4. /\ x \in Seq(Timer) /\ \A p : p # o => Like(w.q[l], x, p)
        /\ (\A j \in DOMAIN w.q[l] : w.q[l][j].o = o => j = i) => None(x, o)
        /\ Ordered(w.q[l]) => Ordered(x)
    BY <1>0, <2>2, Removed
  <2> HIDE DEF x, at
  <2>5. r.timed - 1 \in Int
    BY <1>0
  <2>6. r1 \in Thing
    BY <1>0, <2>5 DEF Thing
  <2>7. /\ r1.olev = l /\ r1.where = r.where /\ r1.timed = r.timed - 1
        /\ r1.age = r.age /\ r1.lit = r.lit
    BY <1>0 DEF Thing
  <2>8. w1 \in [q : {[w.q EXCEPT ![l] = x]}, ls : {w.ls}, ob : {[w.ob EXCEPT ![o] = r1]}]
    BY DEF Worlds
  <2>9. w.ls = [w.ls EXCEPT ![l] = [w.ls[l] EXCEPT ![o] = w.ls[l][o]]]
    BY ZenonT(60), Same
  <2> HIDE DEF r1, w1, v, l
  <2>10. Change(w, w1, o, x, w.ls[l][o], r1)
    BY <1>0, <2>4, <2>6, <2>8, <2>9, Updated DEF l
  <2>11. w1 \in Worlds /\ w1.ob[o] = r1 /\ w1.q[l] = x /\ w1.ls[l][o] = w.ls[l][o]
    BY <2>10 DEF Change, l
  <2>12. PICK n \in Nat, r2 \in Thing :
           /\ Change(w1, v, o, x, n, r2)
           /\ r2.where = r.where /\ r2.olev = l /\ r2.timed = r.timed - 1
           /\ Burnable(o) /\ r.lit =>
                /\ ~r2.lit /\ r2.age = r.age + at - moves
                /\ w.ls[l][o] = 1 => n = 0
    <3>0. w1 \in Worlds /\ at \in Int
      BY <2>3, <2>11
    <3>1. PICK n \in Nat, r2 \in Thing : Cleaned(w1, Cleanup(w1, o, at), o, at, n, r2)
      BY <3>0, CleanedUp, Zenon
    <3>2. w1.ob[o].olev = l
      BY <2>7, <2>11
    <3> QED
      BY <2>1, <2>7, <2>11, <3>1, <3>2 DEF Cleaned
  <2>13. Change(w, v, o, x, n, r2)
    BY <2>7, <2>10, <2>12, ChangeOn DEF l
  <2>14. Touches(w, v, o)
    BY <2>4, <2>13, ChangeTouches DEF l
  <2>15. v.ob[o] = r2
    BY <2>13 DEF Change
  <2>16. ASSUME NEW t \in Int, Burnable(o), Burns(w, o, t)
         PROVE  Dark(v, o) /\ v.ob[o].age = r.age + t - moves
    <3>1. r.lit /\ r.timed = 1 /\ Only(w.q[l], o, t) /\ w.ls[l][o] = 1
      BY <1>0, <2>16 DEF Burns, Hung, Shines, l
    <3>2. at = t /\ None(x, o)
      BY <1>0, <2>4, <3>1, Counting DEF at, i
    <3>3. ~r2.lit /\ r2.age = r.age + t - moves /\ n = 0 /\ r2.timed = 0
      BY <2>12, <2>16, <3>1, <3>2
    <3>4. Hung(v, o, 0, 0) /\ Shines(v, o, 0)
      BY <2>12, <2>13, <2>16, <3>2, <3>3, ChangeStands DEF Burns, l
    <3> QED
      BY <2>15, <3>3, <3>4 DEF Dark
  <2> QED
    BY <2>12, <2>14, <2>15, <2>16 DEF v, l
<1> QED
  BY <1>1, <1>2

-----------------------------------------------------------------------------
(* obj_stop_timers, end_burn, dealloc_obj.                                 *)

\* obj_stop_timers.
LEMMA StoppedAll ==
  ASSUME NEW w \in Worlds, NEW o \in Obj, moves \in Int
  PROVE  LET v == StopTimers(w, o)
         IN  /\ Touches(w, v, o)
             /\ v.ob[o].where = w.ob[o].where /\ v.ob[o].olev = w.ob[o].olev
             /\ \A t \in Int : (Burnable(o) /\ Burns(w, o, t)) \/ (~Burnable(o) /\ Ripens(w, o, t))
                              => Dark(v, o)
<1> DEFINE r == w.ob[o]
           l == r.olev
           x == Sift(w.q[l], Obj \ {o})
           at == w.q[l][FirstOf(w.q[l], o)].at
           w1 == [w EXCEPT !.q[l] = x]
           w2 == IF HasTimer(w.q[l], o) THEN Cleanup(w1, o, at) ELSE w1
           v == StopTimers(w, o)
<1>0. /\ r \in Thing /\ l \in Level /\ w.ls[l][o] \in Nat /\ r.age \in Int /\ r.timed \in Int
      /\ w.q[l] \in Seq(Timer)
  BY WorldTypes
<1>1. v = [w2 EXCEPT !.ob[o].timed = 0]
  BY DEF StopTimers
<1>2. /\ x \in Seq(Timer)
      /\ \A p \in Obj \ {o} : Like(w.q[l], x, p)
      /\ None(x, o)
      /\ Ordered(w.q[l]) => Ordered(x)
  <2>1. o \notin Obj \ {o}
    OBVIOUS
  <2> QED
    BY <1>0, <2>1, Sifted
<1> HIDE DEF x
<1>3. Change(w, w1, o, x, w.ls[l][o], r)
  <2>1. w1 \in [q : {[w.q EXCEPT ![l] = x]}, ls : {w.ls}, ob : {w.ob}]
    BY DEF Worlds
  <2>2. /\ w.ls = [w.ls EXCEPT ![l] = [w.ls[l] EXCEPT ![o] = w.ls[l][o]]]
        /\ w.ob = [w.ob EXCEPT ![o] = r]
    BY ZenonT(60), Same
  <2> HIDE DEF w1, l, r
  <2> QED
    BY <1>0, <1>2, <2>1, <2>2, Updated DEF l, r
<1>4. w1 \in Worlds /\ w1.ob[o] = r /\ w1.q[l] = x /\ w1.ls[l][o] = w.ls[l][o]
  BY <1>3 DEF Change
<1> HIDE DEF w1, v
<1>5. PICK n \in Nat, r2 \in Thing :
        /\ Change(w1, w2, o, x, n, r2)
        /\ r2.where = r.where /\ r2.olev = l /\ r2.timed = r.timed
        /\ ~r.lit => ~r2.lit /\ n = w.ls[l][o]
        /\ HasTimer(w.q[l], o) /\ Burnable(o) /\ r.lit => ~r2.lit /\ (w.ls[l][o] = 1 => n = 0)
  <2>1. CASE ~HasTimer(w.q[l], o)
    <3>1. w2 = w1
      BY <2>1
    <3>2. Change(w1, w2, o, x, w.ls[l][o], r)
      BY <1>4, <3>1 DEF Change
    <3> HIDE DEF w2
    <3> QED
      BY <1>0, <2>1, <3>2
  <2>2. CASE HasTimer(w.q[l], o)
    <3>1. w2 = Cleanup(w1, o, at)
      BY <2>2
    <3>2. at \in Int
      BY <1>0, <2>2, Counting, TimerTypes
    <3> HIDE DEF w2, at
    <3>3. PICK n \in Nat, r2 \in Thing : Cleaned(w1, w2, o, at, n, r2)
      BY <1>4, <3>1, <3>2, CleanedUp
    <3> QED
      BY <1>4, <3>3 DEF Cleaned
  <2> QED
    BY <2>1, <2>2
<1> HIDE DEF w2
<1> DEFINE r3 == [r2 EXCEPT !.timed = 0]
<1>6. w2 \in Worlds /\ w2.ob[o] = r2 /\ w2.q[l] = x /\ w2.ls[l][o] = n
  BY <1>4, <1>5 DEF Change
<1>7. r3 \in Thing /\ r3.olev = l /\ r3.where = r.where /\ r3.lit = r2.lit /\ r3.timed = 0
  BY <1>5 DEF Thing
<1>8. v \in [q : {w2.q}, ls : {w2.ls}, ob : {[w2.ob EXCEPT ![o] = r3]}]
  <2>1. v \in [q : {w2.q}, ls : {w2.ls}, ob : {[w2.ob EXCEPT ![o] = [w2.ob[o] EXCEPT !.timed = 0]]}]
    BY <1>1, <1>6 DEF Worlds
  <2> QED
    BY <1>6, <2>1
<1> HIDE DEF r3
<1>9. Change(w2, v, o, x, n, r3)
  BY <1>5, <1>6, <1>7, <1>8, RecordSet
<1>10. Change(w, v, o, x, n, r3)
  <2>1. Change(w, w2, o, x, n, r2)
    BY <1>3, <1>5, ChangeOn
  <2> QED
    BY <1>5, <1>9, <2>1, ChangeOn
<1>11. Touches(w, v, o)
  BY <1>2, <1>10, ChangeTouches
<1>12. v.ob[o] = r3
  BY <1>10 DEF Change
<1>13. ASSUME NEW t \in Int,
              \/ Burnable(o) /\ Burns(w, o, t)
              \/ ~Burnable(o) /\ Ripens(w, o, t)
       PROVE  Dark(v, o)
  <2>1. Only(w.q[l], o, t) /\ HasTimer(w.q[l], o)
    BY <1>0, <1>13, Counting DEF Burns, Ripens, Hung
  <2>2. ~r2.lit /\ n = 0
    <3>1. CASE r.lit
      BY <1>0, <1>5, <1>13, <2>1, <3>1 DEF Burns, Ripens, Shines
    <3>2. CASE ~r.lit
      BY <1>0, <1>5, <1>13, <3>2 DEF Burns, Ripens, Shines
    <3> QED
      BY <3>1, <3>2
  <2>3. PICK b : Shines(w, o, b) /\ Hung(w, o, 1, t)
    BY <1>13 DEF Burns, Ripens
  <2>4. Hung(v, o, 0, 0) /\ Shines(v, o, 0)
    BY <1>2, <1>7, <1>10, <2>2, <2>3, ChangeStands
  <2> QED
    BY <1>7, <1>12, <2>2, <2>4 DEF Dark
<1> QED
  BY <1>7, <1>11, <1>12, <1>13 DEF v

\* end_burn of what may have a timer.
LEMMA BurnEnded ==
  ASSUME NEW w \in Worlds, NEW o \in Obj, moves \in Int
  PROVE  LET v == EndBurn(w, o, TRUE)
         IN  /\ Touches(w, v, o)
             /\ v.ob[o].where = w.ob[o].where /\ v.ob[o].olev = w.ob[o].olev
             /\ ~w.ob[o].lit => v = w
             /\ \A t \in Int : Burnable(o) /\ Burns(w, o, t) =>
                  Dark(v, o) /\ v.ob[o].age = w.ob[o].age + t - moves
<1>1. CASE w.ob[o].lit
  <2>1. EndBurn(w, o, TRUE) = StopTimer(w, o)
    BY <1>1 DEF EndBurn
  <2> QED
    BY <1>1, <2>1, Stopped
<1>2. CASE ~w.ob[o].lit
  <2>1. EndBurn(w, o, TRUE) = w
    BY <1>2 DEF EndBurn
  <2> QED
    BY <1>2, <2>1, TouchesNot DEF Burns
<1> QED
  BY <1>1, <1>2

\* An object that may be freed and leave nothing behind.
Settled(w, o) ==
  \/ Dark(w, o)
  \/ \E t \in Int : \/ Burnable(o) /\ Burns(w, o, t)
                    \/ ~Burnable(o) /\ Ripens(w, o, t)

\* dealloc_obj.
LEMMA FreedClean ==
  ASSUME NEW w \in Worlds, NEW o \in Obj, moves \in Int
  PROVE  LET v == Free(w, o)
         IN  /\ Touches(w, v, o) /\ v.ob[o] = Freed
             /\ Settled(w, o) => Dark(v, o)
<1> DEFINE w1 == IF w.ob[o].timed # 0 THEN StopTimers(w, o) ELSE w
           w2 == IF w1.ob[o].lit THEN DelLight(w1, w1.ob[o].olev, o) ELSE w1
           v == Free(w, o)
<1>1. v = [w2 EXCEPT !.ob[o] = Freed]
  BY DEF Free
<1>2. Touches(w, w1, o) /\ (Settled(w, o) => Dark(w1, o))
  <2>1. CASE w.ob[o].timed # 0
    <3>1. ~Dark(w, o)
      BY <2>1 DEF Dark, Hung
    <3> QED
      BY <2>1, <3>1, StoppedAll DEF Settled
  <2>2. CASE w.ob[o].timed = 0
    <3>1. \A t \in Int : ~Burns(w, o, t) /\ ~Ripens(w, o, t)
      BY <2>2 DEF Burns, Ripens, Hung
    <3> QED
      BY <2>2, <3>1, TouchesNot DEF Settled
  <2> QED
    BY <2>1, <2>2
<1> HIDE DEF w1, v
<1>3. w1 \in Worlds
  BY <1>2 DEF Touches
<1>4. Touches(w1, w2, o) /\ (Dark(w1, o) => w2 = w1)
  <2>1. CASE w1.ob[o].lit
    <3>1. PICK n \in Nat :
             Change(w1, DelLight(w1, w1.ob[o].olev, o), o, w1.q[w1.ob[o].olev], n, w1.ob[o])
      BY <1>3, LightDeleted
    <3>2. Touches(w1, DelLight(w1, w1.ob[o].olev, o), o)
      BY <1>3, <3>1, ChangeTouches DEF Like
    <3> QED
      BY <2>1, <3>2 DEF Dark
  <2>2. CASE ~w1.ob[o].lit
    BY <1>3, <2>2, TouchesNot
  <2> QED
    BY <2>1, <2>2
<1> HIDE DEF w2
<1>5. w2 \in Worlds
  BY <1>4 DEF Touches
<1>6. Freed \in Thing
  BY BurningAssumption DEF Freed, Thing, Level
<1>7. v \in [q : {w2.q}, ls : {w2.ls}, ob : {[w2.ob EXCEPT ![o] = Freed]}]
  BY <1>1, <1>5 DEF Worlds
<1>8. Change(w2, v, o, w2.q[w2.ob[o].olev], w2.ls[w2.ob[o].olev][o], Freed)
  BY <1>5, <1>6, <1>7, RecordSet
<1>9. Touches(w2, v, o)
  BY <1>5, <1>8, ChangeTouches DEF Like
<1>10. v.ob[o] = Freed
  BY <1>8 DEF Change
<1>11. ASSUME Dark(w2, o) PROVE Dark(v, o)
  <2>1. \A k \in Level : v.q[k] = w2.q[k] /\ v.ls[k][o] = w2.ls[k][o]
    BY <1>8 DEF Change
  <2>2. ~Freed.lit /\ Freed.timed = 0
    BY DEF Freed
  <2> QED
    BY <1>10, <1>11, <2>1, <2>2 DEF Dark, Hung, Shines
<1>12. Touches(w, v, o)
  BY <1>2, <1>4, <1>9, TouchesOn
<1> QED
  BY <1>2, <1>4, <1>10, <1>11, <1>12 DEF v

-----------------------------------------------------------------------------
(* burn_object, and the inductive invariant.                               *)

\* Another age.
LEMMA AgeSet ==
  ASSUME NEW w \in Worlds, NEW o \in Obj, NEW a \in Int, NEW v, v = [w EXCEPT !.ob[o].age = a]
  PROVE  /\ Touches(w, v, o)
         /\ v.ob[o].where = w.ob[o].where /\ v.ob[o].olev = w.ob[o].olev
         /\ v.ob[o].age = a
         /\ Glows(w, o) => Glows(v, o)
         /\ Dark(w, o) => Dark(v, o)
<1> DEFINE r == [w.ob[o] EXCEPT !.age = a]
<1>0. w.ob[o] \in Thing
  BY WorldTypes
<1>1. r \in Thing
  BY <1>0 DEF Thing
<1>2. /\ r.where = w.ob[o].where /\ r.olev = w.ob[o].olev /\ r.age = a
      /\ r.timed = w.ob[o].timed /\ r.lit = w.ob[o].lit
  BY <1>0 DEF Thing
<1>3. v \in [q : {w.q}, ls : {w.ls}, ob : {[w.ob EXCEPT ![o] = r]}]
  BY DEF Worlds
<1> HIDE DEF r
<1>4. Change(w, v, o, w.q[w.ob[o].olev], w.ls[w.ob[o].olev][o], r)
  BY <1>1, <1>3, RecordSet
<1>5. Touches(w, v, o)
  BY <1>4, ChangeTouches DEF Like
<1>6. v.ob[o] = r /\ \A k \in Level : v.q[k] = w.q[k] /\ v.ls[k][o] = w.ls[k][o]
  BY <1>4 DEF Change
<1> QED
  BY <1>2, <1>5, <1>6 DEF Glows, Dark, Hung, Shines

\* burn_object: what burned goes on burning, or has burned for all its fuel.
LEMMA BurnedDown ==
  ASSUME NEW w \in Worlds, NEW o \in Obj, moves \in Int, NEW at \in Int, at <= moves, NEW s \in Int
  PROVE  LET v == BurnObject(w, o, at)
         IN  /\ Touches(w, v, o)
             /\ \/ v.ob[o] = Freed
                \/ v.ob[o].where = w.ob[o].where /\ v.ob[o].olev = w.ob[o].olev
             /\ Glows(w, o) /\ w.ob[o].age + at - moves + s = Fuel =>
                  \/ Dark(v, o) /\ (v.ob[o] = Freed \/ (v.ob[o].age = 0 /\ s >= Fuel))
                  \/ \E t \in Int : Burns(v, o, t) /\ v.ob[o].age + t - moves + s = Fuel
<1> DEFINE v == BurnObject(w, o, at)
           away == moves - at
           w1 == [w EXCEPT !.ob[o].age = 0]
           out == EndBurn(w1, o, FALSE)
           consumed == IF Kind[o] = "candle" THEN Free(out, o) ELSE out
           w2 == [w EXCEPT !.ob[o].age = @ - away]
<1>0. w.ob[o].age \in Int /\ Fuel \in Nat
  BY WorldTypes, BurningAssumption
<1>1. /\ Touches(w, w1, o) /\ w1.ob[o].where = w.ob[o].where /\ w1.ob[o].olev = w.ob[o].olev
      /\ w1.ob[o].age = 0 /\ (Glows(w, o) => Glows(w1, o))
  BY AgeSet
<1> HIDE DEF w1
<1>2. w1 \in Worlds
  BY <1>1 DEF Touches
<1>3. /\ Touches(w1, out, o) /\ out.ob[o].where = w1.ob[o].where /\ out.ob[o].olev = w1.ob[o].olev
      /\ out.ob[o].age = 0 /\ (Glows(w1, o) => Dark(out, o))
  BY <1>1, <1>2, PutOut
<1> HIDE DEF out
<1>4. out \in Worlds /\ Touches(w, out, o)
  BY <1>1, <1>3, TouchesOn DEF Touches
<1>5. /\ Touches(w, consumed, o)
      /\ \/ consumed.ob[o] = Freed
         \/ consumed.ob[o].where = w.ob[o].where /\ consumed.ob[o].olev = w.ob[o].olev
      /\ Glows(w, o) => Dark(consumed, o) /\ (consumed.ob[o] = Freed \/ consumed.ob[o].age = 0)
  <2>1. CASE Kind[o] = "candle"
    <3>1. /\ Touches(out, consumed, o) /\ consumed.ob[o] = Freed
          /\ Dark(out, o) => Dark(consumed, o)
      BY <1>4, <2>1, FreedClean DEF Settled
    <3>2. Touches(w, consumed, o)
      BY <1>4, <3>1, TouchesOn
    <3> QED
      BY <1>1, <1>3, <3>1, <3>2
  <2>2. CASE Kind[o] # "candle"
    BY <1>1, <1>3, <1>4, <2>2
  <2> QED
    BY <2>1, <2>2
<1> HIDE DEF consumed
<1>6. v = IF at # moves
          THEN IF away >= w.ob[o].age THEN consumed ELSE BeginBurn(w2, here, o, TRUE)
          ELSE IF w.ob[o].age = 0 THEN consumed ELSE BeginBurn(w, here, o, TRUE)
  BY DEF BurnObject, consumed, out, w1
<1> HIDE DEF v
<1>7. CASE (at # moves /\ away >= w.ob[o].age) \/ (at = moves /\ w.ob[o].age = 0)
  <2>1. v = consumed
    BY <1>6, <1>7
  <2>2. w.ob[o].age + at - moves + s = Fuel => s >= Fuel
    BY <1>0, <1>7
  <2> QED
    BY <1>5, <2>1, <2>2 DEF v
<1>8. CASE at = moves /\ w.ob[o].age # 0
  <2>1. v = BeginBurn(w, here, o, TRUE)
    BY <1>6, <1>8
  <2>2. /\ Touches(w, v, o) /\ v.ob[o].where = w.ob[o].where /\ v.ob[o].olev = w.ob[o].olev
        /\ Glows(w, o) => \E t \in Int : Burns(v, o, t) /\ v.ob[o].age + t - moves = w.ob[o].age
    BY <1>8, <2>1, BurnBegun
  <2>3. v.ob[o].age \in Int
    BY <2>2, WorldTypes DEF Touches
  <2>4. \A t \in Int : /\ v.ob[o].age + t - moves = w.ob[o].age
                       /\ w.ob[o].age + at - moves + s = Fuel
                       => v.ob[o].age + t - moves + s = Fuel
    BY <1>0, <1>8, <2>3
  <2> QED
    BY <2>2, <2>4 DEF v
<1>9. CASE at # moves /\ ~(away >= w.ob[o].age)
  <2>1. w2 = [w EXCEPT !.ob[o].age = w.ob[o].age - away]
    BY DEF Worlds
  <2>2. w.ob[o].age - away \in Int /\ w.ob[o].age - away # 0
    BY <1>0, <1>9
  <2>3. /\ Touches(w, w2, o) /\ w2.ob[o].where = w.ob[o].where /\ w2.ob[o].olev = w.ob[o].olev
        /\ w2.ob[o].age = w.ob[o].age - away /\ (Glows(w, o) => Glows(w2, o))
    BY <2>1, <2>2, AgeSet
  <2> HIDE DEF w2
  <2>4. v = BeginBurn(w2, here, o, TRUE) /\ w2 \in Worlds
    BY <1>6, <1>9, <2>3 DEF Touches
  <2>5. /\ Touches(w2, v, o) /\ v.ob[o].where = w2.ob[o].where /\ v.ob[o].olev = w2.ob[o].olev
        /\ Glows(w2, o) => \E t \in Int : Burns(v, o, t) /\ v.ob[o].age + t - moves = w2.ob[o].age
    <3>1. w2.ob[o].age # 0
      BY <2>2, <2>3
    <3> QED
      BY ZenonT(60), <2>4, <3>1, BurnBegun
  <2>6. Touches(w, v, o)
    BY <2>3, <2>5, TouchesOn
  <2>7. v.ob[o].age \in Int
    BY <2>5, WorldTypes DEF Touches
  <2>8. \A t \in Int : /\ v.ob[o].age + t - moves = w2.ob[o].age
                       /\ w.ob[o].age + at - moves + s = Fuel
                       => v.ob[o].age + t - moves + s = Fuel
    BY <1>0, <2>3, <2>7
  <2> QED
    BY <2>3, <2>5, <2>6, <2>8 DEF v
<1> HIDE DEF v, away
<1> QED
  BY <1>7, <1>8, <1>9 DEF v


\* What is carried is where its carrier is: the hero at h, the monster at `at',
\* or nowhere.
Placed(r, h, at) ==
  /\ r.where = "invent" => r.olev = h
  /\ r.where = "minvent" /\ at # 0 => r.olev = at

Living(r) == r.where \notin {"unborn", "gone"}

\* An object that never changed level apart from its timers, at time m, after s turns of light.
Good(w, o, at, m, s) ==
  \/ /\ Dark(w, o)
     /\ Burnable(o) /\ Living(w.ob[o]) =>
          w.ob[o].age + s = Fuel \/ (w.ob[o].age = 0 /\ s >= Fuel)
  \/ /\ Living(w.ob[o]) /\ ~(w.ob[o].where = "minvent" /\ at = 0)
     /\ \E t \in Int : \/ Burnable(o) /\ Burns(w, o, t) /\ w.ob[o].age + t - m + s = Fuel
                       \/ ~Burnable(o) /\ Ripens(w, o, t)

Fit(w, h, at, m, sp, as) ==
  \A o \in Obj : Placed(w.ob[o], h, at) /\ (o \notin as => Good(w, o, at, m, sp[o]))

\* What is true of an object stays true while others are handled.
LEMMA Untouched ==
  ASSUME NEW w \in Worlds, NEW v, NEW o, NEW p \in Obj \ {o}, Touches(w, v, o), NEW at, NEW m, NEW s,
         Good(w, p, at, m, s)
  PROVE  Good(v, p, at, m, s)
<1>1. /\ v.ob[p] = w.ob[p]
      /\ \A k \in Level : v.ls[k][p] = w.ls[k][p] /\ Like(w.q[k], v.q[k], p)
  BY DEF Touches
<1>2. \A b : Shines(w, p, b) => Shines(v, p, b)
  BY <1>1 DEF Shines
<1>3. Hung(w, p, 0, 0) => Hung(v, p, 0, 0)
  BY <1>1 DEF Hung, Like
<1>4. \A t \in Int : Hung(w, p, 1, t) => Hung(v, p, 1, t)
  BY <1>1 DEF Hung, Like
<1>5. Dark(w, p) => Dark(v, p)
  BY <1>1, <1>2, <1>3 DEF Dark
<1>6. \A t \in Int : (Burns(w, p, t) => Burns(v, p, t)) /\ (Ripens(w, p, t) => Ripens(v, p, t))
  BY <1>1, <1>2, <1>4 DEF Burns, Ripens
<1> QED
  BY <1>1, <1>5, <1>6 DEF Good

\* A step that touches one object.
LEMMA Fitting ==
  ASSUME NEW w \in Worlds, NEW v, NEW o \in Obj, NEW h, NEW at, NEW m, NEW sp, NEW sp2, NEW as, NEW as2,
         Fit(w, h, at, m, sp, as), Touches(w, v, o),
         \A p \in Obj \ {o} : sp2[p] = sp[p] /\ (p \in as => p \in as2),
         Placed(v.ob[o], h, at), o \notin as2 => Good(v, o, at, m, sp2[o])
  PROVE  Fit(v, h, at, m, sp2, as2)
<1> SUFFICES ASSUME NEW p \in Obj
             PROVE  Placed(v.ob[p], h, at) /\ (p \notin as2 => Good(v, p, at, m, sp2[p]))
  BY DEF Fit
<1>1. CASE p = o
  BY <1>1
<1>2. CASE p # o
  <2>1. v.ob[p] = w.ob[p] /\ sp2[p] = sp[p] /\ (p \notin as2 => p \notin as)
    BY <1>2 DEF Touches
  <2>2. Placed(v.ob[p], h, at)
    BY <2>1 DEF Fit
  <2>3. ASSUME p \notin as2 PROVE Good(v, p, at, m, sp2[p])
    <3>1. Good(w, p, at, m, sp[p])
      BY <2>1, <2>3 DEF Fit
    <3> QED
      BY <1>2, <2>1, <3>1, Untouched
  <2> QED
    BY <2>2, <2>3
<1> QED
  BY <1>1, <1>2

-----------------------------------------------------------------------------
(* The steps that handle one object.                                       *)

BurnInv == BurnTypeOK /\ Fit(W, here, mon.at, moves, spent, astray)

\* No queue gets out of order.
OrderKept == \A l \in Level : Ordered(timers[l]) => Ordered(timers'[l])

\* The state as a world.
LEMMA Now ==
  ASSUME BurnTypeOK
  PROVE  /\ W \in Worlds /\ W.q = timers /\ W.ls = lights /\ W.ob = obj
         /\ moves \in Int /\ here \in Level /\ mon.at \in Level \cup {0} /\ mon.to \in Level
         /\ spent \in [Obj -> Int] /\ Level \subseteq Nat \ {0}
<1>1. W.q = timers /\ W.ls = lights /\ W.ob = obj /\ W = [q |-> timers, ls |-> lights, ob |-> obj]
  BY DEF W
<1>2. timers \in [Level -> Seq(Timer)] /\ lights \in [Level -> [Obj -> Nat]] /\ obj \in [Obj -> Thing]
  BY DEF BurnTypeOK
<1>3. W \in Worlds
  BY <1>1, <1>2 DEF Worlds
<1> QED
  BY <1>1, <1>3, BurningAssumption DEF BurnTypeOK, Level

\* The next state as a world.
LEMMA Becoming ==
  ASSUME NEW v \in Worlds, Becomes(v)
  PROVE  /\ W' = v
         /\ timers' \in [Level -> Seq(Timer)] /\ lights' \in [Level -> [Obj -> Nat]]
         /\ obj' \in [Obj -> Thing]
<1>1. v = [q |-> v.q, ls |-> v.ls, ob |-> v.ob]
  BY DEF Worlds
<1>2. v.q \in [Level -> Seq(Timer)] /\ v.ls \in [Level -> [Obj -> Nat]] /\ v.ob \in [Obj -> Thing]
  BY DEF Worlds
<1> QED
  BY <1>1, <1>2 DEF Becomes, W

\* A step about one object.
LEMMA OneTouched ==
  ASSUME BurnInv, NEW o \in Obj, NEW v, Touches(W, v, o), Becomes(v),
         moves' = moves, here' = here, mon' = mon, running' \in BOOLEAN,
         fate' \in {"play", "undefined", "panic"}, astray' \subseteq Obj, spent' \in [Obj -> Int],
         \A p \in Obj \ {o} : spent'[p] = spent[p] /\ (p \in astray => p \in astray'),
         Placed(v.ob[o], here, mon.at),
         o \notin astray' => Good(v, o, mon.at, moves, spent'[o])
  PROVE  BurnInv' /\ OrderKept
<1>1. BurnTypeOK /\ Fit(W, here, mon.at, moves, spent, astray)
  BY DEF BurnInv
<1>2. W \in Worlds /\ W.q = timers
  BY <1>1, Now
<1>3. v \in Worlds /\ timers' = v.q
  BY DEF Touches, Becomes
<1>4. /\ W' = v
      /\ timers' \in [Level -> Seq(Timer)] /\ lights' \in [Level -> [Obj -> Nat]]
      /\ obj' \in [Obj -> Thing]
  BY <1>3, Becoming
<1>5. BurnTypeOK'
  BY <1>1, <1>4 DEF BurnTypeOK
<1>6. Fit(v, here, mon.at, moves, spent', astray')
  BY <1>1, <1>2, Fitting
<1>7. Fit(W', here', mon'.at, moves', spent', astray')
  BY <1>4, <1>6
<1>8. OrderKept
  BY <1>2, <1>3 DEF OrderKept, Touches
<1> QED
  BY <1>5, <1>7, <1>8 DEF BurnInv

\* Most steps leave the histories alone, and everything but the world.
LEMMA OneHandled ==
  ASSUME BurnInv, NEW o \in Obj, NEW v, Touches(W, v, o), Becomes(v),
         UNCHANGED <<moves, here, mon, running, fate, astray, spent>>,
         Placed(v.ob[o], here, mon.at),
         o \notin astray => Good(v, o, mon.at, moves, spent[o])
  PROVE  BurnInv' /\ OrderKept
<1>1. /\ running' \in BOOLEAN /\ fate' \in {"play", "undefined", "panic"}
      /\ astray' \subseteq Obj /\ spent' \in [Obj -> Int]
  BY DEF BurnInv, BurnTypeOK
<1> QED
  BY <1>1, OneTouched

\* use_lamp, use_candle: lighting.
LEMMA LightKeeps ==
  ASSUME BurnInv, NEW o \in Obj, Light(o)
  PROVE  BurnInv' /\ OrderKept
<1>1. /\ Burnable(o) /\ obj[o].where = "invent" /\ ~obj[o].lit /\ obj[o].age # 0
      /\ Becomes(BeginBurn(W, here, o, FALSE))
      /\ UNCHANGED <<moves, here, mon, running, fate, astray, spent>>
  BY DEF Light
<1>2. BurnTypeOK /\ Fit(W, here, mon.at, moves, spent, astray)
  BY DEF BurnInv
<1>3. /\ W \in Worlds /\ W.ob = obj /\ moves \in Int /\ here \in Level /\ mon.at \in Level \cup {0}
      /\ spent[o] \in Int /\ obj[o].age \in Int
  BY <1>2, Now, WorldTypes
<1>4. Placed(obj[o], here, mon.at) /\ (o \notin astray => Good(W, o, mon.at, moves, spent[o]))
  BY <1>2, <1>3 DEF Fit
<1>5. here = W.ob[o].olev
  BY <1>1, <1>3, <1>4 DEF Placed
<1> DEFINE v == BeginBurn(W, here, o, FALSE)
<1>6. /\ Touches(W, v, o)
      /\ v.ob[o].where = obj[o].where /\ v.ob[o].olev = obj[o].olev
      /\ Dark(W, o) => \E t \in Int : Burns(v, o, t) /\ v.ob[o].age + t - moves = obj[o].age
  BY ZenonT(60), <1>1, <1>3, <1>5, BurnBegun
<1> HIDE DEF v
<1>7. Placed(v.ob[o], here, mon.at)
  BY <1>4, <1>6 DEF Placed
<1>8. ASSUME o \notin astray PROVE Good(v, o, mon.at, moves, spent[o])
  <2>1. Dark(W, o) /\ obj[o].age + spent[o] = Fuel
    BY <1>1, <1>3, <1>4, <1>8 DEF Good, Burns, Living
  <2>2. PICK t \in Int : Burns(v, o, t) /\ v.ob[o].age + t - moves = obj[o].age
    BY <1>6, <2>1
  <2>3. v.ob[o].age \in Int
    BY <1>6, WorldTypes DEF Touches
  <2>4. v.ob[o].age + t - moves + spent[o] = Fuel
    BY <1>3, <2>1, <2>2, <2>3
  <2> QED
    BY <1>1, <1>6, <2>2, <2>4 DEF Good, Living
<1> QED
  BY <1>1, <1>6, <1>7, <1>8, OneHandled DEF v

\* use_lamp, use_candle: snuffing.
LEMMA SnuffKeeps ==
  ASSUME BurnInv, NEW o \in Obj, Snuff(o)
  PROVE  BurnInv' /\ OrderKept
<1>1. /\ obj[o].where = "invent" /\ obj[o].lit
      /\ Becomes(EndBurn(W, o, TRUE))
      /\ UNCHANGED <<moves, here, mon, running, fate, astray, spent>>
  BY DEF Snuff
<1>2. BurnTypeOK /\ Fit(W, here, mon.at, moves, spent, astray)
  BY DEF BurnInv
<1>3. /\ W \in Worlds /\ W.ob = obj /\ moves \in Int /\ here \in Level /\ mon.at \in Level \cup {0}
      /\ spent[o] \in Int /\ obj[o].age \in Int
  BY <1>2, Now, WorldTypes
<1>4. Placed(obj[o], here, mon.at) /\ (o \notin astray => Good(W, o, mon.at, moves, spent[o]))
  BY <1>2, <1>3 DEF Fit
<1> DEFINE v == EndBurn(W, o, TRUE)
<1>6. /\ Touches(W, v, o)
      /\ v.ob[o].where = obj[o].where /\ v.ob[o].olev = obj[o].olev
      /\ \A t \in Int : Burnable(o) /\ Burns(W, o, t) =>
           Dark(v, o) /\ v.ob[o].age = obj[o].age + t - moves
  BY <1>3, BurnEnded
<1> HIDE DEF v
<1>7. Placed(v.ob[o], here, mon.at)
  BY <1>4, <1>6 DEF Placed
<1>8. ASSUME o \notin astray PROVE Good(v, o, mon.at, moves, spent[o])
  <2>1. PICK t \in Int : Burnable(o) /\ Burns(W, o, t) /\ obj[o].age + t - moves + spent[o] = Fuel
    BY <1>1, <1>3, <1>4, <1>8 DEF Good, Dark, Ripens
  <2>2. Dark(v, o) /\ v.ob[o].age = obj[o].age + t - moves
    BY <1>6, <2>1
  <2>3. v.ob[o].age + spent[o] = Fuel
    BY <1>3, <2>1, <2>2
  <2> QED
    BY <2>2, <2>3 DEF Good
<1> QED
  BY <1>1, <1>6, <1>7, <1>8, OneHandled DEF v

\* useup, delobj.
LEMMA DestroyKeeps ==
  ASSUME BurnInv, NEW o \in Obj, Destroy(o)
  PROVE  BurnInv' /\ OrderKept
<1>1. /\ Becomes(Free(W, o))
      /\ UNCHANGED <<moves, here, mon, running, fate, astray, spent>>
  BY DEF Destroy
<1>2. BurnTypeOK /\ Fit(W, here, mon.at, moves, spent, astray)
  BY DEF BurnInv
<1>3. W \in Worlds /\ moves \in Int
  BY <1>2, Now
<1>4. o \notin astray => Good(W, o, mon.at, moves, spent[o])
  BY <1>2 DEF Fit
<1> DEFINE v == Free(W, o)
<1>5. Touches(W, v, o) /\ v.ob[o] = Freed /\ (Settled(W, o) => Dark(v, o))
  BY <1>3, FreedClean
<1> HIDE DEF v
<1>6. Placed(v.ob[o], here, mon.at)
  BY <1>5 DEF Placed, Freed
<1>7. o \notin astray => Good(v, o, mon.at, moves, spent[o])
  BY <1>4, <1>5 DEF Good, Settled, Living, Freed
<1> QED
  BY <1>1, <1>5, <1>6, <1>7, OneHandled DEF v

\* An object is somewhere else, its timers and lights are not.
LEMMA Carried ==
  ASSUME NEW w \in Worlds, NEW o \in Obj, NEW r \in Thing,
         r.timed = w.ob[o].timed, r.lit = w.ob[o].lit,
         NEW v \in [q : {w.q}, ls : {w.ls}, ob : {[w.ob EXCEPT ![o] = r]}]
  PROVE  /\ Touches(w, v, o) /\ v.ob[o] = r
         /\ Dark(w, o) => Dark(v, o)
         /\ r.olev = w.ob[o].olev =>
              \A t \in Int : (Burns(w, o, t) => Burns(v, o, t)) /\ (Ripens(w, o, t) => Ripens(v, o, t))
<1>1. Change(w, v, o, w.q[w.ob[o].olev], w.ls[w.ob[o].olev][o], r)
  BY RecordSet
<1>2. Touches(w, v, o)
  BY <1>1, ChangeTouches DEF Like
<1>3. v.ob[o] = r /\ \A k \in Level : v.q[k] = w.q[k] /\ v.ls[k][o] = w.ls[k][o]
  BY <1>1 DEF Change
<1>4. Dark(w, o) => Dark(v, o)
  BY <1>3 DEF Dark, Hung, Shines
<1>5. ASSUME r.olev = w.ob[o].olev, NEW t \in Int
      PROVE  (Burns(w, o, t) => Burns(v, o, t)) /\ (Ripens(w, o, t) => Ripens(v, o, t))
  <2>1. \A n : Hung(w, o, n, t) => Hung(v, o, n, t)
    BY <1>3, <1>5 DEF Hung
  <2>2. \A b : Shines(w, o, b) => Shines(v, o, b)
    BY <1>3, <1>5 DEF Shines
  <2> QED
    BY <1>3, <2>1, <2>2 DEF Burns, Ripens
<1> QED
  BY <1>2, <1>3, <1>4, <1>5

\* Picked up, dropped, fallen.
LEMMA Handed ==
  ASSUME BurnInv, NEW o \in Obj, NEW r \in Thing, obj' = [obj EXCEPT ![o] = r],
         r.timed = obj[o].timed, r.lit = obj[o].lit, r.age = obj[o].age,
         UNCHANGED <<moves, here, timers, lights, mon, running, fate, spent>>,
         astray \subseteq astray', astray' \subseteq Obj,
         Placed(r, here, mon.at), Living(r), Living(obj[o]),
         o \notin astray' => \/ obj[o].timed = 0 /\ ~obj[o].lit
                             \/ r.olev = obj[o].olev /\ ~(r.where = "minvent" /\ mon.at = 0)
  PROVE  BurnInv' /\ OrderKept
<1>1. BurnTypeOK /\ Fit(W, here, mon.at, moves, spent, astray)
  BY DEF BurnInv
<1>2. W \in Worlds /\ W.q = timers /\ W.ls = lights /\ W.ob = obj
  BY <1>1, Now
<1> DEFINE v == [q |-> timers, ls |-> lights, ob |-> [obj EXCEPT ![o] = r]]
<1>3. v \in [q : {W.q}, ls : {W.ls}, ob : {[W.ob EXCEPT ![o] = r]}]
  BY <1>2
<1>4. Becomes(v)
  BY DEF Becomes
<1> HIDE DEF v
<1>5. /\ Touches(W, v, o) /\ v.ob[o] = r
      /\ Dark(W, o) => Dark(v, o)
      /\ r.olev = obj[o].olev =>
           \A t \in Int : (Burns(W, o, t) => Burns(v, o, t)) /\ (Ripens(W, o, t) => Ripens(v, o, t))
  BY <1>2, <1>3, Carried
<1>6. ASSUME o \notin astray' PROVE Good(v, o, mon.at, moves, spent[o])
  <2>1. Good(W, o, mon.at, moves, spent[o])
    BY <1>1, <1>6 DEF Fit
  <2>2. CASE Dark(W, o)
    <3>1. Burnable(o) => obj[o].age + spent[o] = Fuel \/ (obj[o].age = 0 /\ spent[o] >= Fuel)
      BY <1>2, <2>1, <2>2 DEF Good, Dark, Burns, Ripens, Hung
    <3> QED
      BY <1>5, <2>2, <3>1 DEF Good
  <2>3. CASE ~Dark(W, o)
    <3>1. PICK t \in Int : \/ Burnable(o) /\ Burns(W, o, t) /\ obj[o].age + t - moves + spent[o] = Fuel
                           \/ ~Burnable(o) /\ Ripens(W, o, t)
      BY <1>2, <2>1, <2>3 DEF Good
    <3>2. obj[o].timed = 1
      BY <1>2, <3>1 DEF Burns, Ripens, Hung
    <3>3. r.olev = obj[o].olev /\ ~(r.where = "minvent" /\ mon.at = 0)
      BY <1>6, <3>2
    <3>4. \/ Burnable(o) /\ Burns(v, o, t) /\ v.ob[o].age + t - moves + spent[o] = Fuel
          \/ ~Burnable(o) /\ Ripens(v, o, t)
      BY <1>5, <3>1, <3>3
    <3> QED
      BY <1>5, <3>3, <3>4 DEF Good
  <2> QED
    BY <2>2, <2>3
<1>7. running' \in BOOLEAN /\ fate' \in {"play", "undefined", "panic"} /\ spent' \in [Obj -> Int]
  BY <1>1 DEF BurnTypeOK
<1> QED
  BY <1>4, <1>5, <1>6, <1>7, OneTouched

\* pickup, or a monster's.
LEMMA PickUpKeeps ==
  ASSUME BurnInv, NEW o \in Obj, PickUp(o)
  PROVE  BurnInv' /\ OrderKept
<1>1. BurnTypeOK /\ obj \in [Obj -> Thing] /\ here \in Level /\ Level \subseteq Nat \ {0}
  BY Now DEF BurnInv, BurnTypeOK
<1>2. obj[o].where = "floor" /\ obj[o].olev = here
  BY DEF PickUp
<1>3. PICK d \in {"invent", "minvent"} :
        obj' = [obj EXCEPT ![o].where = d] /\ (d = "minvent" => mon.at = here)
  BY DEF PickUp
<1> DEFINE r == [obj[o] EXCEPT !.where = d]
<1>4. r \in Thing
  BY <1>1 DEF Thing
<1>5. /\ r.timed = obj[o].timed /\ r.lit = obj[o].lit /\ r.age = obj[o].age
      /\ r.olev = here /\ r.where = d
  BY <1>1, <1>2 DEF Thing
<1>6. obj' = [obj EXCEPT ![o] = r]
  BY <1>1, <1>3
<1> HIDE DEF r
<1>7. Placed(r, here, mon.at) /\ Living(r) /\ Living(obj[o]) /\ ~(r.where = "minvent" /\ mon.at = 0)
  BY <1>1, <1>2, <1>3, <1>5 DEF Placed, Living
<1>8. UNCHANGED <<moves, here, timers, lights, mon, running, fate, astray, spent>>
  BY DEF PickUp
<1>9. astray' \subseteq Obj
  BY <1>1, <1>8 DEF BurnTypeOK
<1> QED
  BY <1>2, <1>4, <1>5, <1>6, <1>7, <1>8, <1>9, Handed

\* place_object.
LEMMA DropKeeps ==
  ASSUME BurnInv, NEW o \in Obj, Drop(o)
  PROVE  BurnInv' /\ OrderKept
<1>1. BurnTypeOK /\ obj \in [Obj -> Thing] /\ here \in Level /\ Level \subseteq Nat \ {0}
  BY Now DEF BurnInv, BurnTypeOK
<1>2. obj[o].where = "invent" \/ (obj[o].where = "minvent" /\ mon.at = here)
  BY DEF Drop
<1>3. obj[o].olev = here
  <2>1. Placed(obj[o], here, mon.at)
    BY <1>1, Now DEF BurnInv, Fit
  <2> QED
    BY <1>1, <1>2, <2>1 DEF Placed
<1> DEFINE r == [obj[o] EXCEPT !.where = "floor", !.olev = here]
<1>4. r \in Thing
  BY <1>1 DEF Thing
<1>5. /\ r.timed = obj[o].timed /\ r.lit = obj[o].lit /\ r.age = obj[o].age
      /\ r.olev = here /\ r.where = "floor"
  BY <1>1 DEF Thing
<1>6. obj' = [obj EXCEPT ![o] = r]
  BY <1>1 DEF Drop
<1> HIDE DEF r
<1>7. Placed(r, here, mon.at) /\ Living(r) /\ Living(obj[o]) /\ ~(r.where = "minvent" /\ mon.at = 0)
  BY <1>2, <1>5 DEF Placed, Living
<1>8. UNCHANGED <<moves, here, timers, lights, mon, running, fate, astray, spent>>
  BY DEF Drop
<1>9. astray' \subseteq Obj
  BY <1>1, <1>8 DEF BurnTypeOK
<1> QED
  BY <1>3, <1>4, <1>5, <1>6, <1>7, <1>8, <1>9, Handed

\* deliver_object: from here on the object is astray, if anything was attached.
LEMMA FallKeeps ==
  ASSUME BurnInv, NEW o \in Obj, NEW l \in Level, Fall(o, l)
  PROVE  BurnInv' /\ OrderKept
<1>1. BurnTypeOK /\ obj \in [Obj -> Thing]
  BY DEF BurnInv, BurnTypeOK
<1>2. obj[o].where \in {"floor", "invent"}
  BY DEF Fall, Near
<1> DEFINE r == [obj[o] EXCEPT !.where = "floor", !.olev = l]
<1>4. r \in Thing
  BY <1>1 DEF Thing
<1>5. /\ r.timed = obj[o].timed /\ r.lit = obj[o].lit /\ r.age = obj[o].age
      /\ r.olev = l /\ r.where = "floor"
  BY <1>1 DEF Thing
<1>6. obj' = [obj EXCEPT ![o] = r]
  BY <1>1 DEF Fall
<1> HIDE DEF r
<1>7. Placed(r, here, mon.at) /\ Living(r) /\ Living(obj[o])
  BY <1>2, <1>5 DEF Placed, Living
<1>8. /\ UNCHANGED <<moves, here, timers, lights, mon, running, fate, spent>>
      /\ astray' = IF Attached(o) THEN astray \cup {o} ELSE astray
  BY DEF Fall
<1>9. astray \subseteq astray' /\ astray' \subseteq Obj
  BY <1>1, <1>8 DEF BurnTypeOK
<1>10. o \notin astray' => obj[o].timed = 0 /\ ~obj[o].lit
  BY <1>8 DEF Attached
<1> QED
  BY <1>4, <1>5, <1>6, <1>7, <1>8, <1>9, <1>10, Handed

-----------------------------------------------------------------------------
(* The clock.                                                              *)

\* The first timer of a queue is taken off.
LEMMA TimerTaken ==
  ASSUME NEW w \in Worlds, NEW l \in Level, w.q[l] # <<>>
  PROVE  LET o == w.q[l][1].o
             v == [w EXCEPT !.q[l] = Tail(@), !.ob[o].timed = @ - 1]
         IN  /\ o \in Obj /\ w.q[l][1].at \in Int
             /\ Touches(w, v, o)
             /\ v.ob[o].where = w.ob[o].where /\ v.ob[o].olev = w.ob[o].olev
             /\ v.ob[o].age = w.ob[o].age
             /\ ~Dark(w, o)
             /\ \A t \in Int : Burns(w, o, t) => t = w.q[l][1].at /\ Glows(v, o)
             /\ \A t \in Int : Ripens(w, o, t) => Dark(v, o)
<1> DEFINE o == w.q[l][1].o
           v == [w EXCEPT !.q[l] = Tail(@), !.ob[o].timed = @ - 1]
           q == w.q[l]
           x == Tail(q)
           r == [w.ob[o] EXCEPT !.timed = @ - 1]
<1>0. q \in Seq(Timer) /\ w.q \in [Level -> Seq(Timer)] /\ w.ls \in [Level -> [Obj -> Nat]]
      /\ w.ob \in [Obj -> Thing]
  BY DEF Worlds
<1>1. /\ 1 \in DOMAIN q /\ x \in Seq(Timer)
      /\ \A p : p # o => Like(q, x, p)
      /\ \A t \in Int : Only(q, o, t) => t = q[1].at /\ None(x, o)
      /\ Ordered(q) => Ordered(x)
  BY <1>0, Taken
<1>2. o \in Obj /\ q[1].at \in Int
  BY <1>0, <1>1, TimerTypes
<1> HIDE DEF o
<1>3. w.ob[o] \in Thing /\ w.ob[o].timed - 1 \in Int
  BY <1>2, WorldTypes
<1>4. r \in Thing
  BY <1>3 DEF Thing
<1>5. /\ r.where = w.ob[o].where /\ r.olev = w.ob[o].olev /\ r.age = w.ob[o].age
      /\ r.timed = w.ob[o].timed - 1 /\ r.lit = w.ob[o].lit
  BY <1>3 DEF Thing
<1> HIDE DEF x
<1>6. v \in [q : {[w.q EXCEPT ![l] = x]}, ls : {w.ls}, ob : {[w.ob EXCEPT ![o] = r]}]
  BY DEF Worlds, x
<1> HIDE DEF r, v
<1> DEFINE Q == [w.q EXCEPT ![l] = x]
           Ob == [w.ob EXCEPT ![o] = r]
<1>7. Q \in [Level -> Seq(Timer)] /\ Q[l] = x /\ \A k \in Level \ {l} : Q[k] = w.q[k]
  BY <1>0, <1>1
<1>8. Ob \in [Obj -> Thing] /\ Ob[o] = r /\ \A p \in Obj \ {o} : Ob[p] = w.ob[p]
  BY <1>0, <1>2, <1>4
<1>9. v.q = Q /\ v.ls = w.ls /\ v.ob = Ob
  BY <1>6
<1> HIDE DEF Q, Ob
<1>10. v \in Worlds
  BY <1>0, <1>6, <1>7, <1>8, <1>9 DEF Worlds, Q, Ob
<1>11. \A p \in Obj \ {o}, k \in Level : Like(w.q[k], v.q[k], p)
  BY <1>1, <1>7, <1>9 DEF Like
<1>12. Touches(w, v, o)
  BY <1>1, <1>7, <1>8, <1>9, <1>10, <1>11 DEF Touches
<1>13. ~None(w.q[l], o)
  BY <1>1 DEF None, o
<1>14. ASSUME NEW t \in Int, Hung(w, o, 1, t)
       PROVE  t = w.q[l][1].at /\ Hung(v, o, 0, 0)
  <2>1. l = w.ob[o].olev /\ Only(w.q[l], o, t)
    BY <1>13, <1>14 DEF Hung
  <2>2. t = w.q[l][1].at /\ None(x, o)
    BY <1>1, <2>1
  <2>3. \A k \in Level : None(v.q[k], o)
    BY <1>7, <1>9, <1>14, <2>1, <2>2 DEF Hung
  <2>4. v.ob[o].timed = 0
    <3>1. w.ob[o].timed = 1 /\ v.ob[o] = r
      BY <1>8, <1>9, <1>14 DEF Hung
    <3> QED
      BY <1>5, <3>1
  <2>5. Hung(v, o, 0, 0)
    BY <2>3, <2>4 DEF Hung
  <2> QED
    BY <2>2, <2>5
<1>15. ~Dark(w, o)
  BY <1>13 DEF Dark, Hung
<1>16. \A b : Shines(w, o, b) => Shines(v, o, b)
  BY <1>5, <1>8, <1>9 DEF Shines
<1>17. v.ob[o].where = w.ob[o].where /\ v.ob[o].olev = w.ob[o].olev /\ v.ob[o].age = w.ob[o].age
       /\ v.ob[o].lit = w.ob[o].lit
  BY <1>5, <1>8, <1>9
<1>18. \A t \in Int : Burns(w, o, t) => t = w.q[l][1].at /\ Glows(v, o)
  BY <1>14, <1>16, <1>17 DEF Burns, Glows
<1>19. \A t \in Int : Ripens(w, o, t) => Dark(v, o)
  BY <1>14, <1>16, <1>17 DEF Ripens, Dark
<1> QED
  BY <1>2, <1>12, <1>15, <1>17, <1>18, <1>19 DEF o, v

\* One turn of the loop of run_timers, whichever function it calls.
LEMMA RunTimerKeeps ==
  ASSUME BurnInv, RunTimer
  PROVE  BurnInv' /\ OrderKept
<1>1. BurnTypeOK /\ Fit(W, here, mon.at, moves, spent, astray)
  BY DEF BurnInv
<1>2. /\ W \in Worlds /\ W.q = timers /\ W.ob = obj /\ moves \in Int /\ here \in Level
      /\ spent \in [Obj -> Int]
  BY <1>1, Now
<1> DEFINE t == timers[here][1]
           o == t.o
           w == [W EXCEPT !.q[here] = Tail(@), !.ob[o].timed = @ - 1]
<1>3. /\ timers[here] # <<>> /\ t.at <= moves
      /\ IF Alive(o)
         THEN /\ Becomes(IF Burnable(o) THEN BurnObject(w, o, t.at) ELSE Free(w, o))
              /\ fate' = fate
         ELSE fate' = "undefined" /\ UNCHANGED world
      /\ UNCHANGED <<moves, here, mon, running, trips, astray, spent>>
  BY DEF RunTimer, Due
<1>4. CASE ~Alive(o)
  <2>1. UNCHANGED <<timers, lights, obj>> /\ fate' = "undefined"
    BY <1>3, <1>4 DEF world
  <2>2. BurnTypeOK'
    BY <1>1, <1>3, <2>1 DEF BurnTypeOK
  <2>3. W' = W
    BY <2>1 DEF W
  <2> QED
    BY <1>1, <1>3, <2>1, <2>2, <2>3 DEF BurnInv, OrderKept
<1>5. CASE Alive(o)
  <2>1. /\ o \in Obj /\ t.at \in Int
        /\ Touches(W, w, o)
        /\ w.ob[o].where = obj[o].where /\ w.ob[o].olev = obj[o].olev /\ w.ob[o].age = obj[o].age
        /\ ~Dark(W, o)
        /\ \A i \in Int : Burns(W, o, i) => i = t.at /\ Glows(w, o)
        /\ \A i \in Int : Ripens(W, o, i) => Dark(w, o)
    <3> DEFINE o2 == W.q[here][1].o
               w2 == [W EXCEPT !.q[here] = Tail(@), !.ob[o2].timed = @ - 1]
    <3>1. /\ o2 \in Obj /\ W.q[here][1].at \in Int
          /\ Touches(W, w2, o2)
          /\ w2.ob[o2].where = W.ob[o2].where /\ w2.ob[o2].olev = W.ob[o2].olev
          /\ w2.ob[o2].age = W.ob[o2].age
          /\ ~Dark(W, o2)
          /\ \A i \in Int : Burns(W, o2, i) => i = W.q[here][1].at /\ Glows(w2, o2)
          /\ \A i \in Int : Ripens(W, o2, i) => Dark(w2, o2)
      BY <1>2, <1>3, TimerTaken
    <3>2. o2 = o /\ t = W.q[here][1]
      BY <1>2
    <3>3. w2 = w
      BY <3>2
    <3> HIDE DEF w2, w, o2, o, t
    <3> QED
      BY <1>2, <3>1, <3>2, <3>3
  <2> DEFINE v == IF Burnable(o) THEN BurnObject(w, o, t.at) ELSE Free(w, o)
  <2>2. Becomes(v) /\ UNCHANGED <<moves, here, mon, running, fate, astray, spent>>
    BY <1>3, <1>5
  <2> HIDE DEF w
  <2>3. w \in Worlds
    BY <2>1 DEF Touches
  <2>4. Placed(obj[o], here, mon.at) /\ (o \notin astray => Good(W, o, mon.at, moves, spent[o]))
    BY <1>1, <1>2, <2>1 DEF Fit
  <2>5. spent[o] \in Int
    BY <1>2, <2>1
  <2> HIDE DEF t, o
  <2>6. CASE Burnable(o)
    <3>1. v = BurnObject(w, o, t.at)
      BY <2>6
    <3> HIDE DEF v
    <3>2. /\ Touches(w, v, o)
          /\ v.ob[o] = Freed \/ (v.ob[o].where = w.ob[o].where /\ v.ob[o].olev = w.ob[o].olev)
          /\ Glows(w, o) /\ w.ob[o].age + t.at - moves + spent[o] = Fuel =>
               \/ Dark(v, o) /\ (v.ob[o] = Freed \/ (v.ob[o].age = 0 /\ spent[o] >= Fuel))
               \/ \E i \in Int : Burns(v, o, i) /\ v.ob[o].age + i - moves + spent[o] = Fuel
      BY <1>2, <1>3, <2>1, <2>3, <2>5, <3>1, BurnedDown
    <3>3. Touches(W, v, o)
      BY <2>1, <3>2, TouchesOn
    <3>4. Placed(v.ob[o], here, mon.at)
      BY <2>1, <2>4, <3>2 DEF Placed, Freed
    <3>5. ASSUME o \notin astray PROVE Good(v, o, mon.at, moves, spent[o])
      <4>1. PICK i \in Int : Burns(W, o, i) /\ obj[o].age + i - moves + spent[o] = Fuel
        BY <1>2, <2>1, <2>4, <2>6, <3>5 DEF Good
      <4>2. Glows(w, o) /\ w.ob[o].age + t.at - moves + spent[o] = Fuel
        BY <2>1, <4>1
      <4>3. Living(obj[o]) /\ ~(obj[o].where = "minvent" /\ mon.at = 0)
        BY <1>2, <2>1, <2>4, <3>5 DEF Good
      <4>4. CASE Dark(v, o) /\ (v.ob[o] = Freed \/ (v.ob[o].age = 0 /\ spent[o] >= Fuel))
        BY <4>4 DEF Good, Living, Freed
      <4>5. CASE \E i2 \in Int : Burns(v, o, i2) /\ v.ob[o].age + i2 - moves + spent[o] = Fuel
        <5>1. v.ob[o] # Freed
          BY <4>5 DEF Burns, Freed
        <5> QED
          BY <2>1, <2>6, <3>2, <4>3, <4>5, <5>1 DEF Good, Living
      <4> QED
        BY <3>2, <4>2, <4>4, <4>5
    <3> QED
      BY <2>1, <2>2, <3>3, <3>4, <3>5, OneHandled
  <2>7. CASE ~Burnable(o)
    <3>1. v = Free(w, o)
      BY <2>7
    <3> HIDE DEF v
    <3>2. Touches(w, v, o) /\ v.ob[o] = Freed /\ (Settled(w, o) => Dark(v, o))
      BY <1>2, <2>1, <2>3, <3>1, FreedClean
    <3>3. Touches(W, v, o)
      BY <2>1, <3>2, TouchesOn
    <3>4. Placed(v.ob[o], here, mon.at)
      BY <3>2 DEF Placed, Freed
    <3>5. ASSUME o \notin astray PROVE Good(v, o, mon.at, moves, spent[o])
      <4>1. PICK i \in Int : Ripens(W, o, i)
        BY <1>2, <2>1, <2>4, <2>7, <3>5 DEF Good
      <4>2. Dark(v, o)
        BY <2>1, <3>2, <4>1 DEF Settled
      <4> QED
        BY <2>7, <4>2 DEF Good
    <3> QED
      BY <2>1, <2>2, <3>3, <3>4, <3>5, OneHandled
  <2> QED
    BY <2>6, <2>7
<1> QED
  BY <1>4, <1>5

-----------------------------------------------------------------------------
(* Splitting and merging stacks.                                           *)

\* The record of a copy.
LEMMA CopyType ==
  ASSUME NEW r \in Thing, NEW n \in Int
  PROVE  [r EXCEPT !.timed = n, !.lit = FALSE] \in Thing
BY DEF Thing

\* splitobj: the copy burns as the stack does, and for as long.
LEMMA SplitKeeps ==
  ASSUME BurnInv, NEW o \in Obj, NEW p \in Obj, Split(o, p)
  PROVE  BurnInv' /\ OrderKept
<1>1. BurnTypeOK /\ Fit(W, here, mon.at, moves, spent, astray)
  BY DEF BurnInv
<1>2. /\ W \in Worlds /\ W.q = timers /\ W.ob = obj /\ W.ls = lights /\ moves \in Int /\ here \in Level
      /\ spent \in [Obj -> Int]
  BY <1>1, Now
<1> DEFINE q == timers[obj[o].olev]
           k == q[FirstOf(q, o)].at - moves
           r0 == [obj[o] EXCEPT !.timed = 0, !.lit = FALSE]
           w0 == [W EXCEPT !.ob[p] = r0]
           w1 == IF obj[o].timed # 0 /\ HasTimer(q, o) THEN StartTimer(w0, p, k) ELSE w0
           w2 == [w1 EXCEPT !.ob[p].lit = TRUE]
           v == IF obj[o].lit /\ lights[here][o] > 0 THEN NewLight(w2, here, p) ELSE w1
<1>3. /\ obj[o].where \in {"floor", "invent"} /\ obj[o].olev = here
      /\ Kind[o] = "candle" /\ Kind[p] = "candle" /\ obj[p].where = "unborn"
      /\ Becomes(v)
      /\ spent' = [spent EXCEPT ![p] = spent[o]]
      /\ astray' = IF o \in astray THEN astray \cup {p} ELSE astray
      /\ UNCHANGED <<moves, here, mon, running, fate>>
  BY DEF Split, Near
<1>4. obj[o] \in Thing /\ q \in Seq(Timer) /\ lights[here][o] \in Nat
  BY <1>2, WorldTypes
<1>5. /\ r0 \in Thing /\ r0.timed = 0 /\ ~r0.lit /\ r0.olev = here
      /\ r0.where = obj[o].where /\ r0.age = obj[o].age
  <2>1. r0 \in Thing
    <3>1. 0 \in Int
      OBVIOUS
    <3> QED
      BY <1>4, <3>1, CopyType, Zenon
  <2>2. /\ r0.timed = 0 /\ ~r0.lit /\ r0.olev = obj[o].olev
        /\ r0.where = obj[o].where /\ r0.age = obj[o].age
    BY <1>4 DEF Thing
  <2> QED
    BY <1>3, <2>1, <2>2
<1> HIDE DEF r0
<1>6. Touches(W, w0, p) /\ w0.ob[p] = r0 /\ (Dark(W, p) => Dark(w0, p))
  <2>1. w0 \in [q : {W.q}, ls : {W.ls}, ob : {[W.ob EXCEPT ![p] = r0]}]
    BY <1>2 DEF Worlds
  <2> HIDE DEF w0
  <2>2. Change(W, w0, p, W.q[W.ob[p].olev], W.ls[W.ob[p].olev][p], r0)
    BY <1>2, <1>5, <2>1, RecordSet
  <2>3. Touches(W, w0, p)
    BY <1>2, <2>2, ChangeTouches DEF Like
  <2>4. w0.ob[p] = r0 /\ \A l \in Level : w0.q[l] = W.q[l] /\ w0.ls[l][p] = W.ls[l][p]
    BY <2>2 DEF Change
  <2> QED
    BY <1>5, <2>3, <2>4 DEF Dark, Hung, Shines
<1> HIDE DEF w0
<1>7. w0 \in Worlds
  BY <1>6 DEF Touches
<1>8. /\ Touches(w0, w1, p)
      /\ w1.ob[p].olev = here /\ w1.ob[p].where = obj[o].where /\ w1.ob[p].age = obj[o].age
      /\ ~w1.ob[p].lit
      /\ obj[o].timed = 0 => w1 = w0
      /\ \A t \in Int : obj[o].timed = 1 /\ Only(q, o, t) /\ Dark(w0, p) =>
           Hung(w1, p, 1, t) /\ Shines(w1, p, 0)
  <2>1. CASE ~(obj[o].timed # 0 /\ HasTimer(q, o))
    <3>1. w1 = w0
      BY <2>1
    <3>2. \A t \in Int : ~(obj[o].timed = 1 /\ Only(q, o, t))
      BY <1>4, <2>1, Counting
    <3> QED
      BY <1>5, <1>6, <1>7, <3>1, <3>2, TouchesNot
  <2>2. CASE obj[o].timed # 0 /\ HasTimer(q, o)
    <3>1. w1 = StartTimer(w0, p, k)
      BY <2>2
    <3>2. k \in Int
      <4>1. q[FirstOf(q, o)].at \in Int
        BY <1>4, <2>2, Counting, TimerTypes
      <4> QED
        BY <1>2, <4>1
    <3> DEFINE l == w0.ob[p].olev
               x == InsertTimer(w0.q[l], [o |-> p, at |-> moves + k])
               r1 == [w0.ob[p] EXCEPT !.timed = @ + 1]
    <3> HIDE DEF w1, k
    <3>3. /\ \A n \in Obj \ {p} : Like(w0.q[l], x, n)
          /\ Ordered(w0.q[l]) => Ordered(x)
          /\ None(w0.q[l], p) => Only(x, p, moves + k)
          /\ Change(w0, w1, p, x, w0.ls[l][p], r1)
      BY <1>2, <1>7, <3>1, <3>2, Started
    <3>4. r1.timed = 1 /\ r1.olev = here /\ r1.where = obj[o].where /\ r1.age = obj[o].age /\ ~r1.lit
      BY <1>5, <1>6 DEF Thing
    <3>5. l = here /\ w0.ob[p].olev = here
      BY <1>5, <1>6
    <3> HIDE DEF x, r1, l
    <3>6. Touches(w0, w1, p)
      BY <1>7, <3>3, ChangeTouches DEF l
    <3>7. w1.ob[p] = r1
      BY <3>3 DEF Change
    <3>8. ASSUME NEW t \in Int, obj[o].timed = 1, Only(q, o, t), Dark(w0, p)
          PROVE  Hung(w1, p, 1, t) /\ Shines(w1, p, 0)
      <4>1. moves + k = t
        <5>1. q[FirstOf(q, o)].at = t
          BY <1>4, <3>8, Counting
        <5> QED
          BY <1>2, <5>1 DEF k
      <4>2. Hung(w0, p, 0, 0) /\ Shines(w0, p, 0)
        BY <3>8 DEF Dark
      <4>3. None(w0.q[l], p) /\ w0.ls[l][p] = 0
        BY <1>2, <3>5, <4>2 DEF Hung, Shines
      <4>4. Only(x, p, t)
        BY <3>3, <4>1, <4>3
      <4> QED
        BY <1>7, <3>3, <3>4, <3>5, <4>2, <4>3, <4>4, ChangeStands DEF l
    <3> QED
      BY <2>2, <3>4, <3>6, <3>7, <3>8
  <2> QED
    BY <2>1, <2>2
<1> HIDE DEF w1, q
<1>9. w1 \in Worlds
  BY <1>8 DEF Touches
<1>10. /\ Touches(w1, v, p)
       /\ v.ob[p].olev = here /\ v.ob[p].where = obj[o].where /\ v.ob[p].age = obj[o].age
       /\ ~obj[o].lit => v = w1
       /\ \A t \in Int : (obj[o].lit /\ lights[here][o] > 0 /\ Hung(w1, p, 1, t) /\ Shines(w1, p, 0))
                        => Burns(v, p, t)
  <2>1. CASE ~(obj[o].lit /\ lights[here][o] > 0)
    BY <1>8, <1>9, <2>1, TouchesNot
  <2>2. CASE obj[o].lit /\ lights[here][o] > 0
    <3>1. v = NewLight(w2, here, p)
      BY <2>2
    <3> DEFINE r2 == [w1.ob[p] EXCEPT !.lit = TRUE]
    <3>2. w1.ob[p] \in Thing
      BY <1>9, WorldTypes
    <3>3. /\ r2 \in Thing /\ r2.lit /\ r2.timed = w1.ob[p].timed /\ r2.olev = here
          /\ r2.where = obj[o].where /\ r2.age = obj[o].age
      BY <1>8, <3>2 DEF Thing
    <3>4. w2 \in [q : {w1.q}, ls : {w1.ls}, ob : {[w1.ob EXCEPT ![p] = r2]}]
      BY <1>9 DEF Worlds
    <3> HIDE DEF w2, r2, v
    <3>5. Change(w1, w2, p, w1.q[here], w1.ls[here][p], r2)
      BY <1>8, <1>9, <3>3, <3>4, RecordSet
    <3>6. w2 \in Worlds /\ w2.ob[p] = r2
      BY <3>5 DEF Change
    <3>7. w2.q[here] = w1.q[here] /\ w2.ls[here][p] = w1.ls[here][p]
      BY <1>8, <3>5 DEF Change
    <3>8. Change(w2, v, p, w1.q[here], w1.ls[here][p] + 1, r2)
      BY <3>1, <3>3, <3>6, <3>7, LightAdded
    <3>9. Change(w1, v, p, w1.q[here], w1.ls[here][p] + 1, r2)
      BY <1>8, <3>3, <3>5, <3>8, ChangeOn
    <3>10. Touches(w1, v, p)
      BY <1>8, <1>9, <3>9, ChangeTouches DEF Like
    <3>11. v.ob[p] = r2
      BY <3>9 DEF Change
    <3>12. ASSUME NEW t \in Int, Hung(w1, p, 1, t), Shines(w1, p, 0)
           PROVE  Burns(v, p, t)
      <4>1. Only(w1.q[here], p, t) /\ w1.ls[here][p] = 0 /\ r2.timed = 1
        BY <1>2, <1>8, <3>3, <3>12 DEF Hung, Shines
      <4>2. Hung(v, p, 1, t) /\ Shines(v, p, 1)
        <5>1. w1.ls[here][p] + 1 = 1
          BY <4>1
        <5> QED
          BY <1>8, <1>9, <3>3, <3>9, <3>12, <4>1, <5>1, ChangeStands
      <4> QED
        BY <3>3, <3>11, <4>2 DEF Burns
    <3> QED
      BY <2>2, <3>3, <3>10, <3>11, <3>12
  <2> QED
    BY <2>1, <2>2
<1> HIDE DEF v
<1>11. Touches(W, v, p)
  BY <1>6, <1>8, <1>10, TouchesOn
<1>12. Placed(v.ob[p], here, mon.at)
  BY <1>3, <1>10 DEF Placed
<1>13. ASSUME p \notin astray' PROVE Good(v, p, mon.at, moves, spent'[p])
  <2>1. o \notin astray /\ p \notin astray
    BY <1>3, <1>13
  <2>2. Good(W, o, mon.at, moves, spent[o]) /\ Good(W, p, mon.at, moves, spent[p])
    BY <1>1, <2>1 DEF Fit
  <2>3. Dark(w0, p)
    BY <1>2, <1>3, <1>6, <2>2 DEF Good, Living
  <2>4. spent'[p] = spent[o]
    BY <1>2, <1>3
  <2>5. Burnable(o) /\ Burnable(p) /\ Living(obj[o]) /\ Living(v.ob[p]) /\ v.ob[p].where # "minvent"
    BY <1>3, <1>10 DEF Burnable, Living
  <2>6. CASE Dark(W, o)
    <3>1. obj[o].age + spent[o] = Fuel \/ (obj[o].age = 0 /\ spent[o] >= Fuel)
      BY <1>2, <2>2, <2>5, <2>6 DEF Good, Dark, Burns, Ripens
    <3>2. v = w0
      BY <1>2, <1>8, <1>10, <2>6 DEF Dark, Hung
    <3> QED
      BY <1>10, <2>3, <2>4, <3>1, <3>2 DEF Good
  <2>7. CASE ~Dark(W, o)
    <3>1. PICK t \in Int : Burns(W, o, t) /\ obj[o].age + t - moves + spent[o] = Fuel
      BY <1>2, <2>2, <2>5, <2>7 DEF Good
    <3>2. obj[o].lit /\ obj[o].timed = 1 /\ Only(q, o, t) /\ lights[here][o] = 1
      BY <1>2, <1>3, <3>1 DEF Burns, Hung, Shines, q
    <3>3. Burns(v, p, t)
      BY <1>8, <1>10, <2>3, <3>2
    <3> QED
      BY <1>10, <2>4, <2>5, <3>1, <3>3 DEF Good
  <2> QED
    BY <2>6, <2>7
<1>14. /\ running' \in BOOLEAN /\ fate' \in {"play", "undefined", "panic"}
       /\ astray' \subseteq Obj /\ spent' \in [Obj -> Int]
       /\ \A n \in Obj \ {p} : spent'[n] = spent[n] /\ (n \in astray => n \in astray')
  BY <1>1, <1>2, <1>3 DEF BurnTypeOK
<1> QED
  BY <1>3, <1>11, <1>12, <1>13, <1>14, OneTouched

\* combine_objs.
LEMMA MergeKeeps ==
  ASSUME BurnInv, NEW o \in Obj, NEW p \in Obj, Merge(o, p)
  PROVE  BurnInv' /\ OrderKept
<1>1. BurnTypeOK /\ Fit(W, here, mon.at, moves, spent, astray)
  BY DEF BurnInv
<1>2. /\ W \in Worlds /\ W.q = timers /\ W.ob = obj /\ moves \in Int
      /\ spent \in [Obj -> Int] /\ Fuel \in Int
  BY <1>1, Now, BurningAssumption
<1>3. /\ Kind[o] = "candle" /\ Kind[p] = "candle" /\ o # p
      /\ obj[o].where \in {"floor", "invent"} /\ obj[p].where \in {"floor", "invent"}
  BY DEF Merge, Mergable, Near
<1>4. PICK a \in {obj[o].age, obj[p].age} :
        LET w1 == EndBurn(W, p, TRUE)
            w2 == IF w1.ob[p].timed # 0 THEN StopTimers(w1, p) ELSE w1
        IN  /\ Becomes(Free([w2 EXCEPT !.ob[o].age = IF obj[o].lit THEN @ ELSE a], p))
            /\ spent' = [spent EXCEPT ![o] = IF obj[o].lit THEN @ ELSE Fuel - a]
  BY DEF Merge
<1> DEFINE w1 == EndBurn(W, p, TRUE)
           w2 == IF w1.ob[p].timed # 0 THEN StopTimers(w1, p) ELSE w1
           b == IF obj[o].lit THEN w2.ob[o].age ELSE a
           w3 == [w2 EXCEPT !.ob[o].age = IF obj[o].lit THEN @ ELSE a]
           v == Free(w3, p)
<1>5. Becomes(v)
  BY <1>4
<1>6. /\ spent' = [spent EXCEPT ![o] = IF obj[o].lit THEN spent[o] ELSE Fuel - a]
      /\ UNCHANGED <<moves, here, mon, running, fate, astray>>
  BY <1>4 DEF Merge
<1>7. a \in Int
  BY <1>2, WorldTypes
<1>8. /\ Placed(obj[o], here, mon.at)
      /\ o \notin astray => Good(W, o, mon.at, moves, spent[o])
      /\ p \notin astray => Good(W, p, mon.at, moves, spent[p])
  BY <1>1, <1>2 DEF Fit
<1>9. /\ Touches(W, w1, p) /\ (~obj[p].lit => w1 = W)
      /\ \A t \in Int : Burns(W, p, t) => Dark(w1, p)
  BY <1>2, <1>3, BurnEnded DEF Burnable
<1> HIDE DEF v, w1
<1>10. w1 \in Worlds
  BY <1>9 DEF Touches
<1>11. p \notin astray => Dark(w1, p)
  <2>1. ASSUME p \notin astray PROVE Dark(w1, p)
    <3>1. Dark(W, p) \/ \E t \in Int : Burns(W, p, t)
      BY <1>3, <1>8, <2>1 DEF Good, Burnable
    <3> QED
      BY <1>2, <1>9, <3>1 DEF Dark
  <2> QED
    BY <2>1
<1>12. Touches(w1, w2, p) /\ (Dark(w1, p) => w2 = w1)
  <2>1. CASE w1.ob[p].timed # 0
    BY <1>2, <1>10, <2>1, StoppedAll DEF Dark, Hung
  <2>2. CASE w1.ob[p].timed = 0
    BY <1>10, <2>2, TouchesNot
  <2> QED
    BY <2>1, <2>2
<1> HIDE DEF w2
<1>13. w2 \in Worlds /\ Touches(W, w2, p)
  <2>1. Touches(W, w2, p)
    BY <1>9, <1>12, TouchesOn
  <2> QED
    BY <2>1 DEF Touches
<1>14. w2.ob[o] = obj[o]
  BY <1>2, <1>3, <1>13 DEF Touches
<1>15. b \in Int
  BY <1>7, <1>13, WorldTypes
<1>16. w3 = [w2 EXCEPT !.ob[o].age = b]
  BY DEF Worlds
<1> HIDE DEF w3, b
<1>17. /\ Touches(w2, w3, o)
       /\ w3.ob[o].where = obj[o].where /\ w3.ob[o].olev = obj[o].olev /\ w3.ob[o].age = b
       /\ Dark(w2, o) => Dark(w3, o)
  BY <1>13, <1>14, <1>15, <1>16, AgeSet
<1>18. w3 \in Worlds
  BY <1>17 DEF Touches
<1>19. /\ Touches(w3, v, p) /\ v.ob[p] = Freed
       /\ Dark(w3, p) => Dark(v, p)
  BY <1>2, <1>18, FreedClean DEF v, Settled
<1>20. ASSUME o \notin astray PROVE Good(w3, o, mon.at, moves, spent'[o])
  <2>1. Good(w2, o, mon.at, moves, spent[o])
    BY <1>2, <1>3, <1>8, <1>13, <1>20, Untouched
  <2>2. Burnable(o) /\ Living(obj[o]) /\ obj[o].where # "minvent"
    BY <1>3 DEF Burnable, Living
  <2>3. CASE obj[o].lit
    <3>1. spent'[o] = spent[o]
      BY <1>2, <1>6, <2>3
    <3>2. b = obj[o].age
      BY <1>14, <2>3 DEF b
    <3>3. w3 = w2
      <4>1. w2.ob = [w2.ob EXCEPT ![o] = w2.ob[o]]
        <5>1. w2.ob \in [Obj -> Thing]
          BY <1>13 DEF Worlds
        <5> QED
          BY <5>1
      <4>2. w2.ob[o] = [w2.ob[o] EXCEPT !.age = b]
        BY <1>13, <1>14, <3>2, WorldTypes DEF Thing
      <4>3. w3 \in [q : {w2.q}, ls : {w2.ls}, ob : {[w2.ob EXCEPT ![o] = [w2.ob[o] EXCEPT !.age = b]]}]
        BY <1>13, <1>16 DEF Worlds
      <4>4. w3.q = w2.q /\ w3.ls = w2.ls /\ w3.ob = w2.ob
        BY <4>1, <4>2, <4>3
      <4>5. w3 = [q |-> w3.q, ls |-> w3.ls, ob |-> w3.ob] /\ w2 = [q |-> w2.q, ls |-> w2.ls, ob |-> w2.ob]
        BY <1>13, <1>18 DEF Worlds
      <4> QED
        BY <4>4, <4>5
    <3> QED
      BY <2>1, <3>1, <3>3
  <2>4. CASE ~obj[o].lit
    <3>1. Dark(w2, o)
      BY <1>14, <2>1, <2>2, <2>4 DEF Good, Burns
    <3>2. spent'[o] = Fuel - a /\ b = a
      BY <1>2, <1>6, <2>4 DEF b
    <3>3. w3.ob[o].age + spent'[o] = Fuel
      BY <1>2, <1>7, <1>17, <3>2
    <3> QED
      BY <1>17, <3>1, <3>3 DEF Good
  <2> QED
    BY <2>3, <2>4
<1> DEFINE sp == spent'
<1>21. \A n \in Obj \ {o} : sp[n] = spent[n]
  BY <1>2, <1>6
<1>22. Fit(w2, here, mon.at, moves, sp, astray \cup {o, p})
  <2> SUFFICES ASSUME NEW n \in Obj
               PROVE  /\ Placed(w2.ob[n], here, mon.at)
                      /\ n \notin astray \cup {o, p} => Good(w2, n, mon.at, moves, sp[n])
    BY DEF Fit
  <2>1. CASE n = p
    <3>1. w2.ob[p].where = obj[p].where /\ w2.ob[p].olev = obj[p].olev
      <4>1. w1.ob[p].where = obj[p].where /\ w1.ob[p].olev = obj[p].olev
        BY <1>2, BurnEnded DEF w1
      <4> QED
        BY <1>2, <1>10, <4>1, StoppedAll DEF w2
    <3> QED
      BY <1>1, <1>2, <2>1, <3>1 DEF Fit, Placed
  <2>2. CASE n # p
    <3>1. w2.ob[n] = obj[n]
      BY <1>2, <1>13, <2>2 DEF Touches
    <3>2. Placed(w2.ob[n], here, mon.at)
      BY <1>1, <1>2, <3>1 DEF Fit
    <3>3. ASSUME n \notin astray \cup {o, p} PROVE Good(w2, n, mon.at, moves, sp[n])
      <4>1. Good(W, n, mon.at, moves, spent[n]) /\ sp[n] = spent[n]
        BY <1>1, <1>21, <3>3 DEF Fit
      <4> QED
        BY <1>2, <1>13, <2>2, <4>1, Untouched
    <3> QED
      BY <3>2, <3>3
  <2> QED
    BY <2>1, <2>2
<1> HIDE DEF sp
<1>23. Fit(w3, here, mon.at, moves, sp, astray \cup {p})
  <2>1. Placed(w3.ob[o], here, mon.at)
    BY <1>8, <1>17 DEF Placed
  <2>2. o \notin astray => Good(w3, o, mon.at, moves, sp[o])
    BY <1>20 DEF sp
  <2> QED
    BY <1>13, <1>17, <1>22, <2>1, <2>2, Fitting
<1>24. Fit(v, here, mon.at, moves, sp, astray)
  <2>1. Placed(v.ob[p], here, mon.at)
    BY <1>19 DEF Placed, Freed
  <2>2. ASSUME p \notin astray PROVE Good(v, p, mon.at, moves, sp[p])
    <3>1. Dark(w1, p) /\ w2 = w1
      BY <1>11, <1>12, <2>2
    <3>2. w3.ob[p] = w2.ob[p]
      BY <1>3, <1>17 DEF Touches
    <3>3. Dark(w3, p)
      BY <1>3, <1>17, <3>1, <3>2 DEF Dark, Hung, Shines, Touches, Like
    <3> QED
      BY <1>19, <3>3 DEF Good, Living, Freed
  <2> QED
    BY <1>18, <1>19, <1>23, <2>1, <2>2, Fitting
<1>25. v \in Worlds
  BY <1>19 DEF Touches
<1>26. /\ W' = v
       /\ timers' \in [Level -> Seq(Timer)] /\ lights' \in [Level -> [Obj -> Nat]]
       /\ obj' \in [Obj -> Thing]
  BY <1>5, <1>25, Becoming
<1>27. spent' \in [Obj -> Int]
  <2>1. Fuel - a \in Int /\ spent[o] \in Int
    BY <1>2, <1>7
  <2> QED
    BY <1>2, <1>6, <2>1
<1>28. BurnTypeOK'
  BY <1>1, <1>6, <1>26, <1>27 DEF BurnTypeOK
<1>29. Fit(W', here', mon'.at, moves', spent', astray')
  BY <1>6, <1>24, <1>26 DEF sp
<1>30. OrderKept
  BY <1>2, <1>5, <1>13, <1>17, <1>19 DEF OrderKept, Becomes, Touches
<1> QED
  BY <1>28, <1>29, <1>30 DEF BurnInv

\* The end of run_timers, and of a game that came to grief.
LEMMA RunDoneKeeps ==
  ASSUME BurnInv, RunDone \/ GoToDangling
  PROVE  BurnInv' /\ OrderKept
<1>1. BurnTypeOK /\ Fit(W, here, mon.at, moves, spent, astray)
  BY DEF BurnInv
<1>2. /\ UNCHANGED <<moves, here, timers, lights, obj, mon, astray, spent>>
      /\ running' \in BOOLEAN /\ fate' \in {"play", "undefined", "panic"}
  BY <1>1 DEF RunDone, GoToDangling, world, BurnTypeOK
<1>3. BurnTypeOK'
  BY <1>1, <1>2 DEF BurnTypeOK
<1>4. W' = W
  BY <1>2 DEF W
<1> QED
  BY <1>1, <1>2, <1>3, <1>4 DEF BurnInv, OrderKept

\* A turn passes: one turn more for whatever is lit, one less until its timer.
LEMMA TurnKeeps ==
  ASSUME BurnInv, Turn
  PROVE  BurnInv' /\ OrderKept
<1>1. BurnTypeOK /\ Fit(W, here, mon.at, moves, spent, astray)
  BY DEF BurnInv
<1>2. /\ moves < MaxMoves /\ moves' = moves + 1 /\ running' = TRUE
      /\ spent' = [o \in Obj |-> spent[o] + IF obj[o].lit THEN 1 ELSE 0]
      /\ UNCHANGED <<here, timers, lights, obj, mon, fate, astray>>
  BY DEF Turn, world
<1>3. W \in Worlds /\ W.ob = obj /\ moves \in Int /\ spent \in [Obj -> Int]
  BY <1>1, Now
<1>4. BurnTypeOK'
  <2>1. moves' \in 0 .. MaxMoves
    BY <1>1, <1>2, BurningAssumption DEF BurnTypeOK
  <2>2. spent' \in [Obj -> Int]
    BY <1>2, <1>3
  <2> QED
    BY <1>1, <1>2, <2>1, <2>2 DEF BurnTypeOK
<1>5. W' = W
  BY <1>2 DEF W
<1>6. Fit(W, here, mon.at, moves + 1, spent', astray)
  <2> SUFFICES ASSUME NEW o \in Obj
               PROVE  /\ Placed(W.ob[o], here, mon.at)
                      /\ o \notin astray => Good(W, o, mon.at, moves + 1, spent'[o])
    BY DEF Fit
  <2>1. Placed(W.ob[o], here, mon.at)
    BY <1>1 DEF Fit
  <2>2. ASSUME o \notin astray PROVE Good(W, o, mon.at, moves + 1, spent'[o])
    <3>1. Good(W, o, mon.at, moves, spent[o])
      BY <1>1, <2>2 DEF Fit
    <3>2. CASE obj[o].lit
      <4>1. spent'[o] = spent[o] + 1 /\ spent[o] \in Int /\ obj[o].age \in Int
        BY <1>2, <1>3, <3>2, WorldTypes
      <4>2. PICK t \in Int : Burnable(o) /\ Burns(W, o, t) /\ obj[o].age + t - moves + spent[o] = Fuel
        BY <1>3, <3>1, <3>2 DEF Good, Dark, Ripens
      <4>3. obj[o].age + t - (moves + 1) + spent'[o] = Fuel
        BY <1>3, <4>1, <4>2
      <4>4. Living(obj[o]) /\ ~(obj[o].where = "minvent" /\ mon.at = 0)
        BY <1>3, <3>1, <3>2 DEF Good, Dark
      <4> QED
        BY <1>3, <4>2, <4>3, <4>4 DEF Good
    <3>3. CASE ~obj[o].lit
      <4>1. spent'[o] = spent[o]
        BY <1>2, <1>3, <3>3
      <4> QED
        BY <1>3, <3>1, <3>3, <4>1 DEF Good, Burns
    <3> QED
      BY <3>2, <3>3
  <2> QED
    BY <2>1, <2>2
<1> QED
  BY <1>2, <1>4, <1>5, <1>6 DEF BurnInv, OrderKept

\* migrate_to_level: what it carries with a timer or a light is astray.
LEMMA MonLeavesKeeps ==
  ASSUME BurnInv, NEW l \in Level, MonLeaves(l)
  PROVE  BurnInv' /\ OrderKept
<1>1. BurnTypeOK /\ Fit(W, here, mon.at, moves, spent, astray)
  BY DEF BurnInv
<1>2. /\ mon' = [at |-> 0, to |-> l]
      /\ astray' = astray \cup {o \in Obj : obj[o].where = "minvent" /\ Attached(o)}
      /\ UNCHANGED <<moves, here, timers, lights, obj, running, fate, spent>>
  BY DEF MonLeaves, world
<1>3. W \in Worlds /\ W.ob = obj
  BY <1>1, Now
<1>4. BurnTypeOK'
  BY <1>1, <1>2 DEF BurnTypeOK
<1>5. W' = W
  BY <1>2 DEF W
<1>6. Fit(W, here, 0, moves, spent, astray')
  <2> SUFFICES ASSUME NEW o \in Obj
               PROVE  /\ Placed(W.ob[o], here, 0)
                      /\ o \notin astray' => Good(W, o, 0, moves, spent[o])
    BY DEF Fit
  <2>1. Placed(W.ob[o], here, 0)
    BY <1>1 DEF Fit, Placed
  <2>2. ASSUME o \notin astray' PROVE Good(W, o, 0, moves, spent[o])
    <3>1. Good(W, o, mon.at, moves, spent[o])
      BY <1>1, <1>2, <2>2 DEF Fit
    <3>2. obj[o].where = "minvent" => obj[o].timed = 0
      BY <1>2, <2>2 DEF Attached
    <3> QED
      BY <1>3, <3>1, <3>2 DEF Good, Burns, Ripens, Hung
  <2> QED
    BY <2>1, <2>2
<1>7. mon'.at = 0
  BY <1>2
<1> QED
  BY <1>2, <1>4, <1>5, <1>6, <1>7 DEF BurnInv, OrderKept

\* transfer_timers: the timers of the objects in S join r, the others stay.
LEMMA Transferred ==
  ASSUME NEW q \in Seq(Timer), NEW r \in Seq(Timer), NEW S \in SUBSET Obj
  PROVE  LET from == Sift(q, Obj \ S)
             to == Reverse(Sift(q, S)) \o r
         IN  /\ from \in Seq(Timer) /\ to \in Seq(Timer)
             /\ Ordered(q) => Ordered(from)
             /\ \A p \in S : /\ None(from, p)
                             /\ None(r, p) => Like(q, to, p)
                             /\ None(q, p) => Like(r, to, p)
             /\ \A p \in Obj \ S : Like(q, from, p) /\ Like(r, to, p)
<1> DEFINE from == Sift(q, Obj \ S)
           s == Sift(q, S)
           m == Reverse(s)
           to == m \o r
<1>1. /\ from \in Seq(Timer)
      /\ \A p \in Obj \ S : Like(q, from, p)
      /\ \A p : p \notin Obj \ S => None(from, p)
      /\ Ordered(q) => Ordered(from)
  BY Sifted
<1>2. /\ s \in Seq(Timer)
      /\ \A p \in S : Like(q, s, p)
      /\ \A p : p \notin S => None(s, p)
  BY Sifted
<1> HIDE DEF from, s
<1>3. m \in Seq(Timer) /\ \A p : Like(s, m, p)
  BY <1>2, Turned
<1> HIDE DEF m
<1>4. /\ to \in Seq(Timer)
      /\ \A p : None(m, p) => Like(r, to, p)
      /\ \A p : None(r, p) => Like(m, to, p)
  BY <1>3, Gathered
<1> HIDE DEF to
<1>5. ASSUME NEW p \in S
      PROVE  (None(r, p) => Like(q, to, p)) /\ (None(q, p) => Like(r, to, p))
  <2>1. Like(q, s, p) /\ Like(s, m, p)
    BY <1>2, <1>3, <1>5
  <2>2. Like(q, m, p)
    BY <2>1 DEF Like
  <2>3. None(r, p) => Like(q, to, p)
    BY <1>4, <2>2 DEF Like
  <2>4. None(q, p) => Like(r, to, p)
    BY <1>4, <2>2 DEF Like
  <2> QED
    BY <2>3, <2>4
<1>6. ASSUME NEW p \in Obj \ S PROVE Like(r, to, p)
  <2>1. None(s, p) /\ Like(s, m, p)
    BY <1>2, <1>3, <1>6
  <2>2. None(m, p)
    BY <2>1 DEF Like
  <2> QED
    BY <1>4, <2>2
<1> QED
  BY <1>1, <1>4, <1>5, <1>6 DEF from, to, m, s

-----------------------------------------------------------------------------
(* Changing level.                                                         *)

\* The timer and the light of o came along with it, or stayed with it; it is
\* not in the pack of a monster that is nowhere.
Comes(w, v, o, at, at2) ==
  \A t \in Int : \A b :
    Hung(w, o, 1, t) /\ Shines(w, o, b) /\ ~(w.ob[o].where = "minvent" /\ at = 0) =>
      /\ Hung(v, o, 1, t) /\ Shines(v, o, b)
      /\ ~(w.ob[o].where = "minvent" /\ at2 = 0)

Nothing(v, o) == \A k \in Level : None(v.q[k], o) /\ v.ls[k][o] = 0

\* An object that keeps its record, its timer and its light stays what it was.
LEMMA GoodStays ==
  ASSUME NEW w \in Worlds, NEW v \in Worlds, NEW o \in Obj,
         NEW at, NEW at2, NEW m, NEW s, Good(w, o, at, m, s),
         v.ob[o].where = w.ob[o].where, v.ob[o].lit = w.ob[o].lit,
         v.ob[o].timed = w.ob[o].timed, v.ob[o].age = w.ob[o].age,
         Dark(w, o) => Nothing(v, o), Comes(w, v, o, at, at2)
  PROVE  Good(v, o, at2, m, s)
<1>1. CASE Dark(w, o)
  <2>1. Dark(v, o)
    BY <1>1 DEF Dark, Hung, Shines, Nothing
  <2>2. Burnable(o) /\ Living(w.ob[o]) => w.ob[o].age + s = Fuel \/ (w.ob[o].age = 0 /\ s >= Fuel)
    BY <1>1 DEF Good, Dark, Burns, Ripens, Hung
  <2> QED
    BY <2>1, <2>2 DEF Good, Living
<1>2. CASE ~Dark(w, o)
  <2>1. Living(w.ob[o]) /\ ~(w.ob[o].where = "minvent" /\ at = 0)
    BY <1>2 DEF Good
  <2>2. PICK t \in Int : \/ Burnable(o) /\ Burns(w, o, t) /\ w.ob[o].age + t - m + s = Fuel
                         \/ ~Burnable(o) /\ Ripens(w, o, t)
    BY <1>2 DEF Good
  <2>3. /\ Burns(w, o, t) => Burns(v, o, t)
        /\ Ripens(w, o, t) => Ripens(v, o, t)
        /\ ~(w.ob[o].where = "minvent" /\ at2 = 0)
    BY <2>1, <2>2 DEF Burns, Ripens, Comes
  <2> QED
    BY <2>1, <2>2, <2>3 DEF Good, Living
<1> QED
  BY <1>1, <1>2

\* goto_level.
LEMMA GoToKeeps ==
  ASSUME BurnInv, NEW l \in Level, NEW follows \in BOOLEAN, GoTo(l, follows)
  PROVE  /\ BurnInv'
         /\ \A k \in Level \ {l} : Ordered(timers[k]) => Ordered(timers'[k])
<1>1. BurnTypeOK /\ Fit(W, here, mon.at, moves, spent, astray)
  BY DEF BurnInv
<1>2. /\ W \in Worlds /\ W.q = timers /\ W.ls = lights /\ W.ob = obj
      /\ here \in Level /\ mon.at \in Level \cup {0} /\ mon.to \in Level /\ Level \subseteq Nat \ {0}
      /\ timers \in [Level -> Seq(Timer)] /\ lights \in [Level -> [Obj -> Nat]] /\ obj \in [Obj -> Thing]
      /\ mon \in [at : Level \cup {0}, to : Level]
  BY <1>1, Now DEF BurnTypeOK
<1> DEFINE at == IF follows THEN 0 ELSE mon.at
           S == Luggage(at)
           from == Sift(timers[here], Obj \ S)
           to == Reverse(Sift(timers[here], S)) \o timers[l]
           arrives == at = 0 /\ (follows \/ mon.to = l)
           Q == [timers EXCEPT ![here] = from, ![l] = to]
           Fh == [o \in Obj |-> IF Alive(o) /\ Travels(o, at) THEN 0 ELSE lights[here][o]]
           Fl == [o \in Obj |-> IF Alive(o) /\ Travels(o, at)
                                THEN lights[l][o] + lights[here][o] ELSE lights[l][o]]
           Ls == [lights EXCEPT ![here] = Fh, ![l] = Fl]
           Ob == [o \in Obj |->
                    IF obj[o].where = "invent" \/ (obj[o].where = "minvent" /\ arrives)
                    THEN [obj[o] EXCEPT !.olev = l] ELSE obj[o]]
           v == [q |-> Q, ls |-> Ls, ob |-> Ob]
<1>3. /\ l # here /\ (follows => mon.at = here)
      /\ mon' = IF arrives THEN [at |-> l, to |-> l] ELSE mon
      /\ here' = l /\ running' = TRUE
      /\ UNCHANGED <<moves, fate, astray, spent>>
  BY DEF GoTo
<1>4. S \in SUBSET Obj /\ \A o \in Obj : o \in S <=> Travels(o, at)
  BY DEF Luggage
<1>5. timers' = Q
  <2>1. timers' = [timers EXCEPT ![here] = from, ![l] = Reverse(Sift(timers[here], S)) \o @]
    BY DEF GoTo, Transfer
  <2>2. Q = [timers EXCEPT ![here] = from, ![l] = Reverse(Sift(timers[here], S)) \o @]
    <3> HIDE DEF from, S
    <3> QED
      BY <1>2, <1>3
  <2> QED
    BY <2>1, <2>2
<1>6. lights' = Ls
  <2>1. lights' = [lights EXCEPT
              ![here] = [o \in Obj |-> IF Alive(o) /\ Travels(o, at) THEN 0 ELSE @[o]],
              ![l] = [o \in Obj |-> IF Alive(o) /\ Travels(o, at) THEN @[o] + lights[here][o] ELSE @[o]]]
    BY DEF GoTo
  <2> HIDE DEF at
  <2> QED
    BY <1>2, <1>3, <2>1
<1>7. obj' = Ob
  BY DEF GoTo
<1>8. Becomes(v)
  BY <1>5, <1>6, <1>7 DEF Becomes
<1>9. /\ from \in Seq(Timer) /\ to \in Seq(Timer)
      /\ Ordered(timers[here]) => Ordered(from)
      /\ \A p \in S : /\ None(from, p)
                      /\ None(timers[l], p) => Like(timers[here], to, p)
                      /\ None(timers[here], p) => Like(timers[l], to, p)
      /\ \A p \in Obj \ S : Like(timers[here], from, p) /\ Like(timers[l], to, p)
  <2>1. timers[here] \in Seq(Timer) /\ timers[l] \in Seq(Timer)
    BY <1>2
  <2> HIDE DEF S
  <2> QED
    BY <1>4, <2>1, Transferred
<1> HIDE DEF from, to
<1>10. /\ Q \in [Level -> Seq(Timer)] /\ Q[here] = from /\ Q[l] = to
       /\ \A k \in Level \ {here, l} : Q[k] = timers[k]
  BY <1>2, <1>3, <1>9
<1>11. /\ Ls \in [Level -> [Obj -> Nat]] /\ Ls[here] = Fh /\ Ls[l] = Fl
       /\ \A k \in Level \ {here, l} : Ls[k] = lights[k]
  <2>1. lights[here] \in [Obj -> Nat] /\ lights[l] \in [Obj -> Nat]
    BY <1>2
  <2>2. Fh \in [Obj -> Nat]
    BY <2>1
  <2>3. Fl \in [Obj -> Nat]
    BY <2>1
  <2> HIDE DEF Fh, Fl
  <2> QED
    BY <1>2, <1>3, <2>2, <2>3
<1>12. \A o \in Obj : /\ Ob[o] \in Thing
                      /\ Ob[o].where = obj[o].where /\ Ob[o].lit = obj[o].lit
                      /\ Ob[o].timed = obj[o].timed /\ Ob[o].age = obj[o].age
                      /\ Ob[o].olev = IF obj[o].where = "invent" \/ (obj[o].where = "minvent" /\ arrives)
                                      THEN l ELSE obj[o].olev
  <2> SUFFICES ASSUME NEW o \in Obj
               PROVE  /\ Ob[o] \in Thing
                      /\ Ob[o].where = obj[o].where /\ Ob[o].lit = obj[o].lit
                      /\ Ob[o].timed = obj[o].timed /\ Ob[o].age = obj[o].age
                      /\ Ob[o].olev = IF obj[o].where = "invent" \/ (obj[o].where = "minvent" /\ arrives)
                                      THEN l ELSE obj[o].olev
    OBVIOUS
  <2> HIDE DEF arrives
  <2>1. obj[o] \in Thing
    BY <1>2
  <2> QED
    BY <2>1 DEF Thing
<1>13. Ob \in [Obj -> Thing]
  <2> DEFINE R(o) == Ob[o]
  <2>1. Ob = [o \in Obj |-> Ob[o]]
    OBVIOUS
  <2> HIDE DEF Ob
  <2> QED
    BY <1>12, <2>1
<1>14. \A o \in Obj : /\ Fh[o] = IF Alive(o) /\ o \in S THEN 0 ELSE lights[here][o]
                      /\ Fl[o] = IF Alive(o) /\ o \in S THEN lights[l][o] + lights[here][o] ELSE lights[l][o]
  BY <1>4
<1> HIDE DEF Q, Ls, Ob, Fh, Fl, S
<1>15. v \in Worlds /\ v.q = Q /\ v.ls = Ls /\ v.ob = Ob
  BY <1>10, <1>11, <1>13 DEF Worlds
<1> HIDE DEF v
<1>16. /\ W' = v
       /\ timers' \in [Level -> Seq(Timer)] /\ lights' \in [Level -> [Obj -> Nat]]
       /\ obj' \in [Obj -> Thing]
  BY <1>8, <1>15, Becoming
<1>17. mon' \in [at : Level \cup {0}, to : Level] /\ mon'.at = IF arrives THEN l ELSE mon.at
  <2> HIDE DEF arrives
  <2> QED
    BY <1>2, <1>3
<1>18. BurnTypeOK'
  BY <1>1, <1>2, <1>3, <1>16, <1>17 DEF BurnTypeOK
<1>19. ASSUME NEW o \in Obj
       PROVE  Placed(v.ob[o], l, mon'.at)
  <2>1. Placed(obj[o], here, mon.at)
    BY <1>1, <1>2 DEF Fit
  <2> QED
    BY <1>2, <1>12, <1>15, <1>17, <2>1 DEF Placed
<1>20. ASSUME NEW o \in Obj, o \notin astray
       PROVE  Good(v, o, mon'.at, moves, spent[o])
  <2>1. Good(W, o, mon.at, moves, spent[o]) /\ Placed(obj[o], here, mon.at)
    BY <1>1, <1>2, <1>20 DEF Fit
  <2>2. ASSUME Dark(W, o)
        PROVE  \A k \in Level : None(v.q[k], o) /\ v.ls[k][o] = 0
    <3>1. \A k \in Level : None(timers[k], o) /\ lights[k][o] = 0
      BY <1>2, <2>2 DEF Dark, Hung, Shines
    <3>2. None(from, o) /\ None(to, o)
      BY <1>2, <1>9, <3>1 DEF Like
    <3>3. Fh[o] = 0 /\ Fl[o] = 0
      BY <1>2, <1>14, <3>1
    <3> QED
      BY <1>10, <1>11, <1>15, <3>1, <3>2, <3>3
  <2>3. ASSUME NEW t \in Int, NEW b, Hung(W, o, 1, t), Shines(W, o, b),
               ~(obj[o].where = "minvent" /\ mon.at = 0)
        PROVE  /\ Hung(v, o, 1, t) /\ Shines(v, o, b)
               /\ ~(obj[o].where = "minvent" /\ mon'.at = 0)
    <3>1. /\ obj[o].timed = 1
          /\ \A k \in Level : k # obj[o].olev => None(timers[k], o) /\ lights[k][o] = 0
          /\ Only(timers[obj[o].olev], o, t) /\ lights[obj[o].olev][o] = b
          /\ obj[o].olev \in Level
      <4>1. obj[o].olev \in Level
        BY <1>2, WorldTypes
      <4> QED
        BY <1>2, <2>3, <4>1 DEF Hung, Shines
    <3>2. CASE o \in S
      <4>1. Travels(o, at)
        BY <1>4, <3>2 DEF S
      <4>2. obj[o].olev = here /\ Ob[o].olev = l /\ Alive(o)
        BY <1>2, <1>3, <1>12, <2>1, <2>3, <4>1 DEF Travels, Placed, Alive
      <4>3. None(from, o) /\ Only(to, o, t)
        BY <1>2, <1>3, <1>9, <3>1, <3>2, <4>2 DEF Like
      <4>4. lights[l][o] = 0 /\ lights[here][o] = b /\ lights[here] \in [Obj -> Nat]
        BY <1>2, <1>3, <3>1, <4>2
      <4>5. Fh[o] = 0 /\ Fl[o] = b
        BY <1>14, <3>2, <4>2, <4>4
      <4>6. Hung(v, o, 1, t)
        BY <1>10, <1>12, <1>15, <3>1, <4>2, <4>3 DEF Hung
      <4>7. Shines(v, o, b)
        BY <1>11, <1>15, <3>1, <4>2, <4>5 DEF Shines
      <4>8. ~(obj[o].where = "minvent" /\ mon'.at = 0)
        BY <1>2, <1>3, <1>17, <2>3, <4>1 DEF Travels
      <4> QED
        BY <4>6, <4>7, <4>8
    <3>3. CASE o \notin S
      <4>1. ~Travels(o, at)
        BY <1>4, <3>3 DEF S
      <4>2. Ob[o].olev = obj[o].olev
        BY <1>12, <4>1 DEF Travels
      <4>3. Like(timers[here], from, o) /\ Like(timers[l], to, o)
        BY <1>9, <3>3
      <4>4. Fh[o] = lights[here][o] /\ Fl[o] = lights[l][o]
        BY <1>14, <3>3
      <4>5. \A k \in Level : Like(timers[k], v.q[k], o) /\ v.ls[k][o] = lights[k][o]
        <5> TAKE k \in Level
        <5>1. Like(timers[k], timers[k], o)
          BY DEF Like
        <5> QED
          BY <1>10, <1>11, <1>15, <4>3, <4>4, <5>1
      <4>6. Hung(v, o, 1, t)
        BY <1>12, <1>15, <3>1, <4>2, <4>5 DEF Hung, Like
      <4>7. Shines(v, o, b)
        BY <1>15, <3>1, <4>2, <4>5 DEF Shines
      <4>8. ~(obj[o].where = "minvent" /\ mon'.at = 0)
        BY <1>2, <1>17, <4>1 DEF Travels
      <4> QED
        BY <4>6, <4>7, <4>8
    <3> QED
      BY <3>2, <3>3
  <2> HIDE DEF at, arrives
  <2>4. /\ v.ob[o].where = W.ob[o].where /\ v.ob[o].lit = W.ob[o].lit
        /\ v.ob[o].timed = W.ob[o].timed /\ v.ob[o].age = W.ob[o].age
    BY <1>2, <1>12, <1>15
  <2>5. Comes(W, v, o, mon.at, mon'.at)
    <3>1. W.ob[o] = obj[o]
      BY <1>2
    <3> QED
      BY <2>3, <3>1, Zenon DEF Comes
  <2>6. Dark(W, o) => Nothing(v, o)
    BY <2>2 DEF Nothing
  <2>7. W \in Worlds /\ v \in Worlds /\ Good(W, o, mon.at, moves, spent[o])
    BY <1>2, <1>15, <2>1
  <2> QED
    BY <2>4, <2>5, <2>6, <2>7, GoodStays, Zenon
<1>21. Fit(W', here', mon'.at, moves', spent', astray')
  BY <1>3, <1>16, <1>19, <1>20 DEF Fit
<1>22. \A k \in Level \ {l} : Ordered(timers[k]) => Ordered(timers'[k])
  BY <1>5, <1>9, <1>10
<1> QED
  BY <1>18, <1>21, <1>22 DEF BurnInv

-----------------------------------------------------------------------------
(* Saving and restoring.                                                   *)

\* save_timers and restore_timers, of a queue q: the timers of the objects that
\* stay behind, and those of the others if they are saved here.
LEMMA SavedQueue ==
  ASSUME NEW q \in Seq(Timer), NEW S \in SUBSET Obj, NEW mine \in BOOLEAN
  PROVE  LET r == Restored(Sift(q, Obj \ S) \o IF mine THEN Sift(q, S) ELSE <<>>)
         IN  /\ r \in Seq(Timer) /\ Ordered(r)
             /\ \A p \in Obj : mine \/ p \notin S => Like(q, r, p)
             /\ \A p \in S : ~mine => None(r, p)
<1> DEFINE a == Sift(q, Obj \ S)
           b == IF mine THEN Sift(q, S) ELSE <<>>
           c == a \o b
           r == Restored(c)
<1>1. /\ a \in Seq(Timer)
      /\ \A p \in Obj \ S : Like(q, a, p)
      /\ \A p : p \notin Obj \ S => None(a, p)
  BY Sifted
<1>2. /\ b \in Seq(Timer)
      /\ mine => \A p \in S : Like(q, b, p)
      /\ \A p : ~mine \/ p \notin S => None(b, p)
  <2>1. CASE mine
    <3>1. b = Sift(q, S)
      BY <2>1
    <3> QED
      BY <2>1, <3>1, Sifted
  <2>2. CASE ~mine
    <3>1. b = <<>>
      BY <2>2
    <3>2. <<>> \in Seq(Timer) /\ \A p : None(<<>>, p)
      BY DEF None
    <3> QED
      BY <2>2, <3>1, <3>2
  <2> QED
    BY <2>1, <2>2
<1> HIDE DEF a, b
<1>3. /\ c \in Seq(Timer)
      /\ \A p : None(a, p) => Like(b, c, p)
      /\ \A p : None(b, p) => Like(a, c, p)
  BY <1>1, <1>2, Gathered
<1> HIDE DEF c
<1>4. r \in Seq(Timer) /\ Ordered(r) /\ \A p : Like(c, r, p)
  BY <1>3, PutBack
<1> HIDE DEF r
<1>5. ASSUME NEW p \in Obj, mine \/ p \notin S PROVE Like(q, r, p)
  <2>1. CASE p \in S
    <3>1. None(a, p) /\ Like(q, b, p)
      BY <1>1, <1>2, <1>5, <2>1
    <3> QED
      BY <1>3, <1>4, <3>1 DEF Like
  <2>2. CASE p \notin S
    <3>1. None(b, p) /\ Like(q, a, p)
      BY <1>1, <1>2, <1>5, <2>2
    <3> QED
      BY <1>3, <1>4, <3>1 DEF Like
  <2> QED
    BY <2>1, <2>2
<1>6. ASSUME NEW p \in S, ~mine PROVE None(r, p)
  <2>1. None(a, p) /\ None(b, p)
    BY <1>1, <1>2, <1>6
  <2> QED
    BY <1>3, <1>4, <2>1 DEF Like
<1> QED
  BY <1>4, <1>5, <1>6 DEF r, c, a, b

\* save_timers, restore_timers and the rest.
LEMMA SaveKeeps ==
  ASSUME BurnInv, SaveAndRestore
  PROVE  BurnInv' /\ OrderKept
<1>1. BurnTypeOK /\ Fit(W, here, mon.at, moves, spent, astray)
  BY DEF BurnInv
<1>2. /\ W \in Worlds /\ W.q = timers /\ W.ls = lights /\ W.ob = obj
      /\ here \in Level /\ Level \subseteq Nat \ {0}
      /\ timers \in [Level -> Seq(Timer)] /\ lights \in [Level -> [Obj -> Nat]] /\ obj \in [Obj -> Thing]
  BY <1>1, Now DEF BurnTypeOK
<1>3. UNCHANGED <<moves, here, mon, trips, astray, spent>> /\ running' \in BOOLEAN
  BY <1>1 DEF SaveAndRestore, BurnTypeOK
<1> DEFINE S == Luggage(mon.at)
           R(k) == Restored(Sift(timers[k], Obj \ S) \o IF k = here THEN Sift(timers[k], S) ELSE <<>>)
           Q == [k \in Level |-> R(k)]
           Ls == [k \in Level |-> [o \in Obj |->
                    IF Travels(o, mon.at) /\ k # here THEN 0 ELSE lights[k][o]]]
           Ob == [o \in Obj |-> IF Travels(o, mon.at) THEN [obj[o] EXCEPT !.olev = here] ELSE obj[o]]
           v == [q |-> Q, ls |-> Ls, ob |-> Ob]
<1>4. \/ fate' \in {"undefined", "panic"} /\ UNCHANGED <<timers, lights, obj>>
      \/ timers' = Q /\ lights' = Ls /\ obj' = Ob /\ fate' = fate
  BY DEF SaveAndRestore, world
<1>5. CASE fate' \in {"undefined", "panic"} /\ UNCHANGED <<timers, lights, obj>>
  <2>1. BurnTypeOK'
    BY <1>1, <1>3, <1>5 DEF BurnTypeOK
  <2>2. W' = W
    BY <1>5 DEF W
  <2> QED
    BY <1>1, <1>3, <1>5, <2>1, <2>2 DEF BurnInv, OrderKept
<1>6. CASE timers' = Q /\ lights' = Ls /\ obj' = Ob /\ fate' = fate
  <2>1. S \in SUBSET Obj /\ \A o \in Obj : o \in S <=> Travels(o, mon.at)
    BY DEF Luggage
  <2> HIDE DEF S
  <2>2. ASSUME NEW k \in Level
        PROVE  /\ R(k) \in Seq(Timer) /\ Ordered(R(k))
               /\ \A p \in Obj : k = here \/ p \notin S => Like(timers[k], R(k), p)
               /\ \A p \in S : k # here => None(R(k), p)
    <3>1. timers[k] \in Seq(Timer) /\ (k = here) \in BOOLEAN
      BY <1>2
    <3> QED
      BY <2>1, <3>1, SavedQueue
  <2> HIDE DEF R
  <2>3. Q \in [Level -> Seq(Timer)] /\ \A k \in Level : Q[k] = R(k)
    BY <2>2
  <2>4. Ls \in [Level -> [Obj -> Nat]]
        /\ \A k \in Level, o \in Obj : Ls[k][o] = IF o \in S /\ k # here THEN 0 ELSE lights[k][o]
    BY <1>2, <2>1
  <2>5. \A o \in Obj : /\ Ob[o] \in Thing
                       /\ Ob[o].where = obj[o].where /\ Ob[o].lit = obj[o].lit
                       /\ Ob[o].timed = obj[o].timed /\ Ob[o].age = obj[o].age
                       /\ Ob[o].olev = IF Travels(o, mon.at) THEN here ELSE obj[o].olev
    <3> SUFFICES ASSUME NEW o \in Obj
                 PROVE  /\ Ob[o] \in Thing
                        /\ Ob[o].where = obj[o].where /\ Ob[o].lit = obj[o].lit
                        /\ Ob[o].timed = obj[o].timed /\ Ob[o].age = obj[o].age
                        /\ Ob[o].olev = IF Travels(o, mon.at) THEN here ELSE obj[o].olev
      OBVIOUS
    <3>1. obj[o] \in Thing
      BY <1>2
    <3> QED
      BY <1>2, <3>1 DEF Thing
  <2>6. Ob \in [Obj -> Thing]
    <3>1. Ob = [o \in Obj |-> Ob[o]]
      OBVIOUS
    <3> HIDE DEF Ob
    <3> QED
      BY <2>5, <3>1
  <2> HIDE DEF Q, Ls, Ob
  <2>7. v \in Worlds /\ v.q = Q /\ v.ls = Ls /\ v.ob = Ob
    BY <2>3, <2>4, <2>6 DEF Worlds
  <2>8. Becomes(v)
    BY <1>6 DEF Becomes
  <2> HIDE DEF v
  <2>9. /\ W' = v
        /\ timers' \in [Level -> Seq(Timer)] /\ lights' \in [Level -> [Obj -> Nat]]
        /\ obj' \in [Obj -> Thing]
    BY <2>7, <2>8, Becoming
  <2>10. BurnTypeOK'
    BY <1>1, <1>3, <1>6, <2>9 DEF BurnTypeOK
  <2>11. ASSUME NEW o \in Obj
         PROVE  Placed(v.ob[o], here, mon.at)
    <3>1. Placed(obj[o], here, mon.at)
      BY <1>1, <1>2 DEF Fit
    <3> QED
      BY <2>5, <2>7, <3>1 DEF Placed, Travels
  <2>12. ASSUME NEW o \in Obj, o \notin astray
         PROVE  Good(v, o, mon.at, moves, spent[o])
    <3>1. Good(W, o, mon.at, moves, spent[o]) /\ Placed(obj[o], here, mon.at)
      BY <1>1, <1>2, <2>12 DEF Fit
    <3>2. ASSUME Dark(W, o) PROVE Nothing(v, o)
      <4> SUFFICES ASSUME NEW k \in Level PROVE None(v.q[k], o) /\ v.ls[k][o] = 0
        BY DEF Nothing
      <4>1. None(timers[k], o) /\ lights[k][o] = 0
        BY <1>2, <3>2 DEF Dark, Hung, Shines
      <4>2. None(R(k), o)
        BY <2>2, <4>1 DEF Like
      <4> QED
        BY <2>3, <2>4, <2>7, <4>1, <4>2
    <3>3. ASSUME NEW t \in Int, NEW b, Hung(W, o, 1, t), Shines(W, o, b),
                 ~(obj[o].where = "minvent" /\ mon.at = 0)
          PROVE  Hung(v, o, 1, t) /\ Shines(v, o, b)
      <4>1. /\ obj[o].timed = 1
            /\ \A k \in Level : k # obj[o].olev => None(timers[k], o) /\ lights[k][o] = 0
            /\ Only(timers[obj[o].olev], o, t) /\ lights[obj[o].olev][o] = b
            /\ obj[o].olev \in Level
        <5>1. obj[o].olev \in Level
          BY <1>2, WorldTypes
        <5> QED
          BY <1>2, <3>3, <5>1 DEF Hung, Shines
      <4>2. o \in S => obj[o].olev = here
        BY <2>1, <3>1, <3>3 DEF Travels, Placed
      <4>3. Ob[o].olev = obj[o].olev
        BY <2>1, <2>5, <4>2
      <4>4. \A k \in Level : IF k = obj[o].olev THEN Only(R(k), o, t) /\ Ls[k][o] = b
                             ELSE None(R(k), o) /\ Ls[k][o] = 0
        <5> TAKE k \in Level
        <5>1. CASE k = obj[o].olev
          BY <2>2, <2>4, <4>1, <4>2, <5>1 DEF Like
        <5>2. CASE k # obj[o].olev
          <6>1. None(timers[k], o) /\ lights[k][o] = 0
            BY <4>1, <5>2
          <6>2. None(R(k), o)
            BY <2>2, <6>1 DEF Like
          <6> QED
            BY <2>4, <5>2, <6>1, <6>2
        <5> QED
          BY <5>1, <5>2
      <4>5. Hung(v, o, 1, t)
        BY <2>3, <2>5, <2>7, <4>1, <4>3, <4>4 DEF Hung
      <4>6. Shines(v, o, b)
        BY <2>7, <4>3, <4>4 DEF Shines
      <4> QED
        BY <4>5, <4>6
    <3>4. Comes(W, v, o, mon.at, mon.at)
      <4>1. W.ob[o] = obj[o]
        BY <1>2
      <4> QED
        BY <3>3, <4>1, Zenon DEF Comes
    <3>5. Dark(W, o) => Nothing(v, o)
      BY <3>2
    <3>6. /\ v.ob[o].where = W.ob[o].where /\ v.ob[o].lit = W.ob[o].lit
          /\ v.ob[o].timed = W.ob[o].timed /\ v.ob[o].age = W.ob[o].age
      BY <1>2, <2>5, <2>7
    <3>7. W \in Worlds /\ v \in Worlds /\ Good(W, o, mon.at, moves, spent[o])
      BY <1>2, <2>7, <3>1
    <3> QED
      BY <3>4, <3>5, <3>6, <3>7, GoodStays, Zenon
  <2>13. Fit(W', here', mon'.at, moves', spent', astray')
    BY <1>3, <2>9, <2>11, <2>12 DEF Fit
  <2>14. OrderKept
    BY <1>6, <2>2, <2>3 DEF OrderKept
  <2> QED
    BY <2>10, <2>13, <2>14 DEF BurnInv
<1> QED
  BY <1>4, <1>5, <1>6

-----------------------------------------------------------------------------
(* The beginning.                                                          *)

\* The eggs, in some order, each once.
LEMMA Listed ==
  ASSUME NEW S, IsFiniteSet(S)
  PROVE  /\ Cardinality(S) \in Nat
         /\ SetToSeq(S) \in [1 .. Cardinality(S) -> S]
         /\ \A i, j \in 1 .. Cardinality(S) : SetToSeq(S)[i] = SetToSeq(S)[j] => i = j
         /\ \A x \in S : \E i \in 1 .. Cardinality(S) : SetToSeq(S)[i] = x
<1> DEFINE n == Cardinality(S)
           T == 1 .. n
           f == SetToSeq(S)
<1>1. n \in Nat /\ ExistsBijection(T, S)
  BY FS_CardinalityType
<1>2. \E g \in [T -> S] : IsInjective(g)
  <2>1. PICK g \in Bijection(T, S) : TRUE
    BY <1>1 DEF ExistsBijection
  <2>2. g \in [T -> S] /\ \A i, j \in T : g[i] = g[j] => i = j
    BY <2>1 DEF Bijection, Injection, IsInjective
  <2>3. IsInjective(g)
    BY <2>2 DEF IsInjective
  <2> QED
    BY <2>2, <2>3
<1>3. f \in [T -> S] /\ IsInjective(f)
  BY <1>2 DEF SetToSeq
<1>4. IsFiniteSet(T) /\ Cardinality(T) = n
  BY <1>1, FS_Interval
<1> HIDE DEF f
<1>5. \A i, j \in T : f[i] = f[j] => i = j
  BY <1>3 DEF IsInjective
<1>6. f \in Injection(T, S)
  BY <1>3, <1>5 DEF Injection, IsInjective
<1>7. f \in Surjection(T, S)
  BY <1>4, <1>6, FS_Injection
<1> QED
  BY <1>1, <1>3, <1>5, <1>7 DEF f, Surjection

\* A new game.
LEMMA BurnStarts ==
  ASSUME BurnInit
  PROVE  BurnInv
<1> DEFINE E == {o \in Obj : ~Burnable(o)}
           n == Cardinality(E)
           q1 == [i \in 1 .. n |-> [o |-> SetToSeq(E)[i], at |-> HatchAt]]
<1>1. IsFiniteSet(E)
  BY BurningAssumption, FS_Subset
<1>2. /\ n \in Nat /\ SetToSeq(E) \in [1 .. n -> E]
      /\ \A i, j \in 1 .. n : SetToSeq(E)[i] = SetToSeq(E)[j] => i = j
      /\ \A x \in E : \E i \in 1 .. n : SetToSeq(E)[i] = x
  BY <1>1, Listed
<1>3. /\ q1 \in Seq(Timer) /\ DOMAIN q1 = 1 .. n
      /\ \A i \in DOMAIN q1 : q1[i].o = SetToSeq(E)[i] /\ q1[i].at = HatchAt
  <2>1. \A i \in 1 .. n : [o |-> SetToSeq(E)[i], at |-> HatchAt] \in Timer
    BY <1>2, BurningAssumption DEF Timer
  <2>2. q1 \in [1 .. n -> Timer]
    BY <2>1
  <2>3. /\ DOMAIN q1 = 1 .. n
        /\ \A i \in DOMAIN q1 : q1[i].o = SetToSeq(E)[i] /\ q1[i].at = HatchAt
    OBVIOUS
  <2> HIDE DEF q1
  <2> QED
    BY <1>2, <2>2, <2>3
<1>4. /\ moves = 0 /\ here = 1 /\ running = FALSE /\ fate = "play" /\ astray = {}
      /\ mon = [at |-> 1, to |-> 1]
      /\ spent = [o \in Obj |-> 0]
      /\ lights = [l \in Level |-> [o \in Obj |-> 0]]
      /\ obj = [o \in Obj |-> [where |-> IF o \in Unborn THEN "unborn" ELSE "floor",
                               olev |-> 1, lit |-> FALSE,
                               timed |-> IF Burnable(o) THEN 0 ELSE 1,
                               age |-> IF Burnable(o) THEN Fuel ELSE 0]]
      /\ timers = [l \in Level |-> IF l = 1 THEN q1 ELSE <<>>]
  BY DEF BurnInit
<1> HIDE DEF q1, n
<1>5. 1 \in Level /\ Fuel \in Nat /\ HatchAt \in Nat /\ MaxMoves \in Nat
  BY BurningAssumption DEF Level
<1>6. /\ timers \in [Level -> Seq(Timer)] /\ timers[1] = q1
      /\ \A k \in Level \ {1} : timers[k] = <<>>
  <2>1. <<>> \in Seq(Timer)
    OBVIOUS
  <2> QED
    BY <1>3, <1>4, <1>5, <2>1
<1>7. lights \in [Level -> [Obj -> Nat]] /\ \A k \in Level, o \in Obj : lights[k][o] = 0
  BY <1>4
<1>8. ASSUME NEW o \in Obj
      PROVE  /\ obj[o] \in Thing
             /\ obj[o].where = IF o \in Unborn THEN "unborn" ELSE "floor"
             /\ obj[o].olev = 1 /\ obj[o].lit = FALSE
             /\ obj[o].timed = IF Burnable(o) THEN 0 ELSE 1
             /\ obj[o].age = IF Burnable(o) THEN Fuel ELSE 0
  BY <1>4, <1>5 DEF Thing
<1>9. obj \in [Obj -> Thing]
  <2>1. obj = [o \in Obj |-> obj[o]]
    BY <1>4
  <2> QED
    BY <1>8, <2>1
<1>10. mon.at = 1 /\ mon \in [at : Level \cup {0}, to : Level]
  BY <1>4, <1>5
<1>11. BurnTypeOK
  <2>1. spent \in [Obj -> Int] /\ moves \in 0 .. MaxMoves
    BY <1>4, <1>5
  <2> QED
    BY <1>4, <1>5, <1>6, <1>7, <1>9, <1>10, <2>1 DEF BurnTypeOK
<1>12. W.q = timers /\ W.ls = lights /\ W.ob = obj
  BY DEF W
<1>13. ASSUME NEW o \in Obj
       PROVE  Placed(obj[o], here, mon.at) /\ Good(W, o, mon.at, moves, spent[o])
  <2>1. Placed(obj[o], here, mon.at)
    BY <1>8 DEF Placed
  <2>2. Shines(W, o, 0)
    BY <1>7, <1>12 DEF Shines
  <2>6. ~W.ob[o].lit
    <3>1. obj[o].lit = FALSE
      BY <1>8
    <3> QED
      BY <1>12, <3>1
  <2>3. \A k \in Level \ {1} : None(timers[k], o)
    BY <1>6 DEF None
  <2>4. CASE Burnable(o)
    <3>1. o \notin E
      BY <2>4
    <3>2. None(q1, o)
      BY <1>2, <1>3, <3>1 DEF None
    <3>3. \A k \in Level : None(timers[k], o)
      BY <1>6, <2>3, <3>2
    <3>4. Dark(W, o)
      <4>1. obj[o].timed = 0
        BY <1>8, <2>4
      <4>2. Hung(W, o, 0, 0)
        BY <1>12, <3>3, <4>1 DEF Hung
      <4> QED
        BY <2>2, <2>6, <4>2 DEF Dark
    <3>5. obj[o].age + spent[o] = Fuel
      BY <1>4, <1>5, <1>8, <2>4
    <3> QED
      BY <1>12, <2>1, <3>4, <3>5 DEF Good
  <2>5. CASE ~Burnable(o)
    <3>1. o \in E
      BY <2>5
    <3>2. Only(q1, o, HatchAt)
      <4>1. PICK i \in 1 .. n : SetToSeq(E)[i] = o
        BY <1>2, <3>1
      <4>2. i \in DOMAIN q1 /\ q1[i].o = o /\ q1[i].at = HatchAt
        BY <1>3, <4>1
      <4>3. \A j \in DOMAIN q1 : q1[j].o = o => j = i
        BY <1>2, <1>3, <4>1
      <4> QED
        BY <4>2, <4>3 DEF Only
    <3>3. Hung(W, o, 1, HatchAt)
      BY <1>5, <1>6, <1>8, <1>12, <2>3, <2>5, <3>2 DEF Hung
    <3>4. Ripens(W, o, HatchAt) /\ HatchAt \in Int
      BY <1>5, <2>2, <2>6, <3>3 DEF Ripens
    <3>5. Living(obj[o]) /\ obj[o].where # "minvent"
      <4>1. o \notin Unborn
        BY <2>5, BurningAssumption DEF Burnable
      <4> QED
        BY <1>8, <4>1 DEF Living
    <3> QED
      BY <1>12, <2>1, <2>5, <3>4, <3>5 DEF Good
  <2> QED
    BY <2>4, <2>5
<1>14. Fit(W, here, mon.at, moves, spent, astray)
  BY <1>12, <1>13 DEF Fit
<1> QED
  BY <1>11, <1>14 DEF BurnInv

-----------------------------------------------------------------------------
(* The invariant holds, and what follows from it.                          *)

\* Every step keeps the invariant, and the order of every queue but one.
LEMMA BurnSteps ==
  ASSUME BurnInv, BurnNext
  PROVE  /\ BurnInv'
         /\ \A l \in Level : Ordered(timers[l]) /\ ~Ordered(timers'[l]) => here' = l /\ here # l
<1>1. CASE OrderKept /\ BurnInv'
  BY <1>1 DEF OrderKept
<1>2. ASSUME NEW o \in Obj, Light(o) \/ Snuff(o) \/ PickUp(o) \/ Drop(o) \/ Destroy(o)
      PROVE  OrderKept /\ BurnInv'
  BY <1>2, LightKeeps, SnuffKeeps, PickUpKeeps, DropKeeps, DestroyKeeps
<1>3. ASSUME NEW o \in Obj, NEW p \in Obj, Split(o, p) \/ Merge(o, p)
      PROVE  OrderKept /\ BurnInv'
  BY <1>3, SplitKeeps, MergeKeeps
<1>4. ASSUME NEW o \in Obj, NEW l \in Level, Fall(o, l)
      PROVE  OrderKept /\ BurnInv'
  BY <1>4, FallKeeps
<1>5. ASSUME NEW l \in Level, MonLeaves(l)
      PROVE  OrderKept /\ BurnInv'
  BY <1>5, MonLeavesKeeps
<1>6. ASSUME NEW l \in Level, NEW f \in BOOLEAN, GoTo(l, f)
      PROVE  /\ BurnInv'
             /\ \A k \in Level : Ordered(timers[k]) /\ ~Ordered(timers'[k]) => here' = k /\ here # k
  <2>1. here' = l /\ l # here
    BY <1>6 DEF GoTo
  <2>2. BurnInv' /\ \A k \in Level \ {l} : Ordered(timers[k]) => Ordered(timers'[k])
    BY <1>6, GoToKeeps
  <2> QED
    BY <2>1, <2>2
<1>7. ASSUME GoToDangling \/ Turn \/ RunTimer \/ RunDone \/ SaveAndRestore
      PROVE  OrderKept /\ BurnInv'
  BY <1>7, TurnKeeps, RunTimerKeeps, RunDoneKeeps, SaveKeeps
<1> QED
  BY <1>1, <1>2, <1>3, <1>4, <1>5, <1>6, <1>7 DEF BurnNext

\* And so do the steps of the worms, which leave all this alone.
LEMMA BurnKept ==
  BurnInv /\ [Next]_vars =>
    /\ BurnInv'
    /\ [\A l \in Level : Ordered(timers[l]) /\ ~Ordered(timers'[l]) => here' = l /\ here # l]_burnVars
<1> SUFFICES ASSUME BurnInv, [Next]_vars
             PROVE  /\ BurnInv'
                    /\ [\A l \in Level : Ordered(timers[l]) /\ ~Ordered(timers'[l]) => here' = l /\ here # l]_burnVars
  OBVIOUS
<1>1. CASE Burn
  BY <1>1, BurnSteps DEF Burn
<1>2. CASE Crawl \/ UNCHANGED vars
  <2>1. UNCHANGED burnVars
    BY <1>2 DEF Crawl, vars
  <2>2. BurnInv'
    BY <2>1 DEF burnVars, world, BurnInv, BurnTypeOK, W
  <2> QED
    BY <2>1, <2>2
<1> QED
  BY <1>1, <1>2 DEF Next

\* The invariant holds of the specification.
LEMMA BurnInductive == Spec => []BurnInv
<1>1. Init => BurnInv
  BY BurnStarts DEF Init
<1> QED
  BY <1>1, BurnKept, PTL DEF Spec

\* Whatever is lit, carried, lost or saved, queues, lights and objects keep their
\* types: no count of lights drops below zero, and no object is on a level that is none.
THEOREM BurnTypeCorrect == Spec => []BurnTypeOK
<1>1. BurnInv => BurnTypeOK
  BY DEF BurnInv
<1> QED
  BY <1>1, BurnInductive, PTL

\* A timer queue of a level gets out of order in one way only: the hero arrives there
\* and brings his timers (transfer_timers puts them at the head); insert_timer,
\* remove_timer, splitobj and restore_timers never do it.
THEOREM OnlyArrivals == Spec => OnlyArrivalsDisorder
<1>1. Spec => [][Next]_vars
  BY PTL DEF Spec
<1> QED
  BY <1>1, BurnInductive, BurnKept, PTL DEF OnlyArrivalsDisorder

\* What the inductive invariant says of an object that kept with its timers.
LEMMA KeptThings ==
  ASSUME BurnInv, NEW o \in Obj, Kept(o)
  PROVE  /\ W.ob = obj /\ W.q = timers /\ W.ls = lights
         /\ Good(W, o, mon.at, moves, spent[o])
         /\ \A l \in Level : timers[l] \in Seq(Timer)
         /\ obj[o] \in Thing /\ obj[o].olev \in Level
<1>1. BurnTypeOK /\ Fit(W, here, mon.at, moves, spent, astray)
  BY DEF BurnInv
<1>2. W.ob = obj /\ W.q = timers /\ W.ls = lights /\ timers \in [Level -> Seq(Timer)] /\ W \in Worlds
  BY <1>1, Now DEF BurnTypeOK
<1> QED
  BY <1>1, <1>2, WorldTypes DEF Fit, Kept

\* obj->timed is the number of the object's timers, all on the queue of its own level,
\* none outlives it: for objects that never changed level apart from their timers.
THEOREM TimersAreCounted == Spec => []TimersCounted
<1>1. ASSUME BurnInv PROVE TimersCounted
  <2> SUFFICES ASSUME NEW o \in Obj, Kept(o), NEW l \in Level
               PROVE  Cardinality(TimersOf(timers[l], o)) =
                        IF Alive(o) /\ l = obj[o].olev THEN obj[o].timed ELSE 0
    BY DEF TimersCounted
  <2>1. /\ W.ob = obj /\ W.q = timers /\ W.ls = lights
        /\ Good(W, o, mon.at, moves, spent[o]) /\ timers[l] \in Seq(Timer)
    BY <1>1, KeptThings
  <2>2. /\ None(timers[l], o) => Cardinality(TimersOf(timers[l], o)) = 0
        /\ \A t \in Int : Only(timers[l], o, t) => Cardinality(TimersOf(timers[l], o)) = 1
    BY <2>1, Counting
  <2>3. CASE Hung(W, o, 0, 0)
    BY <2>1, <2>2, <2>3 DEF Hung
  <2>4. ASSUME NEW t \in Int, Hung(W, o, 1, t), Living(obj[o])
        PROVE  Cardinality(TimersOf(timers[l], o)) =
                 IF Alive(o) /\ l = obj[o].olev THEN obj[o].timed ELSE 0
    BY <2>1, <2>2, <2>4 DEF Hung, Alive, Living
  <2> QED
    BY <2>1, <2>3, <2>4 DEF Good, Dark, Burns, Ripens
<1> QED
  BY <1>1, BurnInductive, PTL

\* An object is lit exactly when one light source shines for it, on its own level, and
\* no light source is left to a freed object, under the same condition.
THEOREM LightsAreMatched == Spec => []LightsMatch
<1>1. ASSUME BurnInv PROVE LightsMatch
  <2> SUFFICES ASSUME NEW o \in Obj, Kept(o), NEW l \in Level
               PROVE  lights[l][o] = IF Alive(o) /\ l = obj[o].olev /\ obj[o].lit THEN 1 ELSE 0
    BY DEF LightsMatch
  <2>1. /\ W.ob = obj /\ W.q = timers /\ W.ls = lights
        /\ Good(W, o, mon.at, moves, spent[o])
    BY <1>1, KeptThings
  <2>2. CASE ~obj[o].lit /\ Shines(W, o, 0)
    BY <2>1, <2>2 DEF Shines
  <2>3. CASE obj[o].lit /\ Shines(W, o, 1) /\ Living(obj[o])
    BY <2>1, <2>3 DEF Shines, Alive, Living
  <2> QED
    BY <2>1, <2>2, <2>3 DEF Good, Dark, Burns, Ripens
<1> QED
  BY <1>1, BurnInductive, PTL

\* Snuffing, relighting, splitting, merging, levels left alone for a while, late timers
\* and saved games neither burn fuel nor add any, under the same condition.
THEOREM FuelIsKept == Spec => []FuelKept
<1>1. ASSUME BurnInv PROVE FuelKept
  <2> SUFFICES ASSUME NEW o \in Obj, Burnable(o), Alive(o), Kept(o)
               PROVE  LET q == timers[obj[o].olev]
                      IN  IF obj[o].lit
                          THEN obj[o].age + q[FirstOf(q, o)].at - moves + spent[o] = Fuel
                          ELSE \/ obj[o].age + spent[o] = Fuel
                               \/ obj[o].age = 0 /\ spent[o] >= Fuel
    BY DEF FuelKept
  <2> DEFINE q == timers[obj[o].olev]
  <2>1. /\ W.ob = obj /\ W.q = timers /\ W.ls = lights
        /\ Good(W, o, mon.at, moves, spent[o]) /\ obj[o].olev \in Level /\ q \in Seq(Timer)
    BY <1>1, KeptThings
  <2>2. CASE ~obj[o].lit
    BY <2>1, <2>2 DEF Good, Burns, Living, Alive
  <2>3. CASE obj[o].lit
    <3>1. PICK t \in Int : Burns(W, o, t) /\ obj[o].age + t - moves + spent[o] = Fuel
      BY <2>1, <2>3 DEF Good, Dark
    <3>2. Only(q, o, t)
      BY <2>1, <3>1 DEF Burns, Hung
    <3>3. q[FirstOf(q, o)].at = t
      BY <2>1, <3>2, Counting
    <3> QED
      BY <2>3, <3>1, <3>3
  <2> QED
    BY <2>2, <2>3
<1> QED
  BY <1>1, BurnInductive, PTL
=============================================================================
