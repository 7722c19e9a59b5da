---------------------------- MODULE RegionProofs ----------------------------
(***************************************************************************)
(* What holds of the gas clouds of a level for any number of clouds,       *)
(* monsters and places.                                                    *)
(***************************************************************************)
EXTENDS Region, FiniteSetTheorems, WellFoundedInduction, TLAPS

On(s, m) == \E k \in DOMAIN s : s[k] = m
AtMostOnce(s, m) == \A j, k \in DOMAIN s : s[j] = m /\ s[k] = m => j = k

(* The list of a region, given where the monsters are. *)
Knows(r, where) ==
  \A m \in Mon \ r.doubled :
    /\ AtMostOnce(r.mons, m)
    /\ m \notin r.stray /\ where[m] # Nowhere => (On(r.mons, m) <=> where[m] \in r.cells)

Known ==
  \A i \in DOMAIN regions :
    /\ Knows(regions[i], place)
    /\ ~misplaced => (regions[i].hero <=> hero \in regions[i].cells)

(* What the loops of run_regions have behind them. *)
Walked ==
  /\ loop.at \in {"expire", "mons"} => \A k \in DOMAIN regions : k > loop.i => regions[k].ttl > 0
  /\ loop.at = "age" => \A k \in DOMAIN regions : k >= loop.i => regions[k].ttl > 0
  /\ loop.at = "mons" => \A k \in DOMAIN regions[loop.i].mons :
                            k < loop.j => regions[loop.i].mons[k] \in hit

Unlisted(k) == ~On(regions[k].mons, Cthulhu)

(* Between Cthulhu's death and his return run_regions takes him off all lists:
   what returns is, to the regions, a monster they have not seen. *)
Buried ==
  /\ owed => Cthulhu \notin alive
  /\ \A i \in DOMAIN regions : regions[i].reviver => owed
  /\ \A i, j \in DOMAIN regions : regions[i].reviver /\ regions[j].reviver => i = j
  /\ owed /\ loop.at \in {"age", "mons"} => \A k \in DOMAIN regions : k < loop.i => Unlisted(k)
  /\ owed /\ loop.at = "mons" =>
       \A k \in DOMAIN regions[loop.i].mons : k < loop.j => regions[loop.i].mons[k] # Cthulhu
  /\ loop.at \in {"play", "expire"} =>
       \A i \in DOMAIN regions : regions[i].reviver /\ regions[i].ttl = 0 =>
         \A k \in DOMAIN regions : Unlisted(k)

RegionInv == RegionTypeOK /\ Known /\ Walked /\ Buried /\ CthulhuAwaited

LoopOK == loop \in [at : {"play", "expire", "age", "mons"}, i : Nat, j : Nat]
-----------------------------------------------------------------------------
(* Arrays whose last element takes the place of the one removed, and the     *)
(* lists of monsters in them.                                                *)

LEMMA Least ==
  ASSUME NEW T, T \subseteq Nat, T # {}
  PROVE  \E x \in T : \A y \in T : x <= y
<1>1. PICK x \in T : \A y \in T : ~(<<y, x>> \in OpToRel(<, Nat))
  BY NatLessThanWellFounded, WFMin
<1>2. \A y \in T : x <= y
  <2> TAKE y \in T
  <2>1. ~(y < x)
    BY <1>1 DEF OpToRel
  <2> QED
    BY <2>1
<1> QED
  BY <1>2

LEMMA SwapRemoved ==
  ASSUME NEW S, NEW s \in Seq(S), NEW i \in 1 .. Len(s)
  PROVE  /\ SwapRemove(s, i) \in Seq(S) /\ Len(SwapRemove(s, i)) = Len(s) - 1
         /\ \A k \in 1 .. Len(s) - 1 : SwapRemove(s, i)[k] = IF k = i THEN s[Len(s)] ELSE s[k]
<1> DEFINE e == [s EXCEPT ![i] = s[Len(s)]]
<1>1. Len(s) \in Nat /\ s[Len(s)] \in S
  OBVIOUS
<1>2. /\ e \in Seq(S) /\ Len(e) = Len(s)
      /\ \A k \in 1 .. Len(s) : e[k] = IF k = i THEN s[Len(s)] ELSE s[k]
  BY <1>1
<1> HIDE DEF e
<1>3. SubSeq(e, 1, Len(s) - 1) \in Seq(S) /\ Len(SubSeq(e, 1, Len(s) - 1)) = Len(s) - 1
  BY <1>1, <1>2
<1>4. \A k \in 1 .. Len(s) - 1 : SubSeq(e, 1, Len(s) - 1)[k] = e[k]
  BY <1>1, <1>2
<1>5. SwapRemove(s, i) = SubSeq(e, 1, Len(s) - 1)
  BY DEF SwapRemove, e
<1> QED
  BY <1>1, <1>2, <1>3, <1>4, <1>5

LEMMA TakenOff ==
  ASSUME NEW S, NEW s \in Seq(S), NEW i \in 1 .. Len(s), NEW m
  PROVE  /\ AtMostOnce(s, m) => AtMostOnce(SwapRemove(s, i), m)
         /\ s[i] # m => (On(SwapRemove(s, i), m) <=> On(s, m))
         /\ On(SwapRemove(s, i), m) => On(s, m)
         /\ AtMostOnce(s, m) /\ s[i] = m => ~On(SwapRemove(s, i), m)
<1> DEFINE t == SwapRemove(s, i)
<1>1. DOMAIN s = 1 .. Len(s) /\ Len(s) \in Nat
  OBVIOUS
<1>a. t \in Seq(S) /\ Len(t) = Len(s) - 1
  BY SwapRemoved
<1>b. DOMAIN t = 1 .. Len(s) - 1
  BY <1>a
<1>c. \A k \in 1 .. Len(s) - 1 : t[k] = IF k = i THEN s[Len(s)] ELSE s[k]
  BY SwapRemoved
<1> HIDE DEF t
<1>2. ASSUME AtMostOnce(s, m) PROVE AtMostOnce(t, m)
  BY <1>1, <1>b, <1>c, <1>2 DEF AtMostOnce
<1>3. ASSUME s[i] # m PROVE On(t, m) <=> On(s, m)
  BY <1>1, <1>b, <1>c, <1>3 DEF On
<1>4. ASSUME AtMostOnce(s, m), s[i] = m PROVE ~On(t, m)
  BY <1>1, <1>b, <1>c, <1>4 DEF AtMostOnce, On
<1>5. On(t, m) => On(s, m)
  BY <1>1, <1>b, <1>c DEF On
<1> QED
  BY <1>2, <1>3, <1>4, <1>5 DEF t

LEMMA PutLast ==
  ASSUME NEW S, NEW s \in Seq(S), NEW x \in S, NEW m
  PROVE  /\ Append(s, x) \in Seq(S)
         /\ On(Append(s, x), m) <=> (On(s, m) \/ x = m)
         /\ AtMostOnce(s, m) /\ (x = m => ~On(s, m)) => AtMostOnce(Append(s, x), m)
<1>1. /\ Append(s, x) \in Seq(S) /\ Len(s) \in Nat
      /\ DOMAIN Append(s, x) = 1 .. Len(s) + 1 /\ DOMAIN s = 1 .. Len(s)
      /\ \A k \in 1 .. Len(s) : Append(s, x)[k] = s[k]
      /\ Append(s, x)[Len(s) + 1] = x
  OBVIOUS
<1>2. On(Append(s, x), m) <=> (On(s, m) \/ x = m)
  BY <1>1 DEF On
<1>3. ASSUME AtMostOnce(s, m), x = m => ~On(s, m) PROVE AtMostOnce(Append(s, x), m)
  BY <1>1, <1>3 DEF On, AtMostOnce
<1> QED
  BY <1>1, <1>2, <1>3

LEMMA Arranged ==
  ASSUME NEW T, IsFiniteSet(T)
  PROVE  /\ SetToSeq(T) \in Seq(T)
         /\ \A x : AtMostOnce(SetToSeq(T), x) /\ (On(SetToSeq(T), x) <=> x \in T)
<1> DEFINE n == Cardinality(T)
           f == SetToSeq(T)
<1>1. n \in Nat /\ ExistsBijection(1 .. n, T)
  BY FS_CardinalityType
<1>2. PICK g : g \in Bijection(1 .. n, T)
  BY <1>1 DEF ExistsBijection
<1>3. g \in [1 .. n -> T] /\ IsInjective(g)
  BY <1>2 DEF Bijection, Injection, IsInjective
<1>4. f \in [1 .. n -> T] /\ IsInjective(f)
  BY <1>3 DEF SetToSeq
<1> HIDE DEF f
<1>5. IsFiniteSet(1 .. n) /\ Cardinality(1 .. n) = n
  BY <1>1, FS_Interval
<1>6. f \in Surjection(1 .. n, T)
  <2>1. f \in Injection(1 .. n, T)
    BY <1>4 DEF Injection, IsInjective
  <2> QED
    BY <2>1, <1>5, FS_Injection
<1>7. \A x : On(f, x) <=> x \in T
  BY <1>4, <1>6 DEF On, Surjection
<1>8. \A x : AtMostOnce(f, x)
  BY <1>4 DEF AtMostOnce, IsInjective
<1>9. f \in Seq(T)
  BY <1>1, <1>4
<1> QED
  BY <1>7, <1>8, <1>9 DEF f

-----------------------------------------------------------------------------
(* One region, and what happens to it.                                       *)

(* Nothing but who is inside is different about q. *)
Alike(r, q) ==
  /\ q \in AnyCloud
  /\ q.cells = r.cells /\ q.ttl = r.ttl /\ q.reviver = r.reviver

(* Nor anything about its list. *)
SameList(r, q) == q.mons = r.mons /\ q.stray = r.stray /\ q.doubled = r.doubled

LEMMA InOutRight ==
  ASSUME NEW r \in AnyCloud, NEW p
  PROVE  /\ Alike(r, InOut(r, p)) /\ SameList(r, InOut(r, p))
         /\ InOut(r, p).hero <=> p \in r.cells
<1>1. CASE p \in r.cells
  <2>1. InOut(r, p) = IF ~r.hero THEN [r EXCEPT !.hero = TRUE] ELSE r
    BY <1>1 DEF InOut, AnyCloud
  <2> QED
    BY <1>1, <2>1 DEF AnyCloud, Alike, SameList
<1>2. CASE p \notin r.cells
  <2>1. InOut(r, p) = IF r.hero THEN [r EXCEPT !.hero = FALSE] ELSE r
    BY <1>2 DEF InOut, AnyCloud
  <2> QED
    BY <1>2, <2>1 DEF AnyCloud, Alike, SameList
<1> QED
  BY <1>1, <1>2

(* What is known of a list does not depend on the rest of the region. *)
LEMMA SameKnown ==
  ASSUME NEW r, NEW q, NEW where, Knows(r, where), SameList(r, q), q.cells = r.cells
  PROVE  Knows(q, where)
BY DEF Knows, SameList

(* One monster goes to x, and its entries and what is known of it change. *)
LEMMA OneMoves ==
  ASSUME NEW r, NEW q, NEW m \in Mon, NEW where \in [Mon -> Cell \cup {Nowhere}], NEW x,
         Knows(r, where), q.cells = r.cells,
         \A c \in Mon \ {m} :
           /\ c \in q.doubled <=> c \in r.doubled
           /\ c \in q.stray <=> c \in r.stray
           /\ AtMostOnce(r.mons, c) => AtMostOnce(q.mons, c)
           /\ On(q.mons, c) <=> On(r.mons, c),
         m \notin q.doubled =>
           /\ AtMostOnce(q.mons, m)
           /\ m \notin q.stray /\ x # Nowhere => (On(q.mons, m) <=> x \in q.cells)
  PROVE  Knows(q, [where EXCEPT ![m] = x])
<1> DEFINE w == [where EXCEPT ![m] = x]
<1>1. w[m] = x /\ \A c \in Mon \ {m} : w[c] = where[c]
  OBVIOUS
<1> HIDE DEF w
<1>2. ASSUME NEW c \in Mon \ q.doubled
      PROVE  /\ AtMostOnce(q.mons, c)
             /\ c \notin q.stray /\ w[c] # Nowhere => (On(q.mons, c) <=> w[c] \in q.cells)
  <2>1. CASE c = m
    BY <1>1, <1>2, <2>1
  <2>2. CASE c # m
    <3>1. /\ c \notin r.doubled /\ (c \notin q.stray => c \notin r.stray) /\ w[c] = where[c]
          /\ AtMostOnce(r.mons, c) => AtMostOnce(q.mons, c)
          /\ On(q.mons, c) <=> On(r.mons, c)
      BY <1>1, <1>2, <2>2
    <3>2. /\ AtMostOnce(r.mons, c)
          /\ c \notin r.stray /\ where[c] # Nowhere => (On(r.mons, c) <=> where[c] \in r.cells)
      BY <3>1 DEF Knows
    <3> QED
      BY <3>1, <3>2
  <2> QED
    BY <2>1, <2>2
<1>3. Knows(q, w)
  BY <1>2 DEF Knows
<1> QED
  BY <1>3 DEF w

LEMMA LostSight ==
  ASSUME NEW r \in AnyCloud, NEW m \in Mon
  PROVE  /\ Alike(r, Lose(r, m)) /\ Lose(r, m).mons = r.mons /\ Lose(r, m).hero = r.hero
         /\ Lose(r, m).doubled = r.doubled
         /\ Lose(r, m).stray = r.stray \cup ({m} \ r.doubled)
BY DEF Lose, AnyCloud, Alike

(* Wherever a monster goes that the region has lost sight of. *)
LEMMA LostAnywhere ==
  ASSUME NEW r \in AnyCloud, NEW m \in Mon, NEW where \in [Mon -> Cell \cup {Nowhere}],
         Knows(r, where), NEW x
  PROVE  Knows(Lose(r, m), [where EXCEPT ![m] = x])
<1> DEFINE q == Lose(r, m)
<1>1. /\ q.cells = r.cells /\ q.mons = r.mons /\ q.doubled = r.doubled
      /\ q.stray = r.stray \cup ({m} \ r.doubled)
  BY LostSight DEF Alike
<1> HIDE DEF q
<1>2. m \notin q.doubled => AtMostOnce(q.mons, m) /\ m \in q.stray
  BY <1>1 DEF Knows
<1>3. Knows(q, [where EXCEPT ![m] = x])
  BY <1>1, <1>2, OneMoves
<1> QED
  BY <1>3 DEF q

LEMMA IsTold ==
  ASSUME NEW r \in AnyCloud, NEW m \in Mon
  PROVE  /\ Told(r, m) \in AnyCloud /\ Alike(r, Told(r, m))
         /\ Told(r, m).mons = r.mons /\ Told(r, m).hero = r.hero /\ Told(r, m).cells = r.cells
         /\ Told(r, m).doubled = r.doubled /\ Told(r, m).stray = r.stray \ {m}
BY DEF Told, AnyCloud, Alike

(* A monster that rightly stays off the list, or on it. *)
LEMMA ToldRight ==
  ASSUME NEW r \in AnyCloud, NEW m \in Mon, NEW where \in [Mon -> Cell \cup {Nowhere}],
         Knows(r, where), NEW p, On(r.mons, m) <=> p \in r.cells
  PROVE  Knows(Told(r, m), [where EXCEPT ![m] = p])
<1> DEFINE q == Told(r, m)
<1>1. /\ q.cells = r.cells /\ q.mons = r.mons /\ q.doubled = r.doubled /\ q.stray = r.stray \ {m}
  BY IsTold
<1> HIDE DEF q
<1>2. m \notin q.doubled => AtMostOnce(q.mons, m)
  BY <1>1 DEF Knows
<1>3. Knows(q, [where EXCEPT ![m] = p])
  BY <1>1, <1>2, OneMoves
<1> QED
  BY <1>3 DEF q

LEMMA PutOnRight ==
  ASSUME NEW r \in AnyCloud, NEW m \in Mon, NEW where \in [Mon -> Cell \cup {Nowhere}],
         Knows(r, where), NEW p \in r.cells
  PROVE  LET q == PutOn(Told(r, m), m)
         IN  /\ Alike(r, q) /\ q.hero = r.hero
             /\ \A c : On(q.mons, c) => On(r.mons, c) \/ c = m
             /\ Knows(q, [where EXCEPT ![m] = p])
<1> DEFINE t == Told(r, m)
           q == PutOn(t, m)
<1>1. /\ t \in AnyCloud /\ Alike(r, t) /\ t.mons = r.mons /\ t.hero = r.hero /\ t.cells = r.cells
      /\ t.doubled = r.doubled /\ t.stray = r.stray \ {m}
  BY IsTold
<1> HIDE DEF t
<1>2. r.mons \in Seq(Mon) /\ r.stray \in SUBSET Mon /\ r.doubled \in SUBSET Mon
  BY DEF AnyCloud
<1>3. /\ q.mons = Append(r.mons, m) /\ Append(r.mons, m) \in Seq(Mon)
      /\ q.doubled = IF On(r.mons, m) THEN r.doubled \cup {m} ELSE r.doubled
      /\ q.stray = r.stray \ {m} /\ q.hero = r.hero /\ q.cells = r.cells
  BY <1>1, <1>2, PutLast DEF PutOn, AnyCloud, Listed, On
<1>4. Alike(t, q)
  BY <1>1, <1>2, PutLast DEF PutOn, AnyCloud, Alike
<1> HIDE DEF q
<1>5. \A c : On(q.mons, c) <=> (On(r.mons, c) \/ c = m)
  BY <1>2, <1>3, PutLast
<1>6. ASSUME NEW c \in Mon, AtMostOnce(r.mons, c), c = m => ~On(r.mons, m)
      PROVE  AtMostOnce(q.mons, c)
  BY <1>2, <1>3, <1>6, PutLast
<1>7. m \notin q.doubled => AtMostOnce(q.mons, m)
  <2> HAVE m \notin q.doubled
  <2>1. ~On(r.mons, m) /\ m \notin r.doubled
    BY <1>3
  <2>2. AtMostOnce(r.mons, m)
    BY <2>1 DEF Knows
  <2> QED
    BY <1>6, <2>1, <2>2
<1>8. \A c \in Mon \ {m} :
        /\ c \in q.doubled <=> c \in r.doubled
        /\ c \in q.stray <=> c \in r.stray
        /\ AtMostOnce(r.mons, c) => AtMostOnce(q.mons, c)
        /\ On(q.mons, c) <=> On(r.mons, c)
  BY <1>3, <1>5, <1>6
<1>9. Knows(q, [where EXCEPT ![m] = p])
  BY <1>3, <1>5, <1>7, <1>8, OneMoves
<1> QED
  BY <1>1, <1>3, <1>4, <1>5, <1>9 DEF q, t, Alike

(* One entry of m is struck off a list. *)
LEMMA Struck ==
  ASSUME NEW r \in AnyCloud, NEW k \in 1 .. Len(r.mons), NEW m \in Mon, r.mons[k] = m
  PROVE  LET q == Strike(r, k)
         IN  /\ Alike(r, q) /\ q.hero = r.hero /\ q.stray = r.stray
             /\ q.mons = SwapRemove(r.mons, k)
             /\ \A c \in Mon \ {m} :
                  /\ c \in q.doubled <=> c \in r.doubled
                  /\ AtMostOnce(r.mons, c) => AtMostOnce(q.mons, c)
                  /\ On(q.mons, c) <=> On(r.mons, c)
             /\ \A c : On(q.mons, c) => On(r.mons, c)
             /\ AtMostOnce(r.mons, m) \/ ~On(q.mons, m) => AtMostOnce(q.mons, m)
             /\ m \notin q.doubled => m \notin r.doubled \/ ~On(q.mons, m)
             /\ AtMostOnce(r.mons, m) => ~On(q.mons, m)
<1> DEFINE left == SwapRemove(r.mons, k)
           q == Strike(r, k)
<1>1. r.mons \in Seq(Mon) /\ r.doubled \in SUBSET Mon
  BY DEF AnyCloud
<1>2. left \in Seq(Mon)
  BY <1>1, SwapRemoved
<1>3. /\ \A c : AtMostOnce(r.mons, c) => AtMostOnce(left, c)
      /\ \A c : c # m => (On(left, c) <=> On(r.mons, c))
      /\ \A c : On(left, c) => On(r.mons, c)
      /\ AtMostOnce(r.mons, m) => ~On(left, m)
  BY <1>1, TakenOff
<1> HIDE DEF left
<1>4. q = [r EXCEPT !.mons = left, !.doubled = {c \in r.doubled : c # m \/ c \in ToSet(left)}]
  BY DEF Strike, left
<1>5. /\ Alike(r, q) /\ q.hero = r.hero /\ q.stray = r.stray /\ q.mons = left
      /\ q.doubled = {c \in r.doubled : c # m \/ c \in ToSet(left)}
  BY <1>1, <1>2, <1>4 DEF AnyCloud, Alike
<1> HIDE DEF q
<1>6. \A c : c \in ToSet(left) <=> On(left, c)
  BY DEF ToSet, On
<1>7. ~On(left, m) => AtMostOnce(left, m)
  BY DEF On, AtMostOnce
<1> QED
  BY <1>3, <1>5, <1>6, <1>7 DEF q, left

LEMMA TakeOffRight ==
  ASSUME NEW r \in AnyCloud, NEW m \in Mon, NEW where \in [Mon -> Cell \cup {Nowhere}],
         Knows(r, where), On(r.mons, m), NEW p, p \notin r.cells
  PROVE  LET q == TakeOff(Told(r, m), m)
         IN  /\ Alike(r, q) /\ q.hero = r.hero
             /\ \A c : On(q.mons, c) => On(r.mons, c)
             /\ Knows(q, [where EXCEPT ![m] = p])
<1> DEFINE t == Told(r, m)
           k == CHOOSE k \in DOMAIN t.mons :
                  t.mons[k] = m /\ \A j \in DOMAIN t.mons : t.mons[j] = m => k <= j
           q == Strike(t, k)
<1>0. TakeOff(Told(r, m), m) = q
  BY DEF TakeOff
<1>1. /\ t \in AnyCloud /\ Alike(r, t) /\ t.mons = r.mons /\ t.hero = r.hero /\ t.cells = r.cells
      /\ t.doubled = r.doubled /\ t.stray = r.stray \ {m}
  BY IsTold
<1> HIDE DEF t
<1>2. k \in 1 .. Len(t.mons) /\ t.mons[k] = m
  <2> DEFINE T == {j \in DOMAIN t.mons : t.mons[j] = m}
  <2>0. DOMAIN t.mons = 1 .. Len(t.mons)
    BY <1>1 DEF AnyCloud
  <2>1. T \subseteq Nat /\ T # {}
    BY <1>1, <2>0 DEF On
  <2>2. PICK x \in T : \A y \in T : x <= y
    BY <2>1, Least
  <2>3. x \in DOMAIN t.mons /\ t.mons[x] = m /\ \A j \in DOMAIN t.mons : t.mons[j] = m => x <= j
    BY <2>2
  <2>4. k \in DOMAIN t.mons /\ t.mons[k] = m
    BY <2>3
  <2> QED
    BY <2>0, <2>4
<1> HIDE DEF k
<1>3. /\ Alike(t, q) /\ q.hero = t.hero /\ q.stray = t.stray
      /\ \A c \in Mon \ {m} :
           /\ c \in q.doubled <=> c \in t.doubled
           /\ AtMostOnce(t.mons, c) => AtMostOnce(q.mons, c)
           /\ On(q.mons, c) <=> On(t.mons, c)
      /\ \A c : On(q.mons, c) => On(t.mons, c)
      /\ AtMostOnce(t.mons, m) \/ ~On(q.mons, m) => AtMostOnce(q.mons, m)
      /\ m \notin q.doubled => m \notin t.doubled \/ ~On(q.mons, m)
      /\ AtMostOnce(t.mons, m) => ~On(q.mons, m)
  <2>1. LET o == Strike(t, k)
        IN  /\ Alike(t, o) /\ o.hero = t.hero /\ o.stray = t.stray
            /\ o.mons = SwapRemove(t.mons, k)
            /\ \A c \in Mon \ {m} :
                 /\ c \in o.doubled <=> c \in t.doubled
                 /\ AtMostOnce(t.mons, c) => AtMostOnce(o.mons, c)
                 /\ On(o.mons, c) <=> On(t.mons, c)
            /\ \A c : On(o.mons, c) => On(t.mons, c)
            /\ AtMostOnce(t.mons, m) \/ ~On(o.mons, m) => AtMostOnce(o.mons, m)
            /\ m \notin o.doubled => m \notin t.doubled \/ ~On(o.mons, m)
            /\ AtMostOnce(t.mons, m) => ~On(o.mons, m)
    BY <1>1, <1>2, Struck
  <2> QED
    BY <2>1 DEF q
<1> HIDE DEF q
<1>4. q.cells = r.cells
  BY <1>1, <1>3 DEF Alike
<1>5. m \notin q.doubled => ~On(q.mons, m) /\ AtMostOnce(q.mons, m)
  <2> HAVE m \notin q.doubled
  <2>1. m \notin r.doubled => AtMostOnce(t.mons, m)
    BY <1>1 DEF Knows
  <2> QED
    BY <1>1, <1>3, <2>1
<1>6. \A c \in Mon \ {m} :
        /\ c \in q.doubled <=> c \in r.doubled
        /\ c \in q.stray <=> c \in r.stray
        /\ AtMostOnce(r.mons, c) => AtMostOnce(q.mons, c)
        /\ On(q.mons, c) <=> On(r.mons, c)
  BY <1>1, <1>3
<1>7. Knows(q, [where EXCEPT ![m] = p])
  BY <1>4, <1>5, <1>6, OneMoves
<1> QED
  BY <1>0, <1>1, <1>3, <1>7 DEF Alike

(* A monster that goes nowhere else, or dies. *)
LEMMA Unmoved ==
  ASSUME NEW r \in AnyCloud, NEW m \in Mon, NEW where \in [Mon -> Cell \cup {Nowhere}],
         Knows(r, where)
  PROVE  Knows(r, [where EXCEPT ![m] = Nowhere])
BY DEF Knows

LEMMA MonInOutRight ==
  ASSUME NEW r \in AnyCloud, NEW m \in Mon, NEW where \in [Mon -> Cell \cup {Nowhere}],
         Knows(r, where), NEW p \in Cell
  PROVE  /\ Alike(r, MonInOut(r, m, p)) /\ MonInOut(r, m, p).hero = r.hero
         /\ \A c : On(MonInOut(r, m, p).mons, c) => On(r.mons, c) \/ c = m
         /\ Knows(MonInOut(r, m, p), [where EXCEPT ![m] = p])
<1>0. Listed(r, m) <=> On(r.mons, m)
  BY DEF Listed, On
<1>1. CASE p \notin r.cells /\ On(r.mons, m)
  <2>1. MonInOut(r, m, p) = TakeOff(Told(r, m), m)
    BY <1>0, <1>1 DEF MonInOut
  <2>2. On(r.mons, m) /\ p \notin r.cells
    BY <1>1
  <2>3. LET q == TakeOff(Told(r, m), m)
        IN  /\ Alike(r, q) /\ q.hero = r.hero
            /\ \A c : On(q.mons, c) => On(r.mons, c)
            /\ Knows(q, [where EXCEPT ![m] = p])
    BY <2>2, TakeOffRight
  <2> QED
    BY <2>1, <2>3
<1>2. CASE (p \notin r.cells /\ ~On(r.mons, m)) \/ (p \in r.cells /\ r.hero /\ On(r.mons, m))
  <2>1. MonInOut(r, m, p) = Told(r, m)
    BY <1>0, <1>2 DEF MonInOut
  <2>2. Knows(Told(r, m), [where EXCEPT ![m] = p])
    <3>1. On(r.mons, m) <=> p \in r.cells
      BY <1>2
    <3> QED
      BY <3>1, ToldRight
  <2>3. /\ Alike(r, Told(r, m)) /\ Told(r, m).mons = r.mons /\ Told(r, m).hero = r.hero
    BY IsTold
  <2> QED
    BY <2>1, <2>2, <2>3
<1>3. CASE p \in r.cells /\ ~r.hero
  <2>1. MonInOut(r, m, p) = PutOn(Told(r, m), m)
    BY <1>0, <1>3 DEF MonInOut
  <2> QED
    BY <1>3, <2>1, PutOnRight
<1>4. CASE p \in r.cells /\ r.hero /\ ~On(r.mons, m)
  <2>1. MonInOut(r, m, p) = Lose(r, m)
    BY <1>0, <1>4 DEF MonInOut
  <2>2. /\ Alike(r, Lose(r, m)) /\ Lose(r, m).mons = r.mons /\ Lose(r, m).hero = r.hero
    BY LostSight
  <2>3. Knows(Lose(r, m), [where EXCEPT ![m] = p])
    BY LostAnywhere
  <2> QED
    BY <2>1, <2>2, <2>3
<1> QED
  BY <1>1, <1>2, <1>3, <1>4

LEMMA UpdateRight ==
  ASSUME NEW r \in AnyCloud, NEW m \in Mon, NEW where \in [Mon -> Cell \cup {Nowhere}],
         Knows(r, where), NEW p \in Cell
  PROVE  /\ Alike(r, UpdateMonster(r, m, p)) /\ UpdateMonster(r, m, p).hero = r.hero
         /\ \A c : On(UpdateMonster(r, m, p).mons, c) => On(r.mons, c) \/ c = m
         /\ Knows(UpdateMonster(r, m, p), [where EXCEPT ![m] = p])
<1>0. Listed(r, m) <=> On(r.mons, m)
  BY DEF Listed, On
<1>1. CASE p \in r.cells /\ ~On(r.mons, m)
  <2>1. UpdateMonster(r, m, p) = PutOn(Told(r, m), m)
    BY <1>0, <1>1 DEF UpdateMonster
  <2> QED
    BY <1>1, <2>1, PutOnRight
<1>2. CASE p \notin r.cells /\ On(r.mons, m)
  <2>1. UpdateMonster(r, m, p) = TakeOff(Told(r, m), m)
    BY <1>0, <1>2 DEF UpdateMonster
  <2>2. On(r.mons, m) /\ p \notin r.cells
    BY <1>2
  <2>3. LET q == TakeOff(Told(r, m), m)
        IN  /\ Alike(r, q) /\ q.hero = r.hero
            /\ \A c : On(q.mons, c) => On(r.mons, c)
            /\ Knows(q, [where EXCEPT ![m] = p])
    BY <2>2, TakeOffRight
  <2> QED
    BY <2>1, <2>3
<1>3. CASE p \in r.cells <=> On(r.mons, m)
  <2>1. UpdateMonster(r, m, p) = Told(r, m)
    BY <1>0, <1>3 DEF UpdateMonster
  <2>2. Knows(Told(r, m), [where EXCEPT ![m] = p])
    <3>1. On(r.mons, m) <=> p \in r.cells
      BY <1>3
    <3> QED
      BY <3>1, ToldRight
  <2>3. /\ Alike(r, Told(r, m)) /\ Told(r, m).mons = r.mons /\ Told(r, m).hero = r.hero
    BY IsTold
  <2> QED
    BY <2>1, <2>2, <2>3
<1> QED
  BY <1>1, <1>2, <1>3

(* The list of a new cloud: everyone inside, and each segment's worm again. *)
LEMMA NewCloudRight ==
  ASSUME NEW cells \in Shape, NEW ttl \in Nat \ {0}, NEW dmg \in Nat \ {0}, NEW reviver \in BOOLEAN,
         place \in [Mon -> Cell \cup {Nowhere}], NEW there \in SUBSET alive,
         NEW segs \in Segments(there), NEW r, r = NewCloud(cells, ttl, dmg, there, segs, reviver)
  PROVE  /\ r \in AnyCloud /\ r.cells = cells /\ r.ttl = ttl /\ r.reviver = reviver
         /\ r.hero <=> hero \in cells
         /\ \A m : On(r.mons, m) => m \in there
         /\ Knows(r, [m \in Mon |-> IF m \in there THEN place[m] ELSE Nowhere])
<1> DEFINE T == {m \in there : place[m] \in cells}
           h == SetToSeq(T)
           mons == h \o segs
           again == {m \in ToSet(segs) : m \in T \/ \E j, k \in DOMAIN segs :
                                                      j # k /\ segs[j] = m /\ segs[k] = m}
<1>1. IsFiniteSet(T) /\ T \subseteq Mon /\ there \subseteq Mon
  BY RegionAssumption, FS_Subset DEF alive
<1>2. h \in Seq(T) /\ \A x : AtMostOnce(h, x) /\ (On(h, x) <=> x \in T)
  BY <1>1, Arranged
<1>3. h \in Seq(Mon)
  BY <1>1, <1>2
<1>4. segs \in Seq(LongWorm \cap there)
  <2>1. PICK n \in 0 .. MaxList : segs \in [1 .. n -> LongWorm \cap there]
    BY DEF Segments, SeqOf
  <2> QED
    BY <2>1
<1>5. segs \in Seq(Mon) /\ ToSet(segs) \subseteq there /\ \A x : x \in ToSet(segs) <=> On(segs, x)
  BY <1>1, <1>4 DEF ToSet, On
<1> HIDE DEF T, h
<1>6. /\ mons \in Seq(Mon) /\ Len(h) \in Nat /\ Len(segs) \in Nat
      /\ DOMAIN h = 1 .. Len(h) /\ DOMAIN segs = 1 .. Len(segs)
      /\ DOMAIN mons = 1 .. Len(h) + Len(segs)
      /\ \A k \in 1 .. Len(h) : mons[k] = h[k]
      /\ \A k \in 1 .. Len(segs) : mons[Len(h) + k] = segs[k]
  BY <1>3, <1>5
<1>7. r = [cells |-> cells, ttl |-> ttl, dmg |-> dmg, mons |-> mons, hero |-> hero \in cells,
           reviver |-> reviver, stray |-> ToSet(segs) \ again, doubled |-> again]
  BY DEF NewCloud, Cloud, T, h
<1>8. again \in SUBSET Mon /\ ToSet(segs) \ again \in SUBSET Mon
  BY <1>1, <1>5
<1> HIDE DEF mons
<1>9. \A k \in DOMAIN mons :
        \/ k \in DOMAIN h /\ mons[k] = h[k]
        \/ k - Len(h) \in DOMAIN segs /\ mons[k] = segs[k - Len(h)]
  <2> TAKE k \in DOMAIN mons
  <2>1. CASE k <= Len(h)
    BY <1>6, <2>1
  <2>2. CASE k > Len(h)
    <3>1. k - Len(h) \in 1 .. Len(segs) /\ Len(h) + (k - Len(h)) = k
      BY <1>6, <2>2
    <3> QED
      BY <1>6, <3>1
  <2> QED
    BY <1>6, <2>1, <2>2
<1>10. \A m : On(mons, m) <=> m \in T \/ m \in ToSet(segs)
  <2> TAKE m
  <2>1. ASSUME On(mons, m) PROVE On(h, m) \/ On(segs, m)
    BY <1>9, <2>1 DEF On
  <2>2. ASSUME On(h, m) PROVE On(mons, m)
    <3>1. PICK k \in DOMAIN h : h[k] = m
      BY <2>2 DEF On
    <3>2. k \in DOMAIN mons /\ mons[k] = m
      BY <1>6, <3>1
    <3> QED
      BY <3>2 DEF On
  <2>3. ASSUME On(segs, m) PROVE On(mons, m)
    <3>1. PICK k \in DOMAIN segs : segs[k] = m
      BY <2>3 DEF On
    <3>2. Len(h) + k \in DOMAIN mons /\ mons[Len(h) + k] = m
      BY <1>6, <3>1
    <3> QED
      BY <3>2 DEF On
  <2> QED
    BY <1>2, <1>5, <2>1, <2>2, <2>3
<1>11. ASSUME NEW m \in Mon \ again PROVE AtMostOnce(mons, m)
  <2>1. m \in ToSet(segs) => m \notin T
    BY <1>11
  <2>2. \A j, k \in DOMAIN segs : segs[j] = m /\ segs[k] = m => j = k
    <3> SUFFICES ASSUME NEW j \in DOMAIN segs, NEW k \in DOMAIN segs, segs[j] = m, segs[k] = m
                 PROVE  j = k
      OBVIOUS
    <3>1. m \in ToSet(segs)
      BY <1>5 DEF On
    <3> QED
      BY <1>11, <3>1
  <2> SUFFICES ASSUME NEW j \in DOMAIN mons, NEW k \in DOMAIN mons, mons[j] = m, mons[k] = m
               PROVE  j = k
    BY DEF AtMostOnce
  <2>3. ASSUME NEW i \in DOMAIN h, h[i] = m PROVE m \in T
    BY <1>2, <2>3 DEF On
  <2>4. ASSUME NEW i \in DOMAIN segs, segs[i] = m PROVE m \in ToSet(segs)
    BY <1>5, <2>4 DEF On
  <2>5. CASE m \in T
    <3>1. j \in DOMAIN h /\ h[j] = m /\ k \in DOMAIN h /\ h[k] = m
      BY <1>9, <2>1, <2>4, <2>5
    <3> QED
      BY <1>2, <3>1 DEF AtMostOnce
  <2>6. CASE m \notin T
    <3>1. /\ j - Len(h) \in DOMAIN segs /\ segs[j - Len(h)] = m
          /\ k - Len(h) \in DOMAIN segs /\ segs[k - Len(h)] = m
      BY <1>9, <2>3, <2>6
    <3>2. j - Len(h) = k - Len(h) /\ j \in Nat /\ k \in Nat
      BY <1>6, <2>2, <3>1
    <3> QED
      BY <1>6, <3>2
  <2> QED
    BY <2>5, <2>6
<1> HIDE DEF again
<1>12. r \in AnyCloud
  <2>1. (hero \in cells) \in BOOLEAN
    OBVIOUS
  <2> QED
    BY <1>6, <1>7, <1>8, <2>1 DEF AnyCloud
<1>13. r.cells = cells /\ r.ttl = ttl /\ r.reviver = reviver /\ r.mons = mons
       /\ r.hero = (hero \in cells) /\ r.doubled = again /\ r.stray = ToSet(segs) \ again
  BY <1>7
<1>14. \A m : On(r.mons, m) => m \in there
  BY <1>5, <1>10, <1>13 DEF T
<1>15. Knows(r, [m \in Mon |-> IF m \in there THEN place[m] ELSE Nowhere])
  <2> DEFINE w == [m \in Mon |-> IF m \in there THEN place[m] ELSE Nowhere]
  <2>1. \A m \in Mon : m \notin again /\ m \notin r.stray => m \notin ToSet(segs)
    BY <1>13
  <2>2. \A m \in Mon : w[m] # Nowhere => w[m] = place[m] /\ m \in there
    OBVIOUS
  <2> HIDE DEF w
  <2>3. \A m \in Mon \ again :
          /\ AtMostOnce(mons, m)
          /\ m \notin r.stray /\ w[m] # Nowhere => (On(mons, m) <=> w[m] \in cells)
    BY <1>10, <1>11, <2>1, <2>2 DEF T
  <2>4. Knows(r, w)
    BY <1>13, <2>3 DEF Knows
  <2> QED
    BY <2>4 DEF w
<1> QED
  BY <1>12, <1>13, <1>14, <1>15

-----------------------------------------------------------------------------
(* Between two runs of run_regions.                                          *)

(* Monsters and hero move, the regions stay. *)
LEMMA Touched ==
  ASSUME RegionInv, Playing, UNCHANGED <<loop, owed, dispersed>>,
         Len(regions') = Len(regions), regions' \in Seq(AnyCloud),
         owed => Cthulhu \notin alive',
         \A i \in DOMAIN regions :
           /\ Alike(regions[i], regions'[i]) /\ Knows(regions'[i], place')
           /\ ~misplaced' => (regions'[i].hero <=> hero' \in regions[i].cells)
           /\ owed /\ On(regions'[i].mons, Cthulhu) => On(regions[i].mons, Cthulhu)
  PROVE  Known' /\ Walked' /\ Buried' /\ CthulhuAwaited'
<1>1. DOMAIN regions' = DOMAIN regions
  BY DEF RegionInv, RegionTypeOK
<1>2. loop.at = "play" /\ loop' = loop
  BY DEF Playing
<1>3. Known'
  BY <1>1 DEF Known, Alike
<1>4. Walked'
  BY <1>2 DEF Walked
<1>5. Buried'
  <2>1. owed' => Cthulhu \notin alive'
    OBVIOUS
  <2>2. \A i \in DOMAIN regions' : regions'[i].reviver => owed'
    BY <1>1 DEF RegionInv, Buried, Alike
  <2>3. \A i, j \in DOMAIN regions' : regions'[i].reviver /\ regions'[j].reviver => i = j
    BY <1>1 DEF RegionInv, Buried, Alike
  <2>4. \A i \in DOMAIN regions' : regions'[i].reviver /\ regions'[i].ttl = 0 =>
          \A k \in DOMAIN regions' : ~On(regions'[k].mons, Cthulhu)
    BY <1>1, <1>2, <2>2 DEF RegionInv, Buried, Alike, Unlisted
  <2> QED
    BY <1>2, <2>1, <2>2, <2>3, <2>4 DEF Buried, Unlisted
<1>6. CthulhuAwaited'
  BY <1>1 DEF RegionInv, CthulhuAwaited, Alike
<1> QED
  BY <1>3, <1>4, <1>5, <1>6

LEMMA MonOfPlace ==
  ASSUME RegionTypeOK, NEW m \in Mon, NEW p \in Cell \cup {Nowhere}
  PROVE  [place EXCEPT ![m] = p] \in [Mon -> Cell \cup {Nowhere}]
BY DEF RegionTypeOK

LEMMA HeroStep ==
  ASSUME RegionInv, NEW p \in Cell,
         HeroMoves(p) \/ HeroStopped(p) \/ HeroTeleports(p) \/ HeroCarried(p)
  PROVE  RegionInv'
<1> USE DEF RegionInv
<1>1. regions \in Seq(AnyCloud) /\ DOMAIN regions = 1 .. Len(regions) /\ Playing
      /\ UNCHANGED <<place, loop, clouds, owed, hit, dispersed>>
      /\ hero' \in Cell /\ misplaced' \in BOOLEAN
  <2>1. regions \in Seq(AnyCloud) /\ DOMAIN regions = 1 .. Len(regions)
    BY DEF RegionTypeOK
  <2>2. Playing /\ UNCHANGED <<place, loop, clouds, owed, hit, dispersed>>
    BY DEF HeroMoves, HeroStopped, HeroTeleports, HeroCarried
  <2>3. hero' \in Cell
    BY DEF RegionTypeOK, HeroMoves, HeroStopped, HeroTeleports, HeroCarried
  <2>4. misplaced' \in BOOLEAN
    BY DEF RegionTypeOK, HeroMoves, HeroStopped, HeroTeleports, HeroCarried
  <2> QED
    BY <2>1, <2>2, <2>3, <2>4
<1>2. \A i \in DOMAIN regions : regions[i] \in AnyCloud /\ Knows(regions[i], place)
  BY <1>1 DEF Known
<1>3. owed => Cthulhu \notin alive'
  BY <1>1 DEF Buried, alive
<1>4. ASSUME regions' \in Seq(AnyCloud), Len(regions') = Len(regions) PROVE RegionTypeOK'
  BY <1>1, <1>4 DEF RegionTypeOK, Playing, At
<1>5. CASE AllInOut(p) /\ (~misplaced' => hero' = p)
  <2>1. \A i \in DOMAIN regions : InOut(regions[i], p) \in AnyCloud
    BY <1>2, InOutRight DEF Alike
  <2>2. regions' = [i \in DOMAIN regions |-> InOut(regions[i], p)]
    BY <1>5 DEF AllInOut
  <2>3. regions' \in Seq(AnyCloud) /\ Len(regions') = Len(regions)
    BY <1>1, <2>1, <2>2
  <2>4. \A i \in DOMAIN regions :
          /\ Alike(regions[i], regions'[i]) /\ SameList(regions[i], regions'[i])
          /\ regions'[i].hero <=> p \in regions[i].cells
    BY <1>2, <2>2, InOutRight
  <2>5. \A i \in DOMAIN regions : Knows(regions'[i], place')
    BY <1>1, <1>2, <2>4, SameKnown DEF Alike
  <2> QED
    BY <1>1, <1>3, <1>4, <1>5, <2>3, <2>4, <2>5, Touched DEF SameList
<1>6. CASE HeroTeleports(p)
  <2>1. \A i \in DOMAIN regions : [regions[i] EXCEPT !.hero = p \in regions[i].cells] \in AnyCloud
    <3>1. \A r \in AnyCloud, b \in BOOLEAN : [r EXCEPT !.hero = b] \in AnyCloud
      BY DEF AnyCloud
    <3> TAKE i \in DOMAIN regions
    <3>2. CASE p \in regions[i].cells
      <4>1. (p \in regions[i].cells) = TRUE
        BY <3>2
      <4> QED
        BY <1>2, <3>1, <4>1
    <3>3. CASE p \notin regions[i].cells
      <4>1. (p \in regions[i].cells) = FALSE
        BY <3>3
      <4> QED
        BY <1>2, <3>1, <4>1
    <3> QED
      BY <3>2, <3>3
  <2>2. hero' = p
        /\ regions' = [i \in DOMAIN regions |-> [regions[i] EXCEPT !.hero = p \in regions[i].cells]]
    BY <1>6 DEF HeroTeleports
  <2>3. regions' \in Seq(AnyCloud) /\ Len(regions') = Len(regions)
    BY <1>1, <2>1, <2>2
  <2>4. \A i \in DOMAIN regions :
          /\ Alike(regions[i], regions'[i]) /\ SameList(regions[i], regions'[i])
          /\ regions'[i].hero <=> p \in regions[i].cells
    BY <1>2, <2>1, <2>2 DEF Alike, SameList, AnyCloud
  <2>5. \A i \in DOMAIN regions : Knows(regions'[i], place')
    BY <1>1, <1>2, <2>4, SameKnown DEF Alike
  <2> QED
    BY <1>1, <1>3, <1>4, <2>2, <2>3, <2>4, <2>5, Touched DEF SameList
<1>7. CASE HeroCarried(p)
  <2>1. regions' = regions /\ misplaced' = TRUE
    BY <1>7 DEF HeroCarried
  <2>2. \A i \in DOMAIN regions : Alike(regions[i], regions'[i]) /\ Knows(regions'[i], place')
    BY <1>1, <1>2, <2>1 DEF Alike
  <2> QED
    BY <1>1, <1>3, <1>4, <2>1, <2>2, Touched
<1> QED
  BY <1>5, <1>6, <1>7 DEF HeroMoves, HeroStopped

LEMMA MonMovesStep ==
  ASSUME RegionInv, NEW m \in Mon, NEW p \in Cell, NEW q \in Cell, MonMoves(m, p, q)
  PROVE  RegionInv'
<1> USE DEF RegionInv
<1> DEFINE new(r) == IF p = q THEN MonInOut(r, m, p) ELSE Lose(MonInOut(r, m, p), m)
<1>1. /\ regions \in Seq(AnyCloud) /\ DOMAIN regions = 1 .. Len(regions) /\ Playing
      /\ UNCHANGED <<hero, loop, clouds, owed, hit, misplaced, dispersed>>
      /\ place \in [Mon -> Cell \cup {Nowhere}] /\ m \in alive
      /\ place' = [place EXCEPT ![m] = q]
      /\ regions' = [i \in DOMAIN regions |-> new(regions[i])]
  BY DEF RegionTypeOK, MonMoves
<1>2. \A i \in DOMAIN regions : regions[i] \in AnyCloud /\ Knows(regions[i], place)
  BY <1>1 DEF Known
<1>3. owed => Cthulhu \notin alive' /\ m # Cthulhu
  BY <1>1 DEF Buried, alive
<1>4. ASSUME NEW r \in AnyCloud, Knows(r, place)
      PROVE  /\ Alike(r, new(r)) /\ new(r).hero = r.hero /\ Knows(new(r), place')
             /\ \A c : On(new(r).mons, c) => On(r.mons, c) \/ c = m
  <2>1. /\ Alike(r, MonInOut(r, m, p)) /\ MonInOut(r, m, p).hero = r.hero
        /\ \A c : On(MonInOut(r, m, p).mons, c) => On(r.mons, c) \/ c = m
        /\ Knows(MonInOut(r, m, p), [place EXCEPT ![m] = p])
    BY <1>1, <1>4, MonInOutRight
  <2>2. CASE p = q
    BY <1>1, <2>1, <2>2
  <2>3. CASE p # q
    <3> DEFINE s == MonInOut(r, m, p)
    <3>1. s \in AnyCloud
      BY <2>1 DEF Alike
    <3> HIDE DEF s
    <3>2. /\ Alike(s, Lose(s, m)) /\ Lose(s, m).mons = s.mons /\ Lose(s, m).hero = s.hero
      BY <3>1, LostSight
    <3>3. [place EXCEPT ![m] = p] \in [Mon -> Cell \cup {Nowhere}]
      BY <1>1
    <3>4. Knows(Lose(s, m), [[place EXCEPT ![m] = p] EXCEPT ![m] = q])
      BY <2>1, <3>1, <3>3, LostAnywhere DEF s
    <3>5. [[place EXCEPT ![m] = p] EXCEPT ![m] = q] = place'
      BY <1>1
    <3>6. new(r) = Lose(s, m)
      BY <2>3 DEF s
    <3> HIDE DEF new
    <3> QED
      BY <2>1, <3>2, <3>4, <3>5, <3>6 DEF s, Alike
  <2> QED
    BY <2>2, <2>3
<1> HIDE DEF new
<1>5. \A i \in DOMAIN regions : new(regions[i]) \in AnyCloud
  BY <1>2, <1>4 DEF Alike
<1>6. regions' \in Seq(AnyCloud) /\ Len(regions') = Len(regions)
  BY <1>1, <1>5
<1>7. \A i \in DOMAIN regions :
        /\ Alike(regions[i], regions'[i]) /\ Knows(regions'[i], place')
        /\ regions'[i].hero = regions[i].hero
        /\ owed /\ On(regions'[i].mons, Cthulhu) => On(regions[i].mons, Cthulhu)
  BY <1>1, <1>2, <1>3, <1>4
<1>8. RegionTypeOK'
  BY <1>1, <1>6 DEF RegionTypeOK, Playing, At
<1> QED
  BY <1>1, <1>3, <1>6, <1>7, <1>8, Touched DEF Known

LEMMA HeroSwapsStep ==
  ASSUME RegionInv, NEW m \in Mon, HeroSwaps(m)
  PROVE  RegionInv'
<1> USE DEF RegionInv
<1> DEFINE new(r) == Lose(InOut(r, place[m]), m)
<1>1. /\ regions \in Seq(AnyCloud) /\ DOMAIN regions = 1 .. Len(regions) /\ Playing
      /\ UNCHANGED <<loop, clouds, owed, hit, dispersed>>
      /\ place \in [Mon -> Cell \cup {Nowhere}] /\ m \in alive \ {Cthulhu} /\ hero \in Cell
      /\ hero' = place[m] /\ place' = [place EXCEPT ![m] = hero] /\ misplaced' = FALSE
      /\ regions' = [i \in DOMAIN regions |-> new(regions[i])]
  BY DEF RegionTypeOK, HeroSwaps
<1>2. \A i \in DOMAIN regions : regions[i] \in AnyCloud /\ Knows(regions[i], place)
  BY <1>1 DEF Known
<1>3. owed => Cthulhu \notin alive'
  BY <1>1 DEF Buried, alive
<1>4. ASSUME NEW r \in AnyCloud, Knows(r, place)
      PROVE  /\ Alike(r, new(r)) /\ Knows(new(r), place') /\ new(r).mons = r.mons
             /\ new(r).hero <=> hero' \in r.cells
  <2> DEFINE s == InOut(r, place[m])
  <2>1. /\ Alike(r, s) /\ SameList(r, s)
        /\ s.hero <=> place[m] \in r.cells
    BY <1>4, InOutRight
  <2> HIDE DEF s
  <2>2. s \in AnyCloud /\ Knows(s, place)
    BY <1>4, <2>1, SameKnown DEF Alike
  <2>3. /\ Alike(s, Lose(s, m)) /\ Lose(s, m).mons = s.mons /\ Lose(s, m).hero = s.hero
    BY <2>2, LostSight
  <2>4. Knows(Lose(s, m), place')
    BY <1>1, <2>2, LostAnywhere
  <2>5. new(r) = Lose(s, m)
    BY DEF s
  <2> HIDE DEF new
  <2> QED
    BY <1>1, <2>1, <2>3, <2>4, <2>5 DEF Alike, SameList
<1> HIDE DEF new
<1>5. \A i \in DOMAIN regions : new(regions[i]) \in AnyCloud
  BY <1>2, <1>4 DEF Alike
<1>6. regions' \in Seq(AnyCloud) /\ Len(regions') = Len(regions)
  BY <1>1, <1>5
<1>7. \A i \in DOMAIN regions :
        /\ Alike(regions[i], regions'[i]) /\ Knows(regions'[i], place')
        /\ regions'[i].hero <=> hero' \in regions[i].cells
        /\ regions'[i].mons = regions[i].mons
  BY <1>1, <1>2, <1>4
<1>8. RegionTypeOK'
  <2>1. place' \in [Mon -> Cell \cup {Nowhere}] /\ hero' \in Cell
    BY <1>1 DEF alive
  <2> QED
    BY <1>1, <1>6, <2>1 DEF RegionTypeOK, Playing, At
<1> QED
  BY <1>1, <1>3, <1>6, <1>7, <1>8, Touched

LEMMA MonArrivesStep ==
  ASSUME RegionInv, NEW m \in Mon, NEW p \in Cell, MonArrives(m, p)
  PROVE  RegionInv'
<1> USE DEF RegionInv
<1>1. /\ regions \in Seq(AnyCloud) /\ DOMAIN regions = 1 .. Len(regions) /\ Playing
      /\ UNCHANGED <<hero, loop, clouds, owed, hit, misplaced, dispersed>>
      /\ place \in [Mon -> Cell \cup {Nowhere}] /\ (m = Cthulhu => ~owed)
      /\ place' = [place EXCEPT ![m] = p]
      /\ regions' = [i \in DOMAIN regions |-> UpdateMonster(regions[i], m, p)]
  BY DEF RegionTypeOK, MonArrives
<1>2. \A i \in DOMAIN regions : regions[i] \in AnyCloud /\ Knows(regions[i], place)
  BY <1>1 DEF Known
<1>3. owed => Cthulhu \notin alive' /\ m # Cthulhu
  BY <1>1 DEF Buried, alive
<1>4. \A i \in DOMAIN regions :
        /\ Alike(regions[i], regions'[i]) /\ Knows(regions'[i], place')
        /\ regions'[i].hero = regions[i].hero
        /\ owed /\ On(regions'[i].mons, Cthulhu) => On(regions[i].mons, Cthulhu)
  BY <1>1, <1>2, <1>3, UpdateRight
<1>5. \A i \in DOMAIN regions : UpdateMonster(regions[i], m, p) \in AnyCloud
  BY <1>1, <1>2, UpdateRight DEF Alike
<1>6. regions' \in Seq(AnyCloud) /\ Len(regions') = Len(regions)
  BY <1>1, <1>5
<1>8. RegionTypeOK'
  BY <1>1, <1>6 DEF RegionTypeOK, Playing, At
<1> QED
  BY <1>1, <1>3, <1>4, <1>6, <1>8, Touched DEF Known

(* A monster no region lists appears without their knowledge. *)
LEMMA UnnoticedRight ==
  ASSUME NEW rs \in Seq(AnyCloud), place \in [Mon -> Cell \cup {Nowhere}],
         NEW m \in Mon, NEW p \in Cell,
         \A i \in DOMAIN rs : Knows(rs[i], place) /\ ~On(rs[i].mons, m)
  PROVE  /\ Unnoticed(rs, m, p) \in Seq(AnyCloud) /\ Len(Unnoticed(rs, m, p)) = Len(rs)
         /\ \A i \in DOMAIN rs :
              /\ Alike(rs[i], Unnoticed(rs, m, p)[i])
              /\ Unnoticed(rs, m, p)[i].hero = rs[i].hero
              /\ Unnoticed(rs, m, p)[i].mons = rs[i].mons
              /\ Knows(Unnoticed(rs, m, p)[i], [place EXCEPT ![m] = p])
<1> DEFINE fresh(r) == [Told(r, m) EXCEPT !.doubled = @ \ {m}]
           new(r) == IF p \in fresh(r).cells THEN Lose(fresh(r), m) ELSE fresh(r)
<1>1. /\ DOMAIN rs = 1 .. Len(rs) /\ Len(rs) \in Nat
      /\ \A i \in DOMAIN rs : rs[i] \in AnyCloud
  OBVIOUS
<1>2. Unnoticed(rs, m, p) = [i \in DOMAIN rs |-> new(rs[i])]
  BY DEF Unnoticed
<1>3. ASSUME NEW r \in AnyCloud, Knows(r, place), ~On(r.mons, m)
      PROVE  /\ Alike(r, new(r)) /\ new(r).hero = r.hero /\ new(r).mons = r.mons
             /\ Knows(new(r), [place EXCEPT ![m] = p])
  <2> DEFINE f == fresh(r)
             q == new(r)
  <2>1. /\ f \in AnyCloud /\ Alike(r, f) /\ f.mons = r.mons /\ f.hero = r.hero /\ f.cells = r.cells
        /\ f.doubled = r.doubled \ {m} /\ f.stray = r.stray \ {m}
    BY DEF Told, AnyCloud, Alike
  <2>2. q = IF p \in f.cells THEN Lose(f, m) ELSE f
    OBVIOUS
  <2> HIDE DEF f, q, new, fresh
  <2>3. /\ Alike(r, q) /\ q.hero = r.hero /\ q.mons = r.mons /\ q.cells = r.cells
        /\ q.doubled = r.doubled \ {m}
        /\ q.stray = IF p \in r.cells THEN (r.stray \ {m}) \cup {m} ELSE r.stray \ {m}
    <3>1. CASE p \in f.cells
      <4>1. /\ Alike(f, Lose(f, m)) /\ Lose(f, m).mons = f.mons /\ Lose(f, m).hero = f.hero
            /\ Lose(f, m).doubled = f.doubled
            /\ Lose(f, m).stray = f.stray \cup ({m} \ f.doubled)
        BY <2>1, LostSight
      <4> QED
        BY <2>1, <2>2, <3>1, <4>1 DEF Alike
    <3>2. CASE p \notin f.cells
      BY <2>1, <2>2, <3>2
    <3> QED
      BY <3>1, <3>2
  <2>4. /\ AtMostOnce(q.mons, m) /\ ~On(q.mons, m)
        /\ m \notin q.stray => p \notin q.cells
    BY <1>3, <2>3 DEF AtMostOnce, On
  <2>5. Knows(q, [place EXCEPT ![m] = p])
    BY <1>3, <2>3, <2>4, OneMoves
  <2> QED
    BY <2>3, <2>5 DEF q
<1> HIDE DEF new, fresh
<1>4. \A i \in DOMAIN rs : new(rs[i]) \in AnyCloud
  BY <1>1, <1>3 DEF Alike
<1> QED
  <2> DEFINE u == Unnoticed(rs, m, p)
  <2>1. u \in Seq(AnyCloud) /\ Len(u) = Len(rs) /\ \A i \in DOMAIN rs : u[i] = new(rs[i])
    BY <1>1, <1>2, <1>4
  <2> HIDE DEF u
  <2>2. \A i \in DOMAIN rs :
              /\ Alike(rs[i], u[i]) /\ u[i].hero = rs[i].hero /\ u[i].mons = rs[i].mons
              /\ Knows(u[i], [place EXCEPT ![m] = p])
    BY <1>1, <1>3, <2>1
  <2> QED
    BY <2>1, <2>2 DEF u

LEMMA MonBornStep ==
  ASSUME RegionInv, NEW m \in Mon, NEW p \in Cell, MonBorn(m, p)
  PROVE  RegionInv'
<1> USE DEF RegionInv
<1>1. /\ regions \in Seq(AnyCloud) /\ DOMAIN regions = 1 .. Len(regions) /\ Playing
      /\ UNCHANGED <<hero, loop, clouds, owed, hit, misplaced, dispersed>>
      /\ place \in [Mon -> Cell \cup {Nowhere}] /\ m # Cthulhu
      /\ place' = [place EXCEPT ![m] = p]
      /\ regions' = Unnoticed(regions, m, p)
  BY DEF RegionTypeOK, MonBorn
<1>2. \A i \in DOMAIN regions : Knows(regions[i], place) /\ ~On(regions[i].mons, m)
  BY <1>1 DEF Known, MonBorn, New, Listed, On
<1>3. owed => Cthulhu \notin alive'
  BY <1>1 DEF Buried, alive
<1>4. /\ regions' \in Seq(AnyCloud) /\ Len(regions') = Len(regions)
      /\ \A i \in DOMAIN regions :
           /\ Alike(regions[i], regions'[i]) /\ regions'[i].hero = regions[i].hero
           /\ regions'[i].mons = regions[i].mons
           /\ Knows(regions'[i], place')
  BY <1>1, <1>2, UnnoticedRight
<1>5. RegionTypeOK'
  BY <1>1, <1>4 DEF RegionTypeOK, Playing, At
<1> QED
  BY <1>1, <1>3, <1>4, <1>5, Touched DEF Known

LEMMA MonGoneStep ==
  ASSUME RegionInv, NEW m \in Mon, MonGone(m)
  PROVE  RegionInv'
<1> USE DEF RegionInv
<1>1. /\ regions \in Seq(AnyCloud) /\ DOMAIN regions = 1 .. Len(regions) /\ Playing
      /\ UNCHANGED <<regions, hero, loop, clouds, owed, hit, misplaced, dispersed>>
      /\ place \in [Mon -> Cell \cup {Nowhere}]
      /\ place' = [place EXCEPT ![m] = Nowhere]
  BY DEF RegionTypeOK, MonGone
<1>2. \A i \in DOMAIN regions : regions[i] \in AnyCloud /\ Knows(regions[i], place)
  BY <1>1 DEF Known
<1>3. owed => Cthulhu \notin alive'
  BY <1>1 DEF Buried, alive
<1>4. \A i \in DOMAIN regions : Alike(regions[i], regions'[i]) /\ Knows(regions'[i], place')
  BY <1>1, <1>2, Unmoved DEF Alike
<1>5. RegionTypeOK'
  BY <1>1 DEF RegionTypeOK, Playing, At
<1> QED
  BY <1>1, <1>3, <1>4, <1>5, Touched DEF Known

(* A cloud is made.  If it is the one Cthulhu is to come back from, he has
   just died, and there was none. *)
LEMMA Added ==
  ASSUME RegionInv, Playing, UNCHANGED <<loop, dispersed, misplaced, hero>>,
         NEW r \in AnyCloud, regions' = Append(regions, r), r.ttl > 0,
         r.hero <=> hero \in r.cells, Knows(r, place'),
         \A i \in DOMAIN regions : Knows(regions[i], place'),
         r.reviver => Cthulhu \in alive /\ owed', ~r.reviver => owed' = owed,
         owed' => Cthulhu \notin alive' /\ ~On(r.mons, Cthulhu)
  PROVE  Known' /\ Walked' /\ Buried' /\ CthulhuAwaited'
<1> DEFINE n == Len(regions) + 1
<1>1. /\ n \in Nat /\ DOMAIN regions = 1 .. (n - 1) /\ DOMAIN regions' = 1 .. n
      /\ \A i \in DOMAIN regions : regions'[i] = regions[i]
      /\ regions'[n] = r
      /\ \A i \in DOMAIN regions' : i \in DOMAIN regions \/ i = n
  BY DEF RegionInv, RegionTypeOK
<1> HIDE DEF n
<1>2. loop.at = "play" /\ loop' = loop
  BY DEF Playing
<1>3. Known'
  BY <1>1 DEF Known, RegionInv
<1>4. Walked'
  BY <1>2 DEF Walked
<1>5. r.reviver => \A i \in DOMAIN regions : ~regions[i].reviver
  BY DEF RegionInv, Buried
<1>6. Buried'
  <2>1. \A i \in DOMAIN regions' : regions'[i].reviver => owed'
    BY <1>1, <1>5 DEF RegionInv, Buried
  <2>2. \A i, j \in DOMAIN regions' : regions'[i].reviver /\ regions'[j].reviver => i = j
    BY <1>1, <1>5 DEF RegionInv, Buried
  <2>3. ASSUME NEW i \in DOMAIN regions', regions'[i].reviver, regions'[i].ttl = 0,
               NEW k \in DOMAIN regions'
        PROVE  ~On(regions'[k].mons, Cthulhu)
    <3>1. i \in DOMAIN regions /\ ~r.reviver /\ owed
      BY <1>1, <1>5, <2>1, <2>3 DEF AnyCloud
    <3>2. CASE k \in DOMAIN regions
      BY <1>1, <1>2, <2>3, <3>1, <3>2 DEF RegionInv, Buried, Unlisted
    <3> QED
      BY <1>1, <3>1, <3>2
  <2> QED
    BY <1>2, <2>1, <2>2, <2>3 DEF Buried, Unlisted
<1>7. CthulhuAwaited'
  <2>1. CASE r.reviver
    BY <1>1, <2>1 DEF CthulhuAwaited
  <2>2. CASE ~r.reviver
    <3> SUFFICES ASSUME owed, ~dispersed PROVE \E i \in DOMAIN regions' : regions'[i].reviver
      BY <2>2 DEF CthulhuAwaited
    <3>1. PICK i \in DOMAIN regions : regions[i].reviver
      BY DEF CthulhuAwaited, RegionInv
    <3>2. i \in DOMAIN regions' /\ regions'[i].reviver
      BY <1>1, <3>1
    <3> QED
      BY <3>2
  <2> QED
    BY <2>1, <2>2
<1> QED
  BY <1>3, <1>4, <1>6, <1>7

LEMMA CreateStep ==
  ASSUME RegionInv, NEW cells \in Shape, NEW ttl \in Ttl, NEW dmg \in Damage,
         CreateCloud(cells, ttl, dmg)
  PROVE  RegionInv'
<1> USE DEF RegionInv
<1>a. PICK segs \in Segments(alive) :
        regions' = Append(regions, NewCloud(cells, ttl, dmg, alive, segs, FALSE))
  BY DEF CreateCloud
<1> DEFINE r == NewCloud(cells, ttl, dmg, alive, segs, FALSE)
<1>0. r = NewCloud(cells, ttl, dmg, alive, segs, FALSE)
  OBVIOUS
<1>b. regions' = Append(regions, r)
  BY <1>a
<1> HIDE DEF r
<1>1. /\ regions \in Seq(AnyCloud) /\ DOMAIN regions = 1 .. Len(regions) /\ Playing
      /\ UNCHANGED <<hero, place, loop, owed, hit, misplaced, dispersed>>
      /\ regions' = Append(regions, r) /\ clouds < MaxClouds /\ clouds' = clouds + 1
      /\ place \in [Mon -> Cell \cup {Nowhere}]
  <2>1. regions \in Seq(AnyCloud) /\ place \in [Mon -> Cell \cup {Nowhere}]
    BY DEF RegionTypeOK
  <2>2. DOMAIN regions = 1 .. Len(regions)
    BY <2>1
  <2> QED
    BY <1>b, <2>1, <2>2 DEF CreateCloud
<1>2. ttl \in Nat \ {0} /\ dmg \in Nat \ {0}
  BY RegionAssumption
<1>3. /\ r \in AnyCloud /\ r.cells = cells /\ r.ttl = ttl /\ r.reviver = FALSE
      /\ r.hero <=> hero \in cells
      /\ \A m : On(r.mons, m) => m \in alive
      /\ Knows(r, [m \in Mon |-> IF m \in alive THEN place[m] ELSE Nowhere])
  <2> DEFINE b == FALSE
             there == alive
  <2>1. /\ b \in BOOLEAN /\ there \in SUBSET alive /\ segs \in Segments(there)
        /\ r = NewCloud(cells, ttl, dmg, there, segs, b)
    BY <1>0, <1>a
  <2>2. r.reviver = b => r.reviver = FALSE
    OBVIOUS
  <2> HIDE DEF b
  <2> HIDE DEF there
  <2>3. /\ r \in AnyCloud /\ r.cells = cells /\ r.ttl = ttl /\ r.reviver = b
        /\ r.hero <=> hero \in cells
        /\ \A m : On(r.mons, m) => m \in there
        /\ Knows(r, [m \in Mon |-> IF m \in there THEN place[m] ELSE Nowhere])
    BY <1>1, <1>2, <2>1, NewCloudRight
  <2> QED
    BY <2>2, <2>3 DEF there
<1>4. [m \in Mon |-> IF m \in alive THEN place[m] ELSE Nowhere] = place
  BY <1>1 DEF alive
<1>5. owed' => Cthulhu \notin alive' /\ ~On(r.mons, Cthulhu)
  BY <1>1, <1>3 DEF Buried, alive
<1>6. RegionTypeOK'
  <2>1. clouds' \in 0 .. MaxClouds
    BY <1>1, RegionAssumption DEF RegionTypeOK
  <2>2. regions' \in Seq(AnyCloud)
    BY <1>1, <1>3
  <2> QED
    BY <1>1, <2>1, <2>2 DEF RegionTypeOK, Playing, At
<1> QED
  BY <1>1, <1>2, <1>3, <1>4, <1>5, <1>6, Added DEF Known

LEMMA CthulhuDiesStep ==
  ASSUME RegionInv, NEW cells \in Shape, NEW ttl \in Ttl, NEW dmg \in Damage,
         CthulhuDies(cells, ttl, dmg)
  PROVE  RegionInv'
<1> USE DEF RegionInv
<1>a. PICK segs \in Segments(alive \ {Cthulhu}) :
        regions' = Append(regions, NewCloud(cells, ttl, dmg, alive \ {Cthulhu}, segs, TRUE))
  BY DEF CthulhuDies
<1> DEFINE r == NewCloud(cells, ttl, dmg, alive \ {Cthulhu}, segs, TRUE)
<1>0. r = NewCloud(cells, ttl, dmg, alive \ {Cthulhu}, segs, TRUE)
  OBVIOUS
<1>b. regions' = Append(regions, r)
  BY <1>a
<1> HIDE DEF r
<1>1. /\ regions \in Seq(AnyCloud) /\ DOMAIN regions = 1 .. Len(regions) /\ Playing
      /\ UNCHANGED <<hero, loop, hit, misplaced, dispersed>> /\ owed' = TRUE
      /\ regions' = Append(regions, r) /\ clouds < MaxClouds /\ clouds' = clouds + 1
      /\ place \in [Mon -> Cell \cup {Nowhere}] /\ Cthulhu \in alive
      /\ place' = [place EXCEPT ![Cthulhu] = Nowhere]
  <2>1. regions \in Seq(AnyCloud) /\ place \in [Mon -> Cell \cup {Nowhere}]
    BY DEF RegionTypeOK
  <2>2. DOMAIN regions = 1 .. Len(regions)
    BY <2>1
  <2> QED
    BY <1>b, <2>1, <2>2 DEF CthulhuDies
<1>2. ttl \in Nat \ {0} /\ dmg \in Nat \ {0} /\ Cthulhu \in Mon
  BY RegionAssumption
<1>3. /\ r \in AnyCloud /\ r.cells = cells /\ r.ttl = ttl /\ r.reviver = TRUE
      /\ r.hero <=> hero \in cells
      /\ \A m : On(r.mons, m) => m \in alive \ {Cthulhu}
      /\ Knows(r, [m \in Mon |-> IF m \in alive \ {Cthulhu} THEN place[m] ELSE Nowhere])
  <2> DEFINE b == TRUE
             there == alive \ {Cthulhu}
  <2>1. /\ b \in BOOLEAN /\ there \in SUBSET alive /\ segs \in Segments(there)
        /\ r = NewCloud(cells, ttl, dmg, there, segs, b)
    BY <1>0, <1>a
  <2>2. r.reviver = b => r.reviver = TRUE
    OBVIOUS
  <2> HIDE DEF b
  <2> HIDE DEF there
  <2>3. /\ r \in AnyCloud /\ r.cells = cells /\ r.ttl = ttl /\ r.reviver = b
        /\ r.hero <=> hero \in cells
        /\ \A m : On(r.mons, m) => m \in there
        /\ Knows(r, [m \in Mon |-> IF m \in there THEN place[m] ELSE Nowhere])
    BY <1>1, <1>2, <2>1, NewCloudRight
  <2> QED
    BY <2>2, <2>3 DEF there
<1>4. [m \in Mon |-> IF m \in alive \ {Cthulhu} THEN place[m] ELSE Nowhere] = place'
  BY <1>1 DEF alive
<1>5. owed' => Cthulhu \notin alive' /\ ~On(r.mons, Cthulhu)
  BY <1>1, <1>2, <1>3 DEF alive
<1>6. \A i \in DOMAIN regions : Knows(regions[i], place')
  <2>1. \A i \in DOMAIN regions : regions[i] \in AnyCloud /\ Knows(regions[i], place)
    BY <1>1 DEF Known
  <2> QED
    BY <1>1, <1>2, <2>1, Unmoved
<1>7. RegionTypeOK'
  <2>1. clouds' \in 0 .. MaxClouds
    BY <1>1, RegionAssumption DEF RegionTypeOK
  <2>2. regions' \in Seq(AnyCloud)
    BY <1>1, <1>3
  <2>3. place' \in [Mon -> Cell \cup {Nowhere}]
    BY <1>1
  <2> QED
    BY <1>1, <2>1, <2>2, <2>3 DEF RegionTypeOK, Playing, At
<1> QED
  <2>1. r.ttl > 0 /\ Knows(r, place') /\ (r.hero <=> hero \in r.cells) /\ r.reviver = TRUE
    BY <1>2, <1>3, <1>4
  <2>2. Known' /\ Walked' /\ Buried' /\ CthulhuAwaited'
    BY <1>1, <1>3, <1>5, <1>6, <2>1, Added
  <2> QED
    BY <1>7, <2>2

(* Some of the regions, each at most once, in another order. *)
LEMMA Picked ==
  ASSUME NEW rs \in Seq(AnyCloud), NEW n \in Nat, NEW slot \in [1 .. n -> DOMAIN rs]
  PROVE  /\ [i \in 1 .. n |-> rs[slot[i]]] \in Seq(AnyCloud)
         /\ DOMAIN [i \in 1 .. n |-> rs[slot[i]]] = 1 .. n
OBVIOUS

LEMMA RestoreStep ==
  ASSUME RegionInv, RestoreRegions
  PROVE  RegionInv'
<1> USE DEF RegionInv
<1> DEFINE n == Cardinality(Lasting)
<1>1. /\ regions \in Seq(AnyCloud) /\ DOMAIN regions = 1 .. Len(regions) /\ Playing
      /\ UNCHANGED <<hero, place, loop, clouds, owed, hit, misplaced>>
      /\ dispersed' = (dispersed \/ Lasting # DOMAIN regions)
  BY DEF RegionTypeOK, RestoreRegions
<1>2. PICK slot \in Bijection(1 .. n, Lasting) : regions' = [i \in 1 .. n |-> regions[slot[i]]]
  BY DEF RestoreRegions
<1>3. n \in Nat
  <2>1. IsFiniteSet(1 .. Len(regions))
    BY <1>1, FS_Interval
  <2> QED
    BY <1>1, <2>1, FS_Subset, FS_CardinalityType DEF Lasting
<1>4. /\ slot \in [1 .. n -> DOMAIN regions]
      /\ \A i \in 1 .. n : regions[slot[i]].ttl # 0
      /\ \A i, j \in 1 .. n : slot[i] = slot[j] => i = j
      /\ \A k \in Lasting : \E i \in 1 .. n : slot[i] = k
  BY <1>2 DEF Bijection, Injection, Surjection, IsInjective, Lasting
<1> HIDE DEF n
<1>5. regions' \in Seq(AnyCloud) /\ DOMAIN regions' = 1 .. n
      /\ \A i \in 1 .. n : regions'[i] = regions[slot[i]]
  BY <1>1, <1>2, <1>3, <1>4, Picked
<1>6. loop.at = "play" /\ loop' = loop
  BY <1>1 DEF Playing
<1>7. RegionTypeOK'
  <2>1. dispersed' \in BOOLEAN
    BY <1>1 DEF RegionTypeOK
  <2> QED
    BY <1>1, <1>5, <2>1 DEF RegionTypeOK, Playing, At
<1>8. Known'
  BY <1>1, <1>4, <1>5 DEF Known
<1>9. Walked'
  BY <1>6 DEF Walked
<1>10. Buried'
  <2>1. owed' => Cthulhu \notin alive'
    BY <1>1 DEF Buried, alive
  <2>2. \A i \in DOMAIN regions' : regions'[i].reviver => owed'
    BY <1>1, <1>4, <1>5 DEF Buried
  <2>3. \A i, j \in DOMAIN regions' : regions'[i].reviver /\ regions'[j].reviver => i = j
    BY <1>4, <1>5 DEF Buried
  <2>4. \A i \in DOMAIN regions' : regions'[i].ttl # 0
    BY <1>4, <1>5
  <2> QED
    BY <1>6, <2>1, <2>2, <2>3, <2>4 DEF Buried
<1>11. CthulhuAwaited'
  <2> SUFFICES ASSUME owed', ~dispersed' PROVE \E i \in DOMAIN regions' : regions'[i].reviver
    BY DEF CthulhuAwaited
  <2>1. owed /\ ~dispersed /\ Lasting = DOMAIN regions
    BY <1>1
  <2>2. PICK k \in DOMAIN regions : regions[k].reviver
    BY <2>1 DEF CthulhuAwaited
  <2>3. PICK i \in 1 .. n : slot[i] = k
    BY <1>4, <2>1, <2>2
  <2> QED
    BY <1>5, <2>2, <2>3
<1> QED
  BY <1>7, <1>8, <1>9, <1>10, <1>11

-----------------------------------------------------------------------------
(* run_regions.                                                              *)

LEMMA WalkBegins ==
  ASSUME RegionInv, RunRegions
  PROVE  RegionInv'
<1> USE DEF RegionInv
<1>1. /\ loop.at = "play" /\ loop' = At("expire", Len(regions), 0)
      /\ UNCHANGED <<regions, hero, place, clouds, owed, hit, misplaced, dispersed>>
  BY DEF RunRegions, Playing
<1>2. loop'.at = "expire" /\ loop'.i = Len(regions) /\ loop'.j = 0
  BY <1>1 DEF At
<1>3. DOMAIN regions = 1 .. Len(regions) /\ Len(regions) \in Nat
  BY DEF RegionTypeOK
<1>4. RegionTypeOK'
  BY <1>1, <1>2, <1>3 DEF RegionTypeOK
<1>5. Known' /\ CthulhuAwaited'
  BY <1>1 DEF Known, CthulhuAwaited
<1>6. Walked'
  BY <1>1, <1>2, <1>3 DEF Walked
<1>7. Buried'
  BY <1>1, <1>2 DEF Buried, alive, Unlisted
<1> QED
  BY <1>4, <1>5, <1>6, <1>7

(* What removing one region leaves: slot k has what slot From has had. *)
From(rs, i, k) == IF k = i THEN Len(rs) ELSE k

LEMMA Removed ==
  ASSUME NEW rs \in Seq(AnyCloud), NEW i \in 1 .. Len(rs)
  PROVE  /\ SwapRemove(rs, i) \in Seq(AnyCloud)
         /\ DOMAIN SwapRemove(rs, i) = 1 .. (Len(rs) - 1)
         /\ Len(SwapRemove(rs, i)) = Len(rs) - 1
         /\ \A k \in 1 .. (Len(rs) - 1) :
              /\ From(rs, i, k) \in 1 .. Len(rs) /\ From(rs, i, k) # i
              /\ SwapRemove(rs, i)[k] = rs[From(rs, i, k)]
              /\ k >= i => From(rs, i, k) > i
         /\ \A k, l \in 1 .. (Len(rs) - 1) : From(rs, i, k) = From(rs, i, l) => k = l
<1>1. /\ Len(rs) \in Nat /\ SwapRemove(rs, i) \in Seq(AnyCloud)
      /\ Len(SwapRemove(rs, i)) = Len(rs) - 1
      /\ \A k \in 1 .. (Len(rs) - 1) : SwapRemove(rs, i)[k] = rs[From(rs, i, k)]
  <2>1. /\ Len(rs) \in Nat /\ SwapRemove(rs, i) \in Seq(AnyCloud)
        /\ Len(SwapRemove(rs, i)) = Len(rs) - 1
    BY SwapRemoved
  <2>2. \A k \in 1 .. (Len(rs) - 1) : SwapRemove(rs, i)[k] = IF k = i THEN rs[Len(rs)] ELSE rs[k]
    BY SwapRemoved
  <2> QED
    BY <2>1, <2>2 DEF From
<1>2. DOMAIN SwapRemove(rs, i) = 1 .. (Len(rs) - 1)
  BY <1>1
<1>3. \A k \in 1 .. (Len(rs) - 1) :
        From(rs, i, k) \in 1 .. Len(rs) /\ From(rs, i, k) # i /\ (k >= i => From(rs, i, k) > i)
  BY <1>1 DEF From
<1>4. \A k, l \in 1 .. (Len(rs) - 1) : From(rs, i, k) = From(rs, i, l) => k = l
  BY <1>1 DEF From
<1> QED
  BY <1>1, <1>2, <1>3, <1>4

LEMMA StaysSomewhere ==
  ASSUME NEW n \in Nat, NEW rs, Len(rs) = n, NEW i \in 1 .. n, NEW m \in 1 .. n, m # i
  PROVE  \E k \in 1 .. (n - 1) : From(rs, i, k) = m
<1>1. CASE m = n
  <2>1. i \in 1 .. (n - 1) /\ From(rs, i, i) = m
    BY <1>1 DEF From
  <2> QED
    BY <2>1
<1>2. CASE m # n
  <2>1. m \in 1 .. (n - 1) /\ From(rs, i, m) = m
    BY <1>2 DEF From
  <2> QED
    BY <2>1
<1> QED
  BY <1>1, <1>2

LEMMA ExpireKeeps ==
  ASSUME RegionInv, Expire, regions[loop.i].ttl # 0
  PROVE  RegionInv'
<1> USE DEF RegionInv
<1>1. /\ loop.at = "expire" /\ loop.i > 0 /\ loop' = At("expire", loop.i - 1, 0)
      /\ UNCHANGED <<regions, hero, place, clouds, owed, hit, misplaced, dispersed>>
  BY DEF Expire
<1>2. /\ regions \in Seq(AnyCloud) /\ DOMAIN regions = 1 .. Len(regions) /\ Len(regions) \in Nat
      /\ loop.i \in 1 .. Len(regions)
  BY <1>1 DEF RegionTypeOK, At
<1>3. loop'.at = "expire" /\ loop'.i = loop.i - 1
  BY <1>1 DEF At
<1>4. RegionTypeOK'
  BY <1>1, <1>2, <1>3 DEF RegionTypeOK
<1>5. Known' /\ CthulhuAwaited'
  BY <1>1 DEF Known, CthulhuAwaited
<1>6. Walked'
  <2>1. regions[loop.i].ttl > 0
    <3>1. regions[loop.i] \in AnyCloud
      BY <1>2
    <3>2. regions[loop.i].ttl \in Nat
      BY <3>1 DEF AnyCloud
    <3> QED
      BY <3>2
  <2> QED
    BY <1>1, <1>2, <1>3, <2>1 DEF Walked
<1>7. Buried'
  BY <1>1, <1>3 DEF Buried, alive, Unlisted
<1> QED
  BY <1>4, <1>5, <1>6, <1>7

(* The thick cloud is renewed. *)
LEMMA ExpireThins ==
  ASSUME RegionInv, Expire, regions[loop.i].ttl = 0, Thick(regions[loop.i])
  PROVE  RegionInv'
<1> USE DEF RegionInv
<1> DEFINE i == loop.i
           thin == Thin(regions[i])
<1>1. /\ loop.at = "expire" /\ i > 0 /\ loop' = At("expire", i - 1, 0)
      /\ UNCHANGED <<hero, place, clouds, owed, hit, misplaced, dispersed>>
      /\ regions' = [regions EXCEPT ![i] = thin]
  BY DEF Expire, Revives
<1>2. /\ regions \in Seq(AnyCloud) /\ DOMAIN regions = 1 .. Len(regions) /\ Len(regions) \in Nat
      /\ i \in 1 .. Len(regions) /\ regions[i] \in AnyCloud
  BY <1>1 DEF RegionTypeOK, At
<1>3. loop'.at = "expire" /\ loop'.i = i - 1
  BY <1>1 DEF At
<1>4. thin \in AnyCloud /\ thin.ttl = 2 /\ thin.cells = regions[i].cells
      /\ thin.mons = regions[i].mons /\ thin.hero = regions[i].hero
      /\ thin.reviver = regions[i].reviver /\ SameList(regions[i], thin)
  <2>0. \A d \in Nat : d >= 5 => d \div 2 \in Nat \ {0}
    OBVIOUS
  <2>1. regions[i].dmg \div 2 \in Nat \ {0}
    <3>1. regions[i].dmg \in Nat /\ regions[i].dmg >= 5
      BY <1>2 DEF Thick, AnyCloud
    <3> QED
      BY <2>0, <3>1
  <2> QED
    BY <1>2, <2>1 DEF Thin, AnyCloud, SameList
<1> HIDE DEF thin
<1>5. /\ regions' \in Seq(AnyCloud) /\ Len(regions') = Len(regions) /\ DOMAIN regions' = DOMAIN regions
      /\ \A k \in DOMAIN regions : k # i => regions'[k] = regions[k]
      /\ regions'[i] = thin
  BY <1>1, <1>2, <1>4
<1>6. \A k \in DOMAIN regions :
        /\ regions'[k].cells = regions[k].cells /\ regions'[k].mons = regions[k].mons
        /\ regions'[k].hero = regions[k].hero /\ regions'[k].reviver = regions[k].reviver
        /\ SameList(regions[k], regions'[k])
  BY <1>4, <1>5 DEF SameList
<1> HIDE DEF i
<1>7. RegionTypeOK'
  BY <1>1, <1>2, <1>3, <1>5 DEF RegionTypeOK, i
<1>8. Known'
  <2>1. \A k \in DOMAIN regions : Knows(regions'[k], place)
    BY <1>6, SameKnown DEF Known
  <2> QED
    BY <1>1, <1>5, <1>6, <2>1 DEF Known
<1>9. Walked'
  <2>1. \A k \in DOMAIN regions' : k > i - 1 => regions'[k].ttl > 0
    BY <1>1, <1>2, <1>4, <1>5 DEF Walked, i
  <2> QED
    BY <1>3, <2>1 DEF Walked
<1>10. Buried'
  <2>1. \A k \in DOMAIN regions' : regions'[k].ttl = 0 => k # i /\ regions[k].ttl = 0
    BY <1>4, <1>5
  <2>2. \A k \in DOMAIN regions : Unlisted(k)' <=> Unlisted(k)
    BY <1>6 DEF Unlisted
  <2>3. /\ owed' => Cthulhu \notin alive'
        /\ \A k \in DOMAIN regions' : regions'[k].reviver => owed'
        /\ \A k, l \in DOMAIN regions' : regions'[k].reviver /\ regions'[l].reviver => k = l
    BY <1>1, <1>5, <1>6 DEF Buried, alive
  <2>4. \A l \in DOMAIN regions' : regions'[l].reviver /\ regions'[l].ttl = 0 =>
          \A k \in DOMAIN regions' : Unlisted(k)'
    BY <1>1, <1>5, <1>6, <2>1, <2>2 DEF Buried, i
  <2> QED
    BY <1>3, <2>3, <2>4 DEF Buried
<1>11. CthulhuAwaited'
  BY <1>1, <1>5, <1>6 DEF CthulhuAwaited
<1> QED
  BY <1>7, <1>8, <1>9, <1>10, <1>11

LEMMA ExpireRemoves ==
  ASSUME RegionInv, Expire, regions[loop.i].ttl = 0,
         ~Thick(regions[loop.i]), ~regions[loop.i].reviver
  PROVE  RegionInv'
<1> USE DEF RegionInv
<1> DEFINE i == loop.i
<1>1. /\ loop.at = "expire" /\ i > 0 /\ loop' = At("expire", i - 1, 0)
      /\ UNCHANGED <<hero, place, clouds, owed, hit, misplaced, dispersed>>
      /\ regions' = SwapRemove(regions, i)
  BY DEF Expire, Revives
<1>2. /\ regions \in Seq(AnyCloud) /\ DOMAIN regions = 1 .. Len(regions) /\ Len(regions) \in Nat
      /\ i \in 1 .. Len(regions) /\ regions[i] \in AnyCloud
  BY <1>1 DEF RegionTypeOK, At
<1>3. loop'.at = "expire" /\ loop'.i = i - 1
  BY <1>1 DEF At
<1>4. /\ regions' \in Seq(AnyCloud) /\ Len(regions') = Len(regions) - 1
      /\ DOMAIN regions' = 1 .. (Len(regions) - 1)
      /\ \A k \in DOMAIN regions' :
           /\ From(regions, i, k) \in DOMAIN regions /\ From(regions, i, k) # i /\ regions'[k] = regions[From(regions, i, k)]
           /\ k >= i => From(regions, i, k) > i
      /\ \A k, l \in DOMAIN regions' : From(regions, i, k) = From(regions, i, l) => k = l
      /\ \A m \in DOMAIN regions : m # i => \E k \in DOMAIN regions' : From(regions, i, k) = m
  <2> HIDE DEF i
  <2>1. /\ SwapRemove(regions, i) \in Seq(AnyCloud)
        /\ DOMAIN SwapRemove(regions, i) = 1 .. (Len(regions) - 1)
        /\ Len(SwapRemove(regions, i)) = Len(regions) - 1
    BY <1>2, Removed
  <2>2. \A k \in 1 .. (Len(regions) - 1) :
          /\ From(regions, i, k) \in 1 .. Len(regions) /\ From(regions, i, k) # i
          /\ SwapRemove(regions, i)[k] = regions[From(regions, i, k)]
          /\ k >= i => From(regions, i, k) > i
    BY <1>2, Removed
  <2>3. \A k, l \in 1 .. (Len(regions) - 1) : From(regions, i, k) = From(regions, i, l) => k = l
    BY <1>2 DEF From
  <2>4. \A m \in 1 .. Len(regions) :
          m # i => \E k \in 1 .. (Len(regions) - 1) : From(regions, i, k) = m
    <3>1. Len(regions) \in Nat /\ i \in 1 .. Len(regions)
      BY <1>2
    <3> TAKE m \in 1 .. Len(regions)
    <3> QED
      BY <3>1, StaysSomewhere
  <2> QED
    BY <1>1, <1>2, <2>1, <2>2, <2>3, <2>4
<1> HIDE DEF i
<1>5. RegionTypeOK'
  <2>1. i - 1 \in 0 .. Len(regions')
    BY <1>2, <1>4
  <2>2. loop'.at = "expire" /\ loop'.i \in 0 .. Len(regions')
    BY <1>3, <2>1
  <2> QED
    BY <1>1, <1>4, <2>2 DEF RegionTypeOK
<1>6. Known'
  BY <1>1, <1>4 DEF Known
<1>7. Walked'
  <2>1. \A k \in DOMAIN regions' : k > i - 1 => regions'[k].ttl > 0
    BY <1>1, <1>2, <1>4 DEF Walked, i
  <2> QED
    BY <1>3, <2>1 DEF Walked
<1>8. Buried'
  <2>1. owed' => Cthulhu \notin alive'
    BY <1>1 DEF Buried, alive
  <2>2. \A k \in DOMAIN regions' : regions'[k].reviver => owed'
    BY <1>1, <1>4 DEF Buried
  <2>3. \A k, l \in DOMAIN regions' : regions'[k].reviver /\ regions'[l].reviver => k = l
    <3> SUFFICES ASSUME NEW k \in DOMAIN regions', NEW l \in DOMAIN regions',
                        regions'[k].reviver, regions'[l].reviver
                 PROVE  From(regions, i, k) = From(regions, i, l)
      BY <1>4
    <3> QED
      BY <1>4 DEF Buried
  <2>4. ASSUME NEW l \in DOMAIN regions', regions'[l].reviver, regions'[l].ttl = 0,
               NEW k \in DOMAIN regions'
        PROVE  Unlisted(k)'
    <3>1. \A m \in DOMAIN regions : Unlisted(m)
      BY <1>1, <1>4, <2>4 DEF Buried, i
    <3> QED
      BY <1>4, <3>1 DEF Unlisted
  <2> QED
    BY <1>3, <2>1, <2>2, <2>3, <2>4 DEF Buried
<1>9. CthulhuAwaited'
  <2> SUFFICES ASSUME owed', ~dispersed' PROVE \E k \in DOMAIN regions' : regions'[k].reviver
    BY DEF CthulhuAwaited
  <2>1. PICK m \in DOMAIN regions : regions[m].reviver
    BY <1>1 DEF CthulhuAwaited
  <2>2. PICK k \in DOMAIN regions' : From(regions, i, k) = m
    BY <1>4, <2>1 DEF i
  <2> QED
    BY <1>4, <2>1, <2>2
<1> QED
  BY <1>5, <1>6, <1>7, <1>8, <1>9

(* Cthulhu comes back, or finds no room. *)
LEMMA ExpireRevives ==
  ASSUME RegionInv, Expire, regions[loop.i].ttl = 0, Revives(regions[loop.i])
  PROVE  RegionInv'
<1> USE DEF RegionInv
<1> DEFINE i == loop.i
           rs == SwapRemove(regions, i)
<1>1. /\ loop.at = "expire" /\ i > 0 /\ loop' = At("expire", i - 1, 0)
      /\ UNCHANGED <<hero, clouds, hit, misplaced, dispersed>> /\ owed' = FALSE
      /\ Back(rs)
  BY DEF Expire
<1>2. /\ regions \in Seq(AnyCloud) /\ DOMAIN regions = 1 .. Len(regions) /\ Len(regions) \in Nat
      /\ i \in 1 .. Len(regions) /\ regions[i] \in AnyCloud
      /\ place \in [Mon -> Cell \cup {Nowhere}] /\ Cthulhu \in Mon
  BY <1>1, RegionAssumption DEF RegionTypeOK, At
<1>3. loop'.at = "expire" /\ loop'.i = i - 1
  BY <1>1 DEF At
<1>4. /\ rs \in Seq(AnyCloud) /\ Len(rs) = Len(regions) - 1 /\ DOMAIN rs = 1 .. (Len(regions) - 1)
      /\ \A k \in DOMAIN rs :
           /\ From(regions, i, k) \in DOMAIN regions /\ From(regions, i, k) # i /\ rs[k] = regions[From(regions, i, k)]
           /\ k >= i => From(regions, i, k) > i
  <2> HIDE DEF i
  <2>1. /\ SwapRemove(regions, i) \in Seq(AnyCloud)
        /\ DOMAIN SwapRemove(regions, i) = 1 .. (Len(regions) - 1)
        /\ Len(SwapRemove(regions, i)) = Len(regions) - 1
    BY <1>2, Removed
  <2>2. \A k \in 1 .. (Len(regions) - 1) :
          /\ From(regions, i, k) \in 1 .. Len(regions) /\ From(regions, i, k) # i
          /\ SwapRemove(regions, i)[k] = regions[From(regions, i, k)]
          /\ k >= i => From(regions, i, k) > i
    BY <1>2, Removed
  <2> QED
    BY <1>2, <2>1, <2>2 DEF rs
<1>5. regions[i].reviver /\ regions[i].ttl = 0
  BY DEF Revives
<1> HIDE DEF i
<1> HIDE DEF rs
<1>6. /\ \A k \in DOMAIN rs : Knows(rs[k], place) /\ ~On(rs[k].mons, Cthulhu)
      /\ \A k \in DOMAIN rs : ~rs[k].reviver
      /\ \A k \in DOMAIN rs : ~misplaced => (rs[k].hero <=> hero \in rs[k].cells)
      /\ \A k \in DOMAIN rs : k >= i => rs[k].ttl > 0
  <2>1. \A k \in DOMAIN regions : Unlisted(k)
    BY <1>1, <1>2, <1>5 DEF Buried
  <2>2. \A k \in DOMAIN rs : ~rs[k].reviver
    BY <1>2, <1>4, <1>5 DEF Buried
  <2>3. \A k \in DOMAIN rs : k >= i => rs[k].ttl > 0
    BY <1>1, <1>4 DEF Walked, i
  <2> QED
    BY <1>4, <2>1, <2>2, <2>3 DEF Known, Unlisted
<1>7. /\ regions' \in Seq(AnyCloud) /\ DOMAIN regions' = DOMAIN rs /\ Len(regions') = Len(rs)
      /\ place' \in [Mon -> Cell \cup {Nowhere}]
      /\ \A k \in DOMAIN rs : Alike(rs[k], regions'[k]) /\ regions'[k].hero = rs[k].hero
                              /\ Knows(regions'[k], place')
  <2>1. CASE UNCHANGED place /\ regions' = rs
    <3>1. \A k \in DOMAIN rs : rs[k] \in AnyCloud
      BY <1>4
    <3> QED
      BY <1>2, <1>4, <1>6, <2>1, <3>1 DEF Alike
  <2>2. ASSUME NEW p \in Cell, place' = [place EXCEPT ![Cthulhu] = p],
               regions' = Unnoticed(rs, Cthulhu, p)
        PROVE  <1>7
    <3>a. /\ rs \in Seq(AnyCloud) /\ place \in [Mon -> Cell \cup {Nowhere}] /\ Cthulhu \in Mon
          /\ \A k \in DOMAIN rs : Knows(rs[k], place) /\ ~On(rs[k].mons, Cthulhu)
      BY <1>2, <1>4, <1>6
    <3>b. LET told == Unnoticed(rs, Cthulhu, p) IN
            /\ told \in Seq(AnyCloud) /\ Len(told) = Len(rs)
            /\ \A k \in DOMAIN rs : Alike(rs[k], told[k]) /\ told[k].hero = rs[k].hero
                                    /\ Knows(told[k], [place EXCEPT ![Cthulhu] = p])
      BY <3>a, UnnoticedRight
    <3>1. /\ regions' \in Seq(AnyCloud) /\ Len(regions') = Len(rs)
          /\ \A k \in DOMAIN rs : Alike(rs[k], regions'[k]) /\ regions'[k].hero = rs[k].hero
                                  /\ Knows(regions'[k], place')
      BY <2>2, <3>b
    <3>2. DOMAIN regions' = DOMAIN rs
      BY <1>4, <3>1
    <3> QED
      BY <1>2, <2>2, <3>1, <3>2
  <2> QED
    BY <1>1, <2>1, <2>2 DEF Back
<1>8. RegionTypeOK'
  <2>1. i - 1 \in 0 .. Len(regions')
    BY <1>2, <1>4, <1>7
  <2>2. loop'.at = "expire" /\ loop'.i \in 0 .. Len(regions')
    BY <1>3, <2>1
  <2> QED
    BY <1>1, <1>7, <2>2 DEF RegionTypeOK
<1>9. Known'
  BY <1>1, <1>6, <1>7 DEF Known, Alike
<1>10. Walked'
  <2>1. \A k \in DOMAIN regions' : k > i - 1 => regions'[k].ttl > 0
    BY <1>2, <1>4, <1>6, <1>7 DEF Alike
  <2> QED
    BY <1>3, <2>1 DEF Walked
<1>11. Buried'
  BY <1>1, <1>3, <1>6, <1>7 DEF Buried, Alike
<1>12. CthulhuAwaited'
  BY <1>1 DEF CthulhuAwaited
<1> QED
  BY <1>8, <1>9, <1>10, <1>11, <1>12

LEMMA ExpireStep == RegionInv /\ Expire => RegionInv'
BY ExpireKeeps, ExpireThins, ExpireRemoves, ExpireRevives DEF Revives

LEMMA AgeStep ==
  ASSUME RegionInv, ExpireDone \/ Age \/ AgeDone
  PROVE  RegionInv'
<1> USE DEF RegionInv
<1>0. /\ regions \in Seq(AnyCloud) /\ DOMAIN regions = 1 .. Len(regions) /\ Len(regions) \in Nat
      /\ \A k \in DOMAIN regions : regions[k] \in AnyCloud /\ regions[k].ttl \in Nat
                                   /\ regions[k].mons \in Seq(Mon)
  <2>1. /\ regions \in Seq(AnyCloud) /\ DOMAIN regions = 1 .. Len(regions) /\ Len(regions) \in Nat
        /\ \A k \in DOMAIN regions : regions[k] \in AnyCloud
    BY DEF RegionTypeOK
  <2> QED
    BY <2>1 DEF AnyCloud
<1>1. CASE ExpireDone
  <2>1. /\ loop.at = "expire" /\ loop.i = 0 /\ loop'.at = "age" /\ loop'.i = 1
        /\ UNCHANGED <<regions, hero, place, clouds, owed, hit, misplaced, dispersed>>
    BY <1>1 DEF ExpireDone, At
  <2>2. RegionTypeOK'
    BY <1>0, <2>1 DEF RegionTypeOK
  <2>3. Known' /\ CthulhuAwaited'
    BY <2>1 DEF Known, CthulhuAwaited
  <2>4. Walked'
    BY <1>0, <2>1 DEF Walked
  <2>5. Buried'
    BY <1>0, <2>1 DEF Buried, alive
  <2> QED
    BY <2>2, <2>3, <2>4, <2>5
<1>2. CASE AgeDone
  <2>1. /\ loop.at = "age" /\ loop.i > Len(regions) /\ loop' = At("play", 0, 0) /\ loop'.at = "play"
        /\ UNCHANGED <<regions, hero, place, clouds, owed, hit, misplaced, dispersed>>
    BY <1>2 DEF AgeDone, At
  <2>2. RegionTypeOK'
    BY <2>1 DEF RegionTypeOK
  <2>3. Known' /\ CthulhuAwaited'
    BY <2>1 DEF Known, CthulhuAwaited
  <2>4. Walked'
    BY <2>1 DEF Walked
  <2>5. Buried'
    <3>1. owed => \A k \in DOMAIN regions : Unlisted(k)
      <4>1. loop.i \in Nat
        BY <1>0, <2>1 DEF RegionTypeOK, At
      <4>2. \A k \in DOMAIN regions : k < loop.i
        BY <1>0, <2>1, <4>1
      <4> QED
        BY <2>1, <4>2 DEF Buried
    <3> QED
      BY <2>1, <3>1 DEF Buried, alive, Unlisted
  <2> QED
    BY <2>2, <2>3, <2>4, <2>5
<1>3. CASE Age
  <2> DEFINE i == loop.i
  <2>1. /\ loop.at = "age" /\ i <= Len(regions) /\ loop'.at = "mons" /\ loop'.i = i /\ loop'.j = 1
        /\ UNCHANGED <<hero, place, clouds, owed, hit, misplaced, dispersed>>
        /\ regions' = IF regions[i].ttl > 0 THEN [regions EXCEPT ![i].ttl = @ - 1] ELSE regions
    BY <1>3 DEF Age, At
  <2>2. i \in 1 .. Len(regions) /\ regions[i].ttl > 0
    <3>1. i \in 1 .. Len(regions) + 1
      BY <2>1 DEF RegionTypeOK, At
    <3> QED
      BY <1>0, <2>1, <3>1 DEF Walked
  <2> DEFINE old == [regions[i] EXCEPT !.ttl = regions[i].ttl - 1]
  <2>3. regions' = [regions EXCEPT ![i] = old]
    BY <2>1, <2>2
  <2>4. old \in AnyCloud /\ old.cells = regions[i].cells
        /\ old.mons = regions[i].mons /\ old.hero = regions[i].hero
        /\ old.reviver = regions[i].reviver /\ SameList(regions[i], old)
    <3>1. regions[i] \in AnyCloud /\ regions[i].ttl - 1 \in Nat
      BY <1>0, <2>2
    <3> QED
      BY <3>1 DEF AnyCloud, SameList
  <2> HIDE DEF old
  <2>5. /\ regions' \in Seq(AnyCloud) /\ Len(regions') = Len(regions) /\ DOMAIN regions' = DOMAIN regions
        /\ \A k \in DOMAIN regions : k # i => regions'[k] = regions[k]
        /\ regions'[i] = old
    BY <1>0, <2>2, <2>3, <2>4
  <2>6. \A k \in DOMAIN regions :
          /\ regions'[k].cells = regions[k].cells /\ regions'[k].mons = regions[k].mons
          /\ regions'[k].hero = regions[k].hero /\ regions'[k].reviver = regions[k].reviver
          /\ SameList(regions[k], regions'[k])
    BY <2>4, <2>5 DEF SameList
  <2> HIDE DEF i
  <2>7. RegionTypeOK'
    <3>1. loop'.i \in 1 .. Len(regions') /\ loop'.j \in 1 .. Len(regions'[loop'.i].mons) + 1
      BY <1>0, <2>1, <2>2, <2>5, <2>6
    <3> QED
      BY <2>1, <2>5, <3>1 DEF RegionTypeOK
  <2>8. Known'
    <3>1. \A k \in DOMAIN regions : Knows(regions'[k], place)
      BY <2>6, SameKnown DEF Known
    <3> QED
      BY <2>1, <2>5, <2>6, <3>1 DEF Known
  <2>9. Walked'
    <3>1. \A k \in DOMAIN regions' : k > i => regions'[k].ttl > 0
      BY <1>0, <2>1, <2>2, <2>5 DEF Walked, i
    <3>2. \A k \in DOMAIN regions'[loop'.i].mons : ~(k < loop'.j)
      BY <1>0, <2>1, <2>2, <2>6
    <3> QED
      BY <2>1, <3>1, <3>2 DEF Walked
  <2>10. Buried'
    <3>1. /\ owed' => Cthulhu \notin alive'
          /\ \A k \in DOMAIN regions' : regions'[k].reviver => owed'
          /\ \A k, l \in DOMAIN regions' : regions'[k].reviver /\ regions'[l].reviver => k = l
      BY <2>1, <2>5, <2>6 DEF Buried, alive
    <3>2. owed' => \A k \in DOMAIN regions' : k < i => Unlisted(k)'
      BY <2>1, <2>5, <2>6 DEF Buried, Unlisted, i
    <3>3. \A k \in DOMAIN regions'[loop'.i].mons : ~(k < loop'.j)
      BY <1>0, <2>1, <2>2, <2>6
    <3> QED
      BY <2>1, <3>1, <3>2, <3>3 DEF Buried
  <2>11. CthulhuAwaited'
    BY <2>1, <2>5, <2>6 DEF CthulhuAwaited
  <2> QED
    BY <2>7, <2>8, <2>9, <2>10, <2>11
<1> QED
  BY <1>1, <1>2, <1>3

(* Where the inner loop stands. *)
LEMMA AtMons ==
  ASSUME RegionInv, loop.at = "mons"
  PROVE  /\ regions \in Seq(AnyCloud) /\ DOMAIN regions = 1 .. Len(regions) /\ Len(regions) \in Nat
         /\ loop.i \in DOMAIN regions /\ regions[loop.i] \in AnyCloud
         /\ regions[loop.i].mons \in Seq(Mon) /\ Len(regions[loop.i].mons) \in Nat
         /\ DOMAIN regions[loop.i].mons = 1 .. Len(regions[loop.i].mons)
         /\ loop.j \in 1 .. Len(regions[loop.i].mons) + 1
         /\ place \in [Mon -> Cell \cup {Nowhere}]
<1>1. /\ regions \in Seq(AnyCloud) /\ DOMAIN regions = 1 .. Len(regions) /\ Len(regions) \in Nat
      /\ loop.i \in 1 .. Len(regions) /\ loop.j \in 1 .. Len(regions[loop.i].mons) + 1
      /\ place \in [Mon -> Cell \cup {Nowhere}]
  BY DEF RegionInv, RegionTypeOK, At
<1>2. regions[loop.i] \in AnyCloud
  BY <1>1
<1>3. regions[loop.i].mons \in Seq(Mon)
  BY <1>2 DEF AnyCloud
<1> QED
  BY <1>1, <1>2, <1>3

LEMMA NextRegionStep ==
  ASSUME RegionInv, NextRegion
  PROVE  RegionInv'
<1> USE DEF RegionInv
<1>1. /\ loop.at = "mons" /\ loop.j > Len(regions[loop.i].mons)
      /\ loop'.at = "age" /\ loop'.i = loop.i + 1 /\ hit' = {}
      /\ UNCHANGED <<regions, hero, place, clouds, owed, misplaced, dispersed>>
  BY DEF NextRegion, At
<1>2. /\ regions \in Seq(AnyCloud) /\ DOMAIN regions = 1 .. Len(regions) /\ Len(regions) \in Nat
      /\ loop.i \in DOMAIN regions
      /\ Len(regions[loop.i].mons) \in Nat
      /\ DOMAIN regions[loop.i].mons = 1 .. Len(regions[loop.i].mons)
      /\ loop.j \in 1 .. Len(regions[loop.i].mons) + 1
  BY <1>1, AtMons
<1>3. RegionTypeOK'
  BY <1>1, <1>2 DEF RegionTypeOK
<1>4. Known' /\ CthulhuAwaited'
  BY <1>1 DEF Known, CthulhuAwaited
<1>5. Walked'
  BY <1>1, <1>2 DEF Walked
<1>6. Buried'
  <2>1. owed => Unlisted(loop.i)
    BY <1>1, <1>2 DEF Buried, Unlisted, On
  <2>2. owed => \A k \in DOMAIN regions : k < loop.i + 1 => Unlisted(k)
    BY <1>1, <1>2, <2>1 DEF Buried
  <2> QED
    BY <1>1, <2>2 DEF Buried, alive, Unlisted
<1> QED
  BY <1>3, <1>4, <1>5, <1>6

LEMMA SurvivesStep ==
  ASSUME RegionInv, LoopOK, Survives
  PROVE  RegionInv'
<1> USE DEF RegionInv
<1> DEFINE mons == regions[loop.i].mons
<1>1. /\ loop.at = "mons" /\ loop.j <= Len(mons) /\ mons[loop.j] \in alive
      /\ hit' = hit \cup {mons[loop.j]}
      /\ UNCHANGED <<regions, hero, place, clouds, owed, misplaced, dispersed>>
      /\ loop' = [loop EXCEPT !.j = @ + 1]
  BY DEF Survives, Breathing, Breather
<1>2. /\ loop.i \in DOMAIN regions /\ mons \in Seq(Mon) /\ Len(mons) \in Nat
      /\ DOMAIN mons = 1 .. Len(mons) /\ loop.j \in 1 .. Len(mons) + 1
      /\ DOMAIN regions = 1 .. Len(regions)
  BY <1>1, AtMons
<1>3. loop'.at = "mons" /\ loop'.i = loop.i /\ loop'.j = loop.j + 1
  BY <1>1 DEF LoopOK
<1>4. RegionTypeOK'
  <2>1. hit' \subseteq Mon
    BY <1>1, <1>2 DEF RegionTypeOK, alive
  <2>2. loop'.i \in 1 .. Len(regions') /\ loop'.j \in 1 .. Len(regions'[loop'.i].mons) + 1
    BY <1>1, <1>2, <1>3
  <2> QED
    BY <1>1, <1>3, <2>1, <2>2 DEF RegionTypeOK
<1>5. Known' /\ CthulhuAwaited'
  BY <1>1 DEF Known, CthulhuAwaited
<1>6. Walked'
  <2>1. \A k \in DOMAIN mons : k < loop.j + 1 => mons[k] \in hit'
    BY <1>1, <1>2 DEF Walked
  <2> QED
    BY <1>1, <1>3, <2>1 DEF Walked
<1>7. Buried'
  <2>1. owed => \A k \in DOMAIN mons : k < loop.j + 1 => mons[k] # Cthulhu
    BY <1>1, <1>2 DEF Buried
  <2> HIDE DEF mons
  <2>2. /\ owed' => Cthulhu \notin alive'
        /\ \A k \in DOMAIN regions' : regions'[k].reviver => owed'
        /\ \A k, l \in DOMAIN regions' : regions'[k].reviver /\ regions'[l].reviver => k = l
        /\ owed' => \A k \in DOMAIN regions' : k < loop'.i => Unlisted(k)'
    BY <1>1, <1>3 DEF Buried, alive, Unlisted
  <2> QED
    BY <1>1, <1>3, <2>1, <2>2 DEF Buried, mons
<1> QED
  BY <1>4, <1>5, <1>6, <1>7

(* Slot j is filled with the last one; whoever was in it is dead. *)
LEMMA DropSlotStep ==
  ASSUME RegionInv, Breathing, DropSlot, UNCHANGED <<hero, clouds, owed, hit, misplaced, dispersed>>,
         place' \in [Mon -> Cell \cup {Nowhere}], place'[Breather] = Nowhere,
         \A m \in Mon : m # Breather => place'[m] = place[m],
         owed => Cthulhu \notin alive'
  PROVE  RegionInv'
<1> USE DEF RegionInv
<1> DEFINE i == loop.i
           j == loop.j
           mons == regions[i].mons
           left == SwapRemove(mons, j)
           dropped == Strike(regions[i], j)
<1>1. /\ loop.at = "mons" /\ j <= Len(mons) /\ loop' = loop /\ Breather = mons[j]
      /\ regions' = [regions EXCEPT ![i] = dropped]
  BY DEF Breathing, DropSlot, Breather
<1>2. /\ regions \in Seq(AnyCloud) /\ DOMAIN regions = 1 .. Len(regions) /\ Len(regions) \in Nat
      /\ i \in DOMAIN regions /\ regions[i] \in AnyCloud
      /\ mons \in Seq(Mon) /\ Len(mons) \in Nat /\ DOMAIN mons = 1 .. Len(mons)
      /\ j \in 1 .. Len(mons)
  BY <1>1, AtMons
<1> HIDE DEF i
<1> HIDE DEF j
<1>3. /\ left \in Seq(Mon) /\ Len(left) = Len(mons) - 1
      /\ \A k \in 1 .. Len(mons) - 1 : left[k] = IF k = j THEN mons[Len(mons)] ELSE mons[k]
  BY <1>2, SwapRemoved
<1>4. \A m : /\ AtMostOnce(mons, m) => AtMostOnce(left, m)
             /\ mons[j] # m => (On(left, m) <=> On(mons, m))
             /\ On(left, m) => On(mons, m)
  BY <1>2, TakenOff
<1> HIDE DEF left
<1>5. DOMAIN left = 1 .. Len(mons) - 1
  BY <1>2, <1>3
<1>6. /\ dropped \in AnyCloud /\ dropped.mons = left
      /\ dropped.cells = regions[i].cells /\ dropped.hero = regions[i].hero
      /\ dropped.reviver = regions[i].reviver /\ dropped.stray = regions[i].stray
      /\ dropped.ttl = regions[i].ttl
      /\ \A c \in Mon : c # Breather => (c \in dropped.doubled <=> c \in regions[i].doubled)
      /\ Breather \in Mon
      /\ Breather \notin dropped.doubled => AtMostOnce(dropped.mons, Breather)
  <2>1. Breather \in Mon /\ mons[j] = Breather
    BY <1>1, <1>2
  <2>2. /\ Alike(regions[i], dropped) /\ dropped.hero = regions[i].hero
        /\ dropped.stray = regions[i].stray /\ dropped.mons = left
        /\ \A c \in Mon \ {Breather} : c \in dropped.doubled <=> c \in regions[i].doubled
        /\ AtMostOnce(mons, Breather) \/ ~On(dropped.mons, Breather) =>
             AtMostOnce(dropped.mons, Breather)
        /\ Breather \notin dropped.doubled =>
             Breather \notin regions[i].doubled \/ ~On(dropped.mons, Breather)
    BY <1>2, <2>1, Struck DEF left
  <2>3. Breather \notin regions[i].doubled => AtMostOnce(mons, Breather)
    BY <1>2, <2>1 DEF Known, Knows
  <2> QED
    BY <2>1, <2>2, <2>3 DEF Alike
<1> HIDE DEF dropped
<1>7. /\ regions' \in Seq(AnyCloud) /\ Len(regions') = Len(regions) /\ DOMAIN regions' = DOMAIN regions
      /\ \A k \in DOMAIN regions : k # i => regions'[k] = regions[k]
      /\ regions'[i] = dropped
  BY <1>1, <1>2, <1>6
<1>8. \A k \in DOMAIN regions :
        /\ regions'[k].cells = regions[k].cells /\ regions'[k].ttl = regions[k].ttl
        /\ regions'[k].hero = regions[k].hero /\ regions'[k].reviver = regions[k].reviver
        /\ regions'[k].stray = regions[k].stray
        /\ \A m \in Mon : m # Breather => (m \in regions'[k].doubled <=> m \in regions[k].doubled)
        /\ Breather \notin regions'[k].doubled => AtMostOnce(regions'[k].mons, Breather)
        /\ \A m : /\ AtMostOnce(regions[k].mons, m) => AtMostOnce(regions'[k].mons, m)
                  /\ m # Breather => (On(regions'[k].mons, m) <=> On(regions[k].mons, m))
                  /\ On(regions'[k].mons, m) => On(regions[k].mons, m)
  <2> TAKE k \in DOMAIN regions
  <2>1. CASE k = i
    BY <1>1, <1>4, <1>6, <1>7, <2>1
  <2>2. CASE k # i
    BY <1>6, <1>7, <2>2 DEF Known, Knows
  <2> QED
    BY <2>1, <2>2
<1>9. RegionTypeOK'
  <2>1. i \in 1 .. Len(regions') /\ j \in 1 .. Len(regions'[i].mons) + 1
    BY <1>2, <1>3, <1>6, <1>7
  <2> QED
    BY <1>1, <1>7, <2>1 DEF RegionTypeOK, i, j
<1>10. Known'
  <2>1. ASSUME NEW k \in DOMAIN regions, NEW m \in Mon \ regions'[k].doubled
        PROVE  /\ AtMostOnce(regions'[k].mons, m)
               /\ m \notin regions'[k].stray /\ place'[m] # Nowhere =>
                    (On(regions'[k].mons, m) <=> place'[m] \in regions'[k].cells)
    <3>1. CASE m = Breather
      BY <1>8, <2>1, <3>1
    <3>2. CASE m # Breather
      <4>1. m \notin regions[k].doubled /\ place'[m] = place[m]
            /\ regions'[k].cells = regions[k].cells /\ regions'[k].stray = regions[k].stray
        BY <1>8, <2>1, <3>2
      <4>2. /\ AtMostOnce(regions[k].mons, m)
            /\ m \notin regions[k].stray /\ place[m] # Nowhere =>
                 (On(regions[k].mons, m) <=> place[m] \in regions[k].cells)
        BY <4>1 DEF Known, Knows
      <4>3. /\ AtMostOnce(regions[k].mons, m) => AtMostOnce(regions'[k].mons, m)
            /\ On(regions'[k].mons, m) <=> On(regions[k].mons, m)
        BY <1>8, <3>2
      <4> QED
        BY <4>1, <4>2, <4>3
    <3> QED
      BY <3>1, <3>2
  <2>2. \A k \in DOMAIN regions : Knows(regions'[k], place')
    BY <2>1 DEF Knows
  <2> QED
    BY <1>7, <1>8, <2>2 DEF Known
<1>11. Walked'
  <2>a. \A k \in DOMAIN mons : k < j => mons[k] \in hit
    BY <1>1 DEF Walked, i, j
  <2>b. \A k \in DOMAIN left : k < j => k \in DOMAIN mons /\ left[k] = mons[k]
    BY <1>2, <1>3, <1>5
  <2>1. \A k \in DOMAIN left : k < j => left[k] \in hit
    BY <2>a, <2>b
  <2> QED
    BY <1>1, <1>6, <1>7, <1>8, <2>1 DEF Walked, i, j
<1>12. Buried'
  <2>a. owed => \A k \in DOMAIN mons : k < j => mons[k] # Cthulhu
    BY <1>1 DEF Buried, i, j
  <2>b. \A k \in DOMAIN left : k < j => k \in DOMAIN mons /\ left[k] = mons[k]
    BY <1>2, <1>3, <1>5
  <2>1. owed => \A k \in DOMAIN left : k < j => left[k] # Cthulhu
    BY <2>a, <2>b
  <2>2. /\ owed' => Cthulhu \notin alive'
        /\ \A k \in DOMAIN regions' : regions'[k].reviver => owed'
        /\ \A k, l \in DOMAIN regions' : regions'[k].reviver /\ regions'[l].reviver => k = l
    BY <1>7, <1>8 DEF Buried
  <2>3. owed' => \A k \in DOMAIN regions' : k < i => Unlisted(k)'
    BY <1>1, <1>7, <1>8 DEF Buried, Unlisted, i
  <2> QED
    BY <1>1, <1>6, <1>7, <2>1, <2>2, <2>3 DEF Buried, i, j
<1>13. CthulhuAwaited'
  BY <1>7, <1>8 DEF CthulhuAwaited
<1> QED
  BY <1>9, <1>10, <1>11, <1>12, <1>13

LEMMA BreatherDies ==
  ASSUME RegionInv, Absent \/ Chokes
  PROVE  RegionInv'
<1>1. Breathing /\ DropSlot /\ UNCHANGED <<hero, clouds, owed, hit, misplaced, dispersed>>
  BY DEF Absent, Chokes
<1>2. Breather \in Mon /\ place \in [Mon -> Cell \cup {Nowhere}]
  <2>1. loop.at = "mons" /\ loop.j <= Len(regions[loop.i].mons)
    BY <1>1 DEF Breathing
  <2>2. /\ regions[loop.i].mons \in Seq(Mon) /\ Len(regions[loop.i].mons) \in Nat
        /\ loop.j \in 1 .. Len(regions[loop.i].mons) + 1
        /\ place \in [Mon -> Cell \cup {Nowhere}]
    BY <2>1, AtMons
  <2> QED
    BY <2>1, <2>2 DEF Breather
<1>3. owed => Cthulhu \notin alive
  BY DEF RegionInv, Buried
<1>4. CASE Absent
  <2>1. Breather \notin alive /\ place' = place
    BY <1>4 DEF Absent
  <2>2. place[Breather] = Nowhere /\ (owed => Cthulhu \notin alive')
    BY <1>2, <1>3, <2>1 DEF alive
  <2> QED
    BY <1>1, <1>2, <2>1, <2>2, DropSlotStep
<1>5. CASE Chokes
  <2>1. place' = [place EXCEPT ![Breather] = Nowhere]
    BY <1>5 DEF Chokes
  <2>2. /\ place' \in [Mon -> Cell \cup {Nowhere}] /\ place'[Breather] = Nowhere
        /\ \A m \in Mon : m # Breather => place'[m] = place[m]
    BY <1>2, <2>1
  <2>3. owed => Cthulhu \notin alive'
    BY <1>2, <1>3, <2>1 DEF alive
  <2> QED
    BY <1>1, <2>2, <2>3, DropSlotStep
<1> QED
  BY <1>4, <1>5

-----------------------------------------------------------------------------

LEMMA LoopStep == RegionTypeOK /\ LoopOK /\ [RegionNext]_regionVars => LoopOK'
<1> SUFFICES ASSUME RegionTypeOK, LoopOK, [RegionNext]_regionVars PROVE LoopOK'
  OBVIOUS
<1> USE DEF LoopOK
<1>1. CASE RunRegions
  <2>1. Len(regions) \in Nat
    BY DEF RegionTypeOK
  <2> QED
    BY <1>1, <2>1 DEF RunRegions, At
<1>2. CASE RegionStep
  BY <1>2 DEF RegionStep, Expire, ExpireDone, Age, AgeDone, NextRegion, Absent, Survives, Chokes,
              DropSlot, At
<1>3. CASE UNCHANGED loop
  BY <1>3
<1>4. RunRegions \/ RegionStep \/ UNCHANGED loop
  BY DEF RegionNext, CreateCloud, CthulhuDies, HeroMoves, HeroStopped, HeroTeleports, HeroCarried,
         MonMoves, MonArrives, MonBorn, HeroSwaps, MonGone, RestoreRegions, regionVars
<1> QED
  BY <1>1, <1>2, <1>3, <1>4

LEMMA RegionInvInit == RegionInit => RegionInv /\ LoopOK
<1> SUFFICES ASSUME RegionInit PROVE RegionInv /\ LoopOK
  OBVIOUS
<1>1. /\ regions = <<>> /\ DOMAIN regions = {} /\ loop.at = "play" /\ LoopOK
      /\ regions \in Seq(AnyCloud)
  BY DEF RegionInit, At, LoopOK
<1>2. RegionTypeOK
  <2>1. hero \in Cell /\ place \in [Mon -> Cell \cup {Nowhere}]
    BY DEF RegionInit
  <2>2. clouds \in 0 .. MaxClouds
    BY RegionAssumption DEF RegionInit
  <2>3. hit \subseteq Mon
    BY DEF RegionInit
  <2>4. owed \in BOOLEAN /\ misplaced \in BOOLEAN /\ dispersed \in BOOLEAN
    BY DEF RegionInit
  <2>5. loop = At("play", 0, 0)
    BY DEF RegionInit
  <2> QED
    BY <1>1, <2>1, <2>2, <2>3, <2>4, <2>5 DEF RegionTypeOK
<1>3. Known /\ Walked /\ Buried /\ CthulhuAwaited
  BY <1>1 DEF RegionInit, Known, Walked, Buried, CthulhuAwaited
<1> QED
  BY <1>1, <1>2, <1>3 DEF RegionInv

LEMMA RegionInvStep ==
  RegionInv /\ LoopOK /\ [RegionNext]_regionVars => RegionInv' /\ LoopOK'
<1> SUFFICES ASSUME RegionInv, LoopOK, [RegionNext]_regionVars PROVE RegionInv'
  BY LoopStep DEF RegionInv
<1>1. CASE UNCHANGED regionVars
  BY <1>1 DEF regionVars, RegionInv, RegionTypeOK, Known, Walked, Buried, CthulhuAwaited, Unlisted,
              alive
<1>2. CASE RegionNext
  <2>1. CASE RunRegions \/ RegionStep \/ RestoreRegions
    BY <2>1, WalkBegins, ExpireStep, AgeStep, NextRegionStep, SurvivesStep, BreatherDies, RestoreStep
       DEF RegionStep
  <2>2. CASE \E c \in Shape, t \in Ttl, d \in Damage : CreateCloud(c, t, d) \/ CthulhuDies(c, t, d)
    BY <2>2, CreateStep, CthulhuDiesStep
  <2>3. CASE \E p \in Cell : HeroMoves(p) \/ HeroStopped(p) \/ HeroTeleports(p) \/ HeroCarried(p)
    BY <2>3, HeroStep
  <2>4. CASE \/ \E m \in Mon, p, q \in Cell : MonMoves(m, p, q)
             \/ \E m \in Mon, p \in Cell : MonArrives(m, p) \/ MonBorn(m, p)
             \/ \E m \in Mon : HeroSwaps(m) \/ MonGone(m)
    BY <2>4, MonMovesStep, MonArrivesStep, MonBornStep, HeroSwapsStep, MonGoneStep
  <2> QED
    BY <1>2, <2>1, <2>2, <2>3, <2>4 DEF RegionNext
<1> QED
  BY <1>1, <1>2

LEMMA RegionInvariant == RegionSpec => []RegionInv
<1> QED
  BY RegionInvInit, RegionInvStep, PTL DEF RegionSpec

(* The regions, what stands in them and run_regions keep their types: whatever
   is removed under them, the loops stay inside the arrays they walk. *)
THEOREM TypeCorrect == RegionSpec => []RegionTypeOK
<1>1. RegionInv => RegionTypeOK
  BY DEF RegionInv
<1> QED
  BY <1>1, RegionInvariant, PTL

(* Regions know who is inside them: the hero, unless he did not go where they
   were told; and every monster not entered twice whose last coming or going
   they were told rightly, which is on the list exactly when it is inside, and
   no such monster, told of or not, is on it twice, whatever was put on, struck
   off by swapping and born again in the meantime. *)
THEOREM RegionsAreRight == RegionSpec => []RegionsKnow
<1>1. RegionInv => RegionsKnow
  <2> SUFFICES ASSUME RegionInv, NEW i \in DOMAIN regions, NEW m \in alive \ regions[i].doubled
               PROVE  LET ks == {k \in DOMAIN regions[i].mons : regions[i].mons[k] = m} IN
                      /\ Cardinality(ks) <= 1
                      /\ m \notin regions[i].stray =>
                           (ks # {} <=> place[m] \in regions[i].cells)
    BY DEF RegionsKnow, RegionInv, Known
  <2> DEFINE ks == {k \in DOMAIN regions[i].mons : regions[i].mons[k] = m}
  <2>1. /\ AtMostOnce(regions[i].mons, m)
        /\ m \notin regions[i].stray =>
             (On(regions[i].mons, m) <=> place[m] \in regions[i].cells)
    BY DEF RegionInv, Known, Knows, alive
  <2>2. ks # {} <=> On(regions[i].mons, m)
    BY DEF On
  <2>3. Cardinality(ks) <= 1
    <3>1. CASE ks = {}
      BY <3>1, FS_EmptySet
    <3>2. CASE ks # {}
      <4>1. PICK k \in ks : TRUE
        BY <3>2
      <4>2. ks = {k}
        BY <2>1, <4>1 DEF AtMostOnce
      <4> QED
        BY <4>2, FS_Singleton
    <3> QED
      BY <3>1, <3>2
  <2> QED
    BY <2>1, <2>2, <2>3
<1> QED
  BY <1>1, RegionInvariant, PTL

(* run_regions passes nobody over and lets no expired cloud live on, although
   both of its loops remove what they walk over. *)
THEOREM WalkIsComplete == RegionSpec => []WalkIsWhole
<1>1. RegionInv => WalkIsWhole
  <2> SUFFICES ASSUME RegionInv PROVE WalkIsWhole
    OBVIOUS
  <2>1. loop.at = "age" => loop.i \in 1 .. Len(regions) + 1
    BY DEF RegionInv, RegionTypeOK, At
  <2>2. DOMAIN regions = 1 .. Len(regions) /\ Len(regions) \in Nat
    BY DEF RegionInv, RegionTypeOK
  <2>3. loop.at = "age" => \A k \in loop.i .. Len(regions) : k \in DOMAIN regions /\ k >= loop.i
    BY <2>1, <2>2
  <2> QED
    BY <2>3 DEF RegionInv, Walked, WalkIsWhole
<1> QED
  BY <1>1, RegionInvariant, PTL

(* Cthulhu's return is never forgotten, except by a restore that disperses his
   cloud: thinning the cloud, removing another one and adding new ones keep a
   cloud he will come back from. *)
THEOREM CthulhuIsAwaited == RegionSpec => []CthulhuAwaited
<1>1. RegionInv => CthulhuAwaited
  BY DEF RegionInv
<1> QED
  BY <1>1, RegionInvariant, PTL

=============================================================================
