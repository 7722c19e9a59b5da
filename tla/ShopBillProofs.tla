--------------------------- MODULE ShopBillProofs ---------------------------
(***************************************************************************)
(* What holds of a shop's bill and the objects it is for, for any number   *)
(* of objects and types, any size of the bill, stacks and purse.           *)
(***************************************************************************)
EXTENDS ShopBill, FiniteSetTheorems, WellFoundedInduction, TLAPS

Thing == [where : Where, type : Types, dil : BOOLEAN, quan : Nat, unpaid : BOOLEAN, nc : BOOLEAN]
Line  == [id : Ids, quan : Int, useup : BOOLEAN]
Goods == {"shop", "spot", "inv"}

Lines(b) == {b[i] : i \in DOMAIN b}
Once(b) == \A i, j \in DOMAIN b : b[i].id = b[j].id => i = j

Typed(s) ==
  /\ DOMAIN s = {"obj", "bill"}
  /\ s.obj \in [Ids -> Thing] /\ s.bill \in Seq(Line)
  /\ Len(s.bill) <= BILLSZ /\ Once(s.bill)

(* What holds even after a muddle. *)
Booked(ob, L) ==
  /\ \A o \in Ids : ob[o].where \in Goods =>
       ob[o].quan > 0 /\ (ob[o].unpaid => \E x \in L : x.id = o /\ ~x.useup)
  /\ \A x \in L : x.useup => ob[x.id].where = "billobjs"
  /\ \A o \in Ids : ob[o].where = "billobjs" => \E x \in L : x.id = o /\ x.useup

(* What holds without one. *)
Exact(ob, L) ==
  \A x \in L : /\ x.quan > 0
               /\ ~x.useup => /\ ob[x.id].where \in {"spot", "inv"}
                              /\ ob[x.id].unpaid /\ ob[x.id].quan <= x.quan

Kept(s) == Typed(s) /\ Booked(s.obj, Lines(s.bill))
Right(s) == Exact(s.obj, Lines(s.bill))

Money ==
  /\ cash \in Nat /\ owed \in Int /\ muddled \in BOOLEAN
  /\ pay \in [on : BOOLEAN, pass : {0, 1}, tmp : Nat, itemize : BOOLEAN, one : Ids \cup {0}]
  /\ pay.on => pay.tmp >= 1

Books ==
  /\ Kept(Now) /\ (~muddled => Right(Now))
  /\ \A i \in DOMAIN bill : bill[i].quan >= 0

ShopInv == Books /\ Money

-----------------------------------------------------------------------------
(* The bill as a sequence.                                                 *)

LEMMA Bounds ==
  /\ BILLSZ \in Nat /\ MaxQuan \in Nat /\ Purse \in Nat /\ Ids \subseteq Nat
  /\ 0 \notin Ids /\ IsFiniteSet(Ids)
BY ShopAssumption

LEMMA Added ==
  ASSUME NEW b \in Seq(Line), Once(b), NEW e \in Line, \A x \in Lines(b) : x.id # e.id
  PROVE  LET c == Append(b, e) IN
         c \in Seq(Line) /\ Len(c) = Len(b) + 1 /\ Once(c) /\ Lines(c) = Lines(b) \cup {e}
<1> DEFINE c == Append(b, e)
<1>1. Len(b) \in Nat /\ DOMAIN b = 1 .. Len(b)
  OBVIOUS
<1>2. /\ c \in Seq(Line) /\ Len(c) = Len(b) + 1 /\ DOMAIN c = 1 .. Len(b) + 1
      /\ c[Len(b) + 1] = e /\ \A i \in 1 .. Len(b) : c[i] = b[i]
  BY <1>1
<1> HIDE DEF c
<1>3. \A i \in 1 .. Len(b) + 1 : i \in 1 .. Len(b) \/ i = Len(b) + 1
  BY <1>1
<1>4. Once(c)
  <2> SUFFICES ASSUME NEW i \in 1 .. Len(b) + 1, NEW j \in 1 .. Len(b) + 1, c[i].id = c[j].id
              PROVE  i = j
    BY <1>2 DEF Once
  <2>1. CASE i \in 1 .. Len(b) /\ j \in 1 .. Len(b)
    BY <1>1, <1>2, <2>1 DEF Once
  <2>2. CASE ~(i \in 1 .. Len(b) /\ j \in 1 .. Len(b))
    BY <1>1, <1>2, <1>3, <2>2 DEF Lines
  <2> QED
    BY <2>1, <2>2
<1>5. Lines(c) = Lines(b) \cup {e}
  <2>1. Lines(c) \subseteq Lines(b) \cup {e}
    BY <1>1, <1>2, <1>3 DEF Lines
  <2>2. Lines(b) \subseteq Lines(c)
    BY <1>1, <1>2 DEF Lines
  <2>3. e \in Lines(c)
    BY <1>1, <1>2 DEF Lines
  <2> QED
    BY <2>1, <2>2, <2>3
<1> QED
  BY <1>2, <1>4, <1>5 DEF c

LEMMA Changed ==
  ASSUME NEW b \in Seq(Line), Once(b), NEW i \in DOMAIN b, NEW e \in Line,
         \A x \in Lines(b) \ {b[i]} : x.id # e.id
  PROVE  LET c == [b EXCEPT ![i] = e] IN
         /\ c \in Seq(Line) /\ Len(c) = Len(b) /\ Once(c) /\ c[i] = e /\ DOMAIN c = DOMAIN b
         /\ Lines(c) = (Lines(b) \ {b[i]}) \cup {e}
<1> DEFINE c == [b EXCEPT ![i] = e]
<1>1. Len(b) \in Nat /\ DOMAIN b = 1 .. Len(b)
  OBVIOUS
<1>2. /\ c \in Seq(Line) /\ Len(c) = Len(b) /\ DOMAIN c = DOMAIN b /\ c[i] = e
      /\ \A j \in DOMAIN b : j # i => c[j] = b[j] /\ b[j] \in Lines(b) \ {b[i]}
  <2>1. \A j \in DOMAIN b : j # i => b[j] # b[i] /\ b[j] \in Lines(b)
    BY DEF Once, Lines
  <2> QED
    BY <1>1, <2>1
<1> HIDE DEF c
<1>3. Once(c)
  BY <1>2 DEF Once
<1>4. Lines(c) = (Lines(b) \ {b[i]}) \cup {e}
  <2>1. Lines(c) \subseteq (Lines(b) \ {b[i]}) \cup {e}
    BY <1>2 DEF Lines
  <2>2. Lines(b) \ {b[i]} \subseteq Lines(c)
    BY <1>2 DEF Lines
  <2>3. e \in Lines(c)
    BY <1>2 DEF Lines
  <2> QED
    BY <2>1, <2>2, <2>3
<1> QED
  BY <1>2, <1>3, <1>4 DEF c

LEMMA Removed ==
  ASSUME NEW b \in Seq(Line), Once(b), NEW i \in DOMAIN b
  PROVE  LET c == SubSeq([b EXCEPT ![i] = b[Len(b)]], 1, Len(b) - 1) IN
         c \in Seq(Line) /\ Len(c) = Len(b) - 1 /\ Once(c) /\ Lines(c) = Lines(b) \ {b[i]}
<1> DEFINE n == Len(b)
           d == [b EXCEPT ![i] = b[n]]
           c == SubSeq(d, 1, n - 1)
           from(j) == IF j = i THEN n ELSE j
<1>1. n \in Nat /\ DOMAIN b = 1 .. n /\ i \in 1 .. n /\ n \in 1 .. n
  OBVIOUS
<1>2. d \in Seq(Line) /\ Len(d) = n /\ \A j \in 1 .. n : d[j] = b[from(j)]
  BY <1>1
<1> HIDE DEF d
<1>3. c \in Seq(Line) /\ Len(c) = n - 1 /\ DOMAIN c = 1 .. n - 1
      /\ \A j \in 1 .. n - 1 : c[j] = d[j]
  BY <1>1, <1>2
<1> HIDE DEF c
<1>4. \A j \in 1 .. n - 1 : from(j) \in 1 .. n /\ from(j) # i /\ c[j] = b[from(j)]
  BY <1>1, <1>2, <1>3
<1>5. \A j, k \in 1 .. n - 1 : from(j) = from(k) => j = k
  BY <1>1
<1>6. \A j \in 1 .. n : j # i => \E k \in 1 .. n - 1 : from(k) = j
  <2> SUFFICES ASSUME NEW j \in 1 .. n, j # i PROVE \E k \in 1 .. n - 1 : from(k) = j
    OBVIOUS
  <2>1. CASE j = n
    <3>1. i \in 1 .. n - 1 /\ from(i) = j
      BY <1>1, <2>1
    <3> QED
      BY <3>1
  <2>2. CASE j # n
    <3>1. j \in 1 .. n - 1
      <4> HIDE DEF n
      <4> QED
        BY <1>1, <2>2
    <3>2. from(j) = j
      OBVIOUS
    <3> QED
      BY <3>1, <3>2
  <2> QED
    BY <2>1, <2>2
<1> HIDE DEF from
<1> HIDE DEF n
<1>7. Once(c)
  BY <1>1, <1>3, <1>4, <1>5 DEF Once
<1>8. Lines(c) \subseteq Lines(b) \ {b[i]}
  <2> SUFFICES ASSUME NEW j \in 1 .. n - 1 PROVE c[j] \in Lines(b) \ {b[i]}
    BY <1>3 DEF Lines
  <2> QED
    BY <1>1, <1>4 DEF Lines, Once
<1>9. Lines(b) \ {b[i]} \subseteq Lines(c)
  <2> SUFFICES ASSUME NEW j \in 1 .. n, b[j] # b[i] PROVE b[j] \in Lines(c)
    BY <1>1 DEF Lines
  <2>1. PICK k \in 1 .. n - 1 : from(k) = j
    BY <1>6
  <2> QED
    BY <1>3, <1>4, <2>1 DEF Lines
<1> QED
  BY <1>3, <1>7, <1>8, <1>9 DEF c, d, n

LEMMA SlotIs ==
  ASSUME NEW s, s.bill \in Seq(Line), Once(s.bill), NEW o, Billed(s, o)
  PROVE  Slot(s, o) \in DOMAIN s.bill /\ s.bill[Slot(s, o)].id = o
         /\ s.bill[Slot(s, o)] \in Lines(s.bill)
<1>1. PICK i \in DOMAIN s.bill : s.bill[i].id = o
  BY DEF Billed, OnBill
<1>2. OnBill(s, o) = {i}
  BY <1>1 DEF OnBill, Once
<1>3. Slot(s, o) \in OnBill(s, o)
  <2>1. i \in OnBill(s, o) /\ i <= i
    BY <1>2
  <2> QED
    BY <1>2, <2>1 DEF Slot
<1> QED
  BY <1>3 DEF OnBill, Lines

LEMMA BilledIs ==
  ASSUME NEW s, NEW o
  PROVE  Billed(s, o) <=> \E x \in Lines(s.bill) : x.id = o
BY DEF Billed, OnBill, Lines

LEMMA OneLine ==
  ASSUME NEW b, Once(b), NEW x \in Lines(b), NEW y \in Lines(b), x.id = y.id
  PROVE  x = y
BY DEF Once, Lines

LEMMA NilIs == Nil \in Thing /\ Nil.where = "none"
BY ShopAssumption DEF Nil, Thing, Where

-----------------------------------------------------------------------------
(* What the changes of objects and lines do to what is kept.               *)

LEMMA KeptIs ==
  ASSUME NEW s, Kept(s)
  PROVE  /\ DOMAIN s = {"obj", "bill"} /\ s.obj \in [Ids -> Thing]
         /\ s.bill \in Seq(Line) /\ Once(s.bill) /\ Len(s.bill) \in Nat /\ Len(s.bill) <= BILLSZ
         /\ \A x \in Lines(s.bill) : x \in Line
BY DEF Kept, Typed, Lines

(* Objects may change while the bill stands: nothing leaves the chain of   *)
(* what was used up, nothing becomes unpaid without a line.                *)
LEMMA Touched ==
  ASSUME NEW s, Kept(s), NEW t, DOMAIN t = {"obj", "bill"}, t.bill = s.bill,
         t.obj \in [Ids -> Thing],
         \A o \in Ids : t.obj[o].where = "billobjs" <=> s.obj[o].where = "billobjs",
         \A o \in Ids : t.obj[o].where \in Goods =>
           t.obj[o].quan > 0
           /\ (t.obj[o].unpaid => \E x \in Lines(s.bill) : x.id = o /\ ~x.useup)
  PROVE  Kept(t)
<1>1. Lines(t.bill) = Lines(s.bill)
  OBVIOUS
<1>2. Typed(t)
  BY DEF Kept, Typed
<1>3. Booked(t.obj, Lines(t.bill))
  BY <1>1, KeptIs DEF Kept, Booked, Line
<1> QED
  BY <1>2, <1>3 DEF Kept

LEMMA TouchedRight ==
  ASSUME NEW s, Kept(s), Right(s), NEW t, t.bill = s.bill, t.obj \in [Ids -> Thing],
         \A o \in Ids : s.obj[o].unpaid /\ s.obj[o].where \in {"spot", "inv"} =>
           /\ t.obj[o].unpaid /\ t.obj[o].where \in {"spot", "inv"}
           /\ t.obj[o].quan <= s.obj[o].quan
  PROVE  Right(t)
<1> SUFFICES ASSUME NEW x \in Lines(s.bill)
             PROVE  /\ x.quan > 0
                    /\ ~x.useup => /\ t.obj[x.id].where \in {"spot", "inv"}
                                   /\ t.obj[x.id].unpaid /\ t.obj[x.id].quan <= x.quan
  BY DEF Right, Exact
<1>1. x \in Line /\ x.id \in Ids /\ x.quan \in Int
  BY KeptIs DEF Line
<1>2. s.obj[x.id].quan \in Nat /\ t.obj[x.id].quan \in Nat
  BY <1>1, KeptIs DEF Thing
<1> QED
  BY <1>1, <1>2 DEF Right, Exact

(* A line's object, unless it is used up, is somewhere to be seen.         *)
LEMMA Unlined ==
  ASSUME NEW s, Kept(s), NEW o \in Ids, s.obj[o].where \in Goods
  PROVE  /\ \A x \in Lines(s.bill) : x.id = o => ~x.useup
         /\ s.obj[o].quan \in Nat /\ s.obj[o].quan > 0
         /\ s.obj[o].unpaid => Billed(s, o)
         /\ Right(s) /\ Billed(s, o) => s.obj[o].unpaid /\ s.obj[o].where \in {"spot", "inv"}
<1>1. \A x \in Lines(s.bill) : x.id = o => ~x.useup
  BY DEF Kept, Booked, Goods
<1>2. s.obj[o].quan \in Nat /\ s.obj[o].quan > 0
  BY KeptIs DEF Kept, Booked, Thing
<1>3. s.obj[o].unpaid => Billed(s, o)
  BY BilledIs DEF Kept, Booked
<1>4. Right(s) /\ Billed(s, o) => s.obj[o].unpaid /\ s.obj[o].where \in {"spot", "inv"}
  BY <1>1, BilledIs DEF Right, Exact
<1> QED
  BY <1>1, <1>2, <1>3, <1>4

(* *bp = bill_p[--billct]                                                  *)
LEMMA Unbilled ==
  ASSUME NEW s, Kept(s), NEW i \in DOMAIN s.bill
  PROVE  LET t == Unbill(s, i) IN
         /\ DOMAIN t = {"obj", "bill"} /\ t.obj = s.obj
         /\ t.bill \in Seq(Line) /\ Once(t.bill) /\ Len(t.bill) \in Nat
         /\ Len(t.bill) = Len(s.bill) - 1
         /\ Lines(t.bill) = Lines(s.bill) \ {s.bill[i]}
<1> DEFINE c == SubSeq([s.bill EXCEPT ![i] = s.bill[Len(s.bill)]], 1, Len(s.bill) - 1)
<1>1. /\ DOMAIN Unbill(s, i) = {"obj", "bill"} /\ Unbill(s, i).obj = s.obj
      /\ Unbill(s, i).bill = c
  <2>1. [s EXCEPT !.bill = c].bill = c
    BY KeptIs
  <2> QED
    BY <2>1, KeptIs DEF Unbill
<1>2. c \in Seq(Line) /\ Once(c) /\ Len(c) = Len(s.bill) - 1
      /\ Lines(c) = Lines(s.bill) \ {s.bill[i]}
  BY KeptIs, Removed
<1> HIDE DEF c
<1> QED
  BY <1>1, <1>2

(* An object goes when no line is left that says it was used up.           *)
LEMMA Gone ==
  ASSUME NEW ob \in [Ids -> Thing], NEW L, \A x \in L : x \in Line, NEW o \in Ids, Booked(ob, L),
         \A x \in L : x.id = o => ~x.useup
  PROVE  LET c == [ob EXCEPT ![o] = Nil] IN
         /\ c \in [Ids -> Thing] /\ Booked(c, L)
         /\ (\A x \in L : x.id # o) /\ Exact(ob, L) => Exact(c, L)
<1> DEFINE c == [ob EXCEPT ![o] = Nil]
<1>1. c \in [Ids -> Thing] /\ c[o] = Nil /\ \A i \in Ids : i # o => c[i] = ob[i]
  BY NilIs
<1> HIDE DEF c
<1>2. Booked(c, L)
  BY <1>1, NilIs DEF Booked, Goods, Line
<1>3. (\A x \in L : x.id # o) /\ Exact(ob, L) => Exact(c, L)
  BY <1>1 DEF Exact, Line
<1> QED
  BY <1>1, <1>2, <1>3 DEF c

LEMMA DeallocIs ==
  ASSUME NEW s, DOMAIN s = {"obj", "bill"}, NEW o
  PROVE  /\ DOMAIN Dealloc(s, o) = {"obj", "bill"}
         /\ Dealloc(s, o).obj = [s.obj EXCEPT ![o] = Nil] /\ Dealloc(s, o).bill = s.bill
BY DEF Dealloc

-----------------------------------------------------------------------------
(* combine_objs and obfree(o, p): the entries become one as the objects do.*)

LEMMA Combined ==
  ASSUME NEW s, Kept(s), NEW p \in Ids, NEW o \in Ids, p # o,
         s.obj[p].where \in Goods, s.obj[o].where \in Goods
  PROVE  /\ Kept(Combine(s, p, o))
         /\ Right(s) /\ s.obj[p].unpaid = s.obj[o].unpaid => Right(Combine(s, p, o))
         /\ Combine(s, p, o).obj[p] = [s.obj[p] EXCEPT !.quan = @ + s.obj[o].quan]
<1> DEFINE t == [s EXCEPT !.obj[p].quan = @ + s.obj[o].quan]
           r == ObfreeMerge(t, p, o)
<1>1. Combine(s, p, o) = r
  BY DEF Combine
<1> DEFINE w == [s.obj[p] EXCEPT !.quan = @ + s.obj[o].quan]
<1>2. /\ DOMAIN t = {"obj", "bill"} /\ t.bill = s.bill
      /\ t.obj = [s.obj EXCEPT ![p] = w]
  BY KeptIs
<1>3. s.obj[p] \in Thing /\ s.obj[o] \in Thing /\ s.obj[p].quan > 0 /\ s.obj[o].quan > 0
      /\ s.obj[p].quan \in Nat /\ s.obj[o].quan \in Nat
  BY KeptIs, Unlined
<1>w. /\ w \in Thing /\ w.where = s.obj[p].where /\ w.unpaid = s.obj[p].unpaid
      /\ w.quan = s.obj[p].quan + s.obj[o].quan
  BY <1>3 DEF Thing
<1> HIDE DEF t
<1> HIDE DEF r
<1> HIDE DEF w
<1>4. /\ t.obj \in [Ids -> Thing]
      /\ t.obj[p].where = s.obj[p].where /\ t.obj[p].unpaid = s.obj[p].unpaid
      /\ t.obj[p].quan = s.obj[p].quan + s.obj[o].quan
      /\ t.obj[p] = w
      /\ \A i \in Ids : i # p => t.obj[i] = s.obj[i]
  BY <1>2, <1>w, KeptIs
<1>5. Kept(t)
  <2>1. \A i \in Ids : /\ t.obj[i].where = s.obj[i].where /\ t.obj[i].unpaid = s.obj[i].unpaid
                       /\ s.obj[i].quan > 0 => t.obj[i].quan > 0
    BY <1>3, <1>4
  <2>2. \A i \in Ids : s.obj[i].where \in Goods =>
          s.obj[i].quan > 0
          /\ (s.obj[i].unpaid => \E x \in Lines(s.bill) : x.id = i /\ ~x.useup)
    BY DEF Kept, Booked
  <2> QED
    BY <1>2, <1>4, <2>1, <2>2, Touched
<1>6. Billed(t, p) <=> Billed(s, p)
  BY <1>2, BilledIs
<1>7. Billed(t, o) <=> Billed(s, o)
  BY <1>2, BilledIs
<1>8. t.obj[o] = s.obj[o]
  BY <1>4
<1>9. CASE ~Billed(t, o) \/ ~Billed(t, p)
  <2>1. r = Dealloc(t, o)
    BY <1>9 DEF ObfreeMerge, r
  <2>2. DOMAIN r = {"obj", "bill"} /\ r.bill = s.bill /\ r.obj = [t.obj EXCEPT ![o] = Nil]
    BY <1>2, <2>1 DEF Dealloc
  <2>3. \A x \in Lines(t.bill) : x.id = o => ~x.useup
    BY <1>5, <1>8, Unlined
  <2>4. r.obj \in [Ids -> Thing] /\ Booked(r.obj, Lines(t.bill))
    BY <1>4, <1>5, <2>2, <2>3, Gone, KeptIs DEF Kept
  <2>5. Kept(r)
    BY <1>2, <1>5, <2>2, <2>4 DEF Kept, Typed
  <2>6. ASSUME Right(s), s.obj[p].unpaid = s.obj[o].unpaid PROVE Right(r)
    <3>1. ~Billed(s, o) /\ ~Billed(s, p)
      BY <1>6, <1>7, <1>9, <2>6, Unlined
    <3>2. \A x \in Lines(s.bill) : x.id # p /\ x.id # o
      BY <3>1, BilledIs
    <3>3. Right(t)
      BY <1>2, <1>4, <2>6, <3>2, KeptIs DEF Right, Exact, Line
    <3> QED
      BY <1>2, <1>4, <1>5, <2>2, <2>3, <3>2, <3>3, Gone, KeptIs DEF Kept, Right
  <2>7. r.obj[p] = t.obj[p]
    BY <1>4, <2>2
  <2> QED
    BY <1>1, <1>4, <2>5, <2>6, <2>7 DEF w
<1>10. CASE Billed(t, o) /\ Billed(t, p)
  <2> DEFINE i == Slot(t, p)
             j == Slot(t, o)
             x == s.bill[i]
             y == s.bill[j]
             e == [x EXCEPT !.quan = @ + y.quan]
             b == [s.bill EXCEPT ![i] = e]
             u == [t EXCEPT !.bill[i].quan = @ + t.bill[j].quan]
  <2>1. /\ i \in DOMAIN s.bill /\ x.id = p /\ x \in Lines(s.bill)
        /\ j \in DOMAIN s.bill /\ y.id = o /\ y \in Lines(s.bill)
    BY <1>2, <1>5, <1>10, SlotIs, KeptIs
  <2>2. x \in Line /\ y \in Line /\ ~x.useup /\ ~y.useup
    BY <1>3, <2>1, KeptIs, Unlined
  <2>3. e \in Line /\ e.id = p /\ ~e.useup /\ e.quan = x.quan + y.quan
    BY <2>1, <2>2 DEF Line
  <2>4. DOMAIN u = {"obj", "bill"} /\ u.obj = t.obj /\ u.bill = b
    BY <1>2
  <2>5. r = Dealloc(Unbill(u, Slot(t, o)), o)
    BY <1>10 DEF ObfreeMerge, r, u
  <2> HIDE DEF u
  <2> HIDE DEF e
  <2>6. \A z \in Lines(s.bill) \ {x} : z.id # e.id
    BY <2>1, <2>3, KeptIs, OneLine
  <2>7. /\ b \in Seq(Line) /\ Len(b) = Len(s.bill) /\ Once(b) /\ b[i] = e
        /\ DOMAIN b = DOMAIN s.bill /\ Lines(b) = (Lines(s.bill) \ {x}) \cup {e}
        /\ b[j] = y
    <3>1. i # j
      BY <2>1
    <3> QED
      BY <2>1, <2>3, <2>6, <3>1, Changed, KeptIs
  <2> HIDE DEF b
  <2>8. Booked(t.obj, Lines(b))
    BY <1>2, <1>5, <2>1, <2>2, <2>3, <2>7 DEF Kept, Booked
  <2>9. Kept(u)
    BY <1>4, <2>4, <2>7, <2>8, KeptIs DEF Kept, Typed
  <2> DEFINE v == Unbill(u, Slot(t, o))
  <2>10. /\ DOMAIN v = {"obj", "bill"} /\ v.obj = t.obj
         /\ v.bill \in Seq(Line) /\ Once(v.bill) /\ Len(v.bill) \in Nat
         /\ Len(v.bill) = Len(s.bill) - 1
         /\ Lines(v.bill) = Lines(b) \ {y}
    <3>1. Slot(t, o) \in DOMAIN u.bill /\ u.bill[Slot(t, o)] = y
      BY <2>1, <2>4, <2>7
    <3>2. /\ DOMAIN v = {"obj", "bill"} /\ v.obj = u.obj
          /\ v.bill \in Seq(Line) /\ Once(v.bill) /\ Len(v.bill) \in Nat
          /\ Len(v.bill) = Len(u.bill) - 1
          /\ Lines(v.bill) = Lines(u.bill) \ {u.bill[Slot(t, o)]}
      BY <2>9, <3>1, Unbilled
    <3> QED
      BY <2>4, <2>7, <3>1, <3>2
  <2>11. r = Dealloc(v, o)
    BY <2>5
  <2> HIDE DEF v
  <2>12. DOMAIN r = {"obj", "bill"} /\ r.bill = v.bill /\ r.obj = [t.obj EXCEPT ![o] = Nil]
    BY <2>10, <2>11 DEF Dealloc
  <2>13. \A z \in Lines(v.bill) : z.id # o /\ z \in Line /\ z \in Lines(b)
    <3>1. y \in Lines(b) /\ \A z \in Lines(b) : z \in Line
      BY <2>1, <2>4, <2>7, <2>9, KeptIs DEF Lines
    <3> QED
      BY <2>1, <2>7, <2>10, <3>1, OneLine
  <2>14. e \in Lines(v.bill) /\ Lines(v.bill) \subseteq (Lines(s.bill) \ {x}) \cup {e}
         /\ \A z \in Lines(s.bill) : z = x \/ z = y \/ z \in Lines(v.bill)
    BY <2>1, <2>3, <2>7, <2>10
  <2>15. r.obj \in [Ids -> Thing] /\ r.obj[o] = Nil
         /\ \A k \in Ids : k # o => r.obj[k] = t.obj[k]
    BY <1>4, <2>12, NilIs
  <2>16. Booked(r.obj, Lines(v.bill))
    <3>1. ASSUME NEW k \in Ids, r.obj[k].where \in Goods
          PROVE  r.obj[k].quan > 0
                 /\ (r.obj[k].unpaid => \E z \in Lines(v.bill) : z.id = k /\ ~z.useup)
      <4>1. k # o /\ r.obj[k] = t.obj[k]
        BY <2>15, <3>1, NilIs DEF Goods
      <4> QED
        BY <1>2, <1>5, <2>1, <2>3, <2>14, <3>1, <4>1 DEF Kept, Booked
    <3>2. ASSUME NEW z \in Lines(v.bill), z.useup PROVE r.obj[z.id].where = "billobjs"
      BY <2>8, <2>13, <2>15, <3>2 DEF Booked, Line
    <3>3. ASSUME NEW k \in Ids, r.obj[k].where = "billobjs"
          PROVE  \E z \in Lines(v.bill) : z.id = k /\ z.useup
      <4>1. k # o /\ r.obj[k] = t.obj[k]
        BY <2>15, <3>3, NilIs
      <4> QED
        BY <1>2, <1>5, <2>2, <2>14, <3>3, <4>1 DEF Kept, Booked
    <3> QED
      BY <3>1, <3>2, <3>3 DEF Booked
  <2>17. Kept(r)
    <3>1. Len(s.bill) \in Nat /\ Len(s.bill) <= BILLSZ /\ Len(r.bill) = Len(s.bill) - 1
      BY <2>10, <2>12, KeptIs
    <3>2. Len(r.bill) <= BILLSZ
      BY <3>1, Bounds
    <3> QED
      BY <2>10, <2>12, <2>15, <2>16, <3>2 DEF Kept, Typed
  <2>18. ASSUME Right(s) PROVE Right(r)
    <3> SUFFICES ASSUME NEW z \in Lines(v.bill)
                 PROVE  /\ z.quan > 0
                        /\ ~z.useup => /\ r.obj[z.id].where \in {"spot", "inv"}
                                       /\ r.obj[z.id].unpaid /\ r.obj[z.id].quan <= z.quan
      BY <2>12 DEF Right, Exact
    <3>1. CASE z = e
      <4>1. /\ x.quan > 0 /\ y.quan > 0 /\ s.obj[p].quan <= x.quan /\ s.obj[o].quan <= y.quan
            /\ s.obj[p].where \in {"spot", "inv"} /\ s.obj[p].unpaid
        BY <2>1, <2>2, <2>18 DEF Right, Exact
      <4>2. r.obj[p].where = s.obj[p].where /\ r.obj[p].unpaid = s.obj[p].unpaid
            /\ r.obj[p].quan = s.obj[p].quan + s.obj[o].quan
        BY <1>4, <2>15
      <4>3. x.quan \in Int /\ y.quan \in Int
        BY <2>2 DEF Line
      <4>4. s.obj[p].quan + s.obj[o].quan <= x.quan + y.quan /\ x.quan + y.quan > 0
        BY <1>3, <4>1, <4>3
      <4> QED
        BY <2>3, <3>1, <4>1, <4>2, <4>4
    <3>2. CASE z # e
      <4>1. z \in Lines(s.bill) /\ z # x /\ z.id # p /\ z.id # o /\ z.id \in Ids
        BY <2>3, <2>6, <2>13, <2>14, <3>2 DEF Line
      <4>2. r.obj[z.id] = s.obj[z.id]
        BY <1>4, <2>15, <4>1
      <4> QED
        BY <2>18, <4>1, <4>2 DEF Right, Exact
    <3> QED
      BY <3>1, <3>2
  <2>19. r.obj[p] = t.obj[p]
    BY <2>15
  <2> QED
    BY <1>1, <1>4, <2>17, <2>18, <2>19 DEF w
<1> QED
  BY <1>9, <1>10

-----------------------------------------------------------------------------
(* splitobj, with splitbill.                                               *)

LEMMA Least ==
  ASSUME NEW T, T \subseteq Nat, T # {}
  PROVE  \E x \in T : \A y \in T : x <= y
<1>1. PICK x \in T : \A y \in T : ~(<<y, x>> \in OpToRel(<, Nat))
  BY NatLessThanWellFounded, WFMin
<1>2. \A y \in T : x <= y
  <2> TAKE y \in T
  <2>1. ~(y < x)
    BY <1>1 DEF OpToRel
  <2> QED
    BY <2>1
<1> QED
  BY <1>2

LEMMA NewIdIs ==
  ASSUME NEW s, Free(s) # {}
  PROVE  NewId(s) \in Free(s)
<1>1. Free(s) \subseteq Nat
  BY Bounds DEF Free
<1>2. \E o \in Free(s) : \A p \in Free(s) : o <= p
  BY <1>1, Least
<1> QED
  BY <1>2 DEF NewId

LEMMA RoomIs ==
  ASSUME NEW s, NEW n \in Nat, n > 0, Room(s, n)
  PROVE  Free(s) # {}
BY FS_EmptySet DEF Room

LEMMA FreeIs ==
  ASSUME NEW s, NEW q \in Free(s)
  PROVE  /\ q \in Ids /\ s.obj[q].where = "none"
         /\ \A x \in Lines(s.bill) : x.id # q
BY BilledIs DEF Free

LEMMA SplitOff ==
  ASSUME NEW s, Kept(s), NEW o \in Ids, s.obj[o].where \in Goods,
         NEW n \in Nat, 0 < n, n < s.obj[o].quan, NEW q \in Free(s)
  PROVE  LET t == Split(s, o, n, q) IN
         /\ Kept(t) /\ (Right(s) => Right(t))
         /\ t.obj[q].where = s.obj[o].where /\ t.obj[q].nc = s.obj[o].nc
         /\ ~s.obj[o].unpaid => ~t.obj[q].unpaid /\ t.bill = s.bill
<1> DEFINE v == [s.obj[o] EXCEPT !.quan = n]
           w == [s.obj[o] EXCEPT !.quan = @ - n]
           two == [s EXCEPT !.obj[q] = [s.obj[o] EXCEPT !.quan = n], !.obj[o] = [s.obj[o] EXCEPT !.quan = @ - n]]
           t == Split(s, o, n, q)
<1>1. /\ q \in Ids /\ s.obj[q].where = "none" /\ q # o
      /\ \A x \in Lines(s.bill) : x.id # q
  BY FreeIs DEF Goods
<1>2. s.obj[o] \in Thing /\ s.obj[o].quan \in Nat
  BY KeptIs DEF Thing
<1>3. /\ v \in Thing /\ v.where = s.obj[o].where /\ v.unpaid = s.obj[o].unpaid
      /\ v.nc = s.obj[o].nc /\ v.quan = n
  BY <1>2 DEF Thing
<1>4. /\ w \in Thing /\ w.where = s.obj[o].where /\ w.unpaid = s.obj[o].unpaid
      /\ w.quan = s.obj[o].quan - n /\ w.quan > 0
  <2>1. s.obj[o].quan - n \in Nat /\ s.obj[o].quan - n > 0
    BY <1>2
  <2> QED
    BY <1>2, <2>1 DEF Thing
<1>5. DOMAIN two = {"obj", "bill"} /\ two.bill = s.bill /\ two.obj = [s.obj EXCEPT ![q] = v, ![o] = w]
  BY KeptIs
<1>6. t = IF s.obj[o].unpaid THEN SplitBill(two, o, q) ELSE two
  BY DEF Split
<1> HIDE DEF two
<1> HIDE DEF t
<1> HIDE DEF v
<1> HIDE DEF w
<1>7. /\ two.obj \in [Ids -> Thing] /\ two.obj[q] = v /\ two.obj[o] = w
      /\ \A i \in Ids : i # q /\ i # o => two.obj[i] = s.obj[i]
  BY <1>1, <1>3, <1>4, <1>5, KeptIs
<1>8. CASE ~s.obj[o].unpaid
  <2>1. t = two
    BY <1>6, <1>8
  <2>2. Kept(t)
    <3>1. \A i \in Ids : s.obj[i].where \in Goods =>
            s.obj[i].quan > 0
            /\ (s.obj[i].unpaid => \E x \in Lines(s.bill) : x.id = i /\ ~x.useup)
      BY DEF Kept, Booked
    <3>2. \A i \in Ids : t.obj[i].where \in Goods =>
            t.obj[i].quan > 0
            /\ (t.obj[i].unpaid => \E x \in Lines(s.bill) : x.id = i /\ ~x.useup)
      <4> TAKE i \in Ids
      <4>1. CASE i = q
        BY <1>3, <1>7, <1>8, <2>1, <4>1
      <4>2. CASE i = o
        BY <1>4, <1>7, <1>8, <2>1, <4>2
      <4>3. CASE i # q /\ i # o
        BY <1>7, <2>1, <3>1, <4>3
      <4> QED
        BY <4>1, <4>2, <4>3
    <3>3. \A i \in Ids : t.obj[i].where = "billobjs" <=> s.obj[i].where = "billobjs"
      BY <1>1, <1>3, <1>4, <1>7, <2>1 DEF Goods
    <3> QED
      BY <1>5, <1>7, <2>1, <3>2, <3>3, Touched
  <2>3. Right(s) => Right(t)
    <3>1. \A i \in Ids : s.obj[i].unpaid /\ s.obj[i].where \in {"spot", "inv"} =>
            t.obj[i] = s.obj[i] /\ s.obj[i].quan \in Nat
      BY <1>1, <1>7, <1>8, <2>1, KeptIs DEF Thing
    <3> QED
      BY <1>5, <1>7, <2>1, <3>1, TouchedRight
  <2> QED
    BY <1>3, <1>5, <1>7, <1>8, <2>1, <2>2, <2>3 DEF t
<1>9. CASE s.obj[o].unpaid
  <2>1. t = SplitBill(two, o, q)
    BY <1>6, <1>9
  <2> DEFINE i == Slot(two, o)
             x == s.bill[i]
             e == [x EXCEPT !.quan = @ - n]
             b == [s.bill EXCEPT ![i] = e]
             less == [two EXCEPT !.bill[i].quan = @ - two.obj[q].quan]
  <2>2. Billed(two, o)
    <3>1. Billed(s, o)
      BY <1>9, Unlined
    <3> QED
      BY <1>5, <3>1, BilledIs
  <2>3. i \in DOMAIN s.bill /\ x.id = o /\ x \in Lines(s.bill)
    BY <1>5, <2>2, SlotIs, KeptIs
  <2>4. x \in Line /\ ~x.useup
    BY <2>3, KeptIs, Unlined
  <2>5. e \in Line /\ e.id = o /\ ~e.useup /\ e.quan = x.quan - n
    BY <2>3, <2>4 DEF Line
  <2>6. DOMAIN less = {"obj", "bill"} /\ less.obj = two.obj /\ less.bill = b
    BY <1>3, <1>5, <1>7
  <2>7. t = IF Full(two) THEN [less EXCEPT !.obj[q].unpaid = FALSE]
            ELSE [less EXCEPT !.bill = Append(@, Entry(q, n, FALSE))]
    BY <1>3, <1>7, <2>1 DEF SplitBill
  <2> HIDE DEF less
  <2> HIDE DEF e
  <2>8. \A z \in Lines(s.bill) \ {x} : z.id # e.id
    BY <2>3, <2>5, KeptIs, OneLine
  <2>9. /\ b \in Seq(Line) /\ Len(b) = Len(s.bill) /\ Once(b)
        /\ Lines(b) = (Lines(s.bill) \ {x}) \cup {e}
    BY <2>3, <2>5, <2>8, Changed, KeptIs
  <2> HIDE DEF b
  <2> DEFINE L == Lines(b)
             M == Lines(s.bill)
  <2>10. /\ Booked(s.obj, M) /\ e \in L /\ \A z \in L : z = e \/ (z \in M /\ z # x /\ z.id # o)
         /\ \A z \in M : z = x \/ z \in L
    BY <2>5, <2>8, <2>9 DEF Kept
  <2>11. \A z \in M : z \in Line /\ z.id \in Ids /\ z.id # q
    BY <1>1, KeptIs DEF Line
  <2> HIDE DEF L
  <2> HIDE DEF M
  <2>12. ASSUME Right(s)
         PROVE  /\ e.quan > 0 /\ w.quan <= e.quan /\ w.where \in {"spot", "inv"}
                /\ \A z \in M : /\ z.quan > 0
                                /\ ~z.useup => /\ s.obj[z.id].where \in {"spot", "inv"}
                                               /\ s.obj[z.id].unpaid /\ s.obj[z.id].quan <= z.quan
    <3>1. x.quan > 0 /\ s.obj[o].quan <= x.quan /\ s.obj[o].where \in {"spot", "inv"}
          /\ x.quan \in Int
      BY <2>3, <2>4, <2>12 DEF Right, Exact, Line
    <3>2. x.quan - n > 0 /\ s.obj[o].quan - n <= x.quan - n
      BY <1>2, <3>1
    <3> QED
      BY <1>4, <2>5, <2>12, <3>1, <3>2 DEF Right, Exact, M
  <2>13. CASE Full(two)
    <3> DEFINE u == [v EXCEPT !.unpaid = FALSE]
    <3>1. DOMAIN t = {"obj", "bill"} /\ t.bill = b /\ t.obj = [two.obj EXCEPT ![q] = u]
      BY <1>1, <1>7, <2>6, <2>7, <2>13
    <3>2. /\ u \in Thing /\ u.where = s.obj[o].where /\ ~u.unpaid
          /\ u.nc = s.obj[o].nc /\ u.quan = n
      BY <1>3 DEF Thing
    <3> HIDE DEF u
    <3>3. /\ t.obj \in [Ids -> Thing] /\ t.obj[q] = u /\ t.obj[o] = w
          /\ \A k \in Ids : k # q /\ k # o => t.obj[k] = s.obj[k]
      BY <1>1, <1>7, <3>1, <3>2
    <3>4. Booked(t.obj, L)
      <4>1. \A k \in Ids : t.obj[k].where \in Goods =>
              t.obj[k].quan > 0 /\ (t.obj[k].unpaid => \E z \in L : z.id = k /\ ~z.useup)
        <5> TAKE k \in Ids
        <5>1. CASE k = q
          BY <3>2, <3>3, <5>1
        <5>2. CASE k = o
          BY <1>4, <2>5, <2>10, <3>3, <5>2
        <5>3. CASE k # q /\ k # o
          BY <2>3, <2>10, <3>3, <5>3 DEF Booked
        <5> QED
          BY <5>1, <5>2, <5>3
      <4>2. \A z \in L : z.useup => t.obj[z.id].where = "billobjs"
        BY <2>5, <2>10, <2>11, <3>3 DEF Booked
      <4>3. \A k \in Ids : t.obj[k].where = "billobjs" => \E z \in L : z.id = k /\ z.useup
        BY <1>4, <2>4, <2>10, <3>2, <3>3 DEF Booked, Goods
      <4> QED
        BY <4>1, <4>2, <4>3 DEF Booked
    <3>5. Kept(t)
      BY <2>9, <3>1, <3>3, <3>4, KeptIs DEF Kept, Typed, L
    <3>6. ASSUME Right(s) PROVE Right(t)
      <4>1. Exact(t.obj, L)
        BY <1>1, <1>4, <1>9, <2>5, <2>10, <2>11, <2>12, <3>3, <3>6 DEF Exact
      <4> QED
        BY <3>1, <4>1 DEF Right, L
    <3> QED
      BY <1>9, <3>2, <3>3, <3>5, <3>6 DEF t
  <2>14. CASE ~Full(two)
    <3> DEFINE f == Entry(q, n, FALSE)
               c == Append(b, f)
    <3>1. DOMAIN t = {"obj", "bill"} /\ t.bill = c /\ t.obj = two.obj
      BY <2>6, <2>7, <2>14
    <3>2. f \in Line /\ f.id = q /\ f.quan = n /\ ~f.useup
      BY <1>1 DEF Entry, Line
    <3> HIDE DEF f
    <3>3. \A z \in Lines(b) : z.id # f.id
      BY <1>1, <2>5, <2>10, <2>11, <3>2 DEF L
    <3>4. c \in Seq(Line) /\ Len(c) = Len(b) + 1 /\ Once(c) /\ Lines(c) = L \cup {f}
      BY <2>9, <3>2, <3>3, Added DEF L
    <3> HIDE DEF c
    <3>5. Len(c) <= BILLSZ
      <4>1. Len(s.bill) # BILLSZ
        BY <1>5, <2>14 DEF Full
      <4> QED
        BY <2>9, <3>4, <4>1, KeptIs, Bounds
    <3>6. Booked(t.obj, L \cup {f})
      <4>1. \A k \in Ids : t.obj[k].where \in Goods =>
              t.obj[k].quan > 0 /\ (t.obj[k].unpaid => \E z \in L \cup {f} : z.id = k /\ ~z.useup)
        <5> TAKE k \in Ids
        <5>1. CASE k = q
          BY <1>3, <1>7, <3>1, <3>2, <5>1
        <5>2. CASE k = o
          BY <1>4, <1>7, <2>5, <2>10, <3>1, <5>2
        <5>3. CASE k # q /\ k # o
          BY <1>7, <2>3, <2>10, <3>1, <5>3 DEF Booked
        <5> QED
          BY <5>1, <5>2, <5>3
      <4>2. \A z \in L \cup {f} : z.useup => t.obj[z.id].where = "billobjs"
        BY <1>7, <2>5, <2>10, <2>11, <3>1, <3>2 DEF Booked
      <4>3. \A k \in Ids : t.obj[k].where = "billobjs" => \E z \in L \cup {f} : z.id = k /\ z.useup
        BY <1>3, <1>4, <1>7, <2>4, <2>10, <3>1 DEF Booked, Goods
      <4> QED
        BY <4>1, <4>2, <4>3 DEF Booked
    <3>7. Kept(t)
      BY <1>7, <3>1, <3>4, <3>5, <3>6 DEF Kept, Typed
    <3>8. ASSUME Right(s) PROVE Right(t)
      <4>1. v.quan <= f.quan /\ f.quan > 0 /\ v.where \in {"spot", "inv"} /\ v.unpaid
        BY <1>3, <1>4, <1>9, <2>12, <3>2, <3>8
      <4>2. Exact(t.obj, L \cup {f})
        <5> SUFFICES ASSUME NEW z \in L \cup {f}
                     PROVE  /\ z.quan > 0
                            /\ ~z.useup => /\ t.obj[z.id].where \in {"spot", "inv"}
                                           /\ t.obj[z.id].unpaid /\ t.obj[z.id].quan <= z.quan
          BY DEF Exact
        <5>1. CASE z = f
          BY <1>7, <3>1, <3>2, <4>1, <5>1
        <5>2. CASE z = e
          BY <1>4, <1>7, <1>9, <2>5, <2>12, <3>1, <3>8, <5>2
        <5>3. CASE z # f /\ z # e
          BY <1>7, <2>10, <2>11, <2>12, <3>1, <3>8, <5>3
        <5> QED
          BY <5>1, <5>2, <5>3
      <4> QED
        BY <3>1, <3>4, <4>2 DEF Right
    <3> QED
      BY <1>3, <1>7, <1>9, <3>1, <3>7, <3>8 DEF t
  <2> QED
    BY <2>13, <2>14
<1> QED
  BY <1>8, <1>9

-----------------------------------------------------------------------------
(* obfree(o, NULL) and useup: what was on the bill goes to billobjs.       *)

(* A line may change as long as it names the same thing.                   *)
LEMMA Relined ==
  ASSUME NEW s, Kept(s), NEW i \in DOMAIN s.bill, NEW e \in Line,
         e.id = s.bill[i].id \/ \A x \in Lines(s.bill) : x.id # e.id
  PROVE  LET b == [s.bill EXCEPT ![i] = e] IN
         /\ b \in Seq(Line) /\ Once(b) /\ Len(b) = Len(s.bill) /\ Len(b) <= BILLSZ
         /\ DOMAIN b = DOMAIN s.bill /\ b[i] = e /\ e \in Lines(b)
         /\ \A z \in Lines(b) : z = e \/ (z \in Lines(s.bill) /\ z # s.bill[i]
                                          /\ z.id # s.bill[i].id /\ z.id # e.id)
         /\ \A z \in Lines(s.bill) : z = s.bill[i] \/ z \in Lines(b)
<1> DEFINE b == [s.bill EXCEPT ![i] = e]
           x == s.bill[i]
           M == Lines(s.bill)
<1>1. x \in M /\ s.bill \in Seq(Line) /\ Once(s.bill) /\ Len(s.bill) <= BILLSZ
  BY KeptIs DEF Lines
<1>2. \A z \in M \ {x} : z.id # x.id /\ z.id # e.id
  BY <1>1, OneLine
<1>3. /\ b \in Seq(Line) /\ Len(b) = Len(s.bill) /\ Once(b) /\ b[i] = e
      /\ DOMAIN b = DOMAIN s.bill /\ Lines(b) = (M \ {x}) \cup {e}
  BY <1>1, <1>2, Changed
<1> HIDE DEF b
<1> HIDE DEF M
<1> HIDE DEF x
<1> QED
  BY <1>1, <1>2, <1>3 DEF b, M, x

LEMMA Obfreed ==
  ASSUME NEW s, Kept(s), NEW o \in Ids, s.obj[o].where \in Goods
  PROVE  LET t == Obfree(s, o) IN
         Kept(t) /\ (Right(s) => Right(t)) /\ \A k \in Ids : k # o => t.obj[k] = s.obj[k]
<1> DEFINE t == Obfree(s, o)
<1>1. CASE ~Billed(s, o)
  <2>1. t = Dealloc(s, o)
    BY <1>1 DEF Obfree
  <2>2. DOMAIN t = {"obj", "bill"} /\ t.bill = s.bill /\ t.obj = [s.obj EXCEPT ![o] = Nil]
    BY <2>1, KeptIs DEF Dealloc
  <2> HIDE DEF t
  <2>3. \A x \in Lines(s.bill) : x.id # o
    BY <1>1, BilledIs
  <2>4. /\ t.obj \in [Ids -> Thing] /\ Booked(t.obj, Lines(s.bill))
        /\ Exact(s.obj, Lines(s.bill)) => Exact(t.obj, Lines(s.bill))
    BY <2>2, <2>3, Gone, KeptIs DEF Kept
  <2>5. Kept(t) /\ (Right(s) => Right(t))
    BY <2>2, <2>4 DEF Kept, Typed, Right
  <2>6. \A k \in Ids : k # o => t.obj[k] = s.obj[k]
    BY <2>2, KeptIs
  <2> QED
    BY <2>5, <2>6 DEF t
<1>2. CASE Billed(s, o)
  <2> DEFINE i == Slot(s, o)
             x == s.bill[i]
             e == [x EXCEPT !.useup = TRUE]
             b == [s.bill EXCEPT ![i] = e]
             v == [s.obj[o] EXCEPT !.unpaid = FALSE, !.where = "billobjs"]
  <2>1. i \in DOMAIN s.bill /\ x.id = o /\ x \in Lines(s.bill)
    BY <1>2, SlotIs, KeptIs
  <2>2. x \in Line /\ ~x.useup
    BY <2>1, KeptIs, Unlined
  <2>3. e \in Line /\ e.id = o /\ e.useup /\ e.quan = x.quan
    BY <2>1, <2>2 DEF Line
  <2>4. t.obj = [s.obj EXCEPT ![o] = v] /\ t.bill = b /\ DOMAIN t = {"obj", "bill"}
    BY <1>2 DEF Obfree
  <2>5. v \in Thing /\ v.where = "billobjs"
    <3>1. s.obj[o] \in Thing
      BY KeptIs
    <3> QED
      BY <3>1 DEF Thing, Where
  <2> HIDE DEF t
  <2> HIDE DEF v
  <2> HIDE DEF e
  <2>6. /\ b \in Seq(Line) /\ Once(b) /\ Len(b) <= BILLSZ /\ e \in Lines(b)
        /\ \A z \in Lines(b) : z = e \/ (z \in Lines(s.bill) /\ z # x /\ z.id # o)
        /\ \A z \in Lines(s.bill) : z = x \/ z \in Lines(b)
    <3>1. i \in DOMAIN s.bill /\ e \in Line /\ e.id = s.bill[i].id
      BY <2>1, <2>3
    <3>2. /\ b \in Seq(Line) /\ Once(b) /\ Len(b) <= BILLSZ /\ e \in Lines(b)
          /\ \A z \in Lines(b) : z = e \/ (z \in Lines(s.bill) /\ z # s.bill[i]
                                           /\ z.id # s.bill[i].id /\ z.id # e.id)
          /\ \A z \in Lines(s.bill) : z = s.bill[i] \/ z \in Lines(b)
      <4> HIDE DEF i
      <4> QED
        BY <3>1, Relined
    <3> QED
      BY <2>1, <3>2
  <2> HIDE DEF b
  <2>7. /\ t.obj \in [Ids -> Thing] /\ t.obj[o] = v
        /\ \A k \in Ids : k # o => t.obj[k] = s.obj[k]
    BY <2>4, <2>5, KeptIs
  <2>8. \A z \in Lines(s.bill) : z.id \in Ids
    BY KeptIs DEF Line
  <2>9. Booked(t.obj, Lines(b))
    <3>1. Booked(s.obj, Lines(s.bill))
      BY DEF Kept
    <3>2. \A k \in Ids : t.obj[k].where \in Goods =>
            t.obj[k].quan > 0 /\ (t.obj[k].unpaid => \E z \in Lines(b) : z.id = k /\ ~z.useup)
      BY <2>1, <2>5, <2>6, <2>7, <3>1 DEF Booked, Goods
    <3>3. \A z \in Lines(b) : z.useup => t.obj[z.id].where = "billobjs"
      BY <2>3, <2>5, <2>6, <2>7, <2>8, <3>1 DEF Booked
    <3>4. \A k \in Ids : t.obj[k].where = "billobjs" => \E z \in Lines(b) : z.id = k /\ z.useup
      BY <2>2, <2>3, <2>6, <2>7, <3>1 DEF Booked
    <3> QED
      BY <3>2, <3>3, <3>4 DEF Booked
  <2>10. Kept(t)
    BY <2>4, <2>6, <2>7, <2>9 DEF Kept, Typed
  <2>11. Right(s) => Right(t)
    BY <2>1, <2>3, <2>4, <2>6, <2>7, <2>8 DEF Right, Exact
  <2> QED
    BY <2>7, <2>10, <2>11 DEF t
<1> QED
  BY <1>1, <1>2

LEMMA UsedUp ==
  ASSUME NEW s, Kept(s), NEW o \in Ids, s.obj[o].where \in Goods
  PROVE  LET t == UseUp(s, o) IN
         Kept(t) /\ (Right(s) => Right(t)) /\ \A k \in Ids : k # o => t.obj[k] = s.obj[k]
<1> DEFINE t == UseUp(s, o)
<1>1. CASE s.obj[o].quan > 1
  <2> DEFINE v == [s.obj[o] EXCEPT !.quan = @ - 1]
  <2>1. DOMAIN t = {"obj", "bill"} /\ t.bill = s.bill /\ t.obj = [s.obj EXCEPT ![o] = v]
    BY <1>1, KeptIs DEF UseUp
  <2>2. /\ v \in Thing /\ v.where = s.obj[o].where /\ v.unpaid = s.obj[o].unpaid
        /\ v.quan > 0 /\ v.quan <= s.obj[o].quan
    <3>1. s.obj[o] \in Thing /\ s.obj[o].quan \in Nat
      BY KeptIs DEF Thing
    <3>2. s.obj[o].quan - 1 \in Nat /\ s.obj[o].quan - 1 > 0 /\ s.obj[o].quan - 1 <= s.obj[o].quan
      BY <1>1, <3>1
    <3> QED
      BY <3>1, <3>2 DEF Thing
  <2> HIDE DEF t
  <2> HIDE DEF v
  <2>3. /\ t.obj \in [Ids -> Thing] /\ t.obj[o] = v
        /\ \A k \in Ids : k # o => t.obj[k] = s.obj[k]
    BY <2>1, <2>2, KeptIs
  <2>4. \A k \in Ids : s.obj[k].where \in Goods =>
          s.obj[k].quan > 0
          /\ (s.obj[k].unpaid => \E x \in Lines(s.bill) : x.id = k /\ ~x.useup)
    BY DEF Kept, Booked
  <2>5. \A k \in Ids : /\ t.obj[k].where = s.obj[k].where /\ t.obj[k].unpaid = s.obj[k].unpaid
                       /\ s.obj[k].quan \in Nat /\ t.obj[k].quan <= s.obj[k].quan
                       /\ s.obj[k].quan > 0 => t.obj[k].quan > 0
    BY <2>2, <2>3, KeptIs DEF Thing
  <2>6. Kept(t)
    BY <2>1, <2>3, <2>4, <2>5, Touched
  <2>7. Right(s) => Right(t)
    BY <2>1, <2>3, <2>5, TouchedRight
  <2> QED
    BY <2>3, <2>6, <2>7 DEF t
<1>2. CASE ~(s.obj[o].quan > 1)
  BY <1>2, Obfreed DEF UseUp
<1> QED
  BY <1>1, <1>2

-----------------------------------------------------------------------------
(* sub_one_frombill: what has been used up of it stays behind as a dummy.  *)

LEMMA SubbedOne ==
  ASSUME NEW s, Kept(s), NEW o \in Ids, s.obj[o].where \in Goods, Free(s) # {}
  PROVE  LET t == SubOne(s, o) IN
         /\ Kept(t) /\ (Right(s) => Right(t))
         /\ t.obj[o] = [s.obj[o] EXCEPT !.unpaid = FALSE] /\ ~Billed(t, o)
         /\ \A p \in Free(s) : p = NewId(s) \/ p \in Free(t)
<1> DEFINE t == SubOne(s, o)
           i == Slot(s, o)
           x == s.bill[i]
           q == NewId(s)
           v == [s.obj[o] EXCEPT !.unpaid = FALSE]
           back == [s.obj EXCEPT ![o] = v]
<1>1. /\ q \in Ids /\ q \in Free(s) /\ s.obj[q].where = "none" /\ q # o
      /\ \A z \in Lines(s.bill) : z.id # q
  BY FreeIs, NewIdIs DEF Goods
<1>2. /\ v \in Thing /\ v.where = s.obj[o].where /\ ~v.unpaid
      /\ v.quan = s.obj[o].quan /\ v.quan > 0
  <2>1. s.obj[o] \in Thing /\ s.obj[o].quan > 0
    BY Unlined, KeptIs
  <2> QED
    BY <2>1 DEF Thing
<1>3. /\ back \in [Ids -> Thing] /\ back[o] = v
      /\ \A k \in Ids : k # o => back[k] = s.obj[k]
  BY <1>2, KeptIs
<1>4. back = [s.obj EXCEPT ![o].unpaid = FALSE]
  OBVIOUS
<1>5. Booked(s.obj, Lines(s.bill))
  BY DEF Kept
<1>6. \A z \in Lines(s.bill) : z \in Line /\ z.id \in Ids
  BY KeptIs DEF Line
<1>7. \A p \in Free(s) : p \in Ids /\ p # o /\ s.obj[p].where = "none" /\ \A z \in Lines(s.bill) : z.id # p
  BY FreeIs DEF Goods
<1>8. CASE ~Billed(s, o)
  <2>1. t = [s EXCEPT !.obj = back]
    BY <1>4, <1>8 DEF SubOne
  <2>2. DOMAIN t = {"obj", "bill"} /\ t.obj = back /\ t.bill = s.bill
    BY <2>1, KeptIs
  <2> HIDE DEF t
  <2> HIDE DEF back
  <2> HIDE DEF v
  <2>3. \A z \in Lines(s.bill) : z.id # o
    BY <1>8, BilledIs
  <2>4. Kept(t)
    <3>1. \A k \in Ids : t.obj[k].where \in Goods =>
            t.obj[k].quan > 0
            /\ (t.obj[k].unpaid => \E z \in Lines(s.bill) : z.id = k /\ ~z.useup)
      BY <1>2, <1>3, <1>5, <2>2 DEF Booked
    <3>2. \A k \in Ids : t.obj[k].where = "billobjs" <=> s.obj[k].where = "billobjs"
      BY <1>2, <1>3, <2>2
    <3> QED
      BY <1>3, <2>2, <3>1, <3>2, Touched
  <2>5. Right(s) => Right(t)
    BY <1>3, <1>6, <2>2, <2>3 DEF Right, Exact
  <2>6. ~Billed(t, o)
    BY <2>2, <2>3, BilledIs
  <2>7. \A p \in Free(s) : p \in Free(t)
    BY <1>3, <1>7, <2>2, BilledIs DEF Free
  <2> QED
    BY <1>3, <2>2, <2>4, <2>5, <2>6, <2>7 DEF t, v
<1>9. CASE Billed(s, o)
  <2>1. i \in DOMAIN s.bill /\ x.id = o /\ x \in Lines(s.bill)
    BY <1>9, SlotIs, KeptIs
  <2>2. x \in Line /\ ~x.useup
    BY <2>1, KeptIs, Unlined
  <2> DEFINE used == x.quan - s.obj[o].quan
             f == Entry(q, used, TRUE)
             d == [v EXCEPT !.where = "billobjs", !.quan = used]
             b == [s.bill EXCEPT ![i] = f]
  <2>3. used \in Int
    BY <1>2, <2>2, KeptIs DEF Line, Thing
  <2>4. CASE used > 0
    <3>1. t.obj = [back EXCEPT ![q] = d] /\ t.bill = b /\ DOMAIN t = {"obj", "bill"}
      <4>1. t = [obj |-> [back EXCEPT ![q] = [back[o] EXCEPT !.where = "billobjs", !.quan = used]],
                 bill |-> b]
        BY <1>4, <1>9, <2>4 DEF SubOne
      <4> HIDE DEF t
      <4> HIDE DEF v
      <4> HIDE DEF back
      <4> HIDE DEF b
      <4> HIDE DEF used
      <4> QED
        BY <1>3, <4>1
    <3>2. d \in Thing /\ d.where = "billobjs"
      <4>1. used \in Nat
        BY <2>3, <2>4
      <4> HIDE DEF used
      <4> HIDE DEF v
      <4> QED
        BY <1>2, <4>1 DEF Thing, Where
    <3>3. f \in Line /\ f.id = q /\ f.useup /\ f.quan = used
      BY <1>1, <2>3 DEF Line, Entry
    <3> HIDE DEF used
    <3> HIDE DEF f
    <3> HIDE DEF d
    <3> HIDE DEF t
    <3> HIDE DEF back
    <3> HIDE DEF v
    <3>4. /\ t.obj \in [Ids -> Thing] /\ t.obj[q] = d /\ t.obj[o] = v
          /\ \A k \in Ids : k # o /\ k # q => t.obj[k] = s.obj[k]
      BY <1>1, <1>3, <3>1, <3>2
    <3>5. /\ b \in Seq(Line) /\ Once(b) /\ Len(b) <= BILLSZ /\ f \in Lines(b)
          /\ \A z \in Lines(b) : z = f \/ (z \in Lines(s.bill) /\ z # x /\ z.id # o /\ z.id # q)
          /\ \A z \in Lines(s.bill) : z = x \/ z \in Lines(b)
      <4>1. \A z \in Lines(s.bill) : z.id # f.id
        BY <1>1, <3>3
      <4>2. /\ b \in Seq(Line) /\ Once(b) /\ Len(b) <= BILLSZ /\ f \in Lines(b)
            /\ \A z \in Lines(b) : z = f \/ (z \in Lines(s.bill) /\ z # s.bill[i]
                                             /\ z.id # s.bill[i].id /\ z.id # f.id)
            /\ \A z \in Lines(s.bill) : z = s.bill[i] \/ z \in Lines(b)
        <5> HIDE DEF i
        <5> QED
          BY <2>1, <3>3, <4>1, Relined
      <4> QED
        BY <2>1, <3>3, <4>2
    <3> HIDE DEF b
    <3>6. Booked(t.obj, Lines(b))
      <4>1. \A k \in Ids : t.obj[k].where \in Goods =>
              t.obj[k].quan > 0 /\ (t.obj[k].unpaid => \E z \in Lines(b) : z.id = k /\ ~z.useup)
        <5> TAKE k \in Ids
        <5>1. CASE k = q
          BY <3>2, <3>4, <5>1 DEF Goods
        <5>2. CASE k = o
          BY <1>2, <3>4, <5>2
        <5>3. CASE k # q /\ k # o
          BY <1>5, <2>1, <3>4, <3>5, <5>3 DEF Booked
        <5> QED
          BY <5>1, <5>2, <5>3
      <4>2. \A z \in Lines(b) : z.useup => t.obj[z.id].where = "billobjs"
        BY <1>5, <1>6, <3>2, <3>3, <3>4, <3>5 DEF Booked
      <4>3. \A k \in Ids : t.obj[k].where = "billobjs" => \E z \in Lines(b) : z.id = k /\ z.useup
        <5> SUFFICES ASSUME NEW k \in Ids, t.obj[k].where = "billobjs"
                     PROVE  \E z \in Lines(b) : z.id = k /\ z.useup
          OBVIOUS
        <5>1. CASE k = q
          BY <3>3, <3>5, <5>1
        <5>2. CASE k = o
          BY <1>2, <3>4, <5>2 DEF Goods
        <5>3. CASE k # q /\ k # o
          BY <1>5, <2>1, <3>4, <3>5, <5>3 DEF Booked
        <5> QED
          BY <5>1, <5>2, <5>3
      <4> QED
        BY <4>1, <4>2, <4>3 DEF Booked
    <3>7. Kept(t)
      BY <3>1, <3>4, <3>5, <3>6 DEF Kept, Typed
    <3>8. Right(s) => Right(t)
      BY <1>6, <2>4, <3>1, <3>3, <3>4, <3>5 DEF Right, Exact
    <3>9. ~Billed(t, o)
      BY <1>1, <3>1, <3>3, <3>5, BilledIs
    <3>10. \A p \in Free(s) : p = q \/ p \in Free(t)
      <4> SUFFICES ASSUME NEW p \in Free(s), p # q PROVE p \in Free(t)
        OBVIOUS
      <4>1. p \in Ids /\ t.obj[p].where = "none"
        BY <1>7, <3>4
      <4>2. ~Billed(t, p)
        BY <1>7, <3>1, <3>3, <3>5, BilledIs
      <4> QED
        BY <4>1, <4>2 DEF Free
    <3> QED
      BY <3>4, <3>7, <3>8, <3>9, <3>10 DEF t, v
  <2>5. CASE ~(used > 0)
    <3> DEFINE r == [s EXCEPT !.obj = back]
    <3>1. t = Unbill(r, i)
      BY <1>4, <1>9, <2>5 DEF SubOne
    <3>2. DOMAIN r = {"obj", "bill"} /\ r.bill = s.bill /\ r.obj = back
      BY KeptIs
    <3> HIDE DEF r
    <3> HIDE DEF t
    <3> HIDE DEF back
    <3> HIDE DEF v
    <3>3. Kept(r)
      <4>1. \A k \in Ids : r.obj[k].where \in Goods =>
              r.obj[k].quan > 0
              /\ (r.obj[k].unpaid => \E z \in Lines(s.bill) : z.id = k /\ ~z.useup)
        BY <1>2, <1>3, <1>5, <3>2 DEF Booked
      <4>2. \A k \in Ids : r.obj[k].where = "billobjs" <=> s.obj[k].where = "billobjs"
        BY <1>2, <1>3, <3>2
      <4> QED
        BY <1>3, <3>2, <4>1, <4>2, Touched
    <3>4. /\ DOMAIN t = {"obj", "bill"} /\ t.obj = back
          /\ t.bill \in Seq(Line) /\ Once(t.bill) /\ Len(t.bill) \in Nat
          /\ Len(t.bill) = Len(s.bill) - 1
          /\ Lines(t.bill) = Lines(s.bill) \ {x}
      <4>1. i \in DOMAIN r.bill /\ r.bill[i] = x
        BY <2>1, <3>2
      <4>2. /\ DOMAIN t = {"obj", "bill"} /\ t.obj = r.obj
            /\ t.bill \in Seq(Line) /\ Once(t.bill) /\ Len(t.bill) \in Nat
            /\ Len(t.bill) = Len(r.bill) - 1
            /\ Lines(t.bill) = Lines(r.bill) \ {r.bill[i]}
        <5> HIDE DEF i
        <5> QED
          BY <3>1, <3>3, <4>1, Unbilled
      <4> QED
        BY <3>2, <4>1, <4>2
    <3> HIDE DEF x
    <3>5. \A z \in Lines(t.bill) : z \in Lines(s.bill) /\ z # x /\ z.id # o
      BY <2>1, <3>4, OneLine, KeptIs
    <3>6. Booked(t.obj, Lines(t.bill))
      <4>1. \A k \in Ids : t.obj[k].where \in Goods =>
              t.obj[k].quan > 0 /\ (t.obj[k].unpaid => \E z \in Lines(t.bill) : z.id = k /\ ~z.useup)
        <5> TAKE k \in Ids
        <5>1. CASE k = o
          BY <1>2, <1>3, <3>4, <5>1
        <5>2. CASE k # o
          BY <1>3, <1>5, <2>1, <3>4, <5>2 DEF Booked
        <5> QED
          BY <5>1, <5>2
      <4>2. \A z \in Lines(t.bill) : z.useup => t.obj[z.id].where = "billobjs"
        BY <1>3, <1>5, <1>6, <3>4, <3>5 DEF Booked
      <4>3. \A k \in Ids : t.obj[k].where = "billobjs" => \E z \in Lines(t.bill) : z.id = k /\ z.useup
        BY <1>2, <1>3, <1>5, <2>2, <3>4 DEF Booked
      <4> QED
        BY <4>1, <4>2, <4>3 DEF Booked
    <3>7. Len(t.bill) <= BILLSZ
      BY <3>4, KeptIs, Bounds
    <3>8. Kept(t)
      BY <1>3, <3>4, <3>6, <3>7 DEF Kept, Typed
    <3>9. Right(s) => Right(t)
      BY <1>3, <1>6, <3>4, <3>5 DEF Right, Exact
    <3>10. ~Billed(t, o)
      BY <3>5, BilledIs
    <3>11. \A p \in Free(s) : p \in Free(t)
      BY <1>3, <1>7, <3>4, <3>5, BilledIs DEF Free
    <3> QED
      BY <1>3, <3>4, <3>8, <3>9, <3>10, <3>11 DEF t, v
  <2> QED
    BY <2>4, <2>5
<1> QED
  BY <1>8, <1>9

-----------------------------------------------------------------------------
(* addtobill for what is taken from the shelf: once it is in the pack, the *)
(* bill and the objects agree again.                                       *)

LEMMA Taken ==
  ASSUME NEW s, Kept(s), Right(s), NEW o \in Ids, s.obj[o].where = "shop"
  PROVE  LET t == AddToBill(s, o, FALSE)
             u == [t EXCEPT !.obj[o] = [@ EXCEPT !.where = "inv", !.nc = FALSE]]
         IN  Kept(t) /\ t.obj[o].where = "shop" /\ Right(u)
<1> DEFINE t == AddToBill(s, o, FALSE)
           u == [t EXCEPT !.obj[o] = [@ EXCEPT !.where = "inv", !.nc = FALSE]]
<1>1. /\ s.obj[o] \in Thing /\ ~s.obj[o].unpaid /\ s.obj[o].quan \in Nat /\ s.obj[o].quan > 0
      /\ ~Billed(s, o)
  BY KeptIs, Unlined DEF Goods
<1>2. Booked(s.obj, Lines(s.bill)) /\ \A z \in Lines(s.bill) : z.id # o /\ z.id \in Ids
  BY <1>1, BilledIs, KeptIs DEF Kept, Line
<1>3. CASE Full(s) \/ s.obj[o].nc
  <2> DEFINE v == IF Full(s) THEN s.obj[o] ELSE [s.obj[o] EXCEPT !.nc = FALSE]
  <2>1. DOMAIN t = {"obj", "bill"} /\ t.bill = s.bill /\ t.obj = [s.obj EXCEPT ![o] = v]
    <3>1. CASE Full(s)
      <4>1. t = s /\ v = s.obj[o]
        BY <1>1, <3>1 DEF AddToBill
      <4>2. s.obj = [s.obj EXCEPT ![o] = s.obj[o]]
        BY KeptIs
      <4> QED
        BY <4>1, <4>2, KeptIs
    <3>2. CASE ~Full(s)
      <4>1. t = [s EXCEPT !.obj[o].nc = FALSE]
        BY <1>1, <1>3, <3>2 DEF AddToBill
      <4> QED
        BY <3>2, <4>1, KeptIs
    <3> QED
      BY <3>1, <3>2
  <2>2. v \in Thing /\ v.where = "shop" /\ ~v.unpaid /\ v.quan = s.obj[o].quan
    BY <1>1 DEF Thing
  <2> HIDE DEF t
  <2> HIDE DEF v
  <2>3. /\ t.obj \in [Ids -> Thing] /\ t.obj[o] = v
        /\ \A k \in Ids : k # o => t.obj[k] = s.obj[k]
    BY <2>1, <2>2, KeptIs
  <2>4. Kept(t)
    <3>1. \A k \in Ids : t.obj[k].where \in Goods =>
            t.obj[k].quan > 0
            /\ (t.obj[k].unpaid => \E z \in Lines(s.bill) : z.id = k /\ ~z.useup)
      BY <1>1, <1>2, <2>2, <2>3 DEF Booked
    <3>2. \A k \in Ids : t.obj[k].where = "billobjs" <=> s.obj[k].where = "billobjs"
      BY <2>2, <2>3
    <3> QED
      BY <2>1, <2>3, <3>1, <3>2, Touched
  <2>5. u.bill = s.bill /\ \A k \in Ids : k # o => u.obj[k] = s.obj[k]
    BY <2>1, <2>3
  <2> HIDE DEF u
  <2>6. Right(u)
    BY <1>2, <2>5 DEF Right, Exact
  <2> QED
    BY <2>2, <2>3, <2>4, <2>6 DEF t, u
<1>4. CASE ~(Full(s) \/ s.obj[o].nc)
  <2> DEFINE v == [s.obj[o] EXCEPT !.unpaid = TRUE]
             f == Entry(o, s.obj[o].quan, FALSE)
             b == Append(s.bill, f)
  <2>1. DOMAIN t = {"obj", "bill"} /\ t.bill = b /\ t.obj = [s.obj EXCEPT ![o] = v]
    <3>1. t = [obj |-> [s.obj EXCEPT ![o] = v], bill |-> b]
      BY <1>1, <1>4 DEF AddToBill
    <3> HIDE DEF b
    <3> HIDE DEF t
    <3> HIDE DEF v
    <3> QED
      BY <3>1
  <2>2. v \in Thing /\ v.where = "shop" /\ v.unpaid /\ v.quan = s.obj[o].quan
    BY <1>1 DEF Thing
  <2>3. f \in Line /\ f.id = o /\ f.quan = s.obj[o].quan /\ ~f.useup
    BY <1>1 DEF Entry, Line
  <2> HIDE DEF t
  <2> HIDE DEF v
  <2> HIDE DEF f
  <2>4. /\ t.obj \in [Ids -> Thing] /\ t.obj[o] = v
        /\ \A k \in Ids : k # o => t.obj[k] = s.obj[k]
    BY <2>1, <2>2, KeptIs
  <2>5. b \in Seq(Line) /\ Len(b) = Len(s.bill) + 1 /\ Once(b) /\ Lines(b) = Lines(s.bill) \cup {f}
    BY <1>2, <2>3, Added, KeptIs
  <2> HIDE DEF b
  <2>6. Len(b) <= BILLSZ
    <3>1. Len(s.bill) # BILLSZ
      BY <1>4 DEF Full
    <3> QED
      BY <2>5, <3>1, KeptIs, Bounds
  <2>7. Booked(t.obj, Lines(b))
    <3>1. \A k \in Ids : t.obj[k].where \in Goods =>
            t.obj[k].quan > 0 /\ (t.obj[k].unpaid => \E z \in Lines(b) : z.id = k /\ ~z.useup)
      BY <1>1, <1>2, <2>2, <2>3, <2>4, <2>5 DEF Booked
    <3>2. \A z \in Lines(b) : z.useup => t.obj[z.id].where = "billobjs"
      BY <1>2, <2>3, <2>4, <2>5 DEF Booked
    <3>3. \A k \in Ids : t.obj[k].where = "billobjs" => \E z \in Lines(b) : z.id = k /\ z.useup
      BY <1>2, <2>2, <2>4, <2>5 DEF Booked
    <3> QED
      BY <3>1, <3>2, <3>3 DEF Booked
  <2>8. Kept(t)
    BY <2>1, <2>4, <2>5, <2>6, <2>7 DEF Kept, Typed
  <2> DEFINE w == [v EXCEPT !.where = "inv", !.nc = FALSE]
  <2>9. u.bill = b /\ u.obj[o] = w /\ \A k \in Ids : k # o => u.obj[k] = s.obj[k]
    BY <2>1, <2>4
  <2>10. w.where = "inv" /\ w.unpaid /\ w.quan = s.obj[o].quan
    BY <2>2 DEF Thing
  <2> HIDE DEF u
  <2> HIDE DEF w
  <2>11. Right(u)
    BY <1>1, <1>2, <2>3, <2>5, <2>9, <2>10 DEF Right, Exact
  <2> QED
    BY <2>2, <2>4, <2>8, <2>11 DEF t, u
<1> QED
  BY <1>3, <1>4

(* addinv and stackobj.                                                    *)
LEMMA Stowed ==
  ASSUME NEW s, Kept(s), NEW o \in Ids, s.obj[o].where \in Goods,
         Right([s EXCEPT !.obj[o] = [@ EXCEPT !.where = "inv", !.nc = FALSE]]),
         NEW r \in Stow(s, o)
  PROVE  Kept(r) /\ Right(r)
<1> DEFINE t == [s EXCEPT !.obj[o] = [@ EXCEPT !.where = "inv", !.nc = FALSE]]
           v == [s.obj[o] EXCEPT !.where = "inv", !.nc = FALSE]
           P == {p \in Ids : s.obj[p].where = "inv" /\ Mergable(t, p, o)}
<1>1. r = t \/ \E p \in P : r = Combine(t, p, o)
  BY DEF Stow
<1>2. DOMAIN t = {"obj", "bill"} /\ t.bill = s.bill /\ t.obj = [s.obj EXCEPT ![o] = v]
  BY KeptIs
<1>3. v \in Thing /\ v.where = "inv" /\ v.unpaid = s.obj[o].unpaid /\ v.quan = s.obj[o].quan
      /\ s.obj[o] \in Thing
  <2>1. s.obj[o] \in Thing
    BY KeptIs
  <2> QED
    BY <2>1 DEF Thing, Where
<1>4. Right(t)
  OBVIOUS
<1> HIDE DEF t
<1> HIDE DEF v
<1>5. /\ t.obj \in [Ids -> Thing] /\ t.obj[o] = v
      /\ \A k \in Ids : k # o => t.obj[k] = s.obj[k]
  BY <1>2, <1>3, KeptIs
<1>6. Kept(t)
  <2>1. Booked(s.obj, Lines(s.bill))
    BY DEF Kept
  <2>2. \A k \in Ids : t.obj[k].where \in Goods =>
          t.obj[k].quan > 0
          /\ (t.obj[k].unpaid => \E z \in Lines(s.bill) : z.id = k /\ ~z.useup)
    BY <1>3, <1>5, <2>1 DEF Booked
  <2>3. \A k \in Ids : t.obj[k].where = "billobjs" <=> s.obj[k].where = "billobjs"
    BY <1>3, <1>5 DEF Goods
  <2> QED
    BY <1>2, <1>5, <2>2, <2>3, Touched
<1>7. ASSUME NEW p \in P PROVE Kept(Combine(t, p, o)) /\ Right(Combine(t, p, o))
  <2>1. p \in Ids /\ p # o /\ s.obj[p].where = "inv"
        /\ [t.obj[p] EXCEPT !.quan = 0, !.where = ""] = [t.obj[o] EXCEPT !.quan = 0, !.where = ""]
    BY DEF Mergable
  <2>2. t.obj[p] \in Thing /\ t.obj[o] \in Thing
    BY <1>5, <2>1
  <2>3. t.obj[p].unpaid = t.obj[o].unpaid
    BY <2>1, <2>2 DEF Thing
  <2>4. t.obj[p].where \in Goods /\ t.obj[o].where \in Goods
    BY <1>3, <1>5, <2>1 DEF Goods
  <2> QED
    BY <1>4, <1>6, <2>1, <2>3, <2>4, Combined
<1> QED
  BY <1>1, <1>4, <1>6, <1>7

(* dropping it, and what it then lies with.                                *)
LEMMA Laid ==
  ASSUME NEW s, Kept(s), NEW o \in Ids, s.obj[o].where \in Goods,
         NEW w \in {"shop", "spot"}, NEW r \in Lay(s, o, w)
  PROVE  Kept(r) /\ (Right(s) /\ (w = "spot" \/ ~s.obj[o].unpaid) => Right(r))
<1> DEFINE t == [s EXCEPT !.obj[o].where = w]
           v == [s.obj[o] EXCEPT !.where = w]
           P == {p \in Ids : s.obj[p].where = w /\ Mergable(t, o, p)}
<1>1. r = t \/ \E p \in P : r = Combine(t, o, p)
  BY DEF Lay
<1>2. DOMAIN t = {"obj", "bill"} /\ t.bill = s.bill /\ t.obj = [s.obj EXCEPT ![o] = v]
  BY KeptIs
<1>3. v \in Thing /\ v.where = w /\ v.unpaid = s.obj[o].unpaid /\ v.quan = s.obj[o].quan
      /\ s.obj[o] \in Thing /\ v.quan \in Nat
  <2>1. s.obj[o] \in Thing
    BY KeptIs
  <2> QED
    BY <2>1 DEF Thing, Where
<1> HIDE DEF t
<1> HIDE DEF v
<1>4. /\ t.obj \in [Ids -> Thing] /\ t.obj[o] = v
      /\ \A k \in Ids : k # o => t.obj[k] = s.obj[k]
  BY <1>2, <1>3, KeptIs
<1>5. Right(s) /\ (w = "spot" \/ ~s.obj[o].unpaid) => Right(t)
  <2>1. \A k \in Ids : s.obj[k].quan \in Nat
    BY KeptIs DEF Thing
  <2> QED
    BY <1>2, <1>3, <1>4, <2>1, TouchedRight
<1>6. Kept(t)
  <2>1. Booked(s.obj, Lines(s.bill))
    BY DEF Kept
  <2>2. \A k \in Ids : t.obj[k].where \in Goods =>
          t.obj[k].quan > 0
          /\ (t.obj[k].unpaid => \E z \in Lines(s.bill) : z.id = k /\ ~z.useup)
    BY <1>3, <1>4, <2>1 DEF Booked
  <2>3. \A k \in Ids : t.obj[k].where = "billobjs" <=> s.obj[k].where = "billobjs"
    BY <1>3, <1>4 DEF Goods
  <2> QED
    BY <1>2, <1>4, <2>2, <2>3, Touched
<1>7. ASSUME NEW p \in P PROVE Kept(Combine(t, o, p)) /\ (Right(t) => Right(Combine(t, o, p)))
  <2>1. p \in Ids /\ p # o /\ s.obj[p].where = w
        /\ [t.obj[o] EXCEPT !.quan = 0, !.where = ""] = [t.obj[p] EXCEPT !.quan = 0, !.where = ""]
    BY DEF Mergable
  <2>2. t.obj[p] \in Thing /\ t.obj[o] \in Thing
    BY <1>4, <2>1
  <2>3. t.obj[p].unpaid = t.obj[o].unpaid
    BY <2>1, <2>2 DEF Thing
  <2>4. t.obj[p].where \in Goods /\ t.obj[o].where \in Goods
    BY <1>3, <1>4, <2>1 DEF Goods
  <2> QED
    BY <1>6, <2>1, <2>3, <2>4, Combined
<1> QED
  BY <1>1, <1>5, <1>6, <1>7

-----------------------------------------------------------------------------
(* One object that stays where it is and as unpaid as it was.              *)

LEMMA TouchedOne ==
  ASSUME NEW s, Kept(s), NEW o \in Ids, NEW v \in Thing, v.where = s.obj[o].where,
         v.unpaid = s.obj[o].unpaid, v.where \in Goods => v.quan > 0
  PROVE  LET t == [s EXCEPT !.obj[o] = v] IN
         /\ Kept(t) /\ t.obj[o] = v /\ \A k \in Ids : k # o => t.obj[k] = s.obj[k]
         /\ Right(s) /\ (v.quan <= s.obj[o].quan \/ ~v.unpaid \/ v.where \notin Goods) => Right(t)
<1> DEFINE t == [s EXCEPT !.obj[o] = v]
<1>1. DOMAIN t = {"obj", "bill"} /\ t.bill = s.bill /\ t.obj = [s.obj EXCEPT ![o] = v]
  BY KeptIs
<1> HIDE DEF t
<1>2. /\ t.obj \in [Ids -> Thing] /\ t.obj[o] = v
      /\ \A k \in Ids : k # o => t.obj[k] = s.obj[k]
  BY <1>1, KeptIs
<1>3. Kept(t)
  <2>1. Booked(s.obj, Lines(s.bill))
    BY DEF Kept
  <2>2. \A k \in Ids : t.obj[k].where \in Goods =>
          t.obj[k].quan > 0
          /\ (t.obj[k].unpaid => \E z \in Lines(s.bill) : z.id = k /\ ~z.useup)
    BY <1>2, <2>1 DEF Booked
  <2>3. \A k \in Ids : t.obj[k].where = "billobjs" <=> s.obj[k].where = "billobjs"
    BY <1>2
  <2> QED
    BY <1>1, <1>2, <2>2, <2>3, Touched
<1>4. Right(s) /\ (v.quan <= s.obj[o].quan \/ ~v.unpaid \/ v.where \notin Goods) => Right(t)
  <2>1. \A k \in Ids : s.obj[k].quan \in Nat
    BY KeptIs DEF Thing
  <2> QED
    BY <1>1, <1>2, <2>1, TouchedRight DEF Goods
<1> QED
  BY <1>2, <1>3, <1>4 DEF t

(* bill_dummy_object, after sub_one_frombill.                              *)
LEMMA Dummied ==
  ASSUME NEW s, Kept(s), Right(s), NEW o \in Ids, s.obj[o].where \in Goods,
         ~s.obj[o].unpaid, NEW q \in Free(s)
  PROVE  LET t == BillDummy(s, o, q) IN
         /\ Kept(t) /\ Right(t)
         /\ t.obj[o] = [s.obj[o] EXCEPT !.nc = TRUE, !.unpaid = FALSE]
<1> DEFINE m == [s EXCEPT !.obj[q] = s.obj[o]]
           a == AddToBill(m, q, TRUE)
           u == IF Billed(a, q) THEN a ELSE Dealloc(a, q)
           v == [s.obj[o] EXCEPT !.nc = TRUE, !.unpaid = FALSE]
           t == BillDummy(s, o, q)
<1>1. /\ q \in Ids /\ s.obj[q].where = "none" /\ q # o
      /\ \A z \in Lines(s.bill) : z.id # q
  BY FreeIs DEF Goods
<1>2. s.obj[o] \in Thing /\ s.obj[o].quan \in Nat /\ s.obj[o].quan > 0
  BY KeptIs, Unlined
<1>3. v \in Thing /\ v.where = s.obj[o].where /\ v.unpaid = s.obj[o].unpaid
      /\ v.quan = s.obj[o].quan
  BY <1>2 DEF Thing
<1>4. DOMAIN m = {"obj", "bill"} /\ m.bill = s.bill /\ m.obj = [s.obj EXCEPT ![q] = s.obj[o]]
  BY KeptIs
<1>5. t = [u EXCEPT !.obj[o] = [@ EXCEPT !.nc = TRUE, !.unpaid = FALSE]]
  BY DEF BillDummy
<1> HIDE DEF t
<1> HIDE DEF v
<1> HIDE DEF m
<1>6. ~Billed(m, q) /\ m.obj[q] = s.obj[o] /\ m.obj[o] = s.obj[o]
      /\ \A k \in Ids : k # q => m.obj[k] = s.obj[k]
  BY <1>1, <1>4, BilledIs, KeptIs
<1>7. ASSUME Kept(u), Right(u), u.obj[o] = s.obj[o]
      PROVE  Kept(t) /\ Right(t) /\ t.obj[o] = v
  <2> HIDE DEF u
  <2>1. t = [u EXCEPT !.obj[o] = v]
    <3>1. u.obj[o] = s.obj[o] /\ DOMAIN u = {"obj", "bill"} /\ u.obj \in [Ids -> Thing]
      BY <1>7, KeptIs
    <3>2. t = [u EXCEPT !.obj[o] = [u.obj[o] EXCEPT !.nc = TRUE, !.unpaid = FALSE]]
      BY <1>5
    <3> QED
      BY <3>1, <3>2 DEF v
  <2> QED
    BY <1>2, <1>3, <1>7, <2>1, TouchedOne
<1>8. CASE Full(m) \/ m.obj[q].nc
  <2> DEFINE x == IF Full(m) THEN m.obj[q] ELSE [m.obj[q] EXCEPT !.nc = FALSE]
  <2>1. DOMAIN a = {"obj", "bill"} /\ a.bill = m.bill /\ a.obj = [m.obj EXCEPT ![q] = x]
    <3>1. CASE Full(m)
      <4>1. a = m /\ x = m.obj[q]
        BY <1>6, <3>1 DEF AddToBill
      <4>2. m.obj = [m.obj EXCEPT ![q] = m.obj[q]]
        BY <1>4, KeptIs
      <4> QED
        BY <1>4, <4>1, <4>2
    <3>2. CASE ~Full(m)
      <4>1. a = [m EXCEPT !.obj[q].nc = FALSE]
        BY <1>6, <1>8, <3>2 DEF AddToBill
      <4> QED
        BY <1>4, <3>2, <4>1
    <3> QED
      BY <3>1, <3>2
  <2> HIDE DEF a
  <2> HIDE DEF x
  <2>2. u = Dealloc(a, q)
    <3>1. ~Billed(a, q)
      BY <1>6, <2>1, BilledIs
    <3> QED
      BY <3>1
  <2>3. DOMAIN u = {"obj", "bill"} /\ u.bill = s.bill /\ u.obj = [a.obj EXCEPT ![q] = Nil]
    BY <1>4, <2>1, <2>2 DEF Dealloc
  <2> HIDE DEF u
  <2>4. u.obj = [s.obj EXCEPT ![q] = Nil]
    BY <1>4, <2>1, <2>3
  <2>5. /\ u.obj \in [Ids -> Thing] /\ Booked(u.obj, Lines(s.bill))
        /\ Exact(s.obj, Lines(s.bill)) => Exact(u.obj, Lines(s.bill))
    BY <1>1, <2>4, Gone, KeptIs DEF Kept
  <2>6. Kept(u) /\ Right(u)
    BY <2>3, <2>5 DEF Kept, Typed, Right
  <2>7. u.obj[o] = s.obj[o]
    BY <1>1, <2>4
  <2> QED
    BY <1>7, <2>6, <2>7 DEF t, v, u
<1>9. CASE ~(Full(m) \/ m.obj[q].nc)
  <2> DEFINE x == [[s.obj[o] EXCEPT !.unpaid = TRUE] EXCEPT !.where = "billobjs"]
             f == Entry(q, s.obj[o].quan, TRUE)
             b == Append(s.bill, f)
  <2>1. a = [obj |-> [m.obj EXCEPT ![q] = x], bill |-> b]
    BY <1>4, <1>6, <1>9 DEF AddToBill
  <2>2. x \in Thing /\ x.where = "billobjs"
    BY <1>2 DEF Thing, Where
  <2>3. f \in Line /\ f.id = q /\ f.quan = s.obj[o].quan /\ f.useup
    BY <1>1, <1>2 DEF Entry, Line
  <2> HIDE DEF x
  <2> HIDE DEF f
  <2>4. b \in Seq(Line) /\ Len(b) = Len(s.bill) + 1 /\ Once(b) /\ Lines(b) = Lines(s.bill) \cup {f}
    BY <1>1, <2>3, Added, KeptIs
  <2> HIDE DEF b
  <2> HIDE DEF a
  <2>5. DOMAIN a = {"obj", "bill"} /\ a.bill = b /\ a.obj = [m.obj EXCEPT ![q] = x]
    BY <2>1
  <2>6. u = a
    <3>1. Billed(a, q)
      BY <2>3, <2>4, <2>5, BilledIs
    <3> QED
      BY <3>1
  <2> HIDE DEF u
  <2>7. /\ u.obj \in [Ids -> Thing] /\ u.obj[q] = x
        /\ \A k \in Ids : k # q => u.obj[k] = s.obj[k]
    <3>1. m.obj \in [Ids -> Thing]
      BY <1>1, <1>2, <1>4, KeptIs
    <3>2. u.obj = [m.obj EXCEPT ![q] = x]
      BY <2>5, <2>6
    <3> QED
      BY <1>1, <1>6, <2>2, <3>1, <3>2
  <2>8. Len(b) <= BILLSZ
    <3>1. Len(s.bill) # BILLSZ
      BY <1>4, <1>9 DEF Full
    <3> QED
      BY <2>4, <3>1, KeptIs, Bounds
  <2>9. \A z \in Lines(s.bill) : z.id \in Ids
    BY KeptIs DEF Line
  <2>10. Booked(s.obj, Lines(s.bill)) /\ Exact(s.obj, Lines(s.bill))
    BY DEF Kept, Right
  <2>11. Booked(u.obj, Lines(b))
    <3>1. \A k \in Ids : u.obj[k].where \in Goods =>
            u.obj[k].quan > 0 /\ (u.obj[k].unpaid => \E z \in Lines(b) : z.id = k /\ ~z.useup)
      BY <2>2, <2>4, <2>7, <2>10 DEF Booked, Goods
    <3>2. \A z \in Lines(b) : z.useup => u.obj[z.id].where = "billobjs"
      BY <1>1, <2>2, <2>3, <2>4, <2>7, <2>9, <2>10 DEF Booked
    <3>3. \A k \in Ids : u.obj[k].where = "billobjs" => \E z \in Lines(b) : z.id = k /\ z.useup
      BY <2>3, <2>4, <2>7, <2>10 DEF Booked
    <3> QED
      BY <3>1, <3>2, <3>3 DEF Booked
  <2>12. Kept(u)
    BY <2>4, <2>5, <2>6, <2>7, <2>8, <2>11 DEF Kept, Typed
  <2>13. Right(u)
    <3>1. Exact(u.obj, Lines(b))
      BY <1>1, <1>2, <2>3, <2>4, <2>7, <2>9, <2>10 DEF Exact
    <3> QED
      BY <2>5, <2>6, <3>1 DEF Right
  <2>14. u.obj[o] = s.obj[o]
    BY <1>1, <2>7
  <2> QED
    BY <1>7, <2>12, <2>13, <2>14 DEF t, v, u
<1> QED
  BY <1>8, <1>9

(* setpaid                                                                 *)
LEMMA WipedOut ==
  ASSUME NEW s, Kept(s)
  PROVE  LET t == SetPaid(s) IN Kept(t) /\ Right(t)
<1> DEFINE t == SetPaid(s)
           paid(o) == [s.obj[o] EXCEPT !.unpaid = FALSE]
<1>1. DOMAIN t = {"obj", "bill"} /\ t.bill = <<>>
  BY DEF SetPaid
<1>2. \A o \in Ids : t.obj[o] = IF s.obj[o].where = "billobjs" THEN Nil
                                ELSE IF Billed(s, o) THEN paid(o) ELSE s.obj[o]
  BY DEF SetPaid
<1>3. t.obj = [o \in Ids |-> t.obj[o]]
  BY DEF SetPaid
<1> HIDE DEF t
<1>4. \A o \in Ids : paid(o) \in Thing /\ paid(o).where = s.obj[o].where
                     /\ paid(o).quan = s.obj[o].quan /\ ~paid(o).unpaid
  <2> TAKE o \in Ids
  <2>1. s.obj[o] \in Thing
    BY KeptIs
  <2> QED
    BY <2>1 DEF Thing
<1> HIDE DEF paid
<1>5. t.obj \in [Ids -> Thing]
  <2>1. \A o \in Ids : t.obj[o] \in Thing
    BY <1>2, <1>4, NilIs, KeptIs
  <2> QED
    BY <1>3, <2>1
<1>6. Lines(t.bill) = {}
  <2>1. DOMAIN t.bill = {}
    BY <1>1
  <2> QED
    BY <2>1 DEF Lines
<1>7. Booked(t.obj, {})
  <2>1. \A o \in Ids : s.obj[o].where \in Goods =>
          s.obj[o].quan > 0 /\ (s.obj[o].unpaid => Billed(s, o))
    BY Unlined
  <2> QED
    BY <1>2, <1>4, <2>1, NilIs DEF Booked, Goods
<1>8. <<>> \in Seq(Line) /\ Len(<<>>) = 0 /\ Once(<<>>)
  <2>1. <<>> \in Seq(Line)
    OBVIOUS
  <2>2. Len(<<>>) = 0 /\ DOMAIN <<>> = {}
    OBVIOUS
  <2> QED
    BY <2>1, <2>2 DEF Once
<1> QED
  <2>1. Typed(t)
    BY <1>1, <1>5, <1>8, Bounds DEF Typed
  <2>2. Right(t)
    BY <1>6 DEF Right, Exact
  <2>3. Kept(t)
    BY <1>6, <1>7, <2>1 DEF Kept
  <2> QED
    BY <2>2, <2>3 DEF t

-----------------------------------------------------------------------------
(* The actions of the hero.                                                *)

LEMMA NowIs == Now.obj = obj /\ Now.bill = bill
BY DEF Now

LEMMA Became ==
  ASSUME NEW s, Kept(s), muddled' \in BOOLEAN, ~muddled' => Right(s), Become(s)
  PROVE  Books'
<1>1. obj' = s.obj /\ bill' = s.bill /\ Small(s)
  BY DEF Become
<1>2. Now'.obj = s.obj /\ Now'.bill = s.bill /\ DOMAIN Now' = {"obj", "bill"}
  BY <1>1 DEF Now
<1>3. Kept(Now)' /\ (~muddled' => Right(Now)')
  BY <1>2 DEF Kept, Typed, Right
<1>4. \A i \in DOMAIN s.bill : s.bill[i].quan >= 0
  <2>1. \A i \in DOMAIN s.bill : s.bill[i].quan \in 0 .. (MaxQuan + 1)
    BY <1>1 DEF Small
  <2> QED
    BY <2>1, Bounds
<1> QED
  BY <1>1, <1>3, <1>4 DEF Books

LEMMA PartIs ==
  ASSUME Kept(Now), NEW o \in Ids, obj[o].where \in Goods, NEW n, CanPart(o, n)
  PROVE  LET s == Parted(Now, o, n)
             q == Part(Now, o, n)
         IN  /\ q \in Ids /\ Kept(s) /\ (Right(Now) => Right(s))
             /\ s.obj[q].where = obj[o].where
             /\ ~obj[o].unpaid => ~s.obj[q].unpaid
<1>1. CASE n = obj[o].quan
  BY <1>1, NowIs DEF Parted, Part
<1>2. CASE n # obj[o].quan
  <2>1. obj[o].quan \in Nat /\ n \in 1 .. obj[o].quan
    BY NowIs, KeptIs DEF CanPart, Thing
  <2>2. n \in Nat /\ 0 < n /\ n < obj[o].quan
    BY <1>2, <2>1
  <2>3. NewId(Now) \in Free(Now) /\ NewId(Now) \in Ids
    BY <2>2, RoomIs, NewIdIs, FreeIs DEF CanPart
  <2> DEFINE q == NewId(Now)
             s == Split(Now, o, n, q)
  <2>4. Parted(Now, o, n) = s /\ Part(Now, o, n) = q
    BY <1>2, NowIs DEF Parted, Part
  <2>5. /\ Kept(s) /\ (Right(Now) => Right(s))
        /\ s.obj[q].where = Now.obj[o].where
        /\ ~Now.obj[o].unpaid => ~s.obj[q].unpaid
    <3>1. Now.obj[o].where \in Goods /\ n < Now.obj[o].quan
      BY <2>2, NowIs
    <3> HIDE DEF q
    <3>2. q \in Free(Now)
      BY <2>3 DEF q
    <3> QED
      BY <2>2, <3>1, <3>2, SplitOff
  <2> HIDE DEF s
  <2> HIDE DEF q
  <2> QED
    BY <2>3, <2>4, <2>5, NowIs DEF q
<1> QED
  BY <1>1, <1>2

LEMMA PickUpBooks ==
  ASSUME ShopInv, NEW o \in Ids, NEW n, PickUp(o, n)
  PROVE  Books'
<1> DEFINE s == Parted(Now, o, n)
           q == Part(Now, o, n)
           t == IF obj[o].where = "shop" THEN AddToBill(s, q, FALSE) ELSE s
<1>1. /\ Kept(Now) /\ Right(Now) /\ obj[o].where \in {"shop", "spot"} /\ CanPart(o, n)
      /\ muddled' = muddled /\ muddled \in BOOLEAN
  BY DEF ShopInv, Books, Money, PickUp, Tidy, Owe
<1>2. PICK r \in Stow(t, q) : Become(r)
  BY DEF PickUp
<1>3. q \in Ids /\ Kept(s) /\ Right(s) /\ s.obj[q].where = obj[o].where
  BY <1>1, PartIs DEF Goods
<1> HIDE DEF s
<1> HIDE DEF q
<1>4. /\ Kept(t) /\ t.obj[q].where \in Goods
      /\ Right([t EXCEPT !.obj[q] = [@ EXCEPT !.where = "inv", !.nc = FALSE]])
  <2>1. CASE obj[o].where = "shop"
    BY <1>3, <2>1, Taken DEF Goods
  <2>2. CASE obj[o].where = "spot"
    <3> DEFINE u == [s EXCEPT !.obj[q] = [@ EXCEPT !.where = "inv", !.nc = FALSE]]
               v == [s.obj[q] EXCEPT !.where = "inv", !.nc = FALSE]
    <3>1. t = s
      BY <2>2
    <3>2. u.bill = s.bill /\ u.obj = [s.obj EXCEPT ![q] = v]
      BY <1>3, KeptIs
    <3>3. v \in Thing /\ v.where = "inv" /\ v.unpaid = s.obj[q].unpaid /\ v.quan = s.obj[q].quan
          /\ s.obj[q] \in Thing
      <4>1. s.obj[q] \in Thing
        BY <1>3, KeptIs
      <4> QED
        BY <4>1 DEF Thing, Where
    <3> HIDE DEF u
    <3> HIDE DEF v
    <3>4. u.obj \in [Ids -> Thing] /\ u.obj[q] = v /\ \A k \in Ids : k # q => u.obj[k] = s.obj[k]
      BY <1>3, <3>2, <3>3, KeptIs
    <3>5. \A k \in Ids : s.obj[k].quan \in Nat
      BY <1>3, KeptIs DEF Thing
    <3>6. Right(u)
      BY <1>3, <3>2, <3>3, <3>4, <3>5, TouchedRight
    <3> QED
      BY <1>3, <2>2, <3>1, <3>6 DEF u, Goods
  <2> QED
    BY <1>1, <2>1, <2>2
<1> HIDE DEF t
<1>5. Kept(r) /\ Right(r)
  BY <1>2, <1>3, <1>4, Stowed
<1> QED
  BY <1>1, <1>2, <1>5, Became

LEMMA DropUnpaidBooks ==
  ASSUME ShopInv, NEW o \in Ids, NEW n, DropUnpaid(o, n)
  PROVE  Books'
<1> DEFINE s == Parted(Now, o, n)
           q == Part(Now, o, n)
           t == IF s.obj[q].unpaid THEN SubOne(s, q) ELSE [s EXCEPT !.obj[q].nc = TRUE]
<1>1. /\ Kept(Now) /\ (~muddled => Right(Now)) /\ obj[o].where = "inv" /\ CanPart(o, n)
      /\ muddled' = muddled /\ muddled \in BOOLEAN /\ Free(s) # {}
  BY RoomIs DEF ShopInv, Books, Money, DropUnpaid, Owe
<1>2. PICK r \in Lay(t, q, "shop") : Become(r)
  BY DEF DropUnpaid
<1>3. q \in Ids /\ Kept(s) /\ (~muddled => Right(s)) /\ s.obj[q].where = "inv"
  BY <1>1, PartIs DEF Goods
<1> HIDE DEF s
<1> HIDE DEF q
<1>4. s.obj[q] \in Thing /\ s.obj[q].where \in Goods /\ s.obj[q].quan > 0
  BY <1>3, KeptIs, Unlined DEF Goods
<1>5. Kept(t) /\ (~muddled => Right(t)) /\ t.obj[q].where = "inv" /\ ~t.obj[q].unpaid
  <2>1. CASE s.obj[q].unpaid
    <3>1. t = SubOne(s, q)
      BY <2>1
    <3> HIDE DEF t
    <3>2. /\ Kept(t) /\ (Right(s) => Right(t))
          /\ t.obj[q] = [s.obj[q] EXCEPT !.unpaid = FALSE]
      <4>1. /\ Kept(SubOne(s, q)) /\ (Right(s) => Right(SubOne(s, q)))
            /\ SubOne(s, q).obj[q] = [s.obj[q] EXCEPT !.unpaid = FALSE]
        BY <1>1, <1>3, <1>4, SubbedOne DEF s
      <4> QED
        BY <3>1, <4>1
    <3> QED
      BY <1>3, <1>4, <3>2 DEF Thing
  <2>2. CASE ~s.obj[q].unpaid
    <3> DEFINE v == [s.obj[q] EXCEPT !.nc = TRUE]
    <3>1. t = [s EXCEPT !.obj[q] = v]
      BY <2>2
    <3>2. v \in Thing /\ v.where = s.obj[q].where /\ v.unpaid = s.obj[q].unpaid
          /\ v.quan > 0
      BY <1>4 DEF Thing
    <3> HIDE DEF t
    <3> HIDE DEF v
    <3> QED
      BY <1>3, <2>2, <3>1, <3>2, TouchedOne
  <2> QED
    BY <2>1, <2>2
<1> HIDE DEF t
<1>6. Kept(r) /\ (~muddled => Right(r))
  BY <1>2, <1>3, <1>5, Laid DEF Goods
<1> QED
  BY <1>1, <1>2, <1>6, Became

LEMMA DropOwnBooks ==
  ASSUME ShopInv, NEW o \in Ids, NEW n, NEW sold \in BOOLEAN, DropOwn(o, n, sold)
  PROVE  Books'
<1> DEFINE s == Parted(Now, o, n)
           q == Part(Now, o, n)
           v == [s.obj[q] EXCEPT !.nc = ~sold]
           t == [s EXCEPT !.obj[q].nc = ~sold]
<1>1. /\ Kept(Now) /\ Right(Now) /\ obj[o].where = "inv" /\ CanPart(o, n) /\ ~obj[o].unpaid
      /\ muddled' = muddled /\ muddled \in BOOLEAN
  BY DEF ShopInv, Books, Money, DropOwn, Tidy
<1>2. PICK r \in Lay(t, q, "shop") : Become(r)
  BY DEF DropOwn
<1>3. q \in Ids /\ Kept(s) /\ Right(s) /\ s.obj[q].where = "inv" /\ ~s.obj[q].unpaid
  BY <1>1, PartIs DEF Goods
<1> HIDE DEF s
<1> HIDE DEF q
<1>4. s.obj[q] \in Thing /\ s.obj[q].quan > 0
  BY <1>3, KeptIs, Unlined DEF Goods
<1>5. t = [s EXCEPT !.obj[q] = v]
  OBVIOUS
<1>6. v \in Thing /\ v.where = s.obj[q].where /\ v.unpaid = s.obj[q].unpaid /\ v.quan > 0
  BY <1>4 DEF Thing
<1> HIDE DEF t
<1> HIDE DEF v
<1>7. Kept(t) /\ Right(t) /\ t.obj[q] = v
  BY <1>3, <1>5, <1>6, TouchedOne
<1>8. Kept(r) /\ Right(r)
  BY <1>2, <1>3, <1>6, <1>7, Laid DEF Goods
<1> QED
  BY <1>1, <1>2, <1>8, Became

LEMMA DropOnSpotBooks ==
  ASSUME ShopInv, NEW o \in Ids, NEW n, DropOnSpot(o, n)
  PROVE  Books'
<1> DEFINE s == Parted(Now, o, n)
           q == Part(Now, o, n)
<1>1. /\ Kept(Now) /\ Right(Now) /\ obj[o].where = "inv" /\ CanPart(o, n)
      /\ muddled' = muddled /\ muddled \in BOOLEAN
  BY DEF ShopInv, Books, Money, DropOnSpot, Tidy, Owe
<1>2. PICK r \in Lay(s, q, "spot") : Become(r)
  BY DEF DropOnSpot
<1>3. q \in Ids /\ Kept(s) /\ Right(s) /\ s.obj[q].where = "inv"
  BY <1>1, PartIs DEF Goods
<1> HIDE DEF s
<1> HIDE DEF q
<1>4. Kept(r) /\ Right(r)
  BY <1>2, <1>3, Laid DEF Goods
<1> QED
  BY <1>1, <1>2, <1>4, Became

LEMMA AdjustSplitBooks ==
  ASSUME ShopInv, NEW o \in Ids, NEW n, AdjustSplit(o, n)
  PROVE  Books'
<1> DEFINE q == NewId(Now)
           s == Split(Now, o, n, q)
<1>1. /\ Kept(Now) /\ (~muddled => Right(Now)) /\ Now.obj[o].where \in Goods
      /\ n \in 1 .. (obj[o].quan - 1) /\ Free(Now) # {}
      /\ muddled' = muddled /\ muddled \in BOOLEAN /\ Become(s)
  BY RoomIs, NowIs DEF ShopInv, Books, Money, AdjustSplit, Owe, Goods
<1>2. n \in Nat /\ 0 < n /\ n < Now.obj[o].quan
  <2>1. obj[o].quan \in Nat
    BY <1>1, NowIs, KeptIs DEF Thing
  <2> QED
    BY <1>1, <2>1, NowIs
<1>3. q \in Free(Now)
  BY <1>1, NewIdIs
<1> HIDE DEF q
<1>4. Kept(s) /\ (Right(Now) => Right(s))
  BY <1>1, <1>2, <1>3, SplitOff
<1> HIDE DEF s
<1> QED
  BY <1>1, <1>4, Became

LEMMA AdjustMergeBooks ==
  ASSUME ShopInv, NEW p \in Ids, NEW o \in Ids, AdjustMerge(p, o)
  PROVE  Books'
<1> DEFINE r == Combine(Now, p, o)
<1>1. /\ Kept(Now) /\ (~muddled => Right(Now)) /\ Now.obj[p].where \in Goods
      /\ Now.obj[o].where \in Goods /\ p # o
      /\ [Now.obj[p] EXCEPT !.quan = 0, !.where = ""] = [Now.obj[o] EXCEPT !.quan = 0, !.where = ""]
      /\ muddled' = muddled /\ muddled \in BOOLEAN /\ Become(r)
  BY NowIs DEF ShopInv, Books, Money, AdjustMerge, Mergable, Goods
<1>2. Now.obj[p] \in Thing /\ Now.obj[o] \in Thing
  BY <1>1, KeptIs
<1>3. Now.obj[p].unpaid = Now.obj[o].unpaid
  BY <1>1, <1>2 DEF Thing
<1>4. Kept(r) /\ (Right(Now) => Right(r))
  BY <1>1, <1>3, Combined
<1> HIDE DEF r
<1> QED
  BY <1>1, <1>4, Became

LEMMA UseBooks ==
  ASSUME ShopInv, NEW o \in Ids, Use(o)
  PROVE  Books'
<1> DEFINE r == UseUp(Now, o)
<1>1. /\ Kept(Now) /\ (~muddled => Right(Now)) /\ Now.obj[o].where \in Goods
      /\ muddled' = muddled /\ muddled \in BOOLEAN /\ Become(r)
  BY NowIs DEF ShopInv, Books, Money, Use, Goods
<1>2. Kept(r) /\ (Right(Now) => Right(r))
  BY <1>1, UsedUp
<1> HIDE DEF r
<1> QED
  BY <1>1, <1>2, Became

LEMMA LeaveBooks ==
  ASSUME ShopInv, Leave \/ OutOfOrder
  PROVE  Books'
<1>1. Kept(Now) /\ muddled' \in BOOLEAN /\ Become(SetPaid(Now))
  BY DEF ShopInv, Books, Leave, OutOfOrder, Settled
<1>2. Kept(SetPaid(Now)) /\ Right(SetPaid(Now))
  BY <1>1, WipedOut
<1> QED
  BY <1>1, <1>2, Became

LEMMA TwoRooms ==
  ASSUME NEW s, Room(s, 2)
  PROVE  Free(s) # {} /\ \E p \in Free(s) : p # NewId(s)
<1>1. Free(s) # {}
  BY RoomIs
<1>2. NewId(s) \in Free(s)
  BY <1>1, NewIdIs
<1>3. Free(s) # {NewId(s)}
  <2>1. Cardinality({NewId(s)}) = 1
    BY FS_Singleton
  <2> QED
    BY <2>1 DEF Room
<1> QED
  BY <1>1, <1>2, <1>3

LEMMA DiluteBooks ==
  ASSUME ShopInv, NEW o \in Ids, Dilute(o)
  PROVE  Books'
<1> DEFINE s == SubOne(Now, o)
           t == IF obj[o].unpaid THEN BillDummy(s, o, NewId(s)) ELSE Now
           v == Wetter(t.obj[o])
           r == [t EXCEPT !.obj[o] = Wetter(@)]
<1>1. /\ Kept(Now) /\ Right(Now) /\ Now.obj[o].where \in Goods
      /\ obj[o].unpaid => Room(Now, 2)
      /\ muddled' = muddled /\ muddled \in BOOLEAN
  BY NowIs DEF ShopInv, Books, Money, Dilute, Tidy, Owe, Goods
<1>2. Become(r)
  BY DEF Dilute
<1>3. Now.obj[o] \in Thing /\ Now.obj[o].quan > 0
  BY <1>1, KeptIs, Unlined
<1>4. Kept(t) /\ Right(t) /\ t.obj[o].where \in Goods
  <2>1. CASE obj[o].unpaid
    <3>1. Free(Now) # {} /\ \E p \in Free(Now) : p # NewId(Now)
      BY <1>1, <2>1, TwoRooms
    <3>2. /\ Kept(s) /\ Right(s)
          /\ s.obj[o] = [Now.obj[o] EXCEPT !.unpaid = FALSE]
          /\ \A p \in Free(Now) : p = NewId(Now) \/ p \in Free(s)
      BY <1>1, <3>1, SubbedOne
    <3>3. t = BillDummy(s, o, NewId(s))
      BY <2>1
    <3> HIDE DEF s
    <3> HIDE DEF t
    <3>4. NewId(s) \in Free(s)
      BY <3>1, <3>2, NewIdIs
    <3>5. s.obj[o].where \in Goods /\ ~s.obj[o].unpaid /\ s.obj[o] \in Thing
      BY <1>1, <1>3, <3>2 DEF Thing
    <3>6. Kept(t) /\ Right(t) /\ t.obj[o] = [s.obj[o] EXCEPT !.nc = TRUE, !.unpaid = FALSE]
      <4> DEFINE q == NewId(s)
      <4>1. q \in Free(s) /\ t = BillDummy(s, o, q)
        BY <3>3, <3>4
      <4> HIDE DEF q
      <4>2. /\ Kept(BillDummy(s, o, q)) /\ Right(BillDummy(s, o, q))
            /\ BillDummy(s, o, q).obj[o] = [s.obj[o] EXCEPT !.nc = TRUE, !.unpaid = FALSE]
        <5>1. Kept(s) /\ Right(s) /\ s.obj[o].where \in Goods /\ ~s.obj[o].unpaid /\ q \in Free(s)
          BY <3>2, <3>5, <4>1
        <5> QED
          BY <5>1, Dummied
      <4> QED
        BY <4>1, <4>2
    <3> QED
      BY <3>5, <3>6 DEF Thing
  <2>2. CASE ~obj[o].unpaid
    BY <1>1, <2>2
  <2> QED
    BY <2>1, <2>2
<1> HIDE DEF t
<1>5. r = [t EXCEPT !.obj[o] = v]
  OBVIOUS
<1>6. v \in Thing /\ v.where = t.obj[o].where /\ v.unpaid = t.obj[o].unpaid
      /\ v.quan = t.obj[o].quan /\ v.quan > 0 /\ v.quan \in Nat
  <2>1. t.obj[o] \in Thing /\ t.obj[o].quan > 0
    BY <1>4, KeptIs, Unlined
  <2> QED
    BY <2>1, ShopAssumption DEF Wetter, Thing
<1> HIDE DEF v
<1> HIDE DEF r
<1>7. v.quan <= t.obj[o].quan
  BY <1>6
<1>8. Kept(r) /\ Right(r)
  BY <1>4, <1>5, <1>6, <1>7, TouchedOne
<1> QED
  BY <1>1, <1>2, <1>8, Became

LEMMA DipMergeBooks ==
  ASSUME ShopInv, NEW p \in Ids, NEW o \in Ids, DipMerge(p, o)
  PROVE  Books'
<1> DEFINE r == Combine(Now, p, o)
           v == [r.obj[p] EXCEPT !.dil = TRUE]
           t == [r EXCEPT !.obj[p].dil = TRUE]
<1>1. /\ Kept(Now) /\ Right(Now) /\ Now.obj[p].where \in Goods /\ Now.obj[o].where \in Goods
      /\ p # o /\ muddled' = (muddled \/ obj[p].unpaid # obj[o].unpaid)
      /\ ~muddled /\ muddled \in BOOLEAN
  BY NowIs DEF ShopInv, Books, Money, DipMerge, Tidy, Muddle, Goods
<1>2. Become(t)
  BY DEF DipMerge
<1>3. /\ Kept(r) /\ (Right(Now) /\ Now.obj[p].unpaid = Now.obj[o].unpaid => Right(r))
      /\ r.obj[p] = [Now.obj[p] EXCEPT !.quan = @ + Now.obj[o].quan]
  BY <1>1, Combined
<1> HIDE DEF r
<1>4. Now.obj[p] \in Thing /\ Now.obj[p].quan > 0 /\ Now.obj[o].quan > 0
      /\ Now.obj[p].quan \in Nat /\ Now.obj[o].quan \in Nat
  BY <1>1, KeptIs, Unlined
<1>5. r.obj[p].where = Now.obj[p].where /\ r.obj[p].quan > 0 /\ r.obj[p].quan \in Nat
      /\ r.obj[p] \in Thing
  <2>1. Now.obj[p].quan + Now.obj[o].quan > 0 /\ Now.obj[p].quan + Now.obj[o].quan \in Nat
    BY <1>4
  <2> QED
    BY <1>3, <1>4, <2>1 DEF Thing
<1>6. t = [r EXCEPT !.obj[p] = v]
  OBVIOUS
<1>7. v \in Thing /\ v.where = r.obj[p].where /\ v.unpaid = r.obj[p].unpaid
      /\ v.quan = r.obj[p].quan
  BY <1>5 DEF Thing
<1> HIDE DEF v
<1> HIDE DEF t
<1>8. Kept(t) /\ (Right(r) => Right(t))
  <2>1. v.quan <= r.obj[p].quan /\ v.quan > 0
    BY <1>5, <1>7
  <2> QED
    BY <1>3, <1>6, <1>7, <2>1, TouchedOne
<1>9. ~muddled' => Right(t)
  BY <1>1, <1>3, <1>8, NowIs
<1>10. muddled' \in BOOLEAN
  BY <1>1
<1> QED
  BY <1>2, <1>8, <1>9, <1>10, Became

LEMMA MixBooks ==
  ASSUME ShopInv, NEW p \in Ids, NEW o \in Ids, Mix(p, o)
  PROVE  Books'
<1>1. PICK t \in Types : Become([UseUp([Now EXCEPT !.obj[o] = Mixture(@, t)], p) EXCEPT !.obj[o].quan = @ + 1])
  BY DEF Mix
<1> DEFINE v == Mixture(Now.obj[o], t)
           n == [Now EXCEPT !.obj[o] = Mixture(@, t)]
           r == UseUp(n, p)
           w == [r.obj[o] EXCEPT !.quan = @ + 1]
           m == [r EXCEPT !.obj[o].quan = @ + 1]
<1>2. /\ Kept(Now) /\ Right(Now) /\ Now.obj[p].where \in Goods /\ Now.obj[o].where \in Goods
      /\ p # o /\ muddled' = (muddled \/ obj[o].unpaid)
      /\ ~muddled /\ muddled \in BOOLEAN
  BY NowIs DEF ShopInv, Books, Money, Mix, Tidy, Muddle, Goods
<1>3. Become(m)
  BY <1>1
<1>4. Now.obj[o] \in Thing /\ Now.obj[o].quan > 0 /\ Now.obj[o].quan \in Nat
  BY <1>2, KeptIs, Unlined
<1>5. v \in Thing /\ v.where = Now.obj[o].where /\ v.unpaid = Now.obj[o].unpaid
      /\ v.quan = Now.obj[o].quan
  BY <1>4 DEF Mixture, Thing
<1>6. n = [Now EXCEPT !.obj[o] = v]
  OBVIOUS
<1> HIDE DEF v
<1> HIDE DEF n
<1>7. Kept(n) /\ Right(n) /\ n.obj[o] = v /\ n.obj[p] = Now.obj[p]
  <2>1. v.quan <= Now.obj[o].quan
    BY <1>4, <1>5
  <2> QED
    BY <1>2, <1>4, <1>5, <1>6, <2>1, TouchedOne
<1>8. Kept(r) /\ Right(r) /\ r.obj[o] = v
  BY <1>2, <1>7, UsedUp
<1> HIDE DEF r
<1>9. m = [r EXCEPT !.obj[o] = w]
  OBVIOUS
<1>10. w \in Thing /\ w.where = r.obj[o].where /\ w.unpaid = r.obj[o].unpaid /\ w.quan > 0
  <2>1. v.quan + 1 > 0 /\ v.quan + 1 \in Nat
    BY <1>4, <1>5
  <2> QED
    BY <1>5, <1>8, <2>1 DEF Thing
<1> HIDE DEF w
<1> HIDE DEF m
<1>11. Kept(m) /\ (~w.unpaid => Right(m))
  BY <1>8, <1>9, <1>10, TouchedOne
<1>12. ~muddled' => Right(m)
  BY <1>2, <1>5, <1>8, <1>10, <1>11, NowIs
<1>13. muddled' \in BOOLEAN
  <2>1. obj[o].unpaid \in BOOLEAN
    BY <1>4, NowIs DEF Thing
  <2> QED
    BY <1>2, <2>1
<1> QED
  BY <1>3, <1>11, <1>12, <1>13, Became

LEMMA BoomBooks ==
  ASSUME ShopInv, NEW p \in Ids, NEW o \in Ids, Boom(p, o)
  PROVE  Books'
<1> DEFINE s == UseUp(Now, o)
           r == UseUp(s, p)
<1>1. /\ Kept(Now) /\ Right(Now) /\ Now.obj[p].where \in Goods /\ Now.obj[o].where \in Goods
      /\ p # o /\ muddled' = muddled /\ muddled \in BOOLEAN /\ Become(r)
  BY NowIs DEF ShopInv, Books, Money, Boom, Tidy, Goods
<1>2. Kept(s) /\ Right(s) /\ s.obj[p] = Now.obj[p]
  BY <1>1, UsedUp
<1> HIDE DEF s
<1>3. Kept(r) /\ Right(r)
  BY <1>1, <1>2, UsedUp
<1> HIDE DEF r
<1> QED
  BY <1>1, <1>3, Became

-----------------------------------------------------------------------------
(* dopay.                                                                  *)

(* The entry the loop is at.                                               *)
LEMMA AtEntry ==
  ASSUME ShopInv, pay.on, ~AtEnd
  PROVE  /\ Kept(Now) /\ (~muddled => Right(Now))
         /\ pay.tmp \in DOMAIN bill /\ Bp \in Line /\ Bp \in Lines(bill) /\ Bp.id \in Ids
         /\ Bp.quan \in Nat /\ obj[Bp.id] \in Thing
         /\ Bp.useup => obj[Bp.id].where = "billobjs"
         /\ obj[Bp.id].where \in Goods => obj[Bp.id].quan > 0
         /\ Right(Now) => Found
         /\ Right(Now) /\ ~Bp.useup => obj[Bp.id].unpaid /\ obj[Bp.id].quan <= Bp.quan
<1>1. Kept(Now) /\ (~muddled => Right(Now)) /\ bill \in Seq(Line) /\ obj \in [Ids -> Thing]
      /\ \A i \in DOMAIN bill : bill[i].quan >= 0
  BY NowIs, KeptIs DEF ShopInv, Books
<1>2. pay.tmp \in DOMAIN bill
  <2>1. pay.tmp \in Nat /\ pay.tmp >= 1
    BY DEF ShopInv, Money
  <2>2. Len(bill) \in Nat /\ DOMAIN bill = 1 .. Len(bill)
    BY <1>1
  <2> QED
    BY <2>1, <2>2 DEF AtEnd
<1>3. Bp \in Line /\ Bp \in Lines(bill) /\ Bp.quan >= 0
  BY <1>1, <1>2 DEF Bp, Lines
<1>4. Bp.id \in Ids /\ Bp.quan \in Nat
  BY <1>3 DEF Line
<1>5. obj[Bp.id] \in Thing
  BY <1>1, <1>4
<1>6. Booked(obj, Lines(bill)) /\ (Right(Now) => Exact(obj, Lines(bill)))
  BY <1>1, NowIs DEF Kept, Right
<1>7. Bp.useup => obj[Bp.id].where = "billobjs"
  BY <1>3, <1>6 DEF Booked
<1>8. obj[Bp.id].where \in Goods => obj[Bp.id].quan > 0
  BY <1>4, <1>6 DEF Booked
<1>9. Right(Now) /\ ~Bp.useup =>
        obj[Bp.id].where \in {"spot", "inv"} /\ obj[Bp.id].unpaid /\ obj[Bp.id].quan <= Bp.quan
  BY <1>3, <1>6 DEF Exact
<1>10. Right(Now) => Found
  BY <1>7, <1>9 DEF Found
<1> QED
  BY <1>1, <1>2, <1>3, <1>4, <1>5, <1>7, <1>8, <1>9, <1>10

LEMMA RestoredIs ==
  ASSUME ShopInv, pay.on, ~AtEnd
  PROVE  /\ Kept(Restored) /\ (Right(Now) => Right(Restored)) /\ Restored.bill = bill
         /\ Quan \in Nat /\ (~Bp.useup => Quan = obj[Bp.id].quan) /\ (Bp.useup => Quan = Bp.quan)
         /\ Restored.obj[Bp.id] = [obj[Bp.id] EXCEPT !.quan = Quan]
         /\ \A k \in Ids : k # Bp.id => Restored.obj[k] = obj[k]
<1> DEFINE v == [Now.obj[Bp.id] EXCEPT !.quan = Quan]
<1>1. Quan \in Nat /\ (~Bp.useup => Quan = obj[Bp.id].quan) /\ (Bp.useup => Quan = Bp.quan)
  BY AtEntry DEF Quan, Thing
<1>2. Restored = [Now EXCEPT !.obj[Bp.id] = v]
  BY DEF Restored
<1>3. v \in Thing /\ v.where = Now.obj[Bp.id].where /\ v.unpaid = Now.obj[Bp.id].unpaid
      /\ v.quan = Quan
  BY <1>1, AtEntry, NowIs DEF Thing
<1>4. (v.where \in Goods => v.quan > 0) /\ (v.quan <= Now.obj[Bp.id].quan \/ v.where \notin Goods)
  BY <1>1, <1>3, AtEntry, NowIs DEF Goods
<1> HIDE DEF v
<1>5. Bp.id \in Ids /\ Kept(Now)
  BY AtEntry
<1>6. /\ Kept(Restored) /\ (Right(Now) => Right(Restored)) /\ Restored.obj[Bp.id] = v
      /\ \A k \in Ids : k # Bp.id => Restored.obj[k] = Now.obj[k]
  BY <1>2, <1>3, <1>4, <1>5, TouchedOne
<1>7. Restored.bill = bill
  BY <1>2, <1>5, NowIs
<1> QED
  BY <1>1, <1>6, <1>7, NowIs DEF v

(* An entry that goes leaves a thing that is paid for, or nothing.         *)
LEMMA LineGone ==
  ASSUME NEW s, Kept(s), NEW i \in DOMAIN s.bill, NEW v \in Thing,
         v.where # "billobjs", v.where \in Goods => v.quan > 0 /\ ~v.unpaid,
         NEW t, DOMAIN t = {"obj", "bill"}, t.obj = [s.obj EXCEPT ![s.bill[i].id] = v],
         t.bill = Unbill(s, i).bill
  PROVE  Kept(t) /\ (Right(s) => Right(t))
<1> DEFINE x == s.bill[i]
           o == x.id
           M == Lines(s.bill)
           L == Lines(t.bill)
<1>1. x \in M /\ (\A z \in M : z \in Line /\ z.id \in Ids) /\ o \in Ids
  BY KeptIs DEF Lines, Line
<1>2. /\ t.bill \in Seq(Line) /\ Once(t.bill) /\ Len(t.bill) <= BILLSZ /\ L = M \ {x}
  <2>1. /\ t.bill \in Seq(Line) /\ Once(t.bill) /\ Len(t.bill) = Len(s.bill) - 1 /\ L = M \ {x}
    <3> DEFINE u == Unbill(s, i)
    <3>1. /\ u.bill \in Seq(Line) /\ Once(u.bill) /\ Len(u.bill) = Len(s.bill) - 1
          /\ Lines(u.bill) = Lines(s.bill) \ {s.bill[i]}
      BY Unbilled
    <3>2. t.bill = u.bill
      OBVIOUS
    <3> HIDE DEF u
    <3> QED
      BY <3>1, <3>2
  <2> QED
    BY <2>1, KeptIs, Bounds
<1>3. \A z \in L : z \in M /\ z # x /\ z.id # o
  BY <1>1, <1>2, OneLine, KeptIs
<1>4. Booked(s.obj, M) /\ (Right(s) => Exact(s.obj, M))
  BY DEF Kept, Right
<1>5. /\ t.obj \in [Ids -> Thing] /\ t.obj[o] = v
      /\ \A k \in Ids : k # o => t.obj[k] = s.obj[k]
  BY <1>1, KeptIs
<1> HIDE DEF M
<1> HIDE DEF L
<1> HIDE DEF o
<1>6. x.id = o
  BY DEF o
<1> HIDE DEF x
<1>7. Booked(t.obj, L)
  <2>1. \A k \in Ids : t.obj[k].where \in Goods =>
          t.obj[k].quan > 0 /\ (t.obj[k].unpaid => \E z \in L : z.id = k /\ ~z.useup)
    <3> TAKE k \in Ids
    <3>1. CASE k = o
      BY <1>5, <3>1
    <3>2. CASE k # o
      BY <1>2, <1>4, <1>5, <1>6, <3>2 DEF Booked
    <3> QED
      BY <3>1, <3>2
  <2>2. \A z \in L : z.useup => t.obj[z.id].where = "billobjs"
    BY <1>1, <1>3, <1>4, <1>5 DEF Booked
  <2>3. \A k \in Ids : t.obj[k].where = "billobjs" => \E z \in L : z.id = k /\ z.useup
    BY <1>2, <1>4, <1>5, <1>6 DEF Booked
  <2> QED
    BY <2>1, <2>2, <2>3 DEF Booked
<1>8. Exact(s.obj, M) => Exact(t.obj, L)
  BY <1>1, <1>3, <1>5 DEF Exact
<1> QED
  BY <1>2, <1>4, <1>5, <1>7, <1>8 DEF Kept, Typed, Right, L

LEMMA PassOverBooks ==
  ASSUME ShopInv, PassOver \/ PayBroke
  PROVE  Books'
<1>1. /\ pay.on /\ ~AtEnd /\ Become(Restored) /\ muddled' = muddled
      /\ muddled \in BOOLEAN
  BY DEF PassOver, PayBroke, Asked, ShopInv, Money
<1>2. Kept(Restored) /\ (~muddled => Right(Restored))
  BY <1>1, RestoredIs, AtEntry
<1> QED
  BY <1>1, <1>2, Became

LEMMA PaySkipBooks ==
  ASSUME ShopInv, PaySkip
  PROVE  Books'
<1> DEFINE s == Restored
           o == Bp.id
           v == [s.obj[o] EXCEPT !.unpaid = TRUE]
           t == [s EXCEPT !.obj[o].unpaid = TRUE]
<1>1. pay.on /\ ~AtEnd /\ muddled' = muddled /\ muddled \in BOOLEAN
  BY DEF PaySkip, Asked, ShopInv, Money
<1>2. Become(t)
  BY DEF PaySkip
<1>3. /\ Kept(s) /\ (~muddled => Right(s)) /\ s.bill = bill
      /\ o \in Ids /\ Bp \in Lines(bill) /\ (Bp.useup => obj[o].where = "billobjs")
      /\ s.obj[o] = [obj[o] EXCEPT !.quan = Quan] /\ obj[o] \in Thing /\ Quan \in Nat
  BY <1>1, RestoredIs, AtEntry
<1>4. s.obj[o].where = obj[o].where /\ s.obj[o] \in Thing
  BY <1>3 DEF Thing
<1> HIDE DEF s
<1>5. DOMAIN t = {"obj", "bill"} /\ t.bill = s.bill /\ t.obj = [s.obj EXCEPT ![o] = v]
  BY <1>3, KeptIs
<1>6. v \in Thing /\ v.where = s.obj[o].where /\ v.quan = s.obj[o].quan /\ v.unpaid
  BY <1>4 DEF Thing
<1> HIDE DEF t
<1> HIDE DEF v
<1>7. /\ t.obj \in [Ids -> Thing] /\ t.obj[o] = v
      /\ \A k \in Ids : k # o => t.obj[k] = s.obj[k]
  BY <1>3, <1>5, <1>6, KeptIs
<1>8. Kept(t)
  <2>1. Booked(s.obj, Lines(s.bill))
    BY <1>3 DEF Kept
  <2>2. \A k \in Ids : t.obj[k].where \in Goods =>
          t.obj[k].quan > 0
          /\ (t.obj[k].unpaid => \E z \in Lines(s.bill) : z.id = k /\ ~z.useup)
    <3> TAKE k \in Ids
    <3>1. CASE k = o
      BY <1>3, <1>4, <1>6, <1>7, <2>1, <3>1 DEF Booked, Goods
    <3>2. CASE k # o
      BY <1>7, <2>1, <3>2 DEF Booked
    <3> QED
      BY <3>1, <3>2
  <2>3. \A k \in Ids : t.obj[k].where = "billobjs" <=> s.obj[k].where = "billobjs"
    BY <1>6, <1>7
  <2> QED
    BY <1>3, <1>5, <1>7, <2>2, <2>3, Touched
<1>9. Right(s) => Right(t)
  <2>1. \A k \in Ids : s.obj[k].quan \in Nat
    BY <1>3, KeptIs DEF Thing
  <2> QED
    <3> HIDE DEF o
    <3>1. \A k \in Ids : s.obj[k].unpaid => t.obj[k].unpaid
      BY <1>6, <1>7
    <3>2. \A k \in Ids : t.obj[k].where = s.obj[k].where /\ t.obj[k].quan <= s.obj[k].quan
      BY <1>6, <1>7, <2>1
    <3> QED
      BY <1>3, <1>5, <1>7, <3>1, <3>2, TouchedRight
<1> QED
  BY <1>1, <1>2, <1>3, <1>8, <1>9, Became

(* The used-up part of a stack is paid for: what is left stays unpaid.     *)
LEMMA PartPaid ==
  ASSUME NEW s, Kept(s), NEW i \in DOMAIN s.bill, s.obj[s.bill[i].id].where \in Goods
  PROVE  LET o == s.bill[i].id
             t == [obj  |-> [s.obj EXCEPT ![o].unpaid = TRUE],
                   bill |-> [s.bill EXCEPT ![i] = [@ EXCEPT !.quan = s.obj[o].quan, !.useup = FALSE]]]
         IN  Kept(t) /\ (Right(s) => Right(t))
<1> DEFINE x == s.bill[i]
           o == x.id
           e == [x EXCEPT !.quan = s.obj[o].quan, !.useup = FALSE]
           b == [s.bill EXCEPT ![i] = e]
           v == [s.obj[o] EXCEPT !.unpaid = TRUE]
           t == [obj |-> [s.obj EXCEPT ![o].unpaid = TRUE],
                 bill |-> [s.bill EXCEPT ![i] = [@ EXCEPT !.quan = s.obj[o].quan, !.useup = FALSE]]]
<1>1. x \in Lines(s.bill) /\ x \in Line /\ o \in Ids /\ (\A z \in Lines(s.bill) : z.id \in Ids)
  BY KeptIs DEF Lines, Line
<1>2. /\ s.obj[o] \in Thing /\ s.obj[o].where \in Goods /\ ~x.useup
      /\ s.obj[o].quan \in Nat /\ s.obj[o].quan > 0
  BY <1>1, KeptIs, Unlined
<1>3. e \in Line /\ e.id = o /\ ~e.useup /\ e.quan = s.obj[o].quan
  <2> DEFINE n == s.obj[o].quan
  <2>1. n \in Int /\ x \in Line /\ x.id = o
    BY <1>1, <1>2
  <2> HIDE DEF n
  <2> HIDE DEF o
  <2> HIDE DEF x
  <2>2. [x EXCEPT !.quan = n, !.useup = FALSE] \in Line
        /\ [x EXCEPT !.quan = n, !.useup = FALSE].id = o
        /\ [x EXCEPT !.quan = n, !.useup = FALSE].useup = FALSE
        /\ [x EXCEPT !.quan = n, !.useup = FALSE].quan = n
    BY <2>1 DEF Line
  <2> QED
    BY <2>2 DEF n
<1>4. v \in Thing /\ v.where = s.obj[o].where /\ v.quan = s.obj[o].quan /\ v.unpaid
  BY <1>2 DEF Thing
<1>5. DOMAIN t = {"obj", "bill"} /\ t.obj = [s.obj EXCEPT ![o] = v] /\ t.bill = b
  OBVIOUS
<1>6. /\ b \in Seq(Line) /\ Once(b) /\ Len(b) <= BILLSZ /\ e \in Lines(b)
      /\ \A z \in Lines(b) : z = e \/ (z \in Lines(s.bill) /\ z # x /\ z.id # o)
      /\ \A z \in Lines(s.bill) : z = x \/ z \in Lines(b)
  <2>1. e.id = s.bill[i].id
    BY <1>3
  <2> HIDE DEF e
  <2>2. /\ b \in Seq(Line) /\ Once(b) /\ Len(b) <= BILLSZ /\ e \in Lines(b)
        /\ \A z \in Lines(b) : z = e \/ (z \in Lines(s.bill) /\ z # s.bill[i]
                                         /\ z.id # s.bill[i].id /\ z.id # e.id)
        /\ \A z \in Lines(s.bill) : z = s.bill[i] \/ z \in Lines(b)
    BY <1>3, <2>1, Relined
  <2> QED
    BY <2>2
<1> HIDE DEF t
<1> HIDE DEF v
<1> HIDE DEF e
<1> HIDE DEF b
<1>7. /\ t.obj \in [Ids -> Thing] /\ t.obj[o] = v
      /\ \A k \in Ids : k # o => t.obj[k] = s.obj[k]
  BY <1>1, <1>4, <1>5, KeptIs
<1>8. x.id = o
  OBVIOUS
<1> HIDE DEF o
<1> HIDE DEF x
<1>9. Booked(s.obj, Lines(s.bill)) /\ (Right(s) => Exact(s.obj, Lines(s.bill)))
  BY DEF Kept, Right
<1>10. Booked(t.obj, Lines(b))
  <2>1. \A k \in Ids : t.obj[k].where \in Goods =>
          t.obj[k].quan > 0 /\ (t.obj[k].unpaid => \E z \in Lines(b) : z.id = k /\ ~z.useup)
    <3> TAKE k \in Ids
    <3>1. CASE k = o
      BY <1>2, <1>3, <1>4, <1>6, <1>7, <3>1
    <3>2. CASE k # o
      BY <1>6, <1>7, <1>8, <1>9, <3>2 DEF Booked
    <3> QED
      BY <3>1, <3>2
  <2>2. \A z \in Lines(b) : z.useup => t.obj[z.id].where = "billobjs"
    BY <1>1, <1>3, <1>6, <1>7, <1>9 DEF Booked
  <2>3. \A k \in Ids : t.obj[k].where = "billobjs" => \E z \in Lines(b) : z.id = k /\ z.useup
    BY <1>2, <1>4, <1>6, <1>7, <1>9 DEF Booked, Goods
  <2> QED
    BY <2>1, <2>2, <2>3 DEF Booked
<1>11. Kept(t)
  BY <1>5, <1>6, <1>7, <1>10 DEF Kept, Typed
<1>12. ASSUME Right(s) PROVE Right(t)
  <2>1. s.obj[o].where \in {"spot", "inv"}
    BY <1>1, <1>2, <1>8, <1>9, <1>12 DEF Exact
  <2>2. Exact(t.obj, Lines(b))
    <3> SUFFICES ASSUME NEW z \in Lines(b)
                 PROVE  /\ z.quan > 0
                        /\ ~z.useup => /\ t.obj[z.id].where \in {"spot", "inv"}
                                       /\ t.obj[z.id].unpaid /\ t.obj[z.id].quan <= z.quan
      BY DEF Exact
    <3>1. CASE z = e
      BY <1>2, <1>3, <1>4, <1>7, <2>1, <3>1
    <3>2. CASE z # e
      BY <1>1, <1>6, <1>7, <1>9, <1>12, <3>2 DEF Exact
    <3> QED
      BY <3>1, <3>2
  <2> QED
    BY <1>5, <2>2 DEF Right
<1> QED
  BY <1>11, <1>12 DEF t, o, x

(* Which of the three ways of buying is for which entries.                 *)
LEMMA AskedIs ==
  ASSUME ShopInv, Asked
  PROVE  /\ Amount \in Nat
         /\ Consumed /\ Amount # Bp.quan => ~Bp.useup
         /\ Consumed /\ Amount = Bp.quan /\ ~muddled => Bp.useup
         /\ ~Consumed => ~Bp.useup
<1>1. pay.on /\ ~AtEnd /\ Found /\ ~NotThisPass /\ pay.pass \in {0, 1}
  BY DEF Asked, ShopInv, Money
<1>2. /\ Bp.quan \in Nat /\ obj[Bp.id] \in Thing /\ Bp.useup \in BOOLEAN
      /\ obj[Bp.id].where \in Goods => obj[Bp.id].quan > 0
      /\ ~muddled /\ ~Bp.useup => obj[Bp.id].quan <= Bp.quan
  BY <1>1, AtEntry DEF Line
<1>3. Quan \in Nat /\ (~Bp.useup => Quan = obj[Bp.id].quan) /\ (Bp.useup => Quan = Bp.quan)
  BY <1>1, RestoredIs
<1>4. ~Bp.useup => Quan > 0
  BY <1>1, <1>2, <1>3 DEF Found, Goods
<1>5. Amount \in Nat
  BY <1>2, <1>3 DEF Amount
<1>6. ~Consumed => ~Bp.useup
  BY <1>1, <1>3 DEF Consumed, NotThisPass
<1>7. Consumed /\ Amount # Bp.quan => ~Bp.useup
  BY <1>2, <1>3 DEF Amount
<1>8. ASSUME Consumed, Amount = Bp.quan, ~muddled PROVE Bp.useup
  <2> SUFFICES ASSUME ~Bp.useup PROVE FALSE
    OBVIOUS
  <2>1. Quan # Bp.quan
    BY <1>1, <1>8 DEF NotThisPass, Consumed
  <2>2. Quan <= Bp.quan
    BY <1>2, <1>3, <1>8
  <2>3. Amount = Bp.quan - Quan
    BY <1>2, <1>3, <1>8, <2>1, <2>2 DEF Amount
  <2> QED
    BY <1>2, <1>3, <1>4, <1>8, <2>3
<1> QED
  BY <1>5, <1>6, <1>7, <1>8

(* What a purchase makes of the objects and the bill.                      *)
LEMMA BoughtIs ==
  ASSUME ShopInv, Asked, ~PaidAlready
  PROVE  LET s == Restored
             t == Bought(s, Bp.id)
         IN  /\ Kept(t) /\ (~muddled => Right(t))
             /\ ~Bp.useup /\ ~muddled =>
                  \/ t.obj = [s.obj EXCEPT ![Bp.id].unpaid = TRUE]
                  \/ t.obj = [s.obj EXCEPT ![Bp.id].unpaid = FALSE]
             /\ Bp.useup => t.obj = [s.obj EXCEPT ![Bp.id] = Nil]
<1> DEFINE s == Restored
           o == Bp.id
           i == pay.tmp
           t == Bought(s, o)
<1>1. pay.on /\ ~AtEnd /\ Found
  BY DEF Asked
<1>2. /\ Kept(s) /\ (~muddled => Right(s)) /\ s.bill = bill /\ i \in DOMAIN s.bill
      /\ s.bill[i] = Bp /\ o \in Ids /\ Bp \in Line
      /\ s.obj[o] = [obj[o] EXCEPT !.quan = Quan] /\ obj[o] \in Thing /\ Quan \in Nat
  BY <1>1, RestoredIs, AtEntry DEF Bp
<1>3. s.obj[o] \in Thing /\ s.obj[o].where = obj[o].where
  BY <1>2 DEF Thing
<1>4. ~Bp.useup => s.obj[o].where \in Goods /\ s.obj[o].quan > 0
  BY <1>1, <1>2, <1>3, Unlined DEF Found, Goods
<1> HIDE DEF s
<1>5. CASE Consumed /\ Amount # Bp.quan
  <2>1. ~Bp.useup
    BY <1>5, AskedIs
  <2>2. t = [obj  |-> [s.obj EXCEPT ![o].unpaid = TRUE],
             bill |-> [s.bill EXCEPT ![i] = [@ EXCEPT !.quan = s.obj[o].quan, !.useup = FALSE]]]
    BY <1>5 DEF Bought
  <2>3. Kept(t) /\ (Right(s) => Right(t))
    <3>1. s.bill[i].id = o /\ s.obj[o].where \in Goods
      BY <1>2, <1>4, <2>1
    <3> HIDE DEF i
    <3> HIDE DEF o
    <3>2. i \in DOMAIN s.bill
      BY <1>2 DEF i
    <3> DEFINE w == [obj  |-> [s.obj EXCEPT ![s.bill[i].id].unpaid = TRUE],
                     bill |-> [s.bill EXCEPT ![i] = [@ EXCEPT !.quan = s.obj[s.bill[i].id].quan,
                                                              !.useup = FALSE]]]
    <3>3. Kept(w) /\ (Right(s) => Right(w))
      BY <1>2, <3>1, <3>2, PartPaid
    <3>4. t = w
      BY <2>2, <3>1 DEF o, i
    <3> QED
      BY <3>3, <3>4
  <2>4. t.obj = [s.obj EXCEPT ![o].unpaid = TRUE]
    BY <2>2
  <2> QED
    BY <1>2, <2>1, <2>3, <2>4 DEF s
<1>6. CASE Consumed /\ Amount = Bp.quan
  <2> DEFINE u == Unbill(s, i)
  <2>1. t = Dealloc(u, o)
    BY <1>6 DEF Bought
  <2>2. DOMAIN u = {"obj", "bill"} /\ u.obj = s.obj
    BY <1>2, Unbilled
  <2> HIDE DEF u
  <2>3. DOMAIN t = {"obj", "bill"} /\ t.bill = u.bill /\ t.obj = [s.obj EXCEPT ![o] = Nil]
    BY <2>1, <2>2 DEF Dealloc
  <2> HIDE DEF t
  <2>4. Kept(t) /\ (Right(s) => Right(t))
    <3>1. Nil \in Thing /\ Nil.where # "billobjs" /\ Nil.where \notin Goods
      BY NilIs DEF Goods
    <3>2. t.obj = [s.obj EXCEPT ![s.bill[i].id] = Nil] /\ t.bill = Unbill(s, i).bill
      BY <1>2, <2>3 DEF u
    <3> HIDE DEF i
    <3>3. i \in DOMAIN s.bill
      BY <1>2
    <3> QED
      BY <1>2, <2>3, <3>1, <3>2, <3>3, LineGone
  <2>5. ~muddled => Bp.useup
    BY <1>6, AskedIs
  <2> QED
    BY <1>2, <2>3, <2>4, <2>5 DEF s, t
<1>7. CASE ~Consumed
  <2> DEFINE v == [s.obj[o] EXCEPT !.unpaid = FALSE]
             r == [s EXCEPT !.obj[o].unpaid = FALSE]
             u == Unbill(r, i)
  <2>1. t = u
    BY <1>7 DEF Bought
  <2>2. ~Bp.useup
    BY <1>7, AskedIs
  <2>3. DOMAIN r = {"obj", "bill"} /\ r.bill = s.bill /\ r.obj = [s.obj EXCEPT ![o] = v]
    BY <1>2, KeptIs
  <2>4. v \in Thing /\ v.where \in Goods /\ v.quan > 0 /\ ~v.unpaid
    BY <1>3, <1>4, <2>2 DEF Thing
  <2>5. t.obj = [s.obj EXCEPT ![o].unpaid = FALSE]
    <3>1. t.obj = r.obj
      <4> HIDE DEF r
      <4>1. u = [r EXCEPT !.bill = SubSeq([r.bill EXCEPT ![i] = r.bill[Len(r.bill)]], 1, Len(r.bill) - 1)]
        BY DEF Unbill
      <4> QED
        BY <2>1, <2>3, <4>1
    <3> QED
      BY <2>3, <3>1
  <2> HIDE DEF v
  <2> HIDE DEF r
  <2>6. DOMAIN t = {"obj", "bill"} /\ t.bill = Unbill(s, i).bill /\ t.obj = r.obj
    <3>1. u = [r EXCEPT !.bill = SubSeq([r.bill EXCEPT ![i] = r.bill[Len(r.bill)]], 1, Len(r.bill) - 1)]
      BY DEF Unbill
    <3>2. Unbill(s, i) = [s EXCEPT !.bill = SubSeq([s.bill EXCEPT ![i] = s.bill[Len(s.bill)]], 1, Len(s.bill) - 1)]
      BY DEF Unbill
    <3> DEFINE c == SubSeq([s.bill EXCEPT ![i] = s.bill[Len(s.bill)]], 1, Len(s.bill) - 1)
    <3>3. u = [r EXCEPT !.bill = c]
      BY <2>3, <3>1
    <3> HIDE DEF c
    <3>4. Unbill(s, i).bill = c
      BY <1>2, <3>2, KeptIs DEF c
    <3> HIDE DEF u
    <3> QED
      BY <2>1, <2>3, <3>3, <3>4
  <2> HIDE DEF u
  <2> HIDE DEF t
  <2>7. Kept(t) /\ (Right(s) => Right(t))
    <3>1. t.obj = [s.obj EXCEPT ![s.bill[i].id] = v] /\ v.where # "billobjs"
      BY <1>2, <2>3, <2>4, <2>6 DEF Goods
    <3> HIDE DEF i
    <3>2. i \in DOMAIN s.bill
      BY <1>2
    <3> QED
      BY <1>2, <2>4, <2>6, <3>1, <3>2, LineGone DEF i
  <2> QED
    BY <1>2, <2>2, <2>5, <2>7 DEF s, t
<1> QED
  BY <1>5, <1>6, <1>7

LEMMA PayBuyBooks ==
  ASSUME ShopInv, PayBuy
  PROVE  Books'
<1> DEFINE s == Restored
           o == Bp.id
           i == pay.tmp
           t == IF PaidAlready THEN Unbill(s, i) ELSE Bought(s, o)
<1>1. Asked /\ pay.on /\ ~AtEnd /\ Found /\ Become(t) /\ muddled' = muddled /\ muddled \in BOOLEAN
  BY DEF PayBuy, Asked, Owe, ShopInv, Money
<1>2. CASE ~PaidAlready
  <2>1. Kept(t) /\ (~muddled => Right(t))
    BY <1>1, <1>2, BoughtIs
  <2> QED
    BY <1>1, <2>1, Became
<1>3. CASE PaidAlready
  <2>1. /\ Kept(s) /\ (~muddled => Right(s)) /\ s.bill = bill /\ i \in DOMAIN s.bill
        /\ s.bill[i] = Bp /\ o \in Ids
        /\ s.obj[o] = [obj[o] EXCEPT !.quan = Quan] /\ obj[o] \in Thing /\ Quan \in Nat
    BY <1>1, RestoredIs, AtEntry DEF Bp
  <2>2. s.obj[o] \in Thing /\ s.obj[o].where \in Goods /\ s.obj[o].quan > 0 /\ ~s.obj[o].unpaid
    <3>1. s.obj[o] \in Thing /\ s.obj[o].where = obj[o].where /\ s.obj[o].unpaid = obj[o].unpaid
      BY <2>1 DEF Thing
    <3>2. s.obj[o].where \in Goods /\ ~s.obj[o].unpaid
      BY <1>1, <1>3, <3>1 DEF PaidAlready, Found, Goods
    <3> QED
      BY <2>1, <3>1, <3>2, Unlined
  <2>3. t = Unbill(s, i)
    BY <1>3
  <2> HIDE DEF s
  <2> HIDE DEF t
  <2>4. DOMAIN t = {"obj", "bill"} /\ t.obj = s.obj
    BY <2>1, <2>3, Unbilled
  <2>5. t.obj = [s.obj EXCEPT ![s.bill[i].id] = s.obj[o]] /\ t.bill = Unbill(s, i).bill
    BY <2>1, <2>3, <2>4, KeptIs
  <2>6. Kept(t) /\ (Right(s) => Right(t))
    <3> HIDE DEF i
    <3>1. i \in DOMAIN s.bill /\ s.obj[o].where # "billobjs"
      BY <2>1, <2>2 DEF i, Goods
    <3> QED
      BY <2>1, <2>2, <2>4, <2>5, <3>1, LineGone DEF i
  <2> QED
    BY <1>1, <2>1, <2>6, Became
<1> QED
  BY <1>2, <1>3

-----------------------------------------------------------------------------
(* Every step.                                                             *)

LEMMA Owed ==
  ASSUME Money, NEW n \in Int, Owe(n)
  PROVE  owed' \in Int /\ muddled' \in BOOLEAN
BY DEF Money, Owe

LEMMA Squared ==
  ASSUME Settled
  PROVE  owed' \in Int /\ muddled' \in BOOLEAN
<1>1. owed' \in Int
  BY DEF Settled
<1>2. muddled' \in BOOLEAN
  <2>1. muddled' = FALSE
    BY DEF Settled
  <2> QED
    BY <2>1, Zenon
<1> QED
  BY <1>1, <1>2

LEMMA HeroMoney ==
  ASSUME ShopInv, Hero
  PROVE  Money'
<1>1. Money /\ Kept(Now)
  BY DEF ShopInv, Books
<1>2. \A o \in Ids : obj[o] \in Thing /\ obj[o].quan \in Int
  BY <1>1, NowIs, KeptIs DEF Thing
<1>3. ASSUME NEW n \in Int, Owe(n), UNCHANGED <<cash, pay>> PROVE Money'
  BY <1>1, <1>3, Owed DEF Money
<1>4. ASSUME NEW yes \in BOOLEAN, Muddle(yes), UNCHANGED <<cash, pay>> PROVE Money'
  BY <1>1, <1>4 DEF Money, Muddle
<1>5. ASSUME UNCHANGED <<cash, pay, owed, muddled>> PROVE Money'
  BY <1>1, <1>5 DEF Money
<1>6. \A o \in Ids, n \in 1 .. MaxQuan : n \in Int /\ -n \in Int /\ FreeBySplit(Now, o, n) \in Int
  BY Bounds DEF FreeBySplit
<1>7. ASSUME NEW o \in Ids, NEW n \in 1 .. MaxQuan, PickUp(o, n) PROVE Money'
  <2> DEFINE m == IF obj[o].where = "shop" /\ ~obj[o].nc /\ ~Full(Now) THEN n ELSE -FreeBySplit(Now, o, n)
  <2>1. m \in Int
    BY <1>6
  <2>2. Owe(m) /\ UNCHANGED <<cash, pay>>
    BY <1>7 DEF PickUp
  <2> QED
    BY <1>3, <2>1, <2>2
<1>8. ASSUME NEW o \in Ids, NEW n \in 1 .. MaxQuan, DropUnpaid(o, n) PROVE Money'
  BY <1>3, <1>6, <1>8 DEF DropUnpaid
<1>9. ASSUME NEW o \in Ids, NEW n \in 1 .. MaxQuan, DropOnSpot(o, n) \/ AdjustSplit(o, n) PROVE Money'
  <2>1. -FreeBySplit(Now, o, n) \in Int
    BY <1>6
  <2>2. Owe(-FreeBySplit(Now, o, n)) /\ UNCHANGED <<cash, pay>>
    BY <1>9 DEF DropOnSpot, AdjustSplit
  <2> QED
    BY <1>3, <2>1, <2>2
<1>10. ASSUME NEW o \in Ids, NEW n \in 1 .. MaxQuan, NEW sold \in BOOLEAN, DropOwn(o, n, sold) PROVE Money'
  <2>1. n \in Nat
    BY Bounds
  <2>2. cash' \in Nat /\ UNCHANGED <<pay, owed, muddled>>
    BY <1>1, <1>10, <2>1 DEF DropOwn, Money
  <2> QED
    BY <1>1, <2>2 DEF Money
<1>11. ASSUME NEW o \in Ids, Dilute(o) PROVE Money'
  <2> DEFINE m == IF obj[o].unpaid /\ Full(SubOne(Now, o)) THEN -obj[o].quan ELSE 0
  <2>1. m \in Int
    BY <1>2
  <2>2. Owe(m) /\ UNCHANGED <<cash, pay>>
    BY <1>11 DEF Dilute
  <2> QED
    BY <1>3, <2>1, <2>2
<1>12. ASSUME NEW p \in Ids, NEW o \in Ids, DipMerge(p, o) PROVE Money'
  BY <1>4, <1>12 DEF DipMerge
<1>13. ASSUME NEW p \in Ids, NEW o \in Ids, Mix(p, o) PROVE Money'
  <2>1. obj[o].unpaid \in BOOLEAN
    BY <1>2 DEF Thing
  <2> QED
    BY <1>4, <1>13, <2>1 DEF Mix
<1>14. ASSUME Leave PROVE Money'
  BY <1>1, <1>14, Squared DEF Leave, Money
<1>15. ASSUME NEW one \in Ids \cup {0}, NEW itemize \in BOOLEAN, StartPay(one, itemize) PROVE Money'
  <2>1. pay' = [on |-> TRUE, pass |-> 0, tmp |-> 1, itemize |-> itemize, one |-> one]
        /\ UNCHANGED <<cash, owed, muddled>>
    BY <1>15 DEF StartPay
  <2>2. pay' \in [on : BOOLEAN, pass : {0, 1}, tmp : Nat, itemize : BOOLEAN, one : Ids \cup {0}]
    <3>1. TRUE \in BOOLEAN
      OBVIOUS
    <3> QED
      BY <2>1, <3>1
  <2>3. pay'.tmp >= 1
    BY <2>1
  <2> QED
    BY <1>1, <2>1, <2>2, <2>3 DEF Money
<1>16. ASSUME NEW o \in Ids, Use(o) PROVE Money'
  BY <1>5, <1>16 DEF Use
<1>17. ASSUME NEW p \in Ids, NEW o \in Ids, AdjustMerge(p, o) \/ Boom(p, o) PROVE Money'
  BY <1>5, <1>17 DEF AdjustMerge, Boom
<1> QED
  BY <1>7, <1>8, <1>9, <1>10, <1>11, <1>12, <1>13, <1>14, <1>15, <1>16, <1>17 DEF Hero

LEMMA HeroBooks ==
  ASSUME ShopInv, Hero
  PROVE  Books'
<1>1. ASSUME NEW one, NEW itemize, StartPay(one, itemize) PROVE Books'
  BY <1>1 DEF StartPay, ShopInv, Books, Now
<1> QED
  BY <1>1, PickUpBooks, DropUnpaidBooks, DropOnSpotBooks, AdjustSplitBooks, DropOwnBooks,
     UseBooks, DiluteBooks, AdjustMergeBooks, DipMergeBooks, MixBooks, BoomBooks, LeaveBooks
  DEF Hero

LEMMA PayBooks ==
  ASSUME ShopInv, PayStep
  PROVE  Books'
<1>1. ASSUME NextPass PROVE Books'
  BY <1>1 DEF NextPass, ShopInv, Books, Now
<1> QED
  BY <1>1, LeaveBooks, PassOverBooks, PaySkipBooks, PayBuyBooks DEF PayStep

LEMMA PayMoney ==
  ASSUME ShopInv, PayStep
  PROVE  Money'
<1> DEFINE P == [on : BOOLEAN, pass : {0, 1}, tmp : Nat, itemize : BOOLEAN, one : Ids \cup {0}]
<1>1. Money /\ pay \in P
  BY DEF ShopInv, Money
<1>2. Idle \in P /\ ~Idle.on
  <2>1. FALSE \in BOOLEAN
    OBVIOUS
  <2> QED
    BY <2>1 DEF Idle
<1>3. [pay EXCEPT !.pass = 1, !.tmp = 1] \in P /\ [pay EXCEPT !.pass = 1, !.tmp = 1].tmp = 1
  BY <1>1
<1>4. ASSUME pay.on
      PROVE  [pay EXCEPT !.tmp = @ + 1] \in P /\ [pay EXCEPT !.tmp = @ + 1].tmp >= 1
  <2>1. pay.tmp \in Nat
    BY <1>1
  <2>2. pay.tmp + 1 \in Nat /\ pay.tmp + 1 >= 1
    BY <2>1
  <2> QED
    BY <1>1, <2>2
<1>5. pay' \in P /\ (pay'.on => pay'.tmp >= 1)
  <2>1. CASE NextPass
    BY <1>2, <1>3, <2>1 DEF NextPass
  <2>2. CASE OutOfOrder \/ PayBroke
    BY <1>2, <2>2 DEF OutOfOrder, PayBroke
  <2>3. CASE PassOver
    BY <1>4, <2>3 DEF PassOver
  <2>4. CASE PaySkip
    BY <1>2, <1>4, <2>4 DEF PaySkip, Asked
  <2>5. CASE PayBuy
    BY <1>1, <2>5 DEF PayBuy, Money
  <2> QED
    BY <2>1, <2>2, <2>3, <2>4, <2>5 DEF PayStep
<1>6. cash' \in Nat /\ owed' \in Int /\ muddled' \in BOOLEAN
  <2>1. CASE NextPass \/ PassOver \/ PayBroke \/ PaySkip
    BY <1>1, <2>1 DEF NextPass, PassOver, PayBroke, PaySkip, Money
  <2>2. CASE OutOfOrder
    BY <1>1, <2>2, Squared DEF OutOfOrder, Money
  <2>3. CASE PayBuy
    <3> DEFINE price == IF PaidAlready THEN 0 ELSE Amount
    <3>1. cash' = cash - price /\ Owe(-price) /\ Asked /\ (PaidAlready \/ cash >= Amount)
      BY <2>3 DEF PayBuy
    <3>2. Amount \in Nat
      BY <3>1, AskedIs
    <3>3. price \in Nat /\ cash >= price
      BY <1>1, <3>1, <3>2 DEF Money
    <3> HIDE DEF price
    <3>4. -price \in Int
      BY <3>3
    <3>5. cash' \in Nat
      BY <1>1, <3>1, <3>3 DEF Money
    <3> QED
      BY <1>1, <3>1, <3>4, <3>5, Owed
  <2> QED
    BY <2>1, <2>2, <2>3 DEF PayStep
<1> QED
  BY <1>5, <1>6 DEF Money

LEMMA Steps ==
  ASSUME ShopInv, [ShopNext]_shopVars
  PROVE  ShopInv'
<1>1. CASE UNCHANGED shopVars
  BY <1>1 DEF ShopInv, Books, Money, Now, shopVars
<1>2. CASE Hero
  BY <1>2, HeroBooks, HeroMoney DEF ShopInv
<1>3. CASE PayStep
  BY <1>3, PayBooks, PayMoney DEF ShopInv
<1> QED
  BY <1>1, <1>2, <1>3 DEF ShopNext

LEMMA Begin ==
  ASSUME ShopInit
  PROVE  ShopInv
<1>1. bill = <<>> /\ pay = Idle /\ owed = 0 /\ muddled = FALSE /\ cash = Purse
  BY DEF ShopInit
<1>2. PICK t \in Types :
        obj = [o \in Ids |-> IF o \in Shelf \cup Pack
                             THEN [Nil EXCEPT !.where = IF o \in Shelf THEN "shop" ELSE "inv",
                                              !.type = t, !.quan = IF o \in Shelf THEN MaxQuan ELSE 1]
                             ELSE Nil]
  BY DEF ShopInit
<1> DEFINE v(o) == [Nil EXCEPT !.where = IF o \in Shelf THEN "shop" ELSE "inv",
                               !.type = t, !.quan = IF o \in Shelf THEN MaxQuan ELSE 1]
<1>3. \A o \in Ids : /\ v(o) \in Thing /\ v(o).where \in Goods /\ ~v(o).unpaid
                     /\ v(o).quan > 0
  <2> TAKE o \in Ids
  <2> DEFINE w == IF o \in Shelf THEN "shop" ELSE "inv"
             n == IF o \in Shelf THEN MaxQuan ELSE 1
  <2>1. w \in Where /\ w \in Goods /\ n \in Nat /\ n > 0
    BY ShopAssumption DEF Where, Goods
  <2>2. v(o) = [Nil EXCEPT !.where = w, !.type = t, !.quan = n]
    OBVIOUS
  <2> HIDE DEF w
  <2> HIDE DEF n
  <2> HIDE DEF v
  <2>3. ~Nil.unpaid /\ Nil \in Thing
    BY NilIs DEF Nil
  <2> QED
    BY <2>1, <2>2, <2>3 DEF Thing
<1>4. \A o \in Ids : obj[o] = IF o \in Shelf \cup Pack THEN v(o) ELSE Nil
  BY <1>2
<1>5. obj = [o \in Ids |-> obj[o]]
  BY <1>2
<1> HIDE DEF v
<1>6. obj \in [Ids -> Thing]
  <2>1. \A o \in Ids : obj[o] \in Thing
    BY <1>3, <1>4, NilIs
  <2> QED
    BY <1>5, <2>1
<1>7. Lines(bill) = {} /\ DOMAIN bill = {}
  BY <1>1 DEF Lines
<1>8. Booked(obj, {})
  BY <1>3, <1>4, NilIs DEF Booked, Goods
<1>9. <<>> \in Seq(Line)
  OBVIOUS
<1>10. Len(<<>>) = 0
  OBVIOUS
<1>11. Typed(Now)
  BY <1>1, <1>6, <1>7, <1>9, <1>10, Bounds DEF Typed, Now, Once
<1>12. Books
  BY <1>7, <1>8, <1>11, NowIs DEF Books, Kept, Right, Exact
<1>13. Money
  <2>1. FALSE \in BOOLEAN
    OBVIOUS
  <2>2. Idle \in [on : BOOLEAN, pass : {0, 1}, tmp : Nat, itemize : BOOLEAN, one : Ids \cup {0}]
        /\ ~Idle.on
    BY <2>1 DEF Idle
  <2> QED
    <3>1. muddled \in BOOLEAN
      BY <1>1, <2>1, Zenon
    <3> QED
      BY <1>1, <2>2, <3>1, Bounds DEF Money
<1> QED
  BY <1>12, <1>13 DEF ShopInv

LEMMA Always == ShopSpec => []ShopInv
<1>1. ShopInit => ShopInv
  BY Begin
<1>2. ShopInv /\ [ShopNext]_shopVars => ShopInv'
  BY Steps
<1> QED
  BY <1>1, <1>2, PTL DEF ShopSpec

(* The state of a shop is always well-formed: the bill is within the space *)
(* there is for it (BILLSZ) and no purchase overdraws the purse.           *)
THEOREM TypeCorrect == ShopSpec => []ShopTypeOK
<1>1. ShopInv => ShopTypeOK
  BY NowIs, KeptIs DEF ShopInv, Books, Money, ShopTypeOK, Thing, Line
<1> QED
  BY <1>1, Always, PTL

(* The comment at the head of shk.c holds of every number of objects, size *)
(* of a bill and order of splitting, merging, using up, diluting, dropping *)
(* and paying, until a potion of the shop is mixed with one of the hero's. *)
THEOREM BillAgrees == ShopSpec => []BillMatches
<1>1. ASSUME ShopInv, ~muddled PROVE InOrder
  <2>1. Kept(Now) /\ Right(Now) /\ bill \in Seq(Line) /\ obj \in [Ids -> Thing] /\ Once(bill)
    BY <1>1, NowIs, KeptIs DEF ShopInv, Books
  <2>2. Booked(obj, Lines(bill)) /\ Exact(obj, Lines(bill))
    BY <2>1, NowIs DEF Kept, Right
  <2>3. \A i \in DOMAIN bill : bill[i] \in Lines(bill) /\ bill[i].id \in Ids
    <3>1. \A i \in DOMAIN bill : bill[i] \in Line /\ bill[i] \in Lines(bill)
      BY <2>1 DEF Lines
    <3> QED
      BY <3>1 DEF Line
  <2>4. \A x \in Lines(bill) : \E i \in DOMAIN bill : bill[i] = x
    BY DEF Lines
  <2>5. \A o \in Ids : obj[o].where \in {"shop", "spot", "inv"} =>
          /\ obj[o].unpaid <=> \E i \in DOMAIN bill : bill[i].id = o /\ ~bill[i].useup
          /\ \A i \in DOMAIN bill : bill[i].id = o => obj[o].quan <= bill[i].quan
    <3> SUFFICES ASSUME NEW o \in Ids, obj[o].where \in Goods
                 PROVE  /\ obj[o].unpaid <=> \E i \in DOMAIN bill : bill[i].id = o /\ ~bill[i].useup
                        /\ \A i \in DOMAIN bill : bill[i].id = o => obj[o].quan <= bill[i].quan
      BY DEF Goods
    <3>1. obj[o].unpaid => \E i \in DOMAIN bill : bill[i].id = o /\ ~bill[i].useup
      BY <2>2, <2>4 DEF Booked
    <3>2. \A i \in DOMAIN bill : bill[i].id = o =>
            ~bill[i].useup /\ obj[o].unpaid /\ obj[o].quan <= bill[i].quan
      BY <2>2, <2>3 DEF Booked, Exact, Goods
    <3>3. obj[o].unpaid \in BOOLEAN
      BY <2>1 DEF Thing
    <3> QED
      BY <3>1, <3>2, <3>3
  <2>6. \A i \in DOMAIN bill :
          /\ bill[i].quan > 0
          /\ obj[bill[i].id].where \in (IF bill[i].useup THEN {"billobjs"} ELSE {"spot", "inv"})
          /\ \A j \in DOMAIN bill : bill[i].id = bill[j].id => i = j
    BY <2>1, <2>2, <2>3 DEF Booked, Exact, Once
  <2>7. \A o \in At("billobjs") : \E i \in DOMAIN bill : bill[i].id = o
    BY <2>2, <2>4 DEF Booked, At
  <2> QED
    BY <2>5, <2>6, <2>7 DEF InOrder
<1>2. ShopInv => BillMatches
  BY <1>1 DEF BillMatches
<1> QED
  BY <1>2, Always, PTL

-----------------------------------------------------------------------------
(* Paying.                                                                 *)

LEMMA InHand ==
  ASSUME ShopInv, pay.on, ~AtEnd, ~muddled, NEW o \in At("inv")
  PROVE  /\ Restored.obj[o] = obj[o] /\ obj[o] \in Thing /\ Restored.obj \in [Ids -> Thing]
         /\ o = Bp.id => ~Bp.useup /\ obj[o].unpaid = TRUE
<1>1. o \in Ids /\ obj[o].where = "inv" /\ obj[o] \in Thing /\ Restored.obj \in [Ids -> Thing]
  BY RestoredIs, AtEntry, NowIs, KeptIs DEF At
<1>2. ASSUME o = Bp.id PROVE ~Bp.useup /\ obj[o].unpaid = TRUE
  BY <1>1, <1>2, AtEntry DEF Thing
<1>3. Restored.obj[o] = obj[o]
  <2>1. CASE o # Bp.id
    BY <1>1, <2>1, RestoredIs
  <2>2. CASE o = Bp.id
    <3>1. Restored.obj[o] = [obj[o] EXCEPT !.quan = Quan] /\ Quan = obj[o].quan
      BY <1>2, <2>2, RestoredIs
    <3>2. [obj[o] EXCEPT !.quan = obj[o].quan] = obj[o]
      BY <1>1 DEF Thing
    <3> QED
      BY <3>1, <3>2
  <2> QED
    BY <2>1, <2>2
<1> QED
  BY <1>1, <1>2, <1>3

(* Whatever the player answers, paying leaves him with what he has in his  *)
(* hands, and takes from his purse what it takes off the bill: no entry is *)
(* paid for twice, none is struck off for nothing.                         *)
THEOREM PayingIsFair == ShopSpec => PaidIsKept
<1> DEFINE Fair == /\ \A o \in At("inv") : obj'[o] \in {obj[o], [obj[o] EXCEPT !.unpaid = FALSE]}
                   /\ cash - cash' = owed - owed'
<1>1. ASSUME ShopInv, ShopNext, pay.on, ~muddled PROVE Fair
  <2>1. PayStep
    BY <1>1 DEF ShopNext, Hero, PickUp, DropUnpaid, DropOnSpot, AdjustSplit, DropOwn, Use, Dilute,
                AdjustMerge, DipMerge, Mix, Boom, Leave, StartPay, Tidy, Shopping
  <2>2. cash \in Int /\ owed \in Int
    BY <1>1 DEF ShopInv, Money
  <2>same. ASSUME UNCHANGED <<cash, owed>> PROVE cash - cash' = owed - owed'
    BY <2>2, <2>same
  <2>3. CASE NextPass
    BY <2>same, <2>3 DEF NextPass
  <2>4. CASE OutOfOrder
    BY <1>1, <2>4, AtEntry DEF OutOfOrder
  <2>5. CASE PassOver \/ PayBroke
    <3>1. ~AtEnd /\ obj' = Restored.obj /\ UNCHANGED <<cash, owed>>
      BY <2>5 DEF PassOver, PayBroke, Asked, Become
    <3> QED
      BY <1>1, <2>same, <3>1, InHand
  <2>6. CASE PaySkip
    <3>1. ~AtEnd /\ UNCHANGED <<cash, owed>>
          /\ obj' = [Restored EXCEPT !.obj[Bp.id].unpaid = TRUE].obj
      BY <2>6 DEF PaySkip, Asked, Become
    <3>2. obj' = [Restored.obj EXCEPT ![Bp.id].unpaid = TRUE]
      <4>1. DOMAIN Restored = {"obj", "bill"}
        BY <1>1, <3>1, RestoredIs, KeptIs
      <4> QED
        BY <3>1, <4>1
    <3>3. ASSUME NEW o \in At("inv") PROVE obj'[o] = obj[o]
      <4>1. /\ Restored.obj[o] = obj[o] /\ obj[o] \in Thing /\ Restored.obj \in [Ids -> Thing]
            /\ o = Bp.id => obj[o].unpaid = TRUE
        BY <1>1, <3>1, InHand
      <4>2. CASE o # Bp.id
        BY <3>2, <4>1, <4>2 DEF At
      <4>3. CASE o = Bp.id
        <5>1. o \in Ids
          BY DEF At
        <5>2. obj'[o] = [obj[o] EXCEPT !.unpaid = TRUE]
          BY <3>2, <4>1, <4>3, <5>1
        <5>3. [obj[o] EXCEPT !.unpaid = TRUE] = obj[o]
          BY <4>1, <4>3 DEF Thing
        <5> QED
          BY <5>2, <5>3
      <4> QED
        BY <4>2, <4>3
    <3> QED
      BY <2>same, <3>1, <3>3
  <2>7. CASE PayBuy
    <3>1. Asked /\ pay.on /\ ~AtEnd
      BY <2>7 DEF PayBuy, Asked
    <3>2. ~PaidAlready
      BY <1>1, <3>1, AtEntry DEF PaidAlready
    <3>3. Become(Bought(Restored, Bp.id)) /\ cash' = cash - Amount /\ Owe(-Amount)
      BY <2>7, <3>2 DEF PayBuy
    <3>4. cash - cash' = owed - owed'
      <4>1. Amount \in Nat
        BY <1>1, <3>1, AskedIs
      <4> QED
        BY <1>1, <2>2, <3>3, <4>1 DEF Owe
    <3>5. ASSUME NEW o \in At("inv") PROVE obj'[o] \in {obj[o], [obj[o] EXCEPT !.unpaid = FALSE]}
      <4> DEFINE t == Bought(Restored, Bp.id)
      <4>1. obj' = t.obj
        BY <3>3 DEF Become
      <4>2. /\ ~Bp.useup =>
                 \/ t.obj = [Restored.obj EXCEPT ![Bp.id].unpaid = TRUE]
                 \/ t.obj = [Restored.obj EXCEPT ![Bp.id].unpaid = FALSE]
            /\ Bp.useup => t.obj = [Restored.obj EXCEPT ![Bp.id] = Nil]
        BY <1>1, <3>1, <3>2, BoughtIs
      <4> HIDE DEF t
      <4>3. /\ Restored.obj[o] = obj[o] /\ obj[o] \in Thing /\ Restored.obj \in [Ids -> Thing]
            /\ o = Bp.id => ~Bp.useup /\ obj[o].unpaid = TRUE
        BY <1>1, <3>1, InHand
      <4>4. o \in Ids /\ Bp.useup \in BOOLEAN
        BY <1>1, <3>1, AtEntry DEF At, Line
      <4>5. CASE o # Bp.id
        BY <4>1, <4>2, <4>3, <4>4, <4>5
      <4>6. CASE o = Bp.id
        <5>1. obj'[o] = [obj[o] EXCEPT !.unpaid = TRUE] \/ obj'[o] = [obj[o] EXCEPT !.unpaid = FALSE]
          <6>1. CASE t.obj = [Restored.obj EXCEPT ![Bp.id].unpaid = TRUE]
            BY <4>1, <4>3, <4>4, <4>6, <6>1
          <6>2. CASE t.obj = [Restored.obj EXCEPT ![Bp.id].unpaid = FALSE]
            BY <4>1, <4>3, <4>4, <4>6, <6>2
          <6> QED
            BY <4>2, <4>3, <4>6, <6>1, <6>2
        <5>2. [obj[o] EXCEPT !.unpaid = TRUE] = obj[o]
          BY <4>3, <4>6 DEF Thing
        <5> QED
          BY <5>1, <5>2
      <4> QED
        BY <4>5, <4>6
    <3> QED
      BY <3>4, <3>5
  <2> QED
    BY <2>1, <2>3, <2>4, <2>5, <2>6, <2>7 DEF PayStep
<1>2. ShopInv /\ [ShopNext]_shopVars => [pay.on /\ ~muddled => Fair]_shopVars
  BY <1>1
<1> QED
  BY <1>2, Always, PTL DEF ShopSpec, PaidIsKept

-----------------------------------------------------------------------------
(* What a bill comes to.                                                   *)

\* The totals of the first entries, one more at a time.
Sums(b, f, n) ==
  /\ f \in [0 .. n -> Int] /\ f[0] = 0
  /\ \A i \in 1 .. n : f[i] = f[i - 1] + b[i].quan

LEMMA SumsExist ==
  ASSUME NEW b \in Seq(Line), NEW n \in 0 .. Len(b)
  PROVE  \E f : Sums(b, f, n)
<1> DEFINE T == {m \in 0 .. Len(b) : ~\E f : Sums(b, f, m)}
<1>0. Len(b) \in Nat /\ DOMAIN b = 1 .. Len(b)
  OBVIOUS
<1>1. SUFFICES ASSUME T # {} PROVE FALSE
  OBVIOUS
<1>2. T \subseteq Nat
  BY <1>0
<1>3. PICK m \in T : \A k \in T : m <= k
  BY <1>1, <1>2, Least
<1>4. m \in 0 .. Len(b) /\ ~\E f : Sums(b, f, m)
  OBVIOUS
<1>5. CASE m = 0
  <2>1. Sums(b, [i \in {0} |-> 0], 0)
    BY DEF Sums
  <2> QED
    BY <1>4, <1>5, <2>1
<1>6. CASE m # 0
  <2>1. m - 1 \in 0 .. Len(b) /\ ~(m <= m - 1)
    BY <1>0, <1>4, <1>6
  <2>2. m - 1 \notin T
    BY <1>3, <2>1
  <2>3. PICK f : Sums(b, f, m - 1)
    BY <2>1, <2>2
  <2> DEFINE g == [i \in 0 .. m |-> IF i = m THEN f[m - 1] + b[m].quan ELSE f[i]]
  <2>4. b[m].quan \in Int /\ m \in 1 .. Len(b)
    <3>1. m \in 1 .. Len(b)
      BY <1>0, <1>4, <1>6
    <3>2. b[m] \in Line
      BY <1>0, <3>1
    <3> QED
      BY <3>1, <3>2 DEF Line
  <2>5. f \in [0 .. m - 1 -> Int] /\ f[0] = 0 /\ \A i \in 1 .. m - 1 : f[i] = f[i - 1] + b[i].quan
    BY <2>3 DEF Sums
  <2>6. g \in [0 .. m -> Int] /\ g[0] = 0
    BY <2>1, <2>4, <2>5
  <2>7. ASSUME NEW i \in 1 .. m PROVE g[i] = g[i - 1] + b[i].quan
    BY SMTT(60), <2>1, <2>4, <2>5
  <2>8. Sums(b, g, m)
    BY <2>6, <2>7 DEF Sums
  <2> QED
    BY <1>4, <2>8
<1> QED
  BY <1>5, <1>6

LEMMA SumsUnique ==
  ASSUME NEW b \in Seq(Line), NEW c \in Seq(Line), NEW n \in Nat, NEW f, NEW g,
         Sums(b, f, n), Sums(c, g, n), \A i \in 1 .. n : b[i].quan = c[i].quan
  PROVE  f[n] = g[n]
<1> DEFINE T == {m \in 0 .. n : f[m] # g[m]}
<1>1. SUFFICES ASSUME T # {} PROVE FALSE
  OBVIOUS
<1>2. T \subseteq Nat
  OBVIOUS
<1>3. PICK m \in T : \A k \in T : m <= k
  BY <1>1, <1>2, Least
<1>4. m # 0
  BY DEF Sums
<1>5. m - 1 \in 0 .. n /\ m - 1 \notin T /\ m \in 1 .. n
  <2>1. m - 1 \in 0 .. n /\ m \in 1 .. n /\ ~(m <= m - 1)
    BY <1>4
  <2> QED
    BY <1>3, <2>1
<1>6. f[m - 1] = g[m - 1]
  BY <1>5
<1>7. f[m] = f[m - 1] + b[m].quan /\ g[m] = g[m - 1] + c[m].quan
  BY <1>5 DEF Sums
<1>8. f[m] = g[m]
  BY <1>5, <1>6, <1>7
<1> QED
  BY <1>8

LEMMA TotalIs ==
  ASSUME NEW b \in Seq(Line)
  PROVE  /\ \E f : Sums(b, f, Len(b)) /\ Total(b) = f[Len(b)]
         /\ \A f : Sums(b, f, Len(b)) => Total(b) = f[Len(b)]
         /\ Total(b) \in Int
<1> DEFINE n == Len(b)
           Up(f) == f = [i \in 0 .. n |-> IF i = 0 THEN 0 ELSE f[i - 1] + b[i].quan]
           up == CHOOSE f : Up(f)
<1>1. n \in Nat /\ n \in 0 .. n /\ DOMAIN b = 1 .. n
  OBVIOUS
<1>2. PICK f : Sums(b, f, n)
  BY <1>1, SumsExist
<1>3. Total(b) = up[n]
  BY Zenon DEF Total
<1>4. Up(f)
  <2>1. f \in [0 .. n -> Int] /\ f[0] = 0 /\ \A i \in 1 .. n : f[i] = f[i - 1] + b[i].quan
    BY <1>2 DEF Sums
  <2> DEFINE h == [i \in 0 .. n |-> IF i = 0 THEN 0 ELSE f[i - 1] + b[i].quan]
  <2>2. \A i \in 0 .. n : h[i] = f[i]
    BY <1>1, <2>1
  <2>3. DOMAIN h = 0 .. n /\ h = [i \in DOMAIN h |-> h[i]]
    OBVIOUS
  <2> HIDE DEF h
  <2>4. h = f
    BY <2>1, <2>2, <2>3
  <2> QED
    BY <2>4 DEF h
<1>5. Up(up)
  BY <1>4, Zenon
<1> HIDE DEF up
<1>6. up[n] = f[n]
  <2> DEFINE T == {m \in 0 .. n : up[m] # f[m]}
  <2>1. SUFFICES ASSUME T # {} PROVE FALSE
    BY <1>1
  <2>2. T \subseteq Nat
    BY <1>1
  <2>3. PICK m \in T : \A k \in T : m <= k
    BY <2>1, <2>2, Least
  <2>4. \A i \in 0 .. n : up[i] = IF i = 0 THEN 0 ELSE up[i - 1] + b[i].quan
    BY <1>5
  <2>5. f[0] = 0 /\ \A i \in 1 .. n : f[i] = f[i - 1] + b[i].quan
    BY <1>2 DEF Sums
  <2>6. m \in 0 .. n /\ m # 0 /\ up[m] # f[m]
    BY <1>1, <2>4, <2>5
  <2>7. m - 1 \in 0 .. n /\ m \in 1 .. n /\ ~(m <= m - 1)
    BY <1>1, <2>6
  <2>8. up[m - 1] = f[m - 1]
    BY <2>3, <2>7
  <2> QED
    BY <2>4, <2>5, <2>6, <2>7, <2>8
<1>7. f[n] \in Int
  BY <1>1, <1>2 DEF Sums
<1>8. \A g : Sums(b, g, n) => g[n] = f[n]
  BY <1>1, <1>2, SumsUnique
<1> QED
  BY <1>2, <1>3, <1>6, <1>7, <1>8

\* The empty bill, one more entry, another quantity, one entry less.
LEMMA TotalNothing == Total(<<>>) = 0
<1> DEFINE f == [i \in {0} |-> 0]
<1>1. <<>> \in Seq(Line) /\ Len(<<>>) = 0
  OBVIOUS
<1>2. Sums(<<>>, f, 0)
  BY DEF Sums
<1> QED
  BY <1>1, <1>2, TotalIs

LEMMA TotalMore ==
  ASSUME NEW b \in Seq(Line), NEW e \in Line
  PROVE  Total(Append(b, e)) = Total(b) + e.quan
<1> DEFINE n == Len(b)
           c == Append(b, e)
<1>1. n \in Nat /\ c \in Seq(Line) /\ Len(c) = n + 1 /\ c[n + 1] = e /\ \A i \in 1 .. n : c[i] = b[i]
  OBVIOUS
<1>2. PICK f : Sums(b, f, n) /\ Total(b) = f[n]
  BY TotalIs
<1>3. PICK g : Sums(c, g, n + 1) /\ Total(c) = g[n + 1]
  BY <1>1, TotalIs
<1> HIDE DEF c, n
<1>4. g \in [0 .. n + 1 -> Int] /\ g[0] = 0 /\ \A i \in 1 .. n + 1 : g[i] = g[i - 1] + c[i].quan
  BY <1>3 DEF Sums
<1> DEFINE h == [i \in 0 .. n |-> g[i]]
<1>5. h \in [0 .. n -> Int] /\ h[0] = 0 /\ h[n] = g[n]
  BY <1>1, <1>4
<1>6. ASSUME NEW i \in 1 .. n PROVE h[i] = h[i - 1] + b[i].quan
  <2>1. i \in 0 .. n /\ i - 1 \in 0 .. n /\ i \in 1 .. n + 1
    BY <1>1
  <2>2. h[i] = g[i] /\ h[i - 1] = g[i - 1]
    BY <2>1
  <2>3. g[i] = g[i - 1] + c[i].quan /\ c[i] = b[i]
    BY <1>1, <1>4, <2>1
  <2> QED
    BY <2>2, <2>3
<1>7. Sums(b, h, n)
  BY <1>5, <1>6 DEF Sums
<1>8. h[n] = f[n]
  BY <1>1, <1>2, <1>7, SumsUnique
<1>9. g[n + 1] = g[n] + e.quan
  <2>1. n + 1 \in 1 .. n + 1 /\ n + 1 - 1 = n
    BY <1>1
  <2> QED
    BY <1>1, <1>4, <2>1
<1> QED
  BY <1>2, <1>3, <1>5, <1>8, <1>9 DEF c, n

LEMMA TotalChanged ==
  ASSUME NEW b \in Seq(Line), NEW i \in DOMAIN b, NEW e \in Line
  PROVE  Total([b EXCEPT ![i] = e]) = Total(b) - b[i].quan + e.quan
<1> DEFINE n == Len(b)
           c == [b EXCEPT ![i] = e]
           x == b[i].quan
           y == e.quan
<1>1. n \in Nat /\ i \in 1 .. n /\ DOMAIN b = 1 .. n
  OBVIOUS
<1>2. c \in Seq(Line) /\ Len(c) = n /\ c[i] = e /\ \A j \in 1 .. n : j # i => c[j] = b[j]
  BY <1>1
<1>3. PICK f : Sums(b, f, n) /\ Total(b) = f[n]
  BY TotalIs
<1>4. x \in Int /\ y \in Int
  <2>1. b[i] \in Line
    BY <1>1
  <2> QED
    BY <2>1 DEF Line
<1> HIDE DEF c
<1>5. /\ f \in [0 .. n -> Int] /\ f[0] = 0
      /\ \A j \in 1 .. n : f[j] = f[j - 1] + b[j].quan
  BY <1>3 DEF Sums
<1> DEFINE g == [j \in 0 .. n |-> IF j < i THEN f[j] ELSE f[j] - x + y]
<1>6. g \in [0 .. n -> Int] /\ g[0] = 0 /\ g[n] = f[n] - x + y
  <2> HIDE DEF n, x, y
  <2> QED
    BY <1>1, <1>4, <1>5
<1>7. ASSUME NEW j \in 1 .. n PROVE g[j] = g[j - 1] + c[j].quan
  <2>1. /\ j \in 0 .. n /\ j - 1 \in 0 .. n /\ f[j] \in Int /\ f[j - 1] \in Int
        /\ f[j] = f[j - 1] + b[j].quan
    BY <1>1, <1>5
  <2>2. g[j] = (IF j < i THEN f[j] ELSE f[j] - x + y)
        /\ g[j - 1] = (IF j - 1 < i THEN f[j - 1] ELSE f[j - 1] - x + y)
    BY <2>1
  <2>3. CASE j < i
    BY <1>1, <1>2, <2>1, <2>2, <2>3
  <2>4. CASE j = i
    <3>1. g[j] = f[j] - x + y /\ g[j - 1] = f[j - 1] /\ f[j] = f[j - 1] + x
      BY <1>1, <2>1, <2>2, <2>4
    <3>2. c[j].quan = y
      BY <1>2, <2>4
    <3> HIDE DEF x, y, g
    <3> QED
      BY <1>4, <2>1, <3>1, <3>2
  <2>5. CASE j > i
    <3>1. g[j] = f[j] - x + y /\ g[j - 1] = f[j - 1] - x + y
      BY <1>1, <2>2, <2>5
    <3>2. c[j] = b[j]
      BY <1>1, <1>2, <2>5
    <3>3. b[j].quan \in Int
      <4>1. b[j] \in Line
        BY <1>1
      <4> QED
        BY <4>1 DEF Line
    <3> HIDE DEF x, y, g
    <3> QED
      BY SMTT(60), <1>4, <2>1, <3>1, <3>2, <3>3
  <2> QED
    BY <1>1, <2>3, <2>4, <2>5
<1> HIDE DEF g
<1>8. Sums(c, g, n)
  BY <1>6, <1>7 DEF Sums
<1>9. Total(c) = g[n]
  BY <1>2, <1>8, TotalIs
<1> QED
  BY <1>3, <1>6, <1>9 DEF c

LEMMA TotalLess ==
  ASSUME NEW b \in Seq(Line), NEW i \in DOMAIN b
  PROVE  Total(SubSeq([b EXCEPT ![i] = b[Len(b)]], 1, Len(b) - 1)) = Total(b) - b[i].quan
<1> DEFINE n == Len(b)
           d == [b EXCEPT ![i] = b[n]]
           c == SubSeq(d, 1, n - 1)
<1>1. n \in Nat /\ i \in 1 .. n /\ DOMAIN b = 1 .. n /\ n \in DOMAIN b /\ b[n] \in Line /\ b[i] \in Line
  OBVIOUS
<1>2. d \in Seq(Line) /\ Len(d) = n /\ d[n] = b[n]
  BY <1>1
<1>3. Total(d) = Total(b) - b[i].quan + b[n].quan
  BY <1>1, TotalChanged
<1> HIDE DEF d
<1>4. c \in Seq(Line) /\ Append(c, d[n]) = d
  BY <1>1, <1>2
<1>5. Total(d) = Total(c) + d[n].quan
  BY <1>1, <1>2, <1>4, TotalMore
<1>6. Total(b) \in Int /\ Total(c) \in Int /\ b[n].quan \in Int /\ b[i].quan \in Int
  BY <1>1, <1>4, TotalIs DEF Line
<1> HIDE DEF c, n
<1>7. Total(c) = Total(b) - b[i].quan
  <2>1. d[n].quan = b[n].quan
    BY <1>2
  <2>2. Total(b) - b[i].quan + b[n].quan = Total(c) + b[n].quan
    BY <1>3, <1>5, <2>1
  <2> QED
    BY ONLY <1>6, <2>2
<1> QED
  BY <1>7 DEF c, d, n

\* What is unpaid in the hero's hands is not free of charge.
Priced(ob) == \A k \in Ids : ob[k].where = "inv" /\ ob[k].unpaid => ~ob[k].nc

LEMMA SlotSame ==
  ASSUME NEW s, NEW t, t.bill = s.bill, NEW o
  PROVE  (Billed(t, o) <=> Billed(s, o)) /\ Slot(t, o) = Slot(s, o)
BY DEF Billed, OnBill, Slot

LEMMA UnbillTotal ==
  ASSUME NEW s, DOMAIN s = {"obj", "bill"}, s.bill \in Seq(Line), NEW i \in DOMAIN s.bill
  PROVE  Total(Unbill(s, i).bill) = Total(s.bill) - s.bill[i].quan /\ Unbill(s, i).obj = s.obj
<1>1. Unbill(s, i).bill = SubSeq([s.bill EXCEPT ![i] = s.bill[Len(s.bill)]], 1, Len(s.bill) - 1)
      /\ Unbill(s, i).obj = s.obj
  BY DEF Unbill
<1> QED
  BY <1>1, TotalLess

LEMMA CombineTotal ==
  ASSUME NEW s, Kept(s), NEW p \in Ids, NEW o \in Ids, p # o,
         s.obj[p].where \in Goods, s.obj[o].where \in Goods
  PROVE  LET r == Combine(s, p, o)
         IN  Total(r.bill) = Total(s.bill) /\ (Priced(s.obj) => Priced(r.obj))
<1> DEFINE w == [s.obj[p] EXCEPT !.quan = @ + s.obj[o].quan]
           t == [s EXCEPT !.obj[p].quan = @ + s.obj[o].quan]
           r == ObfreeMerge(t, p, o)
           i == Slot(s, p)
           j == Slot(s, o)
           e == [s.bill[i] EXCEPT !.quan = @ + s.bill[j].quan]
           u == [t EXCEPT !.bill[i].quan = @ + s.bill[j].quan]
<1>1. Combine(s, p, o) = r
  BY DEF Combine
<1>2. DOMAIN t = {"obj", "bill"} /\ t.bill = s.bill /\ t.obj = [s.obj EXCEPT ![p] = w]
  BY KeptIs
<1>3. s.obj \in [Ids -> Thing] /\ s.bill \in Seq(Line) /\ Once(s.bill)
  BY KeptIs
<1>4. w.where = s.obj[p].where /\ w.unpaid = s.obj[p].unpaid /\ w.nc = s.obj[p].nc
  BY <1>3 DEF Thing
<1>5. \A k : (Billed(t, k) <=> Billed(s, k)) /\ Slot(t, k) = Slot(s, k)
  BY <1>2, SlotSame
<1>6. DOMAIN u = {"obj", "bill"} /\ u.obj = t.obj /\ u.bill = [s.bill EXCEPT ![i] = e]
  BY <1>2
<1>7. r = IF ~Billed(s, o) \/ ~Billed(s, p) THEN Dealloc(t, o) ELSE Dealloc(Unbill(u, j), o)
  <2> HIDE DEF t
  <2> QED
    BY <1>2, <1>5 DEF ObfreeMerge
<1> HIDE DEF r, t, u, w, e, i, j
<1>8. Billed(s, o) /\ Billed(s, p) =>
        /\ i \in DOMAIN s.bill /\ j \in DOMAIN s.bill /\ s.bill[i].id = p /\ s.bill[j].id = o /\ i # j
  BY <1>3, SlotIs DEF i, j
<1>9. Billed(s, o) /\ Billed(s, p) =>
        Total(Unbill(u, j).bill) = Total(s.bill) /\ Unbill(u, j).obj = t.obj
  <2> SUFFICES ASSUME Billed(s, o), Billed(s, p)
               PROVE  Total(Unbill(u, j).bill) = Total(s.bill) /\ Unbill(u, j).obj = t.obj
    OBVIOUS
  <2>1. s.bill[i] \in Line /\ s.bill[j] \in Line
    BY <1>3, <1>8
  <2>2. e \in Line /\ e.quan = s.bill[i].quan + s.bill[j].quan /\ s.bill[i].quan \in Int /\ s.bill[j].quan \in Int
    BY <2>1 DEF e, Line
  <2>3. u.bill \in Seq(Line) /\ j \in DOMAIN u.bill /\ u.bill[j] = s.bill[j]
    BY <1>3, <1>6, <1>8, <2>2
  <2>4. Total(u.bill) = Total(s.bill) - s.bill[i].quan + e.quan
    BY <1>3, <1>6, <1>8, <2>2, TotalChanged
  <2>5. Total(Unbill(u, j).bill) = Total(u.bill) - u.bill[j].quan /\ Unbill(u, j).obj = u.obj
    BY <1>6, <2>3, UnbillTotal
  <2>6. Total(s.bill) \in Int
    BY <1>3, TotalIs
  <2>7. u.bill[j].quan = s.bill[j].quan
    BY <2>3
  <2> QED
    BY <1>6, <2>2, <2>4, <2>5, <2>6, <2>7
<1>10. r.obj = [t.obj EXCEPT ![o] = Nil] /\ Total(r.bill) = Total(s.bill)
  <2>1. CASE ~Billed(s, o) \/ ~Billed(s, p)
    <3>1. r = Dealloc(t, o)
      BY <1>7, <2>1
    <3> QED
      BY <1>2, <3>1, DeallocIs
  <2>2. CASE Billed(s, o) /\ Billed(s, p)
    <3>1. r = Dealloc(Unbill(u, j), o)
      BY <1>7, <2>2
    <3>2. DOMAIN Unbill(u, j) = {"obj", "bill"}
      BY <1>6 DEF Unbill
    <3>3. r.obj = [Unbill(u, j).obj EXCEPT ![o] = Nil] /\ r.bill = Unbill(u, j).bill
      BY <3>1, <3>2, DeallocIs
    <3> QED
      BY <1>9, <2>2, <3>3
  <2> QED
    BY <2>1, <2>2
<1>11. Priced(s.obj) => Priced(r.obj)
  BY <1>2, <1>3, <1>4, <1>10, NilIs DEF Priced
<1> QED
  BY <1>1, <1>10, <1>11

LEMMA SplitTotal ==
  ASSUME NEW s, Kept(s), NEW o \in Ids, s.obj[o].where \in Goods,
         NEW n \in Nat, 0 < n, n < s.obj[o].quan, NEW q \in Free(s)
  PROVE  LET t == Split(s, o, n, q) IN
         /\ Total(t.bill) = Total(s.bill) - (IF s.obj[o].unpaid /\ Full(s) THEN n ELSE 0)
         /\ t.obj[q].quan = n
         /\ s.obj[o].unpaid => (t.obj[q].unpaid <=> ~Full(s))
         /\ Priced(s.obj) => Priced(t.obj)
<1> DEFINE v == [s.obj[o] EXCEPT !.quan = n]
           w == [s.obj[o] EXCEPT !.quan = @ - n]
           two == [s EXCEPT !.obj[q] = [s.obj[o] EXCEPT !.quan = n], !.obj[o] = [s.obj[o] EXCEPT !.quan = @ - n]]
           t == Split(s, o, n, q)
<1>1. q \in Ids /\ s.obj[q].where = "none" /\ q # o
  BY FreeIs DEF Goods
<1>2. s.obj[o] \in Thing /\ s.obj \in [Ids -> Thing] /\ s.bill \in Seq(Line) /\ Once(s.bill)
  BY KeptIs
<1>3. /\ v \in Thing /\ v.where = s.obj[o].where /\ v.unpaid = s.obj[o].unpaid
      /\ v.nc = s.obj[o].nc /\ v.quan = n
  BY <1>2 DEF Thing
<1>4. w.where = s.obj[o].where /\ w.unpaid = s.obj[o].unpaid /\ w.nc = s.obj[o].nc
  BY <1>2 DEF Thing
<1>5. DOMAIN two = {"obj", "bill"} /\ two.bill = s.bill /\ two.obj = [s.obj EXCEPT ![q] = v, ![o] = w]
  BY KeptIs
<1>6. t = IF s.obj[o].unpaid THEN SplitBill(two, o, q) ELSE two
  BY DEF Split
<1> HIDE DEF two, t, v, w
<1>7. /\ two.obj[q] = v /\ two.obj[o] = w
      /\ \A k \in Ids : k # q /\ k # o => two.obj[k] = s.obj[k]
  BY <1>1, <1>2, <1>5
<1>8. Priced(s.obj) => Priced(two.obj)
  BY <1>3, <1>4, <1>7 DEF Priced
<1>9. CASE ~s.obj[o].unpaid
  <2>1. t = two
    BY <1>6, <1>9
  <2>2. Total(s.bill) \in Int
    BY <1>2, TotalIs
  <2>3. Total(t.bill) = Total(s.bill) /\ t.obj[q].quan = n
    BY <1>3, <1>5, <1>7, <2>1
  <2> QED
    BY <1>8, <1>9, <2>1, <2>2, <2>3 DEF t
<1>10. CASE s.obj[o].unpaid
  <2> DEFINE i == Slot(s, o)
             e == [s.bill[i] EXCEPT !.quan = @ - n]
             less == [two EXCEPT !.bill[i].quan = @ - n]
  <2>1. i \in DOMAIN s.bill /\ s.bill[i] \in Line
    BY <1>2, <1>10, SlotIs, Unlined
  <2>2. e \in Line /\ e.quan = s.bill[i].quan - n /\ s.bill[i].quan \in Int
    BY <2>1 DEF Line
  <2>3. DOMAIN less = {"obj", "bill"} /\ less.obj = two.obj /\ less.bill = [s.bill EXCEPT ![i] = e]
    BY <1>5
  <2>4. t = IF Full(s) THEN [less EXCEPT !.obj[q].unpaid = FALSE]
            ELSE [less EXCEPT !.bill = Append(@, Entry(q, n, FALSE))]
    <3>1. Slot(two, o) = i /\ (Full(two) <=> Full(s)) /\ two.obj[q].quan = n
      BY <1>3, <1>5, <1>7, SlotSame DEF Full
    <3>2. t = SplitBill(two, o, q)
      BY <1>6, <1>10
    <3> HIDE DEF i
    <3> QED
      BY <3>1, <3>2 DEF SplitBill
  <2> HIDE DEF less, e, i
  <2>5. Total(less.bill) = Total(s.bill) - n /\ less.bill \in Seq(Line) /\ Total(s.bill) \in Int
    <3>1. Total(less.bill) = Total(s.bill) - s.bill[i].quan + e.quan
      BY <1>2, <2>1, <2>2, <2>3, TotalChanged
    <3>2. Total(s.bill) \in Int
      BY <1>2, TotalIs
    <3>3. less.bill \in Seq(Line)
      BY <1>2, <2>1, <2>2, <2>3
    <3> QED
      BY <2>2, <3>1, <3>2, <3>3
  <2>6. CASE Full(s)
    <3> DEFINE x == [v EXCEPT !.unpaid = FALSE]
    <3>1. t.bill = less.bill /\ t.obj = [two.obj EXCEPT ![q] = x]
      BY <1>1, <1>7, <2>3, <2>4, <2>6
    <3>2. x.unpaid = FALSE /\ x.quan = n
      BY <1>3 DEF Thing
    <3> HIDE DEF x
    <3>3. t.obj[q] = x /\ \A k \in Ids : k # q => t.obj[k] = two.obj[k]
      BY <1>1, <1>2, <1>5, <3>1
    <3>4. Priced(two.obj) => Priced(t.obj)
      BY <3>2, <3>3 DEF Priced
    <3>5. ~t.obj[q].unpaid
      BY <3>2, <3>3
    <3> QED
      BY <1>8, <1>10, <2>5, <2>6, <3>1, <3>2, <3>3, <3>4, <3>5 DEF t
  <2>7. CASE ~Full(s)
    <3>1. t.bill = Append(less.bill, Entry(q, n, FALSE)) /\ t.obj = two.obj
      BY <2>3, <2>4, <2>7
    <3>2. Entry(q, n, FALSE) \in Line /\ Entry(q, n, FALSE).quan = n
      BY <1>1 DEF Entry, Line
    <3>3. Total(t.bill) = Total(less.bill) + n
      BY <2>5, <3>1, <3>2, TotalMore
    <3>4. Total(t.bill) = Total(s.bill)
      BY <2>5, <3>3
    <3>5. t.obj[q].quan = n
      BY <1>3, <1>7, <3>1
    <3>6. t.obj[q].unpaid
      BY <1>3, <1>7, <1>10, <3>1
    <3>7. Priced(s.obj) => Priced(t.obj)
      BY <1>8, <3>1
    <3>8. Total(t.bill) = Total(s.bill) - 0
      BY <2>5, <3>4
    <3> QED
      BY <1>10, <2>7, <3>5, <3>6, <3>7, <3>8 DEF t
  <2> QED
    BY <2>6, <2>7
<1> QED
  BY <1>9, <1>10

-----------------------------------------------------------------------------
(* By how much the operations change what the bill comes to.              *)

\* Where objects change one at a time.
LEMMA PricedOne ==
  ASSUME NEW ob \in [Ids -> Thing], NEW o \in Ids, NEW v, v.where = "inv" /\ v.unpaid => ~v.nc, Priced(ob)
  PROVE  Priced([ob EXCEPT ![o] = v])
<1> DEFINE c == [ob EXCEPT ![o] = v]
<1>1. c[o] = v /\ \A k \in Ids : k # o => c[k] = ob[k]
  OBVIOUS
<1> HIDE DEF c
<1>2. Priced(c)
  BY <1>1 DEF Priced
<1> QED
  BY <1>2 DEF c

\* What is on the bill for s, and what for t, differs by d.
Dearer(s, d, t) == Total(t.bill) = Total(s.bill) + d /\ (Priced(s.obj) => Priced(t.obj))

LEMMA DearerTwice ==
  ASSUME NEW s, NEW t, NEW u, s.bill \in Seq(Line), NEW d \in Int, NEW e \in Int,
         Dearer(s, d, t), Dearer(t, e, u)
  PROVE  Dearer(s, d + e, u)
<1>1. Total(s.bill) \in Int
  BY TotalIs
<1>2. Total(t.bill) = Total(s.bill) + d /\ Total(u.bill) = Total(t.bill) + e
  BY DEF Dearer
<1>3. Total(u.bill) = Total(s.bill) + (d + e)
  BY <1>1, <1>2
<1> QED
  BY <1>3, Zenon DEF Dearer

LEMMA DearerSame ==
  ASSUME NEW s, NEW t, s.bill \in Seq(Line), t.bill = s.bill, Priced(s.obj) => Priced(t.obj)
  PROVE  Dearer(s, 0, t)
<1>1. Total(s.bill) \in Int
  BY TotalIs
<1>2. Total(t.bill) = Total(s.bill) + 0
  BY <1>1
<1> QED
  BY <1>2 DEF Dearer

LEMMA CombineDearer ==
  ASSUME NEW s, Kept(s), NEW p \in Ids, NEW o \in Ids, p # o,
         s.obj[p].where \in Goods, s.obj[o].where \in Goods
  PROVE  Dearer(s, 0, Combine(s, p, o))
<1>1. Total(s.bill) \in Int
  BY KeptIs, TotalIs
<1>2. Total(Combine(s, p, o).bill) = Total(s.bill) /\ (Priced(s.obj) => Priced(Combine(s, p, o).obj))
  BY CombineTotal
<1>3. Total(Combine(s, p, o).bill) = Total(s.bill) + 0
  BY <1>1, <1>2
<1> QED
  BY <1>2, <1>3 DEF Dearer

LEMMA StowDearer ==
  ASSUME NEW s, Kept(s), NEW o \in Ids, s.obj[o].where \in Goods, NEW r \in Stow(s, o)
  PROVE  Dearer(s, 0, r)
<1> DEFINE t == [s EXCEPT !.obj[o] = [@ EXCEPT !.where = "inv", !.nc = FALSE]]
           v == [s.obj[o] EXCEPT !.where = "inv", !.nc = FALSE]
           P == {p \in Ids : s.obj[p].where = "inv" /\ Mergable(t, p, o)}
<1>1. r = t \/ \E p \in P : r = Combine(t, p, o)
  BY DEF Stow
<1>2. DOMAIN t = {"obj", "bill"} /\ t.bill = s.bill /\ t.obj = [s.obj EXCEPT ![o] = v]
  BY KeptIs
<1>3. v \in Thing /\ v.where = "inv" /\ v.unpaid = s.obj[o].unpaid /\ v.quan = s.obj[o].quan
      /\ v.nc = FALSE
  <2>1. s.obj[o] \in Thing
    BY KeptIs
  <2> QED
    BY <2>1 DEF Thing, Where
<1>4. s.obj \in [Ids -> Thing] /\ s.bill \in Seq(Line)
  BY KeptIs
<1> HIDE DEF t
<1> HIDE DEF v
<1>5. /\ t.obj \in [Ids -> Thing] /\ t.obj[o] = v
      /\ \A k \in Ids : k # o => t.obj[k] = s.obj[k]
  BY <1>2, <1>3, <1>4
<1>6. Kept(t)
  <2>1. Booked(s.obj, Lines(s.bill))
    BY DEF Kept
  <2>2. \A k \in Ids : t.obj[k].where \in Goods =>
          t.obj[k].quan > 0
          /\ (t.obj[k].unpaid => \E z \in Lines(s.bill) : z.id = k /\ ~z.useup)
    BY <1>3, <1>5, <2>1 DEF Booked
  <2>3. \A k \in Ids : t.obj[k].where = "billobjs" <=> s.obj[k].where = "billobjs"
    BY <1>3, <1>5 DEF Goods
  <2> QED
    BY <1>2, <1>5, <2>2, <2>3, Touched
<1>7. Dearer(s, 0, t)
  <2>1. ~v.nc
    BY <1>3
  <2>2. Priced(s.obj) => Priced(t.obj)
    BY <1>2, <1>4, <2>1, PricedOne
  <2> QED
    BY <1>2, <1>4, <2>2, DearerSame
<1>8. ASSUME NEW p \in P PROVE Dearer(s, 0, Combine(t, p, o))
  <2>1. p \in Ids /\ p # o /\ s.obj[p].where = "inv"
    BY DEF Mergable
  <2>2. t.obj[p].where \in Goods /\ t.obj[o].where \in Goods
    BY <1>3, <1>5, <2>1 DEF Goods
  <2>3. Dearer(t, 0, Combine(t, p, o))
    BY <1>6, <2>1, <2>2, CombineDearer
  <2>4. Dearer(s, 0 + 0, Combine(t, p, o))
    BY <1>4, <1>7, <2>3, DearerTwice
  <2> QED
    BY <2>4
<1> QED
  BY <1>1, <1>7, <1>8

LEMMA LayDearer ==
  ASSUME NEW s, Kept(s), NEW o \in Ids, s.obj[o].where \in Goods,
         NEW w \in {"shop", "spot"}, NEW r \in Lay(s, o, w)
  PROVE  Dearer(s, 0, r)
<1> DEFINE t == [s EXCEPT !.obj[o].where = w]
           v == [s.obj[o] EXCEPT !.where = w]
           P == {p \in Ids : s.obj[p].where = w /\ Mergable(t, o, p)}
<1>1. r = t \/ \E p \in P : r = Combine(t, o, p)
  BY DEF Lay
<1>2. DOMAIN t = {"obj", "bill"} /\ t.bill = s.bill /\ t.obj = [s.obj EXCEPT ![o] = v]
  BY KeptIs
<1>3. v \in Thing /\ v.where = w /\ v.unpaid = s.obj[o].unpaid /\ v.quan = s.obj[o].quan
  <2>1. s.obj[o] \in Thing
    BY KeptIs
  <2> QED
    BY <2>1 DEF Thing, Where
<1>4. s.obj \in [Ids -> Thing] /\ s.bill \in Seq(Line)
  BY KeptIs
<1> HIDE DEF t
<1> HIDE DEF v
<1>5. /\ t.obj \in [Ids -> Thing] /\ t.obj[o] = v
      /\ \A k \in Ids : k # o => t.obj[k] = s.obj[k]
  BY <1>2, <1>3, <1>4
<1>6. Kept(t)
  <2>1. Booked(s.obj, Lines(s.bill))
    BY DEF Kept
  <2>2. \A k \in Ids : t.obj[k].where \in Goods =>
          t.obj[k].quan > 0
          /\ (t.obj[k].unpaid => \E z \in Lines(s.bill) : z.id = k /\ ~z.useup)
    BY <1>3, <1>5, <2>1 DEF Booked
  <2>3. \A k \in Ids : t.obj[k].where = "billobjs" <=> s.obj[k].where = "billobjs"
    BY <1>3, <1>5 DEF Goods
  <2> QED
    BY <1>2, <1>5, <2>2, <2>3, Touched
<1>7. Dearer(s, 0, t)
  <2>1. v.where # "inv"
    BY <1>3
  <2>2. Priced(s.obj) => Priced(t.obj)
    BY <1>2, <1>4, <2>1, PricedOne
  <2> QED
    BY <1>2, <1>4, <2>2, DearerSame
<1>8. ASSUME NEW p \in P PROVE Dearer(s, 0, Combine(t, o, p))
  <2>1. p \in Ids /\ p # o /\ s.obj[p].where = w
    BY DEF Mergable
  <2>2. t.obj[p].where \in Goods /\ t.obj[o].where \in Goods
    BY <1>3, <1>5, <2>1 DEF Goods
  <2>3. Dearer(t, 0, Combine(t, o, p))
    BY <1>6, <2>1, <2>2, CombineDearer
  <2>4. Dearer(s, 0 + 0, Combine(t, o, p))
    BY SMTT(60), <1>4, <1>7, <2>3, DearerTwice
  <2> QED
    BY <2>4
<1> QED
  BY <1>1, <1>7, <1>8

LEMMA ObfreeDearer ==
  ASSUME NEW s, Kept(s), NEW o \in Ids, s.obj[o].where \in Goods
  PROVE  Dearer(s, 0, Obfree(s, o))
<1> DEFINE t == Obfree(s, o)
<1>0. s.obj \in [Ids -> Thing] /\ s.bill \in Seq(Line) /\ Once(s.bill) /\ DOMAIN s = {"obj", "bill"}
  BY KeptIs
<1>1. CASE ~Billed(s, o)
  <2>1. t = Dealloc(s, o)
    BY <1>1 DEF Obfree
  <2>2. t.bill = s.bill /\ t.obj = [s.obj EXCEPT ![o] = Nil]
    BY <1>0, <2>1, DeallocIs
  <2> HIDE DEF t
  <2>3. Priced(s.obj) => Priced(t.obj)
    BY <1>0, <2>2, NilIs, PricedOne
  <2> QED
    BY <1>0, <2>2, <2>3, DearerSame DEF t
<1>2. CASE Billed(s, o)
  <2> DEFINE i == Slot(s, o)
             e == [s.bill[i] EXCEPT !.useup = TRUE]
             v == [s.obj[o] EXCEPT !.unpaid = FALSE, !.where = "billobjs"]
  <2>1. i \in DOMAIN s.bill /\ s.bill[i] \in Line
    BY <1>0, <1>2, SlotIs
  <2>2. e \in Line /\ e.quan = s.bill[i].quan /\ e.quan \in Int
    BY <2>1 DEF Line
  <2>3. t.obj = [s.obj EXCEPT ![o] = v] /\ t.bill = [s.bill EXCEPT ![i] = e]
    BY <1>2 DEF Obfree
  <2>4. v.where = "billobjs"
    <3>1. s.obj[o] \in Thing
      BY <1>0
    <3> QED
      BY <3>1 DEF Thing
  <2> HIDE DEF t, v, e, i
  <2>5. Priced(s.obj) => Priced(t.obj)
    BY <1>0, <2>3, <2>4, PricedOne
  <2>6. Total(t.bill) = Total(s.bill) - s.bill[i].quan + e.quan
    BY <1>0, <2>1, <2>2, <2>3, TotalChanged
  <2>7. Total(s.bill) \in Int
    BY <1>0, TotalIs
  <2>8. Total(t.bill) = Total(s.bill) + 0
    BY <2>2, <2>6, <2>7
  <2> QED
    BY <2>5, <2>8 DEF Dearer, t
<1> QED
  BY <1>1, <1>2

LEMMA UseUpDearer ==
  ASSUME NEW s, Kept(s), NEW o \in Ids, s.obj[o].where \in Goods
  PROVE  Dearer(s, 0, UseUp(s, o))
<1> DEFINE t == UseUp(s, o)
<1>1. CASE s.obj[o].quan > 1
  <2> DEFINE v == [s.obj[o] EXCEPT !.quan = @ - 1]
  <2>1. t.bill = s.bill /\ t.obj = [s.obj EXCEPT ![o] = v]
    BY <1>1, KeptIs DEF UseUp
  <2>2. v.where = s.obj[o].where /\ v.unpaid = s.obj[o].unpaid /\ v.nc = s.obj[o].nc
    <3>1. s.obj[o] \in Thing
      BY KeptIs
    <3> QED
      BY <3>1 DEF Thing
  <2> HIDE DEF t, v
  <2>3. Priced(s.obj) => Priced(t.obj)
    <3> SUFFICES ASSUME Priced(s.obj) PROVE Priced(t.obj)
      OBVIOUS
    <3>1. v.where = "inv" /\ v.unpaid => ~v.nc
      BY <2>2 DEF Priced
    <3> QED
      BY <2>1, <3>1, KeptIs, PricedOne
  <2> QED
    BY <2>1, <2>3, KeptIs, DearerSame DEF t
<1>2. CASE ~(s.obj[o].quan > 1)
  BY <1>2, ObfreeDearer DEF UseUp
<1> QED
  BY <1>1, <1>2

\* An object that stays where it is and is no more unpaid than before.
LEMMA TouchedDearer ==
  ASSUME NEW s, Kept(s), NEW o \in Ids, NEW v, v.where = s.obj[o].where,
         v.unpaid => s.obj[o].unpaid /\ v.nc = s.obj[o].nc
  PROVE  Dearer(s, 0, [s EXCEPT !.obj[o] = v])
<1> DEFINE t == [s EXCEPT !.obj[o] = v]
<1>1. t.bill = s.bill /\ t.obj = [s.obj EXCEPT ![o] = v]
  BY KeptIs
<1> HIDE DEF t
<1>2. Priced(s.obj) => Priced(t.obj)
  <2> SUFFICES ASSUME Priced(s.obj) PROVE Priced(t.obj)
    OBVIOUS
  <2>1. v.where = "inv" /\ v.unpaid => ~v.nc
    BY DEF Priced
  <2> QED
    BY <1>1, <2>1, KeptIs, PricedOne
<1> QED
  BY <1>1, <1>2, KeptIs, DearerSame DEF t

LEMMA SubOneDearer ==
  ASSUME NEW s, Kept(s), Right(s), NEW o \in Ids, s.obj[o].where \in Goods, s.obj[o].unpaid, Free(s) # {}
  PROVE  Dearer(s, -s.obj[o].quan, SubOne(s, o))
<1> DEFINE t == SubOne(s, o)
           i == Slot(s, o)
           q == NewId(s)
           v == [s.obj[o] EXCEPT !.unpaid = FALSE]
           back == [s.obj EXCEPT ![o] = v]
           used == s.bill[i].quan - s.obj[o].quan
           n == s.obj[o].quan
<1>1. q \in Ids /\ q # o
  BY FreeIs, NewIdIs DEF Goods
<1>2. s.obj \in [Ids -> Thing] /\ s.bill \in Seq(Line) /\ Once(s.bill) /\ DOMAIN s = {"obj", "bill"}
  BY KeptIs
<1>3. v.unpaid = FALSE /\ v.where = s.obj[o].where
  <2>1. s.obj[o] \in Thing
    BY <1>2
  <2> QED
    BY <2>1 DEF Thing
<1>4. Billed(s, o) /\ n \in Nat
  BY Unlined
<1>5. i \in DOMAIN s.bill /\ s.bill[i] \in Line /\ s.bill[i].id = o /\ s.bill[i] \in Lines(s.bill)
  BY <1>2, <1>4, SlotIs
<1>6. s.bill[i].quan \in Int /\ n <= s.bill[i].quan /\ used \in Int /\ used >= 0
  <2>1. ~s.bill[i].useup
    BY <1>5, Unlined
  <2>2. s.bill[i].quan \in Int
    BY <1>5 DEF Line
  <2>3. n <= s.bill[i].quan
    BY <1>5, <2>1 DEF Right, Exact
  <2> HIDE DEF n, i
  <2>4. s.bill[i].quan - n \in Int /\ s.bill[i].quan - n >= 0
    BY <1>4, <2>2, <2>3
  <2> QED
    BY <2>2, <2>3, <2>4 DEF n, i
<1>7. back = [s.obj EXCEPT ![o].unpaid = FALSE]
  OBVIOUS
<1>8. back[o] = v /\ \A k \in Ids : k # o => back[k] = s.obj[k]
  BY <1>2
<1>9. t = IF used > 0
          THEN [obj  |-> [back EXCEPT ![q] = [back[o] EXCEPT !.where = "billobjs", !.quan = used]],
                bill |-> [s.bill EXCEPT ![i] = Entry(q, used, TRUE)]]
          ELSE Unbill([s EXCEPT !.obj = back], i)
  BY <1>4, <1>7 DEF SubOne
<1>10. back \in [Ids -> Thing] /\ (Priced(s.obj) => Priced(back))
  <2>1. v \in Thing
    <3>1. s.obj[o] \in Thing
      BY <1>2
    <3> QED
      BY <3>1 DEF Thing
  <2>2. ~v.unpaid
    BY <1>3
  <2> QED
    BY <1>2, <2>1, <2>2, PricedOne
<1>11. Total(s.bill) \in Int
  BY <1>2, TotalIs
<1> DEFINE z == [back[o] EXCEPT !.where = "billobjs", !.quan = used]
           e == Entry(q, used, TRUE)
           w == [s EXCEPT !.obj = back]
<1>12. CASE used > 0
  <2>1. t.obj = [back EXCEPT ![q] = z] /\ t.bill = [s.bill EXCEPT ![i] = e]
    BY <1>9, <1>12
  <2>2. z.where = "billobjs"
    <3>1. s.obj[o] \in Thing
      BY <1>2
    <3>2. back[o] \in Thing
      BY <1>10
    <3> QED
      BY <3>2 DEF Thing
  <2>3. e \in Line /\ e.quan = used
    BY <1>1, <1>6 DEF Entry, Line
  <2> HIDE DEF t, z, e, back, w, i
  <2>4. Priced(back) => Priced(t.obj)
    <3>1. q \in Ids /\ z.where # "inv" /\ back \in [Ids -> Thing]
      BY <1>1, <1>10, <2>2
    <3>2. t.obj = [back EXCEPT ![q] = z]
      BY <2>1
    <3> HIDE DEF q
    <3> QED
      BY ZenonT(60), <3>1, <3>2, PricedOne
  <2>5. Total(t.bill) = Total(s.bill) - s.bill[i].quan + e.quan
    BY <1>2, <1>5, <2>1, <2>3, TotalChanged
  <2>6. e.quan = s.bill[i].quan - n
    BY <2>3
  <2> HIDE DEF n
  <2>7. Total(t.bill) = Total(s.bill) + -n
    BY <1>4, <1>6, <1>11, <2>5, <2>6
  <2> QED
    BY <1>10, <2>4, <2>7 DEF Dearer, t, n
<1>13. CASE ~(used > 0)
  <2>1. t = Unbill(w, i) /\ DOMAIN w = {"obj", "bill"} /\ w.bill = s.bill /\ w.obj = back
    BY <1>2, <1>9, <1>13
  <2> HIDE DEF t, w, back, i
  <2>2. Total(t.bill) = Total(s.bill) - s.bill[i].quan /\ t.obj = back
    BY <1>2, <1>5, <2>1, UnbillTotal
  <2>3. s.bill[i].quan = n
    <3>1. used = s.bill[i].quan - n
      OBVIOUS
    <3> HIDE DEF n, used
    <3> QED
      BY <1>4, <1>6, <1>13, <3>1
  <2> HIDE DEF n
  <2>4. Total(t.bill) = Total(s.bill) + -n
    BY <1>4, <1>11, <2>2, <2>3
  <2> QED
    BY <1>10, <2>2, <2>4 DEF Dearer, t, n
<1> QED
  BY <1>12, <1>13

\* pick_obj: only for what is not yet on the bill.
LEMMA AddDearer ==
  ASSUME NEW s, Kept(s), Right(s), NEW o \in Ids, s.obj[o].where = "shop"
  PROVE  Dearer(s, IF s.obj[o].nc \/ Full(s) THEN 0 ELSE s.obj[o].quan, AddToBill(s, o, FALSE))
<1> DEFINE t == AddToBill(s, o, FALSE)
           n == s.obj[o].quan
<1>1. s.obj \in [Ids -> Thing] /\ s.bill \in Seq(Line) /\ DOMAIN s = {"obj", "bill"}
  BY KeptIs
<1>2. ~Billed(s, o) /\ n \in Nat
  BY Unlined DEF Goods
<1>3. CASE Full(s)
  <2>1. t = s
    BY <1>3 DEF AddToBill
  <2>2. Dearer(s, 0, t)
    BY <1>1, <2>1, DearerSame
  <2> QED
    BY <1>3, <2>2
<1>4. CASE ~Full(s) /\ s.obj[o].nc
  <2> DEFINE v == [s.obj[o] EXCEPT !.nc = FALSE]
  <2>1. t = [s EXCEPT !.obj[o] = v]
    BY <1>2, <1>4 DEF AddToBill
  <2>2. t.bill = s.bill /\ t.obj = [s.obj EXCEPT ![o] = v]
    BY <1>1, <2>1
  <2>3. v.where # "inv"
    <3>1. s.obj[o] \in Thing
      BY <1>1
    <3> QED
      BY <3>1 DEF Thing
  <2> HIDE DEF v, t
  <2>4. Priced(s.obj) => Priced(t.obj)
    BY <1>1, <2>2, <2>3, PricedOne
  <2>5. Dearer(s, 0, t)
    BY <1>1, <2>2, <2>4, DearerSame
  <2> QED
    BY <1>4, <2>5 DEF t
<1>5. CASE ~Full(s) /\ ~s.obj[o].nc
  <2> DEFINE v == [s.obj[o] EXCEPT !.unpaid = TRUE]
             e == Entry(o, n, FALSE)
  <2>1. t.obj = [s.obj EXCEPT ![o] = v] /\ t.bill = Append(s.bill, e)
    BY <1>2, <1>5 DEF AddToBill
  <2>2. v.where # "inv"
    <3>1. s.obj[o] \in Thing
      BY <1>1
    <3> QED
      BY <3>1 DEF Thing
  <2>3. e \in Line /\ e.quan = n
    BY <1>2 DEF Entry, Line
  <2> HIDE DEF v, e, t, n
  <2>4. Priced(s.obj) => Priced(t.obj)
    BY <1>1, <2>1, <2>2, PricedOne
  <2>5. Total(t.bill) = Total(s.bill) + n
    BY <1>1, <2>1, <2>3, TotalMore
  <2> QED
    BY <1>5, <2>4, <2>5 DEF Dearer, t, n
<1> QED
  BY <1>3, <1>4, <1>5

LEMMA DummyDearer ==
  ASSUME NEW s, Kept(s), NEW o \in Ids, s.obj[o].where = "inv", ~s.obj[o].nc, NEW q \in Free(s)
  PROVE  Dearer(s, IF Full(s) THEN 0 ELSE s.obj[o].quan, BillDummy(s, o, q))
<1> DEFINE m == [s EXCEPT !.obj[q] = s.obj[o]]
           a == AddToBill(m, q, TRUE)
           u == IF Billed(a, q) THEN a ELSE Dealloc(a, q)
           v == [u.obj[o] EXCEPT !.nc = TRUE, !.unpaid = FALSE]
           t == BillDummy(s, o, q)
           n == s.obj[o].quan
<1>1. q \in Ids /\ q # o /\ \A z \in Lines(s.bill) : z.id # q
  BY FreeIs
<1>2. s.obj \in [Ids -> Thing] /\ s.bill \in Seq(Line) /\ DOMAIN s = {"obj", "bill"} /\ n \in Nat
  BY KeptIs, Unlined DEF Goods
<1>3. DOMAIN m = {"obj", "bill"} /\ m.bill = s.bill /\ m.obj = [s.obj EXCEPT ![q] = s.obj[o]]
  BY <1>2
<1>4. m.obj \in [Ids -> Thing] /\ m.obj[q] = s.obj[o] /\ m.obj[o] = s.obj[o]
      /\ \A k \in Ids : k # q => m.obj[k] = s.obj[k]
  BY <1>1, <1>2, <1>3
<1>5. ~Billed(m, q) /\ (Full(m) <=> Full(s))
  BY <1>1, <1>3, BilledIs DEF Full
<1>6. t = [u EXCEPT !.obj[o] = v]
  BY DEF BillDummy
<1> DEFINE x == [m.obj[q] EXCEPT !.unpaid = TRUE, !.where = "billobjs"]
           e == Entry(q, m.obj[q].quan, TRUE)
<1>7. /\ DOMAIN u = {"obj", "bill"}
      /\ u.bill = IF Full(s) THEN s.bill ELSE Append(s.bill, e)
      /\ \E y : u.obj = [m.obj EXCEPT ![q] = y] /\ y.where # "inv"
  <2>1. CASE Full(s)
    <3>1. a = m
      BY <1>5, <2>1 DEF AddToBill
    <3>2. u = Dealloc(m, q)
      BY <1>5, <3>1
    <3> HIDE DEF m, a, u
    <3>3. u.obj = [m.obj EXCEPT ![q] = Nil] /\ u.bill = m.bill /\ DOMAIN u = {"obj", "bill"}
      BY <1>3, <3>2, DeallocIs
    <3>4. Nil.where # "inv"
      BY NilIs
    <3> QED
      BY <1>3, <2>1, <3>3, <3>4
  <2>2. CASE ~Full(s)
    <3>1. ~m.obj[q].nc
      BY <1>4
    <3>2. a = [obj |-> [m.obj EXCEPT ![q] = [[m.obj[q] EXCEPT !.unpaid = TRUE] EXCEPT !.where = "billobjs"]],
               bill |-> Append(m.bill, e)]
      BY <1>5, <2>2, <3>1 DEF AddToBill
    <3>x. x = [[m.obj[q] EXCEPT !.unpaid = TRUE] EXCEPT !.where = "billobjs"]
      BY Zenon
    <3>3. a.obj = [m.obj EXCEPT ![q] = x] /\ a.bill = Append(s.bill, e) /\ DOMAIN a = {"obj", "bill"}
      <4> HIDE DEF a, x, e
      <4> QED
        BY <1>3, <3>2, <3>x
    <3>4. x.where = "billobjs"
      <4>1. m.obj[q] \in Thing
        BY <1>1, <1>4
      <4> QED
        BY <4>1 DEF Thing
    <3>5. Billed(a, q)
      <4>1. e \in Lines(a.bill) /\ e.id = q
        <5>1. e \in Line /\ e.id = q
          BY <1>1, <1>2, <1>4 DEF Entry, Line
        <5> HIDE DEF e, a
        <5>2. Len(s.bill) + 1 \in DOMAIN Append(s.bill, e) /\ Append(s.bill, e)[Len(s.bill) + 1] = e
          BY <1>2, <5>1
        <5> QED
          BY <3>3, <5>1, <5>2 DEF Lines
      <4> QED
        BY <4>1, BilledIs
    <3>6. u = a
      BY <3>5
    <3> HIDE DEF a, u, x, e
    <3> QED
      BY <2>2, <3>3, <3>4, <3>6
  <2> QED
    BY <2>1, <2>2
<1>8. e \in Line /\ e.quan = n
  BY <1>1, <1>2, <1>4 DEF Entry, Line
<1> HIDE DEF m, a, u, e, n, x
<1>9. PICK y : u.obj = [m.obj EXCEPT ![q] = y] /\ y.where # "inv"
  BY <1>7
<1>10. u.obj[o] = s.obj[o] /\ u.obj[q] = y /\ \A k \in Ids : k # q /\ k # o => u.obj[k] = s.obj[k]
  BY <1>1, <1>4, <1>9
<1>11. v.unpaid = FALSE
  <2>1. u.obj[o] \in Thing
    BY <1>2, <1>10
  <2> QED
    BY <2>1 DEF Thing
<1>12. t.bill = u.bill /\ t.obj = [u.obj EXCEPT ![o] = v] /\ DOMAIN u.obj = Ids
  BY <1>4, <1>6, <1>7, <1>9
<1> HIDE DEF t, v
<1>13. t.obj[o] = v /\ t.obj[q] = y /\ \A k \in Ids : k # q /\ k # o => t.obj[k] = s.obj[k]
  BY <1>1, <1>10, <1>12
<1>14. Priced(s.obj) => Priced(t.obj)
  <2>1. ~v.unpaid
    BY <1>11
  <2> QED
    BY <1>9, <1>13, <2>1 DEF Priced
<1>15. CASE Full(s)
  <2>1. t.bill = s.bill
    BY <1>7, <1>12, <1>15
  <2>2. Dearer(s, 0, t)
    BY <1>2, <1>14, <2>1, DearerSame
  <2> QED
    BY <1>15, <2>2 DEF t
<1>16. CASE ~Full(s)
  <2>1. t.bill = Append(s.bill, e)
    BY <1>7, <1>12, <1>16
  <2>2. Total(t.bill) = Total(s.bill) + n
    BY <1>2, <1>8, <2>1, TotalMore
  <2> QED
    BY <1>14, <1>16, <2>2 DEF Dearer, t, n
<1> QED
  BY <1>15, <1>16

\* A part of a stack, and the pieces a full bill gives away.
LEMMA PartDearer ==
  ASSUME Kept(Now), NEW o \in Ids, obj[o].where \in Goods, NEW n, CanPart(o, n)
  PROVE  LET s == Parted(Now, o, n)
             q == Part(Now, o, n)
             f == FreeBySplit(Now, o, n)
         IN  /\ Dearer(Now, -f, s) /\ s.obj[q].quan = n /\ n \in Nat
             /\ f \in Nat
             /\ obj[o].unpaid => f = (IF s.obj[q].unpaid THEN 0 ELSE n)
             /\ s.obj[q].nc = obj[o].nc
             /\ ~obj[o].unpaid => s.bill = bill /\ f = 0
<1>0. obj[o].quan \in Nat /\ n \in 1 .. obj[o].quan /\ bill \in Seq(Line) /\ n \in Nat
  BY NowIs, KeptIs DEF CanPart, Thing
<1>1. CASE n = obj[o].quan
  <2>1. Parted(Now, o, n) = Now /\ Part(Now, o, n) = o /\ FreeBySplit(Now, o, n) = 0
    BY <1>0, <1>1, NowIs DEF Parted, Part, FreeBySplit
  <2>2. Now.bill \in Seq(Line)
    BY <1>0, NowIs
  <2> DEFINE f == FreeBySplit(Now, o, n)
  <2>3. Dearer(Now, -f, Now)
    <3>1. f \in Int /\ f = 0 /\ Total(Now.bill) \in Int
      BY <2>1, <2>2, TotalIs
    <3> HIDE DEF f
    <3>2. Total(Now.bill) = Total(Now.bill) + -f
      BY <3>1
    <3> QED
      BY <3>2 DEF Dearer
  <2> HIDE DEF f
  <2> QED
    BY <1>0, <1>1, <2>1, <2>3, NowIs DEF f
<1>2. CASE n # obj[o].quan
  <2> DEFINE q == NewId(Now)
             s == Split(Now, o, n, q)
             f == FreeBySplit(Now, o, n)
  <2>1. 0 < n /\ n < obj[o].quan
    BY <1>0, <1>2
  <2>2. q \in Free(Now)
    BY <2>1, RoomIs, NewIdIs DEF CanPart
  <2>3. Parted(Now, o, n) = s /\ Part(Now, o, n) = q
    BY <1>2, NowIs DEF Parted, Part
  <2>4. f = IF obj[o].unpaid /\ Full(Now) THEN n ELSE 0
    BY <2>1, NowIs DEF FreeBySplit
  <2> HIDE DEF q
  <2>5. /\ Total(s.bill) = Total(bill) - (IF obj[o].unpaid /\ Full(Now) THEN n ELSE 0)
        /\ s.obj[q].quan = n
        /\ obj[o].unpaid => (s.obj[q].unpaid <=> ~Full(Now))
        /\ Priced(obj) => Priced(s.obj)
    BY <1>0, <2>1, <2>2, NowIs, SplitTotal
  <2>6. s.obj[q].nc = obj[o].nc /\ (~obj[o].unpaid => s.bill = bill)
    BY <1>0, <2>1, <2>2, NowIs, SplitOff
  <2> HIDE DEF s, f
  <2>7. Total(bill) \in Int
    BY <1>0, TotalIs
  <2>8. f \in Nat /\ Total(s.bill) = Total(bill) + -f
    BY <1>0, <2>4, <2>5, <2>7
  <2>9. Dearer(Now, -f, s)
    BY <2>5, <2>8, NowIs DEF Dearer
  <2> QED
    BY <1>0, <2>3, <2>4, <2>5, <2>6, <2>8, <2>9 DEF f
<1> QED
  BY <1>1, <1>2

-----------------------------------------------------------------------------
(* The actions of the hero keep the bill at what is owed.                 *)

Tally == ~muddled => Total(bill) = owed /\ Priced(obj)

LEMMA Tallied ==
  ASSUME ShopInv, Tally, NEW s, NEW d \in Int, Become(s), Owe(d), ~muddled => Dearer(Now, d, s)
  PROVE  Tally'
<1>1. obj' = s.obj /\ bill' = s.bill /\ muddled' = muddled
  BY DEF Become, Owe
<1>2. SUFFICES ASSUME ~muddled PROVE Total(bill)' = owed' /\ Priced(obj)'
  BY <1>1 DEF Tally
<1>3. owed \in Int /\ owed' = owed + d
  BY <1>2 DEF Owe, ShopInv, Money
<1>4. Total(s.bill) = Total(bill) + d /\ (Priced(obj) => Priced(s.obj))
  BY <1>2, NowIs DEF Dearer
<1>5. Total(bill) = owed /\ Priced(obj)
  BY <1>2 DEF Tally
<1>6. Total(bill') = owed' /\ Priced(obj')
  BY <1>1, <1>3, <1>4, <1>5
<1> QED
  BY <1>6

LEMMA Still ==
  ASSUME ShopInv, Tally, NEW s, Become(s), UNCHANGED <<owed, muddled>>, ~muddled => Dearer(Now, 0, s)
  PROVE  Tally'
<1>1. Owe(0)
  BY DEF Owe, ShopInv, Money
<1> QED
  BY <1>1, Tallied

LEMMA Muddy ==
  ASSUME muddled'
  PROVE  Tally'
BY DEF Tally

LEMMA PickUpTally ==
  ASSUME ShopInv, Tally, NEW o \in Ids, NEW n, PickUp(o, n)
  PROVE  Tally'
<1> DEFINE s == Parted(Now, o, n)
           q == Part(Now, o, n)
           t == IF obj[o].where = "shop" THEN AddToBill(s, q, FALSE) ELSE s
           f == FreeBySplit(Now, o, n)
           d == IF obj[o].where = "shop" /\ ~obj[o].nc /\ ~Full(Now) THEN n ELSE -f
<1>1. /\ Kept(Now) /\ Right(Now) /\ obj[o].where \in {"shop", "spot"} /\ CanPart(o, n)
      /\ Owe(d) /\ bill \in Seq(Line)
  BY NowIs, KeptIs DEF ShopInv, Books, Money, PickUp, Tidy
<1>2. PICK r \in Stow(t, q) : Become(r)
  BY DEF PickUp
<1>3. /\ q \in Ids /\ Kept(s) /\ Right(s) /\ s.obj[q].where = obj[o].where
  BY <1>1, PartIs DEF Goods
<1>4. /\ Dearer(Now, -f, s) /\ s.obj[q].quan = n /\ n \in Nat /\ f \in Nat
      /\ s.obj[q].nc = obj[o].nc
      /\ ~obj[o].unpaid => s.bill = bill /\ f = 0
  BY <1>1, PartDearer DEF Goods
<1>d. d \in Int
  <2> HIDE DEF f
  <2> QED
    BY <1>4
<1> HIDE DEF s, q, f
<1>5. Kept(t) /\ t.obj[q].where \in Goods /\ Dearer(Now, d, t)
  <2>1. CASE obj[o].where = "shop"
    <3>1. Kept(t) /\ t.obj[q].where \in Goods
      BY <1>3, <2>1, Taken DEF Goods
    <3>2. s.bill = bill /\ f = 0
      <4>1. ~obj[o].unpaid
        BY <1>1, <2>1, Unlined, NowIs DEF Goods
      <4> QED
        BY <1>4, <4>1
    <3>3. Full(s) <=> Full(Now)
      BY <3>2, NowIs DEF Full
    <3> DEFINE e == IF s.obj[q].nc \/ Full(s) THEN 0 ELSE s.obj[q].quan
    <3>4. Dearer(s, e, t)
      BY <1>3, <2>1, AddDearer
    <3>5. e \in Int /\ -f + e = d
      <4>1. CASE obj[o].nc \/ Full(Now)
        <5>1. e = 0 /\ d = -f
          BY <1>4, <3>3, <4>1
        <5> HIDE DEF e, d
        <5> QED
          BY <1>4, <5>1
      <4>2. CASE ~(obj[o].nc \/ Full(Now))
        <5>1. e = n /\ d = n
          BY <1>4, <2>1, <3>3, <4>2
        <5> HIDE DEF e, d
        <5> QED
          BY <1>4, <3>2, <5>1
      <4> QED
        BY <4>1, <4>2
    <3> HIDE DEF e, d, t
    <3>6. Dearer(Now, -f + e, t)
      <4>1. -f \in Int /\ Now.bill \in Seq(Line)
        BY <1>1, <1>4, NowIs
      <4> DEFINE g == -f
      <4>2. g \in Int /\ Dearer(Now, g, s)
        BY <1>4, <4>1
      <4> HIDE DEF g
      <4>3. Dearer(Now, g + e, t)
        BY <3>4, <3>5, <4>1, <4>2, DearerTwice
      <4> QED
        BY <4>3 DEF g
    <3> QED
      BY <3>1, <3>5, <3>6
  <2>2. CASE obj[o].where = "spot"
    <3>1. t = s /\ d = -f
      BY <2>2
    <3> QED
      BY <1>3, <1>4, <2>2, <3>1 DEF Goods
  <2> QED
    BY <1>1, <2>1, <2>2
<1> HIDE DEF t, d
<1>6. Dearer(t, 0, r)
  BY <1>2, <1>3, <1>5, StowDearer
<1>7. Dearer(Now, d, r)
  <2>1. Dearer(Now, d + 0, r) /\ d + 0 = d
    BY <1>1, <1>5, <1>6, <1>d, NowIs, DearerTwice
  <2> QED
    BY <2>1
<1> QED
  BY <1>1, <1>2, <1>7, <1>d, Tallied

LEMMA DropUnpaidTally ==
  ASSUME ShopInv, Tally, NEW o \in Ids, NEW n, DropUnpaid(o, n)
  PROVE  Tally'
<1> DEFINE s == Parted(Now, o, n)
           q == Part(Now, o, n)
           f == FreeBySplit(Now, o, n)
           v == [s.obj[q] EXCEPT !.nc = TRUE]
           t == IF s.obj[q].unpaid THEN SubOne(s, q) ELSE [s EXCEPT !.obj[q].nc = TRUE]
<1>1. /\ Kept(Now) /\ (~muddled => Right(Now)) /\ obj[o].where = "inv" /\ CanPart(o, n)
      /\ Free(s) # {} /\ obj[o].unpaid /\ Owe(-n) /\ bill \in Seq(Line)
  BY RoomIs, NowIs, KeptIs DEF ShopInv, Books, Money, DropUnpaid
<1>2. PICK r \in Lay(t, q, "shop") : Become(r)
  BY DEF DropUnpaid
<1>3. q \in Ids /\ Kept(s) /\ (~muddled => Right(s)) /\ s.obj[q].where = "inv"
  BY <1>1, PartIs DEF Goods
<1>4. /\ Dearer(Now, -f, s) /\ s.obj[q].quan = n /\ n \in Nat /\ f \in Nat
      /\ f = (IF s.obj[q].unpaid THEN 0 ELSE n)
  BY <1>1, PartDearer DEF Goods
<1>5. -n \in Int
  BY <1>4
<1>6. ASSUME ~muddled PROVE Dearer(Now, -n, r)
  <2> DEFINE e == IF s.obj[q].unpaid THEN -n ELSE 0
             g == -f
  <2>1. Kept(t) /\ t.obj[q].where \in Goods /\ Dearer(s, e, t)
    <3>1. CASE s.obj[q].unpaid
      <4>1. t = SubOne(s, q) /\ e = -s.obj[q].quan
        BY <1>4, <3>1
      <4> HIDE DEF s, q, t, e
      <4>2. Kept(t) /\ t.obj[q] = [s.obj[q] EXCEPT !.unpaid = FALSE]
        BY <1>1, <1>3, <4>1, SubbedOne DEF Goods, s
      <4>3. Dearer(s, e, t)
        BY <1>1, <1>3, <1>6, <3>1, <4>1, SubOneDearer DEF Goods, s
      <4>4. t.obj[q].where = "inv"
        <5>1. s.obj[q] \in Thing
          BY <1>3, KeptIs
        <5> QED
          BY <1>3, <4>2, <5>1 DEF Thing
      <4> QED
        BY <4>2, <4>3, <4>4 DEF Goods
    <3>2. CASE ~s.obj[q].unpaid
      <4>1. t = [s EXCEPT !.obj[q] = v] /\ e = 0
        BY <3>2
      <4> HIDE DEF s, q, t, e
      <4>2. v \in Thing /\ v.where = s.obj[q].where /\ v.unpaid = s.obj[q].unpaid
            /\ v.quan = s.obj[q].quan
        <5>1. s.obj[q] \in Thing
          BY <1>3, KeptIs
        <5> QED
          BY <5>1 DEF Thing
      <4>3. s.obj[q].quan > 0
        BY <1>3, Unlined DEF Goods
      <4> HIDE DEF v
      <4>4. Kept(t) /\ t.obj[q] = v
        BY <1>3, <4>1, <4>2, <4>3, TouchedOne
      <4>5. Dearer(s, e, t)
        BY <1>3, <3>2, <4>1, <4>2, TouchedDearer
      <4> QED
        BY <1>3, <4>2, <4>4, <4>5 DEF Goods
    <3> QED
      BY <3>1, <3>2
  <2>2. e \in Int /\ g \in Int /\ g + e = -n
    <3>1. CASE s.obj[q].unpaid
      <4>1. e = -n /\ g = -f /\ f = 0
        BY <1>4, <3>1
      <4> HIDE DEF e, g, f
      <4> QED
        BY <1>4, <4>1
    <3>2. CASE ~s.obj[q].unpaid
      <4>1. e = 0 /\ g = -f /\ f = n
        BY <1>4, <3>2
      <4> HIDE DEF e, g, f
      <4> QED
        BY <1>4, <4>1
    <3> QED
      BY <3>1, <3>2
  <2> HIDE DEF s, q, t
  <2>3. Dearer(t, 0, r)
    BY <1>2, <1>3, <2>1, LayDearer
  <2>4. Dearer(Now, g, s)
    BY <1>4
  <2> HIDE DEF e, g
  <2>5. Dearer(Now, g + e, t) /\ g + e \in Int
    BY <1>1, <2>1, <2>2, <2>4, NowIs, DearerTwice
  <2> DEFINE d == g + e
  <2>6. d = -n
    BY <2>2
  <2> HIDE DEF d
  <2>7. Dearer(Now, d + 0, r)
    BY <1>1, <2>3, <2>5, NowIs, DearerTwice DEF d
  <2>8. d + 0 = d
    BY <2>5 DEF d
  <2> QED
    BY <2>6, <2>7, <2>8
<1> QED
  BY <1>1, <1>2, <1>5, <1>6, Tallied

LEMMA DropOwnTally ==
  ASSUME ShopInv, Tally, NEW o \in Ids, NEW n, NEW sold \in BOOLEAN, DropOwn(o, n, sold)
  PROVE  Tally'
<1> DEFINE s == Parted(Now, o, n)
           q == Part(Now, o, n)
           v == [s.obj[q] EXCEPT !.nc = ~sold]
           t == [s EXCEPT !.obj[q].nc = ~sold]
<1>1. /\ Kept(Now) /\ obj[o].where = "inv" /\ CanPart(o, n) /\ ~obj[o].unpaid
      /\ UNCHANGED <<owed, muddled>> /\ bill \in Seq(Line)
  BY NowIs, KeptIs DEF ShopInv, Books, DropOwn
<1>2. PICK r \in Lay(t, q, "shop") : Become(r)
  BY DEF DropOwn
<1>3. q \in Ids /\ Kept(s) /\ s.obj[q].where = "inv" /\ ~s.obj[q].unpaid
  BY <1>1, PartIs DEF Goods
<1>4. Dearer(Now, 0, s)
  <2>1. Dearer(Now, -FreeBySplit(Now, o, n), s) /\ s.bill = bill
    BY <1>1, PartDearer DEF Goods
  <2>2. Priced(Now.obj) => Priced(s.obj)
    BY <2>1 DEF Dearer
  <2> QED
    BY <1>1, <2>1, <2>2, NowIs, DearerSame
<1> HIDE DEF s, q
<1>5. s.obj[q] \in Thing /\ s.obj[q].quan > 0
  BY <1>3, KeptIs, Unlined DEF Goods
<1>6. t = [s EXCEPT !.obj[q] = v]
  OBVIOUS
<1>7. v \in Thing /\ v.where = s.obj[q].where /\ v.unpaid = s.obj[q].unpaid /\ v.quan > 0
  BY <1>5 DEF Thing
<1> HIDE DEF t, v
<1>8. Kept(t) /\ t.obj[q] = v /\ Dearer(s, 0, t)
  BY <1>3, <1>6, <1>7, TouchedOne, TouchedDearer
<1>9. Dearer(t, 0, r)
  BY <1>2, <1>3, <1>7, <1>8, LayDearer DEF Goods
<1>10. Dearer(Now, 0 + 0, t) /\ Now.bill \in Seq(Line)
  BY <1>1, <1>4, <1>8, NowIs, DearerTwice
<1>11. Dearer(Now, 0, t) /\ Now.bill \in Seq(Line)
  BY <1>10
<1>12. Dearer(Now, 0 + 0, r)
  BY <1>9, <1>11, DearerTwice
<1>13. Dearer(Now, 0, r)
  BY <1>12
<1> QED
  BY <1>1, <1>2, <1>13, Still

LEMMA DropOnSpotTally ==
  ASSUME ShopInv, Tally, NEW o \in Ids, NEW n, DropOnSpot(o, n)
  PROVE  Tally'
<1> DEFINE s == Parted(Now, o, n)
           q == Part(Now, o, n)
           f == FreeBySplit(Now, o, n)
           d == -f
<1>1. /\ Kept(Now) /\ obj[o].where = "inv" /\ CanPart(o, n)
      /\ Owe(d) /\ bill \in Seq(Line)
  BY NowIs, KeptIs DEF ShopInv, Books, DropOnSpot
<1>2. PICK r \in Lay(s, q, "spot") : Become(r)
  BY DEF DropOnSpot
<1>3. q \in Ids /\ Kept(s) /\ s.obj[q].where = "inv"
  BY <1>1, PartIs DEF Goods
<1>4. Dearer(Now, d, s) /\ d \in Int
  <2>1. Dearer(Now, -f, s) /\ f \in Nat
    BY <1>1, PartDearer DEF Goods
  <2> HIDE DEF f
  <2> QED
    BY <2>1
<1> HIDE DEF s, q, d
<1>5. Dearer(s, 0, r)
  BY <1>2, <1>3, LayDearer DEF Goods
<1>6. Dearer(Now, d + 0, r) /\ d + 0 = d
  BY <1>1, <1>4, <1>5, NowIs, DearerTwice
<1>7. Dearer(Now, d, r)
  BY <1>6
<1> QED
  BY <1>1, <1>2, <1>4, <1>7, Tallied

LEMMA AdjustSplitTally ==
  ASSUME ShopInv, Tally, NEW o \in Ids, NEW n, AdjustSplit(o, n)
  PROVE  Tally'
<1> DEFINE q == NewId(Now)
           s == Split(Now, o, n, q)
           f == FreeBySplit(Now, o, n)
           d == -f
<1>1. /\ Kept(Now) /\ obj[o].where = "inv" /\ n \in 1 .. (obj[o].quan - 1) /\ Room(Now, 1)
      /\ Become(s) /\ Owe(d)
  BY DEF ShopInv, Books, AdjustSplit
<1>2. obj[o].quan \in Nat /\ n \in Nat /\ n < obj[o].quan /\ n # obj[o].quan /\ CanPart(o, n)
  <2>1. obj[o].quan \in Nat
    BY <1>1, NowIs, KeptIs DEF Thing
  <2> QED
    BY <1>1, <2>1 DEF CanPart
<1>3. Parted(Now, o, n) = s
  BY <1>2, NowIs DEF Parted
<1>4. Dearer(Now, d, s) /\ d \in Int
  <2>1. Dearer(Now, -f, s) /\ f \in Nat
    BY <1>1, <1>2, <1>3, PartDearer DEF Goods
  <2> HIDE DEF f
  <2> QED
    BY <2>1
<1> HIDE DEF s, d
<1> QED
  BY <1>1, <1>4, Tallied

LEMMA AdjustMergeTally ==
  ASSUME ShopInv, Tally, NEW p \in Ids, NEW o \in Ids, AdjustMerge(p, o)
  PROVE  Tally'
<1> DEFINE r == Combine(Now, p, o)
<1>1. /\ Kept(Now) /\ Now.obj[p].where \in Goods
      /\ Now.obj[o].where \in Goods /\ p # o
      /\ UNCHANGED <<owed, muddled>> /\ Become(r)
  BY NowIs DEF ShopInv, Books, AdjustMerge, Mergable, Goods
<1>2. Dearer(Now, 0, r)
  BY <1>1, CombineDearer
<1> HIDE DEF r
<1> QED
  BY <1>1, <1>2, Still

LEMMA UseTally ==
  ASSUME ShopInv, Tally, NEW o \in Ids, Use(o)
  PROVE  Tally'
<1> DEFINE r == UseUp(Now, o)
<1>1. /\ Kept(Now) /\ Now.obj[o].where \in Goods /\ UNCHANGED <<owed, muddled>> /\ Become(r)
  BY NowIs DEF ShopInv, Books, Use, Goods
<1>2. Dearer(Now, 0, r)
  BY <1>1, UseUpDearer
<1> HIDE DEF r
<1> QED
  BY <1>1, <1>2, Still

LEMMA BoomTally ==
  ASSUME ShopInv, Tally, NEW p \in Ids, NEW o \in Ids, Boom(p, o)
  PROVE  Tally'
<1> DEFINE s == UseUp(Now, o)
           r == UseUp(s, p)
<1>1. /\ Kept(Now) /\ Now.obj[p].where \in Goods /\ Now.obj[o].where \in Goods
      /\ p # o /\ UNCHANGED <<owed, muddled>> /\ Become(r)
  BY NowIs DEF ShopInv, Books, Boom, Goods
<1>2. Kept(s) /\ s.obj[p] = Now.obj[p]
  BY <1>1, UsedUp
<1>3. Dearer(Now, 0, s) /\ Dearer(s, 0, r)
  BY <1>1, <1>2, UseUpDearer
<1> HIDE DEF s, r
<1>4. Dearer(Now, 0 + 0, r)
  BY <1>1, <1>3, KeptIs, DearerTwice
<1>5. Dearer(Now, 0, r)
  BY <1>4
<1> QED
  BY <1>1, <1>5, Still

LEMMA DipMergeTally ==
  ASSUME ShopInv, Tally, NEW p \in Ids, NEW o \in Ids, DipMerge(p, o)
  PROVE  Tally'
<1> DEFINE r == Combine(Now, p, o)
           v == [r.obj[p] EXCEPT !.dil = TRUE]
           t == [r EXCEPT !.obj[p].dil = TRUE]
<1>1. /\ Kept(Now) /\ Now.obj[p].where \in Goods /\ Now.obj[o].where \in Goods
      /\ p # o /\ ~muddled /\ muddled \in BOOLEAN
      /\ muddled' = (muddled \/ obj[p].unpaid # obj[o].unpaid)
      /\ owed' = IF obj[p].unpaid # obj[o].unpaid THEN 0 ELSE owed
  BY NowIs DEF ShopInv, Books, Money, DipMerge, Tidy, Muddle, Goods
<1>2. Become(t)
  BY DEF DipMerge
<1>3. Kept(r) /\ Dearer(Now, 0, r) /\ r.obj[p] = [Now.obj[p] EXCEPT !.quan = @ + Now.obj[o].quan]
  BY <1>1, Combined, CombineDearer
<1> HIDE DEF r
<1>4. r.obj[p] \in Thing
  BY <1>3, KeptIs
<1>5. t = [r EXCEPT !.obj[p] = v] /\ v.where = r.obj[p].where /\ v.unpaid = r.obj[p].unpaid
      /\ v.nc = r.obj[p].nc
  BY <1>4 DEF Thing
<1> HIDE DEF t, v
<1>6. Dearer(r, 0, t)
  BY <1>3, <1>5, TouchedDearer
<1>b. Now.bill \in Seq(Line)
  BY <1>1, KeptIs
<1>7. Dearer(Now, 0 + 0, t)
  BY <1>3, <1>6, <1>b, DearerTwice
<1>8. Dearer(Now, 0, t)
  BY <1>7
<1>9. CASE obj[p].unpaid # obj[o].unpaid
  BY <1>1, <1>9, Muddy
<1>10. CASE obj[p].unpaid = obj[o].unpaid
  <2>1. UNCHANGED <<owed, muddled>>
    BY <1>1, <1>10
  <2> QED
    BY <1>2, <1>8, <2>1, Still
<1> QED
  BY <1>9, <1>10

LEMMA MixTally ==
  ASSUME ShopInv, Tally, NEW p \in Ids, NEW o \in Ids, Mix(p, o)
  PROVE  Tally'
<1>1. PICK t \in Types : Become([UseUp([Now EXCEPT !.obj[o] = Mixture(@, t)], p) EXCEPT !.obj[o].quan = @ + 1])
  BY DEF Mix
<1> DEFINE v == Mixture(Now.obj[o], t)
           n == [Now EXCEPT !.obj[o] = Mixture(@, t)]
           r == UseUp(n, p)
           w == [r.obj[o] EXCEPT !.quan = @ + 1]
           m == [r EXCEPT !.obj[o].quan = @ + 1]
<1>2. /\ Kept(Now) /\ Now.obj[p].where \in Goods /\ Now.obj[o].where \in Goods
      /\ p # o /\ ~muddled /\ muddled \in BOOLEAN
      /\ muddled' = (muddled \/ obj[o].unpaid) /\ owed' = IF obj[o].unpaid THEN 0 ELSE owed
  BY NowIs DEF ShopInv, Books, Money, Mix, Tidy, Muddle, Goods
<1>3. Become(m)
  BY <1>1
<1>4. Now.obj[o] \in Thing /\ Now.obj[o].quan > 0
  BY <1>2, KeptIs, Unlined
<1>5. v \in Thing /\ v.where = Now.obj[o].where /\ v.unpaid = Now.obj[o].unpaid
      /\ v.quan = Now.obj[o].quan /\ v.nc = Now.obj[o].nc
  BY <1>4 DEF Mixture, Thing
<1>6. n = [Now EXCEPT !.obj[o] = v]
  OBVIOUS
<1> HIDE DEF v, n
<1>7. Kept(n) /\ n.obj[o] = v /\ n.obj[p] = Now.obj[p] /\ Dearer(Now, 0, n)
  BY <1>2, <1>4, <1>5, <1>6, TouchedOne, TouchedDearer
<1>8. Kept(r) /\ r.obj[o] = v /\ Dearer(n, 0, r)
  BY <1>2, <1>7, UsedUp, UseUpDearer
<1> HIDE DEF r
<1>9. m = [r EXCEPT !.obj[o] = w] /\ w.where = r.obj[o].where /\ w.unpaid = r.obj[o].unpaid
      /\ w.nc = r.obj[o].nc
  BY <1>5, <1>8 DEF Thing
<1> HIDE DEF w, m
<1>10. Dearer(r, 0, m)
  BY <1>8, <1>9, TouchedDearer
<1>11. Now.bill \in Seq(Line)
  BY <1>2, KeptIs
<1>12. Dearer(Now, 0 + 0, r)
  BY <1>7, <1>8, <1>11, DearerTwice
<1>13. Dearer(Now, 0, r)
  BY <1>12
<1>14. Dearer(Now, 0 + 0, m)
  BY <1>10, <1>11, <1>13, DearerTwice
<1>15. Dearer(Now, 0, m)
  BY <1>14
<1>16. CASE obj[o].unpaid
  BY <1>2, <1>16, Muddy
<1>17. CASE ~obj[o].unpaid
  <2>1. UNCHANGED <<owed, muddled>>
    BY <1>2, <1>17
  <2> QED
    BY <1>3, <1>15, <2>1, Still
<1> QED
  BY <1>16, <1>17

LEMMA DiluteTally ==
  ASSUME ShopInv, Tally, NEW o \in Ids, Dilute(o)
  PROVE  Tally'
<1> DEFINE s == SubOne(Now, o)
           t == IF obj[o].unpaid THEN BillDummy(s, o, NewId(s)) ELSE Now
           v == Wetter(t.obj[o])
           r == [t EXCEPT !.obj[o] = Wetter(@)]
           n == obj[o].quan
           d == IF obj[o].unpaid /\ Full(s) THEN -n ELSE 0
<1>1. /\ Kept(Now) /\ Right(Now) /\ ~muddled /\ obj[o].where = "inv" /\ Now.obj[o].where \in Goods
      /\ obj[o].unpaid => Room(Now, 2)
      /\ Owe(d) /\ bill \in Seq(Line)
  BY NowIs, KeptIs DEF ShopInv, Books, Money, Dilute, Tidy, Goods
<1>2. Become(r)
  BY DEF Dilute
<1>3. Now.obj[o] \in Thing /\ n \in Nat /\ obj[o] \in Thing
  BY <1>1, NowIs, KeptIs DEF Thing
<1>d. d \in Int
  <2> HIDE DEF n
  <2> QED
    BY <1>3
<1>4. Kept(t) /\ Dearer(Now, d, t)
  <2>1. CASE obj[o].unpaid
    <3>1. Free(Now) # {} /\ \E p \in Free(Now) : p # NewId(Now)
      BY <1>1, <2>1, TwoRooms
    <3>2. /\ Kept(s) /\ Right(s) /\ s.obj[o] = [obj[o] EXCEPT !.unpaid = FALSE]
          /\ \A p \in Free(Now) : p = NewId(Now) \/ p \in Free(s)
      BY <1>1, <3>1, NowIs, SubbedOne
    <3>3. Dearer(Now, -n, s)
      BY <1>1, <2>1, <3>1, NowIs, SubOneDearer
    <3>4. t = BillDummy(s, o, NewId(s))
      BY <2>1
    <3> HIDE DEF s, t
    <3>5. NewId(s) \in Free(s)
      BY <3>1, <3>2, NewIdIs
    <3>6. ~obj[o].nc
      BY <1>1, <2>1 DEF Tally, Priced
    <3>7. s.obj[o].where = "inv" /\ ~s.obj[o].nc /\ s.obj[o].quan = n /\ ~s.obj[o].unpaid
      BY <1>1, <1>3, <3>2, <3>6 DEF Thing
    <3> DEFINE q == NewId(s)
               e == IF Full(s) THEN 0 ELSE s.obj[o].quan
               g == -n
    <3>8. q \in Free(s) /\ t = BillDummy(s, o, q)
      BY <3>4, <3>5
    <3> HIDE DEF q
    <3>9. Dearer(s, e, t) /\ Kept(t)
      BY <3>2, <3>7, <3>8, DummyDearer, Dummied DEF Goods
    <3>10. g \in Int /\ e \in Int /\ g + e = d
      <4>1. CASE Full(s)
        <5>1. e = 0 /\ g = -n /\ d = -n
          BY <2>1, <4>1
        <5> HIDE DEF e, g, d, n
        <5> QED
          BY <1>3, <5>1
      <4>2. CASE ~Full(s)
        <5>1. e = n /\ g = -n /\ d = 0
          BY <3>7, <4>2
        <5> HIDE DEF e, g, d, n
        <5> QED
          BY <1>3, <5>1
      <4> QED
        BY <4>1, <4>2
    <3>11. Dearer(Now, g, s)
      BY <3>3
    <3> HIDE DEF g, e, d
    <3>12. Dearer(Now, g + e, t)
      BY <1>1, <3>9, <3>10, <3>11, NowIs, DearerTwice
    <3> QED
      BY <3>9, <3>10, <3>12
  <2>2. CASE ~obj[o].unpaid
    <3>1. t = Now /\ d = 0
      BY <2>2
    <3>2. Dearer(Now, 0, Now)
      BY <1>1, NowIs, DearerSame
    <3> QED
      BY <1>1, <3>1, <3>2
  <2> QED
    BY <2>1, <2>2
<1> HIDE DEF t, d
<1>5. r = [t EXCEPT !.obj[o] = v]
  OBVIOUS
<1>6. v.where = t.obj[o].where /\ v.unpaid = t.obj[o].unpaid /\ v.nc = t.obj[o].nc
  <2>1. t.obj[o] \in Thing
    BY <1>4, KeptIs
  <2> QED
    BY <2>1, ShopAssumption DEF Wetter, Thing
<1> HIDE DEF v, r
<1>7. Dearer(t, 0, r)
  BY <1>4, <1>5, <1>6, TouchedDearer
<1>8. Dearer(Now, d + 0, r) /\ d + 0 = d
  BY <1>1, <1>4, <1>7, <1>d, NowIs, DearerTwice
<1>9. Dearer(Now, d, r)
  BY <1>8
<1> QED
  BY <1>1, <1>2, <1>9, <1>d, Tallied

LEMMA LeaveTally ==
  ASSUME ShopInv, Leave \/ OutOfOrder
  PROVE  Tally'
<1> DEFINE t == SetPaid(Now)
<1>1. Become(t) /\ Settled /\ Kept(Now)
  BY DEF Leave, OutOfOrder, ShopInv, Books
<1>2. t.bill = <<>>
  BY DEF SetPaid
<1>3. \A o \in Ids : t.obj[o] = IF Now.obj[o].where = "billobjs" THEN Nil
                                ELSE IF Billed(Now, o) THEN [Now.obj[o] EXCEPT !.unpaid = FALSE]
                                ELSE Now.obj[o]
  BY DEF SetPaid
<1> HIDE DEF t
<1>4. Priced(t.obj)
  <2> SUFFICES ASSUME NEW o \in Ids, t.obj[o].where = "inv", t.obj[o].unpaid
               PROVE  FALSE
    BY DEF Priced
  <2>1. Now.obj[o] \in Thing
    BY <1>1, KeptIs
  <2>2. CASE Now.obj[o].where = "billobjs"
    BY <1>3, <2>2, NilIs
  <2>3. CASE Now.obj[o].where # "billobjs" /\ Billed(Now, o)
    BY <1>3, <2>1, <2>3 DEF Thing
  <2>4. CASE Now.obj[o].where # "billobjs" /\ ~Billed(Now, o)
    <3>1. t.obj[o] = Now.obj[o]
      BY <1>3, <2>4
    <3> QED
      BY <1>1, <2>4, <3>1, Unlined DEF Goods
  <2> QED
    BY <2>2, <2>3, <2>4
<1>5. obj' = t.obj /\ bill' = <<>> /\ owed' = 0
  BY <1>1, <1>2 DEF Become, Settled
<1>6. Total(bill') = owed' /\ Priced(obj')
  BY <1>4, <1>5, TotalNothing
<1> QED
  BY <1>6 DEF Tally

-----------------------------------------------------------------------------
(* dopay, which has to know what its passes have left behind.             *)

\* Without a list to pick from, what the passes have behind them is wholly there.
Whole(i) == ~bill[i].useup /\ obj[bill[i].id].quan = bill[i].quan
Looked ==
  pay.on /\ ~pay.itemize /\ ~muddled =>
    pay.one = 0 /\ \A i \in DOMAIN bill : pay.pass = 1 \/ i < pay.tmp => Whole(i)

LEMMA RestoredDearer ==
  ASSUME ShopInv, pay.on, ~AtEnd
  PROVE  Dearer(Now, 0, Restored)
<1> DEFINE v == [Now.obj[Bp.id] EXCEPT !.quan = Quan]
<1>1. Kept(Now) /\ Bp.id \in Ids /\ Now.obj[Bp.id] \in Thing
  BY AtEntry, NowIs
<1>2. Restored = [Now EXCEPT !.obj[Bp.id] = v]
  BY DEF Restored
<1>3. v.where = Now.obj[Bp.id].where /\ v.unpaid = Now.obj[Bp.id].unpaid /\ v.nc = Now.obj[Bp.id].nc
  BY <1>1 DEF Thing
<1> HIDE DEF v
<1> QED
  BY <1>1, <1>2, <1>3, TouchedDearer

LEMMA PassOverTally ==
  ASSUME ShopInv, Tally, PassOver \/ PayBroke
  PROVE  Tally'
<1>1. pay.on /\ ~AtEnd /\ Become(Restored) /\ UNCHANGED <<owed, muddled>>
  BY DEF PassOver, PayBroke, Asked
<1> QED
  BY <1>1, RestoredDearer, Still

LEMMA PaySkipTally ==
  ASSUME ShopInv, Tally, PaySkip
  PROVE  Tally'
<1> DEFINE s == Restored
           o == Bp.id
           v == [s.obj[o] EXCEPT !.unpaid = TRUE]
           t == [s EXCEPT !.obj[o].unpaid = TRUE]
<1>1. pay.on /\ ~AtEnd /\ UNCHANGED <<owed, muddled>> /\ ~PaidAlready
  BY DEF PaySkip, Asked
<1>2. Become(t)
  BY DEF PaySkip
<1>3. /\ Kept(s) /\ s.bill = bill /\ o \in Ids /\ (Bp.useup => obj[o].where = "billobjs")
      /\ s.obj[o] = [obj[o] EXCEPT !.quan = Quan] /\ obj[o] \in Thing
      /\ Dearer(Now, 0, s) /\ Now.bill \in Seq(Line)
  BY <1>1, RestoredIs, AtEntry, RestoredDearer, KeptIs
<1>4. s.obj[o].where = obj[o].where /\ s.obj[o].unpaid = obj[o].unpaid /\ s.obj[o].nc = obj[o].nc
      /\ s.obj[o] \in Thing
  <2>1. s.obj[o] \in Thing
    BY <1>3, KeptIs
  <2> HIDE DEF s
  <2> QED
    BY <1>3, <2>1 DEF Thing
<1>5. t = [s EXCEPT !.obj[o] = v]
  OBVIOUS
<1>6. v.where = s.obj[o].where /\ v.unpaid = TRUE /\ v.nc = s.obj[o].nc
  BY <1>4 DEF Thing
<1> HIDE DEF s, t, v
<1>7. Dearer(s, 0, t)
  <2>1. CASE Bp.useup
    <3>1. t.bill = s.bill /\ t.obj = [s.obj EXCEPT ![o] = v] /\ s.obj \in [Ids -> Thing] /\ s.bill \in Seq(Line)
      BY <1>3, <1>5, KeptIs
    <3>2. v.where # "inv"
      BY <1>3, <1>4, <1>6, <2>1
    <3> HIDE DEF o
    <3>3. Priced(s.obj) => Priced(t.obj)
      BY <1>3, <3>1, <3>2, PricedOne
    <3> QED
      BY <3>1, <3>3, DearerSame
  <2>2. CASE ~Bp.useup
    <3>1. s.obj[o].unpaid
      BY <1>1, <1>4, <2>2 DEF PaidAlready
    <3> HIDE DEF o
    <3> QED
      BY <1>3, <1>5, <1>6, <3>1, TouchedDearer
  <2> QED
    BY <2>1, <2>2
<1>8. Dearer(Now, 0 + 0, t)
  BY <1>3, <1>7, DearerTwice
<1>9. Dearer(Now, 0, t)
  BY <1>8
<1> QED
  BY <1>1, <1>2, <1>9, Still

\* Of the entry a purchase takes off the bill just the price is struck.
LEMMA BoughtDearer ==
  ASSUME ShopInv, Looked, ~muddled, PayBuy
  PROVE  ~PaidAlready /\ Dearer(Now, -Amount, Bought(Restored, Bp.id))
<1> DEFINE s == Restored
           o == Bp.id
           i == pay.tmp
           t == Bought(s, o)
           a == Amount
           m == Bp.quan
<1>1. Asked /\ pay.on /\ ~AtEnd /\ Found
  BY DEF PayBuy, Asked
<1>2. /\ Kept(s) /\ Right(s) /\ s.bill = bill /\ i \in DOMAIN s.bill /\ Right(Now) /\ Kept(Now)
      /\ s.bill[i] = Bp /\ o \in Ids /\ Bp \in Line /\ Bp \in Lines(bill) /\ m \in Nat
      /\ s.obj[o] = [obj[o] EXCEPT !.quan = Quan] /\ obj[o] \in Thing /\ Quan \in Nat
      /\ (~Bp.useup => Quan = obj[o].quan) /\ (Bp.useup => Quan = m)
      /\ (~Bp.useup => obj[o].unpaid /\ obj[o].quan <= m)
  BY <1>1, RestoredIs, AtEntry DEF Bp
<1>3. ~PaidAlready
  BY <1>2 DEF PaidAlready
<1>4. s.obj \in [Ids -> Thing] /\ s.bill \in Seq(Line) /\ DOMAIN s = {"obj", "bill"}
  BY <1>2, KeptIs
<1>5. s.obj[o].quan = Quan /\ s.obj[o].nc = obj[o].nc /\ s.obj[o].unpaid = obj[o].unpaid
      /\ s.obj[o] \in Thing
  <2>1. s.obj[o] \in Thing
    BY <1>2, <1>4
  <2> HIDE DEF s
  <2> QED
    BY <1>2, <2>1 DEF Thing
<1>6. Dearer(Now, 0, s)
  BY <1>1, RestoredDearer
<1>7. a \in Nat /\ (Consumed /\ a # m => ~Bp.useup) /\ (~Consumed => ~Bp.useup)
  BY <1>1, AskedIs
<1>8. ~Broke /\ ~PartlyUsed
  BY <1>3 DEF PayBuy
<1>9. Total(s.bill) \in Int
  BY <1>4, TotalIs
<1> HIDE DEF s
<1>10. Dearer(s, -a, t)
  <2>1. CASE Consumed /\ a # m
    <3> DEFINE e == [s.bill[i] EXCEPT !.quan = s.obj[o].quan, !.useup = FALSE]
               v == [s.obj[o] EXCEPT !.unpaid = TRUE]
    <3>1. t = [obj  |-> [s.obj EXCEPT ![o].unpaid = TRUE],
               bill |-> [s.bill EXCEPT ![i] = [@ EXCEPT !.quan = s.obj[o].quan, !.useup = FALSE]]]
      BY <2>1 DEF Bought
    <3>2. t.obj = [s.obj EXCEPT ![o] = v] /\ t.bill = [s.bill EXCEPT ![i] = e]
      BY <3>1
    <3>3. e \in Line /\ e.quan = Quan
      <4> DEFINE k == s.obj[o].quan
                 x == s.bill[i]
      <4>1. k \in Int /\ x \in Line /\ k = Quan
        BY <1>2, <1>5
      <4>2. e = [x EXCEPT !.quan = k, !.useup = FALSE]
        OBVIOUS
      <4> HIDE DEF k, x, e
      <4>3. [x EXCEPT !.quan = k, !.useup = FALSE] \in Line
            /\ [x EXCEPT !.quan = k, !.useup = FALSE].quan = k
        BY <4>1 DEF Line
      <4> QED
        BY <4>1, <4>2, <4>3
    <3>4. v.where = s.obj[o].where /\ v.nc = s.obj[o].nc
      BY <1>5 DEF Thing
    <3>5. s.obj[o].unpaid
      BY <1>2, <1>5, <1>7, <2>1
    <3>6. s.bill[i].quan = m
      BY <1>2
    <3> HIDE DEF t, e, v, i, o
    <3>7. Priced(s.obj) => Priced(t.obj)
      <4> SUFFICES ASSUME Priced(s.obj) PROVE Priced(t.obj)
        OBVIOUS
      <4>1. v.where = "inv" /\ v.unpaid => ~v.nc
        BY <1>2, <3>4, <3>5 DEF Priced
      <4> QED
        BY <1>2, <1>4, <3>2, <4>1, PricedOne
    <3>8. Total(t.bill) = Total(s.bill) - s.bill[i].quan + e.quan
      BY <1>2, <1>4, <3>2, <3>3, TotalChanged
    <3>9. a = m - Quan
      <4>1. m > Quan
        <5> SUFFICES ASSUME ~(m > Quan) PROVE FALSE
          OBVIOUS
        <5>1. a = m
          BY <2>1 DEF Amount
        <5> QED
          BY <2>1, <5>1
      <4> QED
        BY <2>1, <4>1 DEF Amount
    <3>10. Total(t.bill) = Total(s.bill) - m + Quan
      BY <3>3, <3>6, <3>8
    <3> HIDE DEF a, m
    <3>11. Total(t.bill) = Total(s.bill) + -a
      BY <1>2, <1>7, <1>9, <3>9, <3>10
    <3> QED
      BY <3>7, <3>11 DEF Dearer, t, a
  <2>2. CASE Consumed /\ a = m
    <3> DEFINE u == Unbill(s, i)
    <3>1. t = Dealloc(u, o)
      BY <2>2 DEF Bought
    <3>2. DOMAIN u = {"obj", "bill"} /\ u.obj = s.obj /\ Total(u.bill) = Total(s.bill) - s.bill[i].quan
      BY <1>2, <1>4, Unbilled, UnbillTotal
    <3> HIDE DEF u, t
    <3>3. t.obj = [s.obj EXCEPT ![o] = Nil] /\ t.bill = u.bill
      BY <3>1, <3>2, DeallocIs
    <3>4. s.bill[i].quan = a
      BY <1>2, <2>2
    <3>5. Nil.where # "inv" /\ o \in Ids
      BY <1>2, NilIs
    <3> HIDE DEF o, i, a
    <3>6. Priced(s.obj) => Priced(t.obj)
      BY <1>4, <3>3, <3>5, PricedOne
    <3>7. Total(t.bill) = Total(s.bill) + -a
      BY <1>7, <1>9, <3>2, <3>3, <3>4
    <3> QED
      BY <3>6, <3>7 DEF Dearer, t, a, o
  <2>3. CASE ~Consumed
    <3> DEFINE v == [s.obj[o] EXCEPT !.unpaid = FALSE]
               r == [s EXCEPT !.obj[o].unpaid = FALSE]
               u == Unbill(r, i)
    <3>1. t = u
      BY <2>3 DEF Bought
    <3>2. DOMAIN r = {"obj", "bill"} /\ r.bill = s.bill /\ r.obj = [s.obj EXCEPT ![o] = v]
      BY <1>4
    <3>3. v.unpaid = FALSE
      BY <1>5 DEF Thing
    <3>4. a = Quan
      BY <2>3 DEF Amount
    <3>5. ~Bp.useup
      BY <1>7, <2>3
    <3>6. Quan = m
      <4>1. CASE pay.itemize
        BY <1>2, <1>8, <2>3, <3>4, <3>5, <4>1 DEF PartlyUsed
      <4>2. CASE ~pay.itemize
        <5>1. pay.pass = 1
          BY <2>3 DEF Consumed, ShopInv, Money
        <5>2. Whole(i)
          BY <1>1, <1>2, <4>2, <5>1 DEF Looked
        <5> QED
          BY <1>2, <3>5, <5>2 DEF Whole, Bp
      <4> QED
        BY <4>1, <4>2
    <3>7. s.bill[i].quan = a /\ i \in DOMAIN s.bill /\ o \in Ids
      BY <1>2, <3>4, <3>6
    <3> HIDE DEF v, r, u, t, o, i, a
    <3>8. Total(t.bill) = Total(s.bill) - s.bill[i].quan /\ t.obj = r.obj
      BY <1>4, <3>1, <3>2, <3>7, UnbillTotal DEF u
    <3>9. Priced(s.obj) => Priced(t.obj)
      <4>1. ~v.unpaid
        BY <3>3
      <4> QED
        BY <1>4, <3>2, <3>7, <3>8, <4>1, PricedOne
    <3>10. Total(t.bill) = Total(s.bill) + -a
      BY <1>7, <1>9, <3>7, <3>8
    <3> QED
      BY <3>9, <3>10 DEF Dearer, t, a, o
  <2> QED
    BY <2>1, <2>2, <2>3
<1> DEFINE d == -a
<1>11. d \in Int /\ 0 + d = d
  <2> HIDE DEF a
  <2> QED
    BY <1>7
<1>12. Now.bill \in Seq(Line) /\ Dearer(s, d, t)
  BY <1>2, <1>10, KeptIs
<1> HIDE DEF d, t
<1>13. Dearer(Now, 0 + d, t)
  BY <1>6, <1>11, <1>12, DearerTwice
<1> QED
  BY <1>3, <1>11, <1>13 DEF d, t, s

LEMMA PayBuyTally ==
  ASSUME ShopInv, Tally, Looked, PayBuy
  PROVE  Tally'
<1>1. Asked /\ muddled' = muddled
  BY DEF PayBuy, Owe
<1>2. CASE muddled
  BY <1>1, <1>2, Muddy
<1>3. CASE ~muddled
  <2> DEFINE d == -Amount
             t == Bought(Restored, Bp.id)
  <2>1. ~PaidAlready /\ Dearer(Now, d, t)
    BY <1>3, BoughtDearer
  <2>2. Become(t) /\ Owe(d)
    BY <2>1 DEF PayBuy
  <2>3. d \in Int
    <3>1. Amount \in Nat
      BY <1>1, AskedIs
    <3> QED
      BY <3>1
  <2> HIDE DEF d, t
  <2> QED
    BY <2>1, <2>2, <2>3, Tallied
<1> QED
  BY <1>2, <1>3

LEMMA NotPaying ==
  ASSUME ~pay'.on
  PROVE  Looked'
BY DEF Looked

LEMMA StartLooked ==
  ASSUME ShopInv, NEW one, NEW itemize \in BOOLEAN, StartPay(one, itemize)
  PROVE  Looked'
<1>1. pay' = [on |-> TRUE, pass |-> 0, tmp |-> 1, itemize |-> itemize, one |-> one] /\ bill' = bill
      /\ (itemize \/ one = 0)
  BY DEF StartPay
<1>2. DOMAIN bill = 1 .. Len(bill)
  BY NowIs, KeptIs DEF ShopInv, Books
<1>3. pay'.pass # 1 /\ \A i \in DOMAIN bill : ~(i < pay'.tmp)
  BY <1>1, <1>2
<1> QED
  BY <1>1, <1>3 DEF Looked

LEMMA HeroLooked ==
  ASSUME ShopInv, Hero
  PROVE  Looked'
<1>1. ASSUME ~pay.on, pay' = pay PROVE Looked'
  BY <1>1, NotPaying
<1>2. CASE \E one \in Ids \cup {0}, itemize \in BOOLEAN : StartPay(one, itemize)
  BY <1>2, StartLooked
<1>3. CASE ~\E one \in Ids \cup {0}, itemize \in BOOLEAN : StartPay(one, itemize)
  <2>1. ~pay.on /\ pay' = pay
    BY <1>3 DEF Hero, PickUp, DropUnpaid, DropOnSpot, AdjustSplit, DropOwn, Use, Dilute,
                AdjustMerge, DipMerge, Mix, Boom, Leave, Tidy, Shopping
  <2> QED
    BY <1>1, <2>1
<1> QED
  BY <1>2, <1>3

\* The loop goes on to the next entry, this one being wholly there.
LEMMA PassOverLooked ==
  ASSUME ShopInv, Looked, PassOver
  PROVE  Looked'
<1> SUFFICES ASSUME pay'.on, ~pay'.itemize, ~muddled'
             PROVE  pay'.one = 0 /\ \A i \in DOMAIN bill' : pay'.pass = 1 \/ i < pay'.tmp => Whole(i)'
  BY DEF Looked
<1>1. /\ pay.on /\ ~AtEnd /\ Become(Restored) /\ muddled' = muddled /\ Found
      /\ NotThisPass \/ pay.one \notin {0, Bp.id}
      /\ pay' = [pay EXCEPT !.tmp = @ + 1]
  BY DEF PassOver
<1>2. pay \in [on : BOOLEAN, pass : {0, 1}, tmp : Nat, itemize : BOOLEAN, one : Ids \cup {0}]
  BY DEF ShopInv, Money
<1>3. pay'.one = pay.one /\ pay'.pass = pay.pass /\ pay'.tmp = pay.tmp + 1 /\ pay'.itemize = pay.itemize
      /\ pay.tmp \in Nat /\ pay.pass \in {0, 1}
  BY <1>1, <1>2
<1>4. pay.one = 0 /\ \A i \in DOMAIN bill : pay.pass = 1 \/ i < pay.tmp => Whole(i)
  BY <1>1, <1>3 DEF Looked
<1>5. NotThisPass
  BY <1>1, <1>4
<1>6. /\ pay.tmp \in DOMAIN bill /\ Bp \in Line /\ bill \in Seq(Line) /\ obj \in [Ids -> Thing]
      /\ Restored.bill = bill /\ Restored.obj[Bp.id] = [obj[Bp.id] EXCEPT !.quan = Quan]
      /\ (~Bp.useup => Quan = obj[Bp.id].quan) /\ Bp.id \in Ids /\ obj[Bp.id] \in Thing
      /\ \A k \in Ids : k # Bp.id => Restored.obj[k] = obj[k]
  BY <1>1, AtEntry, RestoredIs, NowIs, KeptIs
<1>7. ~Bp.useup /\ Quan = Bp.quan
  <2>1. CASE pay.pass = 1
    BY <1>4, <1>5, <1>6, <2>1 DEF Whole, Bp, NotThisPass
  <2>2. CASE pay.pass = 0
    BY <1>5, <2>2 DEF NotThisPass
  <2> QED
    BY <1>3, <2>1, <2>2
<1>8. Whole(pay.tmp)
  BY <1>6, <1>7 DEF Whole, Bp
<1>9. bill' = bill /\ \A k \in Ids : obj'[k].quan = obj[k].quan
  <2>1. obj' = Restored.obj /\ bill' = bill
    BY <1>1, <1>6 DEF Become
  <2>2. [obj[Bp.id] EXCEPT !.quan = Quan].quan = Quan
    BY <1>6 DEF Thing
  <2> QED
    BY <1>6, <1>7, <2>1, <2>2
<1>10. DOMAIN bill \subseteq Int /\ \A i \in DOMAIN bill : bill[i].id \in Ids
  <2>1. DOMAIN bill = 1 .. Len(bill) /\ \A i \in DOMAIN bill : bill[i] \in Line
    BY <1>6
  <2> QED
    BY <2>1 DEF Line
<1>11. ASSUME NEW i \in DOMAIN bill, pay'.pass = 1 \/ i < pay'.tmp PROVE Whole(i)'
  <2>1. Whole(i)
    <3>1. pay.pass = 1 \/ i < pay.tmp \/ i = pay.tmp
      BY <1>3, <1>10, <1>11
    <3> QED
      BY <1>4, <1>8, <3>1
  <2>2. bill'[i] = bill[i] /\ obj'[bill[i].id].quan = obj[bill[i].id].quan
    BY <1>9, <1>10
  <2>3. ~bill'[i].useup /\ obj'[bill'[i].id].quan = bill'[i].quan
    BY <2>1, <2>2 DEF Whole
  <2> QED
    BY <2>3 DEF Whole
<1> QED
  BY <1>3, <1>4, <1>9, <1>11

\* A purchase leaves what is behind the loop as it was.
LEMMA PayBuyLooked ==
  ASSUME ShopInv, Looked, PayBuy
  PROVE  Looked'
<1> SUFFICES ASSUME pay'.on, ~pay'.itemize, ~muddled'
             PROVE  pay'.one = 0 /\ \A i \in DOMAIN bill' : pay'.pass = 1 \/ i < pay'.tmp => Whole(i)'
  BY DEF Looked
<1> DEFINE s == Restored
           o == Bp.id
           c == pay.tmp
           t == Bought(s, o)
<1>1. Asked /\ pay.on /\ ~AtEnd /\ Found /\ pay' = pay /\ ~muddled /\ ~pay.itemize
  BY DEF PayBuy, Asked, Owe
<1>2. pay.one = 0 /\ \A i \in DOMAIN bill : pay.pass = 1 \/ i < c => Whole(i)
  BY <1>1 DEF Looked
<1>3. ~PaidAlready
  BY <1>1, BoughtDearer
<1>4. obj' = t.obj /\ bill' = t.bill
  BY <1>3 DEF PayBuy, Become
<1>5. /\ Kept(s) /\ s.bill = bill /\ c \in DOMAIN bill /\ bill[c] = Bp /\ o \in Ids
      /\ Bp \in Line /\ c \in Nat /\ pay.pass \in {0, 1}
      /\ \A k \in Ids : k # o => s.obj[k] = obj[k]
  BY <1>1, RestoredIs, AtEntry DEF Bp, ShopInv, Money
<1>6. s.obj \in [Ids -> Thing] /\ bill \in Seq(Line) /\ Once(bill) /\ DOMAIN s = {"obj", "bill"}
  BY <1>5, KeptIs
<1>7. DOMAIN bill = 1 .. Len(bill) /\ Len(bill) \in Nat /\ \A i \in DOMAIN bill : bill[i] \in Line /\ bill[i].id \in Ids
  <2>1. DOMAIN bill = 1 .. Len(bill) /\ Len(bill) \in Nat /\ \A i \in DOMAIN bill : bill[i] \in Line
    BY <1>6
  <2> QED
    BY <2>1 DEF Line
<1>8. \A k \in Ids : k # o => t.obj[k] = s.obj[k]
  <2>1. ~Bp.useup => \/ t.obj = [s.obj EXCEPT ![o].unpaid = TRUE]
                     \/ t.obj = [s.obj EXCEPT ![o].unpaid = FALSE]
    BY <1>1, <1>3, BoughtIs
  <2>2. Bp.useup => t.obj = [s.obj EXCEPT ![o] = Nil]
    BY <1>1, <1>3, BoughtIs
  <2> HIDE DEF t, s
  <2> QED
    BY <1>6, <2>1, <2>2
<1>9. \A k \in Ids : k # o => obj'[k] = obj[k]
  BY <1>4, <1>5, <1>8
\* An entry of the new bill that is behind the loop, or anywhere in the second pass.
<1>10. ASSUME NEW i \in DOMAIN bill', pay.pass = 1 \/ i < c
       PROVE  \E j \in DOMAIN bill : j # c /\ bill'[i] = bill[j] /\ (pay.pass = 1 \/ j < c)
  <2> HIDE DEF s
  <2> DEFINE b == [bill EXCEPT ![c] = bill[Len(bill)]]
             u == SubSeq(b, 1, Len(bill) - 1)
  <2>1. CASE Consumed /\ Amount # Bp.quan
    <3> DEFINE e == [bill[c] EXCEPT !.quan = s.obj[o].quan, !.useup = FALSE]
    <3>1. t.bill = [s.bill EXCEPT ![c] = [@ EXCEPT !.quan = s.obj[o].quan, !.useup = FALSE]]
      BY <2>1 DEF Bought
    <3>2. bill' = [bill EXCEPT ![c] = e]
      BY <1>4, <1>5, <3>1
    <3> HIDE DEF e, t
    <3>3. i \in DOMAIN bill /\ i < c /\ i # c /\ bill'[i] = bill[i]
      BY <1>7, <1>5, <1>10, <2>1, <3>2 DEF Consumed
    <3> QED
      BY <3>3
  <2>2. CASE ~(Consumed /\ Amount # Bp.quan)
    <3>1. t.bill = u
      <4>1. CASE Consumed
        <5>1. t = Dealloc(Unbill(s, c), o)
          BY <2>2, <4>1 DEF Bought
        <5>2. Unbill(s, c).bill = u /\ DOMAIN Unbill(s, c) = {"obj", "bill"}
          BY <1>5, <1>6 DEF Unbill
        <5> HIDE DEF t, u
        <5> QED
          BY <5>1, <5>2, DeallocIs
      <4>2. CASE ~Consumed
        <5> DEFINE r == [s EXCEPT !.obj[o].unpaid = FALSE]
        <5>1. t = Unbill(r, c)
          BY <4>2 DEF Bought
        <5>2. DOMAIN r = {"obj", "bill"} /\ r.bill = bill
          BY <1>5, <1>6
        <5> HIDE DEF r, t
        <5> QED
          BY <5>1, <5>2 DEF Unbill
      <4> QED
        BY <4>1, <4>2
    <3> HIDE DEF t
    <3>2. b \in Seq(Line) /\ Len(b) = Len(bill)
          /\ \A k \in DOMAIN bill : b[k] = IF k = c THEN bill[Len(bill)] ELSE bill[k]
      BY <1>5, <1>6, <1>7
    <3> HIDE DEF b
    <3>3. DOMAIN u = 1 .. Len(bill) - 1 /\ \A k \in 1 .. Len(bill) - 1 : u[k] = b[k]
      BY <1>7, <3>2
    <3> HIDE DEF u
    <3>4. bill' = u
      BY <1>4, <3>1
    <3>5. i \in DOMAIN bill /\ i \in 1 .. Len(bill) - 1
      BY <1>7, <3>3, <3>4
    <3>6. CASE i # c
      <4>1. bill'[i] = bill[i]
        BY <3>2, <3>3, <3>4, <3>5, <3>6
      <4> QED
        BY <1>10, <3>5, <3>6, <4>1
    <3>7. CASE i = c
      <4>1. bill'[i] = bill[Len(bill)] /\ pay.pass = 1
        BY <1>5, <1>10, <3>2, <3>3, <3>4, <3>5, <3>7
      <4>2. Len(bill) \in DOMAIN bill /\ Len(bill) # c
        BY <1>7, <3>5, <3>7
      <4> QED
        BY <4>1, <4>2
    <3> QED
      BY <3>6, <3>7
  <2> QED
    BY <2>1, <2>2
<1>11. ASSUME NEW i \in DOMAIN bill', pay.pass = 1 \/ i < c PROVE Whole(i)'
  <2>1. PICK j \in DOMAIN bill : j # c /\ bill'[i] = bill[j] /\ (pay.pass = 1 \/ j < c)
    BY <1>10, <1>11
  <2>2. Whole(j)
    BY <1>2, <2>1
  <2>3. bill[j].id \in Ids /\ bill[j].id # o
    BY <1>5, <1>6, <1>7, <2>1 DEF Once
  <2>4. obj'[bill[j].id] = obj[bill[j].id]
    BY <1>9, <2>3
  <2>5. ~bill'[i].useup /\ obj'[bill'[i].id].quan = bill'[i].quan
    BY <2>1, <2>2, <2>4 DEF Whole
  <2> QED
    BY <2>5 DEF Whole
<1> QED
  BY <1>1, <1>2, <1>11

LEMMA PayLooked ==
  ASSUME ShopInv, Looked, PayStep
  PROVE  Looked'
<1>1. CASE NextPass
  <2>1. /\ pay.on /\ AtEnd /\ UNCHANGED <<obj, bill, muddled>>
        /\ pay' = IF pay.pass = 0 THEN [pay EXCEPT !.pass = 1, !.tmp = 1] ELSE Idle
    BY <1>1 DEF NextPass
  <2>2. pay \in [on : BOOLEAN, pass : {0, 1}, tmp : Nat, itemize : BOOLEAN, one : Ids \cup {0}]
    BY DEF ShopInv, Money
  <2>3. CASE pay.pass # 0
    <3>1. ~pay'.on
      BY <2>1, <2>3 DEF Idle
    <3> QED
      BY <3>1, NotPaying
  <2>4. CASE pay.pass = 0
    <3>1. pay'.on = pay.on /\ pay'.itemize = pay.itemize /\ pay'.one = pay.one
      BY <2>1, <2>2, <2>4
    <3>2. \A i \in DOMAIN bill : i < pay.tmp
      <4>1. DOMAIN bill = 1 .. Len(bill) /\ Len(bill) \in Nat
        BY NowIs, KeptIs DEF ShopInv, Books
      <4> QED
        BY <2>1, <2>2, <4>1 DEF AtEnd
    <3>3. ASSUME ~pay.itemize, ~muddled PROVE pay.one = 0 /\ \A i \in DOMAIN bill : Whole(i)
      BY <2>1, <3>2, <3>3 DEF Looked
    <3>4. ASSUME NEW i PROVE Whole(i)' <=> Whole(i)
      BY <2>1 DEF Whole
    <3> QED
      BY <2>1, <3>1, <3>3, <3>4 DEF Looked
  <2> QED
    BY <2>3, <2>4
<1>2. CASE OutOfOrder \/ PayBroke
  <2>1. ~pay'.on
    BY <1>2 DEF OutOfOrder, PayBroke, Idle
  <2> QED
    BY <2>1, NotPaying
<1>3. CASE PaySkip
  <2>1. pay' = IF pay.itemize THEN [pay EXCEPT !.tmp = @ + 1] ELSE Idle
    BY <1>3 DEF PaySkip
  <2>2. CASE pay.itemize
    <3>1. pay'.itemize
      <4>1. pay \in [on : BOOLEAN, pass : {0, 1}, tmp : Nat, itemize : BOOLEAN, one : Ids \cup {0}]
        BY DEF ShopInv, Money
      <4> QED
        BY <2>1, <2>2, <4>1
    <3> QED
      BY <3>1 DEF Looked
  <2>3. CASE ~pay.itemize
    <3>1. ~pay'.on
      BY <2>1, <2>3 DEF Idle
    <3> QED
      BY <3>1, NotPaying
  <2> QED
    BY <2>2, <2>3
<1> QED
  BY <1>1, <1>2, <1>3, PassOverLooked, PayBuyLooked DEF PayStep

LEMMA HeroTally ==
  ASSUME ShopInv, Tally, Hero
  PROVE  Tally'
<1>1. ASSUME NEW one, NEW itemize, StartPay(one, itemize) PROVE Tally'
  BY <1>1 DEF StartPay, Tally
<1> QED
  BY <1>1, PickUpTally, DropUnpaidTally, DropOnSpotTally, AdjustSplitTally, DropOwnTally,
     UseTally, DiluteTally, AdjustMergeTally, DipMergeTally, MixTally, BoomTally, LeaveTally
  DEF Hero

LEMMA PayTally ==
  ASSUME ShopInv, Tally, Looked, PayStep
  PROVE  Tally'
<1>1. ASSUME NextPass PROVE Tally'
  BY <1>1 DEF NextPass, Tally
<1> QED
  BY <1>1, LeaveTally, PassOverTally, PaySkipTally, PayBuyTally DEF PayStep

\* No way of splitting, stacking, using up, dropping, diluting or paying loses
\* a piece of the shop's goods from its bill or puts one on it that was not
\* taken, whatever the number of objects and the size of the bill, as long as
\* the hero mixes none of his potions with the shop's.
THEOREM BillIsOwed == ShopSpec => []BillIsWhatIsOwed
<1>1. ShopInit => ShopInv /\ Tally /\ Looked
  <2> SUFFICES ASSUME ShopInit PROVE ShopInv /\ Tally /\ Looked
    OBVIOUS
  <2>1. ShopInv /\ bill = <<>> /\ pay = Idle /\ owed = 0
    BY Begin DEF ShopInit
  <2>2. Lines(bill) = {} /\ Kept(Now)
    BY <2>1 DEF Lines, ShopInv, Books
  <2>3. Priced(obj)
    <3> SUFFICES ASSUME NEW o \in Ids, obj[o].where = "inv", obj[o].unpaid PROVE FALSE
      BY DEF Priced
    <3> QED
      BY <2>2, NowIs DEF Kept, Booked, Goods
  <2>4. ~pay.on
    BY <2>1 DEF Idle
  <2> QED
    BY <2>1, <2>3, <2>4, TotalNothing DEF Tally, Looked
<1>2. ShopInv /\ Tally /\ Looked /\ [ShopNext]_shopVars => (Tally /\ Looked)'
  <2> SUFFICES ASSUME ShopInv, Tally, Looked, [ShopNext]_shopVars PROVE Tally' /\ Looked'
    OBVIOUS
  <2>1. CASE UNCHANGED shopVars
    BY <2>1 DEF shopVars, Tally, Looked, Whole
  <2>2. CASE Hero
    BY <2>2, HeroTally, HeroLooked
  <2>3. CASE PayStep
    BY <2>3, PayTally, PayLooked
  <2> QED
    BY <2>1, <2>2, <2>3 DEF ShopNext
<1>3. Tally => BillIsWhatIsOwed
  BY DEF Tally, BillIsWhatIsOwed
<1> QED
  BY <1>1, <1>2, <1>3, Always, PTL DEF ShopSpec
=============================================================================
