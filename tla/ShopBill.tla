------------------------------ MODULE ShopBill ------------------------------
(***************************************************************************)
(* The bill of a shop (shk.c) against the objects it names.  A bill entry  *)
(* knows an object by its number and remembers how many were taken; the    *)
(* object is split, merged, used up, diluted, thrown, dropped and paid for *)
(* by code all over the game (mkobj.c, invent.c, potion.c), each of which  *)
(* has to keep the entry and the object together.                          *)
(*                                                                         *)
(* The comment at the head of shk.c states the agreement:                  *)
(*   obj->unpaid iff onbill(obj) [unless bp->useup];                       *)
(*   obj->quan <= bp->bquan.                                               *)
(*                                                                         *)
(* Everything costs one piece apiece; money and credit are one purse; the  *)
(* hero is in the shop and the shopkeeper at home; no containers.          *)
(***************************************************************************)
EXTENDS Integers, Sequences, FiniteSets

CONSTANTS
  Ids,      \* object numbers (flags.ident++)
  Types,    \* object types that stack
  Water,    \* the one that cannot be diluted any more
  BILLSZ,   \* entries a bill has room for (200 in eshk.h)
  MaxQuan,  \* bound on a stack
  Purse,    \* bound on the money the hero has
  Shelf,    \* what is on sale at first,
  Pack      \* and what the hero comes in with

ASSUME ShopAssumption ==
  /\ Ids \subseteq Nat \ {0}
  /\ Water \in Types
  /\ BILLSZ \in Nat \ {0} /\ MaxQuan \in Nat \ {0} /\ Purse \in Nat
  /\ Shelf \subseteq Ids /\ Pack \subseteq Ids \ Shelf
  /\ IsFiniteSet(Ids)

VARIABLES
  obj,      \* the objects: where they are and what the shop thinks of them
  bill,     \* eshkp->bill[0 .. billct-1]
  cash,     \* money and credit
  pay,      \* how far dopay has got
  owed,     \* (history) pieces of the shop's taken, not returned, not paid for
  muddled   \* (history) a potion of the shop has been mixed with one of the hero's

shopVars == <<obj, bill, cash, pay, owed, muddled>>

\* "shop": on the shop's floor; "spot": on the free spot inside the door;
\* "billobjs": the chain of what was used up before it was paid.
Where == {"none", "shop", "spot", "inv", "billobjs"}
Nil == [where |-> "none", type |-> Water, dil |-> FALSE, quan |-> 0, unpaid |-> FALSE, nc |-> FALSE]
Idle == [on |-> FALSE, pass |-> 0, tmp |-> 0, itemize |-> FALSE, one |-> 0]

Shopping == ~pay.on

\* Bound: after a muddle the hero only splits, merges, uses up, brings back,
\* pays and leaves, which is enough for everything that can come of it.
Tidy == ~pay.on /\ ~muddled
At(w) == {o \in Ids : obj[o].where = w}

-----------------------------------------------------------------------------
(* The helpers work on a pair s = [obj, bill], as the code's do on the two *)
(* structures; an action makes the pair it ends with the next state.       *)

Now == [obj |-> obj, bill |-> bill]

\* The bounds of the model: no tall stacks, no entry below zero (which takes a
\* muddle first).
Small(s) == /\ \A o \in Ids : s.obj[o].where # "billobjs" => s.obj[o].quan <= MaxQuan
            /\ \A i \in DOMAIN s.bill : s.bill[i].quan \in 0..(MaxQuan + 1)

Become(s) == Small(s) /\ obj' = s.obj /\ bill' = s.bill

\* onbill
OnBill(s, o) == {i \in DOMAIN s.bill : s.bill[i].id = o}
Billed(s, o) == OnBill(s, o) # {}
Slot(s, o) == CHOOSE i \in OnBill(s, o) : \A j \in OnBill(s, o) : i <= j
Entry(o, n, used) == [id |-> o, quan |-> n, useup |-> used]
Full(s) == Len(s.bill) = BILLSZ

\* flags.ident++: a number no object has and no entry of a bill names.
Free(s) == {o \in Ids : s.obj[o].where = "none" /\ ~Billed(s, o)}
NewId(s) == CHOOSE o \in Free(s) : \A p \in Free(s) : o <= p
Room(s, n) == Cardinality(Free(s)) >= n

\* *bp = bill_p[--billct]
Unbill(s, i) == [s EXCEPT !.bill = SubSeq([s.bill EXCEPT ![i] = s.bill[Len(s.bill)]], 1, Len(s.bill) - 1)]

\* dealloc_obj
Dealloc(s, o) == [s EXCEPT !.obj[o] = Nil]

\* addtobill and add_one_tobill: a full bill makes it free.
AddToBill(s, o, dummy) ==
  IF Billed(s, o) \/ Full(s) THEN s
  ELSE IF s.obj[o].nc THEN [s EXCEPT !.obj[o].nc = FALSE]
  ELSE LET x == [s.obj[o] EXCEPT !.unpaid = TRUE]
       IN  [obj  |-> [s.obj EXCEPT ![o] = IF dummy THEN [x EXCEPT !.where = "billobjs"] ELSE x],
            bill |-> Append(s.bill, Entry(o, s.obj[o].quan, dummy))]

SplitBill_full(s, o, q) ==            \* mutant: the part is unpaid though the bill has no room
  LET n    == s.obj[q].quan
      less == [s EXCEPT !.bill[Slot(s, o)].quan = @ - n]
  IN  IF Full(s) THEN less ELSE [less EXCEPT !.bill = Append(@, Entry(q, n, FALSE))]

\* splitbill: q has been split off from o.
SplitBill(s, o, q) ==
  LET n    == s.obj[q].quan
      less == [s EXCEPT !.bill[Slot(s, o)].quan = @ - n]
  IN  IF Full(s) THEN [less EXCEPT !.obj[q].unpaid = FALSE]
      ELSE [less EXCEPT !.bill = Append(@, Entry(q, n, FALSE))]

\* splitobj: n of o go into q.
Split(s, o, n, q) ==
  LET two == [s EXCEPT !.obj[q] = [s.obj[o] EXCEPT !.quan = n],
                       !.obj[o] = [s.obj[o] EXCEPT !.quan = @ - n]]
  IN  IF s.obj[o].unpaid THEN SplitBill(two, o, q) ELSE two

\* mergable
Mergable(s, p, o) ==
  /\ p # o
  /\ [s.obj[p] EXCEPT !.quan = 0, !.where = ""] = [s.obj[o] EXCEPT !.quan = 0, !.where = ""]

\* obfree(o, p): "obfree: not on bill??" returns and leaves o on no list, its
\* entry on the bill; nothing can reach o any more.
ObfreeMerge(s, p, o) ==
  IF ~Billed(s, o) \/ ~Billed(s, p) THEN Dealloc(s, o)
  ELSE Dealloc(Unbill([s EXCEPT !.bill[Slot(s, p)].quan = @ + s.bill[Slot(s, o)].quan], Slot(s, o)), o)

\* combine_objs: o disappears into p.
Combine(s, p, o) == ObfreeMerge([s EXCEPT !.obj[p].quan = @ + s.obj[o].quan], p, o)

\* obfree(o, NULL) of what may be on the bill.
Obfree(s, o) ==
  IF ~Billed(s, o) THEN Dealloc(s, o)
  ELSE [obj  |-> [s.obj EXCEPT ![o] = [@ EXCEPT !.unpaid = FALSE, !.where = "billobjs"]],
        bill |-> [s.bill EXCEPT ![Slot(s, o)].useup = TRUE]]

\* useup: only the last one goes to obfree.
UseUp(s, o) == IF s.obj[o].quan > 1 THEN [s EXCEPT !.obj[o].quan = @ - 1] ELSE Obfree(s, o)

SubOne_noDummy(s, o) ==               \* mutant: what was used up is forgotten
  IF ~Billed(s, o) THEN [s EXCEPT !.obj[o].unpaid = FALSE]
  ELSE Unbill([s EXCEPT !.obj[o].unpaid = FALSE], Slot(s, o))

\* sub_one_frombill: what has been used up of o stays on the bill as a dummy.
SubOne(s, o) ==
  LET i    == Slot(s, o)
      q    == NewId(s)
      used == s.bill[i].quan - s.obj[o].quan
      back == [s.obj EXCEPT ![o].unpaid = FALSE]
  IN  IF ~Billed(s, o) THEN [s EXCEPT !.obj = back]
      ELSE IF used > 0
      THEN [obj  |-> [back EXCEPT ![q] = [back[o] EXCEPT !.where = "billobjs", !.quan = used]],
            bill |-> [s.bill EXCEPT ![i] = Entry(q, used, TRUE)]]
      ELSE Unbill([s EXCEPT !.obj = back], i)

\* setpaid
SetPaid(s) ==
  [obj  |-> [o \in Ids |-> IF s.obj[o].where = "billobjs" THEN Nil
                           ELSE IF Billed(s, o) THEN [s.obj[o] EXCEPT !.unpaid = FALSE]
                           ELSE s.obj[o]],
   bill |-> <<>>]

\* History: what is owed is followed until there is a muddle; a bill that is
\* wiped out ends it.
Owe(n) == muddled' = muddled /\ owed' = owed + (IF muddled THEN 0 ELSE n)
Muddle(yes) == muddled' = (muddled \/ yes) /\ owed' = IF yes THEN 0 ELSE owed
Settled == muddled' = FALSE /\ owed' = 0

-----------------------------------------------------------------------------
(* What the hero does with things.                                         *)

\* addinv and stackobj: into the first stack that takes it, or beside it.
\* In the inventory the old stack survives, on the floor the new one.
Stow(s, o) ==
  LET t == [s EXCEPT !.obj[o] = [@ EXCEPT !.where = "inv", !.nc = FALSE]]
      P == {p \in Ids : s.obj[p].where = "inv" /\ Mergable(t, p, o)}
  IN  IF P = {} THEN {t} ELSE {Combine(t, p, o) : p \in P}

Lay(s, o, w) ==
  LET t == [s EXCEPT !.obj[o].where = w]
      P == {p \in Ids : s.obj[p].where = w /\ Mergable(t, o, p)}
  IN  IF P = {} THEN {t} ELSE {Combine(t, o, p) : p \in P}

\* Taking n of a stack: the part has a number of its own unless it is all.
Part(s, o, n) == IF n = s.obj[o].quan THEN o ELSE NewId(s)
Parted(s, o, n) == IF n = s.obj[o].quan THEN s ELSE Split(s, o, n, NewId(s))
CanPart(o, n) == n \in 1..obj[o].quan /\ (n < obj[o].quan => Room(Now, 1))

\* Pieces that a split makes free because the bill is full (splitbill).
FreeBySplit(s, o, n) == IF s.obj[o].unpaid /\ n < s.obj[o].quan /\ Full(s) THEN n ELSE 0

\* pick_obj: the shop's goods go on the bill, what lies on the free spot
\* does not.
PickUp(o, n) ==
  LET s == Parted(Now, o, n)
      q == Part(Now, o, n)
      t == IF obj[o].where = "shop" THEN AddToBill(s, q, FALSE) ELSE s
  IN  /\ Tidy /\ obj[o].where \in {"shop", "spot"} /\ CanPart(o, n)
      /\ \E r \in Stow(t, q) : Become(r)
      /\ Owe(IF obj[o].where = "shop" /\ ~obj[o].nc /\ ~Full(Now) THEN n
              ELSE -FreeBySplit(Now, o, n))
      /\ UNCHANGED <<cash, pay>>

\* dropx: back on the shelf goes what was the shop's; what is the hero's is
\* sold or stays his; on the free spot nothing changes hands.
DropUnpaid(o, n) ==
  LET s == Parted(Now, o, n)
      q == Part(Now, o, n)
  IN  /\ Shopping /\ obj[o].where = "inv" /\ obj[o].unpaid /\ CanPart(o, n)
      /\ Room(s, 1)
      /\ \E r \in Lay(IF s.obj[q].unpaid THEN SubOne(s, q) ELSE [s EXCEPT !.obj[q].nc = TRUE], q, "shop") : Become(r)
      /\ Owe(-n)
      /\ UNCHANGED <<cash, pay>>

DropOwn(o, n, sold) ==
  LET s == Parted(Now, o, n)
      q == Part(Now, o, n)
  IN  /\ Tidy /\ obj[o].where = "inv" /\ ~obj[o].unpaid /\ CanPart(o, n)
      /\ sold => ~Full(Now) /\ cash + n <= Purse
      /\ \E r \in Lay([s EXCEPT !.obj[q].nc = ~sold], q, "shop") : Become(r)
      /\ cash' = IF sold THEN cash + n ELSE cash
      /\ UNCHANGED <<pay, owed, muddled>>

DropOnSpot(o, n) ==
  LET s == Parted(Now, o, n)
      q == Part(Now, o, n)
  IN  /\ Tidy /\ obj[o].where = "inv" /\ CanPart(o, n)
      /\ \E r \in Lay(s, q, "spot") : Become(r)
      /\ Owe(-FreeBySplit(Now, o, n))
      /\ UNCHANGED <<cash, pay>>

\* doorganize: split a stack under a new letter, or put two together.
AdjustSplit(o, n) ==
  /\ Shopping /\ obj[o].where = "inv" /\ n \in 1..(obj[o].quan - 1) /\ Room(Now, 1)
  /\ Become(Split(Now, o, n, NewId(Now)))
  /\ Owe(-FreeBySplit(Now, o, n))
  /\ UNCHANGED <<cash, pay>>

AdjustMerge(p, o) ==
  /\ Shopping /\ obj[p].where = "inv" /\ obj[o].where = "inv" /\ Mergable(Now, p, o)
  /\ LET r == Combine(Now, p, o) IN Become(r)
  /\ UNCHANGED <<cash, pay, owed, muddled>>

\* Quaffing, reading, eating: useup.
Use(o) ==
  /\ Shopping /\ obj[o].where = "inv"
  /\ Become(UseUp(Now, o))
  /\ UNCHANGED <<cash, pay, owed, muddled>>

\* bill_dummy_object after subfrombill: the hero is charged for the goods as
\* they were and the changed goods are his.  A full bill leaks the dummy.
BillDummy(s, o, q) ==
  LET t == AddToBill([s EXCEPT !.obj[q] = s.obj[o]], q, TRUE)
      u == IF Billed(t, q) THEN t ELSE Dealloc(t, q)
  IN  [u EXCEPT !.obj[o] = [@ EXCEPT !.nc = TRUE, !.unpaid = FALSE]]

\* get_wet on a potion: "You dilute it, you pay for it."
Wetter(x) == IF x.dil THEN [x EXCEPT !.type = Water, !.dil = FALSE] ELSE [x EXCEPT !.dil = TRUE]

Dilute(o) ==
  LET s == SubOne(Now, o)
      t == IF obj[o].unpaid THEN BillDummy(s, o, NewId(s)) ELSE Now
  IN  /\ Tidy /\ obj[o].where = "inv" /\ obj[o].type # Water
      /\ obj[o].unpaid => Room(Now, 2)
      /\ Become([t EXCEPT !.obj[o] = Wetter(@)])
      /\ Owe(IF obj[o].unpaid /\ Full(s) THEN -obj[o].quan ELSE 0)
      /\ UNCHANGED <<cash, pay>>

\* dip_diluted_same_potions: combine_objs without asking mergable, so that
\* the one stack may be the shop's and the other the hero's.
DipMerge(p, o) ==
  LET r == Combine(Now, p, o)
  IN  /\ Tidy /\ obj[p].where = "inv" /\ obj[o].where = "inv"
      /\ obj[p].type = obj[o].type /\ obj[p].dil # obj[o].dil
      /\ Become([r EXCEPT !.obj[p].dil = TRUE])
      /\ Muddle(obj[p].unpaid # obj[o].unpaid)
      /\ UNCHANGED <<cash, pay>>

\* dip: two different potions; o becomes one more of something else.
Mixture(x, t) == [x EXCEPT !.type = t, !.dil = (t # Water)]

Mix(p, o) ==
  /\ Tidy /\ obj[p].where = "inv" /\ obj[o].where = "inv"
  /\ obj[p].type # obj[o].type
  /\ \E t \in Types :
       LET r == UseUp([Now EXCEPT !.obj[o] = Mixture(@, t)], p)
           m == [r EXCEPT !.obj[o].quan = @ + 1]
       IN  Become(m)
  /\ Muddle(obj[o].unpaid)
  /\ UNCHANGED <<cash, pay>>

\* ... or both are gone.
Boom(p, o) ==
  /\ Tidy /\ obj[p].where = "inv" /\ obj[o].where = "inv"
  /\ obj[p].type # obj[o].type
  /\ Become(UseUp(UseUp(Now, o), p))
  /\ UNCHANGED <<cash, pay, owed, muddled>>

\* rob_shop: out of the door with the bill unpaid.
Leave ==
  /\ Shopping /\ bill # <<>>
  /\ Become(SetPaid(Now))
  /\ Settled
  /\ UNCHANGED <<cash, pay>>

-----------------------------------------------------------------------------
(* dopay, one turn of its inner loop at a time; the player answers every   *)
(* question as he likes, and nothing else can happen meanwhile.            *)

Cheapest == CHOOSE n \in {bill[i].quan : i \in DOMAIN bill} : \A i \in DOMAIN bill : n <= bill[i].quan

StartPay(one, itemize) ==
  /\ Shopping /\ bill # <<>> /\ cash > 0 /\ cash >= Cheapest
  /\ one # 0 => obj[one].where = "inv" /\ obj[one].unpaid
  /\ itemize \/ (one = 0 /\ Len(bill) > 1)
  /\ pay' = [on |-> TRUE, pass |-> 0, tmp |-> 1, itemize |-> itemize, one |-> one]
  /\ UNCHANGED <<obj, bill, cash, owed, muddled>>

Bp == bill[pay.tmp]
AtEnd == pay.tmp > Len(bill)

\* bp_to_obj
Found == IF Bp.useup THEN obj[Bp.id].where = "billobjs" ELSE obj[Bp.id].where \in {"shop", "spot", "inv"}

\* A used-up object gets its quantity back before anything is decided.
Quan == IF Bp.useup THEN Bp.quan ELSE obj[Bp.id].quan
Restored == [Now EXCEPT !.obj[Bp.id].quan = Quan]
NotThisPass == (pay.pass = IF Bp.useup THEN 1 ELSE 0) /\ Quan = Bp.quan

NextPass_again ==                     \* mutant: the passes do not end
  /\ pay.on /\ AtEnd
  /\ pay' = [pay EXCEPT !.pass = 1, !.tmp = 1]
  /\ UNCHANGED <<obj, bill, cash, owed, muddled>>

NextPass ==
  /\ pay.on /\ AtEnd
  /\ pay' = IF pay.pass = 0 THEN [pay EXCEPT !.pass = 1, !.tmp = 1] ELSE Idle
  /\ UNCHANGED <<obj, bill, cash, owed, muddled>>

\* "Shopkeeper administration out of order.": be nice to the player.
OutOfOrder ==
  /\ pay.on /\ ~AtEnd /\ ~Found
  /\ Become(SetPaid(Now))
  /\ Settled /\ pay' = Idle
  /\ UNCHANGED cash

PassOver ==
  /\ pay.on /\ ~AtEnd /\ Found
  /\ NotThisPass \/ pay.one \notin {0, Bp.id}
  /\ Become(Restored)
  /\ pay' = [pay EXCEPT !.tmp = @ + 1]
  /\ UNCHANGED <<cash, owed, muddled>>

\* dopayobj
Asked == pay.on /\ ~AtEnd /\ Found /\ ~NotThisPass /\ pay.one \in {0, Bp.id}
Consumed == pay.pass = 0

Amount_whole ==                       \* mutant: no look at what is left of the stack
  IF ~Consumed THEN Quan ELSE Bp.quan

Amount == IF ~Consumed THEN Quan ELSE IF Bp.quan > Quan THEN Bp.quan - Quan ELSE Bp.quan
PaidAlready == ~obj[Bp.id].unpaid /\ ~Bp.useup       \* "Paid object on bill??"
Broke == pay.itemize /\ cash = 0
PartlyUsed == pay.itemize /\ ~Consumed /\ Amount < Bp.quan

PayBroke ==
  /\ Asked /\ ~PaidAlready /\ Broke
  /\ Become(Restored) /\ pay' = Idle
  /\ UNCHANGED <<cash, owed, muddled>>

\* PAY_SKIP (the player says no, must pay for the used-up part first, or has
\* too little) and PAY_CANT put the object back as an unpaid one.
PaySkip ==
  /\ Asked /\ ~PaidAlready /\ ~Broke
  /\ pay.itemize \/ cash < Amount
  /\ Become([Restored EXCEPT !.obj[Bp.id].unpaid = TRUE])
  /\ pay' = IF pay.itemize THEN [pay EXCEPT !.tmp = @ + 1] ELSE Idle
  /\ UNCHANGED <<cash, owed, muddled>>

\* PAY_SOME: the used-up part is paid, the rest of the stack stays unpaid.
\* PAY_BUY: the entry goes, and with it what was used up altogether.
Bought(s, o) ==
  IF Consumed THEN
    IF Amount # Bp.quan
    THEN [obj |-> [s.obj EXCEPT ![o].unpaid = TRUE],
          bill |-> [s.bill EXCEPT ![pay.tmp] = [@ EXCEPT !.quan = s.obj[o].quan, !.useup = FALSE]]]
    ELSE Dealloc(Unbill(s, pay.tmp), o)
  ELSE Unbill([s EXCEPT !.obj[o].unpaid = FALSE], pay.tmp)

PayBuy ==
  /\ Asked
  /\ PaidAlready \/ (~Broke /\ ~PartlyUsed /\ cash >= Amount)
  /\ Become(IF PaidAlready THEN Unbill(Restored, pay.tmp) ELSE Bought(Restored, Bp.id))
  /\ LET price == IF PaidAlready THEN 0 ELSE Amount
     IN  cash' = cash - price /\ Owe(-price)
  /\ UNCHANGED pay

PayStep == NextPass \/ OutOfOrder \/ PassOver \/ PayBroke \/ PaySkip \/ PayBuy

-----------------------------------------------------------------------------
\* Goods of the shop, and what the hero came with.
ShopInit ==
  /\ bill = <<>> /\ pay = Idle /\ owed = 0 /\ muddled = FALSE
  /\ cash = Purse
  /\ \E t \in Types \ {Water} :
       obj = [o \in Ids |->
                IF o \in Shelf \cup Pack
                THEN [Nil EXCEPT !.where = IF o \in Shelf THEN "shop" ELSE "inv",
                                 !.type = t, !.quan = IF o \in Shelf THEN MaxQuan ELSE 1]
                ELSE Nil]

Hero ==
  \/ \E o \in Ids, n \in 1..MaxQuan :
       PickUp(o, n) \/ DropUnpaid(o, n) \/ DropOnSpot(o, n) \/ AdjustSplit(o, n)
  \/ \E o \in Ids, n \in 1..MaxQuan, sold \in BOOLEAN : DropOwn(o, n, sold)
  \/ \E o \in Ids : Use(o) \/ Dilute(o)
  \/ \E p, o \in Ids : AdjustMerge(p, o) \/ DipMerge(p, o) \/ Mix(p, o) \/ Boom(p, o)
  \/ Leave
  \/ \E one \in Ids \cup {0}, itemize \in BOOLEAN : StartPay(one, itemize)

ShopNext == Hero \/ PayStep

ShopSpec == ShopInit /\ [][ShopNext]_shopVars

\* dopay runs to its end once it is called.
ShopFairSpec == ShopSpec /\ WF_shopVars(PayStep)

-----------------------------------------------------------------------------
ShopTypeOK ==
  /\ obj \in [Ids -> [where : Where, type : Types, dil : BOOLEAN, quan : Nat, unpaid : BOOLEAN, nc : BOOLEAN]]
  /\ bill \in Seq([id : Ids, quan : Int, useup : BOOLEAN]) /\ Len(bill) <= BILLSZ
  /\ cash \in Nat /\ owed \in Int /\ muddled \in BOOLEAN
  /\ pay \in [on : BOOLEAN, pass : {0, 1}, tmp : Nat, itemize : BOOLEAN, one : Ids \cup {0}]

\* The comment at shk.c:62, and what the two loops of dopay rely on: an entry
\* names an object that exists, once, and there is something of it to pay.
InOrder ==
  /\ \A o \in Ids : obj[o].where \in {"shop", "spot", "inv"} =>
       /\ obj[o].unpaid <=> \E i \in DOMAIN bill : bill[i].id = o /\ ~bill[i].useup
       /\ \A i \in DOMAIN bill : bill[i].id = o => obj[o].quan <= bill[i].quan
  /\ \A i \in DOMAIN bill :
       /\ bill[i].quan > 0
       /\ obj[bill[i].id].where \in (IF bill[i].useup THEN {"billobjs"} ELSE {"spot", "inv"})
       /\ \A j \in DOMAIN bill : bill[i].id = bill[j].id => i = j
  /\ \A o \in At("billobjs") : \E i \in DOMAIN bill : bill[i].id = o

\* The entries and the objects agree as long as no potion of the shop has
\* been mixed with one of the hero's, and again once the bill is wiped out.
BillMatches == ~muddled => InOrder

\* The comment of shk.c:62 makes no exception.
AlwaysInOrder == InOrder

\* The bill is for just what was taken from the shelves and neither brought
\* back, nor paid for, nor given away because the bill was full: no splitting,
\* merging, using up or diluting loses or invents a piece.
Total(b) == LET upto[i \in 0 .. Len(b)] == IF i = 0 THEN 0 ELSE upto[i - 1] + b[i].quan
            IN  upto[Len(b)]
BillIsWhatIsOwed == ~muddled => Total(bill) = owed

\* Paying takes nothing out of the hero's hands, and takes from the purse
\* what it takes off the bill.
PaidIsKept ==
  [][pay.on /\ ~muddled =>
       /\ \A o \in At("inv") : obj'[o] \in {obj[o], [obj[o] EXCEPT !.unpaid = FALSE]}
       /\ cash - cash' = owed - owed']_shopVars

\* Every payment comes to an end, whatever is answered: an entry that takes
\* another's place is looked at in the same pass.
PaymentEnds == pay.on ~> ~pay.on
=============================================================================
