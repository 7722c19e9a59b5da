------------------------------ MODULE Burning ------------------------------
(***************************************************************************)
(* The timer queues and light sources of the levels (timeout.c, light.c)   *)
(* and the objects they belong to (mkobj.c), while objects are lit, split, *)
(* merged, carried, dropped, lost through holes and destroyed, and while   *)
(* the hero and a monster change level (do.c, dog.c) and the game is saved *)
(* and restored.                                                           *)
(*                                                                         *)
(* Every level has its own queue and its own list of lights; an object     *)
(* knows its level (olev), how many timers it has (timed), whether it is   *)
(* lit and the fuel that is left when the running timer goes off (age).    *)
(* Nothing but discipline keeps the four in agreement.                     *)
(***************************************************************************)
EXTENDS Integers, Sequences, SequencesExt

CONSTANTS
  Obj,        \* objects
  Kind,       \* what each is: "candle" (a stack), "lamp" or "egg"
  Unborn,     \* candles that exist only once they are split off a stack
  NLevels,    \* levels are numbered in the order they are saved
  Fuel,       \* turns of fuel of a new candle or lamp
  Marks,      \* the "magic times" at which a burning object reports
  HatchAt,    \* when the eggs hatch
  Close,      \* candles merge when their ages agree up to this (25 in the code)
  MaxMoves,   \* bound on the turns played
  MaxTrips    \* bound on the changes of level, by anybody or anything

Level == 1 .. NLevels

ASSUME BurningAssumption ==
  /\ IsFiniteSet(Obj) /\ Kind \in [Obj -> {"candle", "lamp", "egg"}]
  /\ Unborn \subseteq {o \in Obj : Kind[o] = "candle"}
  /\ NLevels \in Nat \ {0} /\ Fuel \in Nat \ {0} /\ Close \in Nat \ {0}
  /\ HatchAt \in Nat /\ MaxMoves \in Nat /\ MaxTrips \in Nat
  /\ Marks \subseteq Nat

VARIABLES
  moves,    \* the game's clock
  here,     \* the level the hero is on
  timers,   \* per level: the queue, a sequence of [o, at]
  lights,   \* per level: how many light sources each object has there
  obj,      \* the objects
  mon,      \* the one monster that carries things: where, and where to
  running,  \* run_timers is at work
  trips,    \* changes of level so far
  fate,     \* "play", or how the process came to grief
  astray,   \* (history) objects that changed level apart from their timers
  spent     \* (history) for how many turns each object has been lit

world == <<timers, lights, obj>>
burnVars == <<moves, here, world, mon, running, trips, fate, astray, spent>>

Burnable(o) == Kind[o] # "egg"
Alive(o) == obj[o].where \notin {"unborn", "gone"}
W == [q |-> timers, ls |-> lights, ob |-> obj]
Becomes(w) == timers' = w.q /\ lights' = w.ls /\ obj' = w.ob

-----------------------------------------------------------------------------
(* Queues.                                                                 *)

InsertTimer_last(q, t) ==      \* mutant: append
  Append(q, t)

\* Before the first timer that is not earlier.
InsertTimer(q, t) ==
  LET k == CHOOSE k \in 0 .. Len(q) :
             /\ \A i \in 1 .. k : q[i].at < t.at
             /\ k < Len(q) => q[k + 1].at >= t.at
  IN  SubSeq(q, 1, k) \o <<t>> \o SubSeq(q, k + 1, Len(q))

\* The timers of the objects in S, in their order.
Sift(q, S) ==
  LET s[i \in 0 .. Len(q)] == IF i = 0 THEN <<>>
                              ELSE IF q[i].o \in S THEN Append(s[i - 1], q[i])
                              ELSE s[i - 1]
  IN  s[Len(q)]

TimersOf(q, o) == {i \in DOMAIN q : q[i].o = o}
HasTimer(q, o) == TimersOf(q, o) # {}
FirstOf(q, o) == CHOOSE i \in TimersOf(q, o) : \A j \in TimersOf(q, o) : i <= j

StartTimer(w, o, when) ==
  LET l == w.ob[o].olev
  IN  [w EXCEPT !.q[l] = InsertTimer(@, [o |-> o, at |-> moves + when]),
                !.ob[o].timed = @ + 1]

-----------------------------------------------------------------------------
(* Lights and burning.                                                     *)

NewLight(w, l, o) == [w EXCEPT !.ls[l][o] = @ + 1]

\* Nothing there to delete is only reported ("impossible").
DelLight(w, l, o) == IF w.ls[l][o] = 0 THEN w ELSE [w EXCEPT !.ls[l][o] = @ - 1]

\* Turns until the next report, or until the fuel is gone.
NextMark(age) ==
  LET below == {m \in Marks \cup {0} : m < age}
  IN  IF below = {} THEN age ELSE age - CHOOSE m \in below : \A n \in below : n <= m

BeginBurn_relit(w, lev, o, alreadyLit) ==      \* mutant: one more light each time
  IF w.ob[o].age = 0 THEN w
  ELSE LET turns == NextMark(w.ob[o].age)
           w1 == StartTimer(w, o, turns)
       IN  NewLight([w1 EXCEPT !.ob[o].lit = TRUE, !.ob[o].age = @ - turns], lev, o)

BeginBurn(w, lev, o, alreadyLit) ==
  IF w.ob[o].age = 0 THEN w
  ELSE LET turns == NextMark(w.ob[o].age)
           w1 == StartTimer(w, o, turns)
           w2 == [w1 EXCEPT !.ob[o].lit = TRUE, !.ob[o].age = @ - turns]
       IN  IF alreadyLit THEN w2 ELSE NewLight(w2, lev, o)

CleanupBurn_noFuel(w, o, at) ==      \* mutant: the unused time is lost
  IF ~w.ob[o].lit THEN w
  ELSE LET w1 == DelLight(w, w.ob[o].olev, o) IN [w1 EXCEPT !.ob[o].lit = FALSE]

\* A burn timer that is stopped darkens the light and gives the time back.
CleanupBurn(w, o, at) ==
  IF ~w.ob[o].lit THEN w
  ELSE LET w1 == DelLight(w, w.ob[o].olev, o)
       IN  [w1 EXCEPT !.ob[o].age = @ + at - moves, !.ob[o].lit = FALSE]

Cleanup(w, o, at) == IF Burnable(o) THEN CleanupBurn(w, o, at) ELSE w

StopTimer(w, o) ==
  LET l == w.ob[o].olev
      i == FirstOf(w.q[l], o)
  IN  IF HasTimer(w.q[l], o)
      THEN Cleanup([w EXCEPT !.q[l] = RemoveAt(@, i), !.ob[o].timed = @ - 1], o, w.q[l][i].at)
      ELSE w

\* All timers of o that are on the queue of o's level.
StopTimers(w, o) ==
  LET l == w.ob[o].olev
      w1 == [w EXCEPT !.q[l] = Sift(@, Obj \ {o})]
      w2 == IF HasTimer(w.q[l], o) THEN Cleanup(w1, o, w.q[l][FirstOf(w.q[l], o)].at) ELSE w1
  IN  [w2 EXCEPT !.ob[o].timed = 0]

EndBurn(w, o, timerAttached) ==
  IF ~w.ob[o].lit THEN w
  ELSE IF timerAttached THEN StopTimer(w, o)
  ELSE LET w1 == DelLight(w, w.ob[o].olev, o) IN [w1 EXCEPT !.ob[o].lit = FALSE]

\* Nothing is left of a freed object.
Freed == [where |-> "gone", olev |-> 1, lit |-> FALSE, timed |-> 0, age |-> 0]

Free(w, o) ==
  LET w1 == IF w.ob[o].timed # 0 THEN StopTimers(w, o) ELSE w
      w2 == IF w1.ob[o].lit THEN DelLight(w1, w1.ob[o].olev, o) ELSE w1
  IN  [w2 EXCEPT !.ob[o] = Freed]

-----------------------------------------------------------------------------
BurnInit ==
  /\ moves = 0 /\ here = 1 /\ running = FALSE /\ trips = 0 /\ fate = "play" /\ astray = {}
  /\ mon = [at |-> 1, to |-> 1]
  /\ spent = [o \in Obj |-> 0]
  /\ lights = [l \in Level |-> [o \in Obj |-> 0]]
  /\ obj = [o \in Obj |-> [where |-> IF o \in Unborn THEN "unborn" ELSE "floor",
                           olev |-> 1, lit |-> FALSE,
                           timed |-> IF Burnable(o) THEN 0 ELSE 1,
                           age |-> IF Burnable(o) THEN Fuel ELSE 0]]
  /\ timers = [l \in Level |->
       IF l = 1 THEN [i \in 1 .. Cardinality({o \in Obj : ~Burnable(o)}) |->
                        [o |-> SetToSeq({o \in Obj : ~Burnable(o)})[i], at |-> HatchAt]]
       ELSE <<>>]

Idle == fate = "play" /\ ~running
Near(o) == obj[o].where \in {"floor", "invent"} /\ obj[o].olev = here

\* The hero lights or snuffs something he carries.
Light(o) ==
  /\ Idle /\ Burnable(o) /\ obj[o].where = "invent" /\ ~obj[o].lit /\ obj[o].age # 0
  /\ Becomes(BeginBurn(W, here, o, FALSE))
  /\ UNCHANGED <<moves, here, mon, running, trips, fate, astray, spent>>

Snuff(o) ==
  /\ Idle /\ obj[o].where = "invent" /\ obj[o].lit
  /\ Becomes(EndBurn(W, o, TRUE))
  /\ UNCHANGED <<moves, here, mon, running, trips, fate, astray, spent>>

PickUp(o) ==
  /\ Idle /\ obj[o].where = "floor" /\ obj[o].olev = here
  /\ \/ obj' = [obj EXCEPT ![o].where = "invent"]
     \/ mon.at = here /\ obj' = [obj EXCEPT ![o].where = "minvent"]
  /\ UNCHANGED <<moves, here, timers, lights, mon, running, trips, fate, astray, spent>>

Drop(o) ==
  /\ Idle
  /\ \/ obj[o].where = "invent"
     \/ obj[o].where = "minvent" /\ mon.at = here
  /\ obj' = [obj EXCEPT ![o].where = "floor", ![o].olev = here]
  /\ UNCHANGED <<moves, here, timers, lights, mon, running, trips, fate, astray, spent>>

Split_copiesCount(o, p) ==      \* mutant: the count of timers is copied with the rest
  /\ Idle /\ Near(o) /\ Kind[o] = "candle" /\ Kind[p] = "candle" /\ obj[p].where = "unborn"
  /\ LET w0 == [W EXCEPT !.ob[p] = [obj[o] EXCEPT !.lit = FALSE]]
         at == timers[obj[o].olev][FirstOf(timers[obj[o].olev], o)].at
         w1 == IF HasTimer(timers[obj[o].olev], o) THEN StartTimer(w0, p, at - moves) ELSE w0
     IN  Becomes(IF obj[o].lit /\ lights[here][o] > 0
                 THEN NewLight([w1 EXCEPT !.ob[p].lit = TRUE], here, p) ELSE w1)
  /\ spent' = [spent EXCEPT ![p] = spent[o]]
  /\ astray' = IF o \in astray THEN astray \cup {p} ELSE astray
  /\ UNCHANGED <<moves, here, mon, running, trips, fate>>

\* A candle is taken off a stack: the copy gets timers and a light of its own.
Split(o, p) ==
  /\ Idle /\ Near(o) /\ Kind[o] = "candle" /\ Kind[p] = "candle" /\ obj[p].where = "unborn"
  /\ LET w0 == [W EXCEPT !.ob[p] = [obj[o] EXCEPT !.timed = 0, !.lit = FALSE]]
         at == timers[obj[o].olev][FirstOf(timers[obj[o].olev], o)].at
         w1 == IF obj[o].timed # 0 /\ HasTimer(timers[obj[o].olev], o)
               THEN StartTimer(w0, p, at - moves) ELSE w0
     IN  Becomes(IF obj[o].lit /\ lights[here][o] > 0
                 THEN NewLight([w1 EXCEPT !.ob[p].lit = TRUE], here, p) ELSE w1)
  /\ spent' = [spent EXCEPT ![p] = spent[o]]
  /\ astray' = IF o \in astray THEN astray \cup {p} ELSE astray
  /\ UNCHANGED <<moves, here, mon, running, trips, fate>>

Mergable(o, p) ==
  /\ Kind[o] = "candle" /\ Kind[p] = "candle" /\ o # p
  /\ Near(o) /\ Near(p) /\ obj[o].where = obj[p].where
  /\ obj[o].lit = obj[p].lit /\ obj[o].age \div Close = obj[p].age \div Close

\* Candle p joins stack o.  Unlit stacks average their ages, lit ones keep o's.
Merge(o, p) ==
  /\ Idle /\ Mergable(o, p)
  /\ \E a \in {obj[o].age, obj[p].age} :
       LET w1 == EndBurn(W, p, TRUE)
           w2 == IF w1.ob[p].timed # 0 THEN StopTimers(w1, p) ELSE w1
       IN  /\ Becomes(Free([w2 EXCEPT !.ob[o].age = IF obj[o].lit THEN @ ELSE a], p))
           /\ spent' = [spent EXCEPT ![o] = IF obj[o].lit THEN @ ELSE Fuel - a]
  /\ UNCHANGED <<moves, here, mon, running, trips, fate, astray>>

\* Eaten, broken, destroyed.
Destroy(o) ==
  /\ Idle /\ Alive(o) /\ (Near(o) \/ (obj[o].where = "minvent" /\ mon.at = here))
  /\ Becomes(Free(W, o))
  /\ UNCHANGED <<moves, here, mon, running, trips, fate, astray, spent>>

-----------------------------------------------------------------------------
(* The clock.                                                              *)

Turn ==
  /\ Idle /\ moves < MaxMoves
  /\ moves' = moves + 1 /\ running' = TRUE
  /\ spent' = [o \in Obj |-> spent[o] + IF obj[o].lit THEN 1 ELSE 0]
  /\ UNCHANGED <<here, world, mon, trips, fate, astray>>

Due == timers[here] # <<>> /\ timers[here][1].at <= moves

\* burn_object: w has the timer taken off already.
BurnObject(w, o, at) ==
  LET away == moves - at
      out == EndBurn([w EXCEPT !.ob[o].age = 0], o, FALSE)
      consumed == IF Kind[o] = "candle" THEN Free(out, o) ELSE out
  IN  IF at # moves
      THEN IF away >= w.ob[o].age THEN consumed
           ELSE BeginBurn([w EXCEPT !.ob[o].age = @ - away], here, o, TRUE)
      ELSE IF w.ob[o].age = 0 THEN consumed
           ELSE BeginBurn(w, here, o, TRUE)

\* One turn of the loop of run_timers.
RunTimer ==
  /\ fate = "play" /\ running /\ Due
  /\ LET t == timers[here][1]
         w == [W EXCEPT !.q[here] = Tail(@), !.ob[t.o].timed = @ - 1]
     IN  IF Alive(t.o)
         THEN /\ Becomes(IF Burnable(t.o) THEN BurnObject(w, t.o, t.at) ELSE Free(w, t.o))
              /\ UNCHANGED fate
         ELSE fate' = "undefined" /\ UNCHANGED world
  /\ UNCHANGED <<moves, here, mon, running, trips, astray, spent>>

RunDone ==
  /\ fate = "play" /\ running /\ ~Due
  /\ running' = FALSE
  /\ UNCHANGED <<moves, here, world, mon, trips, fate, astray, spent>>

-----------------------------------------------------------------------------
(* Changing level.                                                         *)

Attached(o) == obj[o].timed # 0 \/ obj[o].lit

\* deliver_object: the object is placed on the other level, its timers and
\* its light are not.
Fall(o, l) ==
  /\ Idle /\ Near(o) /\ l > here /\ trips < MaxTrips
  /\ obj' = [obj EXCEPT ![o].where = "floor", ![o].olev = l]
  /\ astray' = IF Attached(o) THEN astray \cup {o} ELSE astray
  /\ trips' = trips + 1
  /\ UNCHANGED <<moves, here, timers, lights, mon, running, fate, spent>>

\* migrate_to_level: the monster leaves on its own.
MonLeaves(l) ==
  /\ Idle /\ mon.at = here /\ l # here /\ trips < MaxTrips
  /\ mon' = [at |-> 0, to |-> l]
  /\ astray' = astray \cup {o \in Obj : obj[o].where = "minvent" /\ Attached(o)}
  /\ trips' = trips + 1
  /\ UNCHANGED <<moves, here, world, running, fate, spent>>

\* What obj_is_local denies, given where the monster is.
Travels(o, at) == obj[o].where = "invent" \/ (obj[o].where = "minvent" /\ at = 0)
Luggage(at) == {o \in Obj : Travels(o, at)}

\* transfer_timers: one by one to the head of the other list.
Transfer(q, at) ==
  [from |-> Sift(q, Obj \ Luggage(at)), moved |-> Reverse(Sift(q, Luggage(at)))]

\* A freed object that something still points to.
DanglingAt(l) == \E o \in Obj : ~Alive(o) /\ (HasTimer(timers[l], o) \/ lights[l][o] > 0)

GoTo(l, follows) ==
  /\ Idle /\ l # here /\ trips < MaxTrips
  /\ follows => mon.at = here
  /\ LET at == IF follows THEN 0 ELSE mon.at          \* mydogs
         x == Transfer(timers[here], at)
         arrives == at = 0 /\ (follows \/ mon.to = l)
     IN  /\ ~DanglingAt(here)
         /\ timers' = [timers EXCEPT ![here] = x.from, ![l] = x.moved \o @]
         /\ lights' = [lights EXCEPT
              ![here] = [o \in Obj |-> IF Alive(o) /\ Travels(o, at) THEN 0 ELSE @[o]],
              ![l] = [o \in Obj |-> IF Alive(o) /\ Travels(o, at) THEN @[o] + lights[here][o] ELSE @[o]]]
         /\ obj' = [o \in Obj |->
              IF \/ obj[o].where = "invent"
                 \/ obj[o].where = "minvent" /\ arrives
              THEN [obj[o] EXCEPT !.olev = l] ELSE obj[o]]
         /\ mon' = IF arrives THEN [at |-> l, to |-> l] ELSE mon
  /\ here' = l /\ running' = TRUE
  /\ trips' = trips + 1
  /\ UNCHANGED <<moves, fate, astray, spent>>

\* obj_is_local looks into an object that is no longer there.
GoToDangling ==
  /\ Idle /\ DanglingAt(here)
  /\ fate' = "undefined"
  /\ UNCHANGED <<moves, here, world, mon, running, trips, astray, spent>>

-----------------------------------------------------------------------------
(* Saving the game and restoring it from the image.                        *)

\* restore_timers, over what save_timers wrote.
Restored(q) ==
  LET r[i \in 0 .. Len(q)] == IF i = 0 THEN <<>> ELSE InsertTimer(r[i - 1], q[i])
  IN  r[Len(q)]

\* The levels are read in order: a timer whose object lies, or is carried,
\* on a level that is still unread makes relink_timers panic.
Unlinkable == \E l \in Level, o \in Obj :
  /\ HasTimer(timers[l], o)
  /\ \/ obj[o].where = "floor" /\ obj[o].olev > l
     \/ obj[o].where = "minvent" /\ mon.at > l

\* Timers and lights of what travels are written for the hero's level only.
SaveAndRestore ==
  /\ Idle
  /\ IF \E l \in Level : DanglingAt(l) THEN fate' = "undefined" /\ UNCHANGED <<world, running>>
     ELSE IF Unlinkable THEN fate' = "panic" /\ UNCHANGED <<world, running>>
     ELSE /\ timers' = [l \in Level |->
               Restored(Sift(timers[l], Obj \ Luggage(mon.at))
                        \o IF l = here THEN Sift(timers[l], Luggage(mon.at)) ELSE <<>>)]
          /\ lights' = [l \in Level |-> [o \in Obj |->
               IF Travels(o, mon.at) /\ l # here THEN 0 ELSE lights[l][o]]]
          /\ obj' = [o \in Obj |-> IF Travels(o, mon.at)
                                   THEN [obj[o] EXCEPT !.olev = here] ELSE obj[o]]
          /\ running' = TRUE                          \* "expire all timers that have gone off"
          /\ UNCHANGED fate
  /\ UNCHANGED <<moves, here, mon, trips, astray, spent>>

-----------------------------------------------------------------------------
BurnNext ==
  \/ \E o \in Obj : Light(o) \/ Snuff(o) \/ PickUp(o) \/ Drop(o) \/ Destroy(o)
  \/ \E o, p \in Obj : Split(o, p) \/ Merge(o, p)
  \/ \E o \in Obj, l \in Level : Fall(o, l)
  \/ \E l \in Level : MonLeaves(l) \/ \E f \in BOOLEAN : GoTo(l, f)
  \/ GoToDangling \/ Turn \/ RunTimer \/ RunDone \/ SaveAndRestore

BurnSpec == BurnInit /\ [][BurnNext]_burnVars

-----------------------------------------------------------------------------
(* Properties.                                                             *)

Timer == [o : Obj, at : Int]
Thing == [where : {"unborn", "gone", "floor", "invent", "minvent"}, olev : Level,
          lit : BOOLEAN, timed : Int, age : Int]

BurnTypeOK ==
  /\ moves \in 0 .. MaxMoves /\ here \in Level /\ running \in BOOLEAN
  /\ fate \in {"play", "undefined", "panic"}
  /\ mon \in [at : Level \cup {0}, to : Level]
  /\ astray \subseteq Obj /\ spent \in [Obj -> Int]
  /\ obj \in [Obj -> Thing]
  /\ timers \in [Level -> Seq(Timer)]
  /\ lights \in [Level -> [Obj -> Nat]]

Kept(o) == o \notin astray

\* The count an object keeps is the number of its timers, and all of them
\* are on the queue of the level the object says it is on: obj_move_timers
\* panics otherwise, dealloc_obj and stop_timer look nowhere else.  No timer
\* is left to an object that has been freed.
TimersCounted ==
  \A o \in Obj : Kept(o) =>
    \A l \in Level : Cardinality(TimersOf(timers[l], o)) =
                      IF Alive(o) /\ l = obj[o].olev THEN obj[o].timed ELSE 0

\* An object is lit exactly when one light source shines for it, on its level,
\* and none for an object that has been freed.
LightsMatch ==
  \A o \in Obj : Kept(o) =>
    \A l \in Level : lights[l][o] = IF Alive(o) /\ l = obj[o].olev /\ obj[o].lit THEN 1 ELSE 0

\* Fuel is neither lost nor won: what is left, what the running timer still
\* stands for and the turns the object was lit make up what it began with,
\* however often it was snuffed, split, carried between levels or left alone.
FuelKept ==
  \A o \in Obj : Burnable(o) /\ Alive(o) /\ Kept(o) =>
    LET q == timers[obj[o].olev]
    IN  IF obj[o].lit
        THEN obj[o].age + q[FirstOf(q, o)].at - moves + spent[o] = Fuel
        ELSE \/ obj[o].age + spent[o] = Fuel
             \/ obj[o].age = 0 /\ spent[o] >= Fuel

Ordered(q) == \A i, j \in DOMAIN q : i < j => q[i].at <= q[j].at

\* Only a change of level puts a queue out of order: starting, stopping,
\* splitting and running timers never do, and a restored queue is in order.
OnlyArrivalsDisorder ==
  [][\A l \in Level : Ordered(timers[l]) /\ ~Ordered(timers'[l]) => here' = l /\ here # l]_burnVars

\* "The list is ordered, we are done when the first element is in the future"
\* (run_timers): when it is done no timer on the hero's level is overdue.
NoneOverdue == Idle => \A i \in DOMAIN timers[here] : timers[here][i].at > moves
=============================================================================
