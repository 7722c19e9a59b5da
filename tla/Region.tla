------------------------------- MODULE Region -------------------------------
(***************************************************************************)
(* Gas clouds (region.c): regions of a level with the monsters thought to  *)
(* be inside, moved into and out of, and aged once per turn by run_regions *)
(* whose loops remove regions and monsters from the arrays they walk; and  *)
(* the cloud Cthulhu leaves when he dies, out of which he comes back.      *)
(***************************************************************************)
EXTENDS Integers, Sequences, FiniteSets, SequencesExt

CONSTANTS
  Mon,        \* monsters
  Cell,       \* places on the map
  Shape,      \* the sets of cells a cloud may cover
  Ttl,        \* how long a cloud may be set to last
  Damage,     \* how thick it may be
  Cthulhu,    \* one of them
  LongWorm,   \* those with a tail
  MaxClouds,  \* bound on the clouds ever made
  MaxList     \* bound on the length of a monster list

ASSUME RegionAssumption ==
  /\ IsFiniteSet(Mon) /\ Cthulhu \in Mon /\ LongWorm \subseteq Mon \ {Cthulhu}
  /\ 0 \notin Cell /\ Shape \subseteq SUBSET Cell
  /\ Ttl \subseteq Nat \ {0} /\ Damage \subseteq Nat \ {0}
  /\ MaxClouds \in Nat /\ MaxList \in Nat

VARIABLES
  regions,   \* the array lev->regions
  hero,      \* where the hero is
  place,     \* where each monster is, if it is on the level
  loop,      \* where run_regions stands
  clouds,    \* clouds made so far
  owed,      \* Cthulhu is dead and is to come back
  hit,       \* (history) monsters the cloud has been applied to in this pass
  misplaced, \* (history) the hero is not where the regions were told he goes
  dispersed  \* (history) a restore has removed a cloud that had just run out

Nowhere == 0
alive == {m \in Mon : place[m] # Nowhere}   \* the monsters on the level

regionVars == <<regions, hero, place, loop, clouds, owed, hit, misplaced, dispersed>>

\* reviver: its expire_f is revive_cthulhu.  History: doubled, the monsters
\* entered while they were listed, and stray, the others whose last coming or
\* going the region was told wrongly, or not at all.
Cloud(cells, ttl, dmg, mons, inside, reviver, stray, doubled) ==
  [cells |-> cells, ttl |-> ttl, dmg |-> dmg, mons |-> mons, hero |-> inside,
   reviver |-> reviver, stray |-> stray, doubled |-> doubled]

AnyCloud ==
  [cells : Shape, ttl : Nat, dmg : Nat \ {0}, mons : Seq(Mon), hero : BOOLEAN,
   reviver : BOOLEAN, stray : SUBSET Mon, doubled : SUBSET Mon]

Playing == loop.at = "play"
Listed(r, m) == \E k \in DOMAIN r.mons : r.mons[k] = m

\* Bound on the lists of monsters.
RoomOnLists == \A i \in DOMAIN regions' : Len(regions'[i].mons) <= MaxList

-----------------------------------------------------------------------------
(* Creating and removing regions.                                          *)

\* The segments that lie inside a new cloud, wherever their heads are, as the
\* worms they belong to.
Segments(there) == SeqOf(LongWorm \cap there, MaxList)

\* add_region asks the map: whoever stands inside is entered, and a long worm
\* once for each of its segments, too.
NewCloud(cells, ttl, dmg, there, segs, reviver) ==
  LET heads == {m \in there : place[m] \in cells}
      again == {m \in ToSet(segs) : m \in heads \/ \E j, k \in DOMAIN segs :
                                                    j # k /\ segs[j] = m /\ segs[k] = m}
  IN  Cloud(cells, ttl, dmg, SetToSeq(heads) \o segs, hero \in cells, reviver,
            ToSet(segs) \ again, again)

CreateCloud(cells, ttl, dmg) ==
  /\ Playing /\ clouds < MaxClouds
  /\ \E segs \in Segments(alive) :
       regions' = Append(regions, NewCloud(cells, ttl, dmg, alive, segs, FALSE))
  /\ RoomOnLists
  /\ clouds' = clouds + 1
  /\ UNCHANGED <<hero, place, loop, owed, hit, misplaced, dispersed>>

\* The last element takes the place of the one removed.
SwapRemove(s, i) == SubSeq([s EXCEPT ![i] = s[Len(s)]], 1, Len(s) - 1)

-----------------------------------------------------------------------------
(* The hero.                                                               *)

\* in_out_region: leave, then enter.
InOut(r, p) ==
  LET left == IF r.hero /\ p \notin r.cells THEN [r EXCEPT !.hero = FALSE] ELSE r
  IN  IF ~left.hero /\ p \in left.cells THEN [left EXCEPT !.hero = TRUE] ELSE left

AllInOut(p) == regions' = [i \in DOMAIN regions |-> InOut(regions[i], p)]

HeroMoves(p) ==
  /\ Playing /\ p # hero
  /\ hero' = p /\ misplaced' = FALSE
  /\ AllInOut(p)
  /\ UNCHANGED <<place, loop, clouds, owed, hit, dispersed>>

\* The regions are told of the step before it is known to succeed: the pet on
\* the other square may not fit through (domove), the flight may end at a wall
\* or be over already (hurtle_step).
HeroStopped(p) ==
  /\ Playing /\ p # hero
  /\ AllInOut(p) /\ misplaced' = TRUE
  /\ UNCHANGED <<hero, place, loop, clouds, owed, hit, dispersed>>

\* update_player_regions, after a teleport.
HeroTeleports(p) ==
  /\ Playing
  /\ hero' = p /\ misplaced' = FALSE
  /\ regions' = [i \in DOMAIN regions |-> [regions[i] EXCEPT !.hero = p \in regions[i].cells]]
  /\ UNCHANGED <<place, loop, clouds, owed, hit, dispersed>>

\* An engulfer takes the hero along; only his coordinates change.
HeroCarried(p) ==
  /\ Playing /\ p # hero
  /\ hero' = p /\ misplaced' = TRUE
  /\ UNCHANGED <<regions, place, loop, clouds, owed, hit, dispersed>>

-----------------------------------------------------------------------------
(* Monsters.                                                               *)

\* One entry is taken off; who has no other is no longer entered twice.
Strike(r, k) ==
  LET rest == SwapRemove(r.mons, k)
  IN  [r EXCEPT !.mons = rest, !.doubled = {m \in @ : m # r.mons[k] \/ m \in ToSet(rest)}]

\* remove_mon_from_reg
TakeOff(r, m) ==
  Strike(r, CHOOSE k \in DOMAIN r.mons :
              r.mons[k] = m /\ \A j \in DOMAIN r.mons : r.mons[j] = m => k <= j)

PutOn(r, m) ==
  [r EXCEPT !.mons = Append(@, m), !.doubled = IF Listed(r, m) THEN @ \cup {m} ELSE @]

Lose(r, m) == [r EXCEPT !.stray = @ \cup ({m} \ r.doubled)]
Told(r, m) == [r EXCEPT !.stray = @ \ {m}]

MonInOut_neverOut(r, m, p) ==      \* mutant: the monster that leaves stays listed
  IF ~r.hero /\ p \in r.cells /\ ~Listed(r, m) THEN PutOn(r, m) ELSE r

\* m_in_out_region: whoever is listed and steps outside is taken off; then
\* everyone who steps inside is put on unless the HERO is inside.
MonInOut(r, m, p) ==
  LET told == Told(r, m)
  IN  IF p \notin r.cells THEN IF Listed(r, m) THEN TakeOff(told, m) ELSE told
      ELSE IF ~r.hero THEN PutOn(told, m)
      ELSE IF Listed(r, m) THEN told
      ELSE Lose(r, m)


\* The pet that turns to its weapon instead, or is moved back from where it
\* was going (dog_move), ends up elsewhere than the regions were told: at q.
MonMoves(m, p, q) ==
  /\ Playing /\ m \in alive /\ p # place[m]
  /\ place' = [place EXCEPT ![m] = q]
  /\ regions' = [i \in DOMAIN regions |->
       LET r == MonInOut(regions[i], m, p) IN IF p = q THEN r ELSE Lose(r, m)]
  /\ RoomOnLists
  /\ UNCHANGED <<hero, loop, clouds, owed, hit, misplaced, dispersed>>

\* The hero changes places with his pet: nobody tells the regions about it.
HeroSwaps(m) ==
  /\ Playing /\ m \in alive \ {Cthulhu} /\ place[m] # hero
  /\ regions' = [i \in DOMAIN regions |-> Lose(InOut(regions[i], place[m]), m)]
  /\ hero' = place[m] /\ place' = [place EXCEPT ![m] = hero] /\ misplaced' = FALSE
  /\ UNCHANGED <<loop, clouds, owed, hit, dispersed>>

\* update_monster_region, after a teleport or an arrival on the level.
UpdateMonster(r, m, p) ==
  LET told == Told(r, m)
  IN  IF p \in r.cells THEN IF Listed(r, m) THEN told ELSE PutOn(told, m)
      ELSE IF Listed(r, m) THEN TakeOff(told, m) ELSE told

MonArrives(m, p) ==
  /\ Playing
  /\ m = Cthulhu => ~owed
  /\ place' = [place EXCEPT ![m] = p]
  /\ regions' = [i \in DOMAIN regions |-> UpdateMonster(regions[i], m, p)]
  /\ RoomOnLists
  /\ UNCHANGED <<hero, loop, clouds, owed, hit, misplaced, dispersed>>

\* makemon places a monster without asking the regions; its id is a new one,
\* and what happened to another of that name is past.
New(m) == m \notin alive /\ \A i \in DOMAIN regions : ~Listed(regions[i], m)
Unnoticed(rs, m, p) ==
  [i \in DOMAIN rs |->
     LET r == [Told(rs[i], m) EXCEPT !.doubled = @ \ {m}]
     IN  IF p \in r.cells THEN Lose(r, m) ELSE r]

MonBorn(m, p) ==
  /\ Playing /\ New(m) /\ m # Cthulhu
  /\ place' = [place EXCEPT ![m] = p]
  /\ regions' = Unnoticed(regions, m, p)
  /\ UNCHANGED <<hero, loop, clouds, owed, hit, misplaced, dispersed>>

\* It dies or leaves the level; the lists are not told.
MonGone(m) ==
  /\ Playing /\ m \in alive
  /\ place' = [place EXCEPT ![m] = Nowhere]
  /\ UNCHANGED <<regions, hero, loop, clouds, owed, hit, misplaced, dispersed>>

\* cthulhu_dies: he deliquesces into a cloud.
CthulhuDies(cells, ttl, dmg) ==
  /\ Playing /\ Cthulhu \in alive /\ place[Cthulhu] \in cells /\ clouds < MaxClouds
  /\ place' = [place EXCEPT ![Cthulhu] = Nowhere] /\ owed' = TRUE
  /\ \E segs \in Segments(alive \ {Cthulhu}) :
       regions' = Append(regions, NewCloud(cells, ttl, dmg, alive \ {Cthulhu}, segs, TRUE))
  /\ RoomOnLists
  /\ clouds' = clouds + 1
  /\ UNCHANGED <<hero, loop, hit, misplaced, dispersed>>

-----------------------------------------------------------------------------
(* run_regions.                                                            *)

At(where, i, j) == [at |-> where, i |-> i, j |-> j]

RunRegions ==
  /\ Playing
  /\ loop' = At("expire", Len(regions), 0)
  /\ UNCHANGED <<regions, hero, place, clouds, owed, hit, misplaced, dispersed>>

\* expire_gas_cloud: a thick cloud thins out first.
Thin_sameDamage(r) == [r EXCEPT !.ttl = 2]      \* mutant: it stays thick
Thin_plain(r) ==      \* mutant: an ordinary cloud takes its place
  [r EXCEPT !.dmg = @ \div 2, !.ttl = 2, !.reviver = FALSE]
Thin(r) == [r EXCEPT !.dmg = @ \div 2, !.ttl = 2]
Thick(r) == r.dmg >= 5

Revives(r) == r.reviver /\ ~Thick(r)

\* makemon may find no room for him, or find him genocided.
Back(rs) ==
  \/ \E p \in Cell : /\ place' = [place EXCEPT ![Cthulhu] = p]
                     /\ regions' = Unnoticed(rs, Cthulhu, p)
  \/ UNCHANGED place /\ regions' = rs

\* Backward, for remove_region moves the last region into the hole.
Expire ==
  /\ loop.at = "expire" /\ loop.i > 0
  /\ LET i == loop.i IN
     /\ IF regions[i].ttl # 0 THEN UNCHANGED <<regions, place, owed>>
        ELSE IF Revives(regions[i])
        THEN owed' = FALSE /\ Back(SwapRemove(regions, i))
        ELSE /\ regions' = IF Thick(regions[i]) THEN [regions EXCEPT ![i] = Thin(@)]
                           ELSE SwapRemove(regions, i)
             /\ UNCHANGED <<place, owed>>
     /\ loop' = At("expire", i - 1, 0)
  /\ UNCHANGED <<hero, clouds, hit, misplaced, dispersed>>

ExpireDone ==
  /\ loop.at = "expire" /\ loop.i = 0
  /\ loop' = At("age", 1, 0)
  /\ UNCHANGED <<regions, hero, place, clouds, owed, hit, misplaced, dispersed>>

\* The region ages, then its monsters are gone through.
Age ==
  /\ loop.at = "age" /\ loop.i <= Len(regions)
  /\ loop' = At("mons", loop.i, 1)
  /\ regions' = IF regions[loop.i].ttl > 0
                THEN [regions EXCEPT ![loop.i].ttl = @ - 1] ELSE regions
  /\ UNCHANGED <<hero, place, clouds, owed, hit, misplaced, dispersed>>

AgeDone ==
  /\ loop.at = "age" /\ loop.i > Len(regions)
  /\ loop' = At("play", 0, 0)
  /\ UNCHANGED <<regions, hero, place, clouds, owed, hit, misplaced, dispersed>>

NextRegion ==
  /\ loop.at = "mons" /\ loop.j > Len(regions[loop.i].mons)
  /\ loop' = At("age", loop.i + 1, 0) /\ hit' = {}
  /\ UNCHANGED <<regions, hero, place, clouds, owed, misplaced, dispersed>>

Breathing == loop.at = "mons" /\ loop.j <= Len(regions[loop.i].mons)
Breather == regions[loop.i].mons[loop.j]

\* Slot j is filled with the last one and looked at again.
DropSlot_skip ==      \* mutant: the monster that filled the slot is passed over
  /\ regions' = [regions EXCEPT ![loop.i] = Strike(@, loop.j)]
  /\ loop' = [loop EXCEPT !.j = @ + 1]
DropSlot ==
  /\ regions' = [regions EXCEPT ![loop.i] = Strike(@, loop.j)]
  /\ UNCHANGED loop

Absent ==
  /\ Breathing /\ Breather \notin alive /\ DropSlot
  /\ UNCHANGED <<hero, place, clouds, owed, hit, misplaced, dispersed>>

Survives ==
  /\ Breathing /\ Breather \in alive
  /\ hit' = hit \cup {Breather}
  /\ loop' = [loop EXCEPT !.j = @ + 1]
  /\ UNCHANGED <<regions, hero, place, clouds, owed, misplaced, dispersed>>

\* The cloud kills it.  Cthulhu does not breathe.
Chokes ==
  /\ Breathing /\ Breather \in alive \ {Cthulhu} /\ DropSlot
  /\ place' = [place EXCEPT ![Breather] = Nowhere]
  /\ UNCHANGED <<hero, clouds, owed, hit, misplaced, dispersed>>

-----------------------------------------------------------------------------
(* Saving and restoring.  No turn passes in between, but rest_regions      *)
(* removes what has no time left without asking whether it has expired,    *)
(* and the others change places.                                           *)

Lasting == {i \in DOMAIN regions : regions[i].ttl # 0}

RestoreRegions ==
  /\ Playing
  /\ \E slot \in Bijection(1 .. Cardinality(Lasting), Lasting) :
       regions' = [i \in 1 .. Cardinality(Lasting) |-> regions[slot[i]]]
  /\ dispersed' = (dispersed \/ Lasting # DOMAIN regions)
  /\ UNCHANGED <<hero, place, loop, clouds, owed, hit, misplaced>>

-----------------------------------------------------------------------------
RegionInit ==
  /\ regions = <<>> /\ hero \in Cell /\ place \in [Mon -> Cell]
  /\ loop = At("play", 0, 0) /\ clouds = 0 /\ owed = FALSE
  /\ hit = {} /\ misplaced = FALSE /\ dispersed = FALSE

RegionStep ==
  Expire \/ ExpireDone \/ Age \/ AgeDone \/ NextRegion \/ Absent \/ Survives \/ Chokes

RegionNext ==
  \/ \E c \in Shape, t \in Ttl, d \in Damage : CreateCloud(c, t, d) \/ CthulhuDies(c, t, d)
  \/ \E p \in Cell : HeroMoves(p) \/ HeroStopped(p) \/ HeroTeleports(p) \/ HeroCarried(p)
  \/ \E m \in Mon, p, q \in Cell : MonMoves(m, p, q)
  \/ \E m \in Mon, p \in Cell : MonArrives(m, p) \/ MonBorn(m, p)
  \/ \E m \in Mon : HeroSwaps(m) \/ MonGone(m)
  \/ RunRegions \/ RegionStep \/ RestoreRegions

\* moveloop calls run_regions every turn, and run_regions runs to its end.
RegionFairness == WF_regionVars(RunRegions) /\ WF_regionVars(RegionStep)

RegionSpec == RegionInit /\ [][RegionNext]_regionVars
RegionFairSpec == RegionSpec /\ RegionFairness

-----------------------------------------------------------------------------
(* Properties.                                                             *)

RegionTypeOK ==
  /\ hero \in Cell /\ place \in [Mon -> Cell \cup {Nowhere}]
  /\ clouds \in 0 .. MaxClouds /\ hit \subseteq Mon
  /\ owed \in BOOLEAN /\ misplaced \in BOOLEAN /\ dispersed \in BOOLEAN
  /\ regions \in Seq(AnyCloud)
  /\ \/ loop = At("play", 0, 0)
     \/ loop.at = "expire" /\ loop.i \in 0 .. Len(regions)
     \/ loop.at = "age" /\ loop.i \in 1 .. Len(regions) + 1
     \/ loop.at = "mons" /\ loop.i \in 1 .. Len(regions)
        /\ loop.j \in 1 .. Len(regions[loop.i].mons) + 1

\* What a region knows is right as far as it was told.  The hero is known to
\* be inside exactly when he is, unless he did not go where the regions were
\* told or went without telling them.  No monster is listed twice but one that
\* was entered while it was listed; any other is listed exactly when it is
\* inside, whatever the region once took it for, as soon as its last step or
\* flight was told rightly, and a newcomer from the start.  Entered twice it is
\* so again once its last entry has been struck.
RegionsKnow ==
  \A i \in DOMAIN regions :
    /\ ~misplaced => (regions[i].hero <=> hero \in regions[i].cells)
    /\ \A m \in alive \ regions[i].doubled :
         LET entries == {k \in DOMAIN regions[i].mons : regions[i].mons[k] = m} IN
         /\ Cardinality(entries) <= 1
         /\ m \notin regions[i].stray => (entries # {} <=> place[m] \in regions[i].cells)

\* run_regions skips nobody although slots are refilled under its loops: the
\* slots behind the inner one hold monsters the cloud was applied to in this
\* pass, and the first loop leaves no cloud behind that has outlived its time.
WalkIsWhole ==
  /\ loop.at = "mons" => \A k \in DOMAIN regions[loop.i].mons :
                            k < loop.j => regions[loop.i].mons[k] \in hit
  /\ loop.at = "age" => \A k \in loop.i .. Len(regions) : regions[k].ttl > 0

\* Cthulhu's time comes: while he is owed his return there is a cloud he will
\* return from, unless a restore has dispersed it.
CthulhuAwaited ==
  owed /\ ~dispersed => \E i \in DOMAIN regions : regions[i].reviver

\* "Cthulhu comes back...": "You can't get rid of the True Final Boss so
\* easily!"  The same without the reservation.
CthulhuComesBack == owed => \E i \in DOMAIN regions : regions[i].reviver

\* Every cloud disperses: thick ones are renewed, but thinner each time.
CloudsPass == <>[](regions = <<>>)
=============================================================================
