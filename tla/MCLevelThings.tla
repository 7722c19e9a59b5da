---------------------------- MODULE MCLevelThings ----------------------------
(* TLC instances of LevelThings. *)
EXTENDS LevelThings

CONSTANTS c, d, e

(* A stack of candles, one that can be split off it, and an egg. *)
MCObj == {c, d, e}
MCKind == (c :> "candle") @@ (d :> "candle") @@ (e :> "egg")
MCUnborn == {d}

(* A corridor. *)
MCBeside == {p \in Square \X Square : p[1] - p[2] \in {1, -1}}

Symmetry == Permutations(Creature)
=============================================================================
