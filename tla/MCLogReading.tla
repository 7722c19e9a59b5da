---------------------------- MODULE MCLogReading ----------------------------
(* TLC instances of LogReading: a count field of six values stands for the 2^14
   of the code, so that a short save fills a run (5) and splits a seek (2). *)
EXTENDS LogReading

MCTags == {"level", "mon"}

Patterns == {[i \in 1..MaxLen |-> IF i \in ones THEN 1 ELSE 0] :
               ones \in {{}, {2, 4, 5}, {4, 6, 7}}}

(* Saves with two sections, one section, none; shorter than what follows, and
   as long. *)
MCParents ==
  {[buf |-> p, pos |-> n, tags |-> [t \in MCTags |-> IF t = "level" THEN i ELSE j]] :
     p \in Patterns, n \in {MaxLen - 1, MaxLen}, i \in {0, MaxLen - 1}, j \in {NoTag, 2, 3}}
    \cup {[buf |-> [i \in 1..MaxLen |-> 0], pos |-> 0, tags |-> [t \in MCTags |-> NoTag]]}
=============================================================================
