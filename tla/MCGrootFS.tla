------------------------------ MODULE MCGrootFS ------------------------------
(***************************************************************************)
(* GrootFS for TLC: two layers, a base image made of the lower one and a   *)
(* base image made of both.                                                *)
(***************************************************************************)
EXTENDS GrootFS, TLC

CONSTANTS c1, c2

MCChain == {c1, c2}
MCImage == {<<c1>>, <<c1, c2>>}

Commands(n) ==
  [ops |-> n, fails |-> 0, crashes |-> 0, timeouts |-> 0, creates |-> 2, sameId |-> FALSE, images |-> MCImage]
WithSameId(n) == [Commands(n) EXCEPT !.sameId = TRUE]

TwoWithSameId == {WithSameId(2)}
FourCommands == {Commands(4), WithSameId(3)}
OneTimeout == {[Commands(4) EXCEPT !.timeouts = 1]}

\* Any two calls of three commands fail; or a command is killed and a clean cut
\* short, and others come after them.
Faults ==
  {[Commands(3) EXCEPT !.fails = 2, !.images = {<<c1, c2>>}],
   [Commands(5) EXCEPT !.crashes = 1, !.timeouts = 1, !.creates = 1, !.images = {<<c1>>}]}

\* Neither the slots a command of one kind runs in nor the ids differ.
Symmetry == Permutations(Cleaners) \cup Permutations(Creators) \cup Permutations(Id)
==============================================================================
