----------------------------- MODULE MC_Searcher -----------------------------
(***************************************************************************)
(* Values for the constants of Searcher: two trees with a repository       *)
(* directory that holds a regular file.  The large one has more files than *)
(* there are descriptors.                                                  *)
(***************************************************************************)
EXTENDS Searcher, TLC

CONSTANTS f1, f2, f3, f4, f5, git, head, w1, w2

TwoWorkers == {w1, w2}
Vcses == {git}

Plain == {f1, f2, f3, f4, f5}
BigTree == Plain \cup {git, head}
BigRegular == BigTree \ {git}
BigBelow == [e \in BigTree |-> IF e = git THEN {head} ELSE {}]

SmallTree == {f1, f2, git, head}
SmallRegular == SmallTree \ {git}
SmallBelow == [e \in SmallTree |-> IF e = git THEN {head} ELSE {}]

Symmetric == Permutations(TwoWorkers) \cup Permutations(Plain)
===============================================================================
