-------------------------- MODULE MCUserFunctions --------------------------
(* Instances of UserFunctions for TLC: "any" takes any number of arguments, *)
(* "one" takes one; f and F differ in case only.                            *)
EXTENDS UserFunctions, TLC

CONSTANTS any, one, f, F, g

Lengths == any :> 0 @@ one :> 1

LowerCase == f :> "f" @@ F :> "f" @@ g :> "g"

\* Queries, and the two spellings of a name, are interchangeable.
Symmetry == Permutations(Queries) \cup Permutations({f, F})
=============================================================================
