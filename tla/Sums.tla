-------------------------------- MODULE Sums --------------------------------
(***************************************************************************)
(* The sum of the values of a function into the naturals, counted in units *)
(* so that what is known of finite sets can be used to reason about it.    *)
(***************************************************************************)
EXTENDS Naturals, FiniteSets

\* One unit for each x and each number up to f[x].
Units(f) == UNION {{x} \X (1 .. f[x]) : x \in DOMAIN f}

SumOf(f) == Cardinality(Units(f))

\* The pairs of an index of a sequence (or function) of functions and an
\* index of the function found there.
Pairs(ff) == UNION {{i} \X DOMAIN ff[i] : i \in DOMAIN ff}

=============================================================================
