------------------------------ MODULE StableSort ------------------------------
(***************************************************************************)
(* Array.prototype.sort as the pages use it: stable, by a comparator that  *)
(* is a strict weak order on the elements.  Elements go in one at a time,  *)
(* each behind everything it does not have to precede.                     *)
(***************************************************************************)
EXTENDS Naturals, Sequences, FiniteSets, SequencesExt

Sorted(s, Before(_, _)) ==
  LET Place(done, x) ==
        InsertAt(done, 1 + Cardinality({i \in DOMAIN done : ~Before(x, done[i])}), x)
  IN  FoldLeft(Place, <<>>, s)

\* slice(0, n)
Take(s, n) == SubSeq(s, 1, IF n < Len(s) THEN n ELSE Len(s))

\* map over an array
Mapped(s, F(_)) == [i \in DOMAIN s |-> F(s[i])]

=============================================================================
