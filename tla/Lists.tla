------------------------------- MODULE Lists -------------------------------
(***************************************************************************)
(* A list of what is shown is a filter and a slice of a list in order:     *)
(* [x for x in items if ...][:limit].                                      *)
(***************************************************************************)
EXTENDS Naturals, Sequences, FiniteSets

(* The elements of q that are in S, in their order.                        *)
Places(q, S) == {i \in 1 .. Len(q) : q[i] \in S}
Rank(I, i)   == Cardinality({j \in I : j <= i})
Keep(q, S)   ==
  LET I == Places(q, S)
  IN [k \in 1 .. Cardinality(I) |-> q[CHOOSE i \in I : Rank(I, i) = k]]

(* The first n of them.                                                    *)
Cut(q, n) == SubSeq(q, 1, IF Len(q) < n THEN Len(q) ELSE n)
=============================================================================
