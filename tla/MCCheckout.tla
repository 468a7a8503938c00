----------------------------- MODULE MCCheckout -----------------------------
(* Small instances of Checkout: who owns which intent, and for what.       *)
EXTENDS Checkout, TLC

CONSTANTS i1, i2, u1, m1, s1, p1, r1, r2, r3

Symmetry == Permutations({r1, r2, r3})

\* one intent of an account, for a movie
OneBuyer == i1 :> u1
OneMovie == i1 :> m1

\* two intents of one account
UserBuyer  == [i \in {i1, i2} |-> u1]

\* two checkouts of a movie; a series and a plan
MovieTwice == [i \in {i1, i2} |-> m1]
SeriesPlan == (i1 :> s1) @@ (i2 :> p1)
=============================================================================
