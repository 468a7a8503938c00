------------------------------- MODULE Parts -------------------------------
(***************************************************************************)
(* Several independent state machines in one run: `part` says which one    *)
(* this behaviour runs, and the run explores the sum of their states, not  *)
(* the product.  A machine of n variables takes the first n slots as its   *)
(* variables (INSTANCE ... WITH); Offn leaves the other slots empty.      *)
(***************************************************************************)
CONSTANT None
VARIABLES part, s1, s2, s3, s4, s5, s6, s7, s8, s9, s10, s11, s12, s13, s14, s15

vars == <<part, s1, s2, s3, s4, s5, s6, s7, s8, s9, s10, s11, s12, s13, s14, s15>>

Off14 == s15 = None
Off13 == s14 = None /\ Off14
Off12 == s13 = None /\ Off13
Off11 == s12 = None /\ Off12
Off10 == s11 = None /\ Off11
Off9 == s10 = None /\ Off10
Off8 == s9 = None /\ Off9
Off7 == s8 = None /\ Off8
Off6 == s7 = None /\ Off7
Off5 == s6 = None /\ Off6
Off4 == s5 = None /\ Off5
Off3 == s4 = None /\ Off4

Rest14 == <<part, s15>>
Rest13 == <<s14, Rest14>>
Rest12 == <<s13, Rest13>>
Rest11 == <<s12, Rest12>>
Rest10 == <<s11, Rest11>>
Rest9 == <<s10, Rest10>>
Rest8 == <<s9, Rest9>>
Rest7 == <<s8, Rest8>>
Rest6 == <<s7, Rest7>>
Rest5 == <<s6, Rest6>>
Rest4 == <<s5, Rest5>>
Rest3 == <<s4, Rest4>>
=============================================================================
