------------------------------ MODULE Receipts ------------------------------
(***************************************************************************)
(* What checkout promises, without requests, locks or QR codes: money (or  *)
(* an operator's approval) comes in for an intent, and the intent yields   *)
(* one receipt, once, only afterwards, for good.  Several receipts may be  *)
(* issued in one step, as one transaction may settle several intents.      *)
(***************************************************************************)
EXTENDS Naturals

CONSTANT Intents

VARIABLES
  due,       \* intents paid for or approved
  receipts   \* receipts issued per intent

Init == due = {} /\ receipts = [i \in Intents |-> 0]

Collect(D) == due' = due \cup D /\ UNCHANGED receipts

(* An approval is committed together with the receipt it justifies, so the *)
(* step that issues may collect as well.                                   *)
Issue(D, S) ==
  /\ due' = due \cup D
  /\ S \subseteq due' /\ \A i \in S : receipts[i] = 0
  /\ receipts' = [i \in Intents |-> IF i \in S THEN 1 ELSE receipts[i]]

Next ==
  \/ \E D \in SUBSET Intents : Collect(D)
  \/ \E D, S \in SUBSET Intents : Issue(D, S)

Spec == Init /\ [][Next]_<<due, receipts>>
=============================================================================
