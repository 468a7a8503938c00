--------------------------- MODULE AccountsProofs ---------------------------
(***************************************************************************)
(* TV codes, what was bought, paid periods, live channels, the playlists of*)
(* titles and channels, the home page and what lists show, proved for any  *)
(* value of their constants; then the theorems about these, sign-in codes, *)
(* identities, TV boxes and a guest's checkout for the composition of them.*)
(***************************************************************************)
EXTENDS MCAccounts, Integers, Sequences, FiniteSetTheorems, WellFoundedInduction, TLAPS

-----------------------------------------------------------------------------
(* TV codes. Here s1 to s6 are now, code, user, sub, subBy and req.        *)
LEMMA TvInit == ASSUME Tv!TvConstants, Tv!Init PROVE Tv!IInv
  BY DEF Tv!Init, Tv!IInv, Tv!TypeOK, Tv!TvConstants, Tv!ShutOut, Tv!NoCode, Tv!Rest

LEMMA TvNext == ASSUME Tv!TvConstants, Tv!IInv, [Tv!Next]_(Tv!vars) PROVE Tv!IInv'
<1> USE DEF Tv!NoCode, Tv!Rest
<1>t. Tv!TypeOK /\ TvSets \cap TvAdmins = {} /\ Tv!Times \subseteq Nat
  BY DEF Tv!IInv, Tv!TvConstants, Tv!Times
<1>1. CASE UNCHANGED Tv!vars BY <1>1 DEF Tv!vars, Tv!IInv, Tv!TypeOK, Tv!ShutOut
<1>2. CASE Tv!Tick BY <1>2 DEF Tv!Tick, Tv!IInv, Tv!TypeOK, Tv!ShutOut
<1>3. ASSUME NEW e \in Tv!Times, NEW on \in BOOLEAN, Tv!Create(e, on) PROVE Tv!IInv'
  BY <1>t, <1>3 DEF Tv!Create, Tv!IInv, Tv!TypeOK, Tv!ShutOut
<1>4. ASSUME NEW r \in TvAdmins, Tv!Delete(r) PROVE Tv!IInv'
  BY <1>t, <1>4 DEF Tv!Delete, Tv!IInv, Tv!TypeOK, Tv!ShutOut, Tv!TvConstants
<1>5. ASSUME NEW r \in TvAdmins, Tv!CommitPatch(r) PROVE Tv!IInv'
  BY <1>t, <1>5 DEF Tv!CommitPatch, Tv!FollowUser, Tv!New, Tv!IInv, Tv!TypeOK, Tv!ShutOut,
     Tv!TvConstants
<1>6. ASSUME NEW r \in TvAdmins, NEW e \in Tv!Times \cup {None},
                 NEW on \in BOOLEAN \cup {None}, Tv!ReadPatch(r, e, on) PROVE Tv!IInv'
  <2>1. e \in Nat \cup {None} BY <1>t
  <2>2. Tv!TypeOK' BY <1>t, <1>6, <2>1 DEF Tv!ReadPatch, Tv!TypeOK
  <2> QED BY <1>t, <1>6, <2>2 DEF Tv!ReadPatch, Tv!IInv, Tv!TypeOK, Tv!ShutOut,
    Tv!TvConstants
<1>7. ASSUME NEW r \in TvSets, Tv!ReadLogin(r) PROVE Tv!IInv'
  BY <1>t, <1>7 DEF Tv!ReadLogin, Tv!IInv, Tv!TypeOK, Tv!ShutOut, Tv!TvConstants
<1>8. ASSUME NEW r \in TvSets, Tv!CommitLogin(r) PROVE Tv!IInv'
  BY <1>t, <1>8 DEF Tv!CommitLogin, Tv!IInv, Tv!TypeOK, Tv!ShutOut, Tv!TvConstants
<1>9. ASSUME NEW r \in TvSets \cup TvAdmins, Tv!TakeSub(r) PROVE Tv!IInv'
  BY <1>t, <1>9 DEF Tv!TakeSub, Tv!IInv, Tv!TypeOK, Tv!ShutOut, Tv!TvConstants
<1>10. ASSUME NEW r \in TvSets \cup TvAdmins, Tv!Abort(r) PROVE Tv!IInv'
  BY <1>t, <1>10 DEF Tv!Abort, Tv!IInv, Tv!TypeOK, Tv!ShutOut, Tv!TvConstants
<1> QED BY <1>1, <1>2, <1>3, <1>4, <1>5, <1>6, <1>7, <1>8, <1>9, <1>10 DEF Tv!Next

(* A set whose sign-in was checked is let in by a code that is on.         *)
LEMMA TvOff == ASSUME Tv!IInv PROVE Tv!DisabledLocksOut
  BY DEF Tv!IInv, Tv!DisabledLocksOut, Tv!Entitled, Tv!ShutOut

-----------------------------------------------------------------------------
(* What was bought. Here s1 to s9 are published, freeToday, subscribed,    *)
(* intent, receipt, intentLock, receiptLock, cookie and req.               *)
LEMMA BoughtInit == ASSUME Bought!AccessConstants, Bought!Init PROVE Bought!IInv
  BY DEF Bought!Init, Bought!IInv, Bought!TypeOK, Bought!ReqType, Bought!Settling,
     Bought!Claims, Bought!Claiming, Bought!Rest, Bought!AccessConstants, Bought!People

(* A step of one request that writes neither table and takes no lock of    *)
(* another's.                                                              *)
LEMMA SameTables ==
  ASSUME Bought!AccessConstants, Bought!IInv, NEW r \in BoughtRequests, Bought!TypeOK',
             UNCHANGED Bought!tables,
         \A q \in BoughtRequests \ {r} : s9'[q] = s9[q],
         \A i \in BoughtIntents, q \in BoughtRequests \ {r} : s6[i] = q => s6'[i] = q,
         Bought!Settling(r)', Bought!Claims(r)'
  PROVE  Bought!IInv'
<1>1. UNCHANGED <<s4, s5>> BY DEF Bought!tables
<1>2. ASSUME NEW q \in BoughtRequests \ {r} PROVE Bought!Settling(q)' /\ Bought!Claims(q)'
  <2>1. s9'[q] = s9[q] OBVIOUS
  <2>2. Bought!Settling(q) /\ Bought!Claims(q) BY DEF Bought!IInv
  <2>3. Bought!Settling(q)' BY <1>1, <2>1, <2>2 DEF Bought!Settling
  <2>4. Bought!Claims(q)'
    BY <1>1, <2>1, <2>2 DEF Bought!Claims, Bought!Kept, Bought!WillMove
  <2> QED BY <2>3, <2>4
<1> QED BY <1>1, <1>2 DEF Bought!IInv

LEMMA ClaimStarts ==
  ASSUME Bought!AccessConstants, Bought!IInv, NEW r \in BoughtRequests,
             NEW a \in BoughtAccounts, Bought!StartClaim(r, a)
  PROVE  Bought!IInv'
<1>t. Bought!TypeOK BY DEF Bought!IInv
<1> DEFINE h == {t \in Bought!Titles : Bought!Bought(guest, t)}
           x == [Bought!Rest EXCEPT !.at = "movies", !.who = a, !.had = h]
<1>1. s9' = [s9 EXCEPT ![r] = x] BY DEF Bought!StartClaim
<1>0. UNCHANGED <<s1, s2, s3, Bought!tables, s6, s7, s8>> BY DEF Bought!StartClaim
<1>2. /\ Bought!Rest \in Bought!ReqType
      /\ a \in Bought!People
  BY DEF Bought!Rest, Bought!People, Bought!ReqType
<1>3. h \in SUBSET Bought!Titles
          /\ \A t \in h : \E i \in BoughtIntents : BoughtItem[i] = t /\ s5[i] = guest
  BY DEF Bought!Bought
<1> HIDE DEF h
<1>4. /\ x \in Bought!ReqType
      /\ x.at = "movies" /\ x.who = a /\ x.had = h
  BY <1>2, <1>3 DEF Bought!Claiming, Bought!ReqType
<1>9. x.moved = {} BY DEF Bought!Rest
<1> HIDE DEF x
<1>5. s9'[r] = x /\ \A q \in BoughtRequests \ {r} : s9'[q] = s9[q]
  BY <1>t, <1>1 DEF Bought!TypeOK, Bought!ReqType
<1>6. Bought!TypeOK'
  BY <1>t, <1>0, <1>1, <1>4 DEF Bought!TypeOK, Bought!ReqType, Bought!tables
<1>7. Bought!Settling(r)' BY <1>4, <1>5 DEF Bought!Settling
<1>8. Bought!Claims(r)'
  <2>1. ASSUME NEW t \in h PROVE \E i \in BoughtIntents : BoughtItem[i] = t
                   /\ Bought!Kept(r, i)'
    <3>1. PICK i \in BoughtIntents : BoughtItem[i] = t /\ s5[i] = guest BY <1>3
    <3>2. s5' = s5 BY <1>0 DEF Bought!tables
    <3>3. BoughtItem[i] \in BoughtMovies \cup BoughtSerials BY DEF Bought!AccessConstants
    <3> QED BY <1>4, <1>5, <3>1, <3>2, <3>3 DEF Bought!Kept, Bought!WillMove
  <2> QED BY <1>4, <1>5, <1>9, <2>1 DEF Bought!Claims
<1> QED BY <1>0, <1>5, <1>6, <1>7, <1>8, SameTables

LEMMA ReceiptsMove ==
  ASSUME Bought!AccessConstants, Bought!IInv, NEW r \in BoughtRequests,
             Bought!MoveMovies(r) \/ Bought!MoveSerials(r)
  PROVE  Bought!IInv'
<1>t. Bought!TypeOK /\ Bought!Claims(r) BY DEF Bought!IInv
<1>1. PICK items \in {BoughtMovies, BoughtSerials}, label \in {"movies", "serials"},
               next \in {"serials", "intents"} :
        /\ Bought!MoveReceipts(r, label, items, next)
        /\ (label = "movies" => items = BoughtMovies /\ next = "serials")
        /\ (label = "serials" => items = BoughtSerials /\ next = "intents")
  BY DEF Bought!MoveMovies, Bought!MoveSerials
<1> DEFINE mine == {i \in BoughtIntents : BoughtItem[i] \in items /\ s5[i] = guest}
<1>2. /\ s9[r].at = label /\ s9' = [s9 EXCEPT ![r].moved = @ \cup mine, ![r].at = next]
      /\ UNCHANGED <<s1, s2, s3, Bought!tables, s6, s8>>
  BY <1>1 DEF Bought!MoveReceipts
<1>3. /\ mine \in SUBSET BoughtIntents
      /\ \A i \in BoughtIntents : BoughtItem[i] \in items /\ s5[i] = guest => i \in mine
      /\ \A i \in mine : s5[i] # None
  BY DEF Bought!AccessConstants
<1> HIDE DEF mine
<1>8. next \in {"idle", "settle"} \cup Bought!Claiming BY <1>1 DEF Bought!Claiming
<1>9. PICK m \in SUBSET BoughtIntents : m = s9[r].moved \cup mine
  BY <1>t, <1>3 DEF Bought!TypeOK, Bought!ReqType
<1> DEFINE x == [s9[r] EXCEPT !.moved = m, !.at = next]
<1>10. s9' = [s9 EXCEPT ![r] = x] BY <1>t, <1>2, <1>9 DEF Bought!TypeOK, Bought!ReqType
<1>12. x \in Bought!ReqType
  <2>1. s9[r] \in Bought!ReqType
    BY <1>t DEF Bought!TypeOK, Bought!ReqType
  <2> QED BY <1>8, <2>1 DEF Bought!ReqType
<1>13. x.at = next /\ x.moved = m /\ x.who = s9[r].who /\ x.had = s9[r].had
  BY <1>t DEF Bought!TypeOK, Bought!ReqType
<1> HIDE DEF x
<1>4. /\ s9' \in [BoughtRequests -> Bought!ReqType]
  BY <1>t, <1>12, <1>10 DEF Bought!TypeOK, Bought!ReqType
<1>11. /\ s9'[r].at = next /\ s9'[r].moved = m /\ s9'[r].who = s9[r].who
      /\ s9'[r].had = s9[r].had
      /\ \A q \in BoughtRequests \ {r} : s9'[q] = s9[q]
  BY <1>t, <1>10, <1>13 DEF Bought!TypeOK, Bought!ReqType
<1>5. Bought!TypeOK'
  BY <1>t, <1>2, <1>4, <1>9, <1>11 DEF Bought!TypeOK, Bought!ReqType, Bought!tables
<1>6. Bought!Settling(r)' BY <1>4, <1>9, <1>11 DEF Bought!Settling
<1>7. Bought!Claims(r)'
  <2>1. ASSUME NEW i \in BoughtIntents, Bought!Kept(r, i) PROVE Bought!Kept(r, i)'
    <3>1. s5' = s5 BY <1>2 DEF Bought!tables
    <3>2. CASE s5[i] \in BoughtAccounts BY <3>1, <3>2 DEF Bought!Kept
    <3>3. CASE s5[i] = guest /\ Bought!WillMove(r, i)
      <4>1. Bought!WillMove(r, i)'
        BY <1>1, <1>2, <1>3, <1>4, <1>9, <1>11, <3>3 DEF Bought!WillMove
      <4> QED BY <3>1, <3>3, <4>1 DEF Bought!Kept
    <3> QED BY <2>1, <3>2, <3>3 DEF Bought!Kept
  <2>2. s9[r].at \in Bought!Claiming BY <1>2 DEF Bought!Claiming
  <2>3. \A i \in s9'[r].moved : s5'[i] # None
    BY <1>t, <1>2, <1>3, <1>4, <1>9, <1>11, <2>2 DEF Bought!Claims, Bought!tables
  <2> QED BY <1>t, <1>4, <1>9, <1>11, <2>1, <2>2, <2>3 DEF Bought!Claims
<1> QED BY <1>2, <1>4, <1>9, <1>11, <1>5, <1>6, <1>7, SameTables

LEMMA IntentsMove ==
  ASSUME Bought!AccessConstants, Bought!IInv, NEW r \in BoughtRequests,
             Bought!MoveIntents(r)
  PROVE  Bought!IInv'
<1>t. Bought!TypeOK /\ Bought!Claims(r) BY DEF Bought!IInv
<1> DEFINE mine == {i \in BoughtIntents : s4[i].owner = guest}
<1>1. /\ s9[r].at = "intents" /\ \A i \in mine : s6[i] = None
      /\ s6' = [i \in BoughtIntents |-> IF i \in mine THEN r ELSE s6[i]]
      /\ s9' = [s9 EXCEPT ![r].took = mine, ![r].at = "signin"]
      /\ UNCHANGED <<s1, s2, s3, Bought!tables, s7, s8>>
  BY DEF Bought!MoveIntents
<1>2. mine \in SUBSET BoughtIntents OBVIOUS
<1> HIDE DEF mine
<1>3. /\ s9' \in [BoughtRequests -> Bought!ReqType]
      /\ s9'[r].at = "signin" /\ s9'[r].moved = s9[r].moved /\ s9'[r].who = s9[r].who
      /\ s9'[r].had = s9[r].had
      /\ \A q \in BoughtRequests \ {r} : s9'[q] = s9[q]
  BY <1>t, <1>1, <1>2 DEF Bought!TypeOK, Bought!ReqType, Bought!Claiming
<1>4. Bought!TypeOK'
  BY <1>t, <1>1, <1>2, <1>3 DEF Bought!TypeOK, Bought!ReqType, Bought!tables
<1>5. \A i \in BoughtIntents, q \in BoughtRequests \ {r} : s6[i] = q => s6'[i] = q
  BY <1>1 DEF Bought!AccessConstants
<1>6. Bought!Settling(r)' BY <1>3 DEF Bought!Settling
<1>7. Bought!Claims(r)'
  BY <1>t, <1>1, <1>3 DEF Bought!Claims, Bought!Claiming, Bought!Kept, Bought!WillMove,
     Bought!tables
<1> QED BY <1>1, <1>3, <1>4, <1>5, <1>6, <1>7, SameTables

LEMMA SettlementStarts ==
  ASSUME Bought!AccessConstants, Bought!IInv, NEW r \in BoughtRequests,
             NEW i \in BoughtIntents, Bought!LockIntent(r, i)
  PROVE  Bought!IInv'
<1>t. Bought!TypeOK BY DEF Bought!IInv
<1> DEFINE x == [Bought!Rest EXCEPT !.at = "settle", !.i = i, !.who = s4[i].owner]
<1>1. /\ s9[r].at = "idle" /\ s6[i] = None /\ ~s4[i].done
      /\ s6' = [s6 EXCEPT ![i] = r]
      /\ s9' = [s9 EXCEPT ![r] = x]
      /\ UNCHANGED <<s1, s2, s3, Bought!tables, s7, s8>>
  BY DEF Bought!LockIntent
<1>2. /\ Bought!Rest \in Bought!ReqType
      /\ s4[i].owner \in Bought!People
  BY <1>t DEF Bought!Rest, Bought!TypeOK, Bought!ReqType
<1>4. /\ x \in Bought!ReqType
      /\ x.at = "settle" /\ x.i = i /\ x.who \in Bought!People
  BY <1>2 DEF Bought!ReqType
<1> HIDE DEF x
<1>5. s9'[r] = x /\ \A q \in BoughtRequests \ {r} : s9'[q] = s9[q]
  BY <1>t, <1>1 DEF Bought!TypeOK, Bought!ReqType
<1>6. Bought!TypeOK' BY <1>t, <1>1, <1>4 DEF Bought!TypeOK, Bought!ReqType, Bought!tables
<1>7. Bought!Settling(r)'
  BY <1>t, <1>1, <1>4, <1>5 DEF Bought!Settling, Bought!tables, Bought!TypeOK,
     Bought!ReqType
<1>8. Bought!Claims(r)' BY <1>4, <1>5 DEF Bought!Claims, Bought!Claiming
<1>9. \A j \in BoughtIntents, q \in BoughtRequests \ {r} : s6[j] = q => s6'[j] = q
  BY <1>t, <1>1 DEF Bought!AccessConstants, Bought!TypeOK, Bought!ReqType
<1> QED BY <1>1, <1>5, <1>6, <1>7, <1>8, <1>9, SameTables

(* What a commit or a rollback leaves behind.                              *)
LEMMA Freed ==
  ASSUME Bought!AccessConstants, Bought!TypeOK, NEW r \in BoughtRequests, Bought!Free(r)
  PROVE  /\ s9' \in [BoughtRequests -> Bought!ReqType]
         /\ s6' \in [BoughtIntents -> BoughtRequests \cup {None}]
         /\ s9'[r].at = "idle" /\ \A q \in BoughtRequests \ {r} : s9'[q] = s9[q]
         /\ \A i \in BoughtIntents, q \in BoughtRequests \ {r} : s6[i] = q => s6'[i] = q
<1>1. /\ Bought!Rest \in Bought!ReqType
      /\ Bought!Rest.at = "idle"
  BY DEF Bought!Rest, Bought!ReqType
<1>2. s9' = [s9 EXCEPT ![r] = Bought!Rest]
  BY DEF Bought!Free
<1>3. s6' = [i \in BoughtIntents |-> IF s6[i] = r THEN None ELSE s6[i]]
  BY DEF Bought!Free
<1> QED BY <1>1, <1>2, <1>3 DEF Bought!TypeOK, Bought!ReqType

LEMMA ClaimCommits ==
  ASSUME Bought!AccessConstants, Bought!IInv, NEW r \in BoughtRequests,
             Bought!CommitClaim(r)
  PROVE  Bought!IInv' /\ \A t \in s9[r].had : \E i \in BoughtIntents : BoughtItem[i] = t
             /\ s5'[i] \in BoughtAccounts
<1>t. Bought!TypeOK /\ Bought!Claims(r) BY DEF Bought!IInv
<1>1. /\ s9[r].at = "signin" /\ s9[r].who \in BoughtAccounts
      /\ s5' = [i \in BoughtIntents |-> IF i \in s9[r].moved THEN s9[r].who ELSE s5[i]]
      /\ s4' = [i \in BoughtIntents |->
           IF i \in s9[r].took THEN [s4[i] EXCEPT !.owner = s9[r].who] ELSE s4[i]]
      /\ Bought!Free(r) /\ s1' = s1
  BY <1>t DEF Bought!CommitClaim, Bought!Claims, Bought!Claiming
<1>2. /\ \A i \in BoughtIntents : s4'[i].done = s4[i].done
      /\ s4' \in [BoughtIntents -> [owner : Bought!People, done : BOOLEAN]]
  BY <1>t, <1>1 DEF Bought!TypeOK, Bought!ReqType, Bought!People
<1>3. /\ \A i \in BoughtIntents : s5[i] \in BoughtAccounts \/ i \in s9[r].moved
             => s5'[i] \in BoughtAccounts
      /\ \A i \in BoughtIntents : s5'[i] = s5[i] \/ s5'[i] \in BoughtAccounts
      /\ s5' \in [BoughtIntents -> Bought!People \cup {None}]
  BY <1>t, <1>1 DEF Bought!TypeOK, Bought!ReqType, Bought!People
<1>4. Bought!TypeOK' BY <1>t, <1>1, <1>2, <1>3, Freed DEF Bought!TypeOK, Bought!ReqType
<1>5. ASSUME NEW i \in BoughtIntents, s5'[i] # None PROVE s4'[i].done
  <2>1. s5[i] # None BY <1>t, <1>1, <1>5 DEF Bought!Claims, Bought!Claiming
  <2> QED BY <1>2, <2>1 DEF Bought!IInv
<1>6. ASSUME NEW q \in BoughtRequests PROVE Bought!Settling(q)' /\ Bought!Claims(q)'
  <2>1. CASE q = r
    BY <1>t, <1>1, <2>1, Freed DEF Bought!Settling, Bought!Claims, Bought!Claiming
  <2>2. CASE q # r
    <3>1. s9'[q] = s9[q] /\ \A i \in BoughtIntents : s6[i] = q => s6'[i] = q
      BY <1>t, <1>1, <2>2, Freed
    <3>2. Bought!Settling(q) /\ Bought!Claims(q) BY DEF Bought!IInv
    <3>3. Bought!Settling(q)' BY <1>2, <3>1, <3>2 DEF Bought!Settling
    <3>4. ASSUME NEW i \in BoughtIntents, Bought!Kept(q, i) PROVE Bought!Kept(q, i)'
      BY <1>3, <3>1, <3>4 DEF Bought!Kept, Bought!WillMove
    <3>5. \A i \in BoughtIntents : s5[i] # None => s5'[i] # None
      BY <1>3 DEF Bought!AccessConstants
    <3>6. s9[q].moved \subseteq BoughtIntents BY <1>t DEF Bought!TypeOK, Bought!ReqType
    <3>7. Bought!Claims(q)' BY <3>1, <3>2, <3>4, <3>5, <3>6 DEF Bought!Claims
    <3> QED BY <3>3, <3>7
  <2> QED BY <2>1, <2>2
<1>7. ASSUME NEW t \in s9[r].had PROVE \E i \in BoughtIntents : BoughtItem[i] = t
                 /\ s5'[i] \in BoughtAccounts
  <2>1. PICK i \in BoughtIntents : BoughtItem[i] = t /\ Bought!Kept(r, i)
    BY <1>t, <1>1, <1>7 DEF Bought!Claims, Bought!Claiming
  <2>2. s5[i] \in BoughtAccounts \/ i \in s9[r].moved
    BY <1>1, <2>1 DEF Bought!Kept, Bought!WillMove
  <2> QED BY <1>3, <2>1, <2>2
<1> QED BY <1>4, <1>5, <1>6, <1>7 DEF Bought!IInv

LEMMA ReceiptCommits ==
  ASSUME Bought!AccessConstants, Bought!IInv, NEW r \in BoughtRequests,
             Bought!CommitReceipt(r)
  PROVE  Bought!IInv'
<1>t. Bought!TypeOK /\ Bought!Settling(r) BY DEF Bought!IInv
<1>1. PICK j \in BoughtIntents : /\ j = s9[r].i /\ s6[j] = r /\ ~s4[j].done
                           /\ s5' = [s5 EXCEPT ![j] = s9[r].who]
                           /\ s4' = [s4 EXCEPT ![j].done = TRUE]
  BY <1>t DEF Bought!CommitReceipt, Bought!Settling
<1>2. Bought!Free(r) /\ s9[r].who \in Bought!People /\ s1' = s1
  BY <1>t DEF Bought!CommitReceipt, Bought!Settling
<1>3. s5[j] = None BY <1>1 DEF Bought!IInv
<1>4. /\ \A i \in BoughtIntents \ {j} : s5'[i] = s5[i] /\ s4'[i] = s4[i]
      /\ s5'[j] \in Bought!People /\ s4'[j].done
      /\ s5' \in [BoughtIntents -> Bought!People \cup {None}]
      /\ s4' \in [BoughtIntents -> [owner : Bought!People, done : BOOLEAN]]
  BY <1>t, <1>1, <1>2 DEF Bought!TypeOK, Bought!ReqType
<1>5. Bought!TypeOK' BY <1>t, <1>2, <1>4, Freed DEF Bought!TypeOK, Bought!ReqType
<1>6. \A i \in BoughtIntents : s5'[i] # None => s4'[i].done BY <1>4 DEF Bought!IInv
<1>7. ASSUME NEW q \in BoughtRequests PROVE Bought!Settling(q)' /\ Bought!Claims(q)'
  <2>1. CASE q = r
    BY <1>t, <1>2, <2>1, Freed DEF Bought!Settling, Bought!Claims, Bought!Claiming
  <2>2. CASE q # r
    <3>1. s9'[q] = s9[q] /\ \A i \in BoughtIntents : s6[i] = q => s6'[i] = q
      BY <1>t, <1>2, <2>2, Freed
    <3>2. Bought!Settling(q) /\ Bought!Claims(q) BY DEF Bought!IInv
    <3>3. Bought!Settling(q)' BY <1>1, <1>4, <2>2, <3>1, <3>2 DEF Bought!Settling
    <3>4. ASSUME NEW i \in BoughtIntents, Bought!Kept(q, i) PROVE Bought!Kept(q, i)'
      <4>1. i # j BY <1>3, <3>4 DEF Bought!Kept, Bought!AccessConstants
      <4> QED BY <1>4, <3>1, <3>4, <4>1 DEF Bought!Kept, Bought!WillMove
    <3>5. \A i \in BoughtIntents : s5[i] # None => s5'[i] # None
      BY <1>3, <1>4
    <3>6. s9[q].moved \subseteq BoughtIntents BY <1>t DEF Bought!TypeOK, Bought!ReqType
    <3>7. Bought!Claims(q)' BY <3>1, <3>2, <3>4, <3>5, <3>6 DEF Bought!Claims
    <3> QED BY <3>3, <3>7
  <2> QED BY <2>1, <2>2
<1> QED BY <1>5, <1>6, <1>7 DEF Bought!IInv

LEMMA ClaimAborts ==
  ASSUME Bought!AccessConstants, Bought!IInv, NEW r \in BoughtRequests, Bought!Abort(r)
  PROVE  Bought!IInv'
<1>t. Bought!TypeOK BY DEF Bought!IInv
<1>1. Bought!Free(r) /\ UNCHANGED Bought!tables /\ s1' = s1 BY DEF Bought!Abort
<1>2. Bought!TypeOK' BY <1>t, <1>1, Freed DEF Bought!TypeOK, Bought!ReqType, Bought!tables
<1>3. Bought!Settling(r)' /\ Bought!Claims(r)'
  BY <1>t, <1>1, Freed DEF Bought!Settling, Bought!Claims, Bought!Claiming
<1> QED BY <1>t, <1>1, <1>2, <1>3, Freed, SameTables

LEMMA BoughtNext == ASSUME Bought!AccessConstants, Bought!IInv,
    [Bought!Next]_(Bought!vars) PROVE Bought!IInv'
<1>1. CASE UNCHANGED <<s1, Bought!tables, s6, s9>>
  BY <1>1 DEF Bought!tables, Bought!IInv, Bought!TypeOK, Bought!ReqType, Bought!Settling,
     Bought!Claims, Bought!Kept, Bought!WillMove
<1>2. CASE UNCHANGED Bought!vars \/ Bought!Curate \/ Bought!Subscribe
  BY <1>1, <1>2 DEF Bought!vars, Bought!tables, Bought!Curate, Bought!Subscribe
<1>3. CASE \E r \in BoughtRequests : \E a \in BoughtAccounts : Bought!StartClaim(r, a)
  BY <1>3, ClaimStarts
<1>4. CASE \E r \in BoughtRequests :
            Bought!MoveMovies(r) \/ Bought!MoveSerials(r) \/ Bought!MoveIntents(r)
  BY <1>4, ReceiptsMove, IntentsMove
<1>5. CASE \E r \in BoughtRequests : \E i \in BoughtIntents : Bought!LockIntent(r, i)
  BY <1>5, SettlementStarts
<1>6. CASE \E r \in BoughtRequests :
            Bought!CommitClaim(r) \/ Bought!CommitReceipt(r) \/ Bought!Abort(r)
  BY <1>6, ClaimCommits, ReceiptCommits, ClaimAborts
<1> QED BY <1>2, <1>3, <1>4, <1>5, <1>6 DEF Bought!Next

LEMMA BoughtKeeps == ASSUME Bought!AccessConstants, Bought!IInv PROVE Bought!KeepsTitles
<1> SUFFICES ASSUME NEW r \in BoughtRequests, Bought!CommitClaim(r),
        NEW t \in s9[r].had \cap s1'
             PROVE  \E a \in BoughtAccounts : Bought!MayWatch(a, t)'
  BY DEF Bought!KeepsTitles
<1>1. PICK i \in BoughtIntents : BoughtItem[i] = t /\ s5'[i] \in BoughtAccounts
  BY ClaimCommits
<1>2. PICK a \in BoughtAccounts : s5'[i] = a BY <1>1
<1>3. t \in BoughtMovies \cup BoughtSerials BY <1>1 DEF Bought!AccessConstants
<1>4. Bought!MayWatch(a, t)' BY <1>1, <1>2, <1>3 DEF Bought!MayWatch, Bought!Bought
<1> QED BY <1>4

-----------------------------------------------------------------------------
(* Paid periods. Here s1 to s7 are now, active, done, subs, intentLock,    *)
(* userLock and req.                                                       *)
(* Numbers have a least, and bounded ones a greatest: there is no descending *)
(* sequence of them.                                                       *)
LEMMA Least ==
  ASSUME NEW S \in SUBSET Nat, S # {}
  PROVE  \E x \in S : \A y \in S : x <= y
<1>1. PICK x \in S : \A y \in S : ~ (<<y, x>> \in OpToRel(<, Nat))
  BY NatLessThanWellFounded, WFMin
<1>2. \A y \in S : ~(y < x) BY <1>1 DEF OpToRel
<1> QED BY <1>2

LEMMA Greatest ==
  ASSUME NEW S \in SUBSET Nat, S # {}, NEW b \in Nat, \A x \in S : x <= b
  PROVE  \E x \in S : \A y \in S : x >= y
<1> DEFINE T == {b - x : x \in S}
<1>1. T \in SUBSET Nat OBVIOUS
<1>2. T # {} OBVIOUS
<1>3. PICK t \in T : \A u \in T : t <= u BY <1>1, <1>2, Least
<1>4. PICK x \in S : t = b - x OBVIOUS
<1>5. \A y \in S : b - x <= b - y BY <1>3, <1>4
<1>6. ASSUME NEW y \in S PROVE x >= y
  <2>1. b - x <= b - y BY <1>5
  <2>2. b \in Nat /\ x \in Nat /\ y \in Nat OBVIOUS
  <2> QED BY ONLY <2>1, <2>2
<1> QED BY <1>6

(* Latest is the end of some row and of no later one.                      *)
LEMMA LatestIs ==
  ASSUME NEW f \in [Paid!Rows -> Nat], Paid!PeriodConstants, NEW n \in Nat,
             \A k \in Paid!Rows : f[k] <= n
  PROVE  /\ Paid!Max({f[k] : k \in Paid!Rows}) \in {f[k] : k \in Paid!Rows}
         /\ \A k \in Paid!Rows : Paid!Max({f[j] : j \in Paid!Rows}) >= f[k]
<1> DEFINE S == {f[k] : k \in Paid!Rows}
<1>1. S \in SUBSET Nat OBVIOUS
<1>2. S # {}
  <2>1. 1 \in Paid!Rows BY DEF Paid!PeriodConstants, Paid!Rows
  <2> QED BY <2>1
<1>3. \A x \in S : x <= n OBVIOUS
<1>4. \E x \in S : \A y \in S : x >= y BY <1>1, <1>2, <1>3, Greatest
<1>5. Paid!Max(S) \in S /\ \A y \in S : Paid!Max(S) >= y
  <2> HIDE DEF S
  <2> QED BY <1>4 DEF Paid!Max
<1> QED BY <1>5

(* A plan is chosen from the plans there are, and brings the days sold.     *)
LEMMA LongestIs ==
  ASSUME Paid!PeriodConstants, NEW ps \in SUBSET PaidPlans, ps # {}
  PROVE  Paid!Longest(ps) \in ps
<1> DEFINE S == {PaidPlanDays[p] : p \in ps}
<1>1. S \in SUBSET Nat BY DEF Paid!PeriodConstants
<1>2. S # {} OBVIOUS
<1>3. \A x \in S : x <= 365 BY DEF Paid!PeriodConstants
<1>4. PICK x \in S : \A y \in S : x >= y
  <2> HIDE DEF S
  <2>1. 365 \in Nat OBVIOUS
  <2> QED BY <1>1, <1>2, <1>3, <2>1, Greatest
<1>5. PICK p \in ps : x = PaidPlanDays[p] OBVIOUS
<1>6. \A q \in ps : PaidPlanDays[p] >= PaidPlanDays[q] BY <1>4, <1>5
<1>7. \E l \in ps : \A q \in ps : PaidPlanDays[l] >= PaidPlanDays[q] BY <1>6
<1> QED BY <1>7 DEF Paid!Longest

LEMMA DaysAre ==
  ASSUME Paid!PeriodConstants, Paid!TypeOK, s2 # {}, NEW i \in PaidIntents
  PROVE  Paid!DaysFor(i) \in Nat /\ Paid!DaysFor(i) >= PaidSnap[i]
<1>1. Paid!SamePrice(i) \in SUBSET PaidPlans
  BY DEF Paid!SamePrice, Paid!TypeOK, Paid!ReqType
<1>2. Paid!PlanFor(i) \in PaidPlans
  BY <1>1, LongestIs DEF Paid!PlanFor, Paid!TypeOK, Paid!ReqType
<1> QED BY <1>2 DEF Paid!DaysFor, Paid!PeriodConstants

LEMMA PaidInit == ASSUME Paid!PeriodConstants, Paid!Init PROVE Paid!IInv
  BY DEF Paid!Init, Paid!IInv, Paid!TypeOK, Paid!ReqType, Paid!Computed, Paid!Rest,
     Paid!PeriodConstants

LEMMA LatestNow ==
  ASSUME Paid!PeriodConstants, Paid!IInv
  PROVE  /\ Paid!Latest \in {s4[k] : k \in Paid!Rows} /\ Paid!Latest \in Nat
         /\ \A k \in Paid!Rows : Paid!Latest >= s4[k]
<1>1. s4 \in [Paid!Rows -> Nat] BY DEF Paid!IInv, Paid!TypeOK, Paid!ReqType
<1>2. PICK n \in Nat : \A k \in Paid!Rows : s4[k] <= n BY DEF Paid!IInv
<1> QED BY <1>1, <1>2, LatestIs DEF Paid!Latest

(* A request that steps but writes no row.                                 *)
LEMMA SameRows ==
  ASSUME Paid!PeriodConstants, Paid!IInv, NEW r \in PaidRequests, s4' = s4,
         s1' \in Nat, s2' \in SUBSET PaidPlans,
         s7' \in [PaidRequests -> Paid!ReqType],
         \A q \in PaidRequests \ {r} : s7'[q] = s7[q] /\ (s6 = q => s6' = q),
         Paid!Computed(r)'
  PROVE  Paid!IInv'
<1>1. Paid!TypeOK' BY DEF Paid!IInv, Paid!TypeOK, Paid!ReqType
<1>2. \A q \in PaidRequests \ {r} : Paid!Computed(q)'
  BY DEF Paid!IInv, Paid!Computed, Paid!Base, Paid!Latest
<1> QED BY <1>1, <1>2 DEF Paid!IInv

LEMMA PaidCommits ==
  ASSUME Paid!PeriodConstants, Paid!IInv, NEW r \in PaidRequests, Paid!Commit(r)
  PROVE  Paid!IInv' /\ Paid!Latest' >= Paid!Base(r) + PaidSnap[s7[r].i]
<1>t. Paid!TypeOK /\ None \notin PaidRequests /\ Paid!Computed(r)
  BY DEF Paid!IInv, Paid!PeriodConstants
<1>l. /\ Paid!Latest \in Nat /\ \A k \in Paid!Rows : Paid!Latest >= s4[k]
  BY LatestNow
<1>c. /\ s7[r].at = "commit" /\ s6 = r /\ s7[r].ends \in Nat /\ s7[r].i \in PaidIntents
      /\ s7[r].row \in {0} \cup Paid!Rows /\ s7[r].t \in Nat /\ PaidSnap[s7[r].i] \in Nat
      /\ s7[r].ends >= Paid!Base(r) + PaidSnap[s7[r].i] /\ (s7[r].row = 0
             => Paid!Latest = 0)
  BY <1>t DEF Paid!Commit, Paid!Computed, Paid!TypeOK, Paid!ReqType, Paid!PeriodConstants
<1>1. PICK k \in Paid!Rows : s4' = [s4 EXCEPT ![k] = s7[r].ends]
  <2>1. CASE s7[r].row = 0
    <3> DEFINE S == {j \in Paid!Rows : s4[j] = 0}
    <3>1. 1 \in Paid!Rows /\ Paid!Rows \subseteq Nat BY DEF Paid!Rows, Paid!PeriodConstants
    <3>2. s4[1] \in Nat /\ Paid!Latest >= s4[1] /\ Paid!Latest = 0
      BY <1>t, <1>l, <1>c, <2>1, <3>1 DEF Paid!TypeOK, Paid!ReqType
    <3>3. S \in SUBSET Nat BY <3>1
    <3>4. 1 \in S BY <3>1, <3>2
    <3>5. Paid!Min(S) \in S
      <4> HIDE DEF S
      <4>1. \E x \in S : \A y \in S : x <= y BY <3>3, <3>4, Least
      <4> QED BY <4>1 DEF Paid!Min
    <3> QED BY <2>1, <3>5 DEF Paid!Commit
  <2>2. CASE s7[r].row # 0 BY <1>c, <2>2 DEF Paid!Commit
  <2> QED BY <2>1, <2>2
<1>2. s7' = [s7 EXCEPT ![r] = Paid!Rest] /\ UNCHANGED <<s1, s2>>
  BY DEF Paid!Commit, Paid!Free
<1>3. s4' \in [Paid!Rows -> Nat] /\ s4'[k] = s7[r].ends
  BY <1>t, <1>c, <1>1 DEF Paid!TypeOK, Paid!ReqType
<1>4. PICK n \in Nat : \A j \in Paid!Rows : s4'[j] <= n
  <2>1. \A j \in Paid!Rows : s4'[j] <= Paid!Latest + s7[r].ends
    BY <1>t, <1>l, <1>c, <1>1 DEF Paid!TypeOK, Paid!ReqType
  <2> QED BY <1>l, <1>c, <2>1
<1>5. /\ Paid!Latest' \in Nat /\ Paid!Latest' >= s7[r].ends
  <2>1. /\ Paid!Max({s4'[j] : j \in Paid!Rows}) \in {s4'[j] : j \in Paid!Rows}
        /\ \A j \in Paid!Rows : Paid!Max({s4'[i] : i \in Paid!Rows}) >= s4'[j]
    BY <1>3, <1>4, LatestIs
  <2> QED BY <1>3, <2>1 DEF Paid!Latest
<1>6. Paid!Latest' >= Paid!Base(r) + PaidSnap[s7[r].i]
  <2>1. Paid!Base(r) \in Nat BY <1>l, <1>c DEF Paid!Base
  <2> QED BY <1>c, <1>5, <2>1
<1>7. Paid!Rest \in Paid!ReqType
  BY DEF Paid!Rest, Paid!ReqType
<1>8. Paid!TypeOK' BY <1>t, <1>2, <1>3, <1>7 DEF Paid!TypeOK, Paid!ReqType
<1>9. ASSUME NEW q \in PaidRequests PROVE Paid!Computed(q)'
  <2>1. CASE q = r
    BY <1>t, <1>2, <2>1 DEF Paid!Computed, Paid!Rest, Paid!TypeOK, Paid!ReqType
  <2>2. CASE q # r
    <3>1. s7'[q] = s7[q] BY <1>t, <1>2, <2>2 DEF Paid!TypeOK, Paid!ReqType
    <3>2. s7[q].at \notin {"extend", "commit"} /\ (s7[q].at # "idle"
              => s7[q].i \in PaidIntents)
      BY <1>c, <2>2 DEF Paid!IInv, Paid!Computed
    <3> QED BY <3>1, <3>2 DEF Paid!Computed
  <2> QED BY <2>1, <2>2
<1> QED BY <1>4, <1>6, <1>8, <1>9 DEF Paid!IInv

LEMMA PaidExtends ==
  ASSUME Paid!PeriodConstants, Paid!IInv, NEW r \in PaidRequests, Paid!Extend(r)
  PROVE  Paid!IInv'
<1>t. Paid!TypeOK /\ None \notin PaidRequests /\ Paid!Computed(r)
  BY DEF Paid!IInv, Paid!PeriodConstants
<1>l. /\ Paid!Latest \in Nat /\ Paid!Latest \in {s4[k] : k \in Paid!Rows}
  BY LatestNow
<1>1. CASE s2 = {}
  BY <1>t, <1>1, SameRows DEF Paid!Extend, Paid!Free, Paid!Rest, Paid!TypeOK, Paid!ReqType,
     Paid!Computed
<1>2. CASE s2 # {}
  <2> DEFINE row == IF Paid!Latest = 0 THEN 0 ELSE CHOOSE k \in Paid!Rows :
        s4[k] = Paid!Latest
             ends == (IF Paid!Latest > s7[r].t THEN Paid!Latest ELSE s7[r].t)
                     + Paid!DaysFor(s7[r].i)
  <2>1. /\ s7' = [s7 EXCEPT ![r].at = "commit", ![r].ends = ends, ![r].row = row]
        /\ UNCHANGED <<s1, s2, s3, s4, s5, s6>>
        /\ s7[r].at = "extend"
    BY <1>2 DEF Paid!Extend
  <2>2. row \in {0} \cup Paid!Rows /\ (row = 0 => Paid!Latest = 0)
    <3>1. Paid!Latest # 0 => (CHOOSE k \in Paid!Rows : s4[k] = Paid!Latest) \in Paid!Rows
      BY <1>l
    <3>2. 0 \notin Paid!Rows BY DEF Paid!Rows, Paid!PeriodConstants
    <3> QED BY <3>1, <3>2
  <2>3. s7[r].i \in PaidIntents /\ s6 = r /\ s7[r].t \in Nat /\ Paid!Base(r) \in Nat
    BY <1>t, <1>l, <2>1 DEF Paid!Computed, Paid!TypeOK, Paid!ReqType, Paid!Base
  <2>4. Paid!DaysFor(s7[r].i) \in Nat /\ Paid!DaysFor(s7[r].i) >= PaidSnap[s7[r].i]
            /\ PaidSnap[s7[r].i] \in Nat
    BY <1>t, <1>2, <2>3, DaysAre DEF Paid!PeriodConstants
  <2>5. ends = Paid!Base(r) + Paid!DaysFor(s7[r].i) BY DEF Paid!Base
  <2>6. ends \in Nat /\ ends >= Paid!Base(r) + PaidSnap[s7[r].i] BY <2>3, <2>4, <2>5
  <2> HIDE DEF row, ends
  <2>7. /\ s7' \in [PaidRequests -> Paid!ReqType]
        /\ s7'[r].ends = ends /\ s7'[r].row = row /\ s7'[r].at = "commit"
               /\ s7'[r].i = s7[r].i
        /\ s7'[r].t = s7[r].t
        /\ \A q \in PaidRequests \ {r} : s7'[q] = s7[q]
    BY <1>t, <2>1, <2>2, <2>6 DEF Paid!TypeOK, Paid!ReqType
  <2>8. Paid!Computed(r)'
    BY <2>1, <2>2, <2>3, <2>6, <2>7 DEF Paid!Computed, Paid!Base, Paid!Latest
  <2> QED BY <1>t, <2>1, <2>7, <2>8, SameRows DEF Paid!TypeOK, Paid!ReqType
<1> QED BY <1>1, <1>2

LEMMA PaidOthers ==
  ASSUME Paid!PeriodConstants, Paid!IInv, NEW r \in PaidRequests,
         (\E i \in PaidIntents : Paid!LockIntent(r,
             i)) \/ Paid!LockAccount(r) \/ Paid!Abort(r)
  PROVE  Paid!IInv'
<1>t. Paid!TypeOK /\ None \notin PaidRequests /\ Paid!Computed(r)
  BY DEF Paid!IInv, Paid!PeriodConstants
<1>1. CASE \E i \in PaidIntents : Paid!LockIntent(r, i)
  <2>1. PICK i \in PaidIntents : Paid!LockIntent(r, i) BY <1>1
  <2> DEFINE x == [Paid!Rest EXCEPT !.at = "account", !.i = i, !.t = s1]
  <2>2. s7' = [s7 EXCEPT ![r] = x] /\ UNCHANGED <<s1, s2, s3, s4, s6>>
    BY <2>1 DEF Paid!LockIntent
  <2>0. /\ Paid!Rest \in Paid!ReqType
        /\ s1 \in Nat
    BY <1>t DEF Paid!Rest, Paid!TypeOK, Paid!ReqType
  <2>3. x \in Paid!ReqType
    BY <2>0 DEF Paid!ReqType
  <2>4. x.at = "account" /\ x.i \in PaidIntents BY <2>0
  <2> HIDE DEF x
  <2>5. /\ s7' \in [PaidRequests -> Paid!ReqType]
        /\ s7'[r] = x /\ \A q \in PaidRequests \ {r} : s7'[q] = s7[q]
    BY <1>t, <2>2, <2>3 DEF Paid!TypeOK, Paid!ReqType
  <2>6. Paid!Computed(r)' BY <2>4, <2>5 DEF Paid!Computed
  <2> QED BY <1>t, <2>2, <2>5, <2>6, SameRows DEF Paid!TypeOK, Paid!ReqType
<1>2. CASE Paid!LockAccount(r)
  BY <1>t, <1>2, SameRows DEF Paid!LockAccount, Paid!TypeOK, Paid!ReqType, Paid!Computed
<1>3. CASE Paid!Abort(r)
  BY <1>t, <1>3, SameRows DEF Paid!Abort, Paid!Free, Paid!Rest, Paid!TypeOK, Paid!ReqType,
     Paid!Computed
<1> QED BY <1>1, <1>2, <1>3

LEMMA PaidNext == ASSUME Paid!PeriodConstants, Paid!IInv,
    [Paid!Next]_(Paid!vars) PROVE Paid!IInv'
<1>1. ASSUME UNCHANGED <<s4, s6, s7>>, s2' \in SUBSET PaidPlans,
                 s1' \in Nat PROVE Paid!IInv'
  <2>1. Paid!TypeOK' BY <1>1 DEF Paid!IInv, Paid!TypeOK
  <2>2. Paid!Latest' = Paid!Latest BY <1>1 DEF Paid!Latest
  <2>3. \A r \in PaidRequests : Paid!Computed(r)'
    BY <1>1, <2>2 DEF Paid!IInv, Paid!Computed, Paid!Base
  <2>4. \E n \in Nat : \A k \in Paid!Rows : s4'[k] <= n BY <1>1 DEF Paid!IInv
  <2> QED BY <2>1, <2>3, <2>4 DEF Paid!IInv
<1>2. CASE UNCHANGED Paid!vars BY <1>1, <1>2 DEF Paid!vars, Paid!IInv, Paid!TypeOK
<1>3. CASE Paid!Tick
  <2>1. s1' = s1 + 1 /\ UNCHANGED <<s2, s4, s6, s7>> BY <1>3 DEF Paid!Tick
  <2>2. s1' \in Nat /\ s2' \in SUBSET PaidPlans BY <2>1 DEF Paid!IInv, Paid!TypeOK
  <2> QED BY <1>1, <2>1, <2>2
<1>4. ASSUME NEW p \in PaidPlans, Paid!Toggle(p) PROVE Paid!IInv'
  <2>1. UNCHANGED <<s1, s4, s6, s7>> BY <1>4 DEF Paid!Toggle
  <2>2. s1' \in Nat /\ s2' \in SUBSET PaidPlans
    BY <1>4, <2>1 DEF Paid!Toggle, Paid!IInv, Paid!TypeOK
  <2> QED BY <1>1, <2>1, <2>2
<1> QED BY <1>2, <1>3, <1>4, PaidOthers, PaidExtends, PaidCommits DEF Paid!Next

LEMMA PaidStacks == ASSUME Paid!PeriodConstants, Paid!IInv PROVE Paid!Stacks
  BY PaidCommits DEF Paid!Stacks, Paid!Base

-----------------------------------------------------------------------------
(* Live channels. Here s1 to s5 are row, service, used, req and adrift.    *)
LEMMA LiveInit == ASSUME Live!ChannelConstants, Live!Init PROVE Live!IInv
<1>1. Live!Idle \in Live!ReqType /\ Live!Idle.at = "none"
  BY DEF Live!Idle, Live!ReqType, Live!Statuses
<1>2. Live!TypeOK BY <1>1 DEF Live!Init, Live!TypeOK, Live!Statuses
<1>3. \A c \in LiveChannels : ~Live!Running(c) BY DEF Live!Init, Live!Running
<1>4. \A r \in LiveRequests : Live!Told(r) BY <1>1 DEF Live!Init, Live!Told
<1> QED BY <1>2, <1>3, <1>4 DEF Live!Init, Live!IInv, Live!Used, Live!Known

(* What no call to the service is part of: rows and requests change.       *)
LEMMA Quiet ==
  ASSUME Live!ChannelConstants, Live!IInv, NEW r \in LiveRequests, Live!TypeOK',
             UNCHANGED s2,
         s3 \subseteq s3',
         \A s \in LiveRequests \ {r} : s4'[s] = s4[s],
         Live!Told(r)', \A c \in LiveChannels : Live!Used(c)' /\ Live!Known(c)'
  PROVE  Live!IInv'
  BY DEF Live!IInv, Live!Told, Live!Running

LEMMA RowSteps ==
  ASSUME Live!ChannelConstants, Live!IInv, NEW c \in LiveChannels,
             NEW source \in LiveSources,
         Live!create_channel(c, source) \/ Live!update_channel(c, source)
  PROVE  Live!IInv'
<1>t. Live!TypeOK BY DEF Live!IInv
<1>1. CASE Live!create_channel(c, source)
  <2>1. /\ c \notin s3 /\ s3' = s3 \cup {c} /\ UNCHANGED <<s2, s4, s5>>
        /\ s1' = [s1 EXCEPT ![c] = [status |-> "offline", source |-> source, url |-> FALSE]]
    BY <1>1 DEF Live!create_channel
  <2>2. [status |-> "offline", source |-> source, url |-> FALSE] \in Live!RowType
    BY DEF Live!RowType, Live!Statuses
  <2>3. Live!TypeOK' BY <1>t, <2>1, <2>2 DEF Live!TypeOK
  <2>4. ~Live!Running(c) BY <2>1 DEF Live!IInv, Live!Used, Live!Running
  <2>5. \A d \in LiveChannels \ {c} : s1'[d] = s1[d] BY <1>t, <2>1 DEF Live!TypeOK
  <2>6. \A d \in LiveChannels : Live!Used(d)' /\ Live!Known(d)'
    BY <2>1, <2>4, <2>5 DEF Live!IInv, Live!Used, Live!Known, Live!Running, Live!Starts
  <2> QED BY <2>1, <2>3, <2>6 DEF Live!IInv, Live!Told, Live!Running
<1>2. CASE Live!update_channel(c, source)
  <2>1. /\ s1[c] # None /\ s1' = [s1 EXCEPT ![c].source = source] /\ UNCHANGED <<s2, s3,
               s4, s5>>
    BY <1>2 DEF Live!update_channel
  <2>2. s1[c] \in Live!RowType BY <1>t, <2>1 DEF Live!TypeOK
  <2>3. /\ s1'[c] \in Live!RowType /\ s1'[c].status = s1[c].status
        /\ \A d \in LiveChannels \ {c} : s1'[d] = s1[d]
        /\ s1' \in [LiveChannels -> Live!RowType \cup {None}]
    BY <1>t, <2>1, <2>2 DEF Live!TypeOK, Live!RowType
  <2>4. Live!TypeOK' BY <1>t, <2>1, <2>3 DEF Live!TypeOK
  <2>5. c \in s3 BY <2>1 DEF Live!IInv, Live!Used
  <2>6. s1'[c] # None BY <2>3 DEF Live!ChannelConstants
  <2>7. \A d \in LiveChannels : Live!Used(d)' /\ Live!Known(d)'
    BY <2>1, <2>3, <2>5, <2>6 DEF Live!IInv, Live!Used, Live!Known, Live!Running,
       Live!Starts
  <2> QED BY <2>1, <2>4, <2>7 DEF Live!IInv, Live!Told, Live!Running
<1> QED BY <1>1, <1>2

LEMMA LoadSteps ==
  ASSUME Live!ChannelConstants, Live!IInv, NEW r \in LiveRequests, NEW c \in LiveChannels,
         NEW op \in {"start", "stop", "status", "delete"}, Live!Load(r, op, c)
  PROVE  Live!IInv'
<1>t. Live!TypeOK BY DEF Live!IInv
<1> DEFINE at == IF op = "delete" /\ ~Live!StopFirst(c) THEN "write" ELSE "call"
           clean == op # "delete" \/ (c \notin s5 /\ \A s \in LiveRequests :
                    ~(s4[s].c = c /\ s4[s].op = "start" /\ s4[s].at = "write"))
           x == [op |-> op, at |-> at, c |-> c, source |-> s1[c].source,
               was |-> s1[c].status,
                 got |-> s1[c].status, clean |-> clean]
<1>1. /\ s4[r] = Live!Idle /\ s1[c] # None /\ s4' = [s4 EXCEPT ![r] = x]
      /\ UNCHANGED <<s1, s2, s3, s5>>
  BY DEF Live!Load
<1>2. s1[c] \in Live!RowType /\ c \in s3 BY <1>t, <1>1 DEF Live!TypeOK, Live!IInv, Live!Used
<1>3. s1[c].source \in LiveSources /\ s1[c].status \in Live!Statuses
  BY <1>2 DEF Live!RowType
<1>4. at \in {"write", "call"} /\ clean \in BOOLEAN
      /\ (at = "write" => op = "delete" /\ s1[c].status \notin Live!Up)
      /\ (op # "delete" => clean)
  BY DEF Live!StopFirst, Live!Up
<1>5. at = "write" /\ clean => ~Live!Running(c)
  <2>1. CASE c \in s5 BY <1>4, <2>1
  <2>2. CASE c \notin s5
    <3>1. at = "write" /\ clean => ~\E s \in LiveRequests : Live!Starts(s, c)
      BY <1>4 DEF Live!Starts
    <3> QED BY <1>4, <2>2, <3>1 DEF Live!IInv, Live!Known
  <2> QED BY <2>1, <2>2
<1> HIDE DEF at, clean
<1>6. /\ x \in Live!ReqType /\ x.op = op /\ x.at = at /\ x.c = c /\ x.got = s1[c].status
             /\ x.clean = clean
  BY <1>3, <1>4 DEF Live!ReqType
<1> HIDE DEF x
<1>7. s4' \in [LiveRequests -> Live!ReqType] /\ s4'[r] = x
          /\ \A s \in LiveRequests \ {r} : s4'[s] = s4[s]
  BY <1>t, <1>1, <1>6 DEF Live!TypeOK
<1>8. Live!TypeOK' BY <1>t, <1>1, <1>7 DEF Live!TypeOK
<1>9. Live!Told(r)'
  <2>1. Live!Running(c)' <=> Live!Running(c) BY <1>1 DEF Live!Running
  <2>2. s4'[r].at = at /\ s4'[r].op = op /\ s4'[r].c = c /\ s4'[r].got = s1[c].status
            /\ s4'[r].clean = clean
    BY <1>6, <1>7
  <2>3. s4'[r].at = "write" /\ s4'[r].clean => s2'[s4'[r].c].status \notin Live!Up
    BY <1>1, <1>5, <2>2 DEF Live!Running, Live!Up
  <2> QED BY <1>1, <1>2, <1>4, <2>2, <2>3 DEF Live!Told, Live!Running, Live!Up
<1>10. ASSUME NEW d \in LiveChannels PROVE Live!Used(d)' /\ Live!Known(d)'
  <2>1. Live!Used(d) /\ Live!Known(d) BY DEF Live!IInv
  <2>2. \A s \in LiveRequests : Live!Starts(s, d) => s # r
    BY <1>1 DEF Live!Starts, Live!Idle
  <2>3. \A s \in LiveRequests : Live!Starts(s, d) => Live!Starts(s, d)'
    BY <1>7, <2>2 DEF Live!Starts
  <2> QED BY <1>1, <2>1, <2>3 DEF Live!Used, Live!Known, Live!Running
<1> QED BY <1>1, <1>7, <1>8, <1>9, <1>10, Quiet

(* What an answer leaves of the requests.                                  *)
LEMMA Answers ==
  ASSUME Live!ChannelConstants, Live!IInv, NEW r \in LiveRequests, s4[r].at = "call",
         NEW got \in Live!Statuses, NEW ok \in BOOLEAN, Live!Answered(r, got, ok)
  PROVE  /\ s4' \in [LiveRequests -> Live!ReqType]
         /\ s4'[r].at # "none" => s4'[r].op = s4[r].op /\ s4'[r].c = s4[r].c
         /\ ok => s4'[r].at = "write" /\ s4'[r].got = got /\ s4'[r].clean = s4[r].clean
         /\ ~ok => s4'[r].at = "none" \/ (s4'[r].at = "write" /\ ~s4'[r].clean)
         /\ \A s \in LiveRequests \ {r} :
              /\ s4'[s].at = s4[s].at /\ s4'[s].op = s4[s].op /\ s4'[s].c = s4[s].c
              /\ s4'[s].got = s4[s].got /\ (s4'[s].clean => s4[s].clean)
              /\ s4[s].at = "call" => s4'[s].clean = s4[s].clean
              /\ s4[r].op # "status" /\ s4[s].c = s4[r].c /\ s4[s].at = "write"
                     => ~s4'[s].clean
              /\ s4[r].op = "status" \/ s4[s].c # s4[r].c => s4'[s] = s4[s]
<1>t. s4 \in [LiveRequests -> Live!ReqType] BY DEF Live!IInv, Live!TypeOK
<1> DEFINE x == IF ok THEN [s4[r] EXCEPT !.at = "write", !.got = got]
                ELSE IF s4[r].op = "delete" THEN [s4[r] EXCEPT !.at = "write",
                    !.clean = FALSE]
                ELSE Live!Idle
<1>1. s4' = [Live!Outdated(r) EXCEPT ![r] = x] BY DEF Live!Answered
<1>2. Live!Idle \in Live!ReqType /\ Live!Idle.at = "none"
  BY DEF Live!Idle, Live!ReqType, Live!Statuses
<1>3. [s4[r] EXCEPT !.at = "write", !.got = got] \in Live!ReqType BY <1>t DEF Live!ReqType
<1>4. [s4[r] EXCEPT !.at = "write", !.clean = FALSE] \in Live!ReqType
  BY <1>t DEF Live!ReqType
<1>5. x \in Live!ReqType BY <1>2, <1>3, <1>4
<1>6. /\ x.at # "none" => x.op = s4[r].op /\ x.c = s4[r].c
      /\ ok => x.at = "write" /\ x.got = got /\ x.clean = s4[r].clean
      /\ ~ok => x.at = "none" \/ (x.at = "write" /\ ~x.clean)
  BY <1>t, <1>2 DEF Live!ReqType
<1> HIDE DEF x
<1>7. ASSUME NEW s \in LiveRequests
      PROVE  [s4[s] EXCEPT !.clean = FALSE] \in Live!ReqType
                 /\ ~[s4[s] EXCEPT !.clean = FALSE].clean
             /\ [s4[s] EXCEPT !.clean = FALSE].at = s4[s].at
                    /\ [s4[s] EXCEPT !.clean = FALSE].op = s4[s].op
             /\ [s4[s] EXCEPT !.clean = FALSE].c = s4[s].c
                    /\ [s4[s] EXCEPT !.clean = FALSE].got = s4[s].got
  BY <1>t DEF Live!ReqType
<1>8. /\ Live!Outdated(r) \in [LiveRequests -> Live!ReqType]
      /\ \A s \in LiveRequests \ {r} :
           /\ \/ Live!Outdated(r)[s] = s4[s]
              \/ /\ Live!Outdated(r)[s] = [s4[s] EXCEPT !.clean = FALSE]
                 /\ s4[s].at = "write" /\ s4[s].c = s4[r].c /\ s4[r].op # "status"
           /\ s4[r].op # "status" /\ s4[s].c = s4[r].c /\ s4[s].at = "write" =>
                Live!Outdated(r)[s] = [s4[s] EXCEPT !.clean = FALSE]
  BY <1>t, <1>7 DEF Live!Outdated
<1>9. s4' \in [LiveRequests -> Live!ReqType] /\ s4'[r] = x
          /\ \A s \in LiveRequests \ {r} : s4'[s] = Live!Outdated(r)[s]
  BY <1>1, <1>5, <1>8
<1>10. ASSUME NEW s \in LiveRequests \ {r}
       PROVE  /\ s4'[s].at = s4[s].at /\ s4'[s].op = s4[s].op /\ s4'[s].c = s4[s].c
              /\ s4'[s].got = s4[s].got /\ (s4'[s].clean => s4[s].clean)
              /\ s4[s].at = "call" => s4'[s].clean = s4[s].clean
              /\ s4[r].op # "status" /\ s4[s].c = s4[r].c /\ s4[s].at = "write"
                     => ~s4'[s].clean
              /\ s4[r].op = "status" \/ s4[s].c # s4[r].c => s4'[s] = s4[s]
  <2>1. CASE s4'[s] = s4[s]
    <3>1. ASSUME s4[r].op # "status", s4[s].c = s4[r].c,
                     s4[s].at = "write" PROVE ~s4'[s].clean
      <4>1. Live!Outdated(r)[s] = [s4[s] EXCEPT !.clean = FALSE] BY <1>8, <3>1
      <4>2. s4'[s] = [s4[s] EXCEPT !.clean = FALSE] BY <1>9, <4>1
      <4>3. ~[s4[s] EXCEPT !.clean = FALSE].clean BY <1>7
      <4> QED BY <4>2, <4>3
    <3> QED BY <2>1, <3>1
  <2>2. CASE /\ s4'[s] = [s4[s] EXCEPT !.clean = FALSE] /\ s4[s].at = "write"
             /\ s4[s].c = s4[r].c /\ s4[r].op # "status"
    BY <1>7, <2>2
  <2> QED BY <1>8, <1>9, <2>1, <2>2
<1>11. /\ s4'[r].at # "none" => s4'[r].op = s4[r].op /\ s4'[r].c = s4[r].c
       /\ ok => s4'[r].at = "write" /\ s4'[r].got = got /\ s4'[r].clean = s4[r].clean
       /\ ~ok => s4'[r].at = "none" \/ (s4'[r].at = "write" /\ ~s4'[r].clean)
  BY <1>6, <1>9
<1> QED BY <1>9, <1>10, <1>11

(* The service has acted.                                                  *)
LEMMA ServiceActs ==
  ASSUME Live!ChannelConstants, Live!IInv, NEW r \in LiveRequests, s4[r].at = "call",
             NEW got \in Live!Statuses,
         NEW ok \in BOOLEAN, Live!Answered(r, got, ok), s4[r].op # "status", Live!Doubt(r,
             ok),
         s2' \in [LiveChannels -> [status : Live!Statuses,
             source : LiveSources \cup {None}]],
         s2'[s4[r].c].status = got,
         \A d \in LiveChannels \ {s4[r].c} : s2'[d] = s2[d],
         s4[r].op = "start" \/ got = "offline",
         UNCHANGED <<s1, s3>>
  PROVE  Live!IInv'
<1>t. Live!TypeOK /\ Live!Told(r) BY DEF Live!IInv
<1>1. PICK c \in LiveChannels : c = s4[r].c /\ c \in s3 BY <1>t DEF Live!Told
<1>2. Live!Running(c)' <=> got \in Live!Up BY <1>1 DEF Live!Running, Live!Up
<1>3. \A d \in LiveChannels \ {c} : Live!Running(d)' <=> Live!Running(d)
  BY <1>1 DEF Live!Running
<1>4. Live!TypeOK' BY <1>t, Answers DEF Live!TypeOK
<1>5. \A d \in LiveChannels : Live!Used(d)' BY <1>1 DEF Live!IInv, Live!Used
<1>6. ASSUME NEW s \in LiveRequests PROVE Live!Told(s)'
  <2>1. CASE s = r
    <3>1. ok => (s4'[r].at = "write" /\ s4'[r].op = s4[r].op /\ s4'[r].c = c
              /\ s4'[r].got = got)
      BY <1>1, Answers
    <3>2. CASE ok BY <1>1, <1>2, <2>1, <3>1, <3>2 DEF Live!Told, Live!Up
    <3>3. CASE ~ok BY <1>1, <2>1, <3>3, Answers DEF Live!Told
    <3> QED BY <3>2, <3>3
  <2>2. CASE s # r
    <3>1. Live!Told(s) BY DEF Live!IInv
    <3>2. /\ s4'[s].at = s4[s].at /\ s4'[s].op = s4[s].op /\ s4'[s].c = s4[s].c
          /\ s4'[s].got = s4[s].got /\ (s4'[s].clean => s4[s].clean)
          /\ (s4[s].at = "call" => s4'[s].clean = s4[s].clean)
          /\ (s4[s].c = c /\ s4[s].at = "write" => ~s4'[s].clean)
      BY <1>1, <2>2, Answers
    <3>3. s4'[s].at = "write" /\ s4'[s].clean => s4'[s].c # c BY <3>2
    <3>4. s4'[s].at = "write" /\ s4'[s].clean /\ s4'[s].got \notin Live!Up =>
            s2'[s4'[s].c].status \notin Live!Up
      BY <1>1, <3>1, <3>2, <3>3 DEF Live!Told, Live!Running, Live!Up
    <3> QED BY <3>1, <3>2, <3>4 DEF Live!Told, Live!Running, Live!Up
  <2> QED BY <2>1, <2>2
<1>7. Live!Known(c)'
  <2>1. CASE ~ok BY <1>1, <2>1 DEF Live!Doubt, Live!Known
  <2>2. CASE ok /\ got \in Live!Up
    <3>1. s4[r].op = "start" /\ s4[r].clean BY <1>t, <2>2 DEF Live!Up, Live!Told
    <3>2. Live!Starts(r, c)' BY <1>1, <2>2, <3>1, Answers DEF Live!Starts
    <3> QED BY <3>2 DEF Live!Known
  <2>3. CASE got \notin Live!Up BY <1>2, <2>3 DEF Live!Known
  <2> QED BY <2>1, <2>2, <2>3
<1>8. ASSUME NEW d \in LiveChannels \ {c} PROVE Live!Known(d)'
  <2>1. Live!Known(d) /\ (d \in s5' <=> d \in s5) BY <1>1 DEF Live!IInv, Live!Doubt
  <2>2. \A s \in LiveRequests : Live!Starts(s, d) => Live!Starts(s, d)'
    BY <1>1, Answers DEF Live!Starts
  <2> QED BY <1>3, <2>1, <2>2 DEF Live!Known
<1> QED BY <1>4, <1>5, <1>6, <1>7, <1>8 DEF Live!IInv

LEMMA CallSteps ==
  ASSUME Live!ChannelConstants, Live!IInv, NEW r \in LiveRequests,
         \/ \E ok \in BOOLEAN : Live!stop_channel(r,
                ok) \/ \E status \in Live!Statuses : Live!start_channel(r, status, ok)
         \/ Live!get_channel_status(r) \/ Live!Unreachable(r)
  PROVE  Live!IInv'
<1>t. Live!TypeOK /\ Live!Told(r) /\ "offline" \in Live!Statuses
  BY DEF Live!IInv, Live!Statuses
<1>1. ASSUME NEW ok \in BOOLEAN, Live!stop_channel(r, ok) PROVE Live!IInv'
  <2>1. /\ s4[r].op \in {"stop", "delete"} /\ s4[r].at = "call"
               /\ s2' = [s2 EXCEPT ![s4[r].c].status = "offline"]
        /\ Live!Answered(r, "offline", ok) /\ Live!Doubt(r, ok) /\ UNCHANGED <<s1, s3>>
    BY <1>1 DEF Live!stop_channel
  <2>2. s4[r].c \in LiveChannels BY <1>t, <2>1 DEF Live!Told
  <2>3. s2' \in [LiveChannels -> [status : Live!Statuses, source : LiveSources \cup {None}]]
    BY <1>t, <2>1, <2>2 DEF Live!TypeOK
  <2>4. s2'[s4[r].c].status = "offline"
            /\ \A d \in LiveChannels \ {s4[r].c} : s2'[d] = s2[d]
    BY <1>t, <2>1, <2>2 DEF Live!TypeOK
  <2> QED BY <1>t, <2>1, <2>3, <2>4, ServiceActs
<1>2. ASSUME NEW ok \in BOOLEAN, NEW status \in Live!Statuses, Live!start_channel(r,
                 status, ok) PROVE Live!IInv'
  <2>1. /\ s4[r].op = "start" /\ s4[r].at = "call"
        /\ s2' = [s2 EXCEPT ![s4[r].c] = [status |-> status, source |-> s4[r].source]]
        /\ Live!Answered(r, status, ok) /\ Live!Doubt(r, ok) /\ UNCHANGED <<s1, s3>>
    BY <1>2 DEF Live!start_channel
  <2>2. s4[r].c \in LiveChannels /\ s4[r].source \in LiveSources \cup {None}
    BY <1>t, <2>1 DEF Live!Told, Live!TypeOK, Live!ReqType
  <2>3. s2' \in [LiveChannels -> [status : Live!Statuses, source : LiveSources \cup {None}]]
    BY <1>t, <2>1, <2>2 DEF Live!TypeOK
  <2>4. s2'[s4[r].c].status = status /\ \A d \in LiveChannels \ {s4[r].c} : s2'[d] = s2[d]
    BY <1>t, <2>1, <2>2 DEF Live!TypeOK
  <2> QED BY <2>1, <2>3, <2>4, ServiceActs
<1>3. CASE Live!get_channel_status(r)
  <2>1. /\ s4[r].op = "status" /\ s4[r].at = "call"
        /\ Live!Answered(r, s2[s4[r].c].status, TRUE) /\ UNCHANGED <<s1, s2, s3, s5>>
    BY <1>3 DEF Live!get_channel_status
  <2>2. s4[r].c \in LiveChannels /\ s4[r].c \in s3 /\ s4[r].clean
    BY <1>t, <2>1 DEF Live!Told
  <2>3. s2[s4[r].c].status \in Live!Statuses BY <1>t, <2>2 DEF Live!TypeOK
  <2>4. /\ s4' \in [LiveRequests -> Live!ReqType] /\ s4'[r].at = "write"
               /\ s4'[r].op = "status" /\ s4'[r].c = s4[r].c
        /\ s4'[r].got = s2[s4[r].c].status
        /\ \A s \in LiveRequests \ {r} : s4'[s] = s4[s]
    BY <2>1, <2>3, Answers
  <2>5. Live!TypeOK' BY <1>t, <2>1, <2>4 DEF Live!TypeOK
  <2>6. Live!Told(r)' BY <2>1, <2>2, <2>4 DEF Live!Told, Live!Running, Live!Up
  <2>7. ASSUME NEW d \in LiveChannels PROVE Live!Used(d)' /\ Live!Known(d)'
    <3>1. \A s \in LiveRequests : Live!Starts(s, d) => Live!Starts(s, d)'
      BY <2>1, <2>4 DEF Live!Starts
    <3> QED BY <2>1, <3>1 DEF Live!IInv, Live!Used, Live!Known, Live!Running
  <2> QED BY <2>1, <2>4, <2>5, <2>6, <2>7, Quiet
<1>4. CASE Live!Unreachable(r)
  <2>1. /\ s4[r].at = "call" /\ UNCHANGED <<s1, s2, s3, s5>>
        /\ s4' = [s4 EXCEPT ![r] = IF s4[r].op # "delete" THEN Live!Idle
                               ELSE [s4[r] EXCEPT !.at = "write", !.clean = FALSE]]
    BY <1>4 DEF Live!Unreachable
  <2>2. Live!Idle \in Live!ReqType /\ Live!Idle.at = "none"
    BY DEF Live!Idle, Live!ReqType, Live!Statuses
  <2>3. /\ [s4[r] EXCEPT !.at = "write", !.clean = FALSE] \in Live!ReqType
        /\ [s4[r] EXCEPT !.at = "write", !.clean = FALSE].c = s4[r].c
        /\ ~[s4[r] EXCEPT !.at = "write", !.clean = FALSE].clean
        /\ [s4[r] EXCEPT !.at = "write", !.clean = FALSE].at = "write"
    BY <1>t DEF Live!TypeOK, Live!ReqType
  <2>4. /\ s4' \in [LiveRequests -> Live!ReqType]
               /\ \A s \in LiveRequests \ {r} : s4'[s] = s4[s]
        /\ s4'[r].at = "none" \/ (s4'[r].at = "write" /\ ~s4'[r].clean
               /\ s4'[r].c = s4[r].c)
    BY <1>t, <2>1, <2>2, <2>3 DEF Live!TypeOK
  <2>5. Live!TypeOK' BY <1>t, <2>1, <2>4 DEF Live!TypeOK
  <2>6. Live!Told(r)' BY <1>t, <2>1, <2>4 DEF Live!Told
  <2>7. ASSUME NEW d \in LiveChannels PROVE Live!Used(d)' /\ Live!Known(d)'
    <3>1. \A s \in LiveRequests : Live!Starts(s, d) => Live!Starts(s, d)'
      BY <2>1, <2>4 DEF Live!Starts
    <3> QED BY <2>1, <3>1 DEF Live!IInv, Live!Used, Live!Known, Live!Running
  <2> QED BY <2>1, <2>4, <2>5, <2>6, <2>7, Quiet
<1> QED BY <1>1, <1>2, <1>3, <1>4

LEMMA WriteSteps ==
  ASSUME Live!ChannelConstants, Live!IInv, NEW r \in LiveRequests, Live!Write(r)
  PROVE  Live!IInv'
<1>t. Live!TypeOK /\ Live!Told(r) BY DEF Live!IInv
<1>i. Live!Idle \in Live!ReqType /\ Live!Idle.at = "none"
  BY DEF Live!Idle, Live!ReqType, Live!Statuses
<1>1. PICK c \in LiveChannels : c = s4[r].c /\ c \in s3 BY <1>t DEF Live!Told, Live!Write
<1>2. /\ s4[r].at = "write" /\ s4[r].op # "delete" /\ s4' = [s4 EXCEPT ![r] = Live!Idle]
      /\ s1' = IF s1[c] = None THEN s1
                ELSE [s1 EXCEPT ![c].status = IF s4[r].got # s4[r].was THEN s4[r].got
                        ELSE @,
                                 ![c].url = @ \/ (s4[r].op # "stop"
                                     /\ s4[r].got \in {"starting", "live"})]
      /\ s5' = IF s4[r].clean /\ s1[c] # None /\ s1'[c].status = s4[r].got
                     THEN s5 \ {c} ELSE s5 \cup {c}
      /\ UNCHANGED <<s2, s3>>
  BY <1>1 DEF Live!Write
<1>3. /\ s4' \in [LiveRequests -> Live!ReqType] /\ s4'[r] = Live!Idle
             /\ \A s \in LiveRequests \ {r} : s4'[s] = s4[s]
  BY <1>t, <1>i, <1>2 DEF Live!TypeOK
<1>4. /\ s1' \in [LiveChannels -> Live!RowType \cup {None}]
             /\ \A d \in LiveChannels \ {c} : s1'[d] = s1[d]
      /\ s1[c] # None => s1'[c] \in Live!RowType
  <2>1. CASE s1[c] = None BY <1>t, <1>2, <2>1 DEF Live!TypeOK
  <2>2. CASE s1[c] # None
    <3>1. s1[c] \in Live!RowType BY <1>t, <2>2 DEF Live!TypeOK
    <3> DEFINE x == [s1[c] EXCEPT !.status = IF s4[r].got # s4[r].was THEN s4[r].got ELSE @,
                                   !.url = @ \/ (s4[r].op # "stop"
                                       /\ s4[r].got \in {"starting", "live"})]
    <3>2. s1' = [s1 EXCEPT ![c] = x] BY <1>t, <1>2, <2>2 DEF Live!TypeOK
    <3>3. x \in Live!RowType
      <4>1. s4[r].got \in Live!Statuses BY <1>t DEF Live!TypeOK, Live!ReqType
      <4> QED BY <3>1, <4>1 DEF Live!RowType
    <3> HIDE DEF x
    <3> QED BY <1>t, <3>2, <3>3 DEF Live!TypeOK
  <2> QED BY <2>1, <2>2
<1>5. Live!TypeOK' BY <1>t, <1>2, <1>3, <1>4 DEF Live!TypeOK
<1>6. Live!Told(r)' BY <1>i, <1>3 DEF Live!Told
<1>7. \A d \in LiveChannels : Live!Used(d)' BY <1>1, <1>2, <1>4 DEF Live!IInv, Live!Used
<1>8. Live!Known(c)'
  <2>1. CASE s4[r].clean /\ s1[c] # None /\ s1'[c].status = s4[r].got
    <3>1. s1'[c] # None BY <1>4, <2>1 DEF Live!ChannelConstants
    <3>2. s4[r].got \notin Live!Up => ~Live!Running(c)
      BY <1>t, <1>1, <1>2, <2>1 DEF Live!Told
    <3> QED BY <1>2, <2>1, <3>1, <3>2 DEF Live!Known, Live!Running
  <2>2. CASE ~(s4[r].clean /\ s1[c] # None /\ s1'[c].status = s4[r].got)
    BY <1>2, <2>2 DEF Live!Known
  <2> QED BY <2>1, <2>2
<1>9. ASSUME NEW d \in LiveChannels \ {c} PROVE Live!Known(d)'
  <2>1. Live!Known(d) /\ (d \in s5' <=> d \in s5) BY <1>2 DEF Live!IInv
  <2>2. \A s \in LiveRequests : Live!Starts(s, d) => Live!Starts(s, d)'
    BY <1>1, <1>3 DEF Live!Starts
  <2> QED BY <1>2, <1>4, <2>1, <2>2 DEF Live!Known, Live!Running
<1> QED BY <1>2, <1>3, <1>5, <1>6, <1>7, <1>8, <1>9, Quiet

LEMMA DeleteSteps ==
  ASSUME Live!ChannelConstants, Live!IInv, NEW r \in LiveRequests, Live!delete_channel(r)
  PROVE  Live!IInv'
<1>t. Live!TypeOK /\ Live!Told(r) BY DEF Live!IInv
<1>i. Live!Idle \in Live!ReqType /\ Live!Idle.at = "none"
  BY DEF Live!Idle, Live!ReqType, Live!Statuses
<1>1. PICK c \in LiveChannels : c = s4[r].c /\ c \in s3
  BY <1>t DEF Live!Told, Live!delete_channel
<1>2. /\ s4[r].at = "write" /\ s4[r].op = "delete" /\ s4' = [s4 EXCEPT ![r] = Live!Idle]
      /\ s1' = [s1 EXCEPT ![c] = None] /\ s5' = (IF s4[r].clean THEN s5 ELSE s5 \cup {c})
      /\ UNCHANGED <<s2, s3>>
  BY <1>1 DEF Live!delete_channel
<1>3. /\ s4' \in [LiveRequests -> Live!ReqType] /\ s4'[r] = Live!Idle
             /\ \A s \in LiveRequests \ {r} : s4'[s] = s4[s]
  BY <1>t, <1>i, <1>2 DEF Live!TypeOK
<1>4. s1' \in [LiveChannels -> Live!RowType \cup {None}]
          /\ \A d \in LiveChannels \ {c} : s1'[d] = s1[d]
  BY <1>t, <1>2 DEF Live!TypeOK
<1>5. Live!TypeOK' BY <1>t, <1>2, <1>3, <1>4 DEF Live!TypeOK
<1>6. Live!Told(r)' BY <1>i, <1>3 DEF Live!Told
<1>7. \A d \in LiveChannels : Live!Used(d)' BY <1>1, <1>2, <1>4 DEF Live!IInv, Live!Used
<1>8. Live!Known(c)' BY <1>t, <1>1, <1>2 DEF Live!Known, Live!Told, Live!Running
<1>9. ASSUME NEW d \in LiveChannels \ {c} PROVE Live!Known(d)'
  <2>1. Live!Known(d) /\ (d \in s5' <=> d \in s5) BY <1>2 DEF Live!IInv
  <2>2. \A s \in LiveRequests : Live!Starts(s, d) => Live!Starts(s, d)'
    BY <1>1, <1>3 DEF Live!Starts
  <2> QED BY <1>2, <1>4, <2>1, <2>2 DEF Live!Known, Live!Running
<1> QED BY <1>2, <1>3, <1>5, <1>6, <1>7, <1>8, <1>9, Quiet

LEMMA ProgressSteps ==
  ASSUME Live!ChannelConstants, Live!IInv, NEW c \in LiveChannels,
             NEW status \in Live!Statuses, Live!Progress(c, status)
  PROVE  Live!IInv'
<1>t. Live!TypeOK BY DEF Live!IInv
<1>1. Live!Running(c) /\ s2' = [s2 EXCEPT ![c].status = status] /\ UNCHANGED <<s1, s3, s4,
          s5>>
  BY DEF Live!Progress
<1>2. /\ s2' \in [LiveChannels -> [status : Live!Statuses,
             source : LiveSources \cup {None}]]
      /\ \A d \in LiveChannels \ {c} : s2'[d] = s2[d]
  BY <1>t, <1>1 DEF Live!TypeOK
<1>3. \A d \in LiveChannels : Live!Running(d)' => Live!Running(d)
  BY <1>1, <1>2 DEF Live!Running
<1>4. Live!TypeOK' BY <1>t, <1>1, <1>2 DEF Live!TypeOK
<1>5. c \in s3 BY <1>1 DEF Live!IInv, Live!Used, Live!Running
<1>6. \A d \in LiveChannels : Live!Used(d)' /\ Live!Known(d)'
  BY <1>1, <1>2, <1>3, <1>5 DEF Live!IInv, Live!Used, Live!Known, Live!Starts
<1>7. ASSUME NEW r \in LiveRequests PROVE Live!Told(r)'
  <2>1. Live!Told(r) /\ s4' = s4 BY <1>1 DEF Live!IInv
  <2>2. s4[r].at # "none" => (s2'[s4[r].c].status \in Live!Up => Live!Running(s4[r].c))
    BY <1>3, <2>1 DEF Live!Told, Live!Running, Live!Up
  <2>3. s4'[r].at = "write" /\ s4'[r].clean /\ s4'[r].got \notin Live!Up =>
          s2'[s4'[r].c].status \notin Live!Up
    BY <2>1, <2>2 DEF Live!Told, Live!Running, Live!Up
  <2> QED BY <1>1, <2>1, <2>3 DEF Live!Told, Live!Running, Live!Up
<1> QED BY <1>4, <1>6, <1>7 DEF Live!IInv

LEMMA LiveNext == ASSUME Live!ChannelConstants, Live!IInv,
    [Live!Next]_(Live!vars) PROVE Live!IInv'
<1>1. CASE UNCHANGED Live!vars
  BY <1>1 DEF Live!vars, Live!IInv, Live!TypeOK, Live!Used, Live!Known, Live!Starts,
     Live!Told, Live!Running
<1>2. CASE Live!Next
  BY <1>2, RowSteps, LoadSteps, CallSteps, WriteSteps, DeleteSteps, ProgressSteps
     DEF Live!Next
<1> QED BY <1>1, <1>2

LEMMA LiveOrphan == ASSUME Live!ChannelConstants, Live!IInv PROVE Live!NoOrphan
  BY DEF Live!NoOrphan, Live!IInv, Live!Known, Live!Starts, Live!Up

-----------------------------------------------------------------------------
(* Playlists, of titles and of live channels: Stream(FALSE), Stream(TRUE). *)
(* Here s1 to s8 are public, state, token, rawIn, bodyIn, rawShared,       *)
(* bodyShared and req.                                                     *)
LEMMA StreamInit == ASSUME NEW live \in BOOLEAN, Stream(live)!PlaybackConstants,
    Stream(live)!Init PROVE Stream(live)!IInv
<1>1. Stream(live)!Idle \in Stream(live)!ReqType /\ Stream(live)!InTime(Stream(live)!Idle)
  BY DEF Stream!Idle, Stream!ReqType, Stream!Ops, Stream!Steps, Stream!InTime,
     Stream!PlaybackConstants
<1>2. Stream(live)!TypeOK BY <1>1 DEF Stream!TypeOK, Stream!Init
<1>3. Stream(live)!Kept BY DEF Stream!Kept, Stream!EndsBy, Stream!Init
<1> QED BY <1>1, <1>2, <1>3 DEF Stream!IInv, Stream!Init

(* A step of one request.                                                  *)
LEMMA RequestSteps ==
  ASSUME NEW live \in BOOLEAN, Stream(live)!PlaybackConstants, Stream(live)!IInv,
             NEW r \in StreamRequests, NEW x \in Stream(live)!ReqType,
                 Stream(live)!InTime(x),
         s8' = [s8 EXCEPT ![r] = x], UNCHANGED <<s3, Stream(live)!caches>>
  PROVE  Stream(live)!IInv'
<1>1. Stream(live)!TypeOK' BY DEF Stream!IInv, Stream!TypeOK, Stream!caches
<1>2. Stream(live)!Kept' BY DEF Stream!IInv, Stream!Kept, Stream!EndsBy, Stream!caches
<1>3. \A q \in StreamRequests : s8'[q] = IF q = r THEN x ELSE s8[q]
  BY DEF Stream!IInv, Stream!TypeOK
<1>4. \A q \in StreamRequests : Stream(live)!InTime(s8[q])'
  BY <1>3 DEF Stream!IInv, Stream!InTime, Stream!Idle
<1> QED BY <1>1, <1>2, <1>4 DEF Stream!IInv

(* A request begins with nothing in hand but what its token asks.          *)
LEMMA RequestBegins ==
  ASSUME NEW live \in BOOLEAN, Stream(live)!PlaybackConstants, Stream(live)!IInv,
             NEW r \in StreamRequests,
         \/ Stream(live)!authorize_playback(r)
         \/ Stream(live)!authorize_channel_playback(r)
         \/ Stream(live)!admin_authorize_playback(r)
         \/ Stream(live)!master_playlist(r)
         \/ Stream(live)!variant_playlist(r)
         \/ Stream(live)!channel_live_playlist(r)
  PROVE  Stream(live)!IInv'
<1>1. ASSUME NEW op \in Stream(live)!Ops \ {"idle"},
                 NEW at \in Stream(live)!Steps \ {"none"}, NEW n \in Nat,
                     Stream(live)!Begin(r, op, at, n),
             \/ at = "mint" /\ op = "token" /\ n = 0
             \/ at \in {"raw", "body"} /\ n <= StreamLife[live] - 1 + StreamLag[live]
      PROVE  Stream(live)!IInv'
  <2> DEFINE x == [Stream(live)!Idle EXCEPT !.op = op, !.at = at, !.asked = n]
  <2>1. /\ x.op = op /\ x.at = at /\ x.asked = n
        /\ x.age = 0 /\ x.body = 0 /\ x.raw = 0 /\ x.read = 0 /\ x.made = 0
    BY DEF Stream!Idle
  <2>2. x \in Stream(live)!ReqType BY DEF Stream!Idle, Stream!ReqType
  <2>3. s8' = [s8 EXCEPT ![r] = x] /\ UNCHANGED <<s3, Stream(live)!caches>>
    BY <1>1 DEF Stream!Begin
  <2> HIDE DEF x
  <2>4. Stream(live)!InTime(x)
    BY <1>1, <2>1 DEF Stream!InTime, Stream!Idle, Stream!PlaybackConstants, Stream!Ops,
       Stream!Steps
  <2> QED BY <2>2, <2>3, <2>4, RequestSteps
<1>2. Stream(live)!verify_playback_token(s3) => s3.asked \in Nat
          /\ s3.asked <= StreamLife[live] - 1 + StreamLag[live]
  BY DEF Stream!verify_playback_token, Stream!IInv, Stream!TypeOK, Stream!TokenType,
     Stream!Kept, Stream!PlaybackConstants
<1>3. CASE \/ Stream(live)!authorize_playback(r)
          \/ Stream(live)!authorize_channel_playback(r)
          \/ Stream(live)!admin_authorize_playback(r)
  <2>1. Stream(live)!Begin(r, "token", "mint", 0)
    BY <1>3 DEF Stream!authorize_playback, Stream!authorize_channel_playback,
       Stream!admin_authorize_playback
  <2>2. "token" \in Stream(live)!Ops \ {"idle"} /\ "mint" \in Stream(live)!Steps \ {"none"}
    BY DEF Stream!Ops, Stream!Steps
  <2>3. \A n \in Nat : n = 0 /\ Stream(live)!Begin(r, "token", "mint", n)
            => Stream(live)!IInv'
    BY <1>1, <2>2
  <2> QED BY <2>1, <2>3
<1>4. ASSUME NEW op \in Stream(live)!Ops \ {"idle"}, NEW at \in {"raw", "body"},
                 Stream(live)!verify_playback_token(s3),
             Stream(live)!Begin(r, op, at, s3.asked)
      PROVE  Stream(live)!IInv'
  <2>1. at \in Stream(live)!Steps \ {"none"} BY DEF Stream!Steps
  <2> QED BY <1>1, <1>2, <1>4, <2>1
<1>5. {"master", "variant", "live"} \subseteq Stream(live)!Ops \ {"idle"} BY DEF Stream!Ops
<1>6. CASE Stream(live)!master_playlist(r) BY <1>4, <1>5, <1>6 DEF Stream!master_playlist
<1>7. CASE Stream(live)!variant_playlist(r) BY <1>4, <1>5, <1>7 DEF Stream!variant_playlist
<1>8. CASE Stream(live)!channel_live_playlist(r)
  BY <1>4, <1>5, <1>8 DEF Stream!channel_live_playlist
<1> QED BY <1>3, <1>6, <1>7, <1>8

(* A text in hand is served, or rewritten first.                           *)
(* A request that has the text a lookup found.                             *)
LEMMA HasText ==
  ASSUME NEW live \in BOOLEAN, Stream(live)!PlaybackConstants, Stream(live)!IInv,
             NEW r \in StreamRequests, NEW n \in Nat,
         s8[r].at \in {"raw", "sharedRaw", "keepRaw", "shareRaw"},
         n <= 2 * (StreamTtl[live] - 1) + StreamLag[live] + s8[r].age,
         s8[r].op = "variant"
             => n <= 2 * (StreamTtl[live] - 1) + StreamLag[live] + s8[r].body
  PROVE  \E x \in Stream(live)!ReqType : Stream(live)!InTime(x) /\ Stream(live)!Got(r,
             n) = [s8 EXCEPT ![r] = x]
<1>t. s8[r] \in Stream(live)!ReqType /\ Stream(live)!InTime(s8[r])
          /\ s8 \in [StreamRequests -> Stream(live)!ReqType]
  BY DEF Stream!IInv, Stream!TypeOK
<1> DEFINE q == s8[r]
           x == [q EXCEPT !.at = IF q.op = "variant" THEN "rewrite" ELSE "served",
                          !.read = n, !.made = 0]
<1>1. x \in Stream(live)!ReqType BY <1>t DEF Stream!ReqType, Stream!Steps
<1>2. /\ x.at = IF q.op = "variant" THEN "rewrite" ELSE "served"
      /\ x.read = n /\ x.made = 0 /\ x.op = q.op /\ x.age = q.age /\ x.asked = q.asked
      /\ x.body = q.body /\ x.raw = q.raw
  BY <1>t DEF Stream!ReqType
<1>3. Stream(live)!Got(r, n) = [s8 EXCEPT ![r] = x] BY <1>t DEF Stream!Got, Stream!ReqType
<1> HIDE DEF x
<1>4. q.op # "idle" BY <1>t DEF Stream!InTime, Stream!Idle
<1>5. Stream(live)!InTime(x)
  BY <1>t, <1>2, <1>4 DEF Stream!InTime, Stream!Idle, Stream!ReqType,
     Stream!PlaybackConstants
<1> QED BY <1>1, <1>3, <1>5

(* A step to the next place, with what the request has.                    *)
LEMMA Onward ==
  ASSUME NEW live \in BOOLEAN, Stream(live)!PlaybackConstants, Stream(live)!IInv,
             NEW r \in StreamRequests, NEW at \in Stream(live)!Steps,
         \/ s8[r].at = "body" /\ at = "sharedBody"
         \/ s8[r].at = "sharedBody" /\ at = "raw"
         \/ s8[r].at = "raw" /\ at \in {"sharedRaw", "fetch"}
         \/ s8[r].at = "sharedRaw" /\ at = "fetch"
         \/ s8[r].at = "fetch" /\ at = "keepRaw"
         \/ s8[r].at = "keepRaw" /\ at = "shareRaw"
         \/ s8[r].at = "rewrite" /\ at = "keepBody"
         \/ s8[r].at = "keepBody" /\ at = "shareBody"
         \/ s8[r].at = "shareBody" /\ at = "served"
  PROVE  \E x \in Stream(live)!ReqType : Stream(live)!InTime(x) /\ Stream(live)!To(r,
             at) = [s8 EXCEPT ![r] = x]
<1>t. s8[r] \in Stream(live)!ReqType /\ Stream(live)!InTime(s8[r])
          /\ s8 \in [StreamRequests -> Stream(live)!ReqType]
  BY DEF Stream!IInv, Stream!TypeOK
<1> DEFINE q == s8[r]
           x == [q EXCEPT !.at = at]
<1>1. x \in Stream(live)!ReqType BY <1>t DEF Stream!ReqType
<1>2. /\ x.at = at /\ x.op = q.op /\ x.age = q.age /\ x.asked = q.asked
      /\ x.body = q.body /\ x.raw = q.raw /\ x.read = q.read /\ x.made = q.made
  BY <1>t DEF Stream!ReqType
<1>3. Stream(live)!To(r, at) = [s8 EXCEPT ![r] = x] BY <1>t DEF Stream!To, Stream!ReqType
<1> HIDE DEF x
<1>5. Stream(live)!InTime(x)
  BY <1>t, <1>2 DEF Stream!InTime, Stream!Idle, Stream!ReqType, Stream!PlaybackConstants,
     Stream!Steps
<1> QED BY <1>1, <1>3, <1>5

(* What a look at a copy finds.                                            *)
(* What a lookup can find in a worker and in the shared cache.             *)
LEMMA Found ==
  ASSUME NEW live \in BOOLEAN, Stream(live)!PlaybackConstants, Stream(live)!TypeOK,
             Stream(live)!Kept, NEW w \in StreamWorkers[live]
  PROVE  /\ s4[w] # None => s4[w].read \in Nat
                /\ s4[w].read <= 2 * (StreamTtl[live] - 1) + StreamLag[live]
         /\ s6 # None =>
              s6.read \in Nat /\ s6.read <= StreamTtl[live] - 1 + StreamLag[live]
         /\ s5[w] # None =>
              /\ s5[w].read \in Nat
                     /\ s5[w].read <= 4 * (StreamTtl[live] - 1) + 2 * StreamLag[live]
              /\ s5[w].made \in Nat
                     /\ s5[w].made <= 2 * (StreamTtl[live] - 1) + StreamLag[live]
         /\ s7 # None =>
              /\ s7.read \in Nat
                     /\ s7.read <= 3 * (StreamTtl[live] - 1) + 2 * StreamLag[live]
              /\ s7.made \in Nat /\ s7.made <= StreamTtl[live] - 1 + StreamLag[live]
<1>1. ASSUME NEW c \in Stream(live)!CopyType \cup {None}, NEW n \in Int, NEW m \in Int,
                 Stream(live)!EndsBy(c, n, m)
      PROVE  c # None => /\ c.read \in Nat /\ c.read <= n - 1
                         /\ c.made \in Nat /\ c.made <= m - 1
  BY <1>1 DEF Stream!EndsBy, Stream!CopyType
<1>2. /\ s4[w] \in Stream(live)!CopyType \cup {None}
             /\ s6 \in Stream(live)!CopyType \cup {None}
      /\ s5[w] \in Stream(live)!CopyType \cup {None}
             /\ s7 \in Stream(live)!CopyType \cup {None}
  BY DEF Stream!TypeOK
<1>3. s4[w] # None => s4[w].read \in Nat
          /\ s4[w].read <= 2 * (StreamTtl[live] - 1) + StreamLag[live]
  BY <1>1, <1>2 DEF Stream!Kept, Stream!PlaybackConstants
<1>4. s6 # None => s6.read \in Nat /\ s6.read <= StreamTtl[live] - 1 + StreamLag[live]
  BY <1>1, <1>2 DEF Stream!Kept, Stream!PlaybackConstants
<1>5. s5[w] # None =>
         /\ s5[w].read \in Nat
                /\ s5[w].read <= 4 * (StreamTtl[live] - 1) + 2 * StreamLag[live]
         /\ s5[w].made \in Nat /\ s5[w].made <= 2 * (StreamTtl[live] - 1) + StreamLag[live]
  BY <1>1, <1>2 DEF Stream!Kept, Stream!PlaybackConstants
<1>6. s7 # None =>
         /\ s7.read \in Nat /\ s7.read <= 3 * (StreamTtl[live] - 1) + 2 * StreamLag[live]
         /\ s7.made \in Nat /\ s7.made <= StreamTtl[live] - 1 + StreamLag[live]
  BY <1>1, <1>2 DEF Stream!Kept, Stream!PlaybackConstants
<1> QED BY <1>3, <1>4, <1>5, <1>6


(* A copy kept for a time that was counted from a miss.                    *)
(* A copy made to last until a bound ends by it.                           *)
LEMMA Copied ==
  ASSUME NEW live \in BOOLEAN, NEW left \in Int, NEW n \in Nat, NEW m \in Nat,
             NEW a \in Int, NEW b \in Int,
         left + n <= a, left + m <= b
  PROVE  Stream(live)!Copy(left, n, m) \in Stream(live)!CopyType \cup {None}
             /\ Stream(live)!EndsBy(Stream(live)!Copy(left, n, m), a, b)
<1>1. CASE left < 1 BY <1>1 DEF Stream!Copy, Stream!EndsBy
<1>2. CASE left >= 1
  <2> DEFINE c == [left |-> left, read |-> n, made |-> m]
  <2>1. Stream(live)!Copy(left, n, m) = c BY <1>2 DEF Stream!Copy
  <2>2. c \in Stream(live)!CopyType /\ c.left = left /\ c.read = n /\ c.made = m
    BY <1>2 DEF Stream!CopyType
  <2> HIDE DEF c
  <2> QED BY <2>1, <2>2 DEF Stream!EndsBy
<1> QED BY <1>1, <1>2

(* A step that keeps a copy.                                               *)
(* A step of one request that leaves every copy as it is bounded.          *)
LEMMA Stored ==
  ASSUME NEW live \in BOOLEAN, Stream(live)!PlaybackConstants, Stream(live)!IInv,
             NEW r \in StreamRequests, NEW x \in Stream(live)!ReqType,
                 Stream(live)!InTime(x),
         s8' = [s8 EXCEPT ![r] = x], s3' = s3, Stream(live)!TypeOK', Stream(live)!Kept'
  PROVE  Stream(live)!IInv'
<1>3. \A q \in StreamRequests : s8'[q] = IF q = r THEN x ELSE s8[q]
  BY DEF Stream!IInv, Stream!TypeOK
<1>4. \A q \in StreamRequests : Stream(live)!InTime(s8[q])'
  BY <1>3 DEF Stream!IInv, Stream!InTime, Stream!Idle
<1> QED BY <1>4 DEF Stream!IInv

LEMMA Looked ==
  ASSUME NEW live \in BOOLEAN, Stream(live)!PlaybackConstants, Stream(live)!IInv,
             NEW r \in StreamRequests,
         \/ Stream(live)!LookBody(r) \/ Stream(live)!LookRaw(r)
         \/ Stream(live)!Rewrite(r) \/ Stream(live)!Done(r)
         \/ \E ok \in BOOLEAN : Stream(live)!Fetch(r, ok)
  PROVE  Stream(live)!IInv'
<1>t. /\ s8[r] \in Stream(live)!ReqType /\ Stream(live)!InTime(s8[r])
             /\ s8 \in [StreamRequests -> Stream(live)!ReqType]
      /\ StreamWorker[live][r] \in StreamWorkers[live] /\ Stream(live)!TypeOK
             /\ Stream(live)!Kept
  BY DEF Stream!IInv, Stream!TypeOK, Stream!PlaybackConstants
<1>i. Stream(live)!Idle \in Stream(live)!ReqType /\ Stream(live)!InTime(Stream(live)!Idle)
  BY DEF Stream!Idle, Stream!ReqType, Stream!Ops, Stream!Steps, Stream!InTime,
     Stream!PlaybackConstants
<1>1. CASE Stream(live)!LookBody(r)
  <2>1. CASE s5[StreamWorker[live][r]] = None
    BY <1>1, <2>1, Onward, RequestSteps DEF Stream!LookBody, Stream!Steps
  <2>2. CASE s5[StreamWorker[live][r]] # None
    <3> DEFINE b == s5[StreamWorker[live][r]]
               x == [s8[r] EXCEPT !.at = "served", !.read = b.read, !.made = b.made]
    <3>1. /\ b.read \in Nat /\ b.read <= 4 * (StreamTtl[live] - 1) + 2 * StreamLag[live]
          /\ b.made \in Nat /\ b.made <= 2 * (StreamTtl[live] - 1) + StreamLag[live]
      BY <1>t, <2>2, Found
    <3>2. s8' = [s8 EXCEPT ![r] = x] /\ UNCHANGED <<s3, Stream(live)!caches>>
      BY <1>1, <1>t, <2>2 DEF Stream!LookBody, Stream!ReqType
    <3>3. x \in Stream(live)!ReqType BY <1>t, <3>1 DEF Stream!ReqType, Stream!Steps
    <3>4. /\ x.at = "served" /\ x.read = b.read /\ x.made = b.made /\ x.op = s8[r].op
          /\ x.age = s8[r].age /\ x.asked = s8[r].asked
          /\ x.body = s8[r].body /\ x.raw = s8[r].raw
      BY <1>t DEF Stream!ReqType
    <3>5. s8[r].at = "body" BY <1>1 DEF Stream!LookBody
    <3> HIDE DEF b, x
    <3>6. Stream(live)!InTime(x)
      BY <1>t, <3>1, <3>4, <3>5 DEF Stream!InTime, Stream!Idle, Stream!ReqType,
         Stream!PlaybackConstants
    <3> QED BY <3>2, <3>3, <3>6, RequestSteps
  <2> QED BY <2>1, <2>2
<1>2. CASE Stream(live)!LookRaw(r)
  <2>1. CASE s4[StreamWorker[live][r]] = None
    BY <1>2, <2>1, Onward, RequestSteps DEF Stream!LookRaw, Stream!Steps
  <2>2. CASE s4[StreamWorker[live][r]] # None
    <3>1. PICK n \in Nat : n = s4[StreamWorker[live][r]].read
                   /\ n <= 2 * (StreamTtl[live] - 1) + StreamLag[live]
      BY <1>t, <2>2, Found
    <3>2. /\ s8' = Stream(live)!Got(r, n) /\ s8[r].at = "raw" /\ UNCHANGED <<s3,
                 Stream(live)!caches>>
      BY <1>2, <2>2, <3>1 DEF Stream!LookRaw
    <3>3. /\ n <= 2 * (StreamTtl[live] - 1) + StreamLag[live] + s8[r].age
          /\ n <= 2 * (StreamTtl[live] - 1) + StreamLag[live] + s8[r].body
      BY <1>t, <3>1 DEF Stream!ReqType, Stream!PlaybackConstants
    <3>4. \E x \in Stream(live)!ReqType : Stream(live)!InTime(x) /\ Stream(live)!Got(r,
              n) = [s8 EXCEPT ![r] = x]
      BY <3>2, <3>3, HasText
    <3> QED BY <3>2, <3>4, RequestSteps
  <2> QED BY <2>1, <2>2
<1>3. CASE Stream(live)!Rewrite(r)
  BY <1>3, Onward, RequestSteps DEF Stream!Rewrite, Stream!Steps
<1>4. CASE Stream(live)!Done(r) BY <1>4, <1>i, RequestSteps DEF Stream!Done
<1>5. ASSUME NEW ok \in BOOLEAN, Stream(live)!Fetch(r, ok) PROVE Stream(live)!IInv'
  <2>1. CASE ok BY <1>5, <2>1, Onward, RequestSteps DEF Stream!Fetch, Stream!Steps
  <2>2. CASE ~ok BY <1>5, <1>i, <2>2, RequestSteps DEF Stream!Fetch
  <2> QED BY <2>1, <2>2
<1> QED BY <1>1, <1>2, <1>3, <1>4, <1>5

(* A token that is minted.                                                 *)
LEMMA TokenMinted ==
  ASSUME NEW live \in BOOLEAN, Stream(live)!PlaybackConstants, Stream(live)!IInv,
             NEW r \in StreamRequests, Stream(live)!create_playback_token(r)
  PROVE  Stream(live)!IInv'
<1>t. /\ s8[r] \in Stream(live)!ReqType /\ Stream(live)!InTime(s8[r]) /\ s8[r].at = "mint"
  BY DEF Stream!IInv, Stream!TypeOK, Stream!create_playback_token
<1>1. /\ s3'.left = StreamLife[live] /\ s3'.asked = s8[r].asked
             /\ s3' \in Stream(live)!TokenType
      /\ s8' = [s8 EXCEPT ![r] = Stream(live)!Idle] /\ UNCHANGED Stream(live)!caches
  BY <1>t DEF Stream!create_playback_token, Stream!TokenType, Stream!PlaybackConstants,
     Stream!ReqType
<1>2. Stream(live)!Idle \in Stream(live)!ReqType /\ Stream(live)!InTime(Stream(live)!Idle)
  BY DEF Stream!Idle, Stream!ReqType, Stream!Ops, Stream!Steps, Stream!InTime,
     Stream!PlaybackConstants
<1>3. s8[r].asked <= StreamLag[live]
  BY <1>t DEF Stream!InTime, Stream!ReqType, Stream!PlaybackConstants
<1>4. Stream(live)!TypeOK' BY <1>1, <1>2 DEF Stream!IInv, Stream!TypeOK, Stream!caches
<1>5. Stream(live)!Kept'
  BY <1>t, <1>1, <1>3 DEF Stream!IInv, Stream!Kept, Stream!EndsBy, Stream!caches,
     Stream!PlaybackConstants, Stream!ReqType
<1>6. \A q \in StreamRequests : s8'[q] = IF q = r THEN Stream(live)!Idle ELSE s8[q]
  BY <1>1 DEF Stream!IInv, Stream!TypeOK
<1>7. \A q \in StreamRequests : Stream(live)!InTime(s8[q])'
  BY <1>2, <1>6 DEF Stream!IInv, Stream!InTime, Stream!Idle
<1> QED BY <1>4, <1>5, <1>7 DEF Stream!IInv

(* What a worker keeps.                                                    *)
LEMMA KeepsRaw ==
  ASSUME NEW live \in BOOLEAN, Stream(live)!PlaybackConstants, Stream(live)!IInv,
             NEW r \in StreamRequests, NEW x \in Stream(live)!ReqType,
                 Stream(live)!InTime(x),
         s8' = [s8 EXCEPT ![r] = x], NEW w \in StreamWorkers[live],
             NEW c \in Stream(live)!CopyType \cup {None},
         Stream(live)!EndsBy(c, 2 * StreamTtl[live] - 1 + StreamLag[live],
             2 * StreamTtl[live]), s4' = [s4 EXCEPT ![w] = c],
         UNCHANGED <<s3, s5, s6, s7>>
  PROVE  Stream(live)!IInv'
<1>1. Stream(live)!TypeOK' BY DEF Stream!IInv, Stream!TypeOK
<1>2. \A v \in StreamWorkers[live] : s4'[v] = IF v = w THEN c ELSE s4[v]
  BY DEF Stream!IInv, Stream!TypeOK
<1>3. \A v \in StreamWorkers[live] : Stream(live)!EndsBy(s4'[v],
          2 * StreamTtl[live] - 1 + StreamLag[live], 2 * StreamTtl[live])
  BY <1>2 DEF Stream!IInv, Stream!Kept
<1>4. Stream(live)!Kept' BY <1>3 DEF Stream!IInv, Stream!Kept, Stream!EndsBy
<1> QED BY <1>1, <1>4, Stored

LEMMA KeepsBody ==
  ASSUME NEW live \in BOOLEAN, Stream(live)!PlaybackConstants, Stream(live)!IInv,
             NEW r \in StreamRequests, NEW x \in Stream(live)!ReqType,
                 Stream(live)!InTime(x),
         s8' = [s8 EXCEPT ![r] = x], NEW w \in StreamWorkers[live],
             NEW c \in Stream(live)!CopyType \cup {None},
         Stream(live)!EndsBy(c, 4 * StreamTtl[live] - 3 + 2 * StreamLag[live],
             2 * StreamTtl[live] - 1 + StreamLag[live]),
         s5' = [s5 EXCEPT ![w] = c],
         UNCHANGED <<s3, s4, s6, s7>>
  PROVE  Stream(live)!IInv'
<1>1. Stream(live)!TypeOK' BY DEF Stream!IInv, Stream!TypeOK
<1>2. \A v \in StreamWorkers[live] : s5'[v] = IF v = w THEN c ELSE s5[v]
  BY DEF Stream!IInv, Stream!TypeOK
<1>3. \A v \in StreamWorkers[live] : Stream(live)!EndsBy(s5'[v],
          4 * StreamTtl[live] - 3 + 2 * StreamLag[live],
              2 * StreamTtl[live] - 1 + StreamLag[live])
  BY <1>2 DEF Stream!IInv, Stream!Kept
<1>4. Stream(live)!Kept' BY <1>3 DEF Stream!IInv, Stream!Kept, Stream!EndsBy
<1> QED BY <1>1, <1>4, Stored

(* The steps that read or write a copy of the text a channel or title has. *)
LEMMA RawCopies ==
  ASSUME NEW live \in BOOLEAN, Stream(live)!PlaybackConstants, Stream(live)!IInv,
             NEW r \in StreamRequests,
         Stream(live)!KeepRaw(r) \/ \E ok \in BOOLEAN : Stream(live)!SharedRaw(r,
             ok) \/ Stream(live)!ShareRaw(r, ok)
  PROVE  Stream(live)!IInv'
<1>t. /\ s8[r] \in Stream(live)!ReqType /\ Stream(live)!InTime(s8[r])
             /\ StreamWorker[live][r] \in StreamWorkers[live] /\ Stream(live)!TypeOK
                    /\ Stream(live)!Kept
  BY DEF Stream!IInv, Stream!TypeOK, Stream!PlaybackConstants
<1>n. /\ StreamTtl[live] \in Nat \ {0} /\ StreamLag[live] \in Nat /\ s8[r].raw \in Nat
             /\ s8[r].read \in Nat
      /\ s8[r].age \in Nat /\ s8[r].body \in Nat /\ s8[r].age <= StreamLag[live]
  BY <1>t DEF Stream!PlaybackConstants, Stream!ReqType, Stream!InTime
<1>1. CASE Stream(live)!KeepRaw(r)
  <2> DEFINE c == Stream(live)!Copy(StreamTtl[live] - s8[r].raw, s8[r].read, 0)
  <2>1. /\ s8[r].at = "keepRaw" /\ s8[r].read <= s8[r].raw /\ s8[r].raw <= s8[r].age
        /\ s8[r].op = "variant" => s8[r].raw <= s8[r].body
        /\ s4' = [s4 EXCEPT ![StreamWorker[live][r]] = c]
        /\ UNCHANGED <<s3, s5, s6, s7>>
    BY <1>1, <1>t DEF Stream!KeepRaw, Stream!InTime
  <2>2. /\ StreamTtl[live] - s8[r].raw \in Int
               /\ 2 * StreamTtl[live] - 1 + StreamLag[live] \in Int
                      /\ 2 * StreamTtl[live] \in Int
        /\ StreamTtl[live] - s8[r].raw + s8[r].read <= 2 * StreamTtl[live] - 1 + StreamLag[live]
        /\ StreamTtl[live] - s8[r].raw + 0 <= 2 * StreamTtl[live]
    BY <1>n, <2>1
  <2>3. c \in Stream(live)!CopyType \cup {None} /\ Stream(live)!EndsBy(c,
            2 * StreamTtl[live] - 1 + StreamLag[live], 2 * StreamTtl[live])
    BY <1>n, <2>2, Copied
  <2> HIDE DEF c
  <2>4. \E x \in Stream(live)!ReqType : Stream(live)!InTime(x) /\ s8' = [s8 EXCEPT ![r] = x]
    <3>1. CASE live
      <4>1. s8' = Stream(live)!Got(r, s8[r].read) BY <1>1, <3>1 DEF Stream!KeepRaw
      <4>2. /\ s8[r].read <= 2 * (StreamTtl[live] - 1) + StreamLag[live] + s8[r].age
            /\ s8[r].op = "variant"
                   => s8[r].read <= 2 * (StreamTtl[live] - 1) + StreamLag[live] + s8[r].body
        BY <1>n, <2>1
      <4>3. PICK n \in Nat : n = s8[r].read BY <1>n
      <4> QED BY <2>1, <4>1, <4>2, <4>3, HasText
    <3>2. CASE ~live BY <1>1, <2>1, <3>2, Onward DEF Stream!KeepRaw, Stream!Steps
    <3> QED BY <3>1, <3>2
  <2> QED BY <1>t, <2>1, <2>3, <2>4, KeepsRaw
<1>2. ASSUME NEW ok \in BOOLEAN, Stream(live)!SharedRaw(r, ok) PROVE Stream(live)!IInv'
  <2>1. CASE ~(ok /\ s6 # None)
    BY <1>2, <2>1, Onward, RequestSteps DEF Stream!SharedRaw, Stream!Steps, Stream!caches
  <2>2. CASE ok /\ s6 # None
    <3>1. PICK n \in Nat : n = s6.read /\ n <= StreamTtl[live] - 1 + StreamLag[live]
      BY <1>t, <2>2, Found
    <3>2. PICK m \in Nat : m = s6.made /\ m + s6.left <= StreamTtl[live]
                   /\ s6.left \in Nat \ {0}
      BY <1>t, <1>n, <2>2 DEF Stream!TypeOK, Stream!Kept, Stream!EndsBy, Stream!CopyType
    <3> DEFINE c == Stream(live)!Copy(StreamTtl[live] - s8[r].raw, n, m)
    <3>3. /\ s8[r].at = "sharedRaw" /\ s8' = Stream(live)!Got(r, n)
          /\ s4' = [s4 EXCEPT ![StreamWorker[live][r]] = c]
          /\ UNCHANGED <<s3, s5, s6, s7>>
      BY <1>2, <2>2, <3>1, <3>2 DEF Stream!SharedRaw, Stream!Refilled
    <3>4. /\ StreamTtl[live] - s8[r].raw \in Int
                 /\ 2 * StreamTtl[live] - 1 + StreamLag[live] \in Int
                        /\ 2 * StreamTtl[live] \in Int
          /\ StreamTtl[live] - s8[r].raw + n <= 2 * StreamTtl[live] - 1 + StreamLag[live]
          /\ StreamTtl[live] - s8[r].raw + m <= 2 * StreamTtl[live]
      BY <1>n, <3>1, <3>2
    <3>5. c \in Stream(live)!CopyType \cup {None} /\ Stream(live)!EndsBy(c,
              2 * StreamTtl[live] - 1 + StreamLag[live], 2 * StreamTtl[live])
      BY <1>n, <3>4, Copied
    <3> HIDE DEF c
    <3>6. /\ n <= 2 * (StreamTtl[live] - 1) + StreamLag[live] + s8[r].age
          /\ s8[r].op = "variant"
                 => n <= 2 * (StreamTtl[live] - 1) + StreamLag[live] + s8[r].body
      BY <1>n, <3>1
    <3>7. \E x \in Stream(live)!ReqType : Stream(live)!InTime(x)
              /\ s8' = [s8 EXCEPT ![r] = x]
      BY <3>3, <3>6, HasText
    <3> QED BY <1>t, <3>3, <3>5, <3>7, KeepsRaw
  <2> QED BY <2>1, <2>2
<1>3. ASSUME NEW ok \in BOOLEAN, Stream(live)!ShareRaw(r, ok) PROVE Stream(live)!IInv'
  <2> DEFINE c == IF ok THEN Stream(live)!Copy(StreamTtl[live], s8[r].read, 0) ELSE s6
  <2>1. /\ s8[r].at = "shareRaw" /\ s8[r].read <= s8[r].age
        /\ s8[r].op = "variant" => s8[r].read <= s8[r].body
        /\ s6' = c /\ s8' = Stream(live)!Got(r, s8[r].read)
        /\ UNCHANGED <<s3, s4, s5, s7>>
    BY <1>3, <1>t DEF Stream!ShareRaw, Stream!InTime
  <2>2. c \in Stream(live)!CopyType \cup {None} /\ Stream(live)!EndsBy(c,
            StreamTtl[live] + StreamLag[live], StreamTtl[live])
    <3>1. CASE ~ok BY <3>1, <1>t DEF Stream!TypeOK, Stream!Kept
    <3>2. CASE ok
      <4>1. StreamTtl[live] \in Int /\ StreamTtl[live] + StreamLag[live] \in Int
                /\ StreamTtl[live] + s8[r].read <= StreamTtl[live] + StreamLag[live]
                       /\ StreamTtl[live] + 0 <= StreamTtl[live]
        BY <1>n, <2>1
      <4> QED BY <1>n, <3>2, <4>1, Copied
    <3> QED BY <3>1, <3>2
  <2>3. /\ s8[r].read <= 2 * (StreamTtl[live] - 1) + StreamLag[live] + s8[r].age
        /\ s8[r].op = "variant"
               => s8[r].read <= 2 * (StreamTtl[live] - 1) + StreamLag[live] + s8[r].body
    BY <1>n, <2>1
  <2>4. PICK x \in Stream(live)!ReqType : Stream(live)!InTime(x)
                 /\ s8' = [s8 EXCEPT ![r] = x]
    BY <1>n, <2>1, <2>3, HasText
  <2> HIDE DEF c
  <2>5. Stream(live)!TypeOK' BY <1>t, <2>1, <2>2, <2>4 DEF Stream!TypeOK
  <2>6. Stream(live)!Kept' BY <1>t, <2>1, <2>2 DEF Stream!Kept, Stream!EndsBy
  <2> QED BY <2>1, <2>4, <2>5, <2>6, Stored
<1> QED BY <1>1, <1>2, <1>3

(* The steps that read or write a copy of the playlist made from it.       *)
LEMMA BodyCopies ==
  ASSUME NEW live \in BOOLEAN, Stream(live)!PlaybackConstants, Stream(live)!IInv,
             NEW r \in StreamRequests,
         Stream(live)!KeepBody(r) \/ \E ok \in BOOLEAN : Stream(live)!SharedBody(r,
             ok) \/ Stream(live)!ShareBody(r, ok)
  PROVE  Stream(live)!IInv'
<1>t. /\ s8[r] \in Stream(live)!ReqType /\ Stream(live)!InTime(s8[r])
             /\ StreamWorker[live][r] \in StreamWorkers[live] /\ Stream(live)!TypeOK
                    /\ Stream(live)!Kept
      /\ s8 \in [StreamRequests -> Stream(live)!ReqType]
  BY DEF Stream!IInv, Stream!TypeOK, Stream!PlaybackConstants
<1>n. /\ StreamTtl[live] \in Nat \ {0} /\ StreamLag[live] \in Nat /\ s8[r].made \in Nat
             /\ s8[r].read \in Nat
      /\ s8[r].age \in Nat /\ s8[r].body \in Nat /\ s8[r].age <= StreamLag[live]
      /\ s8[r].body <= s8[r].age
  BY <1>t DEF Stream!PlaybackConstants, Stream!ReqType, Stream!InTime
<1>1. CASE Stream(live)!KeepBody(r)
  <2> DEFINE c == Stream(live)!Copy(StreamTtl[live] - s8[r].body, s8[r].read, s8[r].made)
  <2>1. /\ s8[r].at = "keepBody"
               /\ s8[r].read <= 2 * (StreamTtl[live] - 1) + StreamLag[live] + s8[r].body
        /\ s8[r].made <= s8[r].body
        /\ s5' = [s5 EXCEPT ![StreamWorker[live][r]] = c] /\ s8' = Stream(live)!To(r,
               "shareBody")
        /\ UNCHANGED <<s3, s4, s6, s7>>
    BY <1>1, <1>t DEF Stream!KeepBody, Stream!InTime
  <2>2. /\ StreamTtl[live] - s8[r].body \in Int
        /\ 4 * StreamTtl[live] - 3 + 2 * StreamLag[live] \in Int
               /\ 2 * StreamTtl[live] - 1 + StreamLag[live] \in Int
        /\ StreamTtl[live] - s8[r].body + s8[r].read <= 4 * StreamTtl[live] - 3 + 2 * StreamLag[live]
        /\ StreamTtl[live] - s8[r].body + s8[r].made <= 2 * StreamTtl[live] - 1 + StreamLag[live]
    BY <1>n, <2>1
  <2>3. c \in Stream(live)!CopyType \cup {None} /\ Stream(live)!EndsBy(c,
            4 * StreamTtl[live] - 3 + 2 * StreamLag[live],
                2 * StreamTtl[live] - 1 + StreamLag[live])
    BY <1>n, <2>2, Copied
  <2> HIDE DEF c
  <2>4. \E x \in Stream(live)!ReqType : Stream(live)!InTime(x) /\ s8' = [s8 EXCEPT ![r] = x]
    BY <2>1, Onward DEF Stream!Steps
  <2> QED BY <1>t, <2>1, <2>3, <2>4, KeepsBody
<1>2. ASSUME NEW ok \in BOOLEAN, Stream(live)!SharedBody(r, ok) PROVE Stream(live)!IInv'
  <2>1. CASE ~(ok /\ s7 # None)
    BY <1>2, <2>1, Onward, RequestSteps DEF Stream!SharedBody, Stream!Steps, Stream!caches
  <2>2. CASE ok /\ s7 # None
    <3>1. PICK n \in Nat, m \in Nat :
            /\ n = s7.read /\ n <= 3 * (StreamTtl[live] - 1) + 2 * StreamLag[live]
            /\ m = s7.made /\ m <= StreamTtl[live] - 1 + StreamLag[live]
      BY <1>t, <2>2, Found
    <3> DEFINE c == Stream(live)!Copy(StreamTtl[live] - s8[r].body, n, m)
               x == [s8[r] EXCEPT !.at = "served", !.read = n, !.made = m]
    <3>3. /\ s8[r].at = "sharedBody" /\ s8' = [s8 EXCEPT ![r] = x]
          /\ s5' = [s5 EXCEPT ![StreamWorker[live][r]] = c]
          /\ UNCHANGED <<s3, s4, s6, s7>>
      BY <1>2, <1>t, <2>2, <3>1 DEF Stream!SharedBody, Stream!Refilled, Stream!ReqType
    <3>2. /\ StreamTtl[live] - s8[r].body \in Int
          /\ 4 * StreamTtl[live] - 3 + 2 * StreamLag[live] \in Int
                 /\ 2 * StreamTtl[live] - 1 + StreamLag[live] \in Int
          /\ StreamTtl[live] - s8[r].body + n <= 4 * StreamTtl[live] - 3 + 2 * StreamLag[live]
          /\ StreamTtl[live] - s8[r].body + m <= 2 * StreamTtl[live] - 1 + StreamLag[live]
      BY <1>n, <3>1
    <3>4. c \in Stream(live)!CopyType \cup {None} /\ Stream(live)!EndsBy(c,
              4 * StreamTtl[live] - 3 + 2 * StreamLag[live],
                  2 * StreamTtl[live] - 1 + StreamLag[live])
      BY <1>n, <3>2, Copied
    <3>5. x \in Stream(live)!ReqType BY <1>t DEF Stream!ReqType, Stream!Steps
    <3>6. /\ x.at = "served" /\ x.read = n /\ x.made = m /\ x.op = s8[r].op
          /\ x.age = s8[r].age /\ x.asked = s8[r].asked
          /\ x.body = s8[r].body /\ x.raw = s8[r].raw
      BY <1>t DEF Stream!ReqType
    <3> HIDE DEF c, x
    <3>7. n <= 4 * (StreamTtl[live] - 1) + 2 * StreamLag[live] + s8[r].age
              /\ m <= 2 * (StreamTtl[live] - 1) + StreamLag[live] + s8[r].age
      BY <1>n, <3>1
    <3>8. Stream(live)!InTime(x)
      <4>1. /\ x.op # "idle" /\ x.age <= StreamLag[live] /\ x.body <= x.age
                   /\ x.raw <= x.age
            /\ x.asked <= StreamLife[live] - 1 + StreamLag[live] + x.age
                   /\ (x.op = "variant" => x.raw <= x.body)
        BY <1>t, <3>3, <3>6 DEF Stream!InTime, Stream!Idle
      <4>2. /\ x.read <= 4 * (StreamTtl[live] - 1) + 2 * StreamLag[live] + x.age
            /\ x.made <= 2 * (StreamTtl[live] - 1) + StreamLag[live] + x.age
        BY <3>6, <3>7
      <4>3. x.at = "served" BY <3>6
      <4> QED BY <4>1, <4>2, <4>3 DEF Stream!InTime
    <3> QED BY <1>t, <3>3, <3>4, <3>5, <3>8, KeepsBody
  <2> QED BY <2>1, <2>2
<1>3. ASSUME NEW ok \in BOOLEAN, Stream(live)!ShareBody(r, ok) PROVE Stream(live)!IInv'
  <2> DEFINE c == IF ok THEN Stream(live)!Copy(StreamTtl[live], s8[r].read,
          s8[r].made) ELSE s7
  <2>1. /\ s8[r].at = "shareBody"
               /\ s8[r].read <= 2 * (StreamTtl[live] - 1) + StreamLag[live] + s8[r].body
        /\ s8[r].made <= s8[r].body
        /\ s7' = c /\ s8' = Stream(live)!To(r, "served")
        /\ UNCHANGED <<s3, s4, s5, s6>>
    BY <1>3, <1>t DEF Stream!ShareBody, Stream!InTime
  <2>2. c \in Stream(live)!CopyType \cup {None} /\ Stream(live)!EndsBy(c,
            3 * StreamTtl[live] - 2 + 2 * StreamLag[live],
                StreamTtl[live] + StreamLag[live])
    <3>1. CASE ~ok BY <3>1, <1>t DEF Stream!TypeOK, Stream!Kept
    <3>2. CASE ok
      <4>1. /\ StreamTtl[live] \in Int
                   /\ 3 * StreamTtl[live] - 2 + 2 * StreamLag[live] \in Int
                          /\ StreamTtl[live] + StreamLag[live] \in Int
            /\ StreamTtl[live] + s8[r].read <= 3 * StreamTtl[live] - 2 + 2 * StreamLag[live]
            /\ StreamTtl[live] + s8[r].made <= StreamTtl[live] + StreamLag[live]
        BY <1>n, <2>1
      <4> QED BY <1>n, <3>2, <4>1, Copied
    <3> QED BY <3>1, <3>2
  <2>4. PICK x \in Stream(live)!ReqType : Stream(live)!InTime(x)
                 /\ s8' = [s8 EXCEPT ![r] = x]
    BY <2>1, Onward DEF Stream!Steps
  <2> HIDE DEF c
  <2>5. Stream(live)!TypeOK' BY <1>t, <2>1, <2>2, <2>4 DEF Stream!TypeOK
  <2>6. Stream(live)!Kept' BY <1>t, <2>1, <2>2 DEF Stream!Kept, Stream!EndsBy
  <2> QED BY <2>1, <2>4, <2>5, <2>6, Stored
<1> QED BY <1>1, <1>2, <1>3

(* Time.                                                                   *)
(* A clock tick brings no copy past the end it had.                        *)
LEMMA CopyAges ==
  ASSUME NEW live \in BOOLEAN, Stream(live)!PlaybackConstants,
             NEW c \in Stream(live)!CopyType \cup {None}, NEW n \in {0, 1},
         NEW a \in Int, NEW b \in Int, Stream(live)!EndsBy(c, a, b)
  PROVE  Stream(live)!Older(c, n) \in Stream(live)!CopyType \cup {None}
             /\ Stream(live)!EndsBy(Stream(live)!Older(c, n), a, b)
<1>1. CASE c = None BY <1>1 DEF Stream!Older, Stream!EndsBy
<1>2. CASE c # None
  <2>1. /\ c.left \in Nat /\ c.read \in Nat /\ c.made \in Nat
        /\ c.left + c.read <= a /\ c.left + c.made <= b
    BY <1>2 DEF Stream!CopyType, Stream!EndsBy
  <2>2. Stream(live)!Older(c, n) = Stream(live)!Copy(c.left - 1, c.read + 1, c.made + n)
    BY <1>2 DEF Stream!Older
  <2>3. /\ c.left - 1 \in Int /\ c.read + 1 \in Nat /\ c.made + n \in Nat
        /\ c.left - 1 + (c.read + 1) <= a /\ c.left - 1 + (c.made + n) <= b
    BY <2>1
  <2> QED BY <2>2, <2>3, Copied
<1> QED BY <1>1, <1>2

(* A clock tick leaves a request within the lag.                           *)
LEMMA RequestAges ==
  ASSUME NEW live \in BOOLEAN, Stream(live)!PlaybackConstants,
             NEW q \in Stream(live)!ReqType, Stream(live)!InTime(q),
                 q = Stream(live)!Idle \/ q.age < StreamLag[live]
  PROVE  Stream(live)!Aged(q) \in Stream(live)!ReqType
             /\ Stream(live)!InTime(Stream(live)!Aged(q))
<1>1. CASE q = Stream(live)!Idle BY <1>1 DEF Stream!Aged
<1>2. CASE q # Stream(live)!Idle
  <2>1. PICK body \in Nat : body = IF q.op = "variant"
                 /\ q.at # "body" THEN q.body + 1 ELSE 0
    BY DEF Stream!ReqType
  <2>2. PICK raw \in Nat : raw = IF q.at \in {"sharedRaw", "fetch",
                 "keepRaw"} THEN q.raw + 1 ELSE 0
    BY DEF Stream!ReqType
  <2>3. PICK read \in Nat :
          read = IF q.at \in {"keepRaw", "shareRaw", "rewrite", "keepBody", "shareBody",
              "served"}
                   THEN q.read + 1 ELSE 0
    BY DEF Stream!ReqType
  <2>4. PICK made \in Nat :
          made = IF q.at \in {"keepBody", "shareBody", "served"} THEN q.made + 1 ELSE 0
    BY DEF Stream!ReqType
  <2> DEFINE x == [q EXCEPT !.age = q.age + 1, !.asked = q.asked + 1, !.body = body,
          !.raw = raw,
                            !.read = read, !.made = made]
  <2>5. Stream(live)!Aged(q) = x
    BY <1>2, <2>1, <2>2, <2>3, <2>4 DEF Stream!Aged, Stream!ReqType
  <2>6. x \in Stream(live)!ReqType
    <3>1. q.age + 1 \in Nat /\ q.asked + 1 \in Nat BY DEF Stream!ReqType
    <3> QED BY <3>1 DEF Stream!ReqType
  <2>7. /\ x.at = q.at /\ x.op = q.op /\ x.age = q.age + 1 /\ x.asked = q.asked + 1
        /\ x.body = body /\ x.raw = raw /\ x.read = read /\ x.made = made
    BY DEF Stream!ReqType
  <2> HIDE DEF x
  <2>8. q.op # "idle" /\ q.at # "none" BY <1>2 DEF Stream!InTime
  <2>a. /\ q.age < StreamLag[live] /\ q.body <= q.age /\ q.raw <= q.age /\ q.age \in Nat
               /\ q.asked \in Nat
        /\ q.body \in Nat /\ q.raw \in Nat /\ q.read \in Nat /\ q.made \in Nat
        /\ StreamTtl[live] \in Nat \ {0} /\ StreamLag[live] \in Nat
               /\ StreamLife[live] \in Nat \ {0}
    BY <1>2 DEF Stream!InTime, Stream!ReqType, Stream!PlaybackConstants
  <2>b. x.age <= StreamLag[live] /\ x.body <= x.age /\ x.raw <= x.age
    BY <2>1, <2>2, <2>7, <2>a
  <2>c. x.op # "idle" /\ x.at # "none" BY <2>7, <2>8
  <2>d. /\ x.at = "mint" => x.op = "token" /\ x.asked <= x.age
        /\ x.at # "mint" => x.asked <= StreamLife[live] - 1 + StreamLag[live] + x.age
        /\ x.op = "variant" => x.raw <= x.body
    BY <2>1, <2>2, <2>7, <2>a DEF Stream!InTime
  <2>e. /\ x.at \in {"mint", "body", "sharedBody", "raw", "sharedRaw", "fetch"}
               => x.read = 0
        /\ x.at \in {"mint", "body", "sharedBody", "raw"} => x.raw = 0
        /\ x.at \notin {"keepBody", "shareBody", "served"} => x.made = 0
    BY <2>1, <2>2, <2>3, <2>4, <2>7
  <2>f. x.at \in {"mint", "body"} => x.body = 0
    BY <2>1, <2>7, <2>a DEF Stream!InTime
  <2>g. /\ x.at = "keepRaw" => x.read <= x.raw
        /\ x.at = "shareRaw" => x.read <= x.age /\ (x.op = "variant" => x.read <= x.body)
    BY <2>1, <2>2, <2>3, <2>7, <2>a DEF Stream!InTime
  <2>h. /\ x.at \in {"rewrite", "keepBody", "shareBody"} =>
             x.op = "variant"
                 /\ x.read <= 2 * (StreamTtl[live] - 1) + StreamLag[live] + x.body
        /\ x.at \in {"keepBody", "shareBody"} => x.made <= x.body
        /\ x.at = "served" =>
               /\ x.read <= 4 * (StreamTtl[live] - 1) + 2 * StreamLag[live] + x.age
                              /\ x.made <= 2 * (StreamTtl[live] - 1) + StreamLag[live] + x.age
    BY <2>1, <2>3, <2>4, <2>7, <2>a DEF Stream!InTime
  <2>9. Stream(live)!InTime(x) BY <2>b, <2>c, <2>d, <2>e, <2>f, <2>g, <2>h DEF Stream!InTime
  <2> QED BY <2>5, <2>6, <2>9
<1> QED BY <1>1, <1>2

LEMMA CopiesAge ==
  ASSUME NEW live \in BOOLEAN, Stream(live)!PlaybackConstants, Stream(live)!IInv,
             Stream(live)!Tick
  PROVE  Stream(live)!IInv'
<1>n. StreamTtl[live] \in Nat \ {0} /\ StreamLag[live] \in Nat
          /\ StreamLife[live] \in Nat \ {0}
  BY DEF Stream!PlaybackConstants
<1>t. Stream(live)!TypeOK /\ Stream(live)!Kept BY DEF Stream!IInv
<1>1. \A r \in StreamRequests : Stream(live)!Aged(s8[r]) \in Stream(live)!ReqType
          /\ Stream(live)!InTime(Stream(live)!Aged(s8[r]))
  BY RequestAges DEF Stream!Tick, Stream!IInv, Stream!TypeOK
<1>2. s8' \in [StreamRequests -> Stream(live)!ReqType]
          /\ \A r \in StreamRequests : Stream(live)!InTime(s8[r])'
  BY <1>1 DEF Stream!Tick, Stream!InTime, Stream!Idle
<1>3. /\ s6' \in Stream(live)!CopyType \cup {None} /\ Stream(live)!EndsBy(s6',
             StreamTtl[live] + StreamLag[live], StreamTtl[live])
      /\ s7' \in Stream(live)!CopyType \cup {None}
      /\ Stream(live)!EndsBy(s7', 3 * StreamTtl[live] - 2 + 2 * StreamLag[live],
             StreamTtl[live] + StreamLag[live])
  BY <1>n, <1>t, CopyAges DEF Stream!Tick, Stream!TypeOK, Stream!Kept
<1>4. ASSUME NEW w \in StreamWorkers[live]
      PROVE  /\ s4'[w] \in Stream(live)!CopyType \cup {None}
             /\ Stream(live)!EndsBy(s4'[w], 2 * StreamTtl[live] - 1 + StreamLag[live],
                    2 * StreamTtl[live])
             /\ s5'[w] \in Stream(live)!CopyType \cup {None}
             /\ Stream(live)!EndsBy(s5'[w], 4 * StreamTtl[live] - 3 + 2 * StreamLag[live],
                    2 * StreamTtl[live] - 1 + StreamLag[live])
  BY <1>n, <1>t, CopyAges DEF Stream!Tick, Stream!TypeOK, Stream!Kept
<1>5. /\ s3' \in Stream(live)!TokenType \cup {None}
      /\ s3' # None => s3'.left + s3'.asked <= StreamLife[live] + StreamLag[live]
  <2>1. CASE s3 = None \/ s3.left = 1 BY <2>1 DEF Stream!Tick
  <2>2. CASE s3 # None /\ s3.left # 1
    <3>1. /\ s3' = [left |-> s3.left - 1, asked |-> s3.asked + 1]
          /\ s3.left \in Nat \ {0, 1} /\ s3.asked \in Nat
          /\ s3.left + s3.asked <= StreamLife[live] + StreamLag[live]
      BY <1>t, <2>2 DEF Stream!Tick, Stream!TypeOK, Stream!Kept, Stream!TokenType
    <3> QED BY <1>n, <3>1 DEF Stream!TokenType
  <2> QED BY <2>1, <2>2
<1>6. Stream(live)!TypeOK' BY <1>2, <1>3, <1>4, <1>5 DEF Stream!TypeOK, Stream!Tick
<1>7. Stream(live)!Kept' BY <1>3, <1>4, <1>5 DEF Stream!Kept, Stream!EndsBy
<1> QED BY <1>2, <1>6, <1>7 DEF Stream!IInv

LEMMA StreamNext == ASSUME NEW live \in BOOLEAN, Stream(live)!PlaybackConstants,
    Stream(live)!IInv, [Stream(live)!Next]_(Stream(live)!vars) PROVE Stream(live)!IInv'
<1>1. CASE UNCHANGED <<s3, Stream(live)!caches, s8>>
  <2>1. Stream(live)!TypeOK' BY <1>1 DEF Stream!IInv, Stream!TypeOK, Stream!caches
  <2>2. Stream(live)!Kept'
    BY <1>1 DEF Stream!IInv, Stream!Kept, Stream!EndsBy, Stream!caches
  <2>3. \A r \in StreamRequests : Stream(live)!InTime(s8[r])'
    BY <1>1 DEF Stream!IInv, Stream!InTime, Stream!Idle
  <2> QED BY <2>1, <2>2, <2>3 DEF Stream!IInv
<1>2. CASE UNCHANGED Stream(live)!vars \/ Stream(live)!Publish \/ \E s \in {"off",
               "starting", "live"} : Stream(live)!Turn(s)
  BY <1>1, <1>2 DEF Stream!vars, Stream!caches, Stream!Publish, Stream!Turn
<1> QED BY <1>2, RequestBegins, TokenMinted, Looked, RawCopies, BodyCopies, CopiesAge
  DEF Stream!Next

LEMMA StreamInTime == ASSUME NEW live \in BOOLEAN, Stream(live)!PlaybackConstants,
    Stream(live)!IInv PROVE Stream(live)!PlaylistsInTime
<1> SUFFICES ASSUME NEW r \in StreamRequests, s8[r].at = "served"
             PROVE  /\ s8[r].read <= 4 * (StreamTtl[live] - 1) + 3 * StreamLag[live]
                    /\ s8[r].made <= 2 * (StreamTtl[live] - 1) + 2 * StreamLag[live]
                    /\ s8[r].asked - s8[r].made <= StreamLife[live] - 1 + 2 * StreamLag[live]
  BY DEF Stream!PlaylistsInTime, Stream!Fresh, Stream!Lasting, Stream!Ending, Stream!Served
<1> QED BY DEF Stream!IInv, Stream!TypeOK, Stream!InTime, Stream!ReqType,
  Stream!PlaybackConstants

-----------------------------------------------------------------------------
(* The home page. Here s1 to s10 are type, picks, limit, out, due, poster, *)
(* soon, slide, mixed and req. Places are numbered from 1 on.              *)
PageNames == {"page", "strips", "hero", "edits", "swaps"}

(* The places of a list are numbered from 1 on.                            *)
LEMMA RanksCount ==
  ASSUME NEW n \in Nat, NEW I \in SUBSET (1 .. n)
  PROVE  /\ Cardinality(I) \in Nat /\ (Cardinality(I) = 0 => I = {})
         /\ \A k \in 1 .. Cardinality(I) :
              \E i \in I : Cardinality({j \in I : j <= i}) = k
         /\ \A i \in I : Cardinality({j \in I : j <= i}) \in 1 .. Cardinality(I)
         /\ \A i, j \in I :
              Cardinality({k \in I : k <= i}) = Cardinality({k \in I : k <= j})
              => i = j
<1>1. IsFiniteSet(1 .. n)
  <2>1. PICK a \in Int, b \in Int : a = 1 /\ b = n OBVIOUS
  <2>2. IsFiniteSet(a .. b) BY FS_Interval
  <2> QED BY <2>1, <2>2
<1>2. IsFiniteSet(I) BY <1>1, FS_Subset
<1>3. Cardinality(I) \in Nat BY <1>2, FS_CardinalityType
<1>4. Cardinality(I) = 0 <=> I = {} BY <1>2, FS_EmptySet
<1>5. PICK c \in Nat : c = Cardinality(I) BY <1>3
<1>6. PICK r : r = [i \in I |-> Cardinality({j \in I : j <= i})] OBVIOUS
<1>7. ASSUME NEW i \in I PROVE r[i] \in 1 .. c
  <2>1. PICK B : B = {j \in I : j <= i} OBVIOUS
  <2>2. IsFiniteSet(B) /\ Cardinality(B) <= Cardinality(I) BY <1>2, <2>1, FS_Subset
  <2>3. Cardinality(B) \in Nat BY <2>2, FS_CardinalityType
  <2>4. Cardinality(B) = 0 <=> B = {} BY <2>2, FS_EmptySet
  <2>5. i \in B BY <2>1
  <2>6. r[i] = Cardinality(B) BY <1>6, <2>1
  <2> QED BY <1>5, <2>2, <2>3, <2>4, <2>5, <2>6
<1>8. ASSUME NEW i \in I, NEW j \in I, i < j PROVE r[i] # r[j]
  <2>1. PICK B, D : B = {k \in I : k <= i} /\ D = {k \in I : k <= j} OBVIOUS
  <2>2. B \subseteq D /\ j \in D /\ j \notin B
    <3>1. \A k \in I : k \in Int OBVIOUS
    <3>2. \A k \in I : k <= i => k <= j BY <1>8, <3>1
    <3>3. ~(j <= i) BY <1>8, <3>1
    <3>4. j <= j BY <3>1
    <3>5. B \subseteq D BY <2>1, <3>2
    <3>6. j \in D BY <2>1, <3>4
    <3>7. j \notin B BY <2>1, <3>3
    <3> QED BY <3>5, <3>6, <3>7
  <2>3. D \in SUBSET I BY <2>1
  <2>4. IsFiniteSet(D) BY <1>2, <2>3, FS_Subset
  <2>5. Cardinality(D) = Cardinality(B) => D = B BY <2>2, <2>4, FS_Subset
  <2> QED BY <1>6, <2>1, <2>2, <2>5
<1>9. PICK T : T = 1 .. c OBVIOUS
<1>10. IsFiniteSet(T) /\ Cardinality(T) = c
  <2>1. PICK a \in Int, b \in Int : a = 1 /\ b = c OBVIOUS
  <2>2. IsFiniteSet(a .. b) /\ Cardinality(a .. b) = IF a > b THEN 0 ELSE b - a + 1
    BY FS_Interval
  <2> QED BY <1>9, <2>1, <2>2
<1>11. r \in [I -> T] BY <1>6, <1>7, <1>9
<1>12. \A i, j \in I : r[i] = r[j] => i = j BY <1>8
<1>13. r \in Injection(I, T) BY <1>11, <1>12 DEF Injection, IsInjective
<1>14. Cardinality(I) = Cardinality(T) <=> r \in Surjection(I, T)
  BY <1>10, <1>13, FS_Injection
<1>15. r \in Surjection(I, T) BY <1>5, <1>10, <1>14
<1>16. \A k \in T : \E i \in I : r[i] = k BY <1>15 DEF Surjection
<1>17. \A i \in I : Cardinality({j \in I : j <= i}) \in 1 .. Cardinality(I)
  BY <1>5, <1>6, <1>7
<1>18. ASSUME NEW i \in I, NEW j \in I,
              Cardinality({k \in I : k <= i}) = Cardinality({k \in I : k <= j})
       PROVE  i = j
  <2>1. r[i] = r[j] BY <1>6, <1>18
  <2> QED BY <1>12, <2>1
<1> QED BY <1>3, <1>4, <1>5, <1>6, <1>9, <1>16, <1>17, <1>18

(* What is kept of a list is of the list and of the set; it differs as the *)
(* list does; nothing is kept only if nothing could be.                    *)
LEMMA KeepIs ==
  ASSUME NEW name \in PageNames, NEW U, NEW q \in Seq(U), NEW S
  PROVE  /\ Page(name)!Keep(q, S) \in Seq(U \cap S)
         /\ Page(name)!IsInjective(q) => Page(name)!IsInjective(Page(name)!Keep(q, S))
         /\ Page(name)!Keep(q, S) = << >> => \A i \in 1 .. Len(q) : q[i] \notin S
<1>1. PICK I : I = {i \in 1 .. Len(q) : q[i] \in S} OBVIOUS
<1>2. I = Page(name)!Places(q, S) BY <1>1 DEF Page!Places
<1>3. PICK n \in Nat : n = Len(q) OBVIOUS
<1>4. I \in SUBSET (1 .. n) BY <1>1, <1>3
<1>5. PICK c \in Nat : /\ c = Cardinality(I) /\ (c = 0 => I = {})
                       /\ \A k \in 1 .. c :
                            \E i \in I : Cardinality({j \in I : j <= i}) = k
  BY <1>3, <1>4, RanksCount
<1>6. \A X : Page(name)!Cardinality(X) = Cardinality(X)
  BY DEF Page!Cardinality, Cardinality
<1>7. \A i : Page(name)!Rank(I, i) = Cardinality({j \in I : j <= i})
  BY <1>6 DEF Page!Rank
<1>8. PICK p : p = [k \in 1 .. c |-> CHOOSE i \in I : Page(name)!Rank(I, i) = k] OBVIOUS
<1>9. ASSUME NEW k \in 1 .. c PROVE p[k] \in I /\ Page(name)!Rank(I, p[k]) = k
  <2>1. \E i \in I : Page(name)!Rank(I, i) = k BY <1>5, <1>7
  <2> QED BY <1>8, <2>1
<1>10. PICK kept : kept = Page(name)!Keep(q, S) OBVIOUS
<1>11. Page(name)!Cardinality(I) = c BY <1>5, <1>6
<1>12. kept = [k \in 1 .. c |-> q[p[k]]]
  BY <1>2, <1>8, <1>10, <1>11 DEF Page!Keep
<1>13. \A k \in 1 .. c : q[p[k]] \in U \cap S
  <2>1. \A i \in 1 .. Len(q) : q[i] \in U OBVIOUS
  <2> QED BY <1>1, <1>9, <2>1
<1>14. kept \in Seq(U \cap S) /\ Len(kept) = c BY <1>12, <1>13
<1>15. Page(name)!IsInjective(q) => Page(name)!IsInjective(kept)
  <2>1. DOMAIN kept = 1 .. c /\ DOMAIN q = 1 .. n BY <1>3, <1>12
  <2>2. SUFFICES ASSUME Page(name)!IsInjective(q), NEW a \in 1 .. c, NEW b \in 1 .. c,
                        kept[a] = kept[b]
                 PROVE  a = b
    BY <2>1 DEF Page!IsInjective
  <2>3. q[p[a]] = q[p[b]] BY <1>12, <2>2
  <2>4. p[a] \in 1 .. n /\ p[b] \in 1 .. n BY <1>4, <1>9
  <2>5. p[a] = p[b] BY <2>1, <2>2, <2>3, <2>4 DEF Page!IsInjective
  <2> QED BY <1>9, <2>5
<1>16. kept = << >> => \A i \in 1 .. Len(q) : q[i] \notin S
  BY <1>1, <1>5, <1>14
<1> QED BY <1>10, <1>14, <1>15, <1>16

(* The first ones of a list, and those after the first ones.               *)
LEMMA CutIs ==
  ASSUME NEW name \in PageNames, NEW U, NEW q \in Seq(U), NEW n \in Nat
  PROVE  /\ Page(name)!Cut(q, n) \in Seq(U) /\ Len(Page(name)!Cut(q, n)) <= n
         /\ Page(name)!IsInjective(q) => Page(name)!IsInjective(Page(name)!Cut(q, n))
         /\ Page(name)!Cut(q, n) = << >> /\ n > 0 => q = << >>
<1>1. PICK k \in Nat : k = (IF Len(q) < n THEN Len(q) ELSE n) OBVIOUS
<1>2. k <= n /\ k <= Len(q) /\ (k = 0 /\ n > 0 => Len(q) = 0) BY <1>1
<1>3. PICK cut : cut = SubSeq(q, 1, k) OBVIOUS
<1>4. cut \in Seq(U) /\ Len(cut) = k BY <1>2, <1>3
<1>5. \A i \in 1 .. k : cut[i] = q[i] BY <1>2, <1>3
<1>6. cut = Page(name)!Cut(q, n) BY <1>1, <1>3 DEF Page!Cut
<1>7. DOMAIN cut = 1 .. k /\ DOMAIN q = 1 .. Len(q) BY <1>4
<1>8. Page(name)!IsInjective(q) => Page(name)!IsInjective(cut)
  BY <1>2, <1>5, <1>7 DEF Page!IsInjective
<1>9. cut = << >> /\ n > 0 => q = << >> BY <1>2, <1>4
<1> QED BY <1>2, <1>4, <1>6, <1>8, <1>9

(* The rest of a list.                                                     *)
LEMMA AfterIs ==
  ASSUME NEW name \in PageNames, NEW U, NEW q \in Seq(U), NEW n \in Nat
  PROVE  /\ Page(name)!After(q, n) \in Seq(U)
         /\ Page(name)!IsInjective(q) => Page(name)!IsInjective(Page(name)!After(q, n))
         /\ Page(name)!After(q, n) = << >> => Len(q) <= n
<1>1. PICK l \in Nat : l = Len(q) OBVIOUS
<1>2. PICK k \in Nat : k = (IF l > n THEN l - n ELSE 0)
  <2>1. l > n => l - n \in Nat OBVIOUS
  <2> QED BY <2>1
<1>3. PICK rest : rest = SubSeq(q, n + 1, l) OBVIOUS
<1>4. rest \in Seq(U) /\ Len(rest) = k BY <1>1, <1>2, <1>3
<1>5. \A i \in 1 .. k : rest[i] = q[i + n] BY <1>1, <1>2, <1>3
<1>6. rest = Page(name)!After(q, n) BY <1>1, <1>3 DEF Page!After
<1>7. DOMAIN rest = 1 .. k /\ DOMAIN q = 1 .. l BY <1>1, <1>4
<1>8. \A i \in 1 .. k : i + n \in 1 .. l BY <1>2
<1>9. Page(name)!IsInjective(q) => Page(name)!IsInjective(rest)
  <2>1. SUFFICES ASSUME Page(name)!IsInjective(q), NEW a \in 1 .. k, NEW b \in 1 .. k,
                        rest[a] = rest[b]
                 PROVE  a = b
    BY <1>7 DEF Page!IsInjective
  <2>2. q[a + n] = q[b + n] BY <1>5, <2>1
  <2>3. a + n = b + n BY <1>7, <1>8, <2>1, <2>2 DEF Page!IsInjective
  <2> QED BY <2>3
<1>10. rest = << >> => l <= n BY <1>2, <1>4
<1> QED BY <1>1, <1>4, <1>6, <1>9, <1>10

-----------------------------------------------------------------------------
(* The section. No more than its limit, of the kinds its type allows.      *)
LEMMA SectionLimit ==
  ASSUME NEW name \in PageNames, Page(name)!HomeConstants, Page(name)!SectionPicks
  PROVE  /\ s1 \in HomeTypes[name]
         /\ HomeCaps[name][s1] \in Nat /\ HomeCaps[name][s1] > 0
         /\ Page(name)!effective_item_limit \in Nat /\ Page(name)!effective_item_limit > 0
  BY DEF Page!HomeConstants, Page!SectionPicks, Page!effective_item_limit

(* The titles named of a set.                                              *)
LEMMA NamedIs ==
  ASSUME NEW name \in PageNames, Page(name)!HomeConstants,
         NEW S \in SUBSET Page(name)!Things
  PROVE  /\ Page(name)!Named(S) \in Seq(S) /\ Page(name)!IsInjective(Page(name)!Named(S))
         /\ Page(name)!Named(S) = << >> => S = {}
<1>1. PICK q, U : q = HomeNewest[name] /\ U = Page(name)!Things OBVIOUS
<1>2. q \in Seq(U) /\ Page(name)!IsInjective(q) /\ Page(name)!Range(q) = U
  BY <1>1 DEF Page!HomeConstants
<1>3. Page(name)!Named(S) = Page(name)!Keep(q, S) BY <1>1 DEF Page!Named
<1>4. U \cap S = S BY <1>1
<1>5. Page(name)!Keep(q, S) \in Seq(S) BY <1>2, <1>4, KeepIs
<1>6. Page(name)!IsInjective(Page(name)!Keep(q, S)) BY <1>2, KeepIs
<1>7. Page(name)!Keep(q, S) = << >> => S = {}
  <2>1. Page(name)!Keep(q, S) = << >> => \A i \in 1 .. Len(q) : q[i] \notin S
    BY <1>2, KeepIs
  <2>2. \A x \in S : \E i \in 1 .. Len(q) : q[i] = x
    <3>1. DOMAIN q = 1 .. Len(q) BY <1>2
    <3> QED BY <1>1, <1>2, <3>1 DEF Page!Range
  <2> QED BY <2>1, <2>2
<1> QED BY <1>3, <1>5, <1>6, <1>7

(* What the catalogue fills a section with.                                *)
LEMMA AutomaticIs ==
  ASSUME NEW name \in PageNames, Page(name)!HomeConstants, Page(name)!SectionPicks
  PROVE  /\ Page(name)!Automatic
              \in Seq(Page(name)!ITEM_KINDS_BY_TYPE(s1) \cap (s4 \cup s7))
         /\ Page(name)!IsInjective(Page(name)!Automatic)
         /\ Page(name)!Automatic = << >> =>
              /\ s1 \in {"tv", "series", "most_watched"}
                   => Page(name)!ITEM_KINDS_BY_TYPE(s1) \cap s4 = {}
              /\ s1 = "trending"
                   => Len(Page(name)!Named(HomeMovies[name] \cap s4)) <= HomeOffset[name]
<1>1. ASSUME NEW S, S \subseteq Page(name)!ITEM_KINDS_BY_TYPE(s1) \cap (s4 \cup s7),
             NEW q \in Seq(S)
      PROVE  q \in Seq(Page(name)!ITEM_KINDS_BY_TYPE(s1) \cap (s4 \cup s7))
  BY <1>1
<1>2. CASE s1 = "banners"
  <2>1. PICK S : S = HomeBanners[name] \cap s4 \cap s5 OBVIOUS
  <2>2. S \subseteq Page(name)!ITEM_KINDS_BY_TYPE(s1) \cap (s4 \cup s7)
          /\ S \subseteq Page(name)!Things
    BY <1>2, <2>1 DEF Page!ITEM_KINDS_BY_TYPE, Page!Things
  <2>3. Page(name)!Automatic = Page(name)!Named(S) BY <1>2, <2>1 DEF Page!Automatic
  <2> QED BY <1>1, <1>2, <2>2, <2>3, NamedIs
<1>3. CASE s1 \in {"tv", "series", "most_watched"}
  <2>1. PICK S : S = Page(name)!ITEM_KINDS_BY_TYPE(s1) \cap s4 OBVIOUS
  <2>2. S \subseteq Page(name)!ITEM_KINDS_BY_TYPE(s1) \cap (s4 \cup s7)
          /\ S \subseteq Page(name)!Things
    BY <1>3, <2>1 DEF Page!ITEM_KINDS_BY_TYPE, Page!Things
  <2>3. Page(name)!Automatic = Page(name)!Named(S)
    BY <1>3, <2>1 DEF Page!Automatic, Page!ITEM_KINDS_BY_TYPE
  <2>4. Page(name)!Automatic = << >> => S = {} BY <2>2, <2>3, NamedIs
  <2> QED BY <1>1, <1>3, <2>1, <2>2, <2>3, <2>4, NamedIs
<1>4. CASE s1 = "coming_soon"
  <2>1. PICK S : S = s7 \cap s6 OBVIOUS
  <2>2. S \subseteq Page(name)!ITEM_KINDS_BY_TYPE(s1) \cap (s4 \cup s7)
          /\ S \subseteq Page(name)!Things
    BY <1>4, <2>1 DEF Page!SectionPicks, Page!ITEM_KINDS_BY_TYPE, Page!Things
  <2>3. PICK n \in Nat : n = HomeCaps[name][s1] BY SectionLimit
  <2>4. Page(name)!Automatic = Page(name)!Cut(Page(name)!Named(S), n)
    BY <1>4, <2>1, <2>3 DEF Page!Automatic
  <2>5. PICK q : q = Page(name)!Named(S) OBVIOUS
  <2>6. q \in Seq(S) /\ Page(name)!IsInjective(q) BY <2>2, <2>5, NamedIs
  <2>7. Page(name)!Cut(q, n) \in Seq(S) /\ Page(name)!IsInjective(Page(name)!Cut(q, n))
    BY <2>6, CutIs
  <2> QED BY <1>1, <1>4, <2>2, <2>4, <2>5, <2>7
<1>5. CASE s1 = "trending"
  <2>1. PICK S : S = HomeMovies[name] \cap s4 OBVIOUS
  <2>2. S \subseteq Page(name)!ITEM_KINDS_BY_TYPE(s1) \cap (s4 \cup s7)
          /\ S \subseteq Page(name)!Things
    BY <1>5, <2>1 DEF Page!ITEM_KINDS_BY_TYPE, Page!Things
  <2>3. PICK q, n : q = Page(name)!Named(S) /\ n = HomeOffset[name] OBVIOUS
  <2>4. q \in Seq(S) /\ Page(name)!IsInjective(q) /\ n \in Nat
    BY <2>2, <2>3, NamedIs DEF Page!HomeConstants
  <2>5. /\ Page(name)!After(q, n) \in Seq(S)
        /\ Page(name)!IsInjective(Page(name)!After(q, n))
        /\ Page(name)!After(q, n) = << >> => Len(q) <= n
    BY <2>4, AfterIs
  <2>6. Page(name)!Automatic = Page(name)!After(q, n)
    BY <1>5, <2>1, <2>3 DEF Page!Automatic
  <2> QED BY <1>1, <1>5, <2>1, <2>2, <2>3, <2>5, <2>6
<1>6. CASE s1 \in {"genre", "custom"}
  <2>1. Page(name)!Automatic = << >> BY <1>6 DEF Page!Automatic
  <2>2. \A U : << >> \in Seq(U) OBVIOUS
  <2>3. Page(name)!IsInjective(<< >>) BY DEF Page!IsInjective
  <2> QED BY <1>6, <2>1, <2>2, <2>3
<1>7. s1 \in {"trending", "most_watched", "coming_soon", "genre", "custom", "series", "tv",
              "banners"}
  BY DEF Page!HomeConstants, Page!SectionPicks
<1> QED BY <1>2, <1>3, <1>4, <1>5, <1>6, <1>7

(* What a section shows.                                                   *)
LEMMA SectionRight ==
  ASSUME NEW name \in PageNames, Page(name)!HomeConstants, Page(name)!SectionPicks
  PROVE  Page(name)!SectionWhole
<1>1. PICK n \in Nat : n = Page(name)!effective_item_limit /\ n > 0 BY SectionLimit
<1>2. PICK U : U = Page(name)!ITEM_KINDS_BY_TYPE(s1) OBVIOUS
<1>3. s2 \in Seq(U) /\ Page(name)!IsInjective(s2) BY <1>2 DEF Page!SectionPicks
<1>4. PICK k : k = Page(name)!Keep(s2, s4) OBVIOUS
<1>5. /\ k \in Seq(U \cap s4) /\ Page(name)!IsInjective(k)
      /\ k = << >> => \A i \in 1 .. Len(s2) : s2[i] \notin s4
  BY <1>3, <1>4, KeepIs
<1>6. PICK a : a = Page(name)!Automatic OBVIOUS
<1>7. /\ a \in Seq(U \cap (s4 \cup s7)) /\ Page(name)!IsInjective(a)
      /\ a = << >> =>
           /\ s1 \in {"tv", "series", "most_watched"} => U \cap s4 = {}
           /\ s1 = "trending"
                => Len(Page(name)!Named(HomeMovies[name] \cap s4)) <= HomeOffset[name]
  BY <1>2, <1>6, AutomaticIs
<1>8. PICK p, q : /\ p = Page(name)!Cut(k, n)
                  /\ q = IF p # << >> THEN p ELSE Page(name)!Cut(a, n)
  OBVIOUS
<1>9. q = Page(name)!resolve_public_sections
  BY <1>1, <1>4, <1>6, <1>8 DEF Page!resolve_public_sections, Page!Picked
<1>10. /\ p \in Seq(U \cap s4) /\ Len(p) <= n /\ Page(name)!IsInjective(p)
       /\ p = << >> => k = << >>
  BY <1>1, <1>5, <1>8, CutIs
<1>11. /\ Page(name)!Cut(a, n) \in Seq(U \cap (s4 \cup s7))
       /\ Len(Page(name)!Cut(a, n)) <= n
       /\ Page(name)!IsInjective(Page(name)!Cut(a, n))
       /\ Page(name)!Cut(a, n) = << >> => a = << >>
  BY <1>1, <1>7, CutIs
<1>12. q \in Seq(U \cap (s4 \cup s7)) /\ Len(q) <= n /\ Page(name)!IsInjective(q)
  <2>1. p \in Seq(U \cap (s4 \cup s7)) BY <1>10
  <2> QED BY <1>8, <1>10, <1>11, <2>1
<1>13. Page(name)!Shows(q) \subseteq U \cap (s4 \cup s7) BY <1>12 DEF Page!Shows
<1>14. q = << >> => k = << >> /\ a = << >> BY <1>8, <1>10, <1>11
<1>15. q = << >> => Page(name)!Shows(s2) \cap s4 = {} BY <1>5, <1>14 DEF Page!Shows
<1> QED BY <1>1, <1>2, <1>7, <1>9, <1>12, <1>13, <1>14, <1>15 DEF Page!SectionWhole

(* The section is edited.                                                  *)
LEMMA SectionEdited ==
  ASSUME NEW name \in PageNames, Page(name)!HomeConstants, Page(name)!SectionPicks,
         \/ \E x \in Page(name)!Things : Page(name)!Pick(x) \/ Page(name)!Unpick(x)
         \/ \E n \in HomeLimits[name] \cup {None} : Page(name)!SetLimit(n)
  PROVE  Page(name)!SectionPicks'
<1>1. PICK U : U = Page(name)!ITEM_KINDS_BY_TYPE(s1) OBVIOUS
<1>2. /\ s2 \in Seq(U) /\ Page(name)!IsInjective(s2)
      /\ s1 \in HomeTypes[name] /\ s3 \in HomeLimits[name] \cup {None}
      /\ s7 \subseteq HomeMovies[name]
  BY <1>1 DEF Page!SectionPicks
<1>3. s1' = s1 /\ s7' = s7 /\ Page(name)!ITEM_KINDS_BY_TYPE(s1)' = U
  BY <1>1 DEF Page!Pick, Page!Unpick, Page!SetLimit, Page!ITEM_KINDS_BY_TYPE
<1>4. ASSUME NEW q \in Seq(U), Page(name)!IsInjective(q), s2' = q,
             s3' \in HomeLimits[name] \cup {None}
      PROVE  Page(name)!SectionPicks'
  BY <1>2, <1>3, <1>4 DEF Page!SectionPicks
<1>5. ASSUME NEW x \in Page(name)!Things, Page(name)!Pick(x)
      PROVE  Page(name)!SectionPicks'
  <2>1. x \in U /\ x \notin Page(name)!Range(s2) /\ s3' = s3
    BY <1>1, <1>5 DEF Page!Pick
  <2>2. PICK q : q = Append(s2, x) OBVIOUS
  <2>3. s2' = q /\ q \in Seq(U) BY <1>2, <1>5, <2>1, <2>2 DEF Page!Pick
  <2>4. PICK n \in Nat : n = Len(s2) BY <1>2
  <2>5. /\ DOMAIN s2 = 1 .. n /\ DOMAIN q = 1 .. (n + 1) /\ q[n + 1] = x
        /\ \A i \in 1 .. n : q[i] = s2[i]
    BY <1>2, <2>1, <2>2, <2>4
  <2>6. \A i \in 1 .. n : s2[i] # x BY <2>1, <2>5 DEF Page!Range
  <2>7. \A i \in 1 .. (n + 1) : i \in 1 .. n \/ i = n + 1 BY <2>4
  <2>8. Page(name)!IsInjective(q)
    BY <1>2, <2>5, <2>6, <2>7 DEF Page!IsInjective
  <2> QED BY <1>2, <1>4, <2>1, <2>3, <2>8
<1>6. ASSUME NEW x \in Page(name)!Things, Page(name)!Unpick(x)
      PROVE  Page(name)!SectionPicks'
  <2>1. PICK S : S = Page(name)!Things \ {x} OBVIOUS
  <2>2. PICK q : q = Page(name)!Keep(s2, S) OBVIOUS
  <2>3. q \in Seq(U \cap S) /\ Page(name)!IsInjective(q) BY <1>2, <2>2, KeepIs
  <2>4. q \in Seq(U) BY <2>3
  <2>5. s2' = q /\ s3' = s3 BY <1>6, <2>1, <2>2 DEF Page!Unpick
  <2> QED BY <1>2, <1>4, <2>3, <2>4, <2>5
<1>7. ASSUME NEW n \in HomeLimits[name] \cup {None}, Page(name)!SetLimit(n)
      PROVE  Page(name)!SectionPicks'
  <2>1. s2' = s2 /\ s3' = n BY <1>7 DEF Page!SetLimit
  <2> QED BY <1>2, <1>4, <2>1
<1> QED BY <1>5, <1>6, <1>7

(* Nothing is edited yet.                                                  *)
LEMMA PageInit ==
  ASSUME NEW name \in PageNames, Page(name)!HomeConstants, Page(name)!Init
  PROVE  Page(name)!IInv
<1>1. PICK q : q = << >> OBVIOUS
<1>2. q \in Seq(Page(name)!ITEM_KINDS_BY_TYPE(s1)) /\ Page(name)!IsInjective(q)
  BY <1>1 DEF Page!IsInjective
<1>3. s2 = q BY <1>1 DEF Page!Init
<1>4. Page(name)!SectionPicks BY <1>2, <1>3 DEF Page!Init, Page!SectionPicks
<1>5. Page(name)!SlideRows BY DEF Page!Init, Page!SlideRows
<1>6. Page(name)!Idle \in Page(name)!Patches /\ Page(name)!Patch(Page(name)!Idle)
  BY DEF Page!Idle, Page!Patches, Page!Patch
<1>7. s10 = [r \in HomeRequests[name] |-> Page(name)!Idle] BY DEF Page!Init
<1>8. /\ s10 \in [HomeRequests[name] -> Page(name)!Patches]
      /\ \A r \in HomeRequests[name] : Page(name)!Patch(s10[r])
  BY <1>6, <1>7
<1> QED BY <1>4, <1>5, <1>8 DEF Page!IInv

-----------------------------------------------------------------------------
(* The carousel. A slide z gets the row w, and some requests are late.     *)
LEMMA SlideSet ==
  ASSUME NEW name \in PageNames, Page(name)!HomeConstants, Page(name)!SlideRows,
         NEW z \in HomeSlides[name], NEW w \in Page(name)!Rows, NEW late \in BOOLEAN,
         s8' = [s8 EXCEPT ![z] = w], s9' = [s9 EXCEPT ![z] = late],
         ~late => Page(name)!validate_hero_content(w), ~Page(name)!Featured(z, w)
  PROVE  Page(name)!SlideRows'
<1>1. /\ s8' \in [HomeSlides[name] -> Page(name)!Rows \cup {None}]
      /\ s9' \in [HomeSlides[name] -> BOOLEAN]
      /\ \A o \in HomeSlides[name] : /\ s8'[o] = IF o = z THEN w ELSE s8[o]
                                     /\ s9'[o] = IF o = z THEN late ELSE s9[o]
  BY DEF Page!SlideRows
<1>2. \A o \in HomeSlides[name] : s8'[o] # None /\ ~s9'[o]
        => Page(name)!validate_hero_content(s8'[o])
  BY <1>1 DEF Page!SlideRows
<1>3. \A o \in HomeSlides[name] \ {z} :
        ~(w.id # None /\ s8[o] # None /\ s8[o].type = w.type /\ s8[o].id = w.id)
  BY DEF Page!Featured
<1>4. ASSUME NEW a \in HomeSlides[name], NEW b \in HomeSlides[name],
             s8'[a] # None, s8'[b] # None, s8'[a].id # None,
             s8'[b].type = s8'[a].type, s8'[b].id = s8'[a].id
      PROVE  b = a
  <2>1. CASE a = z BY <1>1, <1>3, <1>4, <2>1
  <2>2. CASE a # z /\ b = z BY <1>1, <1>3, <1>4, <2>2
  <2>3. CASE a # z /\ b # z BY <1>1, <1>4, <2>3 DEF Page!SlideRows
  <2> QED BY <2>1, <2>2, <2>3
<1> QED BY <1>1, <1>2, <1>4 DEF Page!SlideRows, Page!validate_hero_content

(* A slide is created,                                                     *)
LEMMA SlideCreated ==
  ASSUME NEW name \in PageNames, Page(name)!HomeConstants, Page(name)!IInv,
         NEW z \in HomeSlides[name], NEW w \in Page(name)!Rows,
         Page(name)!create_admin_hero_featured(z, w)
  PROVE  Page(name)!IInv'
<1>1. /\ s8[z] = None /\ \A r \in HomeRequests[name] : s10[r].s # z
      /\ Page(name)!validate_hero_content(w) /\ ~Page(name)!Featured(z, w)
      /\ s8' = [s8 EXCEPT ![z] = w] /\ s9' = [s9 EXCEPT ![z] = FALSE]
      /\ s1' = s1 /\ s2' = s2 /\ s3' = s3 /\ s7' = s7 /\ s10' = s10
  BY DEF Page!create_admin_hero_featured, Page!page
<1>2. Page(name)!SlideRows' BY <1>1, SlideSet DEF Page!IInv
<1>3. Page(name)!SectionPicks'
  BY <1>1 DEF Page!IInv, Page!SectionPicks, Page!ITEM_KINDS_BY_TYPE
<1>4. ASSUME NEW r \in HomeRequests[name] PROVE Page(name)!Patch(s10[r])'
  <2>1. Page(name)!Patch(s10[r]) BY DEF Page!IInv
  <2>2. s10[r].at = "commit" => s8'[s10[r].s] = s8[s10[r].s]
    BY <1>1, <2>1 DEF Page!Patch, Page!IInv, Page!SlideRows
  <2> QED BY <1>1, <2>1, <2>2 DEF Page!Patch, Page!validate_hero_content
<1>5. s10' \in [HomeRequests[name] -> Page(name)!Patches]'
  BY <1>1 DEF Page!IInv, Page!Patches, Page!Rows
<1> QED BY <1>1, <1>2, <1>3, <1>4, <1>5 DEF Page!IInv

(* is deleted.                                                             *)
LEMMA SlideDeleted ==
  ASSUME NEW name \in PageNames, Page(name)!HomeConstants, Page(name)!IInv,
         NEW z \in HomeSlides[name], Page(name)!delete_admin_hero_featured(z)
  PROVE  Page(name)!IInv'
<1>1. /\ s8' = [s8 EXCEPT ![z] = None] /\ s9' = s9
      /\ s1' = s1 /\ s2' = s2 /\ s3' = s3 /\ s7' = s7 /\ s10' = s10
  BY DEF Page!delete_admin_hero_featured, Page!page
<1>2. /\ s8' \in [HomeSlides[name] -> Page(name)!Rows \cup {None}]
      /\ \A o \in HomeSlides[name] : s8'[o] = IF o = z THEN None ELSE s8[o]
  BY <1>1 DEF Page!IInv, Page!SlideRows
<1>3. Page(name)!SlideRows'
  BY <1>1, <1>2 DEF Page!IInv, Page!SlideRows, Page!validate_hero_content, Page!Rows
<1>4. Page(name)!SectionPicks'
  BY <1>1 DEF Page!IInv, Page!SectionPicks, Page!ITEM_KINDS_BY_TYPE
<1>5. ASSUME NEW r \in HomeRequests[name] PROVE Page(name)!Patch(s10[r])'
  <2>1. Page(name)!Patch(s10[r]) BY DEF Page!IInv
  <2> QED BY <1>1, <1>2, <2>1 DEF Page!Patch, Page!validate_hero_content, Page!Rows
<1>6. s10' \in [HomeRequests[name] -> Page(name)!Patches]'
  BY <1>1 DEF Page!IInv, Page!Patches, Page!Rows
<1> QED BY <1>1, <1>3, <1>4, <1>5, <1>6 DEF Page!IInv

(* A change is checked on the row that was loaded.                         *)
LEMMA PatchChecked ==
  ASSUME NEW name \in PageNames, Page(name)!HomeConstants, Page(name)!IInv,
         NEW r \in HomeRequests[name], NEW z \in HomeSlides[name],
         NEW w \in Page(name)!Rows, Page(name)!CheckPatch(r, z, w)
  PROVE  Page(name)!IInv'
<1>1. PICK row, new : /\ row = s8[z]
                      /\ new = IF w.type = "custom" THEN [w EXCEPT !.id = None] ELSE w
  OBVIOUS
<1>2. row \in Page(name)!Rows
  BY <1>1 DEF Page!CheckPatch, Page!IInv, Page!SlideRows
<1>3. new \in Page(name)!Rows BY <1>1 DEF Page!Rows
<1>4. \/ new = [row EXCEPT !.on = new.on] /\ new.type # "custom"
      \/ Page(name)!validate_hero_content(new)
  BY <1>1 DEF Page!CheckPatch
<1>5. PICK x : x = [Page(name)!Idle EXCEPT !.at = "commit", !.s = z, !.row = row,
                     !.new = new]
  OBVIOUS
<1>6. /\ x \in Page(name)!Patches /\ x.s = z /\ x.row = row /\ x.new = new
      /\ ~x.late
  BY <1>2, <1>3, <1>5 DEF Page!Idle, Page!Patches
<1>7. /\ s10' = [s10 EXCEPT ![r] = x] /\ s8' = s8 /\ s9' = s9
      /\ s1' = s1 /\ s2' = s2 /\ s3' = s3 /\ s7' = s7
  BY <1>1, <1>5 DEF Page!CheckPatch, Page!page
<1>8. Page(name)!Patch(x) BY <1>1, <1>2, <1>3, <1>4, <1>6 DEF Page!Patch
<1>9. \A o \in HomeRequests[name] : s10'[o] = IF o = r THEN x ELSE s10[o]
  BY <1>7 DEF Page!IInv
<1>10. s10' \in [HomeRequests[name] -> Page(name)!Patches]
  BY <1>6, <1>7 DEF Page!IInv
<1>11. \A q : Page(name)!Patch(q) => Page(name)!Patch(q)'
  BY <1>7 DEF Page!Patch, Page!validate_hero_content, Page!Rows
<1>12. \A o \in HomeRequests[name] : Page(name)!Patch(s10[o])'
  BY <1>7, <1>8, <1>9 DEF Page!IInv, Page!Patch, Page!validate_hero_content, Page!Rows
<1>13. Page(name)!SectionPicks' /\ Page(name)!SlideRows'
  BY <1>7 DEF Page!IInv, Page!SectionPicks, Page!ITEM_KINDS_BY_TYPE, Page!SlideRows,
     Page!validate_hero_content, Page!Rows
<1> QED BY <1>10, <1>12, <1>13 DEF Page!IInv, Page!Patches, Page!Rows

(* What is written of a change that finds the row it loaded is the change. *)
LEMMA MergeIs ==
  ASSUME NEW name \in PageNames, NEW q \in Page(name)!Patches,
         q.row \in Page(name)!Rows, q.new \in Page(name)!Rows, s8[q.s] = q.row
  PROVE  Page(name)!Merge(q) = q.new
<1>1. PICK now, new, old : now = s8[q.s] /\ new = q.new /\ old = q.row OBVIOUS
<1>2. now = old /\ new \in Page(name)!Rows /\ old \in Page(name)!Rows BY <1>1
<1>3. PICK media : media = {k \in HomeMedia[name] :
                             IF (k \in new.media) # (k \in old.media)
                               THEN k \in new.media ELSE k \in now.media}
  OBVIOUS
<1>4. new.media \subseteq HomeMedia[name] BY <1>2 DEF Page!Rows
<1>5. media = new.media BY <1>2, <1>3, <1>4
<1>6. PICK x : x = [type |-> IF new.type # old.type THEN new.type ELSE now.type,
                    id |-> IF new.id # old.id THEN new.id ELSE now.id,
                    on |-> IF new.on # old.on THEN new.on ELSE now.on,
                    media |-> media]
  OBVIOUS
<1>7. x = [type |-> new.type, id |-> new.id, on |-> new.on, media |-> new.media]
  BY <1>2, <1>5, <1>6
<1>8. new = [type |-> new.type, id |-> new.id, on |-> new.on, media |-> new.media]
  BY <1>2 DEF Page!Rows
<1>9. x = Page(name)!Merge(q) BY <1>1, <1>3, <1>6 DEF Page!Merge
<1> QED BY <1>1, <1>7, <1>8, <1>9

(* It is a row in any case.                                                *)
LEMMA MergeRow ==
  ASSUME NEW name \in PageNames, NEW q \in Page(name)!Patches,
         q.row \in Page(name)!Rows, q.new \in Page(name)!Rows,
         s8[q.s] \in Page(name)!Rows
  PROVE  Page(name)!Merge(q) \in Page(name)!Rows
  BY DEF Page!Merge, Page!Rows

(* A change is written; the others on this slide are late.                 *)
LEMMA PatchCommitted ==
  ASSUME NEW name \in PageNames, Page(name)!HomeConstants, Page(name)!IInv,
         NEW r \in HomeRequests[name], Page(name)!CommitPatch(r)
  PROVE  Page(name)!IInv'
<1>1. PICK q : q = s10[r] OBVIOUS
<1>2. q \in Page(name)!Patches /\ Page(name)!Patch(q) /\ q.at = "commit"
  BY <1>1 DEF Page!IInv, Page!CommitPatch
<1>3. q.s \in HomeSlides[name] /\ q.row \in Page(name)!Rows /\ q.new \in Page(name)!Rows
  BY <1>2 DEF Page!Patch
<1>4. PICK i : i = Page(name)!Idle OBVIOUS
<1>5. i \in Page(name)!Patches /\ i.at = "idle" BY <1>4 DEF Page!Idle, Page!Patches
<1>6. s1' = s1 /\ s2' = s2 /\ s3' = s3 /\ s7' = s7 BY DEF Page!CommitPatch, Page!page
<1>7. Page(name)!SectionPicks'
  BY <1>6 DEF Page!IInv, Page!SectionPicks, Page!ITEM_KINDS_BY_TYPE
<1>8. s10 \in [HomeRequests[name] -> Page(name)!Patches] BY DEF Page!IInv
<1>9. CASE s8[q.s] = None \/ Page(name)!Featured(q.s, Page(name)!Merge(q))
  <2>1. s8' = s8 /\ s9' = s9 /\ s10' = [s10 EXCEPT ![r] = i]
    BY <1>1, <1>4, <1>9 DEF Page!CommitPatch
  <2>2. Page(name)!SlideRows'
    BY <2>1 DEF Page!IInv, Page!SlideRows, Page!validate_hero_content, Page!Rows
  <2>3. s10' \in [HomeRequests[name] -> Page(name)!Patches] BY <1>5, <1>8, <2>1
  <2>4. ASSUME NEW o \in HomeRequests[name] PROVE Page(name)!Patch(s10[o])'
    <3>1. s10'[o] = IF o = r THEN i ELSE s10[o] BY <1>8, <2>1
    <3>2. CASE o = r BY <1>5, <3>1, <3>2 DEF Page!Patch
    <3>3. CASE o # r
      <4>1. Page(name)!Patch(s10[o]) /\ s10'[o] = s10[o] BY <3>1, <3>3 DEF Page!IInv
      <4> QED BY <2>1, <4>1 DEF Page!Patch, Page!validate_hero_content, Page!Rows
    <3> QED BY <3>2, <3>3
  <2> QED BY <1>7, <2>2, <2>3, <2>4 DEF Page!IInv, Page!Patches, Page!Rows
<1>10. CASE ~(s8[q.s] = None \/ Page(name)!Featured(q.s, Page(name)!Merge(q)))
  <2>1. PICK w : w = Page(name)!Merge(q) OBVIOUS
  <2>2. s8[q.s] \in Page(name)!Rows
    BY <1>3, <1>10 DEF Page!IInv, Page!SlideRows
  <2>3. w \in Page(name)!Rows BY <1>2, <1>3, <2>1, <2>2, MergeRow
  <2>4. PICK late \in BOOLEAN : late = (s9[q.s] \/ q.late)
    BY <1>2, <1>3 DEF Page!IInv, Page!SlideRows, Page!Patches
  <2>5. PICK J : J = [o \in HomeRequests[name] |->
                       IF o = r THEN i
                       ELSE IF s10[o].s = q.s THEN [s10[o] EXCEPT !.late = TRUE]
                       ELSE s10[o]]
    OBVIOUS
  <2>6. /\ s8' = [s8 EXCEPT ![q.s] = w] /\ s10' = J
        /\ s9' = [s9 EXCEPT ![q.s] = s9[q.s] \/ q.late]
    BY <1>1, <1>4, <1>10, <2>1, <2>5 DEF Page!CommitPatch
  <2>7. ~late => Page(name)!validate_hero_content(w)
    <3>1. SUFFICES ASSUME ~late PROVE Page(name)!validate_hero_content(w) OBVIOUS
    <3>2. ~s9[q.s] /\ ~q.late BY <2>4, <3>1
    <3>3. s8[q.s] = q.row BY <1>2, <1>10, <3>2 DEF Page!Patch
    <3>4. w = q.new BY <1>2, <1>3, <2>1, <3>3, MergeIs
    <3>5. Page(name)!validate_hero_content(q.row)
      BY <1>3, <1>10, <3>2, <3>3 DEF Page!IInv, Page!SlideRows
    <3>6. PICK new, old : new = q.new /\ old = q.row OBVIOUS
    <3>7. \/ Page(name)!validate_hero_content(new)
          \/ new = [old EXCEPT !.on = new.on] /\ new.type # "custom"
      BY <1>2, <3>6 DEF Page!Patch
    <3>8. ASSUME new = [old EXCEPT !.on = new.on]
          PROVE  new.type = old.type /\ new.id = old.id
      BY <1>3, <3>6, <3>8 DEF Page!Rows
    <3> QED BY <3>4, <3>5, <3>6, <3>7, <3>8 DEF Page!validate_hero_content
  <2>8. s9' = [s9 EXCEPT ![q.s] = late] BY <2>4, <2>6
  <2>9. Page(name)!SlideRows'
    BY <1>3, <1>10, <2>1, <2>3, <2>6, <2>7, <2>8, SlideSet DEF Page!IInv
  <2>10. ASSUME NEW o \in HomeRequests[name]
         PROVE  J[o] \in Page(name)!Patches /\ Page(name)!Patch(J[o])'
    <3>1. PICK x : x = s10[o] OBVIOUS
    <3>2. x \in Page(name)!Patches /\ Page(name)!Patch(x) BY <3>1 DEF Page!IInv
    <3>3. CASE o = r
      <4>1. J[o] = i BY <2>5, <3>3
      <4> QED BY <1>5, <4>1 DEF Page!Patch
    <3>4. CASE o # r /\ x.s = q.s
      <4>1. PICK y : y = [x EXCEPT !.late = TRUE] OBVIOUS
      <4>2. /\ y \in Page(name)!Patches /\ y.at = x.at /\ y.s = x.s /\ y.row = x.row
            /\ y.new = x.new /\ y.late
        BY <3>2, <4>1 DEF Page!Patches
      <4>3. J[o] = y BY <2>5, <3>1, <3>4, <4>1
      <4>4. /\ J[o].at = x.at /\ J[o].s = x.s /\ J[o].row = x.row
            /\ J[o].new = x.new /\ J[o].late
        BY <4>2, <4>3
      <4> QED
        BY <3>2, <4>2, <4>3, <4>4 DEF Page!Patch, Page!validate_hero_content, Page!Rows
    <3>5. CASE o # r /\ x.s # q.s
      <4>1. J[o] = x BY <2>5, <3>1, <3>5
      <4>2. x.at = "commit" => s8'[x.s] = s8[x.s]
        BY <2>6, <3>2, <3>5 DEF Page!Patch, Page!IInv, Page!SlideRows
      <4> QED
        BY <3>2, <4>1, <4>2 DEF Page!Patch, Page!validate_hero_content, Page!Rows
    <3> QED BY <3>3, <3>4, <3>5
  <2>11. s10' \in [HomeRequests[name] -> Page(name)!Patches] BY <2>5, <2>6, <2>10
  <2>12. \A o \in HomeRequests[name] : Page(name)!Patch(s10[o])'
    BY <2>6, <2>10 DEF Page!Patch, Page!validate_hero_content, Page!Rows
  <2> QED BY <1>7, <2>9, <2>11, <2>12 DEF Page!IInv, Page!Patches, Page!Rows
<1> QED BY <1>9, <1>10

(* Every step keeps it.                                                    *)
LEMMA PageNext ==
  ASSUME NEW name \in PageNames, Page(name)!HomeConstants, Page(name)!IInv,
         Page(name)!Next
  PROVE  Page(name)!IInv'
<1>1. ASSUME s8' = s8, s9' = s9, s10' = s10, Page(name)!SectionPicks'
      PROVE  Page(name)!IInv'
  BY <1>1 DEF Page!IInv, Page!SlideRows, Page!Patches, Page!Patch,
     Page!validate_hero_content, Page!Rows
<1>2. ASSUME \/ \E x \in Page(name)!Things : Page(name)!Pick(x) \/ Page(name)!Unpick(x)
             \/ \E n \in HomeLimits[name] \cup {None} : Page(name)!SetLimit(n)
      PROVE  Page(name)!IInv'
  <2>1. s8' = s8 /\ s9' = s9 /\ s10' = s10
    BY <1>2 DEF Page!Pick, Page!Unpick, Page!SetLimit
  <2>2. Page(name)!SectionPicks' BY <1>2, SectionEdited DEF Page!IInv
  <2> QED BY <1>1, <2>1, <2>2
<1>3. ASSUME s1' = s1, s2' = s2, s3' = s3, s7' \subseteq HomeMovies[name]
      PROVE  Page(name)!SectionPicks'
  BY <1>3 DEF Page!IInv, Page!SectionPicks, Page!ITEM_KINDS_BY_TYPE
<1>4. ASSUME \/ \E x \in Page(name)!Things : Page(name)!Release(x)
             \/ \E b \in HomeBanners[name] : Page(name)!Window(b)
             \/ \E n \in HomeMovies[name] : Page(name)!Poster(n) \/ Page(name)!ListSoon(n)
      PROVE  Page(name)!IInv'
  <2>1. /\ s1' = s1 /\ s2' = s2 /\ s3' = s3
        /\ s8' = s8 /\ s9' = s9 /\ s10' = s10
    BY <1>4 DEF Page!Release, Page!Window, Page!Poster, Page!ListSoon
  <2>2. s7 \subseteq HomeMovies[name] BY DEF Page!IInv, Page!SectionPicks
  <2>3. s7' \subseteq HomeMovies[name]
    BY <1>4, <2>2 DEF Page!Release, Page!Window, Page!Poster, Page!ListSoon, Page!Flip
  <2> QED BY <1>1, <1>3, <2>1, <2>3
<1> QED
  BY <1>2, <1>4, SlideCreated, SlideDeleted, PatchChecked, PatchCommitted DEF Page!Next

(* What the carousel shows.                                                *)
LEMMA SlidesRight ==
  ASSUME NEW name \in PageNames, Page(name)!HomeConstants, Page(name)!SlideRows
  PROVE  Page(name)!SlidesWhole
<1>1. SUFFICES ASSUME NEW z \in HomeSlides[name], Page(name)!Shown(z), ~s9[z],
                      NEW w, w = Page(name)!_build_slide(z)
      PROVE  /\ w.video \cup w.picture # {}
             /\ w.type = "custom" \/ w.id \in s4
             /\ w.type = "custom" => w.id = None
             /\ w.type = "movie" => w.id \in HomeMovies[name]
             /\ \A o \in HomeSlides[name] : Page(name)!Shown(o) /\ w.id # None
                  /\ s8[o].type = w.type /\ s8[o].id = w.id => o = z
  BY DEF Page!SlidesWhole
<1>2. PICK x : x = s8[z] OBVIOUS
<1>3. /\ x \in Page(name)!Rows /\ Page(name)!validate_hero_content(x)
      /\ x.type = "custom" \/ x.id \in s4
  BY <1>1, <1>2 DEF Page!SlideRows, Page!Shown
<1>4. /\ w.type = x.type /\ w.id = x.id /\ w.video = Page(name)!Played(z)
      /\ w.picture = IF x.type = "custom" THEN x.media \cap {"banner"} ELSE {"banner"}
  BY <1>1, <1>2 DEF Page!_build_slide
<1>5. w.video \cup w.picture # {}
  <2>1. x.media \subseteq {"video", "youtube", "banner"}
    BY <1>3 DEF Page!Rows, Page!HomeConstants
  <2>2. CASE x.type = "custom"
    <3>1. PICK k : k \in x.media BY <1>3, <2>2 DEF Page!validate_hero_content
    <3> QED BY <1>2, <1>4, <2>1, <2>2, <3>1 DEF Page!Played
  <2>3. CASE x.type # "custom" BY <1>4, <2>3
  <2> QED BY <2>2, <2>3
<1>6. /\ w.type = "custom" => w.id = None
      /\ w.type = "movie" => w.id \in HomeMovies[name]
  BY <1>3, <1>4 DEF Page!validate_hero_content
<1>7. ASSUME NEW o \in HomeSlides[name], Page(name)!Shown(o), w.id # None,
             s8[o].type = w.type, s8[o].id = w.id
      PROVE  o = z
  <2>1. s8[o] # None /\ s8[z] # None BY <1>1, <1>7 DEF Page!Shown
  <2> QED BY <1>2, <1>4, <1>7, <2>1 DEF Page!SlideRows
<1> QED BY <1>3, <1>4, <1>5, <1>6, <1>7

(* Together.                                                               *)
LEMMA PageWhole ==
  ASSUME NEW name \in PageNames, Page(name)!HomeConstants, Page(name)!IInv
  PROVE  Page(name)!HomeWhole
  BY SectionRight, SlidesRight DEF Page!HomeWhole, Page!IInv

(* A step that changes nothing keeps it too.                               *)
LEMMA PageKept ==
  ASSUME NEW name \in PageNames, Page(name)!HomeConstants, Page(name)!IInv,
         [Page(name)!Next]_(Page(name)!vars)
  PROVE  Page(name)!IInv'
<1>1. CASE Page(name)!Next BY <1>1, PageNext
<1>2. CASE UNCHANGED Page(name)!vars
  <2>1. /\ s1' = s1 /\ s2' = s2 /\ s3' = s3 /\ s7' = s7 /\ s8' = s8 /\ s9' = s9
        /\ s10' = s10
    BY <1>2 DEF Page!vars
  <2> QED
    BY <2>1 DEF Page!IInv, Page!SectionPicks, Page!ITEM_KINDS_BY_TYPE, Page!SlideRows,
       Page!Patches, Page!Patch, Page!validate_hero_content, Page!Rows
<1> QED BY <1>1, <1>2

-----------------------------------------------------------------------------
(* What is shown. Here s1 to s10 are out, free, priced, today, soon, plan, *)
(* bought, seen, answer and ago. Places in a list are numbered from 1 on.  *)
ShelfNames == {"films", "shows", "reel", "season"}

(* What is kept of a list is of the list and of the set, all of the set    *)
(* that is listed, and differs as the list does.                           *)
Differ(q) == \A i, j \in 1 .. Len(q) : q[i] = q[j] => i = j

(* So much for a list that is kept.                                        *)
LEMMA ShelfKeep ==
  ASSUME NEW name \in ShelfNames, NEW U, NEW q \in Seq(U), NEW S
  PROVE  /\ Shelf(name)!Keep(q, S) \in Seq(U \cap S)
         /\ Differ(q) => Differ(Shelf(name)!Keep(q, S))
         /\ S \subseteq Shelf(name)!Listed(q)
              => Shelf(name)!Listed(Shelf(name)!Keep(q, S)) = S
<1>1. PICK I : I = {i \in 1 .. Len(q) : q[i] \in S} OBVIOUS
<1>2. I = Shelf(name)!Places(q, S) BY <1>1 DEF Shelf!Places
<1>3. PICK n \in Nat : n = Len(q) OBVIOUS
<1>4. I \in SUBSET (1 .. n) BY <1>1, <1>3
<1>5. PICK c \in Nat : /\ c = Cardinality(I) /\ (c = 0 => I = {})
                       /\ \A k \in 1 .. c :
                            \E i \in I : Cardinality({j \in I : j <= i}) = k
                       /\ \A i \in I : Cardinality({j \in I : j <= i}) \in 1 .. c
                       /\ \A i, j \in I :
                            Cardinality({k \in I : k <= i})
                              = Cardinality({k \in I : k <= j})
                              => i = j
  BY <1>3, <1>4, RanksCount
<1>6. \A X : Shelf(name)!Cardinality(X) = Cardinality(X)
  BY DEF Shelf!Cardinality, Cardinality
<1>7. \A i : Shelf(name)!Rank(I, i) = Cardinality({j \in I : j <= i})
  BY <1>6 DEF Shelf!Rank
<1>8. PICK p : p = [k \in 1 .. c |-> CHOOSE i \in I : Shelf(name)!Rank(I, i) = k] OBVIOUS
<1>9. ASSUME NEW k \in 1 .. c PROVE p[k] \in I /\ Shelf(name)!Rank(I, p[k]) = k
  <2>1. \E i \in I : Shelf(name)!Rank(I, i) = k BY <1>5, <1>7
  <2> QED BY <1>8, <2>1
<1>10. PICK kept : kept = Shelf(name)!Keep(q, S) OBVIOUS
<1>11. Shelf(name)!Cardinality(I) = c BY <1>5, <1>6
<1>12. kept = [k \in 1 .. c |-> q[p[k]]]
  BY <1>2, <1>8, <1>10, <1>11 DEF Shelf!Keep
<1>13. \A k \in 1 .. c : q[p[k]] \in U \cap S
  <2>1. \A i \in 1 .. Len(q) : q[i] \in U OBVIOUS
  <2> QED BY <1>1, <1>9, <2>1
<1>14. kept \in Seq(U \cap S) /\ Len(kept) = c BY <1>12, <1>13
<1>15. Differ(q) => Differ(kept)
  <2>1. SUFFICES ASSUME Differ(q), NEW a \in 1 .. c, NEW b \in 1 .. c, kept[a] = kept[b]
                 PROVE  a = b
    BY <1>14 DEF Differ
  <2>2. q[p[a]] = q[p[b]] BY <1>12, <2>1
  <2>3. p[a] \in 1 .. Len(q) /\ p[b] \in 1 .. Len(q) BY <1>1, <1>9
  <2>4. p[a] = p[b] BY <2>1, <2>2, <2>3 DEF Differ
  <2> QED BY <1>9, <2>4
<1>16. ASSUME S \subseteq Shelf(name)!Listed(q) PROVE Shelf(name)!Listed(kept) = S
  <2>1. \A k \in 1 .. c : kept[k] \in S BY <1>12, <1>13
  <2>2. ASSUME NEW x \in S PROVE \E k \in 1 .. c : kept[k] = x
    <3>1. PICK i \in 1 .. Len(q) : q[i] = x BY <1>16 DEF Shelf!Listed
    <3>2. i \in I BY <1>1, <3>1
    <3>3. PICK k : k = Shelf(name)!Rank(I, i) OBVIOUS
    <3>4. k \in 1 .. c BY <1>5, <1>7, <3>2, <3>3
    <3>5. p[k] = i
      <4>1. PICK o : o = p[k] OBVIOUS
      <4>2. o \in I /\ Shelf(name)!Rank(I, o) = Shelf(name)!Rank(I, i)
        BY <1>9, <3>3, <3>4, <4>1
      <4>3. Cardinality({u \in I : u <= o}) = Cardinality({u \in I : u <= i})
        BY <1>7, <4>2
      <4> QED BY <1>5, <3>2, <4>1, <4>2, <4>3
    <3>6. kept[k] = x BY <1>12, <3>1, <3>4, <3>5
    <3> QED BY <3>4, <3>6
  <2> QED BY <1>14, <2>1, <2>2 DEF Shelf!Listed
<1> QED BY <1>10, <1>14, <1>15, <1>16

(* The newest n of a set: no more, and all if there are less.              *)
LEMMA TopIs ==
  ASSUME NEW name \in ShelfNames, Shelf(name)!ShelvesConstants, NEW S, NEW n \in Nat,
         S \subseteq ShelfMovies[name] \cup ShelfSerials[name]
  PROVE  /\ Shelf(name)!Top(S, n) \in Seq(S) /\ Len(Shelf(name)!Top(S, n)) <= n
         /\ Differ(Shelf(name)!Top(S, n))
         /\ Len(Shelf(name)!Top(S, n)) = n \/ Shelf(name)!Listed(Shelf(name)!Top(S, n)) = S
<1>1. PICK q, U : q = ShelfNewest[name] /\ U = Shelf(name)!Titles OBVIOUS
<1>2. q \in Seq(U) /\ Differ(q) /\ S \subseteq Shelf(name)!Listed(q)
  BY <1>1 DEF Shelf!ShelvesConstants, Differ
<1>3. PICK all : all = Shelf(name)!Keep(q, S) OBVIOUS
<1>4. all \in Seq(U \cap S) /\ Differ(all) /\ Shelf(name)!Listed(all) = S
  BY <1>2, <1>3, ShelfKeep
<1>5. all \in Seq(S) BY <1>4
<1>6. PICK k \in Nat : k = (IF Len(all) < n THEN Len(all) ELSE n) BY <1>5
<1>7. k <= n /\ k <= Len(all) /\ (k = n \/ k = Len(all)) BY <1>5, <1>6
<1>8. PICK top : top = SubSeq(all, 1, k) OBVIOUS
<1>9. top \in Seq(S) /\ Len(top) = k BY <1>5, <1>7, <1>8
<1>10. \A i \in 1 .. k : top[i] = all[i] BY <1>5, <1>7, <1>8
<1>11. top = Shelf(name)!Top(S, n)
  BY <1>1, <1>3, <1>6, <1>8 DEF Shelf!Top, Shelf!Cut
<1>12. Differ(top)
  <2>1. \A i \in 1 .. k : i \in 1 .. Len(all) BY <1>5, <1>7
  <2> QED BY <1>4, <1>9, <1>10, <2>1 DEF Differ
<1>13. k = Len(all) => Shelf(name)!Listed(top) = S
  BY <1>4, <1>9, <1>10 DEF Shelf!Listed
<1> QED BY <1>7, <1>9, <1>11, <1>12, <1>13

(* A list counts as many titles as it is long if they differ.              *)
LEMMA ListedCount ==
  ASSUME NEW name \in ShelfNames, NEW U, NEW q \in Seq(U), Differ(q)
  PROVE  Shelf(name)!Cardinality(Shelf(name)!Listed(q)) = Len(q)
<1>1. PICK n \in Nat : n = Len(q) OBVIOUS
<1>2. PICK T, L : T = 1 .. n /\ L = Shelf(name)!Listed(q) OBVIOUS
<1>3. IsFiniteSet(T) /\ Cardinality(T) = n
  <2>1. PICK a \in Int, b \in Int : a = 1 /\ b = n OBVIOUS
  <2>2. IsFiniteSet(a .. b) /\ Cardinality(a .. b) = IF a > b THEN 0 ELSE b - a + 1
    BY FS_Interval
  <2> QED BY <1>2, <2>1, <2>2
<1>4. PICK f : f = [i \in T |-> q[i]] OBVIOUS
<1>5. f \in [T -> L] BY <1>1, <1>2, <1>4 DEF Shelf!Listed
<1>6. \A y \in L : \E i \in T : f[i] = y BY <1>1, <1>2, <1>4 DEF Shelf!Listed
<1>7. f \in Surjection(T, L) BY <1>5, <1>6 DEF Surjection
<1>8. \A i, j \in T : f[i] = f[j] => i = j BY <1>1, <1>2, <1>4 DEF Differ
<1>9. f \in Injection(T, L) BY <1>5, <1>8 DEF Injection, IsInjective
<1>10. Cardinality(L) = Cardinality(T) BY <1>3, <1>7, <1>9, FS_Surjection
<1>11. Shelf(name)!Cardinality(L) = Cardinality(L)
  BY DEF Shelf!Cardinality, Cardinality
<1> QED BY <1>1, <1>2, <1>3, <1>10, <1>11

(* Related titles.                                                         *)
LEMMA RelatedIs ==
  ASSUME NEW name \in ShelfNames, Shelf(name)!ShelvesConstants, NEW x, NEW T,
         T \subseteq ShelfMovies[name] \cup ShelfSerials[name],
         NEW q, q = Shelf(name)!Related(x, T)
  PROVE  /\ Shelf(name)!Listed(q) \subseteq (T \cap s1) \ {x}
         /\ Shelf(name)!Cardinality(Shelf(name)!Listed(q)) = Len(q)
         /\ Len(q) = ShelfLimit[name] \/ Shelf(name)!Listed(q) = (T \cap s1) \ {x}
         /\ \A i, j \in 1 .. Len(q) : i < j /\ Shelf(name)!Akin(x, q[j])
              => Shelf(name)!Genres(x) = {} \/ Shelf(name)!Akin(x, q[i])
<1>1. PICK others : others = (T \cap s1) \ {x} OBVIOUS
<1>2. PICK A : A = {y \in others : Shelf(name)!Genres(x) = {} \/ Shelf(name)!Akin(x, y)}
  OBVIOUS
<1>3. PICK n \in Nat : n = ShelfLimit[name] BY DEF Shelf!ShelvesConstants
<1>4. PICK f : f = Shelf(name)!Top(A, n) OBVIOUS
<1>5. A \subseteq ShelfMovies[name] \cup ShelfSerials[name] BY <1>1, <1>2
<1>6. /\ f \in Seq(A) /\ Len(f) <= n /\ Differ(f)
      /\ Len(f) = n \/ Shelf(name)!Listed(f) = A
  BY <1>3, <1>4, <1>5, TopIs
<1>7. PICK k \in Nat : k = Len(f) BY <1>6
<1>8. PICK l \in Nat : l = n - k
  <2>1. k <= n BY <1>6, <1>7
  <2>2. n - k \in Nat BY <2>1
  <2> QED BY <2>2
<1>9. PICK B : B = others \ Shelf(name)!Listed(f) OBVIOUS
<1>10. B \subseteq ShelfMovies[name] \cup ShelfSerials[name] BY <1>1, <1>9
<1>11. PICK g : g = Shelf(name)!Top(B, l) OBVIOUS
<1>12. /\ g \in Seq(B) /\ Len(g) <= l /\ Differ(g)
       /\ Len(g) = l \/ Shelf(name)!Listed(g) = B
  BY <1>8, <1>10, <1>11, TopIs
<1>13. q = f \o g
  BY <1>1, <1>2, <1>3, <1>4, <1>7, <1>8, <1>9, <1>11 DEF Shelf!Related
<1>14. PICK j \in Nat : j = Len(g) BY <1>12
<1>15. f \in Seq(others) /\ g \in Seq(others) BY <1>2, <1>6, <1>9, <1>12
<1>16. q \in Seq(others) /\ Len(q) = k + j BY <1>7, <1>13, <1>14, <1>15
<1>17. /\ \A i \in 1 .. k : q[i] = f[i]
       /\ \A i \in 1 .. (k + j) : i > k => i - k \in 1 .. j /\ q[i] = g[i - k]
  BY <1>7, <1>13, <1>14, <1>15
<1>18. \A i \in 1 .. (k + j) : i \in 1 .. k \/ i > k OBVIOUS
<1>19. \A i \in 1 .. k : f[i] \in A /\ f[i] \in Shelf(name)!Listed(f)
  BY <1>6, <1>7 DEF Shelf!Listed
<1>20. \A i \in 1 .. j : g[i] \in B BY <1>12, <1>14
<1>21. Differ(q)
  <2>1. SUFFICES ASSUME NEW a \in 1 .. (k + j), NEW b \in 1 .. (k + j), q[a] = q[b]
                 PROVE  a = b
    BY <1>16 DEF Differ
  <2>2. CASE a \in 1 .. k /\ b \in 1 .. k
    BY <1>6, <1>7, <1>17, <2>1, <2>2 DEF Differ
  <2>3. CASE a > k /\ b > k
    <3>1. PICK c, d : c = a - k /\ d = b - k OBVIOUS
    <3>2. c \in 1 .. j /\ d \in 1 .. j /\ g[c] = g[d] BY <1>17, <2>1, <2>3, <3>1
    <3>3. c = d BY <1>12, <1>14, <3>2 DEF Differ
    <3> QED BY <3>1, <3>3
  <2>4. CASE a \in 1 .. k /\ b > k BY <1>9, <1>17, <1>19, <1>20, <2>1, <2>4
  <2>5. CASE a > k /\ b \in 1 .. k BY <1>9, <1>17, <1>19, <1>20, <2>1, <2>5
  <2> QED BY <1>18, <2>2, <2>3, <2>4, <2>5
<1>22. Shelf(name)!Cardinality(Shelf(name)!Listed(q)) = Len(q)
  BY <1>16, <1>21, ListedCount
<1>23. Shelf(name)!Listed(q) \subseteq others BY <1>16 DEF Shelf!Listed
<1>24. Len(q) = n \/ Shelf(name)!Listed(q) = others
  <2>1. j = l => Len(q) = n BY <1>8, <1>16
  <2>2. ASSUME Shelf(name)!Listed(g) = B PROVE others \subseteq Shelf(name)!Listed(q)
    <3>1. ASSUME NEW y \in others PROVE \E i \in 1 .. (k + j) : q[i] = y
      <4>1. CASE y \in Shelf(name)!Listed(f)
        <5>1. PICK i \in 1 .. k : f[i] = y BY <1>7, <4>1 DEF Shelf!Listed
        <5> QED BY <1>17, <5>1
      <4>2. CASE y \in B
        <5>1. PICK i \in 1 .. j : g[i] = y BY <1>14, <2>2, <4>2 DEF Shelf!Listed
        <5>2. i + k \in 1 .. (k + j) /\ i + k > k /\ (i + k) - k = i OBVIOUS
        <5> QED BY <1>17, <5>1, <5>2
      <4> QED BY <1>9, <4>1, <4>2
    <3> QED BY <1>16, <3>1 DEF Shelf!Listed
  <2> QED BY <1>12, <1>14, <1>23, <2>1, <2>2
<1>25. ASSUME NEW a \in 1 .. (k + j), NEW b \in 1 .. (k + j), a < b,
              Shelf(name)!Akin(x, q[b]), Shelf(name)!Genres(x) # {}
       PROVE  Shelf(name)!Akin(x, q[a])
  <2>1. CASE a \in 1 .. k BY <1>2, <1>17, <1>19, <1>25, <2>1
  <2>2. CASE a > k
    <3>1. b > k BY <1>25, <2>2
    <3>2. b - k \in 1 .. j /\ q[b] = g[b - k] BY <1>17, <3>1
    <3>3. q[b] \in B BY <1>20, <3>2
    <3>4. q[b] \in A /\ q[b] \notin Shelf(name)!Listed(f) BY <1>2, <1>9, <1>25, <3>3
    <3>5. k = n BY <1>6, <1>7, <3>4
    <3>6. j <= 0 BY <1>8, <1>12, <1>14, <3>5
    <3> QED BY <3>2, <3>6
  <2> QED BY <1>18, <2>1, <2>2
<1> QED BY <1>1, <1>3, <1>16, <1>22, <1>23, <1>24, <1>25

(* They are related as the page says.                                      *)
LEMMA RelatedRight ==
  ASSUME NEW name \in ShelfNames, Shelf(name)!ShelvesConstants
  PROVE  Shelf(name)!RelatedWhole
<1>1. ASSUME NEW x \in ShelfMovies[name] \cup ShelfSerials[name],
             NEW T, T = (IF x \in ShelfMovies[name] THEN ShelfMovies[name]
                         ELSE ShelfSerials[name]),
             NEW q, q = IF x \in ShelfMovies[name] THEN Shelf(name)!related_movies(x)
                        ELSE Shelf(name)!related_series(x)
      PROVE  /\ Shelf(name)!Listed(q) \subseteq (T \cap s1) \ {x}
             /\ Shelf(name)!Cardinality(Shelf(name)!Listed(q)) = Len(q)
             /\ Len(q) = ShelfLimit[name] \/ Shelf(name)!Listed(q) = (T \cap s1) \ {x}
             /\ \A i, j \in 1 .. Len(q) : i < j /\ Shelf(name)!Akin(x, q[j])
                  => Shelf(name)!Genres(x) = {} \/ Shelf(name)!Akin(x, q[i])
  <2>1. q = Shelf(name)!Related(x, T)
    BY <1>1 DEF Shelf!related_movies, Shelf!related_series
  <2>2. T \subseteq ShelfMovies[name] \cup ShelfSerials[name] BY <1>1
  <2> QED BY <2>1, <2>2, RelatedIs
<1> QED BY <1>1 DEF Shelf!RelatedWhole

(* Keys and links.                                                         *)
LEMMA KeysRight ==
  ASSUME NEW name \in ShelfNames, Shelf(name)!ShelvesConstants
  PROVE  Shelf(name)!KeysAgree
<1>1. ASSUME NEW v \in Shelf(name)!Viewers, NEW y
      PROVE  Shelf(name)!can_access_content(v, y) <=> Shelf(name)!Plays(v, y)
  BY DEF Shelf!Plays, Shelf!get_published_content_or_404, Shelf!can_access_content
<1>2. ASSUME NEW v \in Shelf(name)!Viewers, NEW z \in ShelfSerials[name],
             NEW y \in Shelf(name)!list_episodes(z)
      PROVE  Shelf(name)!EpisodeKey(v, y) <=> Shelf(name)!Plays(v, y)
  <2>1. /\ y \in ShelfEpisodes[name] /\ ShelfSeriesOf[name][y] = z /\ y \in s1
        /\ y \notin ShelfMovies[name] /\ y \notin ShelfPodcasts[name]
    BY <1>2 DEF Shelf!list_episodes, Shelf!ShelvesConstants
  <2> QED BY <1>1, <2>1 DEF Shelf!EpisodeKey, Shelf!can_access_content
<1> QED BY <1>1, <1>2 DEF Shelf!KeysAgree, Shelf!PageKey

(* What a page of the catalogue finds depends on what is out and free.     *)
LEMMA FoundSame ==
  ASSUME NEW name \in ShelfNames, NEW q, s1' = s1, s2' = s2
  PROVE  Shelf(name)!Found(q)' = Shelf(name)!Found(q)
  BY DEF Shelf!Found, Shelf!published_movies, Shelf!published_series,
     Shelf!apply_catalog_genre

LEMMA FoundType ==
  ASSUME NEW name \in ShelfNames, NEW q
  PROVE  Shelf(name)!Found(q) \subseteq ShelfMovies[name] \cup ShelfSerials[name]
  BY DEF Shelf!Found, Shelf!published_movies, Shelf!published_series

LEMMA ShelfInit ==
  ASSUME NEW name \in ShelfNames, Shelf(name)!ShelvesConstants, Shelf(name)!Init
  PROVE  Shelf(name)!IInv
<1>1. ShelfStale \in Nat BY DEF Shelf!ShelvesConstants
<1>2. s9 = None /\ s10 = [q \in ShelfQueries[name] |->
                            [x \in ShelfMovies[name] \cup ShelfSerials[name] |-> ShelfStale]]
  BY DEF Shelf!Init
<1> QED BY <1>1, <1>2 DEF Shelf!IInv

(* What is kept of an answer: its query, its titles and its age.           *)
AnswerIs(name, q, names, age) ==
  /\ s9 = [q |-> q, names |-> names, age |-> age]
  /\ \A x \in names : x \in Shelf(name)!Found(q) \/ s10[q][x] <= age

LEMMA ShelfAnswer ==
  ASSUME NEW name \in ShelfNames
  PROVE  Shelf(name)!IInv <=>
           /\ s10 \in [ShelfQueries[name] ->
                        [ShelfMovies[name] \cup ShelfSerials[name] -> Nat]]
           /\ s9 # None =>
                \E q \in ShelfQueries[name],
                   names \in SUBSET (ShelfMovies[name] \cup ShelfSerials[name]),
                   age \in 0 .. (ShelfStale - 1) : AnswerIs(name, q, names, age)
  BY DEF Shelf!IInv, AnswerIs

(* Nothing of it changes.                                                  *)
LEMMA ShelfStill ==
  ASSUME NEW name \in ShelfNames, Shelf(name)!IInv,
         s1' = s1, s2' = s2, s9' = s9, s10' = s10
  PROVE  Shelf(name)!IInv'
<1>1. \A q : Shelf(name)!Found(q)' = Shelf(name)!Found(q) BY FoundSame
<1>2. CASE s9 = None BY <1>2 DEF Shelf!IInv
<1>3. CASE s9 # None
  <2>1. PICK q \in ShelfQueries[name],
             names \in SUBSET (ShelfMovies[name] \cup ShelfSerials[name]),
             age \in 0 .. (ShelfStale - 1) : AnswerIs(name, q, names, age)
    BY <1>3, ShelfAnswer
  <2>2. /\ s9' = [q |-> q, names |-> names, age |-> age]
        /\ \A x \in names : x \in Shelf(name)!Found(q)' \/ s10'[q][x] <= age
    BY <1>1, <2>1 DEF AnswerIs
  <2> QED BY <2>2 DEF Shelf!IInv
<1> QED BY <1>2, <1>3

(* Titles come and go, the answer stays.                                   *)
LEMMA ShelfNoted ==
  ASSUME NEW name \in ShelfNames, Shelf(name)!IInv, Shelf(name)!Noted, s9' = s9
  PROVE  Shelf(name)!IInv'
<1> PICK T, Q : T = ShelfMovies[name] \cup ShelfSerials[name] /\ Q = ShelfQueries[name]
  OBVIOUS
<1>1. s10 \in [Q -> [T -> Nat]] BY DEF Shelf!IInv
<1>2. s10' = [q \in Q |-> [x \in T |->
                IF x \in Shelf(name)!Found(q) \cup Shelf(name)!Found(q)'
                THEN 0 ELSE s10[q][x]]]
  BY DEF Shelf!Noted
<1>3. s10' \in [Q -> [T -> Nat]] BY <1>1, <1>2
<1>4. ASSUME NEW q \in Q, NEW x \in T
      PROVE  /\ x \in Shelf(name)!Found(q) => s10'[q][x] = 0
             /\ s10'[q][x] = 0 \/ s10'[q][x] = s10[q][x]
  BY <1>2
<1>5. CASE s9 = None BY <1>3, <1>5 DEF Shelf!IInv
<1>6. CASE s9 # None
  <2>1. PICK q \in Q, names \in SUBSET T, age \in 0 .. (ShelfStale - 1) :
               AnswerIs(name, q, names, age)
    BY <1>6, ShelfAnswer
  <2>2. ASSUME NEW x \in names PROVE s10'[q][x] <= age
    <3>1. x \in Shelf(name)!Found(q) \/ s10[q][x] <= age BY <2>1 DEF AnswerIs
    <3> QED BY <1>4, <3>1
  <2>3. s9' = [q |-> q, names |-> names, age |-> age] BY <2>1 DEF AnswerIs
  <2> QED BY <1>3, <2>2, <2>3 DEF Shelf!IInv
<1> QED BY <1>5, <1>6

(* A page is read and kept.                                                *)
LEMMA ShelfRead ==
  ASSUME NEW name \in ShelfNames, Shelf(name)!ShelvesConstants, Shelf(name)!IInv,
         NEW q \in ShelfQueries[name], s1' = s1, s2' = s2, s10' = s10,
         s9' = [q |-> q, names |-> Shelf(name)!Found(q), age |-> 0]
  PROVE  Shelf(name)!IInv'
<1>1. PICK names : names = Shelf(name)!Found(q) OBVIOUS
<1>2. names \in SUBSET (ShelfMovies[name] \cup ShelfSerials[name]) BY <1>1, FoundType
<1>3. 0 \in 0 .. (ShelfStale - 1) BY DEF Shelf!ShelvesConstants
<1>4. \A x \in names : x \in Shelf(name)!Found(q)' BY <1>1, FoundSame
<1>5. s9' = [q |-> q, names |-> names, age |-> 0] BY <1>1
<1> QED BY <1>2, <1>3, <1>4, <1>5 DEF Shelf!IInv

(* Time passes.                                                            *)
LEMMA ShelfTick ==
  ASSUME NEW name \in ShelfNames, Shelf(name)!ShelvesConstants, Shelf(name)!IInv,
         Shelf(name)!Tick
  PROVE  Shelf(name)!IInv'
<1> PICK T, Q : T = ShelfMovies[name] \cup ShelfSerials[name] /\ Q = ShelfQueries[name]
  OBVIOUS
<1>0. PICK b \in Nat : b = ShelfStale BY DEF Shelf!ShelvesConstants
<1>1. s10 \in [Q -> [T -> Nat]] BY DEF Shelf!IInv
<1>2. s10' = [q \in Q |-> [x \in T |->
                IF x \in Shelf(name)!Found(q) THEN 0
                ELSE IF s10[q][x] < ShelfStale THEN s10[q][x] + 1 ELSE ShelfStale]]
  BY DEF Shelf!Tick
<1>3. s10' \in [Q -> [T -> Nat]] BY <1>0, <1>1, <1>2
<1>4. ASSUME NEW q \in Q, NEW x \in T
      PROVE  /\ x \in Shelf(name)!Found(q) => s10'[q][x] = 0
             /\ s10'[q][x] <= s10[q][x] + 1 \/ s10[q][x] >= b
  <2>1. PICK n \in Nat : n = s10[q][x] BY <1>1
  <2>2. s10'[q][x] = IF x \in Shelf(name)!Found(q) THEN 0
                     ELSE IF n < b THEN n + 1 ELSE b
    BY <1>0, <1>2, <2>1
  <2> QED BY <2>1, <2>2
<1>5. s1' = s1 /\ s2' = s2 BY DEF Shelf!Tick, Shelf!rows
<1>6. CASE s9 = None
  <2>1. s9' = None BY <1>6 DEF Shelf!Tick, Shelf!Aged
  <2> QED BY <1>3, <2>1 DEF Shelf!IInv
<1>7. CASE s9 # None
  <2>1. PICK q \in Q, names \in SUBSET T, age \in 0 .. (ShelfStale - 1) :
               AnswerIs(name, q, names, age)
    BY <1>7, ShelfAnswer
  <2>2. s9 = [q |-> q, names |-> names, age |-> age] BY <2>1 DEF AnswerIs
  <2>3. s9' = IF age + 1 >= ShelfStale THEN None
              ELSE [q |-> q, names |-> names, age |-> age + 1]
    BY <1>7, <2>2 DEF Shelf!Tick, Shelf!Aged
  <2>4. CASE age + 1 >= ShelfStale BY <1>3, <2>3, <2>4 DEF Shelf!IInv
  <2>5. CASE ~(age + 1 >= ShelfStale)
    <3>1. PICK older : older = age + 1 OBVIOUS
    <3>2. older \in 0 .. (ShelfStale - 1) /\ age < b BY <1>0, <2>5, <3>1
    <3>3. ASSUME NEW x \in names
          PROVE  x \in Shelf(name)!Found(q)' \/ s10'[q][x] <= older
      <4>1. PICK n \in Nat, k \in Nat : n = s10[q][x] /\ k = s10'[q][x] BY <1>1, <1>3
      <4>2. x \in Shelf(name)!Found(q) \/ n <= age BY <2>1, <4>1 DEF AnswerIs
      <4>3. k <= n + 1 \/ n >= b BY <1>4, <4>1
      <4>4. n <= age => k <= older BY <3>1, <3>2, <4>3
      <4> QED BY <1>5, <4>1, <4>2, <4>4, FoundSame
    <3>4. s9' = [q |-> q, names |-> names, age |-> older] BY <2>3, <2>5, <3>1
    <3> QED BY <1>3, <3>2, <3>3, <3>4 DEF Shelf!IInv
  <2> QED BY <2>4, <2>5
<1> QED BY <1>6, <1>7

LEMMA ShelfKept ==
  ASSUME NEW name \in ShelfNames, Shelf(name)!ShelvesConstants, Shelf(name)!IInv,
         [Shelf(name)!Next]_(Shelf(name)!vars)
  PROVE  Shelf(name)!IInv'
<1>1. ASSUME NEW x, Shelf(name)!Release(x) \/ Shelf(name)!SetFree(x)
      PROVE  Shelf(name)!IInv'
  BY <1>1, ShelfNoted DEF Shelf!Release, Shelf!SetFree
<1>2. ASSUME NEW a, NEW x,
             \/ Shelf(name)!SetPrice(x) \/ Shelf(name)!ListToday(x) \/ Shelf(name)!ListSoon(x)
             \/ Shelf(name)!Subscribe(a) \/ Shelf(name)!Buy(a, x) \/ Shelf(name)!Watch(a, x)
      PROVE  Shelf(name)!IInv'
  <2>1. s1' = s1 /\ s2' = s2 /\ s9' = s9 /\ s10' = s10
    BY <1>2 DEF Shelf!SetPrice, Shelf!ListToday, Shelf!ListSoon, Shelf!Subscribe,
       Shelf!Buy, Shelf!Watch, Shelf!Still
  <2> QED BY <2>1, ShelfStill
<1>3. ASSUME NEW q \in ShelfQueries[name],
             Shelf(name)!list_published_movies(q) \/ Shelf(name)!list_published_series(q)
      PROVE  Shelf(name)!IInv'
  <2>1. /\ s1' = s1 /\ s2' = s2 /\ s10' = s10
        /\ s9' = [q |-> q, names |-> Shelf(name)!Found(q), age |-> 0]
    BY <1>3 DEF Shelf!list_published_movies, Shelf!list_published_series, Shelf!rows
  <2> QED BY <2>1, ShelfRead
<1>4. CASE Shelf(name)!Forget
  <2>1. s9' = None /\ s10' = s10 BY <1>4 DEF Shelf!Forget
  <2> QED BY <2>1 DEF Shelf!IInv
<1>5. CASE Shelf(name)!Tick BY <1>5, ShelfTick
<1>6. CASE UNCHANGED Shelf(name)!vars
  <2>1. s1' = s1 /\ s2' = s2 /\ s9' = s9 /\ s10' = s10
    BY <1>6 DEF Shelf!vars, Shelf!rows
  <2> QED BY <2>1, ShelfStill
<1> QED BY <1>1, <1>2, <1>3, <1>4, <1>5, <1>6 DEF Shelf!Next

(* What a list links to opens.                                             *)
LEMMA LinksRight ==
  ASSUME NEW name \in ShelfNames, Shelf(name)!ShelvesConstants, Shelf(name)!IInv
  PROVE  Shelf(name)!LinksOpen
<1> SUFFICES ASSUME NEW v \in Shelf(name)!Viewers
             PROVE
    /\ s9 # None => \A x \in s9.names :
         Shelf(name)!Lands(v, x, s9.q.free) \/ s10[s9.q][x] < ShelfStale
    /\ \A g \in ShelfLabels \cup {None}, f \in BOOLEAN :
         \A x \in Shelf(name)!published_movies(f, g) \cup Shelf(name)!published_series(f, g) :
           Shelf(name)!Lands(v, x, f)
    /\ \A y \in Shelf(name)!list_podcasts : Shelf(name)!Opens(v, y)
    /\ \A y \in Shelf(name)!list_watch_progress(v) : Shelf(name)!Opens(v, y)
    /\ Shelf(name)!list_owned_movies(v) = Shelf(name)!list_purchased_movies(v)
    /\ \A y \in Shelf(name)!list_owned_movies(v) :
         Shelf(name)!Opens(v, y) /\ Shelf(name)!Plays(v, y)
    /\ \A z \in Shelf(name)!list_purchased_series(v) :
         \A y \in Shelf(name)!list_episodes(z) : Shelf(name)!Plays(v, y)
  BY DEF Shelf!LinksOpen
<1>1. ASSUME NEW y, y \in s1, Shelf(name)!can_access_content(v, y)
      PROVE  Shelf(name)!Plays(v, y)
  BY <1>1 DEF Shelf!Plays, Shelf!get_published_content_or_404
<1>2. ASSUME NEW g, NEW f \in BOOLEAN, NEW y \in Shelf(name)!published_movies(f, g)
      PROVE  Shelf(name)!Lands(v, y, f)
  <2>1. y \in ShelfMovies[name] /\ y \in s1 /\ (f => y \in s2)
    BY <1>2 DEF Shelf!published_movies
  <2>2. y \notin ShelfSerials[name] BY <2>1 DEF Shelf!ShelvesConstants
  <2>3. Shelf(name)!Opens(v, y) BY <2>1 DEF Shelf!Opens, Shelf!get_movie_detail
  <2>4. f => Shelf(name)!Plays(v, y) BY <1>1, <2>1 DEF Shelf!can_access_content
  <2> QED BY <2>2, <2>3, <2>4 DEF Shelf!Lands
<1>3. ASSUME NEW g, NEW f \in BOOLEAN, NEW z \in Shelf(name)!published_series(f, g)
      PROVE  Shelf(name)!Lands(v, z, f)
  <2>1. /\ z \in ShelfSerials[name] /\ z \in s1
        /\ f => \E y \in ShelfEpisodes[name] :
                  ShelfSeriesOf[name][y] = z /\ y \in s2 /\ y \in s1
    BY <1>3 DEF Shelf!published_series
  <2>2. Shelf(name)!Opens(v, z) BY <2>1 DEF Shelf!Opens, Shelf!get_series_detail
  <2>3. ASSUME f
        PROVE  /\ Shelf(name)!free_episode_counts_by_series(z) > 0
               /\ \E y \in Shelf(name)!list_episodes(z) : Shelf(name)!Plays(v, y)
    <3>1. PICK y \in ShelfEpisodes[name] :
                  ShelfSeriesOf[name][y] = z /\ y \in s2 /\ y \in s1
      BY <2>1, <2>3
    <3>2. y \in Shelf(name)!list_episodes(z) BY <2>1, <3>1 DEF Shelf!list_episodes
    <3>3. Shelf(name)!Plays(v, y) BY <1>1, <3>1 DEF Shelf!can_access_content
    <3>4. PICK E : E = {u \in ShelfEpisodes[name] :
                          ShelfSeriesOf[name][u] = z /\ u \in s2 /\ u \in s1}
      OBVIOUS
    <3>5. IsFiniteSet(ShelfEpisodes[name])
      BY DEF Shelf!ShelvesConstants, Shelf!IsFiniteSet, IsFiniteSet
    <3>6. IsFiniteSet(E) BY <3>4, <3>5, FS_Subset
    <3>7. Cardinality(E) \in Nat BY <3>6, FS_CardinalityType
    <3>8. Cardinality(E) = 0 <=> E = {} BY <3>6, FS_EmptySet
    <3>9. y \in E BY <3>1, <3>4
    <3>10. Cardinality(E) > 0 BY <3>7, <3>8, <3>9
    <3>11. Shelf(name)!Cardinality(E) = Cardinality(E)
      BY DEF Shelf!Cardinality, Cardinality
    <3>12. Shelf(name)!free_episode_counts_by_series(z) > 0
      BY <3>4, <3>10, <3>11 DEF Shelf!free_episode_counts_by_series
    <3> QED BY <3>2, <3>3, <3>12
  <2>4. z \notin ShelfMovies[name] BY <2>1 DEF Shelf!ShelvesConstants
  <2> QED BY <2>2, <2>3, <2>4 DEF Shelf!Lands
<1>4. \A y \in Shelf(name)!list_podcasts : Shelf(name)!Opens(v, y)
  BY DEF Shelf!list_podcasts, Shelf!Opens, Shelf!get_podcast
<1>5. \A y \in Shelf(name)!list_watch_progress(v) : Shelf(name)!Opens(v, y)
  BY DEF Shelf!list_watch_progress, Shelf!_history_row, Shelf!Content, Shelf!Opens,
     Shelf!get_podcast, Shelf!get_movie_detail, Shelf!get_series_detail
<1>6. ASSUME NEW y \in Shelf(name)!list_owned_movies(v)
      PROVE  Shelf(name)!Opens(v, y) /\ Shelf(name)!Plays(v, y)
  <2>1. y \in ShelfMovies[name] /\ y \in s1 /\ Shelf(name)!Owns(v, y)
    BY <1>6 DEF Shelf!list_owned_movies
  <2> QED
    BY <1>1, <2>1 DEF Shelf!Opens, Shelf!get_movie_detail, Shelf!can_access_content
<1>7. ASSUME NEW z \in Shelf(name)!list_purchased_series(v),
             NEW y \in Shelf(name)!list_episodes(z)
      PROVE  Shelf(name)!Plays(v, y)
  <2>1. Shelf(name)!Owns(v, z) BY <1>7 DEF Shelf!list_purchased_series
  <2>2. y \in ShelfEpisodes[name] /\ ShelfSeriesOf[name][y] = z /\ y \in s1
    BY <1>7 DEF Shelf!list_episodes
  <2> QED BY <1>1, <2>1, <2>2 DEF Shelf!can_access_content
<1>8. Shelf(name)!list_owned_movies(v) = Shelf(name)!list_purchased_movies(v)
  BY DEF Shelf!list_owned_movies, Shelf!list_purchased_movies
<1>9. ASSUME s9 # None, NEW x \in s9.names
      PROVE  Shelf(name)!Lands(v, x, s9.q.free) \/ s10[s9.q][x] < ShelfStale
  <2>1. PICK q \in ShelfQueries[name],
             names \in SUBSET (ShelfMovies[name] \cup ShelfSerials[name]),
             age \in 0 .. (ShelfStale - 1) : AnswerIs(name, q, names, age)
    BY <1>9, ShelfAnswer
  <2>2. s9.q = q /\ x \in names BY <1>9, <2>1 DEF AnswerIs
  <2>3. x \in Shelf(name)!Found(q) \/ s10[q][x] <= age BY <2>1, <2>2 DEF AnswerIs
  <2>4. ASSUME x \in Shelf(name)!Found(q) PROVE Shelf(name)!Lands(v, x, q.free)
    <3>1. q.free \in BOOLEAN BY DEF Shelf!ShelvesConstants, Shelf!Pages
    <3> QED BY <1>2, <1>3, <2>4, <3>1 DEF Shelf!Found
  <2>5. ASSUME s10[q][x] <= age PROVE s10[q][x] < ShelfStale
    <3>1. PICK n \in Nat : n = s10[q][x] BY <2>2 DEF Shelf!IInv
    <3>2. PICK b \in Nat : b = ShelfStale BY DEF Shelf!ShelvesConstants
    <3>3. age \in 0 .. (b - 1) /\ n <= age BY <2>5, <3>1, <3>2
    <3> QED BY <3>1, <3>2, <3>3
  <2> QED BY <2>2, <2>3, <2>4, <2>5
<1> QED BY <1>2, <1>3, <1>4, <1>5, <1>6, <1>7, <1>8, <1>9

(* Together.                                                               *)
LEMMA ShelfAgrees ==
  ASSUME NEW name \in ShelfNames, Shelf(name)!ShelvesConstants, Shelf(name)!IInv
  PROVE  Shelf(name)!ShelvesAgree
  BY KeysRight, LinksRight, RelatedRight DEF Shelf!ShelvesAgree

-----------------------------------------------------------------------------
(* The composition.                                                        *)
USE PartConstants

(* A behaviour stays with the part it began with.                          *)
LEMMA OnePart ==
  ASSUME [Next]_vars
  PROVE  /\ part' = part
         /\ part = "phone" => [Phone!Next]_(Phone!vars)
         /\ part = "links" => [Links!Next]_(Links!vars)
         /\ part = "google" => [Google!Next]_(Google!vars)
         /\ part = "shared" => [Shared!Next]_(Shared!vars)
         /\ part = "both" => [Both!Next]_(Both!vars)
         /\ part = "telegram" => [Tgram!Next]_(Tgram!vars)
         /\ part = "boxes" => [Boxes!Next]_(Boxes!vars)
         /\ part = "guest" => [Visitor!Next]_(Visitor!vars)
         /\ part = "tv" => [Tv!Next]_(Tv!vars)
         /\ part = "access" => [Bought!Next]_(Bought!vars)
         /\ part = "periods" => [Paid!Next]_(Paid!vars)
         /\ part = "live" => [Live!Next]_(Live!vars)
         /\ part = "player" => [Stream(FALSE)!Next]_(Stream(FALSE)!vars)
         /\ part = "air" => [Stream(TRUE)!Next]_(Stream(TRUE)!vars)
         /\ part = "page" => [Page("page")!Next]_(Page("page")!vars)
         /\ part = "strips" => [Page("strips")!Next]_(Page("strips")!vars)
         /\ part = "hero" => [Page("hero")!Next]_(Page("hero")!vars)
         /\ part = "edits" => [Page("edits")!Next]_(Page("edits")!vars)
         /\ part = "swaps" => [Page("swaps")!Next]_(Page("swaps")!vars)
         /\ part = "films" => [Shelf("films")!Next]_(Shelf("films")!vars)
         /\ part = "shows" => [Shelf("shows")!Next]_(Shelf("shows")!vars)
         /\ part = "reel" => [Shelf("reel")!Next]_(Shelf("reel")!vars)
         /\ part = "season" => [Shelf("season")!Next]_(Shelf("season")!vars)
<1>1. part' = part
  BY DEF Next, vars, Rest3, Rest4, Rest5, Rest6, Rest7, Rest8, Rest9, Rest10, Rest11,
     Rest12, Rest13, Rest14
<1>2. part = "phone" => [Phone!Next]_(Phone!vars) BY DEF Next, vars, Phone!vars
<1>3. part = "links" => [Links!Next]_(Links!vars) BY DEF Next, vars, Links!vars
<1>4. part = "google" => [Google!Next]_(Google!vars) BY DEF Next, vars, Google!vars
<1>5. part = "both" => [Both!Next]_(Both!vars) BY DEF Next, vars, Both!vars
<1>6. part = "telegram" => [Tgram!Next]_(Tgram!vars) BY DEF Next, vars, Tgram!vars
<1>7. part = "boxes" => [Boxes!Next]_(Boxes!vars)
  BY DEF Next, vars, Boxes!vars, Boxes!account, Boxes!rows, Boxes!locks
<1>8. part = "guest" => [Visitor!Next]_(Visitor!vars)
  BY DEF Next, vars, Visitor!vars, Visitor!rows, Visitor!world, Visitor!locks
<1>9. part = "tv" => [Tv!Next]_(Tv!vars) BY DEF Next, vars, Tv!vars
<1>10. part = "access" => [Bought!Next]_(Bought!vars) BY DEF Next, vars, Bought!vars
<1>11. part = "periods" => [Paid!Next]_(Paid!vars) BY DEF Next, vars, Paid!vars
<1>12. part = "live" => [Live!Next]_(Live!vars) BY DEF Next, vars, Live!vars
<1>13. part = "player" => [Stream(FALSE)!Next]_(Stream(FALSE)!vars)
  BY DEF Next, vars, Stream!vars, Stream!caches
<1>14. part = "air" => [Stream(TRUE)!Next]_(Stream(TRUE)!vars)
  BY DEF Next, vars, Stream!vars, Stream!caches
<1>15. part = "page" => [Page("page")!Next]_(Page("page")!vars)
  BY DEF Next, vars, Page!vars, Page!page
<1>16. part = "strips" => [Page("strips")!Next]_(Page("strips")!vars)
  BY DEF Next, vars, Page!vars, Page!page
<1>17. part = "hero" => [Page("hero")!Next]_(Page("hero")!vars)
  BY DEF Next, vars, Page!vars, Page!page
<1>18. part = "edits" => [Page("edits")!Next]_(Page("edits")!vars)
  BY DEF Next, vars, Page!vars, Page!page
<1>19. part = "swaps" => [Page("swaps")!Next]_(Page("swaps")!vars)
  BY DEF Next, vars, Page!vars, Page!page
<1>20. part = "films" => [Shelf("films")!Next]_(Shelf("films")!vars)
  BY DEF Next, vars, Shelf!vars, Shelf!rows
<1>21. part = "shows" => [Shelf("shows")!Next]_(Shelf("shows")!vars)
  BY DEF Next, vars, Shelf!vars, Shelf!rows
<1>22. part = "reel" => [Shelf("reel")!Next]_(Shelf("reel")!vars)
  BY DEF Next, vars, Shelf!vars, Shelf!rows
<1>23. part = "season" => [Shelf("season")!Next]_(Shelf("season")!vars)
  BY DEF Next, vars, Shelf!vars, Shelf!rows
<1>24. part = "shared" => [Shared!Next]_(Shared!vars) BY DEF Next, vars, Shared!vars
<1> QED BY <1>1, <1>2, <1>3, <1>4, <1>5, <1>6, <1>7, <1>8, <1>9, <1>10, <1>11, <1>12,
    <1>13, <1>14, <1>15, <1>16, <1>17, <1>18, <1>19, <1>20, <1>21, <1>22, <1>23, <1>24

(* What each part keeps: an invariant of the composition.                  *)
AccountInv ==
  /\ part = "phone" => Phone!IInv
  /\ part = "links" => Links!IInv
  /\ part = "google" => Google!IInv
  /\ part = "shared" => Shared!IInv
  /\ part = "both" => Both!IInv
  /\ part = "telegram" => Tgram!IInv
  /\ part = "boxes" => Boxes!IInv /\ Boxes!Owned
  /\ part = "guest" => Visitor!IInv /\ Visitor!Delivery /\ Visitor!Searches
  /\ part = "tv" => Tv!IInv
  /\ part = "access" => Bought!IInv
  /\ part = "periods" => Paid!IInv

MediaInv ==
  /\ part = "live" => Live!IInv
  /\ part = "player" => Stream(FALSE)!IInv
  /\ part = "air" => Stream(TRUE)!IInv
  /\ part = "page" => Page("page")!IInv
  /\ part = "strips" => Page("strips")!IInv
  /\ part = "hero" => Page("hero")!IInv
  /\ part = "edits" => Page("edits")!IInv
  /\ part = "swaps" => Page("swaps")!IInv
  /\ part = "films" => Shelf("films")!IInv
  /\ part = "shows" => Shelf("shows")!IInv
  /\ part = "reel" => Shelf("reel")!IInv
  /\ part = "season" => Shelf("season")!IInv

IInv == AccountInv /\ MediaInv

(* The constants of the instances, as Sessions and Checkout want them.     *)
LEMMA BoxesConstants ==
  /\ Boxes!IsFiniteSet({r1, r2}) /\ Boxes!IsFiniteSet({c1, c2, c3})
  /\ None \notin {c1, c2, c3} /\ None \notin {r1, r2}
<1>1. IsFiniteSet({r1, r2})
  <2>1. IsFiniteSet(({} \cup {r1}) \cup {r2}) BY FS_EmptySet, FS_AddElement
  <2>2. ({} \cup {r1}) \cup {r2} = {r1, r2} OBVIOUS
  <2> QED BY <2>1, <2>2
<1>2. IsFiniteSet({c1, c2, c3})
  <2>1. IsFiniteSet((({} \cup {c1}) \cup {c2}) \cup {c3}) BY FS_EmptySet, FS_AddElement
  <2>2. (({} \cup {c1}) \cup {c2}) \cup {c3} = {c1, c2, c3} OBVIOUS
  <2> QED BY <2>1, <2>2
<1>3. \A S : Boxes!IsFiniteSet(S) <=> IsFiniteSet(S) BY DEF Boxes!IsFiniteSet, IsFiniteSet
<1> QED BY <1>1, <1>2, <1>3

LEMMA VisitorConstants ==
  /\ {} \subseteq {guest}
  /\ {movie} \cap {} = {} /\ Visitor!Titles \cap {} = {}
  /\ [i \in {i1, i2} |-> guest] \in [{i1, i2} -> {guest}]
  /\ [i \in {i1, i2} |-> movie] \in [{i1, i2} -> Visitor!Items]
  /\ None \notin {r1, r2} /\ None \notin {i1, i2}
  BY DEF Visitor!Titles, Visitor!Items

LEMMA InitInv == Init => IInv
<1> SUFFICES ASSUME Init PROVE IInv OBVIOUS
<1>1. part = "phone" => Phone!IInv BY Phone!InitInv DEF Init
<1>2. part = "links" => Links!IInv BY Links!InitInv DEF Init
<1>3. part = "google" => Google!IInv BY Google!InitInv DEF Init
<1>25. part = "shared" => Shared!IInv BY Shared!InitInv DEF Init
<1>4. part = "both" => Both!IInv BY Both!InitInv DEF Init
<1>5. part = "telegram" => Tgram!IInv BY Tgram!InitInv DEF Init
<1>6. part = "boxes" => Boxes!IInv /\ Boxes!Owned
  BY Boxes!InitInv, Boxes!InitOwned, BoxesConstants DEF Init
<1>7. part = "guest" => Visitor!IInv /\ Visitor!Delivery /\ Visitor!Searches
  BY Visitor!InitInv, Visitor!InitDelivery, Visitor!InitSearches, VisitorConstants DEF Init
<1>8. part = "tv" => Tv!IInv BY TvInit DEF Init
<1>9. part = "access" => Bought!IInv BY BoughtInit DEF Init
<1>10. part = "periods" => Paid!IInv BY PaidInit DEF Init
<1>11. part = "live" => Live!IInv BY LiveInit DEF Init
<1>12. part = "player" => Stream(FALSE)!IInv BY StreamInit DEF Init
<1>13. part = "air" => Stream(TRUE)!IInv BY StreamInit DEF Init
<1>14. part = "page" => Page("page")!IInv BY PageInit DEF Init, PageNames
<1>15. part = "strips" => Page("strips")!IInv BY PageInit DEF Init, PageNames
<1>16. part = "hero" => Page("hero")!IInv BY PageInit DEF Init, PageNames
<1>17. part = "edits" => Page("edits")!IInv BY PageInit DEF Init, PageNames
<1>18. part = "swaps" => Page("swaps")!IInv BY PageInit DEF Init, PageNames
<1>21. part = "films" => Shelf("films")!IInv BY ShelfInit DEF Init, ShelfNames
<1>22. part = "shows" => Shelf("shows")!IInv BY ShelfInit DEF Init, ShelfNames
<1>23. part = "reel" => Shelf("reel")!IInv BY ShelfInit DEF Init, ShelfNames
<1>24. part = "season" => Shelf("season")!IInv BY ShelfInit DEF Init, ShelfNames
<1>19. AccountInv
  BY <1>1, <1>2, <1>3, <1>4, <1>5, <1>6, <1>7, <1>8, <1>9, <1>10, <1>25 DEF AccountInv
<1>20. MediaInv
  BY <1>11, <1>12, <1>13, <1>14, <1>15, <1>16, <1>17, <1>18, <1>21, <1>22, <1>23, <1>24
     DEF MediaInv
<1> QED BY <1>19, <1>20 DEF IInv

LEMMA NextInv == IInv /\ [Next]_vars => IInv'
<1> SUFFICES ASSUME IInv, [Next]_vars PROVE IInv' OBVIOUS
<1>0. part' = part BY OnePart
<1>1. part = "phone" => Phone!IInv' BY OnePart, Phone!NextInv DEF IInv, AccountInv
<1>2. part = "links" => Links!IInv' BY OnePart, Links!NextInv DEF IInv, AccountInv
<1>3. part = "google" => Google!IInv' BY OnePart, Google!NextInv DEF IInv, AccountInv
<1>25. part = "shared" => Shared!IInv' BY OnePart, Shared!NextInv DEF IInv, AccountInv
<1>4. part = "both" => Both!IInv' BY OnePart, Both!NextInv DEF IInv, AccountInv
<1>5. part = "telegram" => Tgram!IInv' BY OnePart, Tgram!NextInv DEF IInv, AccountInv
<1>6. part = "boxes" => Boxes!IInv' /\ Boxes!Owned'
  BY OnePart, Boxes!NextInv, Boxes!NextOwned, BoxesConstants DEF IInv, AccountInv
<1>7. part = "guest" => Visitor!IInv' /\ Visitor!Delivery' /\ Visitor!Searches'
  BY OnePart, Visitor!NextInv, Visitor!NextDelivery, Visitor!NextSearches,
     VisitorConstants DEF IInv, AccountInv
<1>8. part = "tv" => Tv!IInv' BY OnePart, TvNext DEF IInv, AccountInv
<1>9. part = "access" => Bought!IInv' BY OnePart, BoughtNext DEF IInv, AccountInv
<1>10. part = "periods" => Paid!IInv' BY OnePart, PaidNext DEF IInv, AccountInv
<1>11. part = "live" => Live!IInv' BY OnePart, LiveNext DEF IInv, MediaInv
<1>12. part = "player" => Stream(FALSE)!IInv' BY OnePart, StreamNext DEF IInv, MediaInv
<1>13. part = "air" => Stream(TRUE)!IInv' BY OnePart, StreamNext DEF IInv, MediaInv
<1>14. part = "page" => Page("page")!IInv'
  BY OnePart, PageKept DEF IInv, MediaInv, PageNames
<1>15. part = "strips" => Page("strips")!IInv'
  BY OnePart, PageKept DEF IInv, MediaInv, PageNames
<1>16. part = "hero" => Page("hero")!IInv'
  BY OnePart, PageKept DEF IInv, MediaInv, PageNames
<1>17. part = "edits" => Page("edits")!IInv'
  BY OnePart, PageKept DEF IInv, MediaInv, PageNames
<1>18. part = "swaps" => Page("swaps")!IInv'
  BY OnePart, PageKept DEF IInv, MediaInv, PageNames
<1>21. part = "films" => Shelf("films")!IInv'
  BY OnePart, ShelfKept DEF IInv, MediaInv, ShelfNames
<1>22. part = "shows" => Shelf("shows")!IInv'
  BY OnePart, ShelfKept DEF IInv, MediaInv, ShelfNames
<1>23. part = "reel" => Shelf("reel")!IInv'
  BY OnePart, ShelfKept DEF IInv, MediaInv, ShelfNames
<1>24. part = "season" => Shelf("season")!IInv'
  BY OnePart, ShelfKept DEF IInv, MediaInv, ShelfNames
<1>19. AccountInv'
  BY <1>0, <1>1, <1>2, <1>3, <1>4, <1>5, <1>6, <1>7, <1>8, <1>9, <1>10, <1>25
     DEF AccountInv
<1>20. MediaInv'
  BY <1>0, <1>11, <1>12, <1>13, <1>14, <1>15, <1>16, <1>17, <1>18, <1>21, <1>22, <1>23,
     <1>24 DEF MediaInv
<1> QED BY <1>19, <1>20 DEF IInv

(* Every part keeps its invariant.                                         *)
THEOREM Invariance == Spec => []IInv
<1> QED BY InitInv, NextInv, PTL DEF Spec

(* Pairing codes, bot logins, widget nonces and reset links are good once  *)
(* (device_pairing.py, telegram_bot_login.py, auth.py).                    *)
THEOREM CodesOnce == Spec => []GoodOnce
<1>1. IInv => GoodOnce BY Phone!InvGood, Links!InvGood DEF IInv, AccountInv, GoodOnce
<1> QED BY <1>1, Invariance, PTL

(* A bot login signs in the person who confirmed it, whoever tapped Start  *)
(* (telegram_bot_login.py).                                                *)
THEOREM BotConsent == Spec => []SignedInByConsent
<1>1. IInv => SignedInByConsent BY Phone!InvConsent DEF IInv, AccountInv, SignedInByConsent
<1> QED BY <1>1, Invariance, PTL

(* Who signs in with Google, Apple or Telegram comes to one account        *)
(* (authenticate_google, authenticate_apple, login_telegram_identity).     *)
THEOREM AccountEach == Spec => []OneAccountEach
<1>1. IInv => OneAccountEach
  BY Google!InvOne, Shared!InvOne, Both!InvOne, Tgram!InvOne DEF IInv, AccountInv, OneAccountEach
<1> QED BY <1>1, Invariance, PTL

(* A TV code has no more boxes than sign-ins that overlapped               *)
(* (login_with_tv_access_code).                                            *)
THEOREM BoxesKicked == Spec => []TvBoxesOverlap
<1>1. IInv => TvBoxesOverlap
  BY Boxes!InvOverlap, BoxesConstants DEF IInv, AccountInv, TvBoxesOverlap
<1> QED BY <1>1, Invariance, PTL

(* A code paid while it was current stays tracked while the intent is      *)
(* pending (regenerate_bakong_qr).                                         *)
THEOREM PaidCodeTracked == Spec => []PaidCodeKept
<1>1. IInv => PaidCodeKept
  BY DEF IInv, AccountInv, PaidCodeKept, Visitor!Searches, Visitor!Codes
<1> QED BY <1>1, Invariance, PTL

(* A TV code that is off or deleted lets no set in                         *)
(* (update_tv_access_code, delete_tv_access_code, login_with_tv_access_code). *)
THEOREM TvLockedOut == Spec => []DisabledLocksOut
<1>1. IInv => DisabledLocksOut BY TvOff DEF IInv, AccountInv, DisabledLocksOut
<1> QED BY <1>1, Invariance, PTL

(* A sign-in loses nothing the guest had paid for when it began            *)
(* (claim_guest_purchases, fulfill_payment_intent).                        *)
THEOREM TitlesClaimed == Spec => SignInKeepsTitles
<1>1. IInv => (part = "access" => Bought!KeepsTitles) BY BoughtKeeps DEF IInv, AccountInv
<1> QED BY <1>1, Invariance, PTL DEF Spec, SignInKeepsTitles

(* Every payment adds the time it was sold with (fulfill_payment_intent).  *)
THEOREM PeriodsAdd == Spec => PaymentsStack
<1>1. IInv => (part = "periods" => Paid!Stacks) BY PaidStacks DEF IInv, AccountInv
<1> QED BY <1>1, Invariance, PTL DEF Spec, PaymentsStack

(* No process restreams a channel that is deleted or shown offline, unless *)
(* an answer of the service was lost or out of date (start_channel,        *)
(* stop_channel, delete_channel of admin/tv_channels.py).                  *)
THEOREM StreamsKnown == Spec => []NoOrphan
<1>1. IInv => NoOrphan BY LiveOrphan DEF IInv, MediaInv, NoOrphan
<1> QED BY <1>1, Invariance, PTL

(* Playlists follow the bucket, carry addresses that last, and access ends *)
(* after it was last granted, whichever copy filled which                  *)
(* (build_variant_playlist, _get_object_text, verify_playback_token).      *)
THEOREM PlaylistsTimely == Spec => []PlaylistsInTime
<1>1. IInv => PlaylistsInTime BY StreamInTime DEF IInv, MediaInv, PlaylistsInTime
<1> QED BY <1>1, Invariance, PTL

(* What is shown and what may be played agree, a cached page being behind  *)
(* by no more than an answer lives (can_access_content, list_episodes,     *)
(* list_published_movies, list_published_series, related.py).              *)
THEOREM ShelvesStayTrue == Spec => []ShelvesAgree
<1>1. IInv => ShelvesAgree
  <2>1. \A name \in ShelfNames : Shelf(name)!ShelvesConstants /\ Shelf(name)!IInv
          => Shelf(name)!ShelvesAgree
    BY ShelfAgrees
  <2> QED BY <2>1 DEF IInv, MediaInv, ShelvesAgree, ShelfNames
<1> QED BY <1>1, Invariance, PTL

(* A section shows released titles of its kinds, none twice and no more    *)
(* than its limit, and is empty only if nothing fits; a slide opens and has*)
(* something to show (resolve_public_sections, resolve_hero_slides,        *)
(* update_admin_hero_featured).                                            *)
THEOREM HomeStaysWhole == Spec => []HomeWhole
<1>1. IInv => HomeWhole
  <2>1. \A name \in PageNames : Page(name)!HomeConstants /\ Page(name)!IInv
          => Page(name)!HomeWhole
    BY PageWhole
  <2> QED BY <2>1 DEF IInv, MediaInv, HomeWhole, PageNames
<1> QED BY <1>1, Invariance, PTL
=============================================================================
