---------------------------- MODULE SignInProofs ----------------------------
(***************************************************************************)
(* What SignIn guarantees for every set of codes, people and handlers: a   *)
(* code is good once, and a bot login signs in the person who confirmed it.*)
(***************************************************************************)
EXTENDS SignIn, TLAPS

(* Every code is of one of the four tables, and None is no handler.        *)
SignInConstants ==
  /\ \A c \in Codes : KindOf[c] \in {"pairing", "bot", "nonce", "reset"}
  /\ None \notin Handlers

Row     == [status : Status, who : People \cup {None}]
Handler == [op : Ops \cup {"none"}, c : Codes \cup {None}, by : People \cup {None}, held : BOOLEAN]

TypeOK ==
  /\ row \in [Codes -> Row] /\ lapsed \subseteq Codes
  /\ rowLock \in [Codes -> Handlers \cup {None}]
  /\ handler \in [Handlers -> Handler]
  /\ opened \in [Codes -> Nat] /\ handed \in [Codes -> Nat]
  /\ agreed \subseteq Codes \X People

(* The status a handler found, which the row lock keeps for it.            *)
Fits(h) ==
  LET c == handler[h].c
      s == row[c].status IN
  /\ handler[h].op \in {"confirm", "widget", "reset"} => s = "pending"
  /\ handler[h].op \in {"handout", "poll"} => s = "confirmed"
  /\ handler[h].op = "tap" => s \in {"pending", "started"}
  /\ handler[h].op \in {"approve", "cancel"} => s = "started"
  /\ handler[h].op = "approve" => SameSender(h, c)

(* A handler asks what the table of its code allows; it holds the row it   *)
(* judged, and no other, or the links that it is about to delete.          *)
Judged(h) ==
  LET c == handler[h].c IN
  /\ handler[h].op \in Ops \ {"relink"} =>
       /\ c \in Codes /\ handler[h].op \in OpsOn(c)
       /\ handler[h].op \notin {"handout", "poll"} => handler[h].by \in People
  /\ handler[h].op = "relink" => handler[h].by \in People
  /\ handler[h].held => handler[h].op \in Ops \ {"relink"} /\ rowLock[c] = h /\ Fits(h)
  /\ \A d \in Codes : rowLock[d] = h =>
       (handler[h].held /\ d = c) \/ (handler[h].op = "relink" /\ KindOf[d] = "reset")

(* What a status says of the sessions and tokens a code has led to.        *)
Tally(c) ==
  LET s == row[c].status IN
  /\ opened[c] <= 1 /\ handed[c] <= opened[c]
  /\ s \in {"absent", "pending", "started"} => opened[c] = 0
  /\ KindOf[c] = "pairing" /\ s = "confirmed" => opened[c] = 1 /\ handed[c] = 0
  /\ KindOf[c] = "bot" => (opened[c] > 0 => s = "used")

(* What it says of who agreed: nobody before it is confirmed, afterwards   *)
(* the person it is bound to.                                              *)
Agreed(c) == {p \in People : <<c, p>> \in agreed}

Consent(c) ==
  KindOf[c] = "bot" =>
    /\ row[c].status \in {"absent", "pending", "started"} => Agreed(c) = {}
    /\ row[c].status \in {"confirmed", "used"} => Agreed(c) = {row[c].who}

(* The inductive strengthening of GoodOnce and SignedInByConsent.          *)
IInv ==
  /\ TypeOK
  /\ \A h \in Handlers : Judged(h)
  /\ \A c \in Codes : Tally(c) /\ Consent(c)

LEMMA InitInv ==
  ASSUME SignInConstants, Init
  PROVE  IInv
<1>1. TypeOK BY DEF Init, TypeOK, Row, Handler, Resting, Status
<1>2. \A h \in Handlers : Judged(h) BY DEF Init, Judged, Resting, Ops, SignInConstants
<1>3. \A c \in Codes : Tally(c) /\ Consent(c) BY DEF Init, Tally, Consent, Agreed
<1> QED BY <1>1, <1>2, <1>3 DEF IInv

(* What is known of a handler and of the code it works on.                 *)
LEMMA Here ==
  ASSUME IInv, NEW h \in Handlers
  PROVE  /\ TypeOK /\ Judged(h) /\ handler[h] \in Handler /\ handler \in [Handlers -> Handler]
         /\ row \in [Codes -> Row] /\ rowLock \in [Codes -> Handlers \cup {None}]
  BY DEF IInv, TypeOK

(* The handlers of other rows, or of rows that stay as they are.           *)
LEMMA JudgedSame ==
  ASSUME IInv, NEW h \in Handlers, handler'[h] = handler[h],
         \A c \in Codes : rowLock'[c] = h <=> rowLock[c] = h,
         \A c \in Codes : rowLock[c] = h /\ handler[h].op # "relink" => row'[c] = row[c]
  PROVE  Judged(h)'
<1> DEFINE c == handler[h].c
<1>1. Judged(h) BY DEF IInv
<1>2. handler[h].held => /\ c \in Codes /\ rowLock[c] = h /\ handler[h].op \in Ops \ {"relink"}
                         /\ Fits(h)
  BY <1>1 DEF Judged
<1>3. handler[h].held => row'[c] = row[c] /\ rowLock'[c] = h BY <1>2
<1>4. handler[h].held => Fits(h)' BY <1>2, <1>3 DEF Fits, SameSender
<1>5. \A d \in Codes : OpsOn(d)' = OpsOn(d) BY DEF OpsOn
<1> QED BY <1>1, <1>3, <1>4 DEF Judged, OpsOn

(* A step that writes no row.                                              *)
LEMMA QuietInv ==
  ASSUME IInv, UNCHANGED <<row, opened, handed, agreed>>, TypeOK',
         \A h \in Handlers : Judged(h)'
  PROVE  IInv'
<1>1. \A c \in Codes : Tally(c)' /\ Consent(c)' BY DEF IInv, Tally, Consent, Agreed
<1> QED BY <1>1 DEF IInv

(* A step of h leaves the other handlers to their rows.                    *)
LEMMA OthersJudged ==
  ASSUME IInv, NEW h \in Handlers, \A g \in Handlers \ {h} : handler'[g] = handler[g],
         \A c \in Codes, g \in Handlers \ {h} : rowLock'[c] = g <=> rowLock[c] = g,
         \A c \in Codes : rowLock[c] \in Handlers \ {h} =>
           row'[c] = row[c] \/ row[c].status = "absent"
  PROVE  \A g \in Handlers \ {h} : Judged(g)'
<1> SUFFICES ASSUME NEW g \in Handlers \ {h} PROVE Judged(g)' OBVIOUS
<1>1. \A c \in Codes : rowLock[c] = g /\ handler[g].op # "relink" => row'[c] = row[c]
  <2> SUFFICES ASSUME NEW c \in Codes, rowLock[c] = g, handler[g].op # "relink"
               PROVE  row[c].status # "absent"
    OBVIOUS
  <2>1. Judged(g) BY Here
  <2>2. handler[g].held /\ handler[g].c = c BY <2>1 DEF Judged
  <2> QED BY <2>1, <2>2 DEF Judged, Fits, Ops
<1> QED BY <1>1, JudgedSame

(* A handler that rests holds nothing.                                     *)
LEMMA RestJudged ==
  ASSUME NEW h \in Handlers, handler'[h] = Resting, \A c \in Codes : rowLock'[c] # h
  PROVE  Judged(h)'
  BY DEF Judged, Resting, Ops

LEMMA RestingType == Resting \in Handler
  BY DEF Resting, Handler

-----------------------------------------------------------------------------
(* Codes that are made and run out.                                        *)
LEMMA StartInv ==
  ASSUME IInv, NEW c \in Codes, Start(c) \/ Lapse(c)
  PROVE  IInv'
<1>0. TypeOK BY DEF IInv
<1>1. CASE Start(c)
  <2>1. /\ row[c].status = "absent" /\ KindOf[c] # "reset"
        /\ UNCHANGED <<lapsed, rowLock, handler, opened, handed, agreed>>
        /\ row' \in [Codes -> Row]
        /\ row'[c].status = "pending" /\ \A d \in Codes \ {c} : row'[d] = row[d]
    BY <1>0, <1>1 DEF Start, TypeOK, Row, Status
  <2>2. TypeOK' BY <1>0, <2>1 DEF TypeOK
  <2>3. ASSUME NEW h \in Handlers PROVE Judged(h)'
    <3>1. \A d \in Codes : rowLock[d] = h /\ handler[h].op # "relink" => row'[d] = row[d]
      <4> SUFFICES ASSUME NEW d \in Codes, rowLock[d] = h, handler[h].op # "relink"
                   PROVE  row[d].status # "absent"
        BY <2>1
      <4>1. Judged(h) BY Here
      <4>2. handler[h].held /\ handler[h].c = d BY <4>1 DEF Judged
      <4> QED BY <4>1, <4>2 DEF Judged, Fits, Ops
    <3> QED BY <2>1, <3>1, JudgedSame
  <2>4. ASSUME NEW d \in Codes PROVE Tally(d)' /\ Consent(d)'
    <3>1. Tally(d) /\ Consent(d) BY DEF IInv
    <3>2. Agreed(d)' = Agreed(d) BY <2>1 DEF Agreed
    <3>3. opened[d] \in Nat BY <1>0 DEF TypeOK
    <3> QED BY <2>1, <3>1, <3>2, <3>3 DEF Tally, Consent
  <2> QED BY <2>2, <2>3, <2>4 DEF IInv
<1>2. CASE Lapse(c)
  <2>1. TypeOK' BY <1>0, <1>2 DEF Lapse, TypeOK
  <2>2. \A h \in Handlers : Judged(h)' BY <1>2, JudgedSame DEF Lapse
  <2> QED BY <1>2, <2>1, <2>2, QuietInv DEF Lapse
<1> QED BY <1>1, <1>2

(* Requesting a reset link: those the handler sees are deleted.            *)
LEMMA DropInv ==
  ASSUME SignInConstants, IInv, NEW h \in Handlers, NEW p \in People, DropLinks(h, p)
  PROVE  IInv'
<1>0. TypeOK /\ Judged(h) /\ handler[h].op = "none" BY Here DEF DropLinks
<1>1. \A d \in Codes : rowLock[d] # h BY <1>0 DEF Judged, Ops
<1> DEFINE x == [Resting EXCEPT !.op = "relink", !.by = p]
<1>2. x.op = "relink" /\ x.by = p /\ x.held = FALSE /\ x \in Handler
  BY DEF Resting, Handler, Ops
<1>3. handler'[h] = x /\ handler' \in [Handlers -> Handler]
      /\ \A g \in Handlers \ {h} : handler'[g] = handler[g]
  <2> HIDE DEF x
  <2>1. handler' = [handler EXCEPT ![h] = x] BY DEF DropLinks, x
  <2> QED BY <1>0, <1>2, <2>1 DEF TypeOK
<1>4. \A c \in Codes : c \in Links(p) => rowLock[c] = None /\ KindOf[c] = "reset"
  BY DEF DropLinks, Links, Kind
<1>5. \A c \in Codes : rowLock'[c] = IF c \in Links(p) THEN h ELSE rowLock[c]
  BY DEF DropLinks
<1>6. TypeOK' BY <1>0, <1>3 DEF DropLinks, TypeOK
<1>7. Judged(h)'
  <2> HIDE DEF x
  <2> QED BY <1>1, <1>2, <1>3, <1>4, <1>5 DEF Judged
<1>8. \A g \in Handlers \ {h} : Judged(g)'
  BY <1>3, <1>4, <1>5, OthersJudged, SignInConstants DEF DropLinks, SignInConstants
<1> QED BY <1>6, <1>7, <1>8, QuietInv DEF DropLinks

LEMMA NewLinkInv ==
  ASSUME SignInConstants, IInv, NEW h \in Handlers, NEW c \in Codes, NewLink(h, c)
  PROVE  IInv'
<1> DEFINE p == handler[h].by
<1>0. TypeOK /\ Judged(h) /\ handler[h].op = "relink" /\ row[c].status = "absent" /\ KindOf[c] = "reset"
  BY Here DEF NewLink, Kind
<1>1. p \in People BY <1>0 DEF Judged
<1>2. handler'[h] = Resting /\ handler' \in [Handlers -> Handler]
      /\ \A g \in Handlers \ {h} : handler'[g] = handler[g]
  BY <1>0, RestingType DEF NewLink, TypeOK
<1>3. /\ row'[c] = [status |-> "pending", who |-> p]
      /\ \A d \in Codes \ {c} : row'[d] =
           IF rowLock[d] = h THEN [status |-> "gone", who |-> None] ELSE row[d]
      /\ \A d \in Codes : rowLock'[d] = IF rowLock[d] = h THEN None ELSE rowLock[d]
  BY DEF NewLink
<1>4. row' \in [Codes -> Row]
  <2>1. \A d \in Codes : row'[d] \in Row BY <1>0, <1>1, <1>3 DEF TypeOK, Row, Status
  <2>2. row' = [d \in Codes |-> row'[d]] BY DEF NewLink
  <2> QED BY <2>1, <2>2
<1>5. TypeOK' BY <1>0, <1>2, <1>4 DEF NewLink, TypeOK
<1>6. Judged(h)' BY <1>2, <1>3, RestJudged, SignInConstants DEF SignInConstants
<1>7. \A g \in Handlers \ {h} : Judged(g)'
  BY <1>0, <1>2, <1>3, OthersJudged, SignInConstants DEF SignInConstants
<1>8. ASSUME NEW d \in Codes PROVE Tally(d)' /\ Consent(d)'
  <2>1. Tally(d) /\ Consent(d) BY DEF IInv
  <2>2. UNCHANGED <<opened, handed, agreed>> /\ opened[d] \in Nat BY <1>0 DEF NewLink, TypeOK
  <2>3. Agreed(d)' = Agreed(d) BY <2>2 DEF Agreed
  <2>4. CASE d = c
    <3>1. row'[d].status = "pending" BY <1>3, <2>4
    <3> QED BY <1>0, <2>1, <2>2, <2>4, <3>1 DEF Tally, Consent
  <2>5. CASE d # c /\ rowLock[d] = h
    <3>1. row'[d].status = "gone" /\ KindOf[d] = "reset" BY <1>0, <1>3, <2>5 DEF Judged
    <3> QED BY <2>1, <2>2, <3>1 DEF Tally, Consent
  <2>6. CASE d # c /\ rowLock[d] # h
    BY <1>3, <2>1, <2>2, <2>3, <2>6 DEF Tally, Consent
  <2> QED BY <2>4, <2>5, <2>6
<1> QED BY <1>5, <1>6, <1>7, <1>8 DEF IInv

-----------------------------------------------------------------------------
(* A handler from its SELECT to its commit.                                *)
LEMMA AskInv ==
  ASSUME IInv, NEW h \in Handlers, NEW c \in Codes, NEW op \in Ops, NEW p \in People \cup {None},
         SignInConstants, Ask(h, c, op, p)
  PROVE  IInv'
<1>0. TypeOK /\ Judged(h) /\ handler[h].op = "none" BY Here DEF Ask
<1>1. \A d \in Codes : rowLock[d] # h BY <1>0 DEF Judged, Ops
<1> DEFINE x == [op |-> op, c |-> c, by |-> p, held |-> FALSE]
<1>2. handler'[h] = x /\ handler' \in [Handlers -> Handler]
      /\ \A g \in Handlers \ {h} : handler'[g] = handler[g]
  <2>1. x \in Handler BY DEF Handler
  <2>2. handler' = [handler EXCEPT ![h] = x] BY DEF Ask
  <2> HIDE DEF x
  <2> QED BY <1>0, <2>1, <2>2 DEF TypeOK
<1>3. TypeOK' BY <1>0, <1>2 DEF Ask, TypeOK
<1>4. op \in OpsOn(c) /\ op # "relink"
      /\ (op \notin {"handout", "poll"} => p \in People)
  BY SignInConstants DEF Ask, OpsOn, SignInConstants
<1>5. Judged(h)'
  <2>1. op \in OpsOn(c)' BY <1>4 DEF OpsOn
  <2> QED BY <1>1, <1>2, <1>4, <2>1 DEF Judged, Ask
<1>6. \A g \in Handlers \ {h} : Judged(g)' BY <1>2, OthersJudged DEF Ask
<1> QED BY <1>3, <1>5, <1>6, QuietInv DEF Ask

(* The handler that gets the row and accepts keeps it; any other goes.     *)
LEMMA FindInv ==
  ASSUME SignInConstants, IInv, NEW h \in Handlers, Find(h)
  PROVE  IInv'
<1> DEFINE c == handler[h].c
<1>0. /\ TypeOK /\ Judged(h) /\ handler[h].op \in Ops \ {"relink"} /\ ~handler[h].held
      /\ rowLock[c] = None /\ handler[h] \in Handler
  BY Here DEF Find
<1>1. c \in Codes /\ \A d \in Codes : rowLock[d] # h BY <1>0 DEF Judged
<1>2. CASE Accepts(h) /\ handler' = [handler EXCEPT ![h].held = TRUE] /\ rowLock' = Taken(h, c)
  <2>1. /\ handler' \in [Handlers -> Handler] /\ handler'[h].held
        /\ handler'[h].op = handler[h].op /\ handler'[h].c = c /\ handler'[h].by = handler[h].by
        /\ \A g \in Handlers \ {h} : handler'[g] = handler[g]
    BY <1>0, <1>2 DEF TypeOK, Handler
  <2>2. /\ rowLock' \in [Codes -> Handlers \cup {None}] /\ rowLock'[c] = h
        /\ \A d \in Codes \ {c} : rowLock'[d] = rowLock[d]
    BY <1>0, <1>1, <1>2 DEF Taken, TypeOK
  <2>3. TypeOK' BY <1>0, <2>1, <2>2 DEF Find, TypeOK
  <2>4. Fits(h)
    <3>1. handler[h].op \in {"confirm", "widget", "reset"} => row[c].status = "pending"
      BY <1>2 DEF Accepts
    <3>2. handler[h].op \in {"handout", "poll"} => row[c].status = "confirmed"
      BY <1>2 DEF Accepts
    <3>3. handler[h].op = "tap" => row[c].status \in {"pending", "started"}
      BY <1>2 DEF Accepts
    <3>4. handler[h].op \in {"approve", "cancel"} => row[c].status = "started" /\ SameSender(h, c)
      BY <1>2 DEF Accepts
    <3> QED BY <3>1, <3>2, <3>3, <3>4 DEF Fits
  <2>5. UNCHANGED row BY DEF Find
  <2>6. Fits(h)' BY <2>1, <2>4, <2>5 DEF Fits, SameSender
  <2>7. Judged(h)'
    BY <1>0, <1>1, <2>1, <2>2, <2>6 DEF Judged, OpsOn
  <2>8. \A g \in Handlers \ {h} : Judged(g)'
    BY <1>0, <1>1, <2>1, <2>2, <2>5, OthersJudged, SignInConstants DEF SignInConstants
  <2> QED BY <2>3, <2>7, <2>8, QuietInv DEF Find
<1>3. CASE handler' = [handler EXCEPT ![h] = Resting] /\ UNCHANGED rowLock
  <2>1. /\ handler' \in [Handlers -> Handler] /\ handler'[h] = Resting
        /\ \A g \in Handlers \ {h} : handler'[g] = handler[g]
    BY <1>0, <1>3, RestingType DEF TypeOK
  <2>2. TypeOK' BY <1>0, <1>3, <2>1 DEF Find, TypeOK
  <2>3. Judged(h)' BY <1>1, <1>3, <2>1, RestJudged
  <2>4. \A g \in Handlers \ {h} : Judged(g)' BY <1>3, <2>1, OthersJudged DEF Find
  <2> QED BY <2>2, <2>3, <2>4, QuietInv DEF Find
<1> QED BY <1>2, <1>3 DEF Find

(* What a handler commits, by what it found: its code is tallied right.    *)
LEMMA FinishCode ==
  ASSUME SignInConstants, IInv, NEW h \in Handlers, Finish(h),
         NEW c, c = handler[h].c, NEW op, op = handler[h].op
  PROVE  /\ c \in Codes /\ op \in Ops \ {"relink"} /\ rowLock[c] = h /\ Outcome(h) \in Row
         /\ op = "approve" => handler[h].by \in People
         /\ \A d \in Codes : rowLock[d] = h => d = c
         /\ Tally(c)' /\ Consent(c)'
<1>0. /\ TypeOK /\ Judged(h) /\ handler[h].held /\ handler[h] \in Handler
  BY Here DEF Finish
<1>1. /\ c \in Codes /\ op \in Ops \ {"relink"} /\ op \in OpsOn(c) /\ Fits(h) /\ rowLock[c] = h
      /\ op \notin {"handout", "poll"} => handler[h].by \in People
      /\ \A d \in Codes : rowLock[d] = h => d = c
      /\ row[c] \in Row /\ opened[c] \in Nat /\ handed[c] \in Nat /\ Tally(c) /\ Consent(c)
  BY <1>0 DEF Judged, TypeOK, IInv
<1>2. Outcome(h) \in Row
  BY <1>1 DEF Outcome, Row, Status, Ops
<1>3. /\ row'[c] = Outcome(h)
      /\ opened'[c] = opened[c] + One(Opens(h)) /\ handed'[c] = handed[c] + One(Hands(h))
  BY <1>0, <1>1 DEF Finish, TypeOK
<1>4. agreed' = IF op = "approve" THEN agreed \cup {<<c, handler[h].by>>} ELSE agreed
  BY DEF Finish
<1>5. /\ KindOf[c] = "pairing" => op \in {"confirm", "handout"}
      /\ KindOf[c] = "bot" => op \in {"tap", "approve", "cancel", "poll"}
      /\ KindOf[c] = "nonce" => op = "widget"
      /\ KindOf[c] = "reset" => op = "reset"
      /\ KindOf[c] \in {"pairing", "bot", "nonce", "reset"}
  BY <1>1, SignInConstants DEF OpsOn, SignInConstants
<1>6. Tally(c)'
  <2>1. CASE op = "confirm"
    <3>1. row[c].status = "pending" /\ KindOf[c] = "pairing" BY <1>1, <1>5, <2>1 DEF Fits
    <3>2. row'[c].status = "confirmed" /\ opened'[c] = opened[c] + 1 /\ handed'[c] = handed[c]
      BY <1>1, <1>3, <2>1 DEF Outcome, Opens, Hands, One
    <3> QED BY <1>1, <3>1, <3>2 DEF Tally
  <2>2. CASE op = "handout"
    <3>1. row[c].status = "confirmed" /\ KindOf[c] = "pairing" BY <1>1, <1>5, <2>2 DEF Fits
    <3>2. row'[c].status = "expired" /\ opened'[c] = opened[c] /\ handed'[c] = handed[c] + 1
      BY <1>1, <1>3, <2>2 DEF Outcome, Row, Opens, Hands, One
    <3> QED BY <1>1, <3>1, <3>2 DEF Tally
  <2>3. CASE op \in {"tap", "approve", "cancel"}
    <3>1. row[c].status \in {"pending", "started"} /\ KindOf[c] = "bot"
      BY <1>1, <1>5, <2>3 DEF Fits
    <3>2. /\ row'[c].status \in {"started", "confirmed", "expired"}
          /\ opened'[c] = opened[c] /\ handed'[c] = handed[c]
      BY <1>1, <1>3, <2>3 DEF Outcome, Row, Opens, Hands, One
    <3> QED BY <1>1, <3>1, <3>2 DEF Tally
  <2>4. CASE op \in {"poll", "widget", "reset"}
    <3>1. opened[c] = 0
      BY <1>1, <1>5, <2>4 DEF Fits, Tally
    <3>2. /\ row'[c].status = "used" /\ opened'[c] = opened[c] + 1
          /\ handed'[c] = handed[c] \/ handed'[c] = handed[c] + 1
          /\ KindOf[c] # "pairing"
      BY <1>1, <1>3, <1>5, <2>4 DEF Outcome, Row, Opens, Hands, One
    <3> QED BY <1>1, <3>1, <3>2 DEF Tally
  <2> QED BY <1>1, <2>1, <2>2, <2>3, <2>4 DEF Ops
<1>7. Consent(c)'
  <2>1. CASE KindOf[c] # "bot" BY <2>1 DEF Consent
  <2>2. CASE op = "tap"
    <3>1. row'[c].status = "started" BY <1>3, <2>2 DEF Outcome
    <3>2. Agreed(c)' = Agreed(c) BY <1>4, <2>2 DEF Agreed
    <3>3. row[c].status \in {"pending", "started"} BY <1>1, <2>2 DEF Fits
    <3> QED BY <1>1, <3>1, <3>2, <3>3 DEF Consent
  <2>3. CASE op = "approve" /\ KindOf[c] = "bot"
    <3>1. row'[c].status = "confirmed" /\ row'[c].who = row[c].who
      BY <1>1, <1>3, <2>3 DEF Outcome, Row
    <3>2. Agreed(c) = {} /\ handler[h].by = row[c].who /\ handler[h].by \in People
      BY <1>1, <2>3 DEF Consent, Fits, SameSender
    <3>3. Agreed(c)' = {row'[c].who} BY <1>4, <2>3, <3>1, <3>2 DEF Agreed
    <3> QED BY <3>1, <3>3 DEF Consent
  <2>4. CASE op = "cancel"
    <3>1. row'[c].status = "expired" BY <1>1, <1>3, <2>4 DEF Outcome, Row
    <3> QED BY <3>1 DEF Consent
  <2>5. CASE op = "poll"
    <3>1. row'[c].status = "used" /\ row'[c].who = row[c].who
      BY <1>1, <1>3, <2>5 DEF Outcome, Row
    <3>2. Agreed(c)' = Agreed(c) BY <1>4, <2>5 DEF Agreed
    <3>3. row[c].status = "confirmed" BY <1>1, <2>5 DEF Fits
    <3> QED BY <1>1, <3>1, <3>2, <3>3 DEF Consent
  <2> QED BY <1>5, <2>1, <2>2, <2>3, <2>4, <2>5
<1> QED BY <1>1, <1>2, <1>6, <1>7

(* A handler commits: its row, and no other, is written and let go.        *)
LEMMA FinishInv ==
  ASSUME SignInConstants, IInv, NEW h \in Handlers, Finish(h)
  PROVE  IInv'
<1> PICK c, op : c = handler[h].c /\ op = handler[h].op OBVIOUS
<1>0. /\ TypeOK /\ Judged(h) /\ handler[h].held /\ handler[h] \in Handler
  BY Here DEF Finish
<1>1. /\ c \in Codes /\ op \in Ops \ {"relink"} /\ rowLock[c] = h /\ Outcome(h) \in Row
      /\ op = "approve" => handler[h].by \in People
      /\ \A d \in Codes : rowLock[d] = h => d = c
      /\ Tally(c)' /\ Consent(c)'
  BY FinishCode
<1>2. /\ handler' \in [Handlers -> Handler] /\ handler'[h] = Resting
      /\ \A g \in Handlers \ {h} : handler'[g] = handler[g]
  BY <1>0, RestingType DEF Finish, TypeOK
<1>3. /\ rowLock' \in [Codes -> Handlers \cup {None}] /\ rowLock'[c] = None
      /\ \A d \in Codes \ {c} : rowLock'[d] = rowLock[d]
  BY <1>0, <1>1 DEF Finish, TypeOK
<1>4. row' \in [Codes -> Row] /\ \A d \in Codes \ {c} : row'[d] = row[d]
  BY <1>0, <1>1 DEF Finish, TypeOK
<1>5. /\ opened' \in [Codes -> Nat] /\ handed' \in [Codes -> Nat]
      /\ \A d \in Codes \ {c} : opened'[d] = opened[d] /\ handed'[d] = handed[d]
  BY <1>0, <1>1 DEF Finish, TypeOK, One
<1>6. agreed' = IF op = "approve" THEN agreed \cup {<<c, handler[h].by>>} ELSE agreed
  BY DEF Finish
<1>7. TypeOK'
  BY <1>0, <1>1, <1>2, <1>3, <1>4, <1>5, <1>6 DEF Finish, TypeOK
<1>8. Judged(h)'
  BY <1>1, <1>2, <1>3, RestJudged, SignInConstants DEF SignInConstants
<1>9. \A g \in Handlers \ {h} : Judged(g)'
  BY <1>1, <1>2, <1>3, <1>4, OthersJudged, SignInConstants DEF SignInConstants
<1>10. ASSUME NEW d \in Codes \ {c} PROVE Tally(d)' /\ Consent(d)'
  <2>1. Tally(d) /\ Consent(d) BY DEF IInv
  <2>2. Agreed(d)' = Agreed(d) BY <1>6 DEF Agreed
  <2> QED BY <1>4, <1>5, <2>1, <2>2 DEF Tally, Consent
<1> QED BY <1>1, <1>7, <1>8, <1>9, <1>10 DEF IInv

LEMMA AbortInv ==
  ASSUME SignInConstants, IInv, NEW h \in Handlers, Abort(h)
  PROVE  IInv'
<1>0. TypeOK BY DEF IInv
<1>1. /\ handler' \in [Handlers -> Handler] /\ handler'[h] = Resting
      /\ \A g \in Handlers \ {h} : handler'[g] = handler[g]
  BY <1>0, RestingType DEF Abort, TypeOK
<1>2. \A d \in Codes : rowLock'[d] = IF rowLock[d] = h THEN None ELSE rowLock[d] BY DEF Abort
<1>3. TypeOK' BY <1>0, <1>1 DEF Abort, TypeOK
<1>4. Judged(h)' BY <1>1, <1>2, RestJudged, SignInConstants DEF SignInConstants
<1>5. \A g \in Handlers \ {h} : Judged(g)'
  BY <1>1, <1>2, OthersJudged, SignInConstants DEF Abort, SignInConstants
<1> QED BY <1>3, <1>4, <1>5, QuietInv DEF Abort

(* IInv is inductive.                                                      *)
LEMMA NextInv ==
  ASSUME SignInConstants, IInv, [Next]_vars
  PROVE  IInv'
<1>1. CASE UNCHANGED vars
  <2>1. TypeOK' BY <1>1 DEF IInv, TypeOK, vars
  <2>2. \A h \in Handlers : Judged(h)' BY <1>1, JudgedSame DEF vars
  <2> QED BY <1>1, <2>1, <2>2, QuietInv DEF vars
<1>2. CASE Next
  BY <1>2, SignInConstants, StartInv, FindInv, FinishInv, AbortInv, DropInv, NewLinkInv, AskInv
    DEF Next
<1> QED BY <1>1, <1>2

(* One session per code, one delivery of its token, never before the       *)
(* session: the row lock and the status it protects are enough, for any    *)
(* number of handlers that repeat, redeliver and die.                      *)
LEMMA InvGood == ASSUME IInv PROVE GoodOnce
  BY DEF IInv, TypeOK, Tally, GoodOnce

(* A bot login signs in the one person who confirmed it.                   *)
LEMMA InvConsent == ASSUME IInv PROVE SignedInByConsent
<1> SUFFICES ASSUME NEW c \in Codes, KindOf[c] = "bot", opened[c] > 0
             PROVE  {p \in People : <<c, p>> \in agreed} = {row[c].who}
  BY DEF SignedInByConsent, Kind
<1> QED BY DEF IInv, Tally, Consent, Agreed

(* A one-time code is good once, for every set of codes, people and        *)
(* handlers: whatever a handler found under the row lock still holds when  *)
(* it commits.                                                             *)
THEOREM Once == ASSUME SignInConstants PROVE Spec => []GoodOnce
<1>1. Init => IInv BY InitInv
<1>2. IInv /\ [Next]_vars => IInv' BY NextInv
<1>3. IInv => GoodOnce BY InvGood
<1> QED BY <1>1, <1>2, <1>3, PTL DEF Spec

(* Whoever taps Start on somebody's bot login, and however often, the      *)
(* person it signs in is the one person who approved it.                   *)
THEOREM ByConsent == ASSUME SignInConstants PROVE Spec => []SignedInByConsent
<1>1. Init => IInv BY InitInv
<1>2. IInv /\ [Next]_vars => IInv' BY NextInv
<1>3. IInv => SignedInByConsent BY InvConsent
<1> QED BY <1>1, <1>2, <1>3, PTL DEF Spec
=============================================================================
