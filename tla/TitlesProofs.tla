---------------------------- MODULE TitlesProofs ----------------------------
(***************************************************************************)
(* What Titles guarantees for every catalogue, any number of editors and   *)
(* any batch of the sweeper: posters survive, releases are due.            *)
(***************************************************************************)
EXTENDS Titles, TLAPS

Row == [status : Statuses, live : BOOLEAN, at : Nat,
        poster : BOOLEAN, media : BOOLEAN, job : BOOLEAN]

(* None and Gone are no rows, and None is no title.                        *)
TitlesConstants == None \notin Row /\ Gone \notin Row /\ None \notin Titles /\ MaxTime \in Nat

Fields == {"status", "live", "at", "poster", "media", "job"}

(* The columns a request will write.                                       *)
Columns(w) ==
  /\ DOMAIN w \subseteq Fields
  /\ "status" \in DOMAIN w => w["status"] \in Statuses
  /\ "at" \in DOMAIN w => w["at"] \in Nat
  /\ \A f \in DOMAIN w \cap {"live", "poster", "media", "job"} : w[f] \in BOOLEAN

TypeOK ==
  /\ row \in [Titles -> Row \cup {None, Gone}]
  /\ now \in Nat
  /\ pass \in SUBSET Titles
  /\ req = [r \in Editors |-> req[r]]
  /\ \A r \in Editors : req[r].t \in Titles \cup {None} /\ Columns(req[r].w)

(* A request that writes the poster writes one, but for a series.          *)
Adds(r) == "poster" \in DOMAIN req[r].w /\ req[r].t \notin Serials => req[r].w["poster"] = TRUE

(* Nobody reaches what the sweeper has locked.                             *)
IInv ==
  /\ TypeOK
  /\ \A r \in Editors : Adds(r)
  /\ pass \subseteq Due(Swept)

LEMMA DifferencesAre ==
  ASSUME NEW x \in Row, NEW y \in Row
  PROVE  /\ Columns(Differences(x, y))
         /\ \A f \in DOMAIN Differences(x, y) : x[f] # y[f] /\ Differences(x, y)[f] = y[f]
  BY DEF Differences, Columns, Row, Fields

LEMMA UpdatedIs ==
  ASSUME NEW x \in Row, NEW w, Columns(w)
  PROVE  /\ Updated(x, w) \in Row
         /\ Updated(x, w).poster = IF "poster" \in DOMAIN w THEN w["poster"] ELSE x.poster
  BY DEF Updated, Columns, Row, Fields

LEMMA NormalIs ==
  ASSUME NEW x \in Row
  PROVE  Normal(x) \in Row /\ Normal(x).poster = x.poster
  BY DEF Normal, Row, Statuses

LEMMA PatchedIs ==
  ASSUME NEW t, NEW x \in Row, NEW st \in Statuses \cup {None}, NEW pub \in BOOLEAN \cup {None},
         NEW at \in Nat \cup {None}
  PROVE  Patched(t, x, st, pub, at) \in Row /\ Patched(t, x, st, pub, at).poster = x.poster
<1> DEFINE given == [x EXCEPT !.status = IF st = None THEN @ ELSE st,
                              !.at = IF at = None THEN @ ELSE at]
<1>1. given \in Row /\ given.poster = x.poster BY DEF Row
<1>2. \A b \in BOOLEAN : [given EXCEPT !.live = b] \in Row /\ [given EXCEPT !.live = b].poster = x.poster
  BY <1>1 DEF Row
<1>3. \A s \in Statuses :
        LET y == [x EXCEPT !.status = s] IN y \in Row /\ y.poster = x.poster
  BY DEF Row
<1>4. {"published", "draft"} \subseteq Statuses BY DEF Statuses
<1> HIDE DEF given
<1> QED BY <1>1, <1>2, <1>3, <1>4, NormalIs DEF Patched, given

LEMMA InitInv ==
  ASSUME TitlesConstants, Init
  PROVE  IInv
<1>1. Columns(<< >>) BY DEF Columns
<1>2. \A r \in Editors : req[r].w = << >> /\ req[r].t = None BY DEF Init, Idle
<1>3. TypeOK BY <1>1, <1>2 DEF Init, TypeOK
<1>4. \A r \in Editors : Adds(r) BY <1>2 DEF Adds
<1> QED BY <1>3, <1>4 DEF Init, IInv

(* A step that changes one title the sweeper has not locked.               *)
LEMMA RowStep ==
  ASSUME IInv, NEW t \in Titles \ pass, NEW y \in Row \cup {None, Gone},
         row' = [row EXCEPT ![t] = y], UNCHANGED <<now, pass>>
  PROVE  row' \in [Titles -> Row \cup {None, Gone}] /\ pass' \subseteq Due(Swept)'
<1>1. row \in [Titles -> Row \cup {None, Gone}] /\ pass \subseteq Titles BY DEF IInv, TypeOK
<1>2. \A u \in pass : row'[u] = row[u] BY <1>1
<1> QED BY <1>1, <1>2 DEF IInv, Due, Exists

(* A title that is not there is not locked, one that is has a row.         *)
LEMMA RowOf ==
  ASSUME TitlesConstants, IInv, NEW t \in Titles
  PROVE  /\ row[t] = None => t \notin pass
         /\ Exists(t) => row[t] \in Row
  BY DEF IInv, TypeOK, Due, Exists

LEMMA CreateInv ==
  ASSUME TitlesConstants, IInv, NEW t \in Titles, Draft(t) \/ Upload(t)
  PROVE  IInv'
<1>1. \A st \in Statuses, at \in 0..MaxTime, poster \in BOOLEAN, job \in BOOLEAN :
        Fresh(st, at, poster, job) \in Row
  BY DEF Fresh, Row, TitlesConstants
<1>2. \A x \in Row, b \in BOOLEAN : [x EXCEPT !.live = b] \in Row BY DEF Row
<1>3. PICK y \in Row : row' = [row EXCEPT ![t] = y]
  <2>1. CASE Draft(t)
    <3>1. PICK st \in Statuses, at \in 0..MaxTime :
            row' = [row EXCEPT ![t] =
              Normal(Fresh(IF st = "published" THEN "draft" ELSE st, at, FALSE, FALSE))]
      BY <2>1 DEF Draft
    <3>2. (IF st = "published" THEN "draft" ELSE st) \in Statuses BY DEF Statuses
    <3> QED BY <1>1, <3>1, <3>2, NormalIs
  <2>2. CASE Upload(t)
    <3>1. PICK st \in Statuses, at \in 0..MaxTime, poster \in BOOLEAN :
            row' = [row EXCEPT ![t] =
              IF t \in Movies THEN Normal(Fresh(st, at, poster, TRUE))
              ELSE [Fresh(st, at, poster, TRUE) EXCEPT !.live = st = "published"]]
      BY <2>2 DEF Upload
    <3> QED BY <1>1, <1>2, <3>1, NormalIs
  <2> QED BY <2>1, <2>2
<1>4. row[t] = None /\ UNCHANGED <<now, pass, req>> BY DEF Draft, Upload
<1>5. row' \in [Titles -> Row \cup {None, Gone}] /\ pass' \subseteq Due(Swept)'
  BY <1>3, <1>4, RowOf, RowStep
<1> QED BY <1>4, <1>5 DEF IInv, TypeOK, Adds

(* What a request will write is what it changes of the row it loaded.      *)
LEMMA TakeInv ==
  ASSUME TitlesConstants, IInv, NEW r \in Editors, NEW t \in Titles, NEW y \in Row,
         NEW draft \in BOOLEAN, Take(r, t, y, draft),
         t \in Serials \/ y.poster = row[t].poster \/ y.poster = TRUE
  PROVE  IInv'
<1>1. row[t] \in Row BY RowOf DEF Take
<1>2. req' = [req EXCEPT ![r] = [t |-> t, w |-> Differences(row[t], y), draft |-> draft]]
      /\ UNCHANGED <<row, now, pass>>
  BY DEF Take
<1>3. /\ req' = [s \in Editors |-> req'[s]]
      /\ req'[r].t = t /\ req'[r].w = Differences(row[t], y)
      /\ \A s \in Editors \ {r} : req'[s] = req[s]
  BY <1>2 DEF IInv, TypeOK
<1>4. TypeOK' BY <1>1, <1>2, <1>3, DifferencesAre DEF IInv, TypeOK
<1>5. Adds(r)'
  <2>1. \A f \in DOMAIN Differences(row[t], y) :
          row[t][f] # y[f] /\ Differences(row[t], y)[f] = y[f]
    BY <1>1, DifferencesAre
  <2> QED BY <1>1, <1>3, <2>1 DEF Adds, Row
<1>6. \A s \in Editors : Adds(s)' BY <1>3, <1>5 DEF IInv, Adds
<1> QED BY <1>2, <1>4, <1>6 DEF IInv, Due, Exists

LEMMA PatchInv ==
  ASSUME TitlesConstants, IInv, NEW r \in Editors, NEW t \in Titles, Patch(r, t)
  PROVE  IInv'
<1>1. PICK st \in Statuses \cup {None}, pub \in BOOLEAN \cup {None}, at \in (0..MaxTime) \cup {None} :
        Exists(t) /\ Take(r, t, Patched(t, row[t], st, pub, at), st = "draft")
  BY DEF Patch
<1>2. row[t] \in Row BY <1>1, RowOf
<1>3. at \in Nat \cup {None} BY DEF TitlesConstants
<1>4. Patched(t, row[t], st, pub, at) \in Row /\ Patched(t, row[t], st, pub, at).poster = row[t].poster
  BY <1>2, <1>3, PatchedIs
<1> QED BY <1>1, <1>4, TakeInv

LEMMA AssetsInv ==
  ASSUME TitlesConstants, IInv, NEW r \in Editors, NEW t \in Titles, Assets(r, t)
  PROVE  IInv'
<1>1. row[t] \in Row BY RowOf DEF Assets
<1>2. /\ \A b \in BOOLEAN : [row[t] EXCEPT !.poster = b] \in Row
      /\ [row[t] EXCEPT !.poster = TRUE].poster = TRUE
  BY <1>1 DEF Row
<1>3. LET y == [row[t] EXCEPT !.media = FALSE, !.job = TRUE] IN y \in Row /\ y.poster = row[t].poster
  BY <1>1 DEF Row
<1>4. LET y == [row[t] EXCEPT !.media = TRUE] IN y \in Row /\ y.poster = row[t].poster
  BY <1>1 DEF Row
<1> QED BY <1>2, <1>3, <1>4, TakeInv DEF Assets

LEMMA WriteInv ==
  ASSUME TitlesConstants, IInv, NEW r \in Editors, Write(r)
  PROVE  IInv'
<1> DEFINE t == req[r].t
<1>1. t \in Titles \ pass /\ Columns(req[r].w) BY DEF Write, Locked, IInv, TypeOK
<1>2. row \in [Titles -> Row \cup {None, Gone}] BY DEF IInv, TypeOK
<1>3. PICK y \in Row \cup {None, Gone} : row' = [row EXCEPT ![t] = y]
  BY <1>1, <1>2, RowOf, UpdatedIs DEF Write
<1>4. req' = [req EXCEPT ![r] = Idle] /\ UNCHANGED <<now, pass>> BY DEF Write
<1>5. row' \in [Titles -> Row \cup {None, Gone}] /\ pass' \subseteq Due(Swept)'
  BY <1>1, <1>3, <1>4, RowStep
<1>6. /\ req' = [s \in Editors |-> req'[s]]
      /\ req'[r].t = None /\ req'[r].w = << >>
      /\ \A s \in Editors \ {r} : req'[s] = req[s]
  BY <1>4 DEF IInv, TypeOK, Idle
<1>7. Columns(<< >>) BY DEF Columns
<1>8. TypeOK' BY <1>4, <1>5, <1>6, <1>7 DEF IInv, TypeOK
<1>9. \A s \in Editors : Adds(s)' BY <1>6 DEF IInv, Adds
<1> QED BY <1>5, <1>8, <1>9 DEF IInv

LEMMA DeleteInv ==
  ASSUME TitlesConstants, IInv, NEW t \in Titles, Delete(t)
  PROVE  IInv'
<1>1. PICK with \in SUBSET Titles :
        /\ with \cap pass = {}
        /\ row' = [x \in Titles |-> IF x \in with THEN Gone ELSE row[x]]
        /\ UNCHANGED <<now, pass, req>>
  BY DEF Delete, Locked, Titles
<1>2. row' \in [Titles -> Row \cup {None, Gone}] BY <1>1 DEF IInv, TypeOK
<1>3. \A u \in pass : row'[u] = row[u] BY <1>1 DEF IInv, TypeOK
<1>4. pass' \subseteq Due(Swept)' BY <1>1, <1>3 DEF IInv, Due, Exists
<1> QED BY <1>1, <1>2, <1>4 DEF IInv, TypeOK, Adds

LEMMA TranscodeInv ==
  ASSUME TitlesConstants, IInv, NEW t \in Titles, Transcode(t)
  PROVE  IInv'
<1>1. row[t] \in Row /\ t \notin pass BY RowOf DEF Transcode, Locked
<1>2. row' = [row EXCEPT ![t] = [row[t] EXCEPT !.media = ~@]] /\ UNCHANGED <<now, pass, req>>
  BY DEF Transcode
<1>3. [row[t] EXCEPT !.media = ~@] \in Row BY <1>1 DEF Row
<1>4. row' \in [Titles -> Row \cup {None, Gone}] /\ pass' \subseteq Due(Swept)'
  BY <1>1, <1>2, <1>3, RowStep
<1> QED BY <1>2, <1>4 DEF IInv, TypeOK, Adds

(* The sweeper locks what is due, and releases it.                         *)
LEMMA SweepInv ==
  ASSUME TitlesConstants, IInv, SweepRead(Movies) \/ SweepRead(Serials) \/ SweepCommit
  PROVE  IInv'
<1>1. CASE SweepRead(Movies) \/ SweepRead(Serials)
  <2>1. PICK p \in SUBSET Due(Swept) : pass' = p /\ UNCHANGED <<row, now, req>>
    BY <1>1 DEF SweepRead, Due, Swept
  <2>2. pass' \in SUBSET Titles BY <2>1 DEF Due, Swept, Titles
  <2> QED BY <2>1, <2>2 DEF IInv, TypeOK, Adds, Due, Exists
<1>2. CASE SweepCommit
  <2>1. row' = [t \in Titles |-> Released(t)] /\ pass' = {} /\ UNCHANGED <<now, req>>
    BY <1>2 DEF SweepCommit
  <2>2. \A t \in Titles : Released(t) \in Row \cup {None, Gone}
    BY RowOf DEF Released, IInv, TypeOK, Row, Statuses
  <2> QED BY <2>1, <2>2 DEF IInv, TypeOK, Adds
<1> QED BY <1>1, <1>2

(* IInv is inductive.                                                      *)
LEMMA NextInv ==
  ASSUME TitlesConstants, IInv, [Next]_vars
  PROVE  IInv'
<1>1. CASE UNCHANGED vars BY <1>1 DEF vars, IInv, TypeOK, Adds, Due, Exists
<1>2. CASE Tick BY <1>2 DEF Tick, IInv, TypeOK, Adds, Due, Exists
<1> QED BY <1>1, <1>2, SweepInv, CreateInv, DeleteInv, TranscodeInv, WriteInv, PatchInv, AssetsInv
  DEF Next

(* What the sweeper has locked is due until it commits.                    *)
LEMMA StepOnTime ==
  ASSUME IInv
  PROVE  OnTime
  BY DEF IInv, OnTime, Due

(* Nobody's save takes a poster away.                                      *)
LEMMA StepPosters ==
  ASSUME TitlesConstants, IInv, [Next]_vars
  PROVE  Posters
<1> SUFFICES ASSUME NEW u \in Titles \ Serials, Exists(u), row[u].poster, row'[u] # Gone
             PROVE  row'[u].poster
  BY DEF Posters
<1>0. row[u] \in Row /\ row \in [Titles -> Row \cup {None, Gone}] BY RowOf DEF IInv, TypeOK
<1>1. ASSUME NEW t \in Titles, Draft(t) \/ Upload(t) PROVE row'[u].poster
  <2>1. t # u BY <1>1 DEF Draft, Upload, Exists
  <2>2. row'[u] = row[u] BY <1>0, <1>1, <2>1 DEF Draft, Upload
  <2> QED BY <2>2
<1>2. ASSUME NEW r \in Editors, Write(r) PROVE row'[u].poster
  <2>1. row' = [row EXCEPT ![req[r].t] = IF Exists(req[r].t) THEN Updated(@, req[r].w) ELSE @]
    BY <1>2 DEF Write
  <2>2. CASE req[r].t # u BY <1>0, <2>1, <2>2
  <2>3. CASE req[r].t = u
    <3>1. row'[u] = Updated(row[u], req[r].w) BY <1>0, <2>1, <2>3
    <3>2. "poster" \in DOMAIN req[r].w => req[r].w["poster"] = TRUE BY <2>3 DEF IInv, Adds
    <3>3. Columns(req[r].w) BY DEF IInv, TypeOK
    <3> QED BY <1>0, <3>1, <3>2, <3>3, UpdatedIs
  <2> QED BY <2>2, <2>3
<1>3. ASSUME NEW t \in Titles, Delete(t) PROVE row'[u].poster
  <2>1. row'[u] = row[u] BY <1>3 DEF Delete
  <2> QED BY <2>1
<1>4. ASSUME NEW t \in Titles, Transcode(t) PROVE row'[u].poster
  BY <1>0, <1>4 DEF Transcode, Row
<1>5. CASE SweepCommit
  <2>1. row'[u] = Released(u) BY <1>5 DEF SweepCommit
  <2> QED BY <1>0, <2>1 DEF Released, Row
<1>6. CASE UNCHANGED row BY <1>6
<1> QED BY <1>1, <1>2, <1>3, <1>4, <1>5, <1>6 DEF Next, vars, Tick, SweepRead, Patch, Assets, Take

(* No save takes back a poster that arrived while it was being made        *)
(* (update_movie, update_episode, update_admin_podcast): a request writes  *)
(* only the columns that differ from the row it loaded.                    *)
THEOREM PosterSurvives == ASSUME TitlesConstants PROVE Spec => PosterKept
<1>1. Init => IInv BY InitInv
<1>2. IInv /\ [Next]_vars => IInv' BY NextInv
<1>3. IInv /\ [Next]_vars => Posters BY StepPosters
<1> QED BY <1>1, <1>2, <1>3, PTL DEF Spec, PosterKept

(* What is released is due and unpublished at that moment                  *)
(* (sweep_due_scheduled_movies): the rows are locked from the read on.     *)
THEOREM SweepOnTime == ASSUME TitlesConstants PROVE Spec => ReleasedOnTime
<1>1. Init => IInv BY InitInv
<1>2. IInv /\ [Next]_vars => IInv' BY NextInv
<1>3. IInv => OnTime BY StepOnTime
<1> QED BY <1>1, <1>2, <1>3, PTL DEF Spec, ReleasedOnTime
=============================================================================
