------------------------------- MODULE Titles -------------------------------
(***************************************************************************)
(* The life of a title: uploads and drafts create it, editors PATCH the    *)
(* row they loaded without a lock (SQLAlchemy writes the columns that      *)
(* differ from what was loaded), files arrive, a worker transcodes them,   *)
(* and a sweeper releases what is scheduled and due.                       *)
(*   app/routers/{movies,series}.py, app/routers/admin/{movies,podcasts}.py*)
(*   app/services/{content_publish,series_publish,publish_sweeper}.py      *)
(***************************************************************************)
EXTENDS Naturals, FiniteSets

CONSTANTS Movies, Serials, Episodes, Podcasts,
          Editors,      \* concurrent requests of administrators
          Limit,        \* rows one pass of the sweeper takes (25)
          MaxTime, None, Gone

Titles == Movies \cup Serials \cup Episodes \cup Podcasts
Swept == Movies \cup Serials

VARIABLES
  row,    \* a record once it exists, Gone after its deletion; a series' episodes are Episodes
  now,
  pass,   \* what the sweeper's transaction locked and has not committed
  req     \* the title a request loaded, the columns it will write, and whether it asks for a draft

vars == <<row, now, pass, req>>

(* "review" behaves as "draft".  at: publish_at, 0 for NULL.  media: there *)
(* is a stream, or audio, or a transcode under way.  job: a TranscodeJob.  *)
Statuses == {"draft", "scheduled", "published"}
Idle == [t |-> None, w |-> << >>, draft |-> FALSE]
Exists(t) == row[t] \notin {None, Gone}

Init ==
  /\ row = [t \in Titles |-> None] /\ now = 0
  /\ pass = {} /\ req = [r \in Editors |-> Idle]

-----------------------------------------------------------------------------
Ready(t, x) ==
  CASE t \in Movies -> x.poster /\ (x.media \/ x.job)
    [] t \in Serials -> x.poster
    [] t \in Podcasts -> x.poster /\ x.media
    [] OTHER -> TRUE

(* apply_{movie,series}_publish_state: status decides the other two.       *)
Normal(x) ==
  CASE x.status = "published" -> [x EXCEPT !.live = TRUE, !.at = 0]
    [] x.status = "scheduled" -> [x EXCEPT !.live = FALSE]
    [] OTHER -> [x EXCEPT !.live = FALSE, !.at = 0]

(* The row a PATCH makes of the one it loaded; None: the field is not in   *)
(* the body.  A series takes is_published for an old form of status, an    *)
(* episode and a podcast derive it from status, a movie takes it as it is. *)
Patched(t, x, st, pub, at) ==
  LET given == [x EXCEPT !.status = IF st = None THEN @ ELSE st,
                         !.at = IF at = None THEN @ ELSE at]
      flag == IF pub = None THEN x.live ELSE pub
  IN
  CASE t \in Swept /\ (st # None \/ at # None) -> Normal(given)
    [] t \in Serials /\ st = None /\ at = None /\ pub # None ->
         Normal([x EXCEPT !.status = IF pub THEN "published" ELSE "draft"])
    [] t \in Episodes /\ pub # None -> [given EXCEPT !.live = pub]
    [] st # None /\ (t \in Podcasts \/ (t \in Episodes /\ pub = None)) ->
         [given EXCEPT !.live = st = "published"]
    [] OTHER -> [given EXCEPT !.live = flag]

Valid(t, x) ==
  /\ t \in Swept => ~(x.status = "scheduled" /\ x.at = 0)
  /\ x.status = "published" => Ready(t, x)

(* Mutant: the whole loaded row is written back.                           *)
Everything(x, y) == y

Differences(x, y) == [f \in {g \in DOMAIN x : x[g] # y[g]} |-> y[f]]

Updated(x, w) == [f \in DOMAIN x |-> IF f \in DOMAIN w THEN w[f] ELSE x[f]]

-----------------------------------------------------------------------------
Fresh(st, at, poster, job) ==
  [status |-> st, live |-> FALSE, at |-> at, poster |-> poster, media |-> FALSE, job |-> job]

(* Create a record without files; a series asked to be published is made a *)
(* draft.                                                                  *)
Draft(t) ==
  /\ row[t] = None /\ t \notin Episodes
  /\ \E st \in Statuses, at \in 0..MaxTime :
       /\ IF t \in Serials THEN ~(st = "scheduled" /\ at = 0) ELSE st = "draft" /\ at = 0
       /\ row' = [row EXCEPT ![t] =
            Normal(Fresh(IF st = "published" THEN "draft" ELSE st, at, FALSE, FALSE))]
  /\ UNCHANGED <<now, pass, req>>

(* A finished multipart upload creates the movie or the episode with its   *)
(* job.                                                                    *)
Upload(t) ==
  /\ row[t] = None /\ t \in Movies \cup Episodes
  /\ \E st \in Statuses, at \in 0..MaxTime, poster \in BOOLEAN :
       LET x == Fresh(st, at, poster, TRUE) IN
       /\ t \in Movies => Valid(t, x)
       /\ t \in Episodes => at = 0 /\ \E s \in Serials : Exists(s)
       /\ row' = [row EXCEPT ![t] =
            IF t \in Movies THEN Normal(x) ELSE [x EXCEPT !.live = st = "published"]]
  /\ UNCHANGED <<now, pass, req>>

(* Mutant: the sweeper reads without a lock.                               *)
Unlocked == {}

Locked == pass

Take(r, t, y, draft) ==
  /\ req[r].t = None /\ Exists(t)
  /\ req' = [req EXCEPT ![r] = [t |-> t, w |-> Differences(row[t], y), draft |-> draft]]
  /\ UNCHANGED <<row, now, pass>>

Patch(r, t) ==
  \E st \in Statuses \cup {None}, pub \in BOOLEAN \cup {None}, at \in (0..MaxTime) \cup {None} :
    LET y == Patched(t, row[t], st, pub, at) IN
    /\ Exists(t) /\ Valid(t, y)
    /\ Take(r, t, y, st = "draft")

(* A replaced video loses its stream and gets a job, audio is ready as it  *)
(* is.  A series takes its artwork, or NULL, with PATCH.                   *)
Assets(r, t) ==
  LET x == row[t] IN
  /\ Exists(t)
  /\ \/ Take(r, t, [x EXCEPT !.poster = TRUE], FALSE)
     \/ t \in Movies \cup Episodes /\ Take(r, t, [x EXCEPT !.media = FALSE, !.job = TRUE], FALSE)
     \/ t \in Podcasts /\ Take(r, t, [x EXCEPT !.media = TRUE], FALSE)
     \/ /\ t \in Serials /\ Valid(t, [x EXCEPT !.poster = FALSE])
        /\ Take(r, t, [x EXCEPT !.poster = FALSE], FALSE)

(* The UPDATE waits for the sweeper's lock, and fails if the row is gone.  *)
Write(r) ==
  LET t == req[r].t IN
  /\ t # None /\ t \notin Locked
  /\ row' = [row EXCEPT ![t] = IF Exists(t) THEN Updated(@, req[r].w) ELSE @]
  /\ req' = [req EXCEPT ![r] = Idle]
  /\ UNCHANGED <<now, pass>>

(* Everything that references the title goes with it, a series takes its   *)
(* episodes along.                                                         *)
Delete(t) ==
  LET with == IF t \in Serials THEN {t} \cup {e \in Episodes : Exists(e)} ELSE {t} IN
  /\ Exists(t) /\ with \cap Locked = {}
  /\ row' = [x \in Titles |-> IF x \in with THEN Gone ELSE row[x]]
  /\ UNCHANGED <<now, pass, req>>

(* The worker (or a retry from the dashboard) moves a job.                 *)
Transcode(t) ==
  /\ Exists(t) /\ t \notin Locked
  /\ row[t].job /\ row' = [row EXCEPT ![t].media = ~@]
  /\ UNCHANGED <<now, pass, req>>

(* One pass: due rows, oldest first, locked (FOR UPDATE SKIP LOCKED); then *)
(* those that are ready are released.                                      *)
Due(ts) == {t \in ts : Exists(t) /\ ~row[t].live /\ row[t].at \in 1..now}

SweepRead(ts) ==
  /\ pass = {} /\ Due(ts) # {}
  /\ \E p \in SUBSET Due(ts) :
       /\ Cardinality(p) = IF Cardinality(Due(ts)) < Limit THEN Cardinality(Due(ts)) ELSE Limit
       /\ \A t \in p, u \in Due(ts) \ p : row[t].at <= row[u].at
       /\ pass' = p
  /\ UNCHANGED <<row, now, req>>

Released(t) ==
  IF t \in pass /\ Exists(t) /\ Ready(t, row[t])
    THEN [row[t] EXCEPT !.status = "published", !.live = TRUE, !.at = 0]
    ELSE row[t]

SweepCommit ==
  /\ pass # {}
  /\ row' = [t \in Titles |-> Released(t)]
  /\ pass' = {}
  /\ UNCHANGED <<now, req>>

Tick == now < MaxTime /\ now' = now + 1 /\ UNCHANGED <<row, pass, req>>

Next ==
  \/ Tick \/ SweepRead(Movies) \/ SweepRead(Serials) \/ SweepCommit
  \/ \E t \in Titles : Draft(t) \/ Upload(t) \/ Delete(t) \/ Transcode(t)
  \/ \E r \in Editors : Write(r) \/ \E t \in Titles : Patch(r, t) \/ Assets(r, t)

Spec == Init /\ [][Next]_vars
-----------------------------------------------------------------------------
(* A poster, once uploaded, is never lost to the save of another request   *)
(* that loaded the row before it arrived (update_movie, update_episode,    *)
(* update_admin_podcast, complete_*_asset_upload).                         *)
Posters == \A t \in Titles \ Serials :
  Exists(t) /\ row[t].poster /\ row'[t] # Gone => row'[t].poster
PosterKept == [][Posters]_vars

(* What the sweeper releases is, at that moment, still unpublished and     *)
(* due: an editor who cancelled or moved the schedule in time is never     *)
(* overruled (sweep_due_scheduled_movies, sweep_due_scheduled_series).     *)
OnTime ==
  SweepCommit => \A t \in pass :
    Exists(t) /\ ~row[t].live /\ row[t].at \in 1..now
ReleasedOnTime == [][OnTime]_vars

(* The documented claim below does not hold: the release between an        *)
(* editor's load and write makes "is_published = FALSE" no difference.     *)

(* "draft / review -> unpublished" (content_publish.py:49)                 *)
Hides == \A r \in Editors :
  LET t == req[r].t IN Write(r) /\ req[r].draft /\ Exists(t) => ~row'[t].live
DraftIsHidden == [][Hides]_vars
=============================================================================
