------------------------------ MODULE Comments ------------------------------
(***************************************************************************)
(* What people leave on one published movie: comments, votes, reports,     *)
(* blocks, stars, favourites and progress; and the deletion of an account, *)
(* which takes it all back (app/services/comments.py, account.py,          *)
(* app/catalog/ratings.py, app/routers/favorites.py, watch_progress.py).   *)
(* A request checks first and commits later, on what it loaded, and a      *)
(* rating commits twice.                                                   *)
(***************************************************************************)
EXTENDS Integers, FiniteSets

CONSTANTS
  Requests, People, Comments,
  MaxDepth,    \* MAX_REPLY_DEPTH
  Values,      \* stars given
  Kinds,       \* of personal rows: "favorite", "progress", "vote", "report"
  Edits,       \* ratings an admin sets, None for NULL
  None

VARIABLES
  active,   \* users.is_active; a deleted account is emptied as well
  comment,  \* rows of comments; absent ones have no author
  blocks,   \* user_blocks: <<blocker, blocked>>
  kept,     \* personal rows: <<person, kind>>
  stars,    \* ratings.value, per person
  shown,    \* content.rating in tenths, None for NULL
  req,      \* what each request is doing
  loose,    \* history: personal rows written while the account was deleted
  right     \* history: the ratings that were right since the first of those now
            \* rating came: averages, what an admin set, what a failure left

rows == <<comment, blocks, kept, stars, shown>>
vars == <<active, rows, req, loose, right>>

Absent == [by |-> None, parent |-> None, text |-> "none", deleted |-> FALSE, loose |-> FALSE]
Idle == [op |-> "idle", p |-> None, c |-> None, ids |-> {}, new |-> {}, barred |-> {},
         value |-> None, sole |-> FALSE]

Init ==
  /\ active = [p \in People |-> TRUE]
  /\ comment = [c \in Comments |-> Absent]
  /\ blocks = {} /\ kept = {} /\ loose = {}
  /\ stars = [p \in People |-> None] /\ shown \in Edits \cup {None}
  /\ req = [r \in Requests |-> Idle]
  /\ right = {shown}

Exists(c) == comment[c].by # None
Live(c)   == Exists(c) /\ ~comment[c].deleted
New == CHOOSE c \in Comments : ~Exists(c)   \* a fresh key; which one is all the same
Set(r, rec) == req' = [req EXCEPT ![r] = rec]
Start(r, rec) == req[r] = Idle /\ Set(r, rec)
-----------------------------------------------------------------------------
(* Mutant: a deleted comment is found like any other.                      *)
FoundAny(c) == Exists(c)

(* get_comment_or_404                                                      *)
Found(c) == Live(c)

(* _comment_depth, which fails on a deleted ancestor.                      *)
Depth(c) ==
  LET d[x \in Comments] == IF comment[x].parent = None THEN 0 ELSE 1 + d[comment[x].parent]
  IN d[c]
Rooted(c) ==
  LET ok[x \in Comments] == Live(x) /\ (comment[x].parent # None => ok[comment[x].parent])
  IN ok[c]

(* create_comment: validate_parent_comment, then the insert.               *)
StartComment(r, p, parent) ==
  /\ active[p]
  /\ parent # None => Found(parent) /\ Rooted(parent) /\ Depth(parent) < MaxDepth
  /\ Start(r, [Idle EXCEPT !.op = "create", !.p = p, !.c = parent])
  /\ UNCHANGED <<active, rows, loose, right>>

Insert(r, c) ==
  /\ req[r].op = "create" /\ ~Exists(c) /\ c = New
  /\ comment' = [comment EXCEPT ![c] = [by |-> req[r].p, parent |-> req[r].c,
                   text |-> "own", deleted |-> FALSE, loose |-> ~active[req[r].p]]]
  /\ Set(r, Idle)
  /\ UNCHANGED <<active, blocks, kept, stars, shown, loose, right>>

(* update_admin_comment, delete_admin_comment: the row is not loaded again.*)
StartAdmin(r, c, op) ==
  /\ Found(c)
  /\ Start(r, [Idle EXCEPT !.op = op, !.c = c, !.sole = ~active[comment[c].by]])
  /\ UNCHANGED <<active, rows, loose, right>>

EditCommit(r) ==
  LET c == req[r].c IN
  /\ req[r].op = "edit"
  /\ comment' = [comment EXCEPT ![c].text = "edited",
                   ![c].loose = @ \/ (~active[comment[c].by] /\ ~req[r].sole)]
  /\ Set(r, Idle)
  /\ UNCHANGED <<active, blocks, kept, stars, shown, loose, right>>

HideCommit(r) ==
  /\ req[r].op = "hide"
  /\ comment' = [comment EXCEPT ![req[r].c].deleted = TRUE]
  /\ Set(r, Idle)
  /\ UNCHANGED <<active, blocks, kept, stars, shown, loose, right>>

(* block_user                                                              *)
Block(p, c) ==
  /\ active[p] /\ Found(c) /\ comment[c].by # p
  /\ blocks' = blocks \cup {<<p, comment[c].by>>}
  /\ UNCHANGED <<active, comment, kept, stars, shown, req, loose, right>>

(* Personal rows: what is checked differs, the write is the same.          *)
StartRow(r, p, kind) ==
  /\ active[p]
  /\ Start(r, [Idle EXCEPT !.op = kind, !.p = p])
  /\ UNCHANGED <<active, rows, loose, right>>
StartFavorite(r, p) == StartRow(r, p, "favorite")
StartProgress(r, p) == StartRow(r, p, "progress")
StartVote(r, p)   == (\E c \in Comments : Found(c)) /\ StartRow(r, p, "vote")
StartReport(r, p) ==
  (\E c \in Comments : Found(c)) /\ <<p, "report">> \notin kept /\ StartRow(r, p, "report")

RowCommit(r) ==
  LET row == <<req[r].p, req[r].op>> IN
  /\ req[r].op \in Kinds
  /\ kept' = kept \cup {row}
  /\ loose' = IF active[req[r].p] THEN loose ELSE loose \cup {row}
  /\ Set(r, Idle)
  /\ UNCHANGED <<active, comment, blocks, stars, shown, right>>

(* A vote of 0, a favourite removed.                                       *)
RemoveRow(p, kind) ==
  /\ active[p] /\ kind \in {"favorite", "vote"} /\ <<p, kind>> \in kept
  /\ kept' = kept \ {<<p, kind>>}
  /\ UNCHANGED <<active, comment, blocks, stars, shown, req, loose, right>>
-----------------------------------------------------------------------------
(* list_comment_threads: a query for the people the reader has blocked, one*)
(* for the roots, one per level of replies, one for the rows.              *)
Mine(p) == {x \in People : <<p, x>> \in blocks}

(* Mutant: the reader's blocks are left out of the filter.                 *)
VisibleToAll(r, c) == Live(c)

Visible(r, c) == Live(c) /\ comment[c].by \notin req[r].value

StartList(r, p) ==
  /\ active[p]
  /\ Start(r, [Idle EXCEPT !.op = "roots", !.p = p, !.value = Mine(p),
                !.barred = {c \in Comments : Exists(c) /\ (~Live(c) \/ comment[c].by \in Mine(p))}])
  /\ UNCHANGED <<active, rows, loose, right>>

Roots(r) ==
  LET roots == {c \in Comments : Visible(r, c) /\ comment[c].parent = None} IN
  /\ req[r].op = "roots"
  /\ Set(r, [req[r] EXCEPT !.op = "levels", !.ids = roots, !.new = roots])
  /\ UNCHANGED <<active, rows, loose, right>>

Level(r) ==
  LET below == {c \in Comments : Visible(r, c) /\ comment[c].parent \in req[r].new} \ req[r].ids IN
  /\ req[r].op = "levels" /\ req[r].new # {}
  /\ Set(r, [req[r] EXCEPT !.ids = @ \cup below, !.new = below])
  /\ UNCHANGED <<active, rows, loose, right>>

(* build_comment_threads: a reply hangs below a parent that is listed. As  *)
(* replies form trees, this is the largest such set.                       *)
Threads(found) ==
  UNION {S \in SUBSET found : \A c \in S : comment[c].parent # None => comment[c].parent \in S}

Listed(r) == Threads({c \in req[r].ids : Visible(r, c)})

Answer(r) ==
  /\ req[r].op = "levels" /\ req[r].new = {}
  /\ Set(r, Idle)
  /\ UNCHANGED <<active, rows, loose, right>>
-----------------------------------------------------------------------------
Given(st) == {p \in People : st[p] # None}

(* One piece per star: their number is the sum of the stars.               *)
Pieces(st) == {piece \in Given(st) \X (1 .. 5) : piece[2] <= st[piece[1]]}

(* The tenths that stars average to; none without stars.                   *)
Averages(st) ==
  LET n == Cardinality(Given(st))
      sum == Cardinality(Pieces(st))
  IN {x \in 0 .. 100 : n > 0 /\ 2 * n * x <= 40 * sum + n /\ 40 * sum + n < 2 * n * (x + 1)}

Writers == {r \in Requests : req[r].op \in {"rate", "average", "write"}}

(* upsert_rating: the movie is loaded with its average of the moment,      *)
StartRate(r, p, v) ==
  /\ active[p]
  /\ Start(r, [Idle EXCEPT !.op = "rate", !.p = p, !.c = v, !.value = shown])
  /\ right' = IF Writers = {} THEN {} ELSE right
  /\ UNCHANGED <<active, rows, loose>>

(* the stars are committed,                                                *)
RateCommit(r) ==
  LET p == req[r].p IN
  /\ req[r].op = "rate"
  /\ stars' = [stars EXCEPT ![p] = req[r].c] /\ right' = right \cup Averages(stars')
  /\ loose' = IF active[p] THEN loose ELSE loose \cup {<<p, "stars">>}
  /\ Set(r, [req[r] EXCEPT !.op = "average"])
  /\ UNCHANGED <<active, comment, blocks, kept, shown>>

(* Twice the average, rounded half up to a tenth.                          *)
Tenths(st) ==
  LET n == Cardinality(Given(st)) IN (40 * Cardinality(Pieces(st)) + n) \div (2 * n)

(* Mutant: the average is taken for granted once there is one.             *)
FirstAverage(r) ==
  IF req[r].value # None \/ Given(stars) = {} THEN req[r].value ELSE Tenths(stars)

NewAverage(r) == IF Given(stars) = {} THEN req[r].value ELSE Tenths(stars)

(* and the average is read, and written if it differs from the one loaded. *)
ReadAverage(r) ==
  /\ req[r].op = "average"
  /\ Set(r, [req[r] EXCEPT !.op = "write", !.c = NewAverage(r)])
  /\ right' = IF Given(stars) = {} THEN right \cup {shown} ELSE right
  /\ UNCHANGED <<active, rows, loose>>

Changed(r) == IF req[r].c = req[r].value THEN shown ELSE req[r].c

WriteAverage(r) ==
  /\ req[r].op = "write"
  /\ shown' = Changed(r)
  /\ Set(r, Idle)
  /\ UNCHANGED <<active, comment, blocks, kept, stars, loose, right>>

(* An error, or the end of the process, on the way: the star may be there  *)
(* already, and the average stays as it is.                                *)
Fail(r) ==
  /\ r \in Writers
  /\ Set(r, Idle) /\ right' = right \cup {shown}
  /\ UNCHANGED <<active, rows, loose>>

(* update_movie, update_admin_movie: the rating is a field like another.   *)
StartPatch(r, v) ==
  /\ Start(r, [Idle EXCEPT !.op = "patch", !.c = v, !.value = shown])
  /\ UNCHANGED <<active, rows, loose, right>>

PatchCommit(r) ==
  /\ req[r].op = "patch"
  /\ shown' = Changed(r)
  /\ right' = IF req[r].c = req[r].value THEN right ELSE right \cup {shown'}
  /\ Set(r, Idle)
  /\ UNCHANGED <<active, comment, blocks, kept, stars, loose>>
-----------------------------------------------------------------------------
(* delete_user_account: the comments it sees are blanked, the personal     *)
(* rows deleted, and the account emptied, in one transaction.  The rating  *)
(* shown is left as it is.                                                 *)
StartErase(r, p) ==
  /\ active[p]
  /\ Start(r, [Idle EXCEPT !.op = "erase", !.p = p, !.ids = {c \in Comments : comment[c].by = p},
                !.new = {row \in kept : row[1] = p}, !.value = stars[p]])
  /\ UNCHANGED <<active, rows, loose, right>>

EraseCommit(r) ==
  LET p == req[r].p
      seen == req[r].value # None IN
  /\ req[r].op = "erase"
  /\ active' = [active EXCEPT ![p] = FALSE]
  /\ comment' = [c \in Comments |->
       IF c \in req[r].ids THEN [comment[c] EXCEPT !.text = "blank", !.deleted = TRUE]
       ELSE IF comment[c].by = p THEN [comment[c] EXCEPT !.loose = TRUE] ELSE comment[c]]
  /\ kept' = kept \ req[r].new
  /\ loose' = loose \cup {row \in kept \ req[r].new : row[1] = p}
                    \cup (IF seen THEN {} ELSE {<<p, "stars">>})
  /\ blocks' = {b \in blocks : p \notin {b[1], b[2]}}
  /\ stars' = [stars EXCEPT ![p] = IF seen THEN None ELSE @]
  /\ right' = IF Writers = {} THEN right ELSE right \cup Averages(stars')
  /\ Set(r, Idle) /\ UNCHANGED shown

Next ==
  \E r \in Requests :
    \/ \E c \in Comments :
         \/ Insert(r, c) \/ \E op \in {"edit", "hide"} : StartAdmin(r, c, op)
    \/ \E p \in People :
         \/ StartList(r, p) \/ StartErase(r, p)
         \/ \E parent \in Comments \cup {None} : StartComment(r, p, parent)
         \/ \E v \in Values : StartRate(r, p, v)
         \/ "favorite" \in Kinds /\ StartFavorite(r, p)
         \/ "progress" \in Kinds /\ StartProgress(r, p)
         \/ "vote" \in Kinds /\ StartVote(r, p)
         \/ "report" \in Kinds /\ StartReport(r, p)
         \/ \E kind \in Kinds : RemoveRow(p, kind)
         \/ \E c \in Comments : Block(p, c)
    \/ EditCommit(r) \/ HideCommit(r) \/ RowCommit(r)
    \/ Roots(r) \/ Level(r) \/ Answer(r)
    \/ \E v \in Edits : StartPatch(r, v)
    \/ RateCommit(r) \/ ReadAverage(r) \/ WriteAverage(r) \/ Fail(r) \/ PatchCommit(r)
    \/ EraseCommit(r)

Spec == Init /\ [][Next]_vars
-----------------------------------------------------------------------------
(* Once an account is deleted nothing of the person is left, and nobody    *)
(* brings a text back, but for the requests that were already under way    *)
(* when the deletion committed (delete_user_account, get_comment_or_404).  *)
DeletionErases ==
  \A p \in People : ~active[p] =>
    /\ \A c \in Comments : comment[c].by = p /\ ~comment[c].loose => comment[c].text = "blank"
    /\ \A row \in kept : row[1] = p => row \in loose
    /\ stars[p] # None => <<p, "stars">> \in loose

(* A list never shows what was deleted, or by a person the reader had      *)
(* blocked, when it began, nor a reply below such a comment, although its  *)
(* queries see different moments (fetch_thread_rows_for_roots,             *)
(* build_comment_threads).                                                 *)
NothingBelowHidden ==
  \A r \in Requests : req[r].op = "levels" /\ req[r].new = {} =>
    \A c \in Listed(r) : {c, comment[c].parent} \cap req[r].barred = {}

(* Once nobody is rating, the rating shown is what the stars came to, at a *)
(* moment since the first of those who rated last began, rounded to a      *)
(* tenth, or what an admin has set or a failure has left since; so when the*)
(* last person to rate had it to themselves, it is the average of the stars*)
(* they left (upsert_rating, _recompute_content_rating).                   *)
AverageShown == Writers = {} => shown \in right

-----------------------------------------------------------------------------
(* The inductive strengthening: what was blanked is deleted; an editor who *)
(* found the account of the author deleted found the comment of a request  *)
(* that was under way; what a reader may not see stays so.                 *)
Texts == {"none", "own", "edited", "blank"}
CommentType ==
  [by : People \cup {None}, parent : Comments \cup {None}, text : Texts, deleted : BOOLEAN,
   loose : BOOLEAN]
Reading == {"roots", "levels"}
Steps == {"idle", "create", "edit", "hide", "rate", "average", "write", "patch", "erase"}

(* What a field may hold differs from step to step: some set of values.    *)
ReqType(any) ==
  [op : Kinds \cup Reading \cup Steps, p : People \cup {None}, c : any, ids : any, new : any,
   barred : any, value : any, sole : BOOLEAN]

TypeOK ==
  /\ active \in [People -> BOOLEAN] /\ comment \in [Comments -> CommentType]
  /\ stars \in [People -> Values \cup {None}]
  /\ \E any : req \in [Requests -> ReqType(any)]

Draft(q) ==
  /\ q.op \in {"create", "erase"} \cup Kinds => q.p \in People
  /\ q.op = "create" => q.c \in Comments \cup {None}
  /\ q.op = "rate" => q.p \in People /\ q.c \in Values
  /\ q.op \in {"edit", "hide"} => q.c \in Comments /\ Exists(q.c)
  /\ q.op = "edit" /\ q.sole => comment[q.c].loose
  /\ q.op \in Reading =>
       /\ q.barred \subseteq Comments
       /\ \A c \in q.barred : Exists(c) /\ (comment[c].deleted \/ comment[c].by \in q.value)

IInv ==
  /\ TypeOK /\ DeletionErases
  /\ \A c \in Comments : comment[c].text = "blank" => comment[c].deleted
  /\ \A r \in Requests : Draft(req[r])

(* What a rating will write is right, and so is what is shown, unless all  *)
(* of those rating have loaded it.                                         *)
Rating(r) ==
  /\ req[r].op = "average" => Averages(stars) \subseteq right
  /\ req[r].op = "write" => req[r].c \in right \/ (req[r].c = req[r].value /\ shown \in right)

Averaging ==
  /\ \A r \in Requests : Rating(r)
  /\ shown \in right \/ (Writers # {} /\ \A r \in Writers : req[r].value = shown)

CommentsConstants ==
  /\ None \notin People /\ None \notin Comments
  /\ IsFiniteSet(People) /\ Values \subseteq 1 .. 5 /\ None \notin Values
  /\ Kinds \cap (Reading \cup Steps) = {}
=============================================================================
