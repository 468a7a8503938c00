------------------------------ MODULE Curation ------------------------------
(***************************************************************************)
(* The home page and the curated lists: administrators check a change with *)
(* some SELECTs and commit it later, nothing is locked in between, and the *)
(* database holds only the uniqueness of a row and the section it is in.   *)
(*   app/catalog/{home_sections,free_today,coming_soon,genre_rails,        *)
(*   hero_featured,promotion_banners}.py, their app/routers/admin routers, *)
(*   app/services/content_delete.py                                        *)
(***************************************************************************)
EXTENDS Naturals, FiniteSets

CONSTANTS
  Lists, TypeOf,     \* a section's type, or "table:..." for a list that is no section
  Cap,               \* SECTION_CAPS and the limits of the tables; None for a carousel
  Limits,            \* what an administrator may choose as a section's limit
  Genres,            \* names of genres, alike in all but their case
  Titles, Requests, None

VARIABLES
  there, visible, limit,   \* the sections: existence, is_visible, item_limit (None: default)
  genre,                   \* their genre_name
  rows,                    \* rows[l][x]: the sort order of title x on list l, None if it is not
  title,                   \* "published", "draft" or "gone"
  req                      \* a request between its check and its commit

vars == <<there, visible, limit, genre, rows, title, req>>

Sections  == {l \in Lists : TypeOf[l] \notin {"table:free", "table:soon", "table:genre", "carousel"}}
Free      == {l \in Sections : TypeOf[l] = "free_today"}
Deletable == {l \in Sections : TypeOf[l] \in {"genre", "custom"}}
Orders    == 0 .. Cardinality(Titles) - 1

(* clean: nothing else was committed on its list since the check; lost: a  *)
(* row it would write was deleted since.                                   *)
Idle == [op |-> "idle", l |-> None, x |-> None, n |-> 0, was |-> None, g |-> None,
         pos |-> << >>, writes |-> {}, clean |-> TRUE, lost |-> FALSE]
Unused(r) == req[r] = Idle

On(l)    == {x \in Titles : rows[l][x] # None}
CapOf(l) == IF limit[l] # None THEN limit[l] ELSE Cap[l]
Within(l) == CapOf(l) = None \/ Cardinality(On(l)) <= CapOf(l)

(* Other sections of l's type, of genre g if they are rails of genres.     *)
Twins(l, g) ==
  {k \in Sections \ {l} : /\ there[k] /\ TypeOf[k] = TypeOf[l] /\ TypeOf[l] # "custom"
                          /\ TypeOf[l] = "genre" => genre[k] = g}

Init ==
  /\ there = [l \in Lists |-> l \notin Sections]
  /\ visible = [l \in Lists |-> TRUE]
  /\ limit = [l \in Lists |-> None] /\ genre = [l \in Lists |-> None]
  /\ rows = [l \in Lists |-> [x \in Titles |-> None]]
  /\ title = [x \in Titles |-> "draft"]
  /\ req = [r \in Requests |-> Idle]

-----------------------------------------------------------------------------
(* A commit spoils what the requests `ops` on the lists ls have checked:   *)
(* an add counts rows against the limit, a limit counts rows, an order     *)
(* names all rows, a section looks for one like it.  The rows `dropped` can*)
(* no longer be written.                                                   *)
Overtaken(ops, ls, dropped) ==
  [r \in Requests |->
     IF req[r].op \in ops /\ req[r].l \in ls
       THEN [req[r] EXCEPT !.clean = FALSE,
               !.lost = @ \/ \E x \in req[r].writes : <<req[r].l, x>> \in dropped]
       ELSE req[r]]
After(r, ops, ls) == [Overtaken(ops, ls, {}) EXCEPT ![r] = Idle]
Counting == {"add", "limit", "order"}

(* Mutant: the last free place counts twice.                               *)
OneMore(l) == ~(CapOf(l) # None /\ Cardinality(On(l)) > CapOf(l))

Room(l) == ~(CapOf(l) # None /\ Cardinality(On(l)) >= CapOf(l))

(* validate_item_add, validate_free_today_add, ...                         *)
CheckAdd(r, l, x, n) ==
  /\ Unused(r) /\ there[l]
  /\ title[x] # "gone" /\ rows[l][x] = None /\ Room(l)
  /\ req' = [req EXCEPT ![r] = [Idle EXCEPT !.op = "add", !.l = l, !.x = x, !.n = n]]
  /\ UNCHANGED <<there, visible, limit, genre, rows, title>>

(* The unique row and the foreign key to the section are the database's.   *)
CommitAdd(r) ==
  LET q == req[r] IN
  /\ q.op = "add"
  /\ IF there[q.l] /\ rows[q.l][q.x] = None
       THEN rows' = [rows EXCEPT ![q.l][q.x] = q.n] /\ req' = After(r, Counting, {q.l})
       ELSE rows' = rows /\ req' = [req EXCEPT ![r] = Idle]
  /\ UNCHANGED <<there, visible, limit, genre, title>>

(* admin_update_home_section: validate_item_limit, n being a limit, or None*)
(* for the default; the rail of a genre may be renamed as well, which      *)
(* nothing checks.  Only what differs from the row loaded is written.      *)
CheckLimit(r, l, n, g) ==
  LET wanted == IF n = None THEN Cap[l] ELSE n IN
  /\ Unused(r) /\ l \in Sections /\ there[l]
  /\ g # None => TypeOf[l] = "genre"
  /\ Cardinality(On(l)) <= wanted
  /\ req' = [req EXCEPT ![r] = [Idle EXCEPT !.op = "limit", !.l = l, !.n = n, !.was = limit[l],
                                  !.g = IF g = genre[l] THEN None ELSE g]]
  /\ UNCHANGED <<there, visible, limit, genre, rows, title>>

(* The sections that are about to be made like l, of genre g.              *)
Rivals(l, g) ==
  {req[s].l : s \in {s \in Requests : /\ req[s].op = "section"
                                      /\ TypeOf[req[s].l] = TypeOf[l] /\ req[s].g = g}}

Spoils(q) ==
  (IF q.n # q.was THEN {"add", "limit"} ELSE {}) \cup (IF q.g # None THEN {"section"} ELSE {})

CommitLimit(r) ==
  LET q == req[r] IN
  /\ q.op = "limit"
  /\ IF there[q.l]
       THEN /\ limit' = IF q.n = q.was THEN limit ELSE [limit EXCEPT ![q.l] = q.n]
            /\ genre' = IF q.g = None THEN genre ELSE [genre EXCEPT ![q.l] = q.g]
            /\ req' = After(r, Spoils(q), {q.l} \cup Rivals(q.l, q.g))
       ELSE UNCHANGED <<limit, genre>> /\ req' = [req EXCEPT ![r] = Idle]
  /\ UNCHANGED <<there, visible, rows, title>>

(* The same PATCH without a limit.                                         *)
Rename(l, g) ==
  /\ there[l] /\ TypeOf[l] = "genre" /\ genre[l] # g
  /\ genre' = [genre EXCEPT ![l] = g]
  /\ req' = Overtaken({"section"}, Rivals(l, g), {})
  /\ UNCHANGED <<there, visible, limit, rows, title>>

(* A section id is used once; a deleted one may be created again as new.   *)
CheckSection(r, l, g) ==
  /\ Unused(r) /\ l \in Sections /\ ~there[l]
  /\ (g # None) = (TypeOf[l] = "genre") /\ Twins(l, g) = {}
  /\ \A s \in Requests : req[s].l # l
  /\ req' = [req EXCEPT ![r] = [Idle EXCEPT !.op = "section", !.l = l, !.g = g]]
  /\ UNCHANGED <<there, visible, limit, genre, rows, title>>

CommitSection(r, shown) ==
  LET l == req[r].l IN
  /\ req[r].op = "section"
  /\ there' = [there EXCEPT ![l] = TRUE]
  /\ visible' = [visible EXCEPT ![l] = shown]
  /\ limit' = [limit EXCEPT ![l] = None] /\ genre' = [genre EXCEPT ![l] = req[r].g]
  /\ req' = After(r, {"section"}, Rivals(l, req[r].g))
  /\ UNCHANGED <<rows, title>>

(* reorder_section_items; reorder_hero_items and the banners' twin take any*)
(* of their rows.  Only a row whose order changes is written.              *)
CheckOrder(r, l, pos) ==
  /\ Unused(r) /\ there[l] /\ (l \in Sections \/ TypeOf[l] = "carousel")
  /\ req' = [req EXCEPT ![r] = [Idle EXCEPT !.op = "order", !.l = l, !.pos = pos,
                                  !.writes = {x \in DOMAIN pos : pos[x] # rows[l][x]}]]
  /\ UNCHANGED <<there, visible, limit, genre, rows, title>>

(* A written row that is gone fails the whole flush (StaleDataError).      *)
CommitOrder(r) ==
  LET q == req[r] IN
  /\ q.op = "order"
  /\ IF q.lost
       THEN rows' = rows /\ req' = [req EXCEPT ![r] = Idle]
       ELSE /\ rows' = [rows EXCEPT ![q.l] =
                          [x \in Titles |-> IF x \in q.writes THEN q.pos[x] ELSE @[x]]]
            /\ req' = After(r, {"order"}, {q.l})
  /\ UNCHANGED <<there, visible, limit, genre, title>>

(* The ids of a section's reorder are exactly its rows.                    *)
Named(l) == IF TypeOf[l] = "carousel" THEN SUBSET On(l) ELSE {On(l)}
Positions(S) == {p \in [S -> 0 .. Cardinality(S) - 1] : \A x, y \in S : p[x] = p[y] => x = y}

-----------------------------------------------------------------------------
(* Requests that load, change and commit one row.                          *)
Move(l, x, n) ==
  /\ rows[l][x] \notin {None, n}
  /\ rows' = [rows EXCEPT ![l][x] = n]
  /\ req' = Overtaken({"order"}, {l}, {})
  /\ UNCHANGED <<there, visible, limit, genre, title>>

Remove(l, x) ==
  /\ rows[l][x] # None
  /\ rows' = [rows EXCEPT ![l][x] = None]
  /\ req' = Overtaken({"order"}, {l}, {<<l, x>>})
  /\ UNCHANGED <<there, visible, limit, genre, title>>

Show(l) ==
  /\ l \in Sections /\ there[l]
  /\ visible' = [visible EXCEPT ![l] = ~@]
  /\ UNCHANGED <<there, limit, genre, rows, title, req>>

(* Its rows go with it (ON DELETE CASCADE).                                *)
DeleteSection(l) ==
  /\ l \in Deletable /\ there[l]
  /\ there' = [there EXCEPT ![l] = FALSE]
  /\ rows' = [rows EXCEPT ![l] = [x \in Titles |-> None]]
  /\ req' = Overtaken(Counting, {l}, {l} \X Titles)
  /\ UNCHANGED <<visible, limit, genre, title>>

Publish(x) ==
  /\ title[x] # "gone"
  /\ title' = [title EXCEPT ![x] = IF @ = "draft" THEN "published" ELSE "draft"]
  /\ UNCHANGED <<there, visible, limit, genre, rows, req>>

(* delete_content_dependencies, then the title.                            *)
DeleteTitle(x) ==
  /\ title[x] # "gone"
  /\ title' = [title EXCEPT ![x] = "gone"]
  /\ rows' = [l \in Lists |-> [rows[l] EXCEPT ![x] = None]]
  /\ req' = [r \in Requests |->
       IF req[r].x = x THEN [req[r] EXCEPT !.clean = FALSE]
       ELSE Overtaken({"order"}, {l \in Lists : x \in On(l)}, Lists \X {x})[r]]
  /\ UNCHANGED <<there, visible, limit, genre>>

Next ==
  \/ \E r \in Requests :
       \/ CommitAdd(r) \/ CommitLimit(r) \/ CommitOrder(r)
       \/ \E l \in Lists :
            \/ \E x \in Titles, n \in Orders : CheckAdd(r, l, x, n)
            \/ \E g \in Genres \cup {None} :
                 \/ CheckSection(r, l, g)
                 \/ \E n \in Limits \cup {None} : CheckLimit(r, l, n, g)
            \/ \E S \in Named(l) : \E pos \in Positions(S) : CheckOrder(r, l, pos)
       \/ \E shown \in BOOLEAN : CommitSection(r, shown)
  \/ \E l \in Lists, x \in Titles : Remove(l, x) \/ \E n \in Orders : Move(l, x, n)
  \/ \E l \in Lists : Show(l) \/ DeleteSection(l) \/ \E g \in Genres : Rename(l, g)
  \/ \E x \in Titles : Publish(x) \/ DeleteTitle(x)

Spec == Init /\ [][Next]_vars

-----------------------------------------------------------------------------
(* What the public pages show.                                             *)

Live(S) == {x \in S : title[x] = "published"}

(* The first n of S by the order of list l; equal orders go by age.        *)
First(l, S, n) ==
  {T \in SUBSET S :
     /\ IF Cardinality(S) <= n THEN T = S ELSE Cardinality(T) = n
     /\ \A x \in T, y \in S \ T : rows[l][x] <= rows[l][y]}

Tables == {l \in Lists : TypeOf[l] = "table:free"}

(* Mutant: the legacy table counts only while no section shows.            *)
SectionsOnly == UNION {On(l) : l \in {k \in Free : there[k] /\ visible[k]}}

(* content_ids_free_today: what may be watched without paying.             *)
FreeToday == UNION {On(l) : l \in {k \in Free : there[k] /\ visible[k]} \cup Tables}

(* resolve_free_today_movies, from the visible section s or from a table.  *)
Fill(s) ==
  IF On(s) # {} THEN First(s, Live(On(s)), Cap[s])
  ELSE UNION {First(t, Live(On(t)), Cap[t]) : t \in Tables}

(* resolve_public_sections for a "free_today" section; which of two visible*)
(* ones fills an empty rail depends on their order, and a lowered limit may*)
(* show less of what is filled in.                                         *)
FreeRail(l) ==
  IF Live(On(l)) # {} THEN First(l, Live(On(l)), CapOf(l))
  ELSE UNION {Fill(s) : s \in {k \in Free : there[k] /\ visible[k]}}

(* Every movie on the "Free movies today" rail can be watched for free,    *)
(* picked by hand or filled in, while limits, visibility, picks and titles *)
(* change: the rail and the entitlement are two computations               *)
(* (resolve_public_sections, content_ids_free_today).                      *)
RailIsFree ==
  \A l \in Free : there[l] /\ visible[l] => \A T \in FreeRail(l) : T \subseteq FreeToday

(* What a request established when it checked.                             *)
Promise(q) ==
  CASE q.op = "add" -> Within(q.l) /\ title[q.x] # "gone"
    [] q.op = "limit" -> Within(q.l)
    [] q.op = "section" -> Twins(q.l, q.g) = {}
    [] OTHER -> /\ q.l \in Sections => On(q.l) = DOMAIN q.pos
                /\ \A x \in DOMAIN q.pos : rows[q.l][x] = q.pos[x]

(* A change leaves what its check promised (the list within its limit, no  *)
(* row of a deleted title, one section of a kind or genre when it is made, *)
(* the whole order asked for), whatever else runs, unless one of the few   *)
(* changes that Overtaken names was committed in between: an add after an  *)
(* add or a limit, a limit after an add or a limit, an order after any     *)
(* change of the rows, a section after one like it or a rename to its genre*)
(* (validate_item_add, validate_item_limit, validate_section_create,       *)
(* reorder_section_items).                                                 *)
Kept == \A r \in Requests : \A q \in {req[r]} :
  q.op # "idle" /\ q.clean /\ req'[r].op = "idle" => Promise(q)'
ChangesAreWhole == [][Kept]_vars

-----------------------------------------------------------------------------
(* The inductive strengthening: what a request checked is still so while   *)
(* it is clean.                                                            *)
Ops == {"idle", "add", "limit", "section", "order"}
ReqType(any) ==
  [op : Ops, l : Lists \cup {None}, x : Titles \cup {None}, n : Nat \cup {None},
   was : Nat \cup {None}, g : Genres \cup {None}, pos : any, writes : SUBSET Titles,
   clean : BOOLEAN, lost : BOOLEAN]

TypeOK ==
  /\ there \in [Lists -> BOOLEAN] /\ limit \in [Lists -> Nat \cup {None}]
  /\ genre \in [Lists -> Genres \cup {None}]
  /\ rows \in [Lists -> [Titles -> Nat \cup {None}]]
  /\ title \in [Titles -> {"published", "draft", "gone"}]
  /\ \E any : req \in [Requests -> ReqType(any)]

Wanted(q) == IF q.n = None THEN Cap[q.l] ELSE q.n

Draft(q) ==
  /\ q.op = "add" =>
       /\ q.l \in Lists /\ q.x \in Titles /\ q.n \in Nat
       /\ q.clean => Room(q.l) /\ title[q.x] # "gone"
  /\ q.op = "limit" =>
       /\ q.l \in Sections /\ q.x = None /\ q.n \in Nat \cup {None}
       /\ q.clean => there[q.l] /\ Cardinality(On(q.l)) <= Wanted(q) /\ limit[q.l] = q.was
  /\ q.op = "section" =>
       /\ q.l \in Sections /\ q.x = None /\ ~there[q.l]
       /\ (q.g # None) <=> (TypeOf[q.l] = "genre")
       /\ q.clean => Twins(q.l, q.g) = {}
  /\ q.op = "order" =>
       /\ q.l \in Lists /\ q.x = None
       /\ q.writes \subseteq DOMAIN q.pos /\ \A x \in q.writes : q.pos[x] \in Nat
       /\ q.lost => ~q.clean
       /\ ~q.lost => q.writes \subseteq On(q.l)
       /\ q.clean => /\ q.l \in Sections => On(q.l) = DOMAIN q.pos
                     /\ \A x \in DOMAIN q.pos \ q.writes : x \in Titles /\ rows[q.l][x] = q.pos[x]

(* A section is created by one request while no other is about it.         *)
Alone(r) == req[r].op = "section" => \A s \in Requests \ {r} : req[s].l # req[r].l

IInv == TypeOK /\ \A r \in Requests : Draft(req[r]) /\ Alone(r)

CurationConstants ==
  /\ IsFiniteSet(Titles) /\ None \notin Titles /\ None \notin Genres /\ None \notin Lists /\ None \notin Nat
  /\ Limits \subseteq Nat /\ Cap \in [Lists -> Nat \cup {None}]
  /\ \A l \in Sections : Cap[l] # None
=============================================================================
