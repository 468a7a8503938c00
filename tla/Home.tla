-------------------------------- MODULE Home --------------------------------
(***************************************************************************)
(* The home page: what one section shows, from its picks or, without any   *)
(* that can be shown, from the catalogue; and the carousel's slides, which *)
(* administrators edit with PATCHes that check the row they loaded and     *)
(* write only what differs.  What is picked, by whom and how many: Curation.*)
(*   app/catalog/{home_sections,hero_featured,coming_soon,                 *)
(*   promotion_banners}.py, app/routers/admin/{home_sections,              *)
(*   hero_featured}.py, app/schemas/{home_section,hero_featured}.py        *)
(***************************************************************************)
EXTENDS Naturals, Sequences, Functions, Lists

CONSTANTS
  Types,                   \* of the section: a subset of SECTION_TYPES
  Caps, Limits,            \* SECTION_CAPS, and what an administrator may choose
  Movies, Serials, Channels, Banners,
  Newest,                  \* all of them in catalogue order
  Offset,                  \* a trending rail starts after so many movies
  Slides, Requests,
  Media,                   \* a slide's: some of "video", "youtube", "banner"
  None

VARIABLES
  type, picks, limit,      \* the section: its type, items in order, item_limit
  out,                     \* what is published; of a banner, is_active
  due,                     \* the banners whose window is open
  poster, soon,            \* movies with a poster; movies in the Coming Soon table
  slide,                   \* the carousel: rows, or None
  mixed,                   \* slides two overlapping requests have edited
  req                      \* a PATCH: the row it loaded, the fields it sends

vars == <<type, picks, limit, out, due, poster, soon, slide, mixed, req>>
page == <<type, picks, limit, out, due, poster, soon>>

Things == Movies \cup Serials \cup Channels \cup Banners

ITEM_KINDS_BY_TYPE(t) ==
  CASE t \in {"trending", "most_watched", "coming_soon", "genre"} -> Movies
    [] t = "custom" -> Movies \cup Serials
    [] t = "series" -> Serials
    [] t = "tv" -> Channels
    [] t = "banners" -> Banners

effective_item_limit == IF limit # None /\ type # "banners" THEN limit ELSE Caps[type]

Idle  == [at |-> "idle", s |-> None, row |-> None, new |-> None, late |-> FALSE]

Init ==
  /\ type \in Types /\ picks = << >> /\ limit = None
  /\ out = {} /\ due = {} /\ poster = {} /\ soon = {}
  /\ slide = [s \in Slides |-> None] /\ mixed = [s \in Slides |-> FALSE]
  /\ req = [r \in Requests |-> Idle]

-----------------------------------------------------------------------------
(* resolve_public_sections, of a section that is visible.                  *)
Named(S)    == Keep(Newest, S)
After(q, n) == SubSeq(q, n + 1, Len(q))

(* Mutant: a pick is shown whatever became of it.                          *)
AllPicks == Cut(picks, effective_item_limit)

Picked == Cut(Keep(picks, out), effective_item_limit)

(* list_active_promotion_banners, resolve_coming_soon_movies (of a movie   *)
(* with a poster, out or not), the catalogue.                              *)
Automatic ==
  CASE type = "banners" -> Named(Banners \cap out \cap due)
    [] type = "tv" -> Named(Channels \cap out)
    [] type = "series" -> Named(Serials \cap out)
    [] type = "coming_soon" -> Cut(Named(soon \cap poster), Caps[type])
    [] type = "most_watched" -> Named(Movies \cap out)
    [] type = "trending" -> After(Named(Movies \cap out), Offset)
    [] OTHER -> << >>

resolve_public_sections ==
  IF Picked # << >> THEN Picked ELSE Cut(Automatic, effective_item_limit)

-----------------------------------------------------------------------------
Flip(S, x) == (S \cup {x}) \ (S \cap {x})

Pick(x) ==
  /\ x \in ITEM_KINDS_BY_TYPE(type) /\ x \notin Range(picks)
  /\ Len(picks) < effective_item_limit
  /\ picks' = Append(picks, x)
  /\ UNCHANGED <<type, limit, out, due, poster, soon, slide, mixed, req>>
Unpick(x) ==
  /\ x \in Range(picks) /\ picks' = Keep(picks, Things \ {x})
  /\ UNCHANGED <<type, limit, out, due, poster, soon, slide, mixed, req>>

(* validate_item_limit.                                                    *)
SetLimit(n) ==
  /\ type # "banners" /\ Len(picks) <= (IF n = None THEN Caps[type] ELSE n)
  /\ limit' = n
  /\ UNCHANGED <<type, picks, out, due, poster, soon, slide, mixed, req>>

Release(x) ==
  /\ out' = Flip(out, x)
  /\ UNCHANGED <<type, picks, limit, due, poster, soon, slide, mixed, req>>
Window(b) ==
  /\ due' = Flip(due, b)
  /\ UNCHANGED <<type, picks, limit, out, poster, soon, slide, mixed, req>>
Poster(m) ==
  /\ poster' = Flip(poster, m)
  /\ UNCHANGED <<type, picks, limit, out, due, soon, slide, mixed, req>>

(* validate_coming_soon_add: the poster must be there then, not later.     *)
ListSoon(m) ==
  /\ m \in soon \/ m \in poster
  /\ soon' = Flip(soon, m)
  /\ UNCHANGED <<type, picks, limit, out, due, poster, slide, mixed, req>>

-----------------------------------------------------------------------------
(* The carousel.  A row: content_type, content_id, the media it carries,   *)
(* and whether it is active and in its window.                             *)
Rows  == [type : {"movie", "series", "custom"}, id : Movies \cup Serials \cup {None},
          media : SUBSET Media, on : BOOLEAN]

(* Mutant: a custom slide may do without media.                            *)
AnyMedia(w) ==
  \/ w.type = "custom" /\ w.id = None
  \/ w.type = "movie" /\ w.id \in Movies
  \/ w.type = "series" /\ w.id \in Serials

validate_hero_content(w) ==
  \/ w.type = "custom" /\ w.id = None /\ w.media # {}
  \/ w.type = "movie" /\ w.id \in Movies
  \/ w.type = "series" /\ w.id \in Serials

(* UNIQUE (placement, content_type, content_id), where NULLs differ.       *)
Featured(s, w) == w.id # None /\
  \E o \in Slides \ {s} : slide[o] # None /\ slide[o].type = w.type /\ slide[o].id = w.id

create_admin_hero_featured(s, w) ==
  /\ slide[s] = None /\ \A r \in Requests : req[r].s # s
  /\ validate_hero_content(w) /\ ~Featured(s, w)
  /\ slide' = [slide EXCEPT ![s] = w] /\ mixed' = [mixed EXCEPT ![s] = FALSE]
  /\ UNCHANGED <<page, req>>

(* update_admin_hero_featured: the row is loaded, patched in memory (no    *)
(* content with a custom slide), checked if it says anything of content or *)
(* media -- of a custom slide it always does -- and committed later.       *)
CheckPatch(r, s, w) ==
  LET row == slide[s]
      new == IF w.type = "custom" THEN [w EXCEPT !.id = None] ELSE w
  IN
  /\ req[r] = Idle /\ row # None
  /\ new # row
  /\ \/ new = [row EXCEPT !.on = new.on] /\ new.type # "custom"
     \/ validate_hero_content(new)
  /\ req' = [req EXCEPT ![r] = [Idle EXCEPT !.at = "commit", !.s = s, !.row = row, !.new = new]]
  /\ UNCHANGED <<page, slide, mixed>>

(* Only the columns that differ from what was loaded are written.          *)
Merge(q) ==
  LET now == slide[q.s] IN
  [type  |-> IF q.new.type # q.row.type THEN q.new.type ELSE now.type,
   id    |-> IF q.new.id # q.row.id THEN q.new.id ELSE now.id,
   on    |-> IF q.new.on # q.row.on THEN q.new.on ELSE now.on,
   media |-> {k \in Media : IF (k \in q.new.media) # (k \in q.row.media)
                              THEN k \in q.new.media ELSE k \in now.media}]

CommitPatch(r) ==
  LET q == req[r] IN
  /\ q.at = "commit"
  /\ IF slide[q.s] = None \/ Featured(q.s, Merge(q))
       THEN UNCHANGED <<slide, mixed>> /\ req' = [req EXCEPT ![r] = Idle]
       ELSE /\ slide' = [slide EXCEPT ![q.s] = Merge(q)]
            /\ mixed' = [mixed EXCEPT ![q.s] = @ \/ q.late]
            /\ req' = [o \in Requests |->
                 IF o = r THEN Idle
                 ELSE IF req[o].s = q.s THEN [req[o] EXCEPT !.late = TRUE] ELSE req[o]]
  /\ UNCHANGED page

delete_admin_hero_featured(s) ==
  /\ slide[s] # None
  /\ slide' = [slide EXCEPT ![s] = None]
  /\ UNCHANGED <<page, mixed, req>>

(* list_active_hero_items, _build_slide: one video at most, the uploaded   *)
(* one first; a title that is not out has no slide.                        *)
Shown(s) == slide[s] # None /\ slide[s].on /\ (slide[s].type = "custom" \/ slide[s].id \in out)
Played(s) == IF "video" \in slide[s].media THEN {"video"} ELSE slide[s].media \cap {"youtube"}
_build_slide(s) ==
  [type |-> slide[s].type, id |-> slide[s].id, video |-> Played(s),
   picture |-> IF slide[s].type = "custom" THEN slide[s].media \cap {"banner"} ELSE {"banner"}]

Next ==
  \/ \E x \in Things : Pick(x) \/ Unpick(x) \/ Release(x)
  \/ \E n \in Limits \cup {None} : SetLimit(n)
  \/ \E b \in Banners : Window(b)
  \/ \E m \in Movies : Poster(m) \/ ListSoon(m)
  \/ \E s \in Slides :
       \/ \E w \in Rows : create_admin_hero_featured(s, w) \/ \E r \in Requests : CheckPatch(r, s, w)
       \/ delete_admin_hero_featured(s)
  \/ \E r \in Requests : CommitPatch(r)

Spec == Init /\ [][Next]_vars

-----------------------------------------------------------------------------
Shows(q) == {q[i] : i \in 1 .. Len(q)}

(* A section names nothing twice, nothing beyond its limit, and nothing a  *)
(* visitor cannot open: what is out, or a movie listed as coming soon.  It *)
(* is empty only if nothing it could name is there.                        *)
SectionWhole ==
  LET q == resolve_public_sections IN
  /\ IsInjective(q) /\ Len(q) <= effective_item_limit
  /\ Shows(q) \subseteq ITEM_KINDS_BY_TYPE(type) \cap (out \cup soon)
  /\ q = << >> =>
       /\ Shows(picks) \cap out = {}
       /\ type \in {"tv", "series", "most_watched"} => ITEM_KINDS_BY_TYPE(type) \cap out = {}
       /\ type = "trending" => Len(Named(Movies \cap out)) <= Offset

(* A slide leads to a title that is out, or has something to show; and it  *)
(* does not name one title for two slides.  Unless two edits overlapped.   *)
SlidesWhole ==
  \A s \in Slides : Shown(s) /\ ~mixed[s] =>
    LET w == _build_slide(s) IN
    /\ w.video \cup w.picture # {}
    /\ w.type = "custom" \/ w.id \in out
    /\ w.type = "custom" => w.id = None
    /\ w.type = "movie" => w.id \in Movies
    /\ \A o \in Slides : Shown(o) /\ w.id # None /\ slide[o].type = w.type /\ slide[o].id = w.id => o = s

(* Whatever is released, taken back, picked or edited, the home page has   *)
(* no dead link and no empty slide (resolve_public_sections,               *)
(* resolve_hero_slides, update_admin_hero_featured).                       *)
HomeWhole == SectionWhole /\ SlidesWhole

-----------------------------------------------------------------------------
(* The inductive strengthening: the picks differ and are of the section's  *)
(* kinds; only movies are coming soon; slides were valid, or two edits     *)
(* overlapped; a change that nobody overtook finds the row it loaded, or   *)
(* none.                                                                   *)
SectionPicks ==
  /\ type \in Types /\ limit \in Limits \cup {None}
  /\ picks \in Seq(ITEM_KINDS_BY_TYPE(type)) /\ IsInjective(picks)
  /\ soon \subseteq Movies

SlideRows ==
  /\ slide \in [Slides -> Rows \cup {None}]
  /\ mixed \in [Slides -> BOOLEAN]
  /\ \A s \in Slides : slide[s] # None /\ ~mixed[s] => validate_hero_content(slide[s])
  /\ \A s, o \in Slides :
       slide[s] # None /\ slide[o] # None /\ slide[s].id # None /\ slide[o].type = slide[s].type
         /\ slide[o].id = slide[s].id => o = s

Patches ==
  [at : {"idle", "commit"}, s : Slides \cup {None}, row : Rows \cup {None},
   new : Rows \cup {None}, late : BOOLEAN]

Patch(q) == q.at = "commit" =>
  /\ q.s \in Slides /\ q.row \in Rows /\ q.new \in Rows
  /\ ~q.late => slide[q.s] \in {q.row, None}
  /\ \/ validate_hero_content(q.new)
     \/ q.new = [q.row EXCEPT !.on = q.new.on] /\ q.new.type # "custom"

IInv ==
  /\ SectionPicks /\ SlideRows
  /\ req \in [Requests -> Patches] /\ \A r \in Requests : Patch(req[r])

HomeConstants ==
  /\ Types \subseteq {"trending", "most_watched", "coming_soon", "genre", "custom", "series",
                      "tv", "banners"}
  /\ Caps \in [Types -> Nat \ {0}] /\ Limits \subseteq Nat \ {0} /\ None \notin Limits
  /\ Newest \in Seq(Things) /\ IsInjective(Newest) /\ Range(Newest) = Things
  /\ Offset \in Nat /\ None \notin Slides /\ None \notin Movies \cup Serials
  /\ Media \subseteq {"video", "youtube", "banner"} /\ None \notin Rows
=============================================================================
