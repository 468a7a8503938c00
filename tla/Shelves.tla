------------------------------ MODULE Shelves -------------------------------
(***************************************************************************)
(* What a viewer is shown, next to what a viewer may play.  The lists and  *)
(* the pages work out by themselves who sees a stream key, the player asks *)
(* again; titles are released and taken back, listed and sold in between.  *)
(* A request reads in one step; the pages of the catalogue come from a     *)
(* cache, which this module follows for one of its answers.                *)
(*   app/catalog/{listing,related,search,series}.py, app/routers/{movies,  *)
(*   series,podcasts,library,purchases,watch_progress,playback}.py,        *)
(*   app/services/content_access.py                                        *)
(***************************************************************************)
EXTENDS Naturals, Sequences, FiniteSets, Lists

CONSTANTS
  Movies, Serials, Episodes, SeriesOf, Podcasts,
  Newest,                   \* the titles, the last one created first
  GenresOf, Labels,         \* a title's genres in order
  Limit,                    \* of a list of related titles
  Queries,                  \* pages of the catalogue that are asked for
  Stale,                    \* how old a cached one gets: the bound proved of Caches
  Accounts, Admins, Guest,  \* Guest: who a guest cookie names
  None

Content == Movies \cup Episodes \cup Podcasts
Titles  == Content \cup Serials

VARIABLES
  out,       \* titles with is_published
  free,      \* content with is_free
  priced,    \* movies with a price above zero
  today, soon,   \* movies listed as free today, as coming soon
  plan,      \* accounts with an active subscription
  bought,    \* receipts: who has what
  seen,      \* watch progress: who has watched what
  answer,    \* a cached page of the catalogue, None without one
  ago        \* history: how long a title has not been on a page of the catalogue

rows == <<out, free, priced, today, soon, plan, bought, seen>>
vars == <<rows, answer, ago>>

Init ==
  /\ out = {} /\ free = {} /\ priced = Movies /\ today = {} /\ soon = {}
  /\ plan = {} /\ bought = {} /\ seen = {}
  /\ answer = None /\ ago = [q \in Queries |-> [x \in Movies \cup Serials |-> Stale]]

-----------------------------------------------------------------------------
(* A viewer: an account or None, and perhaps a guest cookie.               *)
Viewers    == [user : Accounts \cup {None}, cookie : BOOLEAN]
IsAdmin(v) == v.user \in Admins

(* user_has_active_subscription; has_series_purchase and the receipts of   *)
(* movies: a signed-in viewer's cookie does not count.                     *)
Subscribed(v) == v.user \in plan
Owns(v, x) == IF v.user # None THEN <<v.user, x>> \in bought
              ELSE v.cookie /\ <<Guest, x>> \in bought

_movie_is_free(m) == m \in free \/ m \notin priced

can_access_content(v, t) ==
  \/ IsAdmin(v)
  \/ /\ t \in out
     /\ \/ t \in free
        \/ t \in Movies /\ (_movie_is_free(t) \/ t \in today \/ Subscribed(v) \/ Owns(v, t))
        \/ t \in Episodes /\ (Subscribed(v) \/ Owns(v, SeriesOf[t]))
        \/ t \in Podcasts /\ Subscribed(v)

get_published_content_or_404(v, t) == IsAdmin(v) \/ t \in out

(* authorize_playback, authorize_podcast_audio.                            *)
Plays(v, t) == get_published_content_or_404(v, t) /\ can_access_content(v, t)

-----------------------------------------------------------------------------
(* Pages: whether one opens, and whether it carries the key.               *)
get_movie_detail(v, m) == m \in out \/ IsAdmin(v) \/ m \in soon
get_series_detail(v, s) == s \in out \/ IsAdmin(v)
get_podcast(v, p)       == p \in out \/ IsAdmin(v)
PageKey(v, t) == can_access_content(v, t)

Opens(v, x) ==
  \/ x \in Movies /\ get_movie_detail(v, x)
  \/ x \in Serials /\ get_series_detail(v, x)
  \/ x \in Episodes /\ get_series_detail(v, SeriesOf[x])
  \/ x \in Podcasts /\ get_podcast(v, x)

(* list_episodes answers only for a released series; its own entitlement.  *)
list_episodes(s) == IF s \in out THEN {e \in Episodes : SeriesOf[e] = s /\ e \in out} ELSE {}
EpisodeKey(v, e) == IsAdmin(v) \/ e \in free \/ Subscribed(v) \/ Owns(v, SeriesOf[e])

-----------------------------------------------------------------------------
(* Lists.  A page of the catalogue is filtered by the first genre only.    *)
(* This is what its SELECT finds, the page itself is answered below.       *)
Pages == [of : {"movies", "series"}, free : BOOLEAN, genre : Labels \cup {None}]

apply_catalog_genre(x, g) == g = None \/ (GenresOf[x] # << >> /\ Head(GenresOf[x]) = g)

free_episode_counts_by_series(s) ==
  Cardinality({e \in Episodes : SeriesOf[e] = s /\ e \in free /\ e \in out})

published_movies(onlyFree, g) ==
  {m \in Movies \cap out : apply_catalog_genre(m, g) /\ (onlyFree => m \in free)}

published_series(onlyFree, g) ==
  {s \in Serials \cap out :
     /\ apply_catalog_genre(s, g)
     /\ onlyFree => \E e \in Episodes : SeriesOf[e] = s /\ e \in free /\ e \in out}

Found(q) == IF q.of = "movies" THEN published_movies(q.free, q.genre)
            ELSE published_series(q.free, q.genre)

list_podcasts == Podcasts \cap out

(* Related titles: the newest that share a genre, then the newest others.  *)
Top(S, n) == Cut(Keep(Newest, S), n)
Listed(q) == {q[i] : i \in 1 .. Len(q)}
Genres(x) == Listed(GenresOf[x])
Akin(x, y) == Genres(x) \cap Genres(y) # {}

Related(x, kind) ==
  LET others == (kind \cap out) \ {x}
      first  == Top({y \in others : Genres(x) = {} \/ Akin(x, y)}, Limit)
  IN  first \o Top(others \ Listed(first), Limit - Len(first))
related_movies(m) == Related(m, Movies)
related_series(s) == Related(s, Serials)

(* What one has bought: two routes for movies, and the unlocked series,    *)
(* released or not.                                                        *)
list_owned_movies(v)     == {m \in Movies \cap out : Owns(v, m)}
list_purchased_movies(v) == {m \in Movies \cap out : Owns(v, m)}
list_purchased_series(v) == {s \in Serials : Owns(v, s)}

(* What one has watched: a bare row, or a row with the title's details.    *)
_history_row(t) == t \in out /\ (t \in Episodes => SeriesOf[t] \in out)
list_watch_progress(v) == {t \in Content : <<v.user, t>> \in seen /\ _history_row(t)}

-----------------------------------------------------------------------------
Flip(S, x) == (S \cup {x}) \ (S \cap {x})

(* Whatever was on a page until now has been off it for no time.           *)
Noted ==
  ago' = [q \in Queries |-> [x \in Movies \cup Serials |->
            IF x \in Found(q) \cup Found(q)' THEN 0 ELSE ago[q][x]]]

(* The PATCH of a movie has the cache forget the pages in one worker and in*)
(* Redis (below); that of a series or of an episode has not.               *)
Release(x) ==
  /\ out' = Flip(out, x)
  /\ UNCHANGED <<free, priced, today, soon, plan, bought, seen, answer>> /\ Noted
SetFree(t) ==
  /\ free' = Flip(free, t)
  /\ UNCHANGED <<out, priced, today, soon, plan, bought, seen, answer>> /\ Noted

Still == UNCHANGED <<answer, ago>>
SetPrice(m) ==
  priced' = Flip(priced, m) /\ Still /\ UNCHANGED <<out, free, today, soon, plan, bought, seen>>
ListToday(m) ==
  today' = Flip(today, m) /\ Still /\ UNCHANGED <<out, free, priced, soon, plan, bought, seen>>
ListSoon(m) ==
  soon' = Flip(soon, m) /\ Still /\ UNCHANGED <<out, free, priced, today, plan, bought, seen>>
Subscribe(a) ==
  plan' = Flip(plan, a) /\ Still /\ UNCHANGED <<out, free, priced, today, soon, bought, seen>>

(* Sold while released.                                                    *)
Buy(w, x) ==
  /\ x \in out /\ bought' = bought \cup {<<w, x>>}
  /\ Still /\ UNCHANGED <<out, free, priced, today, soon, plan, seen>>

(* upsert_watch_progress, behind assert_can_track_watch_progress.          *)
Watch(a, t) ==
  /\ Plays([user |-> a, cookie |-> FALSE], t)
  /\ seen' = seen \cup {<<a, t>>}
  /\ Still /\ UNCHANGED <<out, free, priced, today, soon, plan, bought>>

-----------------------------------------------------------------------------
(* A page the cache does not have is read and kept; whatever it has is     *)
(* answered as it is.                                                      *)
list_published_movies(q) ==
  /\ q.of = "movies"
  /\ answer' = [q |-> q, names |-> Found(q), age |-> 0]
  /\ UNCHANGED <<rows, ago>>
list_published_series(q) ==
  /\ q.of = "series"
  /\ answer' = [q |-> q, names |-> Found(q), age |-> 0]
  /\ UNCHANGED <<rows, ago>>

(* cache_delete_prefix, an entry that expires early, a worker that restarts*)
Forget == answer # None /\ answer' = None /\ UNCHANGED <<rows, ago>>

(* Mutant: an answer that is found is kept for another lifetime.           *)
Kept == answer

Aged ==
  IF answer = None \/ answer.age + 1 >= Stale THEN None
  ELSE [answer EXCEPT !.age = @ + 1]

Tick ==
  /\ answer' = Aged
  /\ ago' = [q \in Queries |-> [x \in Movies \cup Serials |->
               IF x \in Found(q) THEN 0
               ELSE IF ago[q][x] < Stale THEN ago[q][x] + 1 ELSE Stale]]
  /\ UNCHANGED rows

Next ==
  \/ \E x \in Titles : Release(x)
  \/ \E t \in Content : SetFree(t) \/ \E a \in Accounts \ Admins : Watch(a, t)
  \/ \E m \in Movies : SetPrice(m) \/ ListToday(m) \/ ListSoon(m)
  \/ \E a \in Accounts \ Admins : Subscribe(a)
  \/ \E w \in (Accounts \ Admins) \cup {Guest}, x \in Movies \cup Serials : Buy(w, x)
  \/ \E q \in Queries : list_published_movies(q) \/ list_published_series(q)
  \/ Forget \/ Tick

Spec == Init /\ [][Next]_vars

-----------------------------------------------------------------------------
(* A page or a list of episodes carries the key of exactly what the player *)
(* would let the viewer play.                                              *)
KeysAgree ==
  \A v \in Viewers :
    /\ \A t \in Movies \cup Podcasts : Opens(v, t) => (PageKey(v, t) <=> Plays(v, t))
    /\ \A s \in Serials : \A e \in list_episodes(s) : EpisodeKey(v, e) <=> Plays(v, e)

(* The page of x opens for v, and is worth it where x is listed as free.   *)
Lands(v, x, onlyFree) ==
  /\ Opens(v, x)
  /\ onlyFree /\ x \in Movies => Plays(v, x)
  /\ onlyFree /\ x \in Serials =>
       free_episode_counts_by_series(x) > 0 /\ \E e \in list_episodes(x) : Plays(v, e)

(* Whatever a list names has a page that opens for who is shown the list;  *)
(* what is listed as owned or free plays.  A cached page of the catalogue  *)
(* may also name what was on that page less than Stale ago.                *)
LinksOpen ==
  \A v \in Viewers :
    /\ answer # None => \A x \in answer.names :
         Lands(v, x, answer.q.free) \/ ago[answer.q][x] < Stale
    /\ \A g \in Labels \cup {None}, f \in BOOLEAN :
         \A x \in published_movies(f, g) \cup published_series(f, g) : Lands(v, x, f)
    /\ \A p \in list_podcasts : Opens(v, p)
    /\ \A t \in list_watch_progress(v) : Opens(v, t)
    /\ list_owned_movies(v) = list_purchased_movies(v)
    /\ \A m \in list_owned_movies(v) : Opens(v, m) /\ Plays(v, m)
    /\ \A s \in list_purchased_series(v) : \A e \in list_episodes(s) : Plays(v, e)

(* A list of related titles is full or has all there is, names no title    *)
(* twice nor the title itself, and puts what shares a genre first.         *)
RelatedWhole ==
  \A x \in Movies \cup Serials :
    LET kind == IF x \in Movies THEN Movies ELSE Serials
        q == IF x \in Movies THEN related_movies(x) ELSE related_series(x)
    IN  /\ Listed(q) \subseteq (kind \cap out) \ {x}
        /\ Cardinality(Listed(q)) = Len(q)
        /\ Len(q) = Limit \/ Listed(q) = (kind \cap out) \ {x}
        /\ \A i, j \in 1 .. Len(q) : i < j /\ Akin(x, q[j]) => Genres(x) = {} \/ Akin(x, q[i])

(* What is shown and what may be played agree, for whoever asks and in     *)
(* whatever order titles are released, priced, listed, sold and watched    *)
(* (can_access_content against list_episodes, get_movie_detail and lists). *)
ShelvesAgree == KeysAgree /\ LinksOpen /\ RelatedWhole

-----------------------------------------------------------------------------
(* The inductive strengthening: a title has been off a page for no longer  *)
(* than the cached answer that names it is old.                            *)
IInv ==
  /\ ago \in [Queries -> [Movies \cup Serials -> Nat]]
  /\ answer # None =>
       \E q \in Queries, names \in SUBSET (Movies \cup Serials), age \in 0 .. (Stale - 1) :
         /\ answer = [q |-> q, names |-> names, age |-> age]
         /\ \A x \in names : x \in Found(q) \/ ago[q][x] <= age

(* A title is of one kind, and is created once.                            *)
ShelvesConstants ==
  /\ Stale \in Nat \ {0} /\ Queries \subseteq Pages
  /\ Movies \cap (Serials \cup Episodes \cup Podcasts) = {}
  /\ Episodes \cap (Serials \cup Podcasts) = {} /\ Podcasts \cap Serials = {}
  /\ IsFiniteSet(Episodes) /\ Limit \in Nat
  /\ Newest \in Seq(Titles) /\ Movies \cup Serials \subseteq Listed(Newest)
  /\ \A i, j \in 1 .. Len(Newest) : Newest[i] = Newest[j] => i = j
=============================================================================
