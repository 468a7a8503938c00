----------------------------- MODULE MCAccounts -----------------------------
(* Small instances of what surrounds an account: identities, sign-in, TV   *)
(* codes, TV boxes, what was bought, paid periods, a guest's checkout,     *)
(* what a player gets, what a viewer is shown and the home page.           *)
EXTENDS Naturals, Sequences, TLC, Parts

CONSTANTS
  r1, r2, bot, pair, nonce, link1, link2, ana, ben,
  movie, series, podcast, gratis, guest, i1, i2, monthly, yearly, c1, c2, c3, g1, g2,
  Gone, google, apple, telegram, e1, e2,
  (* Of the parts that AccountsProofs proves of any values.                *)
  TvSets, TvAdmins, TvTime,
  BoughtMovies, BoughtSerials, BoughtPodcasts, BoughtGratis, BoughtAccounts,
  BoughtAdmins, BoughtIntents, BoughtItem, BoughtRequests,
  PaidIntents, PaidCode, PaidPrice, PaidSnap, PaidPlans, PaidPlanPrice, PaidPlanDays,
  PaidRequests, PaidTime, PaidRows,
  LiveChannels, LiveSources, LiveRequests,
  StreamWorkers, StreamRequests, StreamWorker, StreamLife, StreamTtl, StreamLag,
  ShelfMovies, ShelfSerials, ShelfEpisodes, ShelfSeriesOf, ShelfPodcasts, ShelfNewest,
  ShelfGenres, ShelfLabels, ShelfLimit, ShelfAccounts, ShelfAdmins,
  ShelfQueries, ShelfStale,
  HomeTypes, HomeCaps, HomeLimits, HomeMovies, HomeSerials, HomeChannels, HomeBanners,
  HomeNewest, HomeOffset, HomeSlides, HomeRequests, HomeMedia

(* Requests, handlers and TVs are interchangeable in every part.           *)
Symmetric == Permutations({r1, r2})

Kinds == [c \in {bot, pair, nonce, link1, link2} |->
  CASE c = bot -> "bot" [] c = pair -> "pairing" [] c = nonce -> "nonce" [] OTHER -> "reset"]

Phone == INSTANCE SignInProofs WITH
  Handlers <- {r1, r2}, Codes <- {bot, nonce}, KindOf <- Kinds,
  People <- {ana, ben}, row <- s1, lapsed <- s2, rowLock <- s3, handler <- s4,
  opened <- s5, handed <- s6, agreed <- s7

Links == INSTANCE SignInProofs WITH
  Handlers <- {r1, r2}, Codes <- {pair, link1, link2}, KindOf <- Kinds,
  People <- {ana}, row <- s1, lapsed <- s2, rowLock <- s3, handler <- s4,
  opened <- s5, handed <- s6, agreed <- s7

(* One Google account whose address changes and two accounts; two that have*)
(* had the same address; a Google and an Apple account of one address; a   *)
(* Telegram user.                                                          *)
Google == INSTANCE IdentitiesProofs WITH
  Accounts <- {c1, c2}, Ids <- {google}, KindOf <- (google :> google),
  Mails <- {e1, e2}, MailsOf <- (google :> {e1, e2}), Telegrams <- {},
  Requests <- {r1, r2}, row <- s1, signed <- s2, raced <- s3, req <- s4

Shared == INSTANCE IdentitiesProofs WITH
  Accounts <- {c1}, Ids <- {i1, i2}, KindOf <- [i \in {i1, i2} |-> google],
  Mails <- {e1, e2}, MailsOf <- (i1 :> {e1, e2}) @@ (i2 :> {e1}), Telegrams <- {},
  Requests <- {r1, r2}, row <- s1, signed <- s2, raced <- s3, req <- s4

Both == INSTANCE IdentitiesProofs WITH
  Accounts <- {c1}, Ids <- {google, apple}, KindOf <- (google :> google) @@ (apple :> apple),
  Mails <- {e1}, MailsOf <- [i \in {google, apple} |-> {e1}], Telegrams <- {},
  Requests <- {r1, r2}, row <- s1, signed <- s2, raced <- s3, req <- s4

Tgram == INSTANCE IdentitiesProofs WITH
  Accounts <- {c1, c2}, Ids <- {telegram}, KindOf <- (telegram :> telegram),
  Mails <- {e1}, MailsOf <- (telegram :> {e1}), Telegrams <- {telegram},
  Requests <- {r1, r2}, row <- s1, signed <- s2, raced <- s3, req <- s4

Tv == INSTANCE TvCodes WITH
  Tvs <- TvSets, Admins <- TvAdmins, MaxTime <- TvTime, now <- s1, code <- s2,
  user <- s3, sub <- s4, subBy <- s5, req <- s6

Items2 == [i \in {i1, i2} |-> IF i = i1 THEN movie ELSE series]

Bought == INSTANCE Access WITH
  Movies <- BoughtMovies, Serials <- BoughtSerials, Podcasts <- BoughtPodcasts,
  Gratis <- BoughtGratis, Accounts <- BoughtAccounts, Admins <- BoughtAdmins,
  Guest <- guest, Intents <- BoughtIntents, ItemOf <- BoughtItem,
  Requests <- BoughtRequests, published <- s1, freeToday <- s2, subscribed <- s3,
  intent <- s4, receipt <- s5, intentLock <- s6, receiptLock <- s7, cookie <- s8,
  req <- s9

(* i1 was sold with two days of a plan that has one now; i2 is an older    *)
(* row without plan and days, found by its price.                          *)
Codes2 == [i \in {i1, i2} |-> IF i = i1 THEN monthly ELSE None]
Prices2 == [i \in {i1, i2} |-> 5]
Snaps2 == [i \in {i1, i2} |-> IF i = i1 THEN 2 ELSE 0]
PlanPrices2 == [p \in {monthly, yearly} |-> 5]
PlanDays2 == [p \in {monthly, yearly} |-> IF p = monthly THEN 1 ELSE 3]

Paid == INSTANCE Periods WITH
  Intents <- PaidIntents, CodeOf <- PaidCode, PriceOf <- PaidPrice, SnapOf <- PaidSnap,
  Plans <- PaidPlans, PlanPrice <- PaidPlanPrice, Days <- PaidPlanDays, Requests <- PaidRequests,
  MaxTime <- PaidTime, MaxRows <- PaidRows, now <- s1, active <- s2,
  done <- s3, subs <- s4, intentLock <- s5, userLock <- s6, req <- s7

(* The account of a TV code: three boxes, no password.                     *)
Boxes == INSTANCE SessionsProofs WITH
  Requests <- {r1, r2}, Sessions <- {c1, c2, c3}, Limit <- 5, Ttl <- 1, Grace <- 9,
  Window <- 2, Passwords <- {0}, MaxNow <- 2, MaxVer <- 0, MaxPw <- 0,
  NoRequest <- None, NoSession <- None, now <- s1, active <- s2, erased <- s3,
  pw <- s4, state <- s5, exp <- s6, ver <- s7, refreshed <- s8, issued <- s9,
  opened <- s10, userLock <- s11, sessionLock <- s12, req <- s13

(* A guest, who has no row in users, buys one movie: two intents, three    *)
(* codes issued one after another.                                         *)
Visitor == INSTANCE CheckoutProofs WITH
  Requests <- {r1, r2}, Buyers <- {guest}, Users <- {}, Movies <- {movie}, Serials <- {},
  Plans <- {}, Intents <- {i1, i2}, BuyerOf <- [i \in {i1, i2} |-> guest],
  ItemOf <- [i \in {i1, i2} |-> movie], MaxQr <- 3, Batch <- 2, NoRequest <- None,
  NoIntent <- None, status <- s1, cur <- s2, prev <- s3, stale <- s4, grants <- s5,
  approvals <- s6, plansOn <- s7, paid <- s8, fresh <- s9, onTime <- s10,
  intentLock <- s11, userLock <- s12, userShare <- s13, req <- s14

(* A title watched through two workers, called like the request each has;  *)
(* a live channel, and the channel's stream at the transcoding service.    *)
Workers2 == [live \in BOOLEAN |-> IF live THEN {c1} ELSE {r1, r2}]
Worker2 == [live \in BOOLEAN |-> [r \in {r1, r2} |-> IF live THEN c1 ELSE r]]
Lives2 == [live \in BOOLEAN |-> IF live THEN 2 ELSE 1]
Lags2 == [live \in BOOLEAN |-> 1]

Stream(live) == INSTANCE Playback WITH
  Workers <- StreamWorkers[live], Requests <- StreamRequests,
  WorkerOf <- StreamWorker[live], IsChannel <- live,
  Life <- StreamLife[live], Ttl <- StreamTtl[live], Lag <- StreamLag[live],
  public <- s1, state <- s2, token <- s3, rawIn <- s4, bodyIn <- s5, rawShared <- s6,
  bodyShared <- s7, req <- s8

Live == INSTANCE Channels WITH
  Channels <- LiveChannels, Sources <- LiveSources, Requests <- LiveRequests,
  row <- s1, service <- s2, used <- s3, req <- s4, adrift <- s5

(* What is shown: two movies; three series, an episode and a podcast.  ben *)
(* is an administrator.  Cached pages of one movie, of one series.         *)
Shelf(name) == INSTANCE Shelves WITH
  Movies <- ShelfMovies[name], Serials <- ShelfSerials[name],
  Episodes <- ShelfEpisodes[name], SeriesOf <- ShelfSeriesOf[name],
  Podcasts <- ShelfPodcasts[name], Newest <- ShelfNewest[name],
  GenresOf <- ShelfGenres[name], Labels <- ShelfLabels, Limit <- ShelfLimit[name],
  Queries <- ShelfQueries[name], Stale <- ShelfStale,
  Accounts <- ShelfAccounts[name], Admins <- ShelfAdmins, Guest <- guest, out <- s1,
  free <- s2, priced <- s3, today <- s4, soon <- s5, plan <- s6, bought <- s7,
  seen <- s8, answer <- s9, ago <- s10

Movies2   == [films |-> {movie, gratis}, shows |-> {}, reel |-> {movie}, season |-> {}]
Serials2  == [films |-> {}, shows |-> {series, c1, c2}, reel |-> {}, season |-> {series}]
Episodes2 == [films |-> {}, shows |-> {c3}, reel |-> {}, season |-> {c3}]
SeriesOf2 == [films |-> << >>, shows |-> c3 :> series, reel |-> << >>, season |-> c3 :> series]
Podcasts2 == [films |-> {}, shows |-> {podcast}, reel |-> {}, season |-> {}]
Newest2   == [films |-> <<movie, gratis>>, shows |-> <<series, c1, c2>>,
              reel |-> <<movie>>, season |-> <<series>>]
Genres2   == [films |-> (movie :> <<g1, g2>>) @@ (gratis :> <<g2>>),
              shows |-> (series :> <<g1, g2>>) @@ (c1 :> << >>) @@ (c2 :> <<g2>>),
              reel |-> movie :> <<g1, g2>>, season |-> series :> <<g1, g2>>]
Limit2    == [films |-> 1, shows |-> 2, reel |-> 1, season |-> 1]
Accounts2 == [films |-> {ana, ben}, shows |-> {ana, ben}, reel |-> {}, season |-> {}]
Queries2  == [films |-> {}, shows |-> {},
              reel |-> [of : {"movies"}, free : BOOLEAN, genre : {None, g1, g2}],
              season |-> [of : {"series"}, free : BOOLEAN, genre : {None, g1, g2}]]

(* Home: a section of each type with titles, of each with anything else;   *)
(* two slides; a slide under two PATCHes of its media, of its title.       *)
Page(name) == INSTANCE Home WITH
  Types <- HomeTypes[name], Caps <- HomeCaps[name], Limits <- HomeLimits[name],
  Movies <- HomeMovies[name], Serials <- HomeSerials[name], Channels <- HomeChannels[name],
  Banners <- HomeBanners[name], Newest <- HomeNewest[name], Offset <- HomeOffset[name],
  Slides <- HomeSlides[name], Requests <- HomeRequests[name], Media <- HomeMedia[name],
  type <- s1, picks <- s2, limit <- s3, out <- s4, due <- s5, poster <- s6, soon <- s7,
  slide <- s8, mixed <- s9, req <- s10

Still == [caps |-> [t \in {"tv"} |-> 1], limits |-> {}, movies |-> {}, serials |-> {},
          channels |-> {}, banners |-> {}, newest |-> << >>, offset |-> 0,
          slides |-> {}, requests |-> {}, media |-> {}]

Pages == [
  page |-> [Still EXCEPT
    !.caps = [t \in {"trending", "most_watched", "coming_soon", "genre", "custom", "series"}
                |-> 2],
    !.limits = {1}, !.movies = {movie, gratis}, !.serials = {series},
    !.newest = <<movie, gratis, series>>, !.offset = 1],
  strips |-> [Still EXCEPT
    !.caps = [t \in {"banners", "tv"} |-> 2], !.limits = {1}, !.channels = {c1, c2},
    !.banners = {g1, g2}, !.newest = <<c1, g1, c2, g2>>, !.offset = 1],
  hero |-> [Still EXCEPT
    !.movies = {movie}, !.serials = {series}, !.newest = <<movie, series>>,
    !.slides = {g1, g2}, !.requests = {r1}, !.media = {"banner"}],
  edits |-> [Still EXCEPT
    !.slides = {g1}, !.requests = {r1, r2}, !.media = {"video", "banner"}],
  swaps |-> [Still EXCEPT
    !.serials = {series}, !.newest = <<series>>, !.slides = {g1}, !.requests = {r1, r2},
    !.media = {"video"}]]

Caps6     == [name \in DOMAIN Pages |-> Pages[name].caps]
Types6    == [name \in DOMAIN Pages |-> DOMAIN Caps6[name]]
Limits6   == [name \in DOMAIN Pages |-> Pages[name].limits]
Movies6   == [name \in DOMAIN Pages |-> Pages[name].movies]
Serials6  == [name \in DOMAIN Pages |-> Pages[name].serials]
Channels6 == [name \in DOMAIN Pages |-> Pages[name].channels]
Banners6  == [name \in DOMAIN Pages |-> Pages[name].banners]
Newest6   == [name \in DOMAIN Pages |-> Pages[name].newest]
Offset6   == [name \in DOMAIN Pages |-> Pages[name].offset]
Slides6   == [name \in DOMAIN Pages |-> Pages[name].slides]
Requests6 == [name \in DOMAIN Pages |-> Pages[name].requests]
Media6    == [name \in DOMAIN Pages |-> Pages[name].media]

(* Home!Keep is what SelectSeq is of a membership test.                    *)
ASSUME KeepSelects ==
  \A S \in SUBSET {c1, c2, c3} : \A q \in UNION {[1 .. n -> {c1, c2, c3}] : n \in 0 .. 4} :
    Page("page")!Keep(q, S) = SelectSeq(q, LAMBDA x : x \in S)

(* What the theorems about the parts ask of their constants.               *)
ASSUME PartConstants ==
  /\ Phone!SignInConstants /\ Links!SignInConstants
  /\ Google!IdentityConstants /\ Shared!IdentityConstants /\ Both!IdentityConstants
  /\ Tgram!IdentityConstants
  /\ None \notin {r1, r2, c1, c2, c3, i1, i2} /\ i1 # i2
  /\ Tv!TvConstants /\ Bought!AccessConstants /\ Paid!PeriodConstants
  /\ Live!ChannelConstants
  /\ Stream(FALSE)!PlaybackConstants /\ Stream(TRUE)!PlaybackConstants
  /\ Shelf("films")!ShelvesConstants /\ Shelf("shows")!ShelvesConstants
  /\ Shelf("reel")!ShelvesConstants /\ Shelf("season")!ShelvesConstants
  /\ Page("page")!HomeConstants /\ Page("strips")!HomeConstants
  /\ Page("hero")!HomeConstants /\ Page("edits")!HomeConstants
  /\ Page("swaps")!HomeConstants

Init ==
  \/ part = "phone" /\ Phone!Init /\ Off7
  \/ part = "links" /\ Links!Init /\ Off7
  \/ part = "google" /\ Google!Init /\ Off4
  \/ part = "shared" /\ Shared!Init /\ Off4
  \/ part = "both" /\ Both!Init /\ Off4
  \/ part = "telegram" /\ Tgram!Init /\ Off4
  \/ part = "tv" /\ Tv!Init /\ Off6
  \/ part = "access" /\ Bought!Init /\ Off9
  \/ part = "periods" /\ Paid!Init /\ Off7
  \/ part = "boxes" /\ Boxes!Init /\ Off13
  \/ part = "guest" /\ Visitor!Init /\ Off14
  \/ part = "player" /\ Stream(FALSE)!Init /\ Off8
  \/ part = "air" /\ Stream(TRUE)!Init /\ Off8
  \/ part = "live" /\ Live!Init /\ Off5
  \/ part = "films" /\ Shelf("films")!Init /\ Off10
  \/ part = "shows" /\ Shelf("shows")!Init /\ Off10
  \/ part = "reel" /\ Shelf("reel")!Init /\ Off10
  \/ part = "season" /\ Shelf("season")!Init /\ Off10
  \/ part = "page" /\ Page("page")!Init /\ Off10
  \/ part = "strips" /\ Page("strips")!Init /\ Off10
  \/ part = "hero" /\ Page("hero")!Init /\ Off10
  \/ part = "edits" /\ Page("edits")!Init /\ Off10
  \/ part = "swaps" /\ Page("swaps")!Init /\ Off10

Next ==
  \/ part = "phone" /\ Phone!Next /\ UNCHANGED Rest7
  \/ part = "links" /\ Links!Next /\ UNCHANGED Rest7
  \/ part = "google" /\ Google!Next /\ UNCHANGED Rest4
  \/ part = "shared" /\ Shared!Next /\ UNCHANGED Rest4
  \/ part = "both" /\ Both!Next /\ UNCHANGED Rest4
  \/ part = "telegram" /\ Tgram!Next /\ UNCHANGED Rest4
  \/ part = "tv" /\ Tv!Next /\ UNCHANGED Rest6
  \/ part = "access" /\ Bought!Next /\ UNCHANGED Rest9
  \/ part = "periods" /\ Paid!Next /\ UNCHANGED Rest7
  \/ part = "boxes" /\ Boxes!Next /\ UNCHANGED Rest13
  \/ part = "guest" /\ Visitor!Next /\ UNCHANGED Rest14
  \/ part = "player" /\ Stream(FALSE)!Next /\ UNCHANGED Rest8
  \/ part = "air" /\ Stream(TRUE)!Next /\ UNCHANGED Rest8
  \/ part = "live" /\ Live!Next /\ UNCHANGED Rest5
  \/ part = "films" /\ Shelf("films")!Next /\ UNCHANGED Rest10
  \/ part = "shows" /\ Shelf("shows")!Next /\ UNCHANGED Rest10
  \/ part = "reel" /\ Shelf("reel")!Next /\ UNCHANGED Rest10
  \/ part = "season" /\ Shelf("season")!Next /\ UNCHANGED Rest10
  \/ part = "page" /\ Page("page")!Next /\ UNCHANGED Rest10
  \/ part = "strips" /\ Page("strips")!Next /\ UNCHANGED Rest10
  \/ part = "hero" /\ Page("hero")!Next /\ UNCHANGED Rest10
  \/ part = "edits" /\ Page("edits")!Next /\ UNCHANGED Rest10
  \/ part = "swaps" /\ Page("swaps")!Next /\ UNCHANGED Rest10

Spec == Init /\ [][Next]_vars

(* SignIn: one session per code, one delivery of its token.                *)
GoodOnce == (part = "phone" => Phone!GoodOnce) /\ (part = "links" => Links!GoodOnce)

(* SignIn: a bot login signs in the person who confirmed it.               *)
SignedInByConsent == part = "phone" => Phone!SignedInByConsent

(* Identities: who signs in with an identity comes to one account.         *)
OneAccountEach ==
  /\ part = "google" => Google!OneAccountEach
  /\ part = "shared" => Shared!OneAccountEach
  /\ part = "both" => Both!OneAccountEach
  /\ part = "telegram" => Tgram!OneAccountEach

(* TvCodes: a code that is off or deleted locks its TVs out.               *)
DisabledLocksOut == part = "tv" => Tv!DisabledLocksOut

(* Access: what the guest had bought before the sign-in, the account has.  *)
SignInKeepsTitles == [][part = "access" => Bought!KeepsTitles]_vars

(* Periods: every payment adds the time it was sold with.                  *)
PaymentsStack == [][part = "periods" => Paid!Stacks]_vars

(* Sessions: whoever signs a TV box in alone is alone afterwards.          *)
TvBoxesOverlap == part = "boxes" => Boxes!TvBoxesOverlap

(* Checkout: a code paid while it was current is asked about while pending.*)
PaidCodeKept == part = "guest" => Visitor!PaidCodeKept

(* Playback: a playlist follows the bucket, its addresses last and end.    *)
PlaylistsInTime ==
  /\ part = "player" => Stream(FALSE)!PlaylistsInTime
  /\ part = "air" => Stream(TRUE)!PlaylistsInTime

(* Channels: no stream runs at the service that no row knows.              *)
NoOrphan == part = "live" => Live!NoOrphan

(* Shelves: what is shown and what may be played agree.                    *)
ShelvesAgree ==
  /\ part = "films" => Shelf("films")!ShelvesAgree
  /\ part = "shows" => Shelf("shows")!ShelvesAgree
  /\ part = "reel" => Shelf("reel")!ShelvesAgree
  /\ part = "season" => Shelf("season")!ShelvesAgree

(* Home: no dead link, no empty section or slide on the home page.         *)
HomeWhole ==
  /\ part = "page" => Page("page")!HomeWhole
  /\ part = "strips" => Page("strips")!HomeWhole
  /\ part = "hero" => Page("hero")!HomeWhole
  /\ part = "edits" => Page("edits")!HomeWhole
  /\ part = "swaps" => Page("swaps")!HomeWhole
=============================================================================
