----------------------------- MODULE MCPlatform -----------------------------
(* Small instances of what serves the pages: titles, their release and     *)
(* files, NBC checks, elected loops, caches, alerts, the connection pool,  *)
(* comments, curated lists and the uploads.                                *)
EXTENDS Naturals, Sequences, TLC, Parts

CONSTANTS
  r1, r2, ana, ben, m, s, e, w1, w2, gone, disk, free, legacy, twin, custom, carousel,
  plain, drama, comedy,
  (* Of the parts that PlatformProofs proves of any values.                *)
  CachedWorkers, CachedReaders, CachedEditors, CachedTtl, CachedLag, CachedTime,
  CachedVersions,
  PoolRequests, PoolSize, PoolWait, PoolCommand, PoolAttempts, PoolCooldown, PoolPing,
  PoolTime,
  ForumRequests, ForumPeople, ForumComments, ForumDepth, ForumValues, ForumKinds,
  ForumEdits,
  CuratedLists, CuratedTypes, CuratedCaps, CuratedLimits, CuratedGenres, CuratedTitles, CuratedRequests,
  AlarmConditions, AlarmNeeded, AlarmErrors, AlarmDedup, AlarmMinute, AlarmPerMinute,
  AlarmThrottle, AlarmQueue, AlarmTime, AlarmReports,
  NoticeRequests, NoticeIntents, NoticeCallers, NoticeAlarms, NoticeDays,
  ChecksCodes, ChecksIntents, ChecksBuyers, ChecksSweeper, ChecksUnpaid, ChecksUnknown,
  ChecksPaid, ChecksQuota, ChecksBrief, ChecksLag, ChecksMax, ChecksWindow, ChecksRedis,
  ChecksTime, ChecksResets,
  UploadTitles, UploadKinds, UploadFiles, UploadRequests

(* Requests, processes and editors are interchangeable in every part.      *)
Symmetric == Permutations({r1, r2})

(* Titles: a movie, a series, a series with an episode, a podcast.          *)
Film == INSTANCE TitlesProofs WITH
  Movies <- {m}, Serials <- {}, Episodes <- {}, Podcasts <- {},
  Editors <- {r1, r2}, Limit <- 1, MaxTime <- 1, Gone <- gone, row <- s1,
  now <- s2, pass <- s3, req <- s4

Serial == INSTANCE TitlesProofs WITH
  Movies <- {}, Serials <- {s}, Episodes <- {}, Podcasts <- {},
  Editors <- {r1, r2}, Limit <- 1, MaxTime <- 1, Gone <- gone, row <- s1,
  now <- s2, pass <- s3, req <- s4

Episode == INSTANCE TitlesProofs WITH
  Movies <- {}, Serials <- {s}, Episodes <- {e}, Podcasts <- {}, Editors <- {r1},
  Limit <- 1, MaxTime <- 1, Gone <- gone, row <- s1, now <- s2, pass <- s3,
  req <- s4

Podcast == INSTANCE TitlesProofs WITH
  Movies <- {}, Serials <- {}, Episodes <- {}, Podcasts <- {m},
  Editors <- {r1, r2}, Limit <- 1, MaxTime <- 1, Gone <- gone, row <- s1,
  now <- s2, pass <- s3, req <- s4

(* Probes: one code and other workers, a code and the one it replaced.     *)
Checks(name) == INSTANCE Probes WITH
  Codes <- ChecksCodes[name], IntentOf <- ChecksIntents[name], Buyers <- ChecksBuyers,
  Sweeper <- ChecksSweeper, UnpaidTtl <- ChecksUnpaid, UnknownTtl <- ChecksUnknown,
  PaidTtl <- ChecksPaid, Quota <- ChecksQuota, Brief <- ChecksBrief, Lag <- ChecksLag,
  MaxChecks <- ChecksMax[name], Window <- ChecksWindow, HasRedis <- ChecksRedis[name],
  MaxTime <- ChecksTime[name], MaxResets <- ChecksResets, now <- s1, paid <- s2,
  cache <- s3, blocked <- s4, shared <- s5, pause <- s6, used <- s7, call <- s8,
  batch <- s9, heard <- s10, asks <- s11, resets <- s12

Codes1   == [checks |-> {m}, codes |-> {m, s}]
Intents1 == [checks |-> m :> s, codes |-> (m :> s) @@ (s :> s)]
Max1     == [checks |-> 2, codes |-> 1]
Redis1   == [checks |-> TRUE, codes |-> FALSE]
Time1    == [checks |-> 3, codes |-> 2]

(* Leader: two processes on one host, then on two.                         *)
Loops == INSTANCE LeaderProofs WITH
  Processes <- {r1, r2}, HostOf <- [p \in {r1, r2} |-> s], Ttl <- 2, MaxTime <- 3,
  now <- s1, key <- s2, file <- s3, at <- s4, lock <- s5, since <- s6,
  excused <- s7

Hosts == INSTANCE LeaderProofs WITH
  Processes <- {r1, r2}, HostOf <- [p \in {r1, r2} |-> p], Ttl <- 2, MaxTime <- 3,
  now <- s1, key <- s2, file <- s3, at <- s4, lock <- s5, since <- s6,
  excused <- s7

Cached == INSTANCE Caches WITH
  Workers <- CachedWorkers, Readers <- CachedReaders, Editors <- CachedEditors,
  Ttl <- CachedTtl, Lag <- CachedLag, MaxTime <- CachedTime,
  MaxVersion <- CachedVersions, now <- s1, version <- s2, replaced <- s3,
  local <- s4, shared <- s5, req <- s6

Alarm == INSTANCE Alerts WITH
  Conditions <- AlarmConditions, Needed <- AlarmNeeded, Errors <- AlarmErrors,
  Dedup <- AlarmDedup, Minute <- AlarmMinute, PerMinute <- AlarmPerMinute,
  Throttle <- AlarmThrottle, QueueSize <- AlarmQueue, MaxTime <- AlarmTime,
  MaxReports <- AlarmReports, now <- s1, bad <- s2, streak <- s3, active <- s4, last <- s5,
  queue <- s6, post <- s7, seen <- s8, sent <- s9, dropped <- s10, told <- s11,
  missed <- s12, arrived <- s13, counted <- s14, lost <- s15

Needed1 == disk :> 1

(* Notices: what is told of two payments; one alarm, three calls.          *)
Notice(name) == INSTANCE Notices WITH
  Requests <- NoticeRequests[name], Intents <- NoticeIntents[name],
  Callers <- NoticeCallers[name], Alarms <- NoticeAlarms[name], MaxDay <- NoticeDays[name],
  status <- s1, lock <- s2, req <- s3, told <- s4, untold <- s5, day <- s6, stamp <- s7,
  call <- s8, sent <- s9, failed <- s10, late <- s11

Requests2 == [payments |-> {r1, r2}, daily |-> {}]
Intents2  == [payments |-> {m, s}, daily |-> {}]
Callers2  == [payments |-> {}, daily |-> {r1, r2, ben}]
Alarms2   == [payments |-> {}, daily |-> {disk}]
Days2     == [payments |-> 1, daily |-> 2]

Pool == INSTANCE Database WITH
  Requests <- PoolRequests, Pool <- PoolSize, PoolTimeout <- PoolWait,
  Command <- PoolCommand, Attempts <- PoolAttempts, Cooldown <- PoolCooldown,
  Ping <- PoolPing, MaxTime <- PoolTime, now <- s1, up <- s2, ready <- s3, probe <- s4,
  nextAt <- s5, failed <- s6, req <- s7, data <- s8, count <- s9

(* Comments: one person and a comment, two who rate, two in a thread.      *)
Forum(name) == INSTANCE Comments WITH
  Requests <- ForumRequests, People <- ForumPeople[name], Comments <- ForumComments[name],
  MaxDepth <- ForumDepth, Values <- ForumValues[name], Kinds <- ForumKinds[name],
  active <- s1, comment <- s2, blocks <- s3, kept <- s4, stars <- s5, shown <- s6,
  Edits <- ForumEdits[name], req <- s7, loose <- s8, right <- s9

People3   == [talk |-> {ana}, stars |-> {ana, ben}, thread |-> {ana, ben}]
Comments3 == [talk |-> {w1}, stars |-> {}, thread |-> {w1, w2}]
Values3   == [talk |-> {}, stars |-> {1, 2}, thread |-> {}]
Edits3    == [talk |-> {}, stars |-> {30}, thread |-> {}]
Kinds3    == [talk |-> {"favorite", "progress", "vote", "report"}, stars |-> {}, thread |-> {}]

(* Curation: the free rail with the table behind it, two sections of one   *)
(* kind, rails of two genres, a section whose items are picked, a carousel.*)
Curated(name) == INSTANCE Curation WITH
  Lists <- CuratedLists[name], TypeOf <- CuratedTypes, Cap <- CuratedCaps[name],
  Limits <- CuratedLimits[name], Titles <- CuratedTitles[name],
  Genres <- CuratedGenres[name], Requests <- CuratedRequests[name], there <- s1,
  visible <- s2, limit <- s3, rows <- s4, title <- s5, req <- s6, genre <- s7

Types == (free :> "free_today") @@ (twin :> "free_today") @@ (legacy :> "table:free")
         @@ (w1 :> "genre") @@ (w2 :> "genre") @@ (custom :> "custom") @@ (carousel :> "carousel")
Lists4 == [rail |-> {free, legacy}, twins |-> {free, twin}, genres |-> {w1, w2},
           picks |-> {custom}, slides |-> {carousel}]
Caps4 == [name \in DOMAIN Lists4 |-> [l \in Lists4[name] |-> IF l = carousel THEN None ELSE 1]]
Limits4 == [rail |-> {2}, twins |-> {1}, genres |-> {2}, picks |-> {1}, slides |-> {1}]
Genres4 == [name \in DOMAIN Lists4 |-> IF name = "genres" THEN {drama, comedy} ELSE {}]
Titles4 == [rail |-> {m, s}, twins |-> {m}, genres |-> {}, picks |-> {m, s}, slides |-> {m, s}]
Requests4 == [name \in DOMAIN Lists4 |-> IF name = "rail" THEN {r1} ELSE {r1, r2}]

(* Uploads: two movies and two podcasts of one name; an episode and what   *)
(* has a logo only, with a file sent again.                                *)
Upload(name) == INSTANCE Uploads WITH
  Titles <- UploadTitles[name], KindOf <- UploadKinds[name], Files <- UploadFiles[name],
  Requests <- UploadRequests[name], Name <- plain, slug <- s1, parts <- s2, url <- s3,
  export <- s4, file <- s5, video <- s6, images <- s7, row <- s8, req <- s9, mixed <- s10,
  loose <- s11

Kinds5 == [clips |-> (m :> "movie") @@ (s :> "movie"), covers |-> e :> "episode",
           audio |-> (m :> "podcast") @@ (s :> "podcast"),
           logos |-> (m :> "channel") @@ (s :> "series") @@ (e :> "promotion")]
Titles5 == [name \in DOMAIN Kinds5 |-> DOMAIN Kinds5[name]]
Files5  == [clips |-> {}, covers |-> {disk}, audio |-> {}, logos |-> {disk}]
Requests5 == [name \in DOMAIN Kinds5 |-> IF name = "clips" THEN {r1} ELSE {r1, r2}]

(* What the theorems about the parts ask of their constants.               *)
ASSUME PartConstants ==
  /\ Loops!LeaderConstants /\ Hosts!LeaderConstants
  /\ Film!TitlesConstants /\ Serial!TitlesConstants /\ Episode!TitlesConstants
  /\ Podcast!TitlesConstants /\ Cached!CacheConstants /\ Pool!DatabaseConstants
  /\ Forum("talk")!CommentsConstants /\ Forum("stars")!CommentsConstants
  /\ Forum("thread")!CommentsConstants
  /\ Curated("rail")!CurationConstants /\ Curated("twins")!CurationConstants
  /\ Curated("genres")!CurationConstants
  /\ Curated("picks")!CurationConstants /\ Curated("slides")!CurationConstants
  /\ Alarm!AlertsConstants
  /\ Notice("payments")!NoticesConstants /\ Notice("daily")!NoticesConstants
  /\ Checks("checks")!ProbesConstants /\ Checks("codes")!ProbesConstants
  /\ Upload("clips")!UploadsConstants /\ Upload("covers")!UploadsConstants
  /\ Upload("audio")!UploadsConstants /\ Upload("logos")!UploadsConstants

Init ==
  \/ part = "film" /\ Film!Init /\ Off4
  \/ part = "serial" /\ Serial!Init /\ Off4
  \/ part = "episode" /\ Episode!Init /\ Off4
  \/ part = "podcast" /\ Podcast!Init /\ Off4
  \/ part = "checks" /\ Checks("checks")!Init /\ Off12
  \/ part = "codes" /\ Checks("codes")!Init /\ Off12
  \/ part = "loops" /\ Loops!Init /\ Off7
  \/ part = "hosts" /\ Hosts!Init /\ Off7
  \/ part = "cached" /\ Cached!Init /\ Off6
  \/ part = "alarm" /\ Alarm!Init
  \/ part = "payments" /\ Notice("payments")!Init /\ Off11
  \/ part = "daily" /\ Notice("daily")!Init /\ Off11
  \/ part = "pool" /\ Pool!Init /\ Off9
  \/ part = "talk" /\ Forum("talk")!Init /\ Off9
  \/ part = "stars" /\ Forum("stars")!Init /\ Off9
  \/ part = "thread" /\ Forum("thread")!Init /\ Off9
  \/ part = "rail" /\ Curated("rail")!Init /\ Off7
  \/ part = "twins" /\ Curated("twins")!Init /\ Off7
  \/ part = "genres" /\ Curated("genres")!Init /\ Off7
  \/ part = "picks" /\ Curated("picks")!Init /\ Off7
  \/ part = "slides" /\ Curated("slides")!Init /\ Off7
  \/ part = "clips" /\ Upload("clips")!Init /\ Off11
  \/ part = "covers" /\ Upload("covers")!Init /\ Off11
  \/ part = "audio" /\ Upload("audio")!Init /\ Off11
  \/ part = "logos" /\ Upload("logos")!Init /\ Off11

Next ==
  \/ part = "film" /\ Film!Next /\ UNCHANGED Rest4
  \/ part = "serial" /\ Serial!Next /\ UNCHANGED Rest4
  \/ part = "episode" /\ Episode!Next /\ UNCHANGED Rest4
  \/ part = "podcast" /\ Podcast!Next /\ UNCHANGED Rest4
  \/ part = "checks" /\ Checks("checks")!Next /\ UNCHANGED Rest12
  \/ part = "codes" /\ Checks("codes")!Next /\ UNCHANGED Rest12
  \/ part = "loops" /\ Loops!Next /\ UNCHANGED Rest7
  \/ part = "hosts" /\ Hosts!Next /\ UNCHANGED Rest7
  \/ part = "cached" /\ Cached!Next /\ UNCHANGED Rest6
  \/ part = "alarm" /\ Alarm!Next /\ UNCHANGED part
  \/ part = "payments" /\ Notice("payments")!Next /\ UNCHANGED Rest11
  \/ part = "daily" /\ Notice("daily")!Next /\ UNCHANGED Rest11
  \/ part = "pool" /\ Pool!Next /\ UNCHANGED Rest9
  \/ part = "talk" /\ Forum("talk")!Next /\ UNCHANGED Rest9
  \/ part = "stars" /\ Forum("stars")!Next /\ UNCHANGED Rest9
  \/ part = "thread" /\ Forum("thread")!Next /\ UNCHANGED Rest9
  \/ part = "rail" /\ Curated("rail")!Next /\ UNCHANGED Rest7
  \/ part = "twins" /\ Curated("twins")!Next /\ UNCHANGED Rest7
  \/ part = "genres" /\ Curated("genres")!Next /\ UNCHANGED Rest7
  \/ part = "picks" /\ Curated("picks")!Next /\ UNCHANGED Rest7
  \/ part = "slides" /\ Curated("slides")!Next /\ UNCHANGED Rest7
  \/ part = "clips" /\ Upload("clips")!Next /\ UNCHANGED Rest11
  \/ part = "covers" /\ Upload("covers")!Next /\ UNCHANGED Rest11
  \/ part = "audio" /\ Upload("audio")!Next /\ UNCHANGED Rest11
  \/ part = "logos" /\ Upload("logos")!Next /\ UNCHANGED Rest11

Spec == Init /\ [][Next]_vars

(* Titles: a poster that arrived survives the saves of others.             *)
PosterKept == [][
  /\ part = "film" => Film!Posters
  /\ part = "serial" => Serial!Posters
  /\ part = "episode" => Episode!Posters
  /\ part = "podcast" => Podcast!Posters]_vars

(* Titles: the sweeper releases only what is due when it commits.          *)
ReleasedOnTime == [][
  /\ part = "film" => Film!OnTime
  /\ part = "serial" => Serial!OnTime
  /\ part = "episode" => Episode!OnTime
  /\ part = "podcast" => Podcast!OnTime]_vars

(* Probes: NBC is left alone as long as it asked for, but for the moment   *)
(* of the alert, and an intent's checks stay within its budgets.           *)
QuotaHeard == [][
  /\ part = "checks" => Checks("checks")!Silent /\ Checks("checks")!ChecksBounded'
  /\ part = "codes" => Checks("codes")!Silent /\ Checks("codes")!ChecksBounded']_vars

(* Leader: one process is in the loop.                                     *)
OneLoop == (part = "loops" => Loops!OneLoop) /\ (part = "hosts" => Hosts!OneLoop)

(* Caches: an answer is never out of date by two lifetimes and two requests.*)
StalenessBounded == part = "cached" => Cached!StalenessBounded

(* Alerts: every alert is told or counted, once, and the chat shows what   *)
(* the watchdog knows.  Notices: payments and limits are told once.        *)
AlertsArrive ==
  /\ part = "alarm" => Alarm!Accounted /\ Alarm!ChatAgrees
  /\ part = "payments" => Notice("payments")!PaymentsTold
  /\ part = "daily" => Notice("daily")!OnceADay

(* Database: probes keep their distance, and a list request ends in time.  *)
DatabaseAnswers == part = "pool" => Pool!ProbesSpaced /\ Pool!AnsweredInTime

(* Comments: a deleted account leaves nothing behind.                      *)
DeletionErases ==
  /\ part = "talk" => Forum("talk")!DeletionErases
  /\ part = "stars" => Forum("stars")!DeletionErases
  /\ part = "thread" => Forum("thread")!DeletionErases

(* Comments: nothing below a hidden comment is listed.                     *)
NothingBelowHidden ==
  /\ part = "talk" => Forum("talk")!NothingBelowHidden
  /\ part = "stars" => Forum("stars")!NothingBelowHidden
  /\ part = "thread" => Forum("thread")!NothingBelowHidden

(* Comments: the rating is an average of the stars the last to rate saw.   *)
AverageShown ==
  /\ part = "talk" => Forum("talk")!AverageShown
  /\ part = "stars" => Forum("stars")!AverageShown
  /\ part = "thread" => Forum("thread")!AverageShown

(* Curation: what the free rail shows is free.                             *)
RailIsFree ==
  /\ part = "rail" => Curated("rail")!RailIsFree
  /\ part = "twins" => Curated("twins")!RailIsFree
  /\ part = "genres" => Curated("genres")!RailIsFree
  /\ part = "picks" => Curated("picks")!RailIsFree
  /\ part = "slides" => Curated("slides")!RailIsFree

(* Curation: a change leaves what its check promised.                      *)
ChangesAreWhole == [][
  /\ part = "rail" => Curated("rail")!Kept
  /\ part = "twins" => Curated("twins")!Kept
  /\ part = "genres" => Curated("genres")!Kept
  /\ part = "picks" => Curated("picks")!Kept
  /\ part = "slides" => Curated("slides")!Kept]_vars

(* Uploads: a row's pictures are there and its video is its own.           *)
UploadsWhole ==
  /\ part = "clips" => Upload("clips")!PicturesExist /\ Upload("clips")!VideoIsOwn
  /\ part = "covers" => Upload("covers")!PicturesExist /\ Upload("covers")!VideoIsOwn
  /\ part = "audio" => Upload("audio")!PicturesExist /\ Upload("audio")!VideoIsOwn
  /\ part = "logos" => Upload("logos")!PicturesExist /\ Upload("logos")!VideoIsOwn
=============================================================================
