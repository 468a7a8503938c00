------------------------------ MODULE Playback ------------------------------
(***************************************************************************)
(* From the entitlement check to the addresses a player gets: a token per  *)
(* title that anybody may carry, playlists read from the bucket and kept   *)
(* in two layers (as read, and rewritten), each in every worker and in     *)
(* Redis.  One title and one of its playlists; or one live channel, whose  *)
(* playlist is only kept by the worker.                                    *)
(*   app/routers/{playback,tv}.py, app/routers/admin/playback.py,          *)
(*   app/services/{playback,live_playback}.py, app/core/security.py        *)
(***************************************************************************)
EXTENDS Integers

CONSTANTS
  Workers, Requests, WorkerOf, None,
  IsChannel,
  Life,            \* of a token, and of a signed address
  Ttl,             \* _PLAYLIST_CACHE_TTL
  Lag              \* how long one request takes at most

VARIABLES
  public,          \* the title, or the channel, is published
  state,           \* "off", "starting" (channels) or "live": the stream is there
  token,           \* the last token: what is left of it, the age of its check
  rawIn, bodyIn,   \* a worker's playlists, as read and rewritten
  rawShared, bodyShared,
  req              \* a request: its age, and those of what it has in hand

vars == <<public, state, token, rawIn, bodyIn, rawShared, bodyShared, req>>

(* A copy has a time left, and the ages of the text and of its addresses.  *)
Idle == [op |-> "idle", at |-> "none", age |-> 0, asked |-> 0, body |-> 0, raw |-> 0,
         read |-> 0, made |-> 0]
Copy(left, read, made) ==
  IF left < 1 THEN None ELSE [left |-> left, read |-> read, made |-> made]
To(r, at) == [req EXCEPT ![r].at = at]

Init ==
  /\ public = TRUE /\ state = "live" /\ token = None
  /\ rawIn = [w \in Workers |-> None] /\ bodyIn = [w \in Workers |-> None]
  /\ rawShared = None /\ bodyShared = None
  /\ req = [r \in Requests |-> Idle]

caches == <<rawIn, bodyIn, rawShared, bodyShared>>

-----------------------------------------------------------------------------
(* authorize_playback, asked by somebody can_access_content lets through   *)
(* (of a channel: can_access_channel), or by an administrator, who needs no*)
(* published title.                                                        *)
Begin(r, op, at, asked) ==
  /\ req[r] = Idle
  /\ req' = [req EXCEPT ![r] = [Idle EXCEPT !.op = op, !.at = at, !.asked = asked]]
  /\ UNCHANGED <<public, state, token, caches>>

authorize_playback(r) ==
  ~IsChannel /\ public /\ state = "live" /\ Begin(r, "token", "mint", 0)
authorize_channel_playback(r) ==
  IsChannel /\ public /\ state # "off" /\ Begin(r, "token", "mint", 0)
admin_authorize_playback(r) ==
  ~IsChannel /\ state = "live" /\ Begin(r, "token", "mint", 0)

create_playback_token(r) ==
  /\ req[r].at = "mint"
  /\ token' = [left |-> Life, asked |-> req[r].asked]
  /\ req' = [req EXCEPT ![r] = Idle]
  /\ UNCHANGED <<public, state, caches>>

verify_playback_token(t) == t # None

(* Nobody is asked about the title again; only a channel must be public.   *)
master_playlist(r) ==
  /\ ~IsChannel /\ verify_playback_token(token) /\ state = "live"
  /\ Begin(r, "master", "raw", token.asked)
variant_playlist(r) ==
  /\ ~IsChannel /\ verify_playback_token(token) /\ state = "live"
  /\ Begin(r, "variant", "body", token.asked)
channel_live_playlist(r) ==
  /\ IsChannel /\ verify_playback_token(token) /\ public /\ state = "live"
  /\ Begin(r, "live", "raw", token.asked)

-----------------------------------------------------------------------------
(* Mutant: a copy taken from Redis gets a lifetime on top of what is left.  *)
Renewed(e, since) == [e EXCEPT !.left = @ + Ttl + Lag]

(* A copy taken from Redis is kept for a lifetime from when it was missed. *)
Refilled(e, since) == Copy(Ttl - since, e.read, e.made)

(* build_variant_playlist: the worker's copy, the shared one, or a new one.*)
LookBody(r) ==
  LET body == bodyIn[WorkerOf[r]] IN
  /\ req[r].at = "body"
  /\ req' = IF body # None
              THEN [req EXCEPT ![r].at = "served", ![r].read = body.read, ![r].made = body.made]
              ELSE To(r, "sharedBody")
  /\ UNCHANGED <<public, state, token, caches>>

SharedBody(r, ok) ==
  /\ req[r].at = "sharedBody"
  /\ IF ok /\ bodyShared # None
       THEN /\ bodyIn' = [bodyIn EXCEPT ![WorkerOf[r]] = Refilled(bodyShared, req[r].body)]
            /\ req' = [req EXCEPT ![r].at = "served", ![r].read = bodyShared.read,
                                  ![r].made = bodyShared.made]
       ELSE bodyIn' = bodyIn /\ req' = To(r, "raw")
  /\ UNCHANGED <<public, state, token, rawIn, rawShared, bodyShared>>

(* A master or a live playlist is rewritten every time.                    *)
Got(r, read) ==
  [req EXCEPT ![r].at = IF req[r].op = "variant" THEN "rewrite" ELSE "served",
              ![r].read = read, ![r].made = 0]

(* _get_object_text, and _fetch_playlist_text of a live channel.           *)
LookRaw(r) ==
  LET raw == rawIn[WorkerOf[r]] IN
  /\ req[r].at = "raw"
  /\ req' = IF raw # None THEN Got(r, raw.read)
            ELSE To(r, IF IsChannel THEN "fetch" ELSE "sharedRaw")
  /\ UNCHANGED <<public, state, token, caches>>

SharedRaw(r, ok) ==
  /\ req[r].at = "sharedRaw"
  /\ IF ok /\ rawShared # None
       THEN /\ rawIn' = [rawIn EXCEPT ![WorkerOf[r]] = Refilled(rawShared, req[r].raw)]
            /\ req' = Got(r, rawShared.read)
       ELSE rawIn' = rawIn /\ req' = To(r, "fetch")
  /\ UNCHANGED <<public, state, token, bodyIn, rawShared, bodyShared>>

(* The bucket, or the channel's origin, fails or answers.                  *)
Fetch(r, ok) ==
  /\ req[r].at = "fetch"
  /\ req' = IF ok THEN To(r, "keepRaw") ELSE [req EXCEPT ![r] = Idle]
  /\ UNCHANGED <<public, state, token, caches>>

KeepRaw(r) ==
  /\ req[r].at = "keepRaw"
  /\ rawIn' = [rawIn EXCEPT ![WorkerOf[r]] = Copy(Ttl - req[r].raw, req[r].read, 0)]
  /\ req' = IF IsChannel THEN Got(r, req[r].read) ELSE To(r, "shareRaw")
  /\ UNCHANGED <<public, state, token, bodyIn, rawShared, bodyShared>>

ShareRaw(r, ok) ==
  /\ req[r].at = "shareRaw"
  /\ rawShared' = IF ok THEN Copy(Ttl, req[r].read, 0) ELSE rawShared
  /\ req' = Got(r, req[r].read)
  /\ UNCHANGED <<public, state, token, rawIn, bodyIn, bodyShared>>

(* _rewrite_variant_text signs addresses for Life from now, in a thread.   *)
Rewrite(r) ==
  /\ req[r].at = "rewrite"
  /\ req' = To(r, "keepBody")
  /\ UNCHANGED <<public, state, token, caches>>

KeepBody(r) ==
  /\ req[r].at = "keepBody"
  /\ bodyIn' = [bodyIn EXCEPT ![WorkerOf[r]] = Copy(Ttl - req[r].body, req[r].read, req[r].made)]
  /\ req' = To(r, "shareBody")
  /\ UNCHANGED <<public, state, token, rawIn, rawShared, bodyShared>>

ShareBody(r, ok) ==
  /\ req[r].at = "shareBody"
  /\ bodyShared' = IF ok THEN Copy(Ttl, req[r].read, req[r].made) ELSE bodyShared
  /\ req' = To(r, "served")
  /\ UNCHANGED <<public, state, token, rawIn, bodyIn, rawShared>>

Done(r) ==
  /\ req[r].at = "served"
  /\ req' = [req EXCEPT ![r] = Idle]
  /\ UNCHANGED <<public, state, token, caches>>

-----------------------------------------------------------------------------
(* A title taken back; a stream that is made again, a channel that stops.  *)
Publish == public' = ~public /\ UNCHANGED <<state, token, caches, req>>
Turn(s) ==
  /\ s # state /\ (s = "starting" => IsChannel)
  /\ state' = s
  /\ UNCHANGED <<public, token, caches, req>>

(* Time: what is in hand and what is kept grows older.                     *)
Older(copy, signed) ==
  IF copy = None THEN None ELSE Copy(copy.left - 1, copy.read + 1, copy.made + signed)
Aged(q) ==
  IF q = Idle THEN Idle
  ELSE [q EXCEPT !.age = @ + 1, !.asked = @ + 1,
          !.body = IF q.op = "variant" /\ q.at # "body" THEN @ + 1 ELSE 0,
          !.raw = IF q.at \in {"sharedRaw", "fetch", "keepRaw"} THEN @ + 1 ELSE 0,
          !.read = IF q.at \in {"keepRaw", "shareRaw", "rewrite", "keepBody", "shareBody", "served"}
                     THEN @ + 1 ELSE 0,
          !.made = IF q.at \in {"keepBody", "shareBody", "served"} THEN @ + 1 ELSE 0]

Tick ==
  /\ \A r \in Requests : req[r] = Idle \/ req[r].age < Lag
  /\ token' = IF token = None \/ token.left = 1 THEN None
              ELSE [left |-> token.left - 1, asked |-> token.asked + 1]
  /\ rawIn' = [w \in Workers |-> Older(rawIn[w], 0)]
  /\ bodyIn' = [w \in Workers |-> Older(bodyIn[w], 1)]
  /\ rawShared' = Older(rawShared, 0) /\ bodyShared' = Older(bodyShared, 1)
  /\ req' = [r \in Requests |-> Aged(req[r])]
  /\ UNCHANGED <<public, state>>

Next ==
  \/ \E r \in Requests :
       \/ authorize_playback(r) \/ authorize_channel_playback(r) \/ admin_authorize_playback(r)
       \/ create_playback_token(r)
       \/ master_playlist(r) \/ variant_playlist(r) \/ channel_live_playlist(r)
       \/ LookBody(r) \/ LookRaw(r) \/ KeepRaw(r) \/ Rewrite(r) \/ KeepBody(r) \/ Done(r)
       \/ \E ok \in BOOLEAN :
            SharedBody(r, ok) \/ SharedRaw(r, ok) \/ Fetch(r, ok) \/ ShareRaw(r, ok) \/ ShareBody(r, ok)
  \/ Publish \/ \E s \in {"off", "starting", "live"} : Turn(s)
  \/ Tick

Spec == Init /\ [][Next]_vars

-----------------------------------------------------------------------------
Served == {req[r] : r \in {s \in Requests : req[s].at = "served"}}

(* A copy kept for Ttl is last used at an age of Ttl - 1, one of a request *)
(* that was missed earlier loses what the request took.                    *)

(* What a player is told is at most four lifetimes behind the bucket, two  *)
(* of each layer (the shared copy, and the worker's refilled from it).     *)
Fresh == \A q \in Served : q.read <= 4 * (Ttl - 1) + 3 * Lag

(* Its addresses are good for all but two lifetimes of their term.         *)
Lasting == \A q \in Served : q.made <= 2 * (Ttl - 1) + 2 * Lag

(* And they are signed at most one term after someone passed the check.    *)
Ending == \A q \in Served : q.asked - q.made <= Life - 1 + 2 * Lag

(* Playlists are in time, whoever filled which copy when, with Redis       *)
(* failing at any step: they follow the bucket, carry addresses that last, *)
(* and access ends after it was last granted (build_variant_playlist,      *)
(* _get_object_text, verify_playback_token).                               *)
PlaylistsInTime == Fresh /\ Lasting /\ Ending

-----------------------------------------------------------------------------
(* The inductive strengthening: what a copy will be when it ends, and what *)
(* a request has in hand besides its own age.                              *)
Ops == {"idle", "token", "master", "variant", "live"}
Steps == {"none", "mint", "body", "sharedBody", "raw", "sharedRaw", "fetch", "keepRaw",
          "shareRaw", "rewrite", "keepBody", "shareBody", "served"}
CopyType == [left : Nat \ {0}, read : Nat, made : Nat]
TokenType == [left : Nat \ {0}, asked : Nat]
ReqType == [op : Ops, at : Steps, age : Nat, asked : Nat, body : Nat, raw : Nat,
            read : Nat, made : Nat]

TypeOK ==
  /\ token \in TokenType \cup {None}
  /\ rawIn \in [Workers -> CopyType \cup {None}]
  /\ bodyIn \in [Workers -> CopyType \cup {None}]
  /\ rawShared \in CopyType \cup {None} /\ bodyShared \in CopyType \cup {None}
  /\ req \in [Requests -> ReqType]

EndsBy(copy, read, made) ==
  copy # None => copy.left + copy.read <= read /\ copy.left + copy.made <= made

InTime(q) ==
  /\ q.age <= Lag /\ q.body <= q.age /\ q.raw <= q.age
  /\ q.op = "idle" \/ q.at = "none" => q = Idle
  /\ q.at = "mint" => q.op = "token" /\ q.asked <= q.age
  /\ q.at # "mint" => q.asked <= Life - 1 + Lag + q.age
  /\ q.op = "variant" => q.raw <= q.body
  /\ q.at \in {"mint", "body", "sharedBody", "raw", "sharedRaw", "fetch"} => q.read = 0
  /\ q.at \in {"mint", "body", "sharedBody", "raw"} => q.raw = 0
  /\ q.at \in {"mint", "body"} => q.body = 0
  /\ q.at = "keepRaw" => q.read <= q.raw
  /\ q.at = "shareRaw" => q.read <= q.age /\ (q.op = "variant" => q.read <= q.body)
  /\ q.at \in {"rewrite", "keepBody", "shareBody"} =>
       q.op = "variant" /\ q.read <= 2 * (Ttl - 1) + Lag + q.body
  /\ q.at \notin {"keepBody", "shareBody", "served"} => q.made = 0
  /\ q.at \in {"keepBody", "shareBody"} => q.made <= q.body
  /\ q.at = "served" => /\ q.read <= 4 * (Ttl - 1) + 2 * Lag + q.age
                        /\ q.made <= 2 * (Ttl - 1) + Lag + q.age

Kept ==
  /\ EndsBy(rawShared, Ttl + Lag, Ttl)
  /\ EndsBy(bodyShared, 3 * Ttl - 2 + 2 * Lag, Ttl + Lag)
  /\ \A w \in Workers :
       /\ EndsBy(rawIn[w], 2 * Ttl - 1 + Lag, 2 * Ttl)
       /\ EndsBy(bodyIn[w], 4 * Ttl - 3 + 2 * Lag, 2 * Ttl - 1 + Lag)
  /\ token # None => token.left + token.asked <= Life + Lag

IInv == TypeOK /\ Kept /\ \A r \in Requests : InTime(req[r])

PlaybackConstants ==
  /\ WorkerOf \in [Requests -> Workers] /\ None \notin CopyType \cup TokenType
  /\ Life \in Nat \ {0} /\ Ttl \in Nat \ {0} /\ Lag \in Nat
=============================================================================
