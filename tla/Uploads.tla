------------------------------ MODULE Uploads ------------------------------
(***************************************************************************)
(* Videos, audio and pictures: the API hands out presigned addresses, the  *)
(* browser sends the bytes to the bucket, a second request checks what has *)
(* arrived, shrinks the picture and writes the row.  The bucket and the    *)
(* database share no transaction.                                          *)
(*   app/routers/{movies,series}.py, app/routers/admin/{movies,podcasts,   *)
(*   promotions,tv_channels,playback}.py, app/services/{content_upload,    *)
(*   storage,image_process,r2_keys,transcode_client}.py,                   *)
(*   app/catalog/content_slug.py                                           *)
(***************************************************************************)
CONSTANTS
  Titles, KindOf,  \* "movie", "episode", "podcast", "series", "promotion" or "channel"
  Files,           \* pictures, each under a name of its own
  Requests,
  Name,            \* the slug all of them ask for; t itself stands for it with a suffix
  None

VARIABLES
  slug,      \* slug[t]: chosen when t was started
  parts,     \* the multipart upload of t: "none", "open" or "closed"
  url,       \* the titles with an address their video may be sent to
  export,    \* the titles whose stream is being written back as a source file
  file,      \* file[f]: the title a picture is for and the form it is sent in
  video,     \* the bucket, video[k]: whose video the object at k is
  images,    \* the bucket: the <<picture, form>> that exist
  row,       \* row[t]: the title's row, None before it and after its deletion
  req,       \* a request between two of its steps
  mixed,     \* video keys two titles had in use at once
  loose      \* pictures named by two requests, by one too many, or lost track of

vars == <<slug, parts, url, export, file, video, images, row, req, mixed, loose>>

Multipart == {"movie", "episode"}     \* the video arrives before the row is made
Unchecked == {"series", "promotion"}  \* nothing looks for the picture first
Content   == {"movie", "episode", "podcast"}

Idle == [op |-> "idle", at |-> "none", t |-> None, f |-> None, video |-> FALSE,
         was |-> None, key |-> None]
Unused(r) == req[r] = Idle

(* The folder of a title, where its video has a fixed name.                *)
Key(t)  == <<KindOf[t], slug[t]>>
Keys    == {KindOf[t] : t \in Titles} \X (Titles \cup {Name})
Sent(f) == <<f, file[f][2]>>
Of(t)   == {f \in Files : file[f] # None /\ file[f][1] = t}

Table(t)    == IF KindOf[t] \in Content THEN Content ELSE {KindOf[t]}
Taken(t, s) == \E k \in Titles : row[k] # None /\ slug[k] = s /\ KindOf[k] \in Table(t)

Init ==
  /\ slug = [t \in Titles |-> None] /\ parts = [t \in Titles |-> "none"]
  /\ url = {} /\ export = {}
  /\ file = [f \in Files |-> None]
  /\ video = [k \in Keys |-> None] /\ images = {}
  /\ row = [t \in Titles |-> None]
  /\ req = [r \in Requests |-> Idle]
  /\ mixed = {} /\ loose = {}

-----------------------------------------------------------------------------
(* Starting.                                                               *)

(* Mutant: a slug that is taken is used again.                             *)
PlainSlug(t) == Name

(* A suffix of random digits once the plain slug has a row.                *)
unique_content_slug(t) == IF Taken(t, Name) THEN t ELSE Name

(* Somebody may still write the video at the key of k.                     *)
Pending(k) ==
  parts[k] = "open" \/ k \in url \/ k \in export \/ \E r \in Requests : req[r].t = k
(* A row made before any file finds what a deleted title of its slug left. *)
Clash(t, s, draft) ==
  \/ \E k \in Titles \ {t} : KindOf[k] = KindOf[t] /\ slug[k] = s /\ Pending(k)
  \/ draft /\ KindOf[t] \in Content /\ video[<<KindOf[t], s>>] # None

Named(t, s, draft) ==
  /\ slug' = [slug EXCEPT ![t] = s]
  /\ mixed' = IF Clash(t, s, draft) THEN mixed \cup {<<KindOf[t], s>>} ELSE mixed

(* A picture gets a fresh name; a WebP stays one, anything else becomes one.*)
Picture(t, f, form) ==
  file' = IF f = None THEN file ELSE [file EXCEPT ![f] = <<t, form>>]

(* start_multipart_upload: the addresses of the parts and of the picture.  *)
Open(t, f, form) ==
  /\ parts' = [parts EXCEPT ![t] = "open"]
  /\ Picture(t, f, form)

StartMovie(t, f, form) ==
  /\ KindOf[t] = "movie" /\ slug[t] = None
  /\ Named(t, unique_content_slug(t), FALSE) /\ Open(t, f, form)
  /\ UNCHANGED <<url, export, video, images, row, req, loose>>

StartEpisode(t, f, form) ==
  /\ KindOf[t] = "episode" /\ slug[t] = None
  /\ Named(t, unique_content_slug(t), FALSE) /\ Open(t, f, form)
  /\ UNCHANGED <<url, export, video, images, row, req, loose>>

(* The others, and a movie that is to get its files later, have a row first.*)
CheckDraft(r, t) ==
  /\ Unused(r) /\ KindOf[t] # "episode" /\ slug[t] = None
  /\ Named(t, IF KindOf[t] = "promotion" THEN t ELSE unique_content_slug(t), TRUE)
  /\ req' = [req EXCEPT ![r] = [Idle EXCEPT !.op = "draft", !.at = "save", !.t = t]]
  /\ UNCHANGED <<parts, url, export, file, video, images, row, loose>>

(* New files of a title that has its row.                                  *)
Replace(t, kinds, f, form, withVideo) ==
  /\ row[t] # None /\ KindOf[t] \in kinds /\ (f # None \/ withVideo)
  /\ url' = IF withVideo THEN url \cup {t} ELSE url
  /\ Picture(t, f, form)
  /\ UNCHANGED <<slug, parts, export, video, images, row, req, mixed, loose>>

ReplaceMovie(t, f, form, v)   == Replace(t, {"movie"}, f, form, v)
ReplaceEpisode(t, f, form, v) == Replace(t, {"episode"}, f, form, v)
ReplacePodcast(t, f, form, v) == Replace(t, {"podcast"}, f, form, v)
ReplaceSeries(t, f, form)     == Replace(t, {"series"}, f, form, FALSE)
ReplacePromotion(t, f, form)  == Replace(t, {"promotion"}, f, form, FALSE)
ReplaceLogo(t, f, form)       == Replace(t, {"channel"}, f, form, FALSE)

(* The browser sends a picture, or the whole video to a single address.    *)
SendPicture(f) ==
  /\ file[f] # None /\ Sent(f) \notin images /\ <<f, "webp">> \notin images
  /\ images' = images \cup {Sent(f)}
  /\ UNCHANGED <<slug, parts, url, export, file, video, row, req, mixed, loose>>

SendVideo(t) ==
  /\ t \in url
  /\ video' = [video EXCEPT ![Key(t)] = t]
  /\ UNCHANGED <<slug, parts, url, export, file, images, row, req, mixed, loose>>

(* The address runs out after twelve hours.                                *)
Expire(t) ==
  /\ t \in url
  /\ url' = url \ {t}
  /\ UNCHANGED <<slug, parts, export, file, video, images, row, req, mixed, loose>>

(* A failure is swallowed; a completed upload is no longer there.          *)
Abort(t) ==
  /\ parts[t] = "open"
  /\ parts' = [parts EXCEPT ![t] = "closed"]
  /\ UNCHANGED <<slug, url, export, file, video, images, row, req, mixed, loose>>

-----------------------------------------------------------------------------
(* Completing.                                                             *)

(* A second request with the picture of one under way or with one the row  *)
(* names as it was sent; a name with nothing behind it that no check       *)
(* refuses.                                                                *)
Doubtful(t, f) ==
  \/ \E r \in Requests : req[r].f = f
  \/ row[t] # None /\ row[t].image = Sent(f)
  \/ KindOf[t] \in Unchecked /\ Sent(f) \notin images

Begin(r, op, at, t, f, withVideo) ==
  /\ Unused(r) /\ f \in Of(t) \cup {None}
  /\ req' = [req EXCEPT ![r] = [Idle EXCEPT !.op = op, !.at = at, !.t = t, !.f = f,
                                  !.video = withVideo,
                                  !.was = IF row[t] = None THEN None ELSE row[t].stream]]
  /\ loose' = IF f # None /\ Doubtful(t, f) THEN loose \cup {f} ELSE loose
  /\ UNCHANGED <<slug, parts, url, export, file, video, images, row, mixed>>

CompleteMovie(r, t, f) ==
  KindOf[t] = "movie" /\ slug[t] # None /\ Begin(r, "create", "assemble", t, f, TRUE)
CompleteEpisode(r, t, f) ==
  KindOf[t] = "episode" /\ slug[t] # None /\ Begin(r, "create", "assemble", t, f, TRUE)

(* The requests for a title with a row load it and check what they are     *)
(* given, a series or a promotion nothing at all.                          *)
Change(r, t, kinds, f, v) ==
  /\ row[t] # None /\ KindOf[t] \in kinds /\ (f # None \/ v)
  /\ Begin(r, "change", IF KindOf[t] \in Unchecked THEN "get" ELSE "look", t, f, v)

ChangeMovie(r, t, f, v)   == Change(r, t, {"movie"}, f, v)
ChangeEpisode(r, t, f, v) == Change(r, t, {"episode"}, f, v)
ChangePodcast(r, t, f, v) == Change(r, t, {"podcast"}, f, v)
ChangeSeries(r, t, f)     == Change(r, t, {"series"}, f, FALSE)
ChangePromotion(r, t, f)  == Change(r, t, {"promotion"}, f, FALSE)
ChangeLogo(r, t, f)       == Change(r, t, {"channel"}, f, FALSE)

To(r, at)      == [req EXCEPT ![r].at = at]
SaveAs(r, key) == [req EXCEPT ![r].at = "save", ![r].key = key]
Fail(r)        == [req EXCEPT ![r] = Idle]

(* complete_multipart_upload: a second one, one that was aborted and one   *)
(* whose answer is lost are refused with 409.                              *)
Assemble(r, answered) ==
  LET t == req[r].t IN
  /\ req[r].at = "assemble"
  /\ IF parts[t] = "open"
       THEN /\ parts' = [parts EXCEPT ![t] = "closed"]
            /\ video' = [video EXCEPT ![Key(t)] = t]
            /\ req' = IF answered THEN To(r, "look") ELSE Fail(r)
       ELSE /\ req' = Fail(r)
            /\ UNCHANGED <<parts, video>>
  /\ UNCHANGED <<slug, url, export, file, images, row, mixed, loose>>

(* Mutant: whatever the row is to name is taken to be there.               *)
Trusting(r) == TRUE

(* object_exists, for all that the row is to name.                         *)
Arrived(r) ==
  /\ req[r].f # None => Sent(req[r].f) \in images
  /\ req[r].op = "change" /\ req[r].video => video[Key(req[r].t)] # None

Look(r) ==
  /\ req[r].at = "look"
  /\ req' = IF ~Arrived(r) THEN Fail(r)
            ELSE IF req[r].f = None THEN To(r, "save")
            ELSE IF KindOf[req[r].t] = "channel" THEN SaveAs(r, Sent(req[r].f))
            ELSE To(r, "get")
  /\ UNCHANGED <<slug, parts, url, export, file, video, images, row, mixed, loose>>

(* _optimize_r2_image_sync reads the picture, writes it as WebP and deletes*)
(* what was sent; whatever fails, the row gets the name that was sent.     *)
Get(r, ok) ==
  /\ req[r].at = "get"
  /\ req' = IF ok /\ Sent(req[r].f) \in images THEN To(r, "put")
            ELSE SaveAs(r, Sent(req[r].f))
  /\ UNCHANGED <<slug, parts, url, export, file, video, images, row, mixed, loose>>

Put(r, ok) ==
  LET f == req[r].f IN
  /\ req[r].at = "put"
  /\ images' = IF ok THEN images \cup {<<f, "webp">>} ELSE images
  /\ req' = IF ok /\ Sent(f) # <<f, "webp">> THEN To(r, "delete") ELSE SaveAs(r, Sent(f))
  /\ UNCHANGED <<slug, parts, url, export, file, video, row, mixed, loose>>

(* Deleted or not, a request whose answer is lost keeps the old name.      *)
Delete(r, done, answered) ==
  LET f == req[r].f IN
  /\ req[r].at = "delete"
  /\ answered => done
  /\ images' = IF done THEN images \ {Sent(f)} ELSE images
  /\ loose' = IF done /\ ~answered THEN loose \cup {f} ELSE loose
  /\ req' = SaveAs(r, IF answered THEN <<f, "webp">> ELSE Sent(f))
  /\ UNCHANGED <<slug, parts, url, export, file, video, row, mixed>>

(* The commit.  A slug that has a row by now, or a row that is gone, fails *)
(* it; a new video makes a new job and clears the stream that was loaded.  *)
Blank == [image |-> None, job |-> FALSE, audio |-> FALSE, stream |-> None]

Writable(r) == IF req[r].op = "change" THEN row[req[r].t] # None
               ELSE ~Taken(req[r].t, slug[req[r].t])

Save(r, ok) ==
  LET t == req[r].t
      old == IF row[t] = None THEN Blank ELSE row[t]
      image == IF req[r].key = None THEN old.image ELSE req[r].key
  IN
  /\ req[r].at = "save"
  /\ req' = Fail(r)
  /\ row' = IF ~ok \/ ~Writable(r) THEN row
            ELSE [row EXCEPT ![t] =
                    IF ~req[r].video THEN [old EXCEPT !.image = image]
                    ELSE IF KindOf[t] = "podcast" THEN [old EXCEPT !.image = image, !.audio = TRUE]
                    ELSE [old EXCEPT !.image = image, !.job = TRUE,
                            !.stream = IF req[r].was = None THEN @ ELSE None]]
  /\ UNCHANGED <<slug, parts, url, export, file, video, images, mixed, loose>>

(* The objects of a deleted title stay in the bucket.                      *)
Remove(t) ==
  /\ row[t] # None
  /\ row' = [row EXCEPT ![t] = None]
  /\ UNCHANGED <<slug, parts, url, export, file, video, images, req, mixed, loose>>

-----------------------------------------------------------------------------
(* The transcoder reads the source file of a job when it gets to it.       *)
Transcode(t) ==
  /\ row[t] # None /\ row[t].job /\ video[Key(t)] # None
  /\ row' = [row EXCEPT ![t].job = FALSE, ![t].stream = video[Key(t)]]
  /\ UNCHANGED <<slug, parts, url, export, file, video, images, req, mixed, loose>>

(* Someone tidies the bucket.                                              *)
Lose(k) ==
  /\ video[k] # None /\ k[1] \in Multipart
  /\ video' = [video EXCEPT ![k] = None]
  /\ UNCHANGED <<slug, parts, url, export, file, images, row, req, mixed, loose>>

(* A lost source file is put together from the stream.                     *)
StartExport(t) ==
  /\ row[t] # None /\ row[t].stream # None /\ video[Key(t)] = None
  /\ export' = export \cup {t}
  /\ UNCHANGED <<slug, parts, url, file, video, images, row, req, mixed, loose>>

FinishExport(t) ==
  /\ t \in export
  /\ export' = export \ {t}
  /\ video' = [video EXCEPT ![Key(t)] = t]
  /\ UNCHANGED <<slug, parts, url, file, images, row, req, mixed, loose>>

Fresh == {f \in Files : file[f] = None}

Next ==
  \/ \E t \in Titles, form \in {"webp", "other"} :
       \/ \E f \in Fresh \cup {None} :
            \/ StartMovie(t, f, form) \/ StartEpisode(t, f, form)
            \/ \E v \in BOOLEAN :
                 \/ ReplaceMovie(t, f, form, v) \/ ReplaceEpisode(t, f, form, v)
                 \/ ReplacePodcast(t, f, form, v)
       \/ \E f \in Fresh :
            ReplaceSeries(t, f, form) \/ ReplacePromotion(t, f, form) \/ ReplaceLogo(t, f, form)
  \/ \E f \in Files : SendPicture(f)
  \/ \E t \in Titles :
       \/ SendVideo(t) \/ Expire(t) \/ Abort(t) \/ Remove(t) \/ Transcode(t)
       \/ StartExport(t) \/ FinishExport(t)
  \/ \E k \in Keys : Lose(k)
  \/ \E r \in Requests, t \in Titles :
       \/ CheckDraft(r, t)
       \/ \E f \in Files \cup {None} :
            \/ CompleteMovie(r, t, f) \/ CompleteEpisode(r, t, f)
            \/ \E v \in BOOLEAN :
                 \/ ChangeMovie(r, t, f, v) \/ ChangeEpisode(r, t, f, v)
                 \/ ChangePodcast(r, t, f, v)
       \/ \E f \in Files :
            ChangeSeries(r, t, f) \/ ChangePromotion(r, t, f) \/ ChangeLogo(r, t, f)
  \/ \E r \in Requests :
       \/ Look(r)
       \/ \E ok \in BOOLEAN : Assemble(r, ok) \/ Get(r, ok) \/ Put(r, ok) \/ Save(r, ok)
       \/ \E done, answered \in BOOLEAN : Delete(r, done, answered)

Spec == Init /\ [][Next]_vars

-----------------------------------------------------------------------------
(* The picture a row names is in the bucket, through overlapping requests, *)
(* failures of the bucket half way (_optimize_r2_image_sync deletes what   *)
(* the row would fall back on) and deletions; except a picture two requests*)
(* are given (at once, or again while the row names it as it was sent), one*)
(* whose deletion was not confirmed, and one a series or promotion is given*)
(* by name while nothing is there, as on a retry.                          *)
PicturesExist ==
  \A t \in Titles : \A f \in Files :
    row[t] # None /\ row[t].image \in {f} \X {"webp", "other"} /\ f \notin loose =>
      row[t].image \in images

(* A title streams its own video, and its source file is its own: the file *)
(* has a fixed name under the slug, slugs are looked up long before the row*)
(* is there (unique_content_slug), old addresses outlive a deleted title.  *)
(* Except where two titles had one key in use at the same time, or a row was*)
(* made under a slug whose deleted title had left its video behind.        *)
VideoIsOwn ==
  \A t \in Titles : row[t] # None /\ Key(t) \notin mixed =>
    /\ row[t].stream \in {None, t}
    /\ row[t].job \/ row[t].audio => video[Key(t)] \in {None, t}
-----------------------------------------------------------------------------
(* The inductive strengthening.  A picture somebody names was asked for    *)
(* under a name of its own, and what a request holds of it is there; of two*)
(* titles with one video key one is out of it for good.                    *)
Forms == {"webp", "other"}
RowType == [image : (Files \X Forms) \cup {None}, job : BOOLEAN, audio : BOOLEAN,
            stream : Titles \cup {None}]
Steps == {"none", "assemble", "look", "get", "put", "delete", "save"}
ReqType == [op : {"idle", "draft", "create", "change"}, at : Steps, t : Titles \cup {None},
            f : Files \cup {None}, video : BOOLEAN, was : Titles \cup {None},
            key : (Files \X Forms) \cup {None}]

TypeOK ==
  /\ slug \in [Titles -> Titles \cup {Name, None}]
  /\ \A t \in Titles : slug[t] \in {None, Name, t}
  /\ parts \in [Titles -> {"none", "open", "closed"}] /\ url \subseteq Titles
  /\ export \subseteq Titles /\ file \in [Files -> (Titles \X Forms) \cup {None}]
  /\ video \in [Keys -> Titles \cup {None}] /\ images \subseteq Files \X Forms
  /\ row \in [Titles -> RowType \cup {None}] /\ req \in [Requests -> ReqType]

(* The picture a row names.                                                *)
Pictured(t, key) ==
  \E f \in Files :
    /\ file[f] # None /\ file[f][1] = t /\ key \in {Sent(f), <<f, "webp">>}
    /\ f \in loose \/ key \in images

Holds(q, f) ==
  /\ row[q.t] = None \/ row[q.t].image # Sent(f)
  /\ q.at \in {"get", "put", "delete"} => Sent(f) \in images
  /\ q.at = "delete" => <<f, "webp">> \in images
  /\ q.key # None => q.key \in images

(* Nobody writes for k any more, nor ever again.                           *)
Dead(k) ==
  /\ row[k] = None /\ parts[k] # "open" /\ k \notin url /\ k \notin export
  /\ \A r \in Requests : req[r].t = k => req[r].at = "assemble"

Owner(t) ==
  row[t] # None \/ \E r \in Requests : req[r].t = t /\ req[r].at # "assemble"

Pictures ==
  \A t \in Titles : row[t] # None /\ row[t].image # None => Pictured(t, row[t].image)

Drafts(r) ==
  LET q == req[r] IN
  /\ q.at # "none" => q.t \in Titles
  /\ q.at \in {"get", "put", "delete"} => q.f # None
  /\ q.key # None => q.f # None /\ q.key \in {Sent(q.f), <<q.f, "webp">>}
  /\ q.at = "delete" => Sent(q.f) # <<q.f, "webp">>
  /\ q.f # None => q.t \in Titles /\ file[q.f] # None /\ file[q.f][1] = q.t
  /\ q.f # None /\ q.f \notin loose =>
       Holds(q, q.f) /\ \A o \in Requests \ {r} : req[o].f # q.f
  /\ q.video => KindOf[q.t] \in Content

Started ==
  \A t \in Titles : slug[t] = None =>
    /\ row[t] = None /\ parts[t] = "none" /\ t \notin url /\ t \notin export
    /\ \A r \in Requests : req[r].t # t

Alone ==
  \A t, k \in Titles :
    t # k /\ slug[t] # None /\ Key(t) = Key(k) /\ Key(t) \notin mixed => Dead(t) \/ Dead(k)

Owned ==
  \A t \in Titles : KindOf[t] \in Content /\ Owner(t) /\ Key(t) \notin mixed =>
    video[Key(t)] \in {None, t}

Streams ==
  \A t \in Titles : row[t] # None =>
    /\ Key(t) \in mixed \/ row[t].stream \in {None, t}
    /\ KindOf[t] \in Content \/ (~row[t].job /\ ~row[t].audio /\ row[t].stream = None)

IInv ==
  /\ TypeOK /\ Pictures /\ \A r \in Requests : Drafts(r)
  /\ Started /\ Alone /\ Owned /\ Streams

UploadsConstants ==
  /\ None \notin Titles /\ None \notin Files /\ None \notin Files \X Forms
  /\ Name \notin Titles /\ Name # None
  /\ \A t \in Titles : None # <<t, "webp">> /\ None # <<t, "other">>
=============================================================================
