------------------------------ MODULE Channels ------------------------------
(***************************************************************************)
(* Live TV: a row per channel here, a process per channel in the restream  *)
(* service.  A request reads the row, calls the service and then writes    *)
(* what it was told; the row is not locked meanwhile and a call may fail   *)
(* after the service has acted.                                            *)
(*   app/routers/admin/tv_channels.py, app/services/live_client.py         *)
(***************************************************************************)
CONSTANTS Channels, Sources, Requests, None

VARIABLES
  row,       \* row[c]: status, source and whether an address is known; None without one
  service,   \* the restream service: the status of a channel and the source it reads
  used,      \* the channels created so far
  req,       \* a request: loaded, called, to be written
  adrift     \* channels whose row was last written with an answer that was out of date

vars == <<row, service, used, req, adrift>>

Statuses == {"offline", "starting", "live", "error"}
Running(c) == service[c].status \in {"starting", "live"}

Idle == [op |-> "idle", at |-> "none", c |-> None, source |-> None, was |-> "offline",
         got |-> "offline", clean |-> TRUE]

Init ==
  /\ row = [c \in Channels |-> None]
  /\ service = [c \in Channels |-> [status |-> "offline", source |-> None]]
  /\ used = {}
  /\ req = [r \in Requests |-> Idle]
  /\ adrift = {}

-----------------------------------------------------------------------------
create_channel(c, source) ==
  /\ c \notin used
  /\ used' = used \cup {c}
  /\ row' = [row EXCEPT ![c] = [status |-> "offline", source |-> source, url |-> FALSE]]
  /\ UNCHANGED <<service, req, adrift>>

(* A new source is read by the next start; the status is not for editing.  *)
update_channel(c, source) ==
  /\ row[c] # None /\ row[c].source # source
  /\ row' = [row EXCEPT ![c].source = source]
  /\ UNCHANGED <<service, used, req, adrift>>

(* Mutant: only a channel that is shown live is stopped.                   *)
LiveOnly(c) == row[c].status = "live"

(* delete_channel stops the channel first if the row says it runs.         *)
StopFirst(c) == row[c].status \in {"live", "starting"}

(* The row is read.  A deletion that sees a row a start is yet to write, or*)
(* one that is out of date, cannot know of the process.                    *)
Load(r, op, c) ==
  /\ req[r] = Idle /\ row[c] # None
  /\ req' = [req EXCEPT ![r] =
       [op |-> op, at |-> IF op = "delete" /\ ~StopFirst(c) THEN "write" ELSE "call",
        c |-> c, source |-> row[c].source, was |-> row[c].status, got |-> row[c].status,
        clean |-> op # "delete" \/ (c \notin adrift /\ \A s \in Requests :
                    ~(req[s].c = c /\ req[s].op = "start" /\ req[s].at = "write"))]]
  /\ UNCHANGED <<row, service, used, adrift>>

(* A start or a stop outdates the answers others are yet to write.         *)
Outdated(r) ==
  IF req[r].op = "status" THEN req
  ELSE [s \in Requests |->
          IF s # r /\ req[s].c = req[r].c /\ req[s].at = "write"
            THEN [req[s] EXCEPT !.clean = FALSE] ELSE req[s]]

(* The answer does not come, a deletion goes on without it: the service may*)
(* have acted or not.                                                      *)
Answered(r, got, ok) ==
  req' = [Outdated(r) EXCEPT ![r] =
            IF ok THEN [req[r] EXCEPT !.at = "write", !.got = got]
            ELSE IF req[r].op = "delete" THEN [req[r] EXCEPT !.at = "write", !.clean = FALSE]
            ELSE Idle]

Doubt(r, ok) == adrift' = IF ok THEN adrift ELSE adrift \cup {req[r].c}

(* The process is new, or another one when the source has changed; after   *)
(* twenty seconds it is starting still.                                    *)
start_channel(r, status, ok) ==
  LET c == req[r].c IN
  /\ req[r].op = "start" /\ req[r].at = "call" /\ status # "offline"
  /\ service' = [service EXCEPT ![c] = [status |-> status, source |-> req[r].source]]
  /\ Answered(r, status, ok) /\ Doubt(r, ok)
  /\ UNCHANGED <<row, used>>

stop_channel(r, ok) ==
  LET c == req[r].c IN
  /\ req[r].op \in {"stop", "delete"} /\ req[r].at = "call"
  /\ service' = [service EXCEPT ![c].status = "offline"]
  /\ Answered(r, "offline", ok) /\ Doubt(r, ok)
  /\ UNCHANGED <<row, used>>

get_channel_status(r) ==
  /\ req[r].op = "status" /\ req[r].at = "call"
  /\ Answered(r, service[req[r].c].status, TRUE)
  /\ UNCHANGED <<row, service, used, adrift>>

(* Not reached at all.                                                     *)
Unreachable(r) ==
  /\ req[r].at = "call"
  /\ req' = [req EXCEPT ![r] = IF req[r].op # "delete" THEN Idle
                               ELSE [req[r] EXCEPT !.at = "write", !.clean = FALSE]]
  /\ UNCHANGED <<row, service, used, adrift>>

(* Only a status that differs from the one read is written; a row deleted  *)
(* since then fails the request.                                           *)
Write(r) ==
  LET q == req[r] IN
  /\ q.at = "write" /\ q.op # "delete"
  /\ req' = [req EXCEPT ![r] = Idle]
  /\ row' = IF row[q.c] = None THEN row
            ELSE [row EXCEPT ![q.c].status = IF q.got # q.was THEN q.got ELSE @,
                             ![q.c].url = @ \/ (q.op # "stop" /\ q.got \in {"starting", "live"})]
  /\ adrift' = IF q.clean /\ row[q.c] # None /\ row'[q.c].status = q.got
                 THEN adrift \ {q.c} ELSE adrift \cup {q.c}
  /\ UNCHANGED <<service, used>>

delete_channel(r) ==
  LET q == req[r] IN
  /\ q.at = "write" /\ q.op = "delete"
  /\ req' = [req EXCEPT ![r] = Idle]
  /\ row' = [row EXCEPT ![q.c] = None]
  /\ adrift' = IF q.clean THEN adrift ELSE adrift \cup {q.c}
  /\ UNCHANGED <<service, used>>

(* The first playlist is there, or the source is lost.                     *)
Progress(c, status) ==
  /\ Running(c)
  /\ status \in {"live", "error"} \ {service[c].status}
  /\ service' = [service EXCEPT ![c].status = status]
  /\ UNCHANGED <<row, used, req, adrift>>

Next ==
  \/ \E c \in Channels, s \in Sources : create_channel(c, s) \/ update_channel(c, s)
  \/ \E r \in Requests :
       \/ \E op \in {"start", "stop", "status", "delete"}, c \in Channels : Load(r, op, c)
       \/ \E ok \in BOOLEAN :
            stop_channel(r, ok) \/ \E status \in Statuses : start_channel(r, status, ok)
       \/ get_channel_status(r) \/ Unreachable(r) \/ Write(r) \/ delete_channel(r)
  \/ \E c \in Channels, status \in Statuses : Progress(c, status)

Spec == Init /\ [][Next]_vars

-----------------------------------------------------------------------------
(* With nobody working on it, a channel that is deleted or shown offline   *)
(* has no process restreaming it, through every order of starts, stops,    *)
(* status checks and deletions of unlocked rows; until the next clean      *)
(* write, except after an answer that was lost, or written after a later   *)
(* start or stop (delete_channel names the orphan that may be left).       *)
NoOrphan ==
  \A c \in Channels \ adrift :
    (\A r \in Requests : req[r].c # c) /\ (row[c] = None \/ row[c].status = "offline")
      => ~Running(c)

-----------------------------------------------------------------------------
(* The inductive strengthening: a process the service runs is shown by the *)
(* row, or will be by the start that is yet to write; an answer that is    *)
(* not out of date and tells of none is true.                              *)
Up == {"starting", "live"}
RowType == [status : Statuses, source : Sources, url : BOOLEAN]
ReqType ==
  [op : {"idle", "start", "stop", "status", "delete"}, at : {"none", "call", "write"},
   c : Channels \cup {None}, source : Sources \cup {None}, was : Statuses, got : Statuses,
   clean : BOOLEAN]

TypeOK ==
  /\ row \in [Channels -> RowType \cup {None}]
  /\ service \in [Channels -> [status : Statuses, source : Sources \cup {None}]]
  /\ req \in [Requests -> ReqType]

Used(c) == c \notin used => row[c] = None /\ service[c].status = "offline"

Starts(r, c) == req[r].op = "start" /\ req[r].at = "write" /\ req[r].c = c /\ req[r].clean

Known(c) ==
  c \notin adrift /\ Running(c) =>
    (row[c] # None /\ row[c].status \in Up) \/ \E r \in Requests : Starts(r, c)

Told(r) ==
  /\ req[r].at # "none" => req[r].c \in Channels /\ req[r].c \in used
  /\ req[r].at = "call" /\ req[r].op # "delete" => req[r].clean
  /\ req[r].at = "write" /\ req[r].op = "delete" /\ req[r].clean => req[r].got \notin Up
  /\ req[r].at = "write" /\ req[r].clean /\ req[r].got \notin Up => ~Running(req[r].c)

IInv ==
  /\ TypeOK
  /\ \A c \in Channels : Used(c) /\ Known(c)
  /\ \A r \in Requests : Told(r)

ChannelConstants ==
  None \notin Channels /\ None \notin Requests /\ None \notin RowType
=============================================================================
