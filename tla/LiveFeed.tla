-------------------------------- MODULE LiveFeed --------------------------------
(***************************************************************************)
(* The live stream beside the spool it repeats: BroadcastSink              *)
(* (crates/rrjj-sinks/src/broadcast.rs), the SSE bridge of the daemon      *)
(* (crates/rrjj/src/main.rs), and a browser's timeline, which is fed by    *)
(* the stream and by spool files that its user loads (src/ui/scrubber).    *)
(*                                                                         *)
(* The spool and the daemons that write it are those of LocalJournal.  The *)
(* page's own attempt to connect when it is opened is a click.             *)
(***************************************************************************)
EXTENDS LocalJournal

CONSTANTS
  Capacity,  \* of the broadcast channel
  MaxLoads   \* bound: files being read at a time

ASSUME FeedAssumption == Capacity \in Nat \ {0} /\ MaxLoads \in Nat

VARIABLES
  published, \* how many events of this daemon were sent to the channel
  source,    \* the EventSource: none, retrying, open
  queue,     \* what the channel and the connection hold for it
  lagged,    \* has the channel dropped something it had to receive?
  view,      \* the timeline: [events, resync]
  loads,     \* files being read: their lines as they were when chosen
  loaded,    \* history: how many events of the timeline came from a file
  joined     \* history: was an event of this connection appended?

feedVars == <<published, source, queue, lagged, view, loads, loaded, joined>>
connection == <<source, queue, lagged>>
timeline == <<view, loaded, joined>>

FeedInit ==
  /\ JournalInit
  /\ published = 0
  /\ source = "none" /\ queue = <<>> /\ lagged = FALSE
  /\ view = [events |-> <<>>, resync |-> FALSE] /\ loads = {}
  /\ loaded = 0 /\ joined = FALSE

-----------------------------------------------------------------------------
(* The daemon *)

\* Each daemon has a channel of its own.
StartDaemon ==
  /\ \E id \in 1..MaxRuns : Open(id)
  /\ published' = 0
  /\ UNCHANGED <<connection, timeline, loads>>

\* The durable sink at work; BroadcastSink::emit() awaits it and sends before
\* it returns, so the next call finds the last event sent.
Emit ==
  /\ published >= seq
  /\ \/ \E body \in Bodies : AppendLine(body)
     \/ Accept \/ WriteFails \/ SyncFails \/ StartRefused \/ FlushSpool
  /\ UNCHANGED feedVars

\* Slip: the channel takes whatever comes.
Send_Unbounded(event) ==
  IF source # "open" THEN UNCHANGED connection
  ELSE queue' = Append(queue, event) /\ UNCHANGED <<source, lagged>>

\* Slip: a full channel drops the new event and nobody hears of it.
Send_DropsNewest(event) ==
  IF source # "open" \/ Len(queue) = Capacity THEN UNCHANGED connection
  ELSE queue' = Append(queue, event) /\ UNCHANGED <<source, lagged>>

\* A subscriber that is a whole channel behind loses its oldest event.
Send(event) ==
  IF source # "open" THEN UNCHANGED connection
  ELSE /\ queue' = IF Len(queue) < Capacity THEN Append(queue, event)
                                            ELSE Append(Tail(queue), event)
       /\ lagged' = (lagged \/ Len(queue) = Capacity)
       /\ UNCHANGED source

\* Slip: the event is sent when its line is written.
Publish_Early ==
  /\ writing # None /\ published = seq
  /\ Send(writing)
  /\ published' = published + 1
  /\ UNCHANGED <<journalVars, timeline, loads>>

\* BroadcastSink::emit(): accepted by the durable sink, then sent.
Publish ==
  /\ phase = "running" /\ published < seq
  /\ Send(Last(accepted))
  /\ published' = published + 1
  /\ UNCHANGED <<journalVars, timeline, loads>>

\* The connection is gone and the EventSource tries again.
Cut ==
  /\ source' = IF source = "open" THEN "retrying" ELSE source
  /\ queue' = <<>> /\ lagged' = FALSE

\* The daemon ends, and with it its connections.
EndDaemon ==
  /\ Stop \/ PowerFails
  /\ Cut
  /\ UNCHANGED <<published, timeline, loads>>

-----------------------------------------------------------------------------
(* The browser *)

\* disconnect()
Disconnected == source' = "none" /\ queue' = <<>> /\ lagged' = FALSE

\* connect()
Click ==
  /\ ~view.resync
  /\ source' = "retrying" /\ queue' = <<>> /\ lagged' = FALSE
  /\ UNCHANGED <<journalVars, published, timeline, loads>>

\* The EventSource reaches sse_events(), which subscribes from now on; HTTP is
\* served once start() has emitted the first event.
Subscribe ==
  /\ source = "retrying" /\ phase = "running" /\ published > 0
  /\ source' = "open"
  /\ joined' = FALSE
  /\ UNCHANGED <<journalVars, published, queue, lagged, view, loaded, loads>>

\* The connection breaks, with what it carried.
ConnectionDrops ==
  /\ source = "open"
  /\ Cut
  /\ UNCHANGED <<journalVars, published, timeline, loads>>

\* appendStreamNotice(), after which the element disconnects.
StopForResync ==
  /\ view' = [view EXCEPT !.resync = TRUE]
  /\ Disconnected
  /\ UNCHANGED <<loaded, joined>>

\* Slip: the session is not compared.
Continues_AnySession(event) ==
  view.events = <<>> \/ event.seq = Last(view.events).seq + 1

\* sequenceMatches && sessionMatches
Continues(event) ==
  view.events = <<>> \/
    /\ event.seq = Last(view.events).seq + 1
    /\ event.sid = Last(view.events).sid

\* appendLiveEvent()
Show(event) ==
  IF Continues(event)
    THEN /\ view' = [view EXCEPT !.events = Append(@, event)]
         /\ joined' = TRUE
         /\ queue' = Tail(queue)
         /\ UNCHANGED <<source, lagged, loaded>>
    ELSE StopForResync

\* The next message: sse_message() turns a gap into an overflow record, which
\* comes before the events that are left.
Receive ==
  /\ queue # <<>>
  /\ IF lagged THEN StopForResync ELSE Show(Head(queue))
  /\ UNCHANGED <<journalVars, published, loads>>

\* A spool file is chosen: disconnect(), then `await file.text()'.
ChooseFile ==
  /\ Cardinality(loads) < MaxLoads
  /\ loads' = loads \union {Text}
  /\ Disconnected
  /\ UNCHANGED <<journalVars, published, timeline>>

\* The text is there: parseNdjson() accepts it, and it replaces the timeline
\* whatever happened since, or the timeline stays.
FinishLoad(file) ==
  /\ loads' = loads \ {file}
  /\ IF Numbered(file)
       THEN /\ view' = [events |-> file, resync |-> FALSE]
            /\ loaded' = Len(file)
            /\ joined' = FALSE
       ELSE UNCHANGED timeline
  /\ UNCHANGED <<journalVars, published, connection>>

FeedNext ==
  \/ StartDaemon \/ Emit \/ Publish \/ EndDaemon
  \/ Click \/ Subscribe \/ ConnectionDrops \/ Receive \/ ChooseFile
  \/ \E file \in loads : FinishLoad(file)

FeedSpec == FeedInit /\ [][FeedNext]_<<journalVars, feedVars>>

-----------------------------------------------------------------------------
(* Properties *)

\* Type invariant; the channel holds no more than its capacity.
FeedTypeOK ==
  /\ JournalTypeOK
  /\ published \in 0..MaxEvents
  /\ source \in {"none", "retrying", "open"}
  /\ queue \in Seq(Events) /\ Len(queue) <= Capacity /\ lagged \in BOOLEAN
  /\ view \in [events : Seq(Events), resync : BOOLEAN]
  /\ IsFiniteSet(loads) /\ Cardinality(loads) <= MaxLoads
  /\ loaded \in 0..Len(view.events) /\ joined \in BOOLEAN

\* Has a daemon been given the session id of an earlier one?
Reused == \E i \in DOMAIN view.events : view.events[i].run # view.events[i].sid

\* What the browser shows is a stretch of one daemon's timeline without a gap,
\* whatever was dropped, reconnected or loaded in between: appendLiveEvent() and
\* validateTimeline() see every gap and every other daemon, except one that was
\* given an earlier session id and happens to go on with the next number; in the
\* remote mode that takes a loaded file whose last line was lost.
ViewIsSegment ==
  LET shown == view.events
  IN  \A i \in 2..Len(shown) :
        /\ shown[i].seq = shown[i - 1].seq + 1
        /\ shown[i].sid = shown[i - 1].sid
        /\ \/ shown[i].run = shown[i - 1].run
           \/ Reused /\ (backend # "remote" \/ i = loaded + 1)

\* An event the browser shows was accepted by the durable sink first; only the
\* last line of a loaded file may still be on its way there.
ShownIsRecorded ==
  \A i \in DOMAIN view.events : view.events[i] \in offered \/ i = loaded

\* A browser that is connected, has appended an event on this connection and has
\* received everything sent shows the newest event: nothing it missed goes
\* unnoticed.
LiveViewComplete ==
  source = "open" /\ joined /\ queue = <<>> /\ ~lagged =>
    Last(view.events).seq = published - 1 /\ Last(view.events).run = run

-----------------------------------------------------------------------------
(* The inductive invariant behind these properties *)

\* A file read while it was numbered and whole: as NumberedIsOneRecording, now and
\* when the reading ends.
FileInv(file) ==
  /\ file \in Seq(Events \union {Torn})
  /\ Numbered(file) =>
       \A i \in 1..Len(file) :
         file[i].run = file[1].run /\ (i < Len(file) => file[i] \in offered)

\* The channel holds the daemon's newest events, in order and without a gap; only
\* a connection holds anything, and only to a daemon that serves.
ChannelInv ==
  /\ phase # "down" => published \in {seq - 1, seq}
  /\ source = "open" => phase = "running"
  /\ source # "open" => queue = <<>> /\ ~lagged
  /\ \A i \in 1..Len(queue) :
       queue[i] \in offered /\ IsEvent(queue[i], published - Len(queue) + i - 1)

\* A timeline that joined a connection with no gap in it ends where the channel
\* begins.
JoinInv ==
  source = "open" /\ joined /\ ~lagged =>
    /\ view.events # <<>>
    /\ IsEvent(Last(view.events), published - Len(queue) - 1)

FeedInv ==
  /\ FeedTypeOK /\ (\A file \in loads : FileInv(file))
  /\ ChannelInv /\ JoinInv /\ ViewIsSegment /\ ShownIsRecorded
=============================================================================
