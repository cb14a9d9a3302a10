--------------------------- MODULE RemotePublication ---------------------------
(***************************************************************************)
(* DurableSessionSink with its three parts: the synced local journal, the  *)
(* checkpoint sink that advances a recorder-owned ref on a Git remote, and *)
(* the event sink that posts the journal to an HTTP endpoint in batches    *)
(* (crates/rrjj-sinks/src/durable.rs, journal.rs, git.rs, http.rs).        *)
(*                                                                         *)
(* The Git server and the HTTP endpoint are external.  They are honest:    *)
(* an acknowledgement says what the endpoint holds, and its watermark does *)
(* not move back.  The network may lose an answer after the request was    *)
(* carried out, and may deliver a request after its sender gave up on it.  *)
(*                                                                         *)
(* Commits are numbered along the recorder's line of descent.  An event is *)
(* the commit it names, 0 when it names none, and its encoded size.        *)
(*                                                                         *)
(* The behaviours are those of one daemon with a new spool and a new       *)
(* session, as a non-empty spool refuses another one.  Cursor files are    *)
(* read once, when it starts, and are then written, which may fail.  Their *)
(* names come from the spool's and say nothing of the session, so they may *)
(* be an earlier session's whose spool was removed (Cursors).  The commit  *)
(* such a Git cursor names is no tip of a new session's ref and changes    *)
(* nothing.                                                                *)
(***************************************************************************)
EXTENDS Naturals, Sequences, FiniteSets, FiniteSetsExt, Functions

CONSTANTS
  MaxBatch,       \* max_events_per_batch
  MaxBytes,       \* max_bytes_per_batch
  Sizes,          \* the encoded sizes of snapshot events; other events have 1
  MaxRetries,     \* max_retries of one batch
  Cursors,        \* events the HTTP cursor file found at the start may call delivered
  LostPushReply,  \* may a push be carried out and its answer be lost?
  ForeignWriter,  \* may someone else create the session's ref?
  MaxSnapshots,   \* bound: snapshots taken
  MaxFlushes,     \* bound: flushes requested
  MaxFaults       \* bound: failures of disk, network and servers

ASSUME BatchAssumption ==
  {MaxBatch, MaxBytes} \subseteq Nat \ {0} /\ MaxRetries \in Nat
ASSUME SizesAssumption == Sizes \subseteq Nat \ {0}
ASSUME CursorsAssumption == Cursors \subseteq Nat
ASSUME RemoteSwitches == LostPushReply \in BOOLEAN /\ ForeignWriter \in BOOLEAN
ASSUME RemoteBounds == {MaxSnapshots, MaxFlushes, MaxFaults} \subseteq Nat

VARIABLES
  journal,     \* NdjsonSink.accepted: of each event, [commit, size]
  commits,     \* the recorder's newest commit
  pc,          \* where flush_session() is
  result,      \* how the last flush ended
  lastPushed,  \* GitCheckpointSink.last_pushed; 0 for None
  delivered,   \* events HttpEventSink knows delivered; 0 for None
  offset,      \* publish_events(): events of the request already sent
  attempt,     \* post_batch(): attempts made for the current batch
  ref,         \* the remote session ref: [owner, commit]
  net,         \* event batches posted and not yet handled
  answer,      \* the endpoint's answer to the attempt the client awaits
  server,      \* the endpoint: [accepted, durable]
  spent        \* [snapshots, flushes, faults] used up of the bounds

progress == <<lastPushed, delivered, offset, attempt>>
remoteVars == <<ref, net, answer, server>>
vars == <<journal, commits, pc, result, progress, remoteVars, spent>>

NoAnswer == [kind |-> "none", accepted |-> 0, durable |-> 0]

\* The events up to the n-th that are not yet sent fit into one request.
Fits(n) ==
  /\ n - offset <= MaxBatch
  /\ SumFunctionOnSet([i \in DOMAIN journal |-> journal[i].size], (offset + 1)..n)
       <= MaxBytes

\* take_batch() of the rest of events_through(): the most that fits; an event too
\* large on its own is an error.
Unsent == (offset + 1)..Len(journal)
Oversized == ~Fits(offset + 1)
BatchEnd == Max({n \in Unsent : Fits(n)})
IsFinal == BatchEnd = Len(journal)

\* Slip: every batch carries the watermark of its own end.
Batch_AlwaysDurable == [from    |-> offset + 1, to |-> BatchEnd,
                        durable |-> BatchEnd, attempt |-> attempt + 1]

\* The durable watermark rides on the final batch only.
Batch == [from    |-> offset + 1, to |-> BatchEnd,
          durable |-> IF IsFinal THEN Len(journal) ELSE 0,
          attempt |-> attempt + 1]

Init ==
  /\ journal = <<[commit |-> 1, size |-> 1]>> /\ commits = 1    \* session_start
  /\ pc = "idle" /\ result = "none"
  /\ lastPushed = 0 /\ delivered \in Cursors    \* read_delivered_seq()
  /\ offset = 0 /\ attempt = 0
  /\ ref = [owner |-> "none", commit |-> 0]
  /\ net = {} /\ answer = NoAnswer
  /\ server = [accepted |-> 0, durable |-> 0]
  /\ spent = [snapshots |-> 0, flushes |-> 0, faults |-> 0]

Fault == /\ spent.faults < MaxFaults
         /\ spent' = [spent EXCEPT !.faults = @ + 1]

\* flush_session() returns to the coordinator.
EndFlush(how) == pc' = "idle" /\ result' = how

-----------------------------------------------------------------------------
(* The coordinator between flushes *)

\* A snapshot is committed and its event accepted.
Snapshot(size) ==
  /\ pc = "idle" /\ spent.snapshots < MaxSnapshots
  /\ commits' = commits + 1
  /\ journal' = Append(journal, [commit |-> commits + 1, size |-> size])
  /\ spent' = [spent EXCEPT !.snapshots = @ + 1]
  /\ UNCHANGED <<pc, result, progress, remoteVars>>

\* flush_durable(): a flush event, then flush_session() through it.
StartFlush ==
  /\ pc = "idle" /\ spent.flushes < MaxFlushes
  /\ journal' = Append(journal, [commit |-> 0, size |-> 1])
  /\ pc' = "tip" /\ result' = "none"
  /\ spent' = [spent EXCEPT !.flushes = @ + 1]
  /\ UNCHANGED <<commits, progress, remoteVars>>

-----------------------------------------------------------------------------
(* publish_checkpoint() *)

\* Slip: a tip this sink pushed earlier is taken for the commit asked for.
ReadTip_AnyOwnTip ==
  /\ pc = "tip"
  /\ \/ ref.owner = "us" /\ pc' = "pushed" /\ UNCHANGED result
     \/ ref.owner = "none" /\ pc' = "push" /\ UNCHANGED result
     \/ ref.owner = "other" /\ EndFlush("conflict")
  /\ UNCHANGED <<journal, commits, progress, remoteVars, spent>>

\* The remote tip is read and compared with what this sink pushed last.
ReadTip ==
  /\ pc = "tip"
  /\ \/ /\ ref.owner = "us" /\ ref.commit = commits
        /\ pc' = "pushed" /\ UNCHANGED result
     \/ /\ \/ ref.owner = "none"
           \/ ref.owner = "us" /\ lastPushed = ref.commit /\ ref.commit # commits
        /\ pc' = "push" /\ UNCHANGED result
     \/ /\ \/ ref.owner = "other"
           \/ ref.owner = "us" /\ ref.commit \notin {commits, lastPushed}
        /\ EndFlush("conflict")
  /\ UNCHANGED <<journal, commits, progress, remoteVars, spent>>

\* Slip: a forced push.
Push_Forced ==
  /\ pc = "push"
  /\ ref' = [owner |-> "us", commit |-> commits]
  /\ pc' = "pushed"
  /\ UNCHANGED <<journal, commits, result, progress, net, answer, server,
                 spent>>

\* The push is a fast-forward for the server, and it carries it out ...
Push ==
  /\ pc = "push" /\ ref.owner # "other"
  /\ ref' = [owner |-> "us", commit |-> commits]
  /\ pc' = "pushed"
  /\ UNCHANGED <<journal, commits, result, progress, net, answer, server,
                 spent>>

\* ... or carries it out and the answer is lost ...
PushUnanswered ==
  /\ pc = "push" /\ ref.owner # "other" /\ LostPushReply
  /\ Fault
  /\ ref' = [owner |-> "us", commit |-> commits]
  /\ EndFlush("transient")
  /\ UNCHANGED <<journal, commits, progress, net, answer, server>>

\* ... or refuses it, someone else having created the ref since the tip was read.
PushRejected ==
  /\ pc = "push" /\ ref.owner = "other"
  /\ EndFlush("conflict")
  /\ UNCHANGED <<journal, commits, progress, remoteVars, spent>>

\* publish_events() begins: it sends what is not known delivered, and reports the
\* watermark durable without asking the endpoint when that is nothing.
BeginPublish ==
  /\ \/ delivered >= Len(journal) /\ EndFlush("ok") /\ UNCHANGED offset
     \/ delivered < Len(journal) /\ pc' = "post" /\ offset' = delivered /\ UNCHANGED result
  /\ attempt' = 0

\* The pushed commit is remembered, before its cursor file is written.
RememberPush ==
  /\ pc = "pushed"
  /\ lastPushed' = commits
  /\ \/ BeginPublish /\ UNCHANGED spent
     \/ Fault /\ EndFlush("failed") /\ UNCHANGED <<offset, attempt>>
  /\ UNCHANGED <<journal, commits, delivered, remoteVars>>

-----------------------------------------------------------------------------
(* publish_events() *)

\* Slip: the cursor advances when the batch is sent.
Post_Optimistic ==
  /\ pc = "post" /\ ~Oversized
  /\ net' = net \union {Batch}
  /\ answer' = NoAnswer
  /\ attempt' = attempt + 1
  /\ delivered' = BatchEnd
  /\ pc' = "await"
  /\ UNCHANGED <<journal, commits, result, lastPushed, offset, ref, server,
                 spent>>

\* One attempt at the next batch.  An earlier copy of it still under way is not
\* told apart from this one: the endpoint handling both is the same as one.
Post ==
  /\ pc = "post" /\ ~Oversized
  /\ net' = net \union {Batch}
  /\ answer' = NoAnswer
  /\ attempt' = attempt + 1
  /\ pc' = "await"
  /\ UNCHANGED <<journal, commits, result, lastPushed, delivered, offset, ref,
                 server, spent>>

\* The next event does not fit into any request, now and in every later flush.
RefuseBatch ==
  /\ pc = "post" /\ Oversized
  /\ EndFlush("oversized")
  /\ UNCHANGED <<journal, commits, progress, remoteVars, spent>>

\* validate_ack() for the batch [offset + 1 .. BatchEnd].
AckProves == /\ answer.kind = "ack"
             /\ answer.accepted >= BatchEnd
             /\ IsFinal => answer.durable >= Len(journal)

\* Slip: the flush returns after its first batch.
Acknowledged_FirstBatch ==
  /\ pc = "await" /\ AckProves
  /\ delivered' = answer.accepted
  /\ offset' = BatchEnd /\ attempt' = 0
  /\ EndFlush("ok")
  /\ UNCHANGED <<journal, commits, lastPushed, remoteVars, spent>>

\* Success, or 409 with an acknowledgement that proves the same prefix: the
\* cursor moves to what the endpoint says, the loop to the end of the batch.
Acknowledged ==
  /\ pc = "await" /\ AckProves
  /\ delivered' = answer.accepted
  /\ offset' = BatchEnd /\ attempt' = 0
  /\ \/ /\ IF IsFinal THEN EndFlush("ok") ELSE pc' = "post" /\ UNCHANGED result
        /\ UNCHANGED spent
     \/ Fault /\ EndFlush("failed")     \* the cursor file is not written
  /\ UNCHANGED <<journal, commits, lastPushed, remoteVars>>

\* Slip: one attempt too many.
Retry_OneMore ==
  /\ pc = "await"
  /\ \/ answer.kind = "busy" /\ UNCHANGED spent
     \/ Fault
  /\ IF attempt > MaxRetries + 1 THEN EndFlush("transient")
                                 ELSE pc' = "post" /\ UNCHANGED result
  /\ UNCHANGED <<journal, commits, progress, remoteVars>>

\* 5xx, 429 or a network error: the batch is posted again, or given up.
Retry ==
  /\ pc = "await"
  /\ \/ answer.kind = "busy" /\ UNCHANGED spent
     \/ Fault
  /\ IF attempt > MaxRetries THEN EndFlush("transient")
                             ELSE pc' = "post" /\ UNCHANGED result
  /\ UNCHANGED <<journal, commits, progress, remoteVars>>

\* Any other failure: of the journal, the tip, the push, or a 4xx.
StepFails ==
  /\ pc \in {"tip", "push", "await"}
  /\ Fault
  /\ EndFlush("failed")
  /\ UNCHANGED <<journal, commits, progress, remoteVars>>

-----------------------------------------------------------------------------
(* External: the endpoint, the network, other users of the Git server *)

\* The answer reaches the client only while it awaits that very attempt.
Reply(batch, kind, holds) ==
  answer' = IF pc = "await" /\ batch = [Batch EXCEPT !.attempt = attempt]
              THEN [kind |-> kind, accepted |-> holds.accepted, durable |-> holds.durable]
              ELSE answer

\* A contiguous batch extends the prefix held; a watermark it carries advances.
Accept(batch) ==
  /\ batch \in net
  /\ batch.from <= server.accepted + 1
  /\ net' = net \ {batch}
  /\ server' = [accepted |-> Max({server.accepted, batch.to}),
                durable  |-> Max({server.durable, batch.durable})]
  /\ Reply(batch, "ack", server')
  /\ UNCHANGED <<journal, commits, pc, result, progress, ref, spent>>

\* 5xx or 429, before anything was stored.
Busy(batch) ==
  /\ batch \in net
  /\ Fault
  /\ net' = net \ {batch}
  /\ Reply(batch, "busy", server)
  /\ UNCHANGED <<journal, commits, pc, result, progress, ref, server>>

\* Another writer creates the session's ref.
ForeignPush ==
  /\ ForeignWriter /\ ref.owner = "none"
  /\ ref' = [owner |-> "other", commit |-> 0]
  /\ UNCHANGED <<journal, commits, pc, result, progress, net, answer, server,
                 spent>>

-----------------------------------------------------------------------------
SinkStep ==
  \/ ReadTip \/ Push \/ PushUnanswered \/ PushRejected \/ RememberPush
  \/ Post \/ RefuseBatch \/ Acknowledged \/ Retry \/ StepFails

Next ==
  \/ \E size \in Sizes : Snapshot(size)
  \/ StartFlush \/ SinkStep \/ ForeignPush
  \/ \E batch \in net : Accept(batch) \/ Busy(batch)

Spec == Init /\ [][Next]_vars

-----------------------------------------------------------------------------
(* Properties *)

\* Type invariant.
TypeOK ==
  /\ journal \in Seq([commit : Nat, size : {1} \union Sizes]) /\ commits \in Nat
  /\ pc \in {"idle", "tip", "push", "pushed", "post", "await"}
  /\ result \in {"none", "ok", "transient", "failed", "conflict", "oversized"}
  /\ lastPushed \in Nat /\ delivered \in Nat /\ offset \in 0..Len(journal)
  /\ attempt \in 0..(MaxRetries + 1)
  /\ ref \in [owner : {"none", "us", "other"}, commit : Nat]
  /\ net \subseteq [from : Nat, to : Nat, durable : Nat, attempt : Nat]
  /\ answer \in [kind : {"none", "ack", "busy"}, accepted : Nat, durable : Nat]
  /\ server \in [accepted : Nat, durable : Nat]
  /\ spent \in [snapshots : Nat, flushes : Nat, faults : Nat]

\* "A snapshot event must never name unavailable Git content": every commit named
\* by an event the endpoint holds is reachable from the remote ref, also when the
\* event arrived late, from a flush that had failed.
EventsNameStoredCommits ==
  \A i \in 1..server.accepted : i <= Len(journal) /\ journal[i].commit <= ref.commit

\* The endpoint's watermark never passes what it holds, and always ends at a
\* flush event: a batch that is not the last of its flush carries no watermark.
WatermarkEndsAtFlush ==
  server.durable > 0 =>
    /\ server.durable <= server.accepted
    /\ journal[server.durable].commit = 0

\* The client's cursor never runs ahead of the endpoint, and a flush never finds
\* its own flush event delivered already: the short cut of publish_events(), which
\* reports durability without asking the endpoint, cannot be taken.
CursorIsHonest ==
  /\ delivered <= server.accepted
  /\ pc = "pushed" => delivered < Len(journal)

\* A flush that returns Ok has its whole journal durable at the endpoint and its
\* checkpoint on the remote ref at that moment.
FlushMeansDurable ==
  [][pc # "idle" /\ pc' = "idle" /\ result' = "ok" =>
       server.durable >= Len(journal) /\ ref.commit = commits]_vars

\* The recorder never takes over a ref another writer created, nor moves its own
\* ref back: "advances the recorder-owned Git ref with compare-and-swap semantics".
RefAdvancesOnly ==
  [][/\ ref.owner = "other" => ref' = ref
     /\ ref.owner = "us" => ref'.owner = "us" /\ ref'.commit >= ref.commit]_vars

\* While nobody else writes the session's ref, no flush ends in a conflict: an
\* earlier failure leaves nothing behind that a retry cannot get past.
NoSelfConflict == result = "conflict" => ref.owner = "other"

\* The recorder's promise to readers, with the endpoint's watermark as theirs.
Timeline == INSTANCE DurableTimeline
              WITH log     <- [i \in DOMAIN journal |-> journal[i].commit],
                   stored  <- ref.commit,
                   durable <- server.durable
ImplementsTimeline == Timeline!Spec

-----------------------------------------------------------------------------
(* The inductive invariants behind these properties *)

\* Where the steps of a flush have got to: its flush event ends the journal, its
\* checkpoint is on the ref before a batch is made, and the batch under way is
\* one of events still unsent.
FlushInv ==
  /\ journal # <<>>
  /\ pc # "idle" => journal[Len(journal)].commit = 0
  /\ pc \in {"pushed", "post", "await"} => ref.owner = "us" /\ ref.commit = commits
  /\ pc \in {"post", "await"} => offset < Len(journal)
  /\ pc = "post" => attempt <= MaxRetries
  /\ pc = "await" => BatchEnd \in Unsent

\* No commit is named or pushed before it is made.
RefInv ==
  /\ \A i \in 1..Len(journal) : journal[i].commit <= commits
  /\ ref.commit <= commits
  /\ ref.owner # "us" => ref.commit = 0

\* The journal's first n events can be told to the endpoint.
Tellable(n) == n <= Len(journal) /\ \A i \in 1..n : journal[i].commit <= ref.commit

\* A watermark of n ends at a flush event.
Flushed(n) == n > 0 => n <= Len(journal) /\ journal[n].commit = 0

\* What the network and the endpoint hold, from whichever flush it comes.
StoreInv ==
  /\ \A batch \in net :
       Tellable(batch.to) /\ Flushed(batch.durable) /\ batch.durable <= batch.to
  /\ Tellable(server.accepted) /\ Flushed(server.durable)
  /\ server.durable <= server.accepted

\* What the client believes the endpoint to hold.
ClientInv ==
  /\ answer.accepted <= server.accepted /\ answer.durable <= server.durable
  /\ delivered <= server.accepted
  /\ pc \in {"tip", "push", "pushed"} => delivered < Len(journal)

=============================================================================
