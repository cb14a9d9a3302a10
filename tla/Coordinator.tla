------------------------------ MODULE Coordinator ------------------------------
(***************************************************************************)
(* The recording loop of crates/rrjj-core/src/lib.rs: the audit            *)
(* accumulator that watcher callbacks fill, the coordinator task that owns *)
(* sequencing, snapshots and their retry, and the jj recorder it drives.   *)
(*                                                                         *)
(* The coordinator serves one command at a time, but every `.await' and    *)
(* every lock lets the watched tree, the watcher callbacks and the other   *)
(* tasks move.  One command is therefore several actions, and `pc' names   *)
(* the await the task is at.                                               *)
(*                                                                         *)
(* Data is abstract.  A version of the watched tree is a number (`fs'      *)
(* counts its writes); operation n is the n-th jj transaction, and commit  *)
(* n the commit it wrote.  Overflow notices are only counted, but for the  *)
(* coordinator's own, whose place among those pending is `audit.own' and   *)
(* whose event has count 1.  The sink is its trait contract: emit() either *)
(* accepts the event or leaves the journal as it was.                      *)
(***************************************************************************)
EXTENDS Naturals, Sequences, FiniteSets, FiniteSetsExt

CONSTANTS
  Paths,              \* the paths notifications can name
  MaxAuditPaths,      \* MAX_AUDIT_PATHS
  MaxOverflowReports, \* MAX_OVERFLOW_REPORTS
  Errors,             \* classes of failed command: see fatal_capture_error()
  CleanSnap,          \* may a Snap reach a coordinator with nothing pending?
  TornCapture,        \* may capture() fail after its transaction committed?
  MaxWrites,          \* bound: writes to the watched tree
  MaxCommands,        \* bound: commands received
  MaxFaults           \* bound: failures of the sink, the store or the watch

ASSUME LimitsAssumption ==
  MaxAuditPaths \in Nat \ {0} /\ MaxOverflowReports \in Nat \ {0}
ASSUME SwitchAssumption == CleanSnap \in BOOLEAN /\ TornCapture \in BOOLEAN
ASSUME ErrorAssumption == Errors \subseteq {"retryable", "fatal"} /\ Errors # {}
ASSUME BoundAssumption == {MaxWrites, MaxCommands, MaxFaults} \subseteq Nat
ASSUME PathsAssumption == IsFiniteSet(Paths)

VARIABLES
  \* the watched tree and the native watcher
  fs,           \* version of the watched tree
  notices,      \* notifications the OS has queued and not yet delivered
  watching,     \* is the watch registered?
  blind,        \* version of the tree when the watch was registered
  acc,          \* AuditAccumulator: [paths, raw, overflows, limited]
  \* Coordinator
  seq, snapshots, paused,
  audit,        \* [touched, raw, overflows, own, limited, force, pending]
  pendingEvent, \* pending_snapshot_event, or NoEvent
  recorder,     \* JjRecorder: [op, tree, commit]
  \* the coordinator task
  pc, cmd,      \* where the task is, and the command it serves
  scanned,      \* the tree snapshot_tree() returned, until it is committed
  reply,        \* outcome of the last command
  \* the sink
  journal,      \* events accepted, in order
  durable,      \* the watermark flush_session() made durable
  \* history
  observed,     \* notifications folded into the accumulator so far
  spent         \* [commands, faults] used up of the bounds

watchVars == <<fs, notices, watching, blind>>
sinkVars == <<journal, durable>>
vars == <<fs, notices, watching, blind, acc, seq, snapshots, paused, audit,
          pendingEvent, recorder, pc, cmd, scanned, reply, journal, durable,
          observed, spent>>

Rescan == "rescan"    \* the notice a lossy OS queue leaves (need_rescan)

Kinds == {"none", "session_start", "snapshot", "touched_paths", "overflow",
          "mark", "flush", "session_end"}
Event == [kind : Kinds, seq : Nat, op : Nat, parent : Nat, tree : Nat,
          full : BOOLEAN, count : Nat]

\* An event with only its kind and sequence; constructors fill in the rest.
BareEvent(kind, s) ==
  [kind |-> kind, seq |-> s, op |-> 0, parent |-> 0, tree |-> 0,
   full |-> FALSE, count |-> 0]
NoEvent == BareEvent("none", 0)

AuditState == [paths : SUBSET Paths, raw : Nat,
               overflows : 0..MaxOverflowReports, limited : BOOLEAN]
AuditWindow == [touched : SUBSET Paths, raw : Nat, overflows : Nat, own : Nat,
                limited : BOOLEAN, force : BOOLEAN, pending : BOOLEAN]

EmptyAcc == [paths |-> {}, raw |-> 0, overflows |-> 0, limited |-> FALSE]
CleanAudit == [touched |-> {}, raw |-> 0, overflows |-> 0, own |-> 0,
               limited |-> FALSE, force |-> FALSE, pending |-> FALSE]

CommandKinds == {"snap", "mark", "flush", "resume", "shutdown"}

-----------------------------------------------------------------------------
(* AuditAccumulator *)

\* observe(): fold one notification in; a new path beyond the cap is dropped
\* and the cap remembered.
Observe(a, p) ==
  IF p \in a.paths \/ Cardinality(a.paths) < MaxAuditPaths
    THEN [a EXCEPT !.paths = @ \union {p}, !.raw = @ + 1]
    ELSE [a EXCEPT !.limited = TRUE, !.raw = @ + 1]

\* Slip: the report cap is forgotten.
ReportOverflow_Uncapped(a) == [a EXCEPT !.overflows = @ + 1]

\* report_overflow() and push_overflow(): the last slot holds the notice that
\* says reports were limited, so the count saturates at the cap.
ReportOverflow(a) ==
  [a EXCEPT !.overflows = IF @ < MaxOverflowReports THEN @ + 1 ELSE @]

\* is_dirty(); also when deadline() has something to wait for.
IsDirty(a) == a.paths # {} \/ a.overflows > 0

\* The notices drain() hands over: those reported, then its own path limit.
BatchOverflows(a) == a.overflows + (IF a.limited THEN 1 ELSE 0)

-----------------------------------------------------------------------------
(* Coordinator: its audit window *)

\* The ways to merge `batch' into `held' under the cap (drain_audit()
\* keeps what is held and takes new paths in map order until it is full).
Merged(held, batch) ==
  {m \in SUBSET (held \union batch) :
     /\ held \subseteq m
     /\ Cardinality(m) = (IF Cardinality(held \union batch) <= MaxAuditPaths
                            THEN Cardinality(held \union batch)
                            ELSE MaxAuditPaths)}

\* drain_audit(): the windows the coordinator can hold after draining `a' into
\* `w'.  Its own path-limit notice comes before the batch's and does not set
\* force_full_scan.
DrainAudit(a, w) ==
  LET full == Cardinality(w.touched \union a.paths) > MaxAuditPaths
      adds == full /\ ~w.limited
      new  == w.overflows + BatchOverflows(a) + (IF adds THEN 1 ELSE 0)
  IN  {[touched   |-> m,
        raw       |-> w.raw + a.raw,
        overflows |-> new,
        own       |-> IF adds THEN w.overflows + 1 ELSE w.own,
        limited   |-> w.limited \/ full,
        force     |-> w.force \/ BatchOverflows(a) > 0,
        pending   |-> w.pending \/ m # {} \/ new > 0] :
         m \in Merged(w.touched, a.paths)}

-----------------------------------------------------------------------------
(* Init: start() has captured the baseline and emitted session_start; the  *)
(* native watch is not registered yet.                                     *)

Init ==
  /\ fs = 0 /\ notices = {} /\ watching = FALSE /\ blind = 0
  /\ acc = EmptyAcc
  /\ seq = 1 /\ snapshots = 0 /\ paused = FALSE
  /\ audit = CleanAudit /\ pendingEvent = NoEvent
  /\ recorder = [op |-> 1, tree |-> 0, commit |-> 1]
  /\ pc = "idle" /\ cmd = "none" /\ scanned = 0 /\ reply = "none"
  /\ journal = <<[BareEvent("session_start", 0) EXCEPT !.op = 1]>>
  /\ durable = [seq |-> 0, op |-> 0, commit |-> 0]
  /\ observed = 0
  /\ spent = [commands |-> 0, faults |-> 0]

-----------------------------------------------------------------------------
(* The watched tree and the watcher callbacks *)

\* The workload changes a path.  Before the watch is registered nothing is
\* told of it.
Write(p) ==
  /\ fs < MaxWrites
  /\ fs' = fs + 1
  /\ IF watching THEN notices' = notices \union {p} /\ UNCHANGED blind
                 ELSE blind' = fs + 1 /\ UNCHANGED notices
  /\ UNCHANGED <<watching, acc, seq, snapshots, paused, audit, pendingEvent,
                 recorder, pc, cmd, scanned, reply, sinkVars, observed, spent>>

\* start_watcher() registers the recursive watch.
StartWatcher ==
  /\ ~watching
  /\ watching' = TRUE
  /\ UNCHANGED <<fs, notices, blind, acc, seq, snapshots, paused, audit,
                 pendingEvent, recorder, pc, cmd, scanned, reply, sinkVars,
                 observed, spent>>

\* The OS queue overflows: what it held is replaced by a rescan request.
LoseNotices ==
  /\ notices \ {Rescan} # {}
  /\ spent.faults < MaxFaults
  /\ notices' = {Rescan}
  /\ spent' = [spent EXCEPT !.faults = @ + 1]
  /\ UNCHANGED <<fs, watching, blind, acc, seq, snapshots, paused, audit,
                 pendingEvent, recorder, pc, cmd, scanned, reply, sinkVars,
                 observed>>

\* The watcher callback, on its own thread: touched() or overflow().
Deliver(n) ==
  /\ n \in notices
  /\ notices' = notices \ {n}
  /\ IF n = Rescan
       THEN acc' = ReportOverflow(acc) /\ UNCHANGED observed
       ELSE acc' = Observe(acc, n) /\ observed' = observed + 1
  /\ UNCHANGED <<fs, watching, blind, seq, snapshots, paused, audit,
                 pendingEvent, recorder, pc, cmd, scanned, reply, sinkVars,
                 spent>>

-----------------------------------------------------------------------------
(* The coordinator task: replies, and calls to the sink *)

\* Answer the command.  run() returns after a shutdown whatever its result.
Return(result) ==
  /\ reply' = result
  /\ cmd' = "none"
  /\ pc' = IF cmd = "shutdown" THEN "stopped" ELSE "idle"

\* Slip: the sequence of a retained event is not compared.
Accept_Unchecked(event) ==
  /\ journal' = Append(journal, event)
  /\ seq' = seq + 1

\* emit_exact() accepted: the sink holds the event and the sequence advances.
Accept(event) ==
  /\ event.seq = seq
  /\ journal' = Append(journal, event)
  /\ seq' = seq + 1

\* An awaited call fails and `?' carries its error out of the command.
Fail ==
  /\ spent.faults < MaxFaults
  /\ spent' = [spent EXCEPT !.faults = @ + 1]
  /\ \E e \in Errors : Return(e)

\* snapshot() returns Ok to its caller with audit window w: Snap answers, the
\* loops of mark(), flush(), finish() and Resume drain again and re-test.
AfterSnapshot(w) ==
  IF cmd = "snap"
    THEN /\ audit' = w
         /\ Return("ok")
         /\ UNCHANGED acc
    ELSE /\ audit' \in DrainAudit(acc, w)
         /\ acc' = EmptyAcc
         /\ pc' = "loop"
         /\ UNCHANGED <<cmd, reply>>

-----------------------------------------------------------------------------
(* The coordinator task: receiving a command *)

\* A command is taken from the channel; mark(), flush(), finish() and Resume
\* begin by draining the accumulator.
Receive(kind) ==
  /\ pc = "idle" /\ watching
  /\ spent.commands < MaxCommands
  /\ kind = "snap" => CleanSnap \/ audit.pending \/ IsDirty(acc)
  /\ spent' = [spent EXCEPT !.commands = @ + 1]
  /\ cmd' = kind /\ reply' = "none"
  /\ paused' = (paused /\ kind # "resume")
  /\ IF kind = "snap"
       THEN pc' = "snapshot" /\ UNCHANGED <<audit, acc>>
       ELSE /\ pc' = "loop"
            /\ audit' \in DrainAudit(acc, audit)
            /\ acc' = EmptyAcc
  /\ UNCHANGED <<watchVars, seq, snapshots, pendingEvent, recorder, scanned,
                 sinkVars, observed>>

\* Command::Pause is answered at once.
ReceivePause ==
  /\ pc = "idle" /\ watching
  /\ spent.commands < MaxCommands
  /\ spent' = [spent EXCEPT !.commands = @ + 1]
  /\ paused' = TRUE /\ reply' = "ok"
  /\ UNCHANGED <<watchVars, acc, seq, snapshots, audit, pendingEvent, recorder,
                 pc, cmd, scanned, sinkVars, observed>>

\* Slip: the loop tests what is held instead of pending_snapshot.
TestPending_Held ==
  /\ pc = "loop"
  /\ IF audit.touched # {} \/ audit.overflows > 0
       THEN pc' = "snapshot" /\ UNCHANGED <<cmd, reply>>
       ELSE IF cmd = "resume" THEN Return("ok")
                              ELSE pc' = "final" /\ UNCHANGED <<cmd, reply>>
  /\ UNCHANGED <<watchVars, acc, seq, snapshots, paused, audit, pendingEvent,
                 recorder, scanned, sinkVars, observed, spent>>

\* The test of `while self.pending_snapshot'; what follows the loop depends on
\* the command.
TestPending ==
  /\ pc = "loop"
  /\ \/ /\ audit.pending
        /\ pc' = "snapshot"
        /\ UNCHANGED <<cmd, reply>>
     \/ /\ ~audit.pending /\ cmd = "resume"
        /\ Return("ok")
     \/ /\ ~audit.pending /\ cmd # "resume"
        /\ pc' = "final"
        /\ UNCHANGED <<cmd, reply>>
  /\ UNCHANGED <<watchVars, acc, seq, snapshots, paused, audit, pendingEvent,
                 recorder, scanned, sinkVars, observed, spent>>

-----------------------------------------------------------------------------
(* The coordinator task: snapshot() *)

\* Slips: a retry is taken for a fresh checkpoint, or drops the forced scan.
RetriedWindow_AsFresh(w) == [w EXCEPT !.force = FALSE, !.pending = FALSE]
RetriedWindow_Unforced(w) ==
  [w EXCEPT !.force = FALSE, !.pending = w.touched # {} \/ w.overflows > 0]

\* The window after a retained event is accepted: it stays pending for what
\* was drained meanwhile, and is forced only for overflows.
RetriedWindow(w) ==
  [w EXCEPT !.force = w.overflows > 0,
            !.pending = w.touched # {} \/ w.overflows > 0]

\* The window after a fresh checkpoint is accepted.
PublishedWindow(w) == [w EXCEPT !.force = FALSE, !.pending = FALSE]

\* A retained snapshot event is offered to the sink again and accepted.
RetryPending ==
  /\ pc = "snapshot" /\ pendingEvent # NoEvent
  /\ Accept(pendingEvent)
  /\ pendingEvent' = NoEvent
  /\ snapshots' = snapshots + 1
  /\ AfterSnapshot(RetriedWindow(audit))
  /\ UNCHANGED <<watchVars, paused, recorder, scanned, durable, observed, spent>>

\* The sequence has moved since the event was retained: emit_exact() refuses
\* it before it reaches the sink.
RefuseStalePending ==
  /\ pc = "snapshot" /\ pendingEvent # NoEvent
  /\ pendingEvent.seq # seq
  /\ Return("retryable")
  /\ UNCHANGED <<watchVars, acc, seq, snapshots, paused, audit, pendingEvent,
                 recorder, scanned, sinkVars, observed, spent>>

\* Slip: a new checkpoint is begun while an event is retained.
BeginSnapshot_Unguarded ==
  /\ pc = "snapshot"
  /\ audit' \in DrainAudit(acc, audit)
  /\ acc' = EmptyAcc
  /\ pc' = "audit"
  /\ UNCHANGED <<watchVars, seq, snapshots, paused, pendingEvent, recorder,
                 cmd, scanned, reply, sinkVars, observed, spent>>

\* No event is retained: drain, then emit what was drained.
BeginSnapshot ==
  /\ pc = "snapshot" /\ pendingEvent = NoEvent
  /\ audit' \in DrainAudit(acc, audit)
  /\ acc' = EmptyAcc
  /\ pc' = "audit"
  /\ UNCHANGED <<watchVars, seq, snapshots, paused, pendingEvent, recorder,
                 cmd, scanned, reply, sinkVars, observed, spent>>

\* emit_overflows(): one event per notice, removed once it is accepted.
EmitOverflow ==
  /\ pc = "audit" /\ audit.overflows > 0
  /\ Accept([BareEvent("overflow", seq) EXCEPT
               !.count = IF audit.own = 1 THEN 1 ELSE 0])
  /\ audit' = [audit EXCEPT !.overflows = @ - 1,
                            !.own = IF @ > 0 THEN @ - 1 ELSE 0]
  /\ UNCHANGED <<watchVars, acc, snapshots, paused, pendingEvent, recorder, pc,
                 cmd, scanned, reply, durable, observed, spent>>

\* Slip: raw_events is not reset with the window.
EmitAudit_KeepsRaw ==
  /\ pc = "audit" /\ audit.overflows = 0 /\ audit.touched # {}
  /\ Accept([BareEvent("touched_paths", seq) EXCEPT !.count = audit.raw])
  /\ audit' = [audit EXCEPT !.touched = {}, !.limited = FALSE]
  /\ UNCHANGED <<watchVars, acc, snapshots, paused, pendingEvent, recorder, pc,
                 cmd, scanned, reply, durable, observed, spent>>

\* emit_audit(): the window is cleared only once its event is accepted.
EmitAudit ==
  /\ pc = "audit" /\ audit.overflows = 0 /\ audit.touched # {}
  /\ Accept([BareEvent("touched_paths", seq) EXCEPT !.count = audit.raw])
  /\ audit' = [audit EXCEPT !.touched = {}, !.raw = 0, !.limited = FALSE]
  /\ UNCHANGED <<watchVars, acc, snapshots, paused, pendingEvent, recorder, pc,
                 cmd, scanned, reply, durable, observed, spent>>

\* capture(), first half: snapshot_tree() reads the watched tree.
ScanTree ==
  /\ pc = "audit" /\ audit.overflows = 0 /\ audit.touched = {}
  /\ scanned' = fs
  /\ pc' = "commit"
  /\ UNCHANGED <<watchVars, acc, seq, snapshots, paused, audit, pendingEvent,
                 recorder, cmd, reply, sinkVars, observed, spent>>

\* capture(), second half: the transaction commits, the recorder moves on, and
\* the snapshot event is prepared with the current sequence.
CommitCapture ==
  /\ pc = "commit"
  /\ LET op == recorder.op + 1
     IN  /\ recorder' = [op |-> op, tree |-> scanned, commit |-> op]
         /\ pendingEvent' = [BareEvent("snapshot", seq) EXCEPT
                               !.op = op, !.parent = recorder.op,
                               !.tree = scanned, !.full = audit.force]
  /\ pc' = "emit"
  /\ UNCHANGED <<watchVars, acc, seq, snapshots, paused, audit, cmd, scanned,
                 reply, sinkVars, observed, spent>>

\* The transaction committed and self.repo points at it, but finishing the
\* working copy failed: previous_tree and previous_commit stay behind.
TearCapture ==
  /\ pc = "commit" /\ TornCapture
  /\ recorder' = [recorder EXCEPT !.op = @ + 1]
  /\ Fail
  /\ UNCHANGED <<watchVars, acc, seq, snapshots, paused, audit, pendingEvent,
                 scanned, sinkVars, observed>>

\* The snapshot event is accepted.
EmitSnapshot ==
  /\ pc = "emit"
  /\ Accept(pendingEvent)
  /\ pendingEvent' = NoEvent
  /\ snapshots' = snapshots + 1
  /\ AfterSnapshot(PublishedWindow(audit))
  /\ UNCHANGED <<watchVars, paused, recorder, scanned, durable, observed, spent>>

-----------------------------------------------------------------------------
(* The coordinator task: the end of mark(), flush() and finish() *)

\* mark(): the event names the recorder's operation, whichever it is.
EmitMark ==
  /\ pc = "final" /\ cmd = "mark"
  /\ Accept([BareEvent("mark", seq) EXCEPT !.op = recorder.op])
  /\ Return("ok")
  /\ UNCHANGED <<watchVars, acc, snapshots, paused, audit, pendingEvent,
                 recorder, scanned, durable, observed, spent>>

\* finish(): session_end, then flush_durable().
EmitSessionEnd ==
  /\ pc = "final" /\ cmd = "shutdown"
  /\ Accept([BareEvent("session_end", seq) EXCEPT !.op = recorder.op,
                                                  !.count = snapshots])
  /\ pc' = "flush"
  /\ UNCHANGED <<watchVars, acc, snapshots, paused, audit, pendingEvent,
                 recorder, cmd, scanned, reply, durable, observed, spent>>

\* flush_durable(), first half: the flush event.
EmitFlush ==
  /\ \/ pc = "final" /\ cmd = "flush"
     \/ pc = "flush"
  /\ Accept([BareEvent("flush", seq) EXCEPT !.op = recorder.op])
  /\ pc' = "session"
  /\ UNCHANGED <<watchVars, acc, snapshots, paused, audit, pendingEvent,
                 recorder, cmd, scanned, reply, durable, observed, spent>>

\* Slip: the watermark is the next sequence instead of the last one.
FlushSession_PastEnd ==
  /\ pc = "session"
  /\ durable' = [seq |-> seq, op |-> recorder.op, commit |-> recorder.commit]
  /\ Return("ok")
  /\ UNCHANGED <<watchVars, acc, seq, snapshots, paused, audit, pendingEvent,
                 recorder, scanned, journal, observed, spent>>

\* flush_durable(), second half: the sink makes the prefix durable.
FlushSession ==
  /\ pc = "session"
  /\ durable' = [seq |-> seq - 1, op |-> recorder.op, commit |-> recorder.commit]
  /\ Return("ok")
  /\ UNCHANGED <<watchVars, acc, seq, snapshots, paused, audit, pendingEvent,
                 recorder, scanned, journal, observed, spent>>

\* Slip: the snapshot event is dropped when the sink refuses it.
CallFails_DropsEvent ==
  /\ \/ pc \in {"audit", "commit", "emit", "final", "flush", "session"}
     \/ pc = "snapshot" /\ pendingEvent # NoEvent /\ pendingEvent.seq = seq
  /\ Fail
  /\ pendingEvent' = NoEvent
  /\ UNCHANGED <<watchVars, acc, seq, snapshots, paused, audit, recorder,
                 scanned, sinkVars, observed>>

\* An awaited sink or store call fails; nothing else has changed.
CallFails ==
  /\ \/ pc \in {"audit", "commit", "emit", "final", "flush", "session"}
     \/ pc = "snapshot" /\ pendingEvent # NoEvent /\ pendingEvent.seq = seq
  /\ Fail
  /\ UNCHANGED <<watchVars, acc, seq, snapshots, paused, audit, pendingEvent,
                 recorder, scanned, sinkVars, observed>>

-----------------------------------------------------------------------------
\* The steps the coordinator task takes once it has a command.
TaskStep ==
  \/ TestPending \/ RetryPending \/ RefuseStalePending \/ BeginSnapshot
  \/ EmitOverflow \/ EmitAudit \/ ScanTree \/ CommitCapture \/ TearCapture
  \/ EmitSnapshot \/ EmitMark \/ EmitSessionEnd \/ EmitFlush \/ FlushSession
  \/ CallFails

WatchStep ==
  \/ StartWatcher \/ LoseNotices
  \/ \E p \in Paths : Write(p)
  \/ \E n \in notices : Deliver(n)

Next ==
  \/ WatchStep \/ TaskStep \/ ReceivePause
  \/ \E kind \in CommandKinds : Receive(kind)

Spec == Init /\ [][Next]_vars

-----------------------------------------------------------------------------
(* Properties *)

\* Type invariant.
TypeOK ==
  /\ fs \in Nat /\ blind \in Nat /\ watching \in BOOLEAN
  /\ notices \subseteq Paths \union {Rescan}
  /\ acc \in AuditState
  /\ seq \in Nat \ {0} /\ snapshots \in Nat /\ paused \in BOOLEAN
  /\ audit \in AuditWindow
  /\ pendingEvent \in Event
  /\ recorder \in [op : Nat, tree : Nat, commit : Nat]
  /\ pc \in {"idle", "loop", "snapshot", "audit", "commit", "emit", "final",
             "flush", "session", "stopped"}
  /\ cmd \in CommandKinds \union {"none"}
  /\ scanned \in Nat /\ reply \in {"none", "ok", "retryable", "fatal"}
  /\ journal \in Seq(Event)
  /\ durable \in [seq : Nat, op : Nat, commit : Nat]
  /\ observed \in Nat
  /\ spent \in [commands : Nat, faults : Nat]

\* The checkpoints among the first n journal events, and the latest of them.
Checkpoints(n) ==
  {i \in 1..n : journal[i].kind \in {"session_start", "snapshot"}}
LastCheckpoint(n) == journal[Max(Checkpoints(n))]
PublishedTree == LastCheckpoint(Len(journal)).tree

\* Sequence numbers in the journal are 0, 1, 2, ... with no gap or repetition,
\* whatever fails and is retried (schema: "strictly increasing by one").
JournalContiguous ==
  /\ seq = Len(journal)
  /\ \A i \in 1..Len(journal) : journal[i].seq = i - 1

\* No change is forgotten: once the watch is registered, while the newest
\* published checkpoint is not the tree as it stands, a notification is still
\* queued or folded in, or the coordinator knows a snapshot is due, or it holds
\* an unpublished one.  Draining must come before the scan for this to hold.
NoLostChange ==
  fs # PublishedTree /\ fs # blind =>
    notices # {} \/ IsDirty(acc) \/ audit.pending \/ pendingEvent # NoEvent

\* The notifications the journal tells of: the k-th of those that event i counts.
Reported ==
  UNION {{i} \X (1..journal[i].count) :
           i \in {k \in 1..Len(journal) : journal[k].kind = "touched_paths"}}

\* Every notification observed is in exactly one touched_paths event or still
\* held: a sink failure between draining and accepting neither loses nor
\* repeats audit context.
AuditConserved == Cardinality(Reported) + audit.raw + acc.raw = observed

\* A snapshot event that could not be emitted is kept unchanged until it is the
\* next event accepted, and no other checkpoint is taken meanwhile.
PendingRetriedExactly ==
  [][pendingEvent # NoEvent =>
       /\ recorder' = recorder
       /\ \/ pendingEvent' = pendingEvent
          \/ pendingEvent' = NoEvent /\ journal' = Append(journal, pendingEvent)]_vars

\* A retained snapshot event stays the next one in sequence: emit_exact()'s own
\* ensure! ("pending event sequence changed") never stands in the way of a retry.
PendingStaysNext == pendingEvent # NoEvent => pendingEvent.seq = seq

\* A mark, flush or session_end names the operation of the newest checkpoint
\* in the journal before it: it comes after any snapshot already pending.
NamesLastCheckpoint ==
  \A i \in 1..Len(journal) :
    journal[i].kind \in {"mark", "flush", "session_end"} =>
      journal[i].op = LastCheckpoint(i).op

\* Every operation an event names, as its own or as the parent of a snapshot,
\* is the operation of an event the reader indexes: it can be opened and diffed.
OpsAreIndexed ==
  \A i \in 1..Len(journal) :
    LET named == CASE journal[i].kind = "snapshot" -> {journal[i].parent}
                   [] journal[i].kind \in {"mark", "flush", "session_end"} -> {journal[i].op}
                   [] OTHER -> {}
    IN  \A op \in named : \E k \in Checkpoints(i - 1) : journal[k].op = op

\* Between an overflow event that tells of lost notifications and any later
\* mark, flush or session_end there is a snapshot taken with a full scan, also
\* when that snapshot is refused and retried.  (The event of the coordinator's
\* own path limit, count 1, announces a full scan too and does not force one.)
OverflowForcesFullScan ==
  \A i, k \in 1..Len(journal) :
    /\ i < k
    /\ journal[i].kind = "overflow" /\ journal[i].count = 0
    /\ journal[k].kind \in {"mark", "flush", "session_end"}
    => \E s \in i..k : journal[s].kind = "snapshot" /\ journal[s].full

\* The durable watermark names one checkpoint: its commit is the commit of its
\* operation, and that checkpoint is in the durable prefix.
WatermarkIsCheckpoint ==
  durable.seq > 0 =>
    /\ durable.commit = durable.op
    /\ durable.seq < seq
    /\ \E k \in Checkpoints(durable.seq) : journal[k].op = durable.op

\* The promise to readers (DurableTimeline), when flush_session() does what its
\* trait says: the sequence only grows, and the watermark only advances over
\* checkpoints whose commits the flush carried.
CommitNamed(e) == IF e.kind \in {"session_start", "snapshot"} THEN e.op ELSE 0
Timeline == INSTANCE DurableTimeline
              WITH log     <- [i \in 1..Len(journal) |-> CommitNamed(journal[i])],
                   stored  <- durable.commit,
                   durable <- IF durable.seq = 0 THEN 0 ELSE durable.seq + 1
ImplementsTimeline == Timeline!Spec

-----------------------------------------------------------------------------
(* The inductive invariant behind NoLostChange and JournalContiguous *)

\* What the coordinator holds that makes a snapshot due, and what tells it that
\* one is.
Held == audit.touched # {} \/ audit.overflows > 0
Noticed == notices # {} \/ IsDirty(acc)

\* Tree t is the watched tree, or something still says that it is not.
Current(t) == t = fs \/ fs = blind \/ Noticed

\* Tree t is the one the newest checkpoint in the journal names.
Published(t) ==
  \E i \in Checkpoints(Len(journal)) :
    /\ \A k \in Checkpoints(Len(journal)) : k <= i
    /\ journal[i].tree = t

ChangeInv ==
  /\ blind <= fs /\ (~watching => blind = fs)
  /\ Current(recorder.tree) \/ audit.pending
  /\ pendingEvent # NoEvent => Current(recorder.tree) \/ Held
  /\ pc = "commit" => Current(scanned)
  /\ Held => audit.pending
  /\ pc \in {"commit", "emit"} => ~Held

EventInv ==
  /\ JournalContiguous
  /\ pc = "emit" => pendingEvent # NoEvent
  /\ pc \in {"audit", "commit"} => pendingEvent = NoEvent
  /\ pendingEvent = NoEvent => Published(recorder.tree)
  /\ pendingEvent # NoEvent =>
       /\ pendingEvent.kind = "snapshot"
       /\ pendingEvent.tree = recorder.tree

Inv == TypeOK /\ ChangeInv /\ EventInv

\* Behind AuditConserved: the set it counts is finite.
AuditInv == IsFiniteSet(Reported) /\ AuditConserved

-----------------------------------------------------------------------------
(* The inductive invariants behind the properties of marks, flushes, the   *)
(* watermark, overflows and the refinement                                 *)

\* No commit is named before it is made, in the journal or by the watermark.
CommitInv ==
  /\ recorder.commit <= recorder.op
  /\ \A i \in 1..Len(journal) : CommitNamed(journal[i]) <= recorder.commit
  /\ pendingEvent # NoEvent => pendingEvent.op = recorder.commit
  /\ durable.commit <= recorder.commit /\ durable.seq < seq

\* Journal event i tells of lost notifications, and event s is a full scan.
TellsLoss(i) == journal[i].kind = "overflow" /\ journal[i].count = 0
FullScan(s) == journal[s].kind = "snapshot" /\ journal[s].full

\* The journal has told of lost notifications and no full scan has followed.
Unscanned ==
  \E i \in 1..Len(journal) :
    TellsLoss(i) /\ \A s \in i..Len(journal) : ~FullScan(s)

\* The notices held in window w force a full scan, but for the coordinator's own.
NoticesForce(w) ==
  /\ w.overflows > 0 => w.force \/ (w.overflows = 1 /\ w.own = 1)
  /\ w.own <= w.overflows
  /\ w.own > 0 => w.limited

ScanInv ==
  /\ Unscanned => /\ audit.force /\ audit.pending
                  /\ pendingEvent # NoEvent => pendingEvent.full
  /\ NoticesForce(audit)
  /\ pc \in {"final", "flush", "session"} => ~audit.pending
  /\ OverflowForcesFullScan

\* When no snapshot runs with nothing pending: whoever holds an event, or is
\* about to take a checkpoint, has a snapshot pending, so no mark comes between.
OrderInv ==
  /\ pendingEvent # NoEvent => audit.pending /\ pendingEvent.seq = seq
  /\ pc = "snapshot" => audit.pending \/ IsDirty(acc)
  /\ pc \in {"audit", "commit", "emit"} => audit.pending

\* The newest checkpoint among the first n events is one of operation op.
NewestIs(n, op) ==
  \E i \in Checkpoints(n) :
    (\A k \in Checkpoints(n) : k <= i) /\ journal[i].op = op

\* When moreover no capture is torn: the recorder's operation is that of the
\* newest checkpoint in the journal, or of the event retained for it.
IndexInv ==
  /\ recorder.commit = recorder.op
  /\ pendingEvent = NoEvent => NewestIs(Len(journal), recorder.op)
  /\ pendingEvent # NoEvent =>
       \E k \in Checkpoints(Len(journal)) : journal[k].op = pendingEvent.parent
  /\ pc = "session" => journal[Len(journal)].kind = "flush"
  /\ \A i \in 1..Len(journal) :
       journal[i].kind \in {"mark", "flush", "session_end"} => NewestIs(i, journal[i].op)
  /\ OpsAreIndexed /\ WatermarkIsCheckpoint

=============================================================================
