------------------------ MODULE CoordinatorOrder_proofs ------------------------
(***************************************************************************)
(* Proofs about Coordinator's journal, for every value of its constants:   *)
(* it implements DurableTimeline, lost notifications force a full scan,    *)
(* and marks, flushes and the watermark name the newest checkpoint.        *)
(*                                                                         *)
(* Each property has an inductive invariant at the end of Coordinator;     *)
(* they rest on Inv of Coordinator_proofs, and OrderInv and IndexInv on    *)
(* the two switches the properties need.                                   *)
(***************************************************************************)
EXTENDS Coordinator_proofs

-----------------------------------------------------------------------------
(* Accepting an event *)

\* emit_exact() appends: what was in the journal stays where it is.
LEMMA Appended ==
  ASSUME TypeOK, JournalContiguous, NEW e, Accept(e)
  PROVE  /\ Len(journal) \in Nat /\ Len(journal)' = Len(journal) + 1
         /\ seq = Len(journal) /\ seq' = Len(journal) + 1
         /\ \A i \in 1..Len(journal) : journal'[i] = journal[i]
         /\ journal'[Len(journal) + 1] = e
BY DEF Accept, TypeOK, JournalContiguous

\* The checkpoints among the events already there are still the same.
LEMMA CheckpointsKept ==
  ASSUME TypeOK, JournalContiguous, NEW e, Accept(e), NEW n \in 0..Len(journal)
  PROVE  Checkpoints(n)' = Checkpoints(n)
<1>1. \A i \in 1..n : journal'[i] = journal[i]
  BY Appended
<1> QED
  BY <1>1 DEF Checkpoints

\* Every event accepted is the retained one or one the coordinator builds of
\* another kind: an overflow, a touched_paths, or one that names the
\* recorder's operation while the task is past its loop.
LEMMA AcceptedEvent ==
  ASSUME Inv, [Next]_vars, journal' # journal
  PROVE  \E e \in Event :
           /\ Accept(e) /\ UNCHANGED <<durable, recorder>>
           /\ \/ /\ e = pendingEvent /\ pendingEvent # NoEvent /\ pendingEvent' = NoEvent
                 /\ (RetryPending \/ EmitSnapshot)
              \/ /\ e.kind = "overflow" /\ UNCHANGED pendingEvent /\ EmitOverflow
                 /\ e.count = (IF audit.own = 1 THEN 1 ELSE 0)
              \/ e.kind = "touched_paths" /\ UNCHANGED pendingEvent /\ EmitAudit
              \/ /\ e.kind \in {"mark", "flush", "session_end"} /\ e.op = recorder.op
                 /\ pc \in {"final", "flush"} /\ pc' \notin {"snapshot", "audit", "commit", "emit"}
                 /\ pc' = "session" => e.kind = "flush"
                 /\ UNCHANGED <<pendingEvent, audit, acc>>
<1>t. /\ TypeOK /\ EventInv /\ seq \in Nat /\ recorder.op \in Nat /\ snapshots \in Nat /\ audit.raw \in Nat
      /\ pendingEvent \in Event
  BY DEF Inv, TypeOK, AuditWindow
<1>1. CASE WatchStep \/ UNCHANGED vars \/ ReceivePause
  BY <1>1 DEF WatchStep, Write, StartWatcher, LoseNotices, Deliver, ReceivePause, vars,
              sinkVars
<1>2. ASSUME NEW kind \in CommandKinds, Receive(kind) PROVE FALSE
  BY <1>2 DEF Receive, sinkVars
<1>3. CASE TestPending \/ RefuseStalePending \/ CallFails \/ FlushSession \/ BeginSnapshot
           \/ ScanTree \/ CommitCapture \/ TearCapture
  BY <1>3 DEF TestPending, RefuseStalePending, CallFails, FlushSession, BeginSnapshot,
              ScanTree, CommitCapture, TearCapture, sinkVars
<1>4. CASE RetryPending \/ EmitSnapshot
  <2>1. /\ Accept(pendingEvent) /\ pendingEvent' = NoEvent /\ UNCHANGED <<durable, recorder>>
        /\ pendingEvent # NoEvent
    BY <1>4, <1>t DEF RetryPending, EmitSnapshot, EventInv
  <2> QED
    BY <1>4, <1>t, <2>1
<1>5. CASE EmitOverflow
  <2> DEFINE n == IF audit.own = 1 THEN 1 ELSE 0
             e == [BareEvent("overflow", seq) EXCEPT !.count = n]
  <2>1. Accept(e) /\ UNCHANGED <<durable, recorder, pendingEvent>>
    BY <1>5 DEF EmitOverflow
  <2>2. n \in Nat
    OBVIOUS
  <2>3. e \in Event /\ e.kind = "overflow" /\ e.count = n
    <3> HIDE DEF n
    <3> QED
      BY <1>t, <2>2 DEF BareEvent, Event, Kinds
  <2> HIDE DEF e
  <2> QED
    BY <1>5, <2>1, <2>3
<1>6. CASE EmitAudit
  <2> DEFINE e == [BareEvent("touched_paths", seq) EXCEPT !.count = audit.raw]
  <2>1. Accept(e) /\ UNCHANGED <<durable, recorder, pendingEvent>>
    BY <1>6 DEF EmitAudit
  <2>2. e \in Event /\ e.kind = "touched_paths"
    BY <1>t DEF BareEvent, Event, Kinds
  <2> HIDE DEF e
  <2> QED
    BY <1>6, <2>1, <2>2
<1>7. CASE EmitMark
  <2> DEFINE e == [BareEvent("mark", seq) EXCEPT !.op = recorder.op]
  <2>1. /\ Accept(e) /\ UNCHANGED <<durable, recorder, pendingEvent, audit, acc>>
        /\ pc = "final" /\ pc' \in {"idle", "stopped"}
    BY <1>7 DEF EmitMark, Return
  <2>2. e \in Event /\ e.kind = "mark" /\ e.op = recorder.op
    BY <1>t DEF BareEvent, Event, Kinds
  <2> HIDE DEF e
  <2> QED
    BY <2>1, <2>2
<1>8. CASE EmitSessionEnd
  <2> DEFINE e == [BareEvent("session_end", seq) EXCEPT !.op = recorder.op, !.count = snapshots]
  <2>1. /\ Accept(e) /\ UNCHANGED <<durable, recorder, pendingEvent, audit, acc>>
        /\ pc = "final" /\ pc' = "flush"
    BY <1>8 DEF EmitSessionEnd
  <2>2. e \in Event /\ e.kind = "session_end" /\ e.op = recorder.op
    BY <1>t DEF BareEvent, Event, Kinds
  <2> HIDE DEF e
  <2> QED
    BY <2>1, <2>2
<1>9. CASE EmitFlush
  <2> DEFINE e == [BareEvent("flush", seq) EXCEPT !.op = recorder.op]
  <2>1. /\ Accept(e) /\ UNCHANGED <<durable, recorder, pendingEvent, audit, acc>>
        /\ pc \in {"final", "flush"} /\ pc' = "session"
    BY <1>9 DEF EmitFlush
  <2>2. e \in Event /\ e.kind = "flush" /\ e.op = recorder.op
    BY <1>t DEF BareEvent, Event, Kinds
  <2> HIDE DEF e
  <2> QED
    BY <2>1, <2>2
<1>10. CASE TaskStep
  BY <1>10, <1>3, <1>4, <1>5, <1>6, <1>7, <1>8, <1>9 DEF TaskStep
<1> QED
  BY <1>1, <1>2, <1>10 DEF Next

-----------------------------------------------------------------------------
(* The coordinator implements the durable timeline *)

LEMMA CommitInit == Init => CommitInv
<1> SUFFICES ASSUME Init PROVE CommitInv
  OBVIOUS
<1> DEFINE start == [BareEvent("session_start", 0) EXCEPT !.op = 1]
<1>1. start.kind = "session_start" /\ start.op = 1
  BY DEF BareEvent
<1>2. /\ journal = <<start>> /\ seq = 1 /\ pendingEvent = NoEvent
      /\ recorder.op = 1 /\ recorder.commit = 1 /\ durable.commit = 0 /\ durable.seq = 0
  BY DEF Init
<1> HIDE DEF start
<1> QED
  BY <1>1, <1>2 DEF CommitInv, CommitNamed

\* A retained event names the recorder's commit, and an accepted one no later.
LEMMA CommitStep == Inv /\ CommitInv /\ [Next]_vars => CommitInv'
<1> SUFFICES ASSUME Inv, CommitInv, [Next]_vars PROVE CommitInv'
  OBVIOUS
<1>t. /\ TypeOK /\ JournalContiguous /\ seq \in Nat /\ Len(journal) \in Nat
      /\ recorder.op \in Nat /\ recorder.commit \in Nat
      /\ durable.commit \in Nat /\ durable.seq \in Nat
  BY DEF Inv, EventInv, TypeOK
<1>1. CASE journal' # journal
  <2>1. PICK e \in Event :
          /\ Accept(e) /\ UNCHANGED <<durable, recorder>>
          /\ \/ e = pendingEvent /\ pendingEvent # NoEvent /\ pendingEvent' = NoEvent
             \/ /\ e.kind \in {"overflow", "touched_paths", "mark", "flush", "session_end"}
                /\ UNCHANGED pendingEvent
    BY <1>1, AcceptedEvent
  <2>2. CommitNamed(e) <= recorder.commit
    BY <1>t, <2>1 DEF CommitNamed, CommitInv
  <2>3. \A i \in 1..Len(journal)' : CommitNamed(journal'[i]) <= recorder.commit
    <3> SUFFICES ASSUME NEW i \in 1..Len(journal)' PROVE CommitNamed(journal'[i]) <= recorder.commit
      OBVIOUS
    <3>1. CASE i \in 1..Len(journal)
      BY <1>t, <2>1, <3>1, Appended DEF CommitInv
    <3>2. CASE i = Len(journal) + 1
      BY <1>t, <2>1, <2>2, <3>2, Appended
    <3> QED
      BY <1>t, <2>1, <3>1, <3>2, Appended
  <2>4. seq' = seq + 1
    BY <2>1 DEF Accept
  <2>5. /\ durable' = durable /\ recorder' = recorder
        /\ (pendingEvent' = NoEvent \/ pendingEvent' = pendingEvent)
    BY <2>1
  <2>6. durable'.seq < seq'
    BY <1>t, <2>4, <2>5 DEF CommitInv
  <2> QED
    BY <2>3, <2>5, <2>6 DEF CommitInv
<1>2. CASE journal' = journal
  <2>1. ~Accept(pendingEvent) /\ \A e : ~Accept(e)
    BY <1>t, <1>2 DEF Accept, TypeOK
  <2>2. CASE CommitCapture
    <3>1. /\ recorder'.op = recorder.op + 1 /\ recorder'.commit = recorder.op + 1
          /\ pendingEvent'.op = recorder.op + 1 /\ UNCHANGED <<seq, durable>>
      BY <2>2 DEF CommitCapture, BareEvent, sinkVars
    <3>2. \A i \in 1..Len(journal) : CommitNamed(journal[i]) \in Nat
      <4>1. ASSUME NEW i \in 1..Len(journal) PROVE journal[i].op \in Nat
        <5>1. journal[i] \in Event
          BY <1>t DEF TypeOK
        <5> QED
          BY <5>1 DEF Event
      <4> QED
        BY <4>1 DEF CommitNamed
    <3> QED
      BY <1>t, <1>2, <3>1, <3>2 DEF CommitInv
  <2>3. CASE TearCapture
    <3>1. /\ recorder' = [recorder EXCEPT !.op = @ + 1]
          /\ UNCHANGED <<seq, durable, pendingEvent>>
      BY <2>3 DEF TearCapture, sinkVars
    <3>2. recorder'.op = recorder.op + 1 /\ recorder'.commit = recorder.commit
      BY <3>1, <1>t DEF TypeOK
    <3> QED
      BY <1>t, <1>2, <3>1, <3>2 DEF CommitInv
  <2>4. CASE FlushSession
    <3>1. /\ durable'.commit = recorder.commit /\ durable'.seq = seq - 1
          /\ UNCHANGED <<seq, recorder, pendingEvent>>
      BY <2>4 DEF FlushSession
    <3>2. seq - 1 < seq
      BY <1>t
    <3> QED
      BY <1>t, <1>2, <3>1, <3>2 DEF CommitInv
  <2>5. CASE UNCHANGED <<seq, durable, pendingEvent, recorder>>
    BY <1>2, <2>5 DEF CommitInv
  <2>6. CASE WatchStep \/ UNCHANGED vars \/ ReceivePause
    <3>1. UNCHANGED <<seq, durable, pendingEvent, recorder>>
      BY <2>6 DEF WatchStep, Write, StartWatcher, LoseNotices, Deliver, ReceivePause, vars,
                  sinkVars
    <3> QED
      BY <2>5, <3>1
  <2>7. ASSUME NEW kind \in CommandKinds, Receive(kind) PROVE CommitInv'
    BY <2>5, <2>7 DEF Receive, sinkVars
  <2>8. CASE TestPending \/ RefuseStalePending \/ CallFails \/ BeginSnapshot \/ ScanTree
    BY <2>5, <2>8 DEF TestPending, RefuseStalePending, CallFails, BeginSnapshot, ScanTree,
                      sinkVars
  <2>9. ~(RetryPending \/ EmitSnapshot \/ EmitOverflow \/ EmitAudit \/ EmitMark
            \/ EmitSessionEnd \/ EmitFlush)
    BY <2>1 DEF RetryPending, EmitSnapshot, EmitOverflow, EmitAudit, EmitMark,
                EmitSessionEnd, EmitFlush
  <2> QED
    BY <2>2, <2>3, <2>4, <2>6, <2>7, <2>8, <2>9 DEF Next, TaskStep
<1> QED
  BY <1>1, <1>2

\* The timeline readers see has one entry for each event of the journal.
LEMMA LogIsSeq ==
  ASSUME TypeOK
  PROVE  LET Log == [i \in 1..Len(journal) |-> CommitNamed(journal[i])]
         IN  Log \in Seq(Nat) /\ Len(Log) = Len(journal)
<1> DEFINE n   == Len(journal)
           Log == [i \in 1..n |-> CommitNamed(journal[i])]
<1>1. n \in Nat
  BY DEF TypeOK
<1>2. ASSUME NEW i \in 1..n PROVE CommitNamed(journal[i]) \in Nat
  <2>1. journal[i] \in Event
    BY DEF TypeOK
  <2> QED
    BY <2>1 DEF CommitNamed, Event
<1>3. Log \in [1..n -> Nat]
  BY <1>2
<1> HIDE DEF n, Log
<1>4. Log \in Seq(Nat) /\ Len(Log) = n
  BY <1>1, <1>3
<1> QED
  BY <1>4 DEF n, Log

LEMMA TimelineInit == Init => Timeline!Init
<1> SUFFICES ASSUME Init PROVE Timeline!Init
  OBVIOUS
<1>1. TypeOK
  BY TypeInit
<1>2. durable.commit = 0 /\ durable.seq = 0
  BY DEF Init
<1> QED
  BY <1>1, <1>2, LogIsSeq DEF Timeline!Init

\* Accepting an event records an entry, and a flush that made the prefix durable
\* advances the watermark; nothing else is seen by readers.
LEMMA TimelineStep ==
  Inv /\ CommitInv /\ [Next]_vars => [Timeline!Next]_(Timeline!vars)
<1> SUFFICES ASSUME Inv, CommitInv, [Next]_vars PROVE [Timeline!Next]_(Timeline!vars)
  OBVIOUS
<1> DEFINE Log  == [i \in 1..Len(journal) |-> CommitNamed(journal[i])]
           Mark == IF durable.seq = 0 THEN 0 ELSE durable.seq + 1
<1>t. TypeOK /\ TypeOK' /\ JournalContiguous /\ Len(journal) \in Nat
  <2>1. TypeOK /\ JournalContiguous
    BY DEF Inv, EventInv
  <2>2. TypeOK'
    BY <2>1, TypeStep
  <2>3. Len(journal) \in Nat
    BY <2>1 DEF TypeOK
  <2> QED
    BY <2>1, <2>2, <2>3
<1>l. Len(Log) = Len(journal) /\ Len(Log') = Len(journal')
  <2>1. Len(Log) = Len(journal)
    BY <1>t, LogIsSeq
  <2>2. TypeOK' => (Len(Log) = Len(journal))'
    BY LogIsSeq, PTL
  <2> QED
    BY <1>t, <2>1, <2>2
<1>1. CASE UNCHANGED <<journal, durable>>
  BY <1>1 DEF Timeline!vars
<1>2. CASE journal' # journal
  <2>1. PICK e \in Event : Accept(e) /\ UNCHANGED durable
    BY <1>2, AcceptedEvent
  <2>2. /\ Len(journal') = Len(journal) + 1
        /\ \A i \in 1..Len(journal) : journal'[i] = journal[i]
    BY <1>t, <2>1, Appended
  <2>3. \A i \in 1..Len(journal) : Log'[i] = Log[i]
    BY <1>t, <2>2
  <2> HIDE DEF Log
  <2>4. Timeline!Record
    BY <1>l, <2>1, <2>2, <2>3 DEF Timeline!Record, Log
  <2> QED
    BY <2>4 DEF Timeline!Next
<1>3. CASE FlushSession
  <2>1. /\ durable'.seq = seq - 1 /\ durable'.commit = recorder.commit
        /\ UNCHANGED journal
    BY <1>3 DEF FlushSession
  <2>0. /\ seq = Len(journal) /\ durable.seq \in Nat /\ durable.seq < seq
        /\ durable.commit <= recorder.commit
        /\ durable.commit \in Nat /\ recorder.commit \in Nat
    BY <1>t DEF CommitInv, TypeOK, JournalContiguous
  <2>2. durable'.commit >= durable.commit
    BY <2>0, <2>1
  <2>3. Mark' \in Mark..Len(journal)
    BY <1>t, <2>0, <2>1
  <2>4. \A i \in 1..Len(journal) : Log[i] <= durable'.commit
    BY <2>1 DEF CommitInv
  <2>5. Timeline!Covers(Log, Mark', durable'.commit)
    <3>1. Mark \in Nat /\ 1..Mark' \subseteq 1..Len(journal)
      BY <1>t, <2>0, <2>3
    <3> HIDE DEF Log, Mark
    <3> QED
      BY <2>4, <3>1 DEF Timeline!Covers
  <2>6. Log' = Log
    BY <2>1
  <2> HIDE DEF Log, Mark
  <2>7. Timeline!Advance
    BY <1>l, <2>2, <2>3, <2>5, <2>6 DEF Timeline!Advance, Log, Mark
  <2> QED
    BY <2>7 DEF Timeline!Next
<1>4. journal' # journal \/ FlushSession \/ UNCHANGED <<journal, durable>>
  <2>1. CASE WatchStep \/ UNCHANGED vars \/ ReceivePause
    BY <2>1 DEF WatchStep, Write, StartWatcher, LoseNotices, Deliver, ReceivePause, vars,
                sinkVars
  <2>2. ASSUME NEW kind \in CommandKinds, Receive(kind) PROVE UNCHANGED <<journal, durable>>
    BY <2>2 DEF Receive, sinkVars
  <2>3. CASE TestPending \/ RefuseStalePending \/ CallFails \/ BeginSnapshot \/ ScanTree
             \/ CommitCapture \/ TearCapture
    BY <2>3 DEF TestPending, RefuseStalePending, CallFails, BeginSnapshot, ScanTree,
                CommitCapture, TearCapture, sinkVars
  <2>4. CASE RetryPending \/ EmitSnapshot \/ EmitOverflow \/ EmitAudit \/ EmitMark
             \/ EmitSessionEnd \/ EmitFlush
    BY <2>4 DEF RetryPending, EmitSnapshot, EmitOverflow, EmitAudit, EmitMark,
                EmitSessionEnd, EmitFlush
  <2> QED
    BY <2>1, <2>2, <2>3, <2>4 DEF Next, TaskStep
<1> QED
  BY <1>1, <1>2, <1>3, <1>4

\* The recording loop implements the abstract promise to readers: whatever
\* fails, the timeline only grows and the watermark only advances over
\* checkpoints whose commits the flush carried.
THEOREM CoordinatorImplementsTimeline == Spec => ImplementsTimeline
<1>1. Init => CommitInv
  BY CommitInit
<1>2. Inv /\ CommitInv /\ [Next]_vars => CommitInv'
  BY CommitStep
<1>3. Init => Timeline!Init
  BY TimelineInit
<1>4. Inv /\ CommitInv /\ [Next]_vars => [Timeline!Next]_(Timeline!vars)
  BY TimelineStep
<1> QED
  BY <1>1, <1>2, <1>3, <1>4, Invariance, PTL DEF Spec, ImplementsTimeline, Timeline!Spec

-----------------------------------------------------------------------------
(* Lost notifications force a full scan *)

\* What draining and the two ways out of snapshot() do to the notices held.
LEMMA NoticesDrained ==
  ASSUME NEW a \in AuditState, NEW w \in AuditWindow, NoticesForce(w),
         NEW v \in DrainAudit(a, w)
  PROVE  NoticesForce(v) /\ (w.force => v.force) /\ (w.pending => v.pending)
<1>1. /\ v \in AuditWindow /\ BatchOverflows(a) \in Nat
      /\ w.force \/ BatchOverflows(a) > 0 => v.force
      /\ w.limited => v.limited
      /\ v.pending = (w.pending \/ v.touched # {} \/ v.overflows > 0)
      /\ \/ v.overflows = w.overflows + BatchOverflows(a) /\ v.own = w.own
         \/ /\ v.overflows = w.overflows + BatchOverflows(a) + 1
            /\ v.own = w.overflows + 1 /\ v.limited /\ ~w.limited
  <2>1. BatchOverflows(a) \in Nat
    BY LimitsAssumption DEF BatchOverflows, AuditState
  <2> QED
    BY <2>1, DrainHolds
<1>2. /\ w.overflows \in Nat /\ w.own \in Nat
      /\ w.force \in BOOLEAN /\ w.limited \in BOOLEAN /\ w.pending \in BOOLEAN
  BY DEF AuditWindow
<1>3. (w.force => v.force) /\ (w.pending => v.pending)
  BY <1>1, <1>2
<1>4. v.overflows > 0 => v.force \/ (v.overflows = 1 /\ v.own = 1)
  <2> SUFFICES ASSUME v.overflows > 0, ~v.force PROVE v.overflows = 1 /\ v.own = 1
    OBVIOUS
  <2>1. BatchOverflows(a) = 0 /\ ~w.force
    BY <1>1, <1>2
  <2>2. w.overflows > 0 => w.overflows = 1 /\ w.own = 1 /\ w.limited
    BY <2>1, <1>2 DEF NoticesForce
  <2> QED
    BY <1>1, <1>2, <2>1, <2>2
<1>5. v.own <= v.overflows /\ (v.own > 0 => v.limited)
  BY <1>1, <1>2 DEF NoticesForce
<1> QED
  BY <1>3, <1>4, <1>5 DEF NoticesForce

LEMMA NoticesAfterSnapshot ==
  ASSUME TypeOK, NEW w \in AuditWindow, NoticesForce(w), AfterSnapshot(w)
  PROVE  NoticesForce(audit')
BY NoticesDrained, AfterSnapshotType DEF TypeOK

\* Only an overflow leaves the journal newly unscanned, and a full scan ends it.
LEMMA UnscannedStep ==
  ASSUME TypeOK, JournalContiguous, NEW e, Accept(e), Unscanned'
  PROVE  \/ e.kind = "overflow" /\ e.count = 0
         \/ Unscanned /\ ~(e.kind = "snapshot" /\ e.full)
<1> DEFINE n == Len(journal)
<1>1. /\ n \in Nat /\ Len(journal') = n + 1 /\ journal'[n + 1] = e
      /\ \A i \in 1..n : journal'[i] = journal[i]
  BY Appended
<1>2. PICK i \in 1..Len(journal') :
        TellsLoss(i)' /\ \A s \in i..Len(journal') : ~FullScan(s)'
  BY DEF Unscanned, TellsLoss, FullScan
<1> HIDE DEF n
<1>3. CASE i = n + 1
  BY <1>1, <1>2, <1>3 DEF TellsLoss
<1>4. CASE i \in 1..n
  <2>1. TellsLoss(i) /\ \A s \in i..n : ~FullScan(s)
    BY <1>1, <1>2, <1>4 DEF TellsLoss, FullScan
  <2>2. ~(e.kind = "snapshot" /\ e.full)
    <3>1. n + 1 \in i..Len(journal')
      BY <1>1, <1>4
    <3> QED
      BY <1>1, <1>2, <3>1 DEF FullScan
  <2> QED
    BY <1>4, <2>1, <2>2 DEF Unscanned, n
<1> QED
  BY <1>1, <1>2, <1>3, <1>4

\* A mark, flush or session_end accepted while nothing is unscanned.
LEMMA FullScanStep ==
  ASSUME TypeOK, JournalContiguous, NEW e, Accept(e), OverflowForcesFullScan,
         e.kind \in {"mark", "flush", "session_end"} => ~Unscanned
  PROVE  OverflowForcesFullScan'
<1> DEFINE n == Len(journal)
<1>1. /\ n \in Nat /\ Len(journal') = n + 1 /\ journal'[n + 1] = e
      /\ \A i \in 1..n : journal'[i] = journal[i]
  BY Appended
<1> SUFFICES ASSUME NEW i \in 1..(n + 1), NEW k \in 1..(n + 1), i < k,
                    journal'[i].kind = "overflow" /\ journal'[i].count = 0,
                    journal'[k].kind \in {"mark", "flush", "session_end"}
             PROVE  \E s \in i..k : journal'[s].kind = "snapshot" /\ journal'[s].full
  BY <1>1 DEF OverflowForcesFullScan
<1> HIDE DEF n
<1>2. i \in 1..n
  BY <1>1
<1>3. CASE k \in 1..n
  <2>1. PICK s \in i..k : journal[s].kind = "snapshot" /\ journal[s].full
    BY <1>1, <1>2, <1>3 DEF OverflowForcesFullScan, n
  <2>2. s \in 1..n
    BY <1>1, <1>2, <1>3
  <2> QED
    BY <1>1, <2>1, <2>2
<1>4. CASE k = n + 1
  <2>1. ~Unscanned
    BY <1>1, <1>4
  <2>2. PICK s \in i..n : FullScan(s)
    BY <1>1, <1>2, <2>1 DEF Unscanned, TellsLoss, n
  <2>3. s \in 1..n /\ s \in i..k
    BY <1>1, <1>2, <1>4
  <2> QED
    BY <1>1, <2>2, <2>3 DEF FullScan
<1> QED
  BY <1>1, <1>3, <1>4

LEMMA ScanInit == Init => ScanInv
<1> SUFFICES ASSUME Init PROVE ScanInv
  OBVIOUS
<1> DEFINE start == [BareEvent("session_start", 0) EXCEPT !.op = 1]
<1>1. start.kind = "session_start"
  BY DEF BareEvent
<1>2. /\ journal = <<start>> /\ pc = "idle"
      /\ audit.overflows = 0 /\ audit.own = 0
  BY DEF Init, CleanAudit
<1> HIDE DEF start
<1>3. Len(journal) = 1 /\ journal[1].kind = "session_start"
  BY <1>1, <1>2
<1>4. ~Unscanned
  BY <1>3 DEF Unscanned, TellsLoss
<1>5. OverflowForcesFullScan
  BY <1>3 DEF OverflowForcesFullScan
<1> QED
  BY <1>2, <1>4, <1>5 DEF ScanInv, NoticesForce

\* Steps that leave the journal alone keep what it says.
LEMMA ScanFrame ==
  ASSUME ScanInv, UNCHANGED journal,
         audit.force => audit'.force,
         audit.pending => audit'.pending,
         NoticesForce(audit'),
         pendingEvent' # NoEvent => pendingEvent' = pendingEvent \/ pendingEvent'.full = audit.force,
         pc' \in {"final", "flush", "session"} => ~audit'.pending
  PROVE  ScanInv'
<1>1. Unscanned' = Unscanned /\ OverflowForcesFullScan' = OverflowForcesFullScan
  BY DEF Unscanned, TellsLoss, FullScan, OverflowForcesFullScan
<1>2. NoticesForce(audit)'
  BY DEF NoticesForce
<1> QED
  BY <1>1, <1>2 DEF ScanInv

LEMMA ScanStep == Inv /\ ScanInv /\ [Next]_vars => ScanInv'
<1> SUFFICES ASSUME Inv, ScanInv, [Next]_vars PROVE ScanInv'
  OBVIOUS
<1>t. /\ TypeOK /\ EventInv /\ ChangeInv /\ JournalContiguous
      /\ acc \in AuditState /\ audit \in AuditWindow
  BY DEF Inv, EventInv, TypeOK
<1>1. CASE journal' # journal
  <2>1. PICK e \in Event :
           /\ Accept(e)
           /\ \/ /\ e = pendingEvent /\ pendingEvent # NoEvent /\ pendingEvent' = NoEvent
                 /\ (RetryPending \/ EmitSnapshot)
              \/ /\ e.kind = "overflow" /\ UNCHANGED pendingEvent /\ EmitOverflow
                 /\ e.count = (IF audit.own = 1 THEN 1 ELSE 0)
              \/ e.kind = "touched_paths" /\ UNCHANGED pendingEvent /\ EmitAudit
              \/ /\ e.kind \in {"mark", "flush", "session_end"}
                 /\ pc \in {"final", "flush"}
                 /\ UNCHANGED <<pendingEvent, audit, acc>>
    BY <1>1, AcceptedEvent
  <2>2. CASE /\ e = pendingEvent /\ pendingEvent # NoEvent /\ pendingEvent' = NoEvent
             /\ (RetryPending \/ EmitSnapshot)
    <3>1. e.kind = "snapshot"
      BY <1>t, <2>2 DEF EventInv
    <3>2. ~Unscanned'
      BY <1>t, <2>1, <2>2, <3>1, UnscannedStep DEF ScanInv
    <3>3. OverflowForcesFullScan'
      BY <1>t, <2>1, <3>1, FullScanStep DEF ScanInv
    <3>4. NoticesForce(audit') /\ pc' \in {"idle", "stopped", "loop"}
      <4>0. /\ audit.own <= audit.overflows /\ (audit.own > 0 => audit.limited)
            /\ RetriedWindow(audit) \in AuditWindow /\ PublishedWindow(audit) \in AuditWindow
        BY <1>t, WindowTypes DEF ScanInv, NoticesForce
      <4>1. NoticesForce(RetriedWindow(audit))
        <5>1. /\ RetriedWindow(audit).force = (audit.overflows > 0)
              /\ RetriedWindow(audit).overflows = audit.overflows
              /\ RetriedWindow(audit).own = audit.own
              /\ RetriedWindow(audit).limited = audit.limited
          BY <1>t DEF RetriedWindow, AuditWindow
        <5> QED
          BY <4>0, <5>1 DEF NoticesForce
      <4>2. pc = "emit" => NoticesForce(PublishedWindow(audit))
        <5>1. /\ PublishedWindow(audit).overflows = audit.overflows
              /\ PublishedWindow(audit).own = audit.own
              /\ PublishedWindow(audit).limited = audit.limited
          BY <1>t DEF PublishedWindow, AuditWindow
        <5>2. pc = "emit" => audit.overflows = 0
          BY <1>t DEF ChangeInv, Held, AuditWindow
        <5> QED
          BY <4>0, <5>1, <5>2 DEF NoticesForce
      <4>3. CASE RetryPending
        <5>1. AfterSnapshot(RetriedWindow(audit))
          BY <4>3 DEF RetryPending
        <5> QED
          BY <1>t, <4>0, <4>1, <5>1, NoticesAfterSnapshot, AfterSnapshotType
      <4>4. CASE EmitSnapshot
        <5>1. AfterSnapshot(PublishedWindow(audit)) /\ pc = "emit"
          BY <4>4 DEF EmitSnapshot
        <5> QED
          BY <1>t, <4>0, <4>2, <5>1, NoticesAfterSnapshot, AfterSnapshotType
      <4> QED
        BY <2>2, <4>3, <4>4
    <3>5. NoticesForce(audit)'
      BY <3>4 DEF NoticesForce
    <3> QED
      BY <3>2, <3>3, <3>4, <3>5 DEF ScanInv
  <2>3. CASE /\ e.kind = "overflow" /\ UNCHANGED pendingEvent /\ EmitOverflow
             /\ e.count = (IF audit.own = 1 THEN 1 ELSE 0)
    <3>1. /\ audit.overflows \in Nat /\ audit.own \in Nat /\ audit.overflows > 0
          /\ audit.force \in BOOLEAN /\ audit.pending /\ pc = "audit" /\ pc' = "audit"
          /\ pendingEvent = NoEvent
      BY <1>t, <2>3 DEF EmitOverflow, AuditWindow, ChangeInv, Held, EventInv
    <3>2. /\ audit'.overflows = audit.overflows - 1
          /\ audit'.own = (IF audit.own > 0 THEN audit.own - 1 ELSE 0)
          /\ audit'.force = audit.force /\ audit'.pending = audit.pending
          /\ audit'.limited = audit.limited
      BY <1>t, <2>3 DEF EmitOverflow, AuditWindow
    <3>3. Unscanned' => audit.force
      <4>1. CASE e.count = 0
        <5>1. audit.own # 1
          BY <2>3, <4>1
        <5> QED
          BY <3>1, <5>1 DEF ScanInv, NoticesForce
      <4>2. CASE e.count # 0
        BY <1>t, <2>1, <4>2, UnscannedStep DEF ScanInv
      <4> QED
        BY <4>1, <4>2
    <3>4. OverflowForcesFullScan'
      BY <1>t, <2>1, <2>3, FullScanStep DEF ScanInv
    <3>5. /\ audit'.overflows > 0 => audit'.force \/ (audit'.overflows = 1 /\ audit'.own = 1)
          /\ audit'.own <= audit'.overflows
          /\ audit'.own > 0 => audit'.limited
      BY <3>1, <3>2 DEF ScanInv, NoticesForce
    <3>6. NoticesForce(audit)'
      BY <3>5 DEF NoticesForce
    <3> QED
      BY <2>3, <3>1, <3>2, <3>3, <3>4, <3>6 DEF ScanInv
  <2>4. CASE e.kind = "touched_paths" /\ UNCHANGED pendingEvent /\ EmitAudit
    <3>1. /\ audit'.overflows = 0 /\ audit'.own = audit.own /\ audit.overflows = 0
          /\ audit'.force = audit.force /\ audit'.pending = audit.pending
          /\ pc = "audit" /\ pc' = "audit" /\ audit.own \in Nat
      BY <1>t, <2>4 DEF EmitAudit, AuditWindow
    <3>2. audit.own = 0
      BY <3>1 DEF ScanInv, NoticesForce
    <3>3. Unscanned' => Unscanned
      BY <1>t, <2>1, <2>4, UnscannedStep
    <3>4. OverflowForcesFullScan'
      BY <1>t, <2>1, <2>4, FullScanStep DEF ScanInv
    <3>5. NoticesForce(audit)'
      BY <3>1, <3>2 DEF NoticesForce
    <3> QED
      BY <2>4, <3>1, <3>3, <3>4, <3>5 DEF ScanInv
  <2>5. CASE /\ e.kind \in {"mark", "flush", "session_end"}
             /\ pc \in {"final", "flush"}
             /\ UNCHANGED <<pendingEvent, audit, acc>>
    <3>1. ~audit.pending /\ ~Unscanned
      BY <2>5 DEF ScanInv
    <3>2. ~Unscanned'
      BY <1>t, <2>1, <2>5, <3>1, UnscannedStep
    <3>3. OverflowForcesFullScan'
      BY <1>t, <2>1, <2>5, <3>1, FullScanStep DEF ScanInv
    <3>4. NoticesForce(audit)'
      BY <2>5 DEF ScanInv, NoticesForce
    <3> QED
      BY <2>5, <3>1, <3>2, <3>3, <3>4 DEF ScanInv
  <2> QED
    BY <2>1, <2>2, <2>3, <2>4, <2>5
<1>2. CASE journal' = journal
  <2>n. NoticesForce(audit)
    BY DEF ScanInv
  <2>d. ASSUME audit' \in DrainAudit(acc, audit), UNCHANGED pendingEvent,
               pc' \notin {"final", "flush", "session"}
        PROVE  ScanInv'
    <3>1. /\ NoticesForce(audit') /\ (audit.force => audit'.force)
          /\ (audit.pending => audit'.pending)
      BY <1>t, <2>d, <2>n, NoticesDrained
    <3> QED
      BY <1>2, <2>d, <3>1, ScanFrame
  <2>s. ASSUME UNCHANGED <<audit, pendingEvent>>,
               pc' \in {"final", "flush", "session"} => ~audit.pending
        PROVE  ScanInv'
    BY <1>2, <2>n, <2>s, ScanFrame
  <2>1. CASE WatchStep \/ UNCHANGED vars \/ ReceivePause
    <3>1. UNCHANGED <<audit, pendingEvent, pc>>
      BY <2>1 DEF WatchStep, Write, StartWatcher, LoseNotices, Deliver, ReceivePause, vars
    <3> QED
      BY <2>s, <3>1 DEF ScanInv
  <2>2. ASSUME NEW kind \in CommandKinds, Receive(kind) PROVE ScanInv'
    <3>1. UNCHANGED pendingEvent /\ pc' \in {"snapshot", "loop"}
      BY <2>2 DEF Receive
    <3> QED
      BY <2>2, <2>d, <2>s, <3>1 DEF Receive
  <2>3. CASE TestPending
    <3>1. UNCHANGED <<audit, pendingEvent>>
      BY <2>3 DEF TestPending
    <3>2. pc' \in {"final", "flush", "session"} => ~audit.pending
      BY <2>3 DEF TestPending, Return
    <3> QED
      BY <2>s, <3>1, <3>2
  <2>4. CASE RefuseStalePending \/ CallFails \/ FlushSession \/ ScanTree \/ TearCapture
    <3>1. UNCHANGED <<audit, pendingEvent>>
      BY <2>4 DEF RefuseStalePending, CallFails, FlushSession, ScanTree, TearCapture
    <3>2. pc' \notin {"final", "flush", "session"}
      BY <2>4 DEF RefuseStalePending, CallFails, FlushSession, ScanTree, TearCapture, Fail, Return
    <3> QED
      BY <2>s, <3>1, <3>2
  <2>5. CASE BeginSnapshot
    BY <2>5, <2>d DEF BeginSnapshot
  <2>6. CASE CommitCapture
    <3>1. UNCHANGED audit /\ pc' = "emit" /\ pendingEvent'.full = audit.force
      BY <2>6 DEF CommitCapture, BareEvent
    <3> QED
      BY <1>2, <2>n, <3>1, ScanFrame
  <2>7. \A e : ~Accept(e)
    BY <1>t, <1>2 DEF Accept, TypeOK
  <2>8. ~(RetryPending \/ EmitSnapshot \/ EmitOverflow \/ EmitAudit \/ EmitMark
            \/ EmitSessionEnd \/ EmitFlush)
    BY <2>7 DEF RetryPending, EmitSnapshot, EmitOverflow, EmitAudit, EmitMark,
                EmitSessionEnd, EmitFlush
  <2> QED
    BY <2>1, <2>2, <2>3, <2>4, <2>5, <2>6, <2>8 DEF Next, TaskStep
<1> QED
  BY <1>1, <1>2

\* A mark, flush or session_end after an event that tells of lost notifications
\* follows a snapshot taken with a full scan, whatever fails in between.
THEOREM LossForcesFullScan == Spec => []OverflowForcesFullScan
<1>1. ScanInv => OverflowForcesFullScan
  BY DEF ScanInv
<1> QED
  BY <1>1, ScanInit, ScanStep, Invariance, PTL DEF Spec

-----------------------------------------------------------------------------
(* When no snapshot runs with nothing pending *)

LEMMA OrderInit == Init => OrderInv
BY DEF Init, OrderInv

\* Nothing comes between a retained event and its retry: the task is past its
\* loop only when nothing is pending, and then nothing is retained.
LEMMA OrderStep ==
  ASSUME ~CleanSnap
  PROVE  Inv /\ ScanInv /\ OrderInv /\ [Next]_vars => OrderInv'
<1> SUFFICES ASSUME Inv, ScanInv, OrderInv, [Next]_vars PROVE OrderInv'
  OBVIOUS
<1>t. /\ TypeOK /\ EventInv /\ JournalContiguous
      /\ acc \in AuditState /\ audit \in AuditWindow
  BY DEF Inv, EventInv, TypeOK
<1>d. ASSUME NEW w \in AuditWindow, audit' \in DrainAudit(acc, w), w.pending \/ IsDirty(acc)
      PROVE  audit'.pending
  BY <1>t, <1>d, DrainHolds
<1>1. CASE journal' # journal
  <2>1. PICK e \in Event :
           /\ Accept(e)
           /\ \/ pendingEvent # NoEvent /\ pendingEvent' = NoEvent /\ (RetryPending \/ EmitSnapshot)
              \/ UNCHANGED pendingEvent /\ EmitOverflow
              \/ UNCHANGED pendingEvent /\ EmitAudit
              \/ /\ pc \in {"final", "flush"} /\ pc' \notin {"snapshot", "audit", "commit", "emit"}
                 /\ UNCHANGED <<pendingEvent, audit, acc>>
    BY <1>1, AcceptedEvent
  <2>2. CASE pendingEvent' = NoEvent /\ (RetryPending \/ EmitSnapshot)
    <3>1. pc' \in {"idle", "stopped", "loop"}
      BY <2>2 DEF RetryPending, EmitSnapshot, AfterSnapshot, Return
    <3> QED
      BY <2>2, <3>1 DEF OrderInv
  <2>3. CASE UNCHANGED pendingEvent /\ (EmitOverflow \/ EmitAudit)
    <3>1. pc = "audit" /\ pc' = "audit" /\ audit'.pending = audit.pending /\ pendingEvent = NoEvent
      BY <1>t, <2>3 DEF EmitOverflow, EmitAudit, AuditWindow, EventInv
    <3> QED
      BY <2>3, <3>1 DEF OrderInv
  <2>4. CASE /\ pc \in {"final", "flush"} /\ pc' \notin {"snapshot", "audit", "commit", "emit"}
             /\ UNCHANGED <<pendingEvent, audit, acc>>
    <3>1. pendingEvent = NoEvent
      BY <2>4 DEF ScanInv, OrderInv
    <3> QED
      BY <2>4, <3>1 DEF OrderInv
  <2> QED
    BY <2>1, <2>2, <2>3, <2>4
<1>2. CASE journal' = journal
  <2>0. \A e : ~Accept(e)
    BY <1>t, <1>2 DEF Accept, TypeOK
  <2>1. ASSUME NEW n \in notices, Deliver(n) PROVE OrderInv'
    <3>1. IsDirty(acc)'
      <4>1. CASE n = Rescan
        BY <2>1, <1>t, <4>1, LimitsAssumption DEF Deliver, ReportOverflow, IsDirty, AuditState
      <4>2. CASE n # Rescan
        <5>1. n \in Paths /\ acc' = Observe(acc, n)
          BY <2>1, <4>2, <1>t DEF Deliver, TypeOK
        <5> QED
          BY <1>t, <5>1, FoldDirty DEF IsDirty
      <4> QED
        BY <4>1, <4>2
    <3>2. UNCHANGED <<audit, pendingEvent, seq, pc>>
      BY <2>1 DEF Deliver
    <3> QED
      BY <3>1, <3>2 DEF OrderInv
  <2>2. CASE StartWatcher \/ LoseNotices \/ (\E p \in Paths : Write(p)) \/ ReceivePause
             \/ UNCHANGED vars
    <3>1. UNCHANGED <<audit, acc, pendingEvent, seq, pc>>
      BY <2>2 DEF StartWatcher, LoseNotices, Write, ReceivePause, vars
    <3> QED
      BY <3>1 DEF OrderInv, IsDirty
  <2>3. ASSUME NEW kind \in CommandKinds, Receive(kind) PROVE OrderInv'
    <3>1. UNCHANGED <<pendingEvent, seq>>
      BY <2>3 DEF Receive
    <3>2. CASE kind = "snap"
      <4>1. audit.pending \/ IsDirty(acc)
        BY <2>3, <3>2 DEF Receive
      <4> QED
        BY <2>3, <3>1, <3>2, <4>1 DEF Receive, OrderInv, IsDirty
    <3>3. CASE kind # "snap"
      <4>1. audit' \in DrainAudit(acc, audit) /\ pc' = "loop"
        BY <2>3, <3>3 DEF Receive
      <4>2. audit.pending => audit'.pending
        BY <1>t, <4>1, <1>d
      <4> QED
        BY <3>1, <4>1, <4>2 DEF OrderInv
    <3> QED
      BY <3>2, <3>3
  <2>4. CASE TestPending
    <3>1. /\ UNCHANGED <<audit, acc, pendingEvent, seq>>
          /\ pc' \in {"snapshot", "idle", "stopped", "final"}
          /\ pc' = "snapshot" => audit.pending
      BY <2>4 DEF TestPending, Return, sinkVars
    <3> QED
      BY <3>1 DEF OrderInv
  <2>5. CASE RefuseStalePending \/ CallFails \/ FlushSession \/ TearCapture
    <3>1. UNCHANGED <<audit, acc, pendingEvent, seq>> /\ pc' \in {"idle", "stopped"}
      BY <2>5 DEF RefuseStalePending, CallFails, FlushSession, TearCapture, Fail, Return
    <3> QED
      BY <3>1 DEF OrderInv
  <2>6. CASE BeginSnapshot
    <3>1. /\ audit' \in DrainAudit(acc, audit) /\ pc = "snapshot" /\ pc' = "audit"
          /\ pendingEvent = NoEvent /\ pendingEvent' = NoEvent
      BY <2>6 DEF BeginSnapshot
    <3>2. audit'.pending
      BY <1>t, <1>d, <3>1 DEF OrderInv
    <3> QED
      BY <3>1, <3>2 DEF OrderInv
  <2>7. CASE ScanTree
    <3>1. UNCHANGED <<audit, acc, pendingEvent, seq>> /\ pc = "audit" /\ pc' = "commit"
      BY <2>7 DEF ScanTree
    <3> QED
      BY <3>1 DEF OrderInv
  <2>8. CASE CommitCapture
    <3>1. /\ UNCHANGED <<audit, acc, seq>> /\ pc = "commit" /\ pc' = "emit"
          /\ pendingEvent'.seq = seq
      BY <2>8 DEF CommitCapture, BareEvent
    <3> QED
      BY <3>1 DEF OrderInv
  <2>9. ~(RetryPending \/ EmitSnapshot \/ EmitOverflow \/ EmitAudit \/ EmitMark
            \/ EmitSessionEnd \/ EmitFlush)
    BY <2>0 DEF RetryPending, EmitSnapshot, EmitOverflow, EmitAudit, EmitMark,
                EmitSessionEnd, EmitFlush
  <2> QED
    BY <2>1, <2>2, <2>3, <2>4, <2>5, <2>6, <2>7, <2>8, <2>9 DEF Next, TaskStep, WatchStep
<1> QED
  BY <1>1, <1>2

\* emit_exact()'s own assertion never refuses a retry, when no Snap reaches a
\* coordinator with nothing pending.
THEOREM RetryStaysNext ==
  ASSUME ~CleanSnap
  PROVE  Spec => []PendingStaysNext
<1>1. Init => OrderInv
  BY OrderInit
<1>2. Inv /\ ScanInv /\ OrderInv /\ [Next]_vars => OrderInv'
  BY OrderStep
<1>3. OrderInv => PendingStaysNext
  BY DEF OrderInv, PendingStaysNext
<1> QED
  BY <1>1, <1>2, <1>3, ScanInit, ScanStep, Invariance, PTL DEF Spec

-----------------------------------------------------------------------------
(* When moreover no capture is torn *)

\* The newest checkpoint among events already there stays the newest of them.
LEMMA NewestKept ==
  ASSUME TypeOK, JournalContiguous, NEW e, Accept(e), NEW n \in 0..Len(journal),
         NEW op, NewestIs(n, op)
  PROVE  NewestIs(n, op)'
<1>1. Checkpoints(n)' = Checkpoints(n)
  BY CheckpointsKept
<1>2. PICK i \in Checkpoints(n) : (\A k \in Checkpoints(n) : k <= i) /\ journal[i].op = op
  BY DEF NewestIs
<1>3. i \in 1..Len(journal)
  BY Appended DEF Checkpoints
<1>4. journal'[i].op = op
  BY <1>2, <1>3, Appended
<1> QED
  BY <1>1, <1>2, <1>4 DEF NewestIs

\* An event that is no checkpoint leaves the newest one as it was.
LEMMA NewestPassed ==
  ASSUME TypeOK, JournalContiguous, NEW e, Accept(e),
         e.kind \notin {"session_start", "snapshot"},
         NEW op, NewestIs(Len(journal), op)
  PROVE  \A n : n = Len(journal) + 1 => NewestIs(n, op)'
<1> SUFFICES ASSUME NEW n, n = Len(journal) + 1 PROVE NewestIs(n, op)'
  OBVIOUS
<1>1. /\ Len(journal) \in Nat /\ journal'[n] = e
      /\ \A i \in 1..Len(journal) : journal'[i] = journal[i]
  BY Appended
<1>2. Checkpoints(n)' \subseteq Checkpoints(Len(journal))
  <2>1. ASSUME NEW i \in Checkpoints(n)' PROVE i \in Checkpoints(Len(journal))
    <3>1. i \in 1..n /\ journal'[i].kind \in {"session_start", "snapshot"}
      BY <2>1 DEF Checkpoints
    <3>2. i \in 1..Len(journal)
      BY <1>1, <3>1
    <3> QED
      BY <1>1, <3>1, <3>2 DEF Checkpoints
  <2> QED
    BY <2>1
<1>3. PICK i \in Checkpoints(Len(journal)) :
        (\A k \in Checkpoints(Len(journal)) : k <= i) /\ journal[i].op = op
  BY DEF NewestIs
<1>4. i \in 1..Len(journal) /\ i \in 1..n
  BY <1>1 DEF Checkpoints
<1>5. i \in Checkpoints(n)' /\ journal'[i].op = op
  BY <1>1, <1>3, <1>4 DEF Checkpoints
<1> QED
  BY <1>2, <1>3, <1>5 DEF NewestIs

\* A snapshot becomes the newest checkpoint.
LEMMA NewestAccepted ==
  ASSUME TypeOK, JournalContiguous, NEW e, Accept(e), e.kind = "snapshot"
  PROVE  NewestIs(Len(journal), e.op)'
<1> DEFINE n == Len(journal')
<1>1. Len(journal) \in Nat /\ n = Len(journal) + 1 /\ journal'[n] = e
  BY Appended
<1>2. n \in {i \in 1..n : journal'[i].kind \in {"session_start", "snapshot"}}
  <2> HIDE DEF n
  <2> QED
    BY <1>1
<1>3. \A k \in 1..n : k <= n
  BY <1>1
<1> QED
  BY <1>1, <1>2, <1>3 DEF NewestIs, Checkpoints

\* LastCheckpoint is the checkpoint NewestIs() speaks of.
LEMMA NewestIsLast ==
  ASSUME TypeOK, NEW n \in 0..Len(journal), NEW op, NewestIs(n, op)
  PROVE  LastCheckpoint(n).op = op
<1>1. PICK i \in Checkpoints(n) : (\A k \in Checkpoints(n) : k <= i) /\ journal[i].op = op
  BY DEF NewestIs
<1>2. Checkpoints(n) \subseteq Nat
  BY DEF Checkpoints
<1>3. Max(Checkpoints(n)) = i
  BY <1>1, <1>2 DEF Max
<1> QED
  BY <1>1, <1>3 DEF LastCheckpoint

LEMMA IndexInit == Init => IndexInv
<1> SUFFICES ASSUME Init PROVE IndexInv
  OBVIOUS
<1> DEFINE start == [BareEvent("session_start", 0) EXCEPT !.op = 1]
<1>1. start.kind = "session_start" /\ start.op = 1
  BY DEF BareEvent
<1>2. /\ journal = <<start>> /\ pc = "idle" /\ pendingEvent = NoEvent
      /\ recorder.op = 1 /\ recorder.commit = 1 /\ durable.seq = 0
  BY DEF Init
<1> HIDE DEF start
<1>3. Len(journal) = 1 /\ journal[1].kind = "session_start" /\ journal[1].op = 1
  BY <1>1, <1>2
<1>4. NewestIs(Len(journal), recorder.op)
  BY <1>2, <1>3 DEF NewestIs, Checkpoints
<1>5. OpsAreIndexed
  BY <1>3 DEF OpsAreIndexed
<1>6. WatermarkIsCheckpoint
  BY <1>2 DEF WatermarkIsCheckpoint
<1> QED
  BY <1>2, <1>3, <1>4, <1>5, <1>6 DEF IndexInv

\* Accepting an event keeps what the journal says of operations, if the event
\* itself names operations that are indexed.
LEMMA IndexAccept ==
  ASSUME TypeOK, JournalContiguous, IndexInv, CommitInv, NEW e \in Event, Accept(e),
         UNCHANGED durable,
         e.kind = "snapshot" => \E k \in Checkpoints(Len(journal)) : journal[k].op = e.parent,
         e.kind \in {"mark", "flush", "session_end"} => NewestIs(Len(journal), e.op)
  PROVE  /\ (\A i \in 1..Len(journal) :
                journal[i].kind \in {"mark", "flush", "session_end"}
                  => NewestIs(i, journal[i].op))'
         /\ OpsAreIndexed' /\ WatermarkIsCheckpoint'
<1> DEFINE n == Len(journal)
           Final == {"mark", "flush", "session_end"}
<1>1. /\ n \in Nat /\ Len(journal') = n + 1 /\ journal'[n + 1] = e
      /\ \A i \in 1..n : journal'[i] = journal[i]
  BY Appended
<1>2. ASSUME NEW i \in 1..Len(journal'), journal'[i].kind \in Final
      PROVE  NewestIs(i, journal[i].op)'
  <2>1. CASE i \in 1..n
    <3>1. NewestIs(i, journal[i].op) /\ i \in 0..n /\ journal'[i] = journal[i]
      BY <1>1, <1>2, <2>1 DEF IndexInv
    <3>2. PICK op : op = journal[i].op
      OBVIOUS
    <3>3. NewestIs(i, op)'
      BY <3>1, <3>2, NewestKept
    <3> QED
      BY <3>1, <3>2, <3>3 DEF NewestIs
  <2>2. CASE i = n + 1
    <3>1. e.kind \in Final /\ journal'[i] = e
      BY <1>1, <1>2, <2>2
    <3>2. NewestIs(Len(journal), e.op) /\ e.kind \notin {"session_start", "snapshot"}
      BY <3>1
    <3>3. \A m : m = n + 1 => NewestIs(m, e.op)'
      BY <3>2, NewestPassed
    <3> QED
      BY <2>2, <3>1, <3>3 DEF NewestIs
  <2> QED
    BY <1>1, <1>2, <2>1, <2>2
<1>3. ASSUME NEW k \in Checkpoints(n), NEW i \in 1..(n + 1), k <= i - 1
      PROVE  k \in Checkpoints(i - 1)' /\ journal'[k] = journal[k]
  <2>1. k \in 1..n /\ journal[k].kind \in {"session_start", "snapshot"}
    BY DEF Checkpoints
  <2>2. k \in 1..(i - 1)
    BY <1>1, <1>3, <2>1
  <2> QED
    BY <1>1, <2>1, <2>2 DEF Checkpoints
<1>4. ASSUME NEW i \in 1..Len(journal'), NEW op,
             \/ journal'[i].kind = "snapshot" /\ op = journal'[i].parent
             \/ journal'[i].kind \in Final /\ op = journal'[i].op
      PROVE  \E k \in Checkpoints(i - 1)' : journal'[k].op = op
  <2>1. CASE i \in 1..n
    <3>1. \E k \in Checkpoints(i - 1) : journal[k].op = op
      <4>1. journal'[i] = journal[i]
        BY <1>1, <2>1
      <4>2. CASE journal[i].kind = "snapshot" /\ op = journal[i].parent
        BY <2>1, <4>2 DEF IndexInv, OpsAreIndexed
      <4>3. CASE journal[i].kind \in Final /\ op = journal[i].op
        BY <2>1, <4>3 DEF IndexInv, OpsAreIndexed
      <4> QED
        BY <1>4, <4>1, <4>2, <4>3
    <3>2. i - 1 \in 0..n
      BY <1>1, <2>1
    <3>3. Checkpoints(i - 1)' = Checkpoints(i - 1)
      BY <3>2, CheckpointsKept
    <3>4. \A k \in Checkpoints(i - 1) : journal'[k] = journal[k]
      BY <1>1, <3>2 DEF Checkpoints
    <3> QED
      BY <3>1, <3>3, <3>4
  <2>2. CASE i = n + 1
    <3>1. PICK k \in Checkpoints(n) : journal[k].op = op
      BY <1>1, <1>4, <2>2 DEF NewestIs
    <3>2. k <= i - 1 /\ i \in 1..(n + 1)
      BY <1>1, <2>2, <3>1 DEF Checkpoints
    <3> QED
      BY <1>3, <3>1, <3>2
  <2> QED
    BY <1>1, <2>1, <2>2
<1>5. OpsAreIndexed'
  BY <1>4 DEF OpsAreIndexed
<1>6. WatermarkIsCheckpoint'
  <2> SUFFICES ASSUME durable.seq > 0
               PROVE  /\ durable.commit = durable.op /\ durable.seq < seq'
                      /\ \E k \in Checkpoints(durable.seq)' : journal'[k].op = durable.op
    BY DEF WatermarkIsCheckpoint
  <2>1. /\ durable.commit = durable.op /\ durable.seq < seq /\ durable.seq \in Nat /\ seq \in Nat
        /\ seq = n /\ seq' = seq + 1
    BY Appended DEF IndexInv, WatermarkIsCheckpoint, TypeOK, Accept
  <2>2. PICK k \in Checkpoints(durable.seq) : journal[k].op = durable.op
    BY DEF IndexInv, WatermarkIsCheckpoint
  <2>3. durable.seq \in 0..n
    BY <1>1, <2>1
  <2>4. Checkpoints(durable.seq)' = Checkpoints(durable.seq)
    <3>1. PICK m : m = durable.seq
      OBVIOUS
    <3>2. Checkpoints(m)' = Checkpoints(m)
      BY <2>3, <3>1, CheckpointsKept
    <3> QED
      BY <3>1, <3>2 DEF Checkpoints
  <2>5. k \in 1..n
    BY <2>2, <2>3 DEF Checkpoints
  <2> QED
    BY <1>1, <2>1, <2>2, <2>4, <2>5
<1> QED
  BY <1>2, <1>5, <1>6

LEMMA IndexStep ==
  ASSUME ~TornCapture
  PROVE  Inv /\ CommitInv /\ ScanInv /\ OrderInv /\ IndexInv /\ [Next]_vars => IndexInv'
<1> SUFFICES ASSUME Inv, CommitInv, ScanInv, OrderInv, IndexInv, [Next]_vars PROVE IndexInv'
  OBVIOUS
<1>t. /\ TypeOK /\ EventInv /\ JournalContiguous
      /\ Len(journal) \in Nat /\ recorder.op \in Nat /\ seq \in Nat
  BY DEF Inv, EventInv, TypeOK
<1>1. CASE journal' # journal
  <2>1. PICK e \in Event :
           /\ Accept(e) /\ UNCHANGED <<durable, recorder>>
           /\ \/ /\ e = pendingEvent /\ pendingEvent # NoEvent /\ pendingEvent' = NoEvent
                 /\ (RetryPending \/ EmitSnapshot)
              \/ e.kind = "overflow" /\ UNCHANGED pendingEvent /\ EmitOverflow
              \/ e.kind = "touched_paths" /\ UNCHANGED pendingEvent /\ EmitAudit
              \/ /\ e.kind \in {"mark", "flush", "session_end"} /\ e.op = recorder.op
                 /\ pc \in {"final", "flush"} /\ UNCHANGED pendingEvent
                 /\ pc' = "session" => e.kind = "flush"
    BY <1>1, AcceptedEvent
  <2>0. Len(journal') = Len(journal) + 1 /\ journal'[Len(journal')] = e
    BY <1>t, <2>1, Appended
  <2>2. CASE /\ e = pendingEvent /\ pendingEvent # NoEvent /\ pendingEvent' = NoEvent
             /\ (RetryPending \/ EmitSnapshot)
    <3>1. e.kind = "snapshot" /\ e.op = recorder.op
      BY <1>t, <2>2 DEF EventInv, CommitInv, IndexInv
    <3>2. \E k \in Checkpoints(Len(journal)) : journal[k].op = e.parent
      BY <2>2 DEF IndexInv
    <3>3. NewestIs(Len(journal), e.op)'
      BY <1>t, <2>1, <3>1, NewestAccepted
    <3>4. NewestIs(Len(journal), recorder.op)'
      BY <2>1, <3>1, <3>3 DEF NewestIs
    <3>5. pc' \in {"idle", "stopped", "loop"}
      BY <2>2 DEF RetryPending, EmitSnapshot, AfterSnapshot, Return
    <3>6. /\ (\A i \in 1..Len(journal) :
                journal[i].kind \in {"mark", "flush", "session_end"}
                  => NewestIs(i, journal[i].op))'
          /\ OpsAreIndexed' /\ WatermarkIsCheckpoint'
      BY <1>t, <2>1, <3>1, <3>2, IndexAccept
    <3>7. recorder'.commit = recorder'.op
      BY <2>1 DEF IndexInv
    <3> QED
      BY <2>2, <3>4, <3>5, <3>6, <3>7 DEF IndexInv
  <2>3. CASE /\ e.kind \in {"overflow", "touched_paths"} /\ UNCHANGED pendingEvent
             /\ (EmitOverflow \/ EmitAudit)
    <3>1. pendingEvent = NoEvent /\ pc' = "audit"
      BY <1>t, <2>3 DEF EmitOverflow, EmitAudit, EventInv
    <3>2. NewestIs(Len(journal), recorder.op)'
      <4>1. NewestIs(Len(journal), recorder.op)
        BY <3>1 DEF IndexInv
      <4>2. \A n : n = Len(journal) + 1 => NewestIs(n, recorder.op)'
        <5>1. PICK op : op = recorder.op
          OBVIOUS
        <5>2. NewestIs(Len(journal), op)
          BY <4>1, <5>1 DEF NewestIs
        <5>3. \A n : n = Len(journal) + 1 => NewestIs(n, op)'
          BY <1>t, <2>1, <2>3, <5>2, NewestPassed
        <5> QED
          BY <2>1, <5>1, <5>3 DEF NewestIs
      <4> QED
        BY <2>0, <4>2 DEF NewestIs
    <3>3. /\ (\A i \in 1..Len(journal) :
                journal[i].kind \in {"mark", "flush", "session_end"}
                  => NewestIs(i, journal[i].op))'
          /\ OpsAreIndexed' /\ WatermarkIsCheckpoint'
      BY <1>t, <2>1, <2>3, IndexAccept
    <3>4. recorder'.commit = recorder'.op
      BY <2>1 DEF IndexInv
    <3> QED
      BY <2>3, <3>1, <3>2, <3>3, <3>4 DEF IndexInv
  <2>4. CASE /\ e.kind \in {"mark", "flush", "session_end"} /\ e.op = recorder.op
             /\ pc \in {"final", "flush"} /\ UNCHANGED pendingEvent
             /\ pc' = "session" => e.kind = "flush"
    <3>1. pendingEvent = NoEvent
      BY <2>4 DEF ScanInv, OrderInv
    <3>2. NewestIs(Len(journal), e.op)
      BY <2>4, <3>1 DEF IndexInv, NewestIs
    <3>3. \A n : n = Len(journal) + 1 => NewestIs(n, e.op)'
      BY <1>t, <2>1, <2>4, <3>2, NewestPassed
    <3>4. NewestIs(Len(journal), recorder.op)'
      BY <2>0, <2>1, <2>4, <3>3 DEF NewestIs
    <3>5. /\ (\A i \in 1..Len(journal) :
                journal[i].kind \in {"mark", "flush", "session_end"}
                  => NewestIs(i, journal[i].op))'
          /\ OpsAreIndexed' /\ WatermarkIsCheckpoint'
      BY <1>t, <2>1, <2>4, <3>2, IndexAccept
    <3>6. recorder'.commit = recorder'.op
      BY <2>1 DEF IndexInv
    <3> QED
      BY <2>0, <2>4, <3>1, <3>4, <3>5, <3>6 DEF IndexInv
  <2> QED
    BY <2>1, <2>2, <2>3, <2>4
<1>2. CASE journal' = journal
  <2>0. \A e : ~Accept(e)
    BY <1>t, <1>2 DEF Accept, TypeOK
  <2>f. /\ Checkpoints(Len(journal))' = Checkpoints(Len(journal))
        /\ \A n, op : NewestIs(n, op) => NewestIs(n, op)'
    BY <1>2 DEF Checkpoints, NewestIs
  <2>j. (\A i \in 1..Len(journal) :
            journal[i].kind \in {"mark", "flush", "session_end"}
              => NewestIs(i, journal[i].op))'
    BY <1>2 DEF IndexInv, NewestIs, Checkpoints
  <2>o. OpsAreIndexed'
    <3>1. ASSUME NEW i \in 1..Len(journal'), NEW op,
                 \/ journal'[i].kind = "snapshot" /\ op = journal'[i].parent
                 \/ journal'[i].kind \in {"mark", "flush", "session_end"} /\ op = journal'[i].op
          PROVE  \E k \in Checkpoints(i - 1)' : journal'[k].op = op
      <4>1. \E k \in Checkpoints(i - 1) : journal[k].op = op
        BY <1>2, <3>1 DEF IndexInv, OpsAreIndexed
      <4> QED
        BY ONLY <1>2, <4>1 DEF Checkpoints
    <3> QED
      BY <3>1 DEF OpsAreIndexed
  <2>w. durable' = durable /\ seq' = seq => WatermarkIsCheckpoint'
    BY <1>2 DEF IndexInv, WatermarkIsCheckpoint, Checkpoints
  <2>s. ASSUME UNCHANGED <<pendingEvent, recorder, durable, seq>>,
               pc' = "session" => pc = "session"
        PROVE  IndexInv'
    <3>1. pendingEvent' = NoEvent => NewestIs(Len(journal), recorder.op)'
      BY <1>2, <2>s DEF IndexInv, NewestIs, Checkpoints
    <3>2. pendingEvent' # NoEvent =>
            \E k \in Checkpoints(Len(journal))' : journal'[k].op = pendingEvent'.parent
      BY <1>2, <2>s, <2>f DEF IndexInv
    <3>3. /\ recorder'.commit = recorder'.op
          /\ pc' = "session" => journal'[Len(journal')].kind = "flush"
      BY <1>2, <2>s DEF IndexInv
    <3> QED
      BY <2>j, <2>o, <2>w, <2>s, <3>1, <3>2, <3>3 DEF IndexInv
  <2>1. CASE WatchStep \/ UNCHANGED vars \/ ReceivePause
    <3>1. UNCHANGED <<pendingEvent, recorder, durable, seq, pc>>
      BY <2>1 DEF WatchStep, Write, StartWatcher, LoseNotices, Deliver, ReceivePause, vars,
                  sinkVars
    <3> QED
      BY <2>s, <3>1
  <2>2. ASSUME NEW kind \in CommandKinds, Receive(kind) PROVE IndexInv'
    BY <2>2, <2>s DEF Receive, sinkVars
  <2>3. CASE TestPending \/ RefuseStalePending \/ CallFails \/ BeginSnapshot \/ ScanTree
    <3>1. UNCHANGED <<pendingEvent, recorder, durable, seq>>
      BY <2>3 DEF TestPending, RefuseStalePending, CallFails, BeginSnapshot, ScanTree, sinkVars
    <3>2. pc' # "session"
      BY <2>3 DEF TestPending, RefuseStalePending, CallFails, BeginSnapshot, ScanTree, Fail, Return
    <3> QED
      BY <2>s, <3>1, <3>2
  <2>4. CASE CommitCapture
    <3>1. /\ recorder'.op = recorder'.commit /\ pendingEvent'.parent = recorder.op
          /\ pendingEvent'.kind = "snapshot" /\ UNCHANGED <<durable, seq>>
          /\ pc = "commit" /\ pc' = "emit"
      BY <2>4 DEF CommitCapture, BareEvent, sinkVars
    <3>2. pendingEvent' # NoEvent
      BY <3>1 DEF NoEvent, BareEvent
    <3>3. \E k \in Checkpoints(Len(journal)) : journal[k].op = recorder.op
      BY <1>t, <3>1 DEF EventInv, IndexInv, NewestIs
    <3>4. \E k \in Checkpoints(Len(journal))' : journal'[k].op = pendingEvent'.parent
      BY <1>2, <2>f, <3>1, <3>3
    <3> QED
      BY <2>j, <2>o, <2>w, <3>1, <3>2, <3>4 DEF IndexInv
  <2>5. CASE TearCapture
    BY <2>5 DEF TearCapture
  <2>6. CASE FlushSession
    <3>1. /\ durable'.seq = seq - 1 /\ durable'.op = recorder.op /\ durable'.commit = recorder.commit
          /\ UNCHANGED <<seq, pendingEvent, recorder>> /\ pc = "session"
          /\ pc' \in {"idle", "stopped"}
      BY <2>6 DEF FlushSession, Return
    <3>2. pendingEvent = NoEvent
      BY <3>1 DEF ScanInv, OrderInv
    <3>3. PICK k \in Checkpoints(Len(journal)) : journal[k].op = recorder.op
      BY <3>2 DEF IndexInv, NewestIs
    <3>4. k \in 1..Len(journal) /\ journal[k].kind \in {"session_start", "snapshot"}
      BY DEF Checkpoints
    <3>5. journal[Len(journal)].kind = "flush"
      BY <3>1 DEF IndexInv
    <3>6. seq = Len(journal) /\ k # Len(journal)
      BY <1>t, <3>4, <3>5 DEF JournalContiguous
    <3>7. k \in 1..(seq - 1)
      BY <1>t, <3>4, <3>6
    <3>8. WatermarkIsCheckpoint'
      <4>1. k \in Checkpoints(durable.seq)'
        BY <1>2, <3>1, <3>4, <3>7 DEF Checkpoints
      <4>2. durable'.commit = durable'.op /\ durable'.seq < seq'
        BY <1>t, <3>1 DEF IndexInv
      <4> QED
        BY <1>2, <3>1, <3>3, <4>1, <4>2 DEF WatermarkIsCheckpoint
    <3>9. NewestIs(Len(journal), recorder.op)'
      BY <1>2, <3>1, <3>2 DEF IndexInv, NewestIs, Checkpoints
    <3>10. recorder'.commit = recorder'.op /\ pendingEvent' = NoEvent
      BY <3>1, <3>2 DEF IndexInv
    <3> QED
      BY <2>j, <2>o, <3>1, <3>8, <3>9, <3>10 DEF IndexInv
  <2>7. ~(RetryPending \/ EmitSnapshot \/ EmitOverflow \/ EmitAudit \/ EmitMark
            \/ EmitSessionEnd \/ EmitFlush)
    BY <2>0 DEF RetryPending, EmitSnapshot, EmitOverflow, EmitAudit, EmitMark,
                EmitSessionEnd, EmitFlush
  <2> QED
    BY <1>2, <2>1, <2>2, <2>3, <2>4, <2>5, <2>6, <2>7 DEF Next, TaskStep
<1> QED
  BY <1>1, <1>2

\* The induction behind the next three theorems.
LEMMA IndexInvariance ==
  ASSUME ~CleanSnap, ~TornCapture
  PROVE  Spec => [](TypeOK /\ IndexInv)
<1>1. Init => OrderInv /\ CommitInv /\ ScanInv /\ IndexInv
  BY OrderInit, CommitInit, ScanInit, IndexInit
<1>2. Inv /\ CommitInv /\ [Next]_vars => CommitInv'
  BY CommitStep
<1>3. Inv /\ ScanInv /\ [Next]_vars => ScanInv'
  BY ScanStep
<1>4. Inv /\ ScanInv /\ OrderInv /\ [Next]_vars => OrderInv'
  BY OrderStep
<1>5. Inv /\ CommitInv /\ ScanInv /\ OrderInv /\ IndexInv /\ [Next]_vars => IndexInv'
  BY IndexStep
<1>6. Inv => TypeOK
  BY DEF Inv
<1> QED
  BY <1>1, <1>2, <1>3, <1>4, <1>5, <1>6, Invariance, PTL DEF Spec

\* A mark, flush or session_end names the operation of the newest checkpoint
\* before it, so that it comes after any snapshot already pending.
THEOREM MarksNameNewest ==
  ASSUME ~CleanSnap, ~TornCapture
  PROVE  Spec => []NamesLastCheckpoint
<1>1. TypeOK /\ IndexInv => NamesLastCheckpoint
  <2> SUFFICES ASSUME TypeOK, IndexInv, NEW i \in 1..Len(journal),
                      journal[i].kind \in {"mark", "flush", "session_end"}
               PROVE  journal[i].op = LastCheckpoint(i).op
    BY DEF NamesLastCheckpoint
  <2>1. NewestIs(i, journal[i].op)
    BY DEF IndexInv
  <2>2. i \in 0..Len(journal)
    BY DEF TypeOK
  <2>3. PICK op : op = journal[i].op
    OBVIOUS
  <2>4. NewestIs(i, op)
    BY <2>1, <2>3
  <2> QED
    BY <2>2, <2>3, <2>4, NewestIsLast
<1> QED
  BY <1>1, IndexInvariance, PTL

\* Every operation an event names is that of an event the reader indexes.
THEOREM OperationsIndexed ==
  ASSUME ~CleanSnap, ~TornCapture
  PROVE  Spec => []OpsAreIndexed
<1>1. IndexInv => OpsAreIndexed
  BY DEF IndexInv
<1> QED
  BY <1>1, IndexInvariance, PTL

\* The durable watermark names one checkpoint, in the durable prefix.
THEOREM WatermarkNamesCheckpoint ==
  ASSUME ~CleanSnap, ~TornCapture
  PROVE  Spec => []WatermarkIsCheckpoint
<1>1. IndexInv => WatermarkIsCheckpoint
  BY DEF IndexInv
<1> QED
  BY <1>1, IndexInvariance, PTL

=============================================================================
