-------------------------- MODULE Coordinator_proofs --------------------------
(***************************************************************************)
(* Proofs about Coordinator, for every value of its constants.             *)
(*                                                                         *)
(* The argument is one induction on Inv == TypeOK /\ ChangeInv /\ EventInv *)
(* (defined at the end of Coordinator).  NoLostChange alone is not         *)
(* inductive: while a scanned tree waits to be committed, or a snapshot    *)
(* event waits for the sink, the invariant must say which notifications    *)
(* the scan has already covered.                                           *)
(***************************************************************************)
EXTENDS Coordinator, FiniteSetTheorems, TLAPS

-----------------------------------------------------------------------------
(* The operators on the accumulator and the window *)

\* observe() and report_overflow() keep the accumulator well formed and leave
\* it dirty: a notification is never folded in without a trace.
LEMMA FoldDirty ==
  ASSUME NEW a \in AuditState, NEW p \in Paths
  PROVE  /\ Observe(a, p) \in AuditState /\ IsDirty(Observe(a, p))
         /\ ReportOverflow(a) \in AuditState /\ IsDirty(ReportOverflow(a))
<1>1. Observe(a, p) \in AuditState
  <2>1. a.paths \union {p} \in SUBSET Paths /\ a.raw + 1 \in Nat
    BY DEF AuditState
  <2>2. [a EXCEPT !.paths = @ \union {p}, !.raw = @ + 1] \in AuditState
    BY <2>1 DEF AuditState
  <2>3. [a EXCEPT !.limited = TRUE, !.raw = @ + 1] \in AuditState
    BY <2>1 DEF AuditState
  <2> QED
    BY <2>2, <2>3 DEF Observe
<1>2. IsDirty(Observe(a, p))
  <2>1. CASE p \in a.paths \/ Cardinality(a.paths) < MaxAuditPaths
    BY <2>1 DEF Observe, IsDirty, AuditState
  <2>2. CASE ~(p \in a.paths \/ Cardinality(a.paths) < MaxAuditPaths)
    <3>1. a.paths # {}
      BY <2>2, FS_EmptySet, LimitsAssumption
    <3> QED
      BY <2>2, <3>1 DEF Observe, IsDirty, AuditState
  <2> QED
    BY <2>1, <2>2
<1>3. ReportOverflow(a) \in AuditState /\ IsDirty(ReportOverflow(a))
  BY LimitsAssumption DEF ReportOverflow, IsDirty, AuditState
<1> QED
  BY <1>1, <1>2, <1>3

\* drain_audit() keeps the window well formed.  If there was anything to drain,
\* or anything was held, then something is held and a snapshot is due.
LEMMA DrainHolds ==
  ASSUME NEW a \in AuditState, NEW w \in AuditWindow,
         NEW v \in DrainAudit(a, w)
  PROVE  /\ v \in AuditWindow
         /\ IsDirty(a) \/ w.touched # {} \/ w.overflows > 0 =>
              v.touched # {} \/ v.overflows > 0
         /\ v.pending = (w.pending \/ v.touched # {} \/ v.overflows > 0)
         /\ w.force \/ BatchOverflows(a) > 0 => v.force
         /\ w.limited => v.limited
         /\ \/ v.overflows = w.overflows + BatchOverflows(a) /\ v.own = w.own
            \/ /\ v.overflows = w.overflows + BatchOverflows(a) + 1
               /\ v.own = w.overflows + 1 /\ v.limited /\ ~w.limited
<1> DEFINE adds == Cardinality(w.touched \union a.paths) > MaxAuditPaths /\ ~w.limited
           n    == w.overflows + BatchOverflows(a) + (IF adds THEN 1 ELSE 0)
           o    == IF adds THEN w.overflows + 1 ELSE w.own
<1>1. PICK m \in Merged(w.touched, a.paths) :
        v = [touched   |-> m,
             raw       |-> w.raw + a.raw,
             overflows |-> n,
             own       |-> o,
             limited   |-> w.limited \/ Cardinality(w.touched \union a.paths) > MaxAuditPaths,
             force     |-> w.force \/ BatchOverflows(a) > 0,
             pending   |-> w.pending \/ m # {} \/ n > 0]
  BY DEF DrainAudit
<1>2. /\ BatchOverflows(a) \in Nat
      /\ a.overflows > 0 => BatchOverflows(a) > 0
  BY LimitsAssumption DEF BatchOverflows, AuditState
<1>3. n \in Nat /\ o \in Nat /\ (a.overflows > 0 \/ w.overflows > 0 => n > 0)
  BY <1>2 DEF AuditWindow, AuditState
<1>4. m \subseteq Paths
  BY DEF Merged, AuditState, AuditWindow
<1>5. a.paths # {} \/ w.touched # {} => m # {}
  <2> SUFFICES ASSUME w.touched \union a.paths # {}
               PROVE  m # {}
    OBVIOUS
  <2>1. IsFiniteSet(w.touched \union a.paths)
    BY PathsAssumption, FS_Subset DEF AuditState, AuditWindow
  <2>2. Cardinality(w.touched \union a.paths) \in Nat \ {0}
    BY <2>1, FS_EmptySet, FS_CardinalityType
  <2>3. Cardinality(m) # 0
    BY <2>2, LimitsAssumption DEF Merged
  <2> QED
    BY <2>3, FS_EmptySet
<1>6. v \in AuditWindow
  <2>1. w.raw + a.raw \in Nat
    BY DEF AuditWindow, AuditState
  <2>2. /\ (w.limited \/ Cardinality(w.touched \union a.paths) > MaxAuditPaths) \in BOOLEAN
        /\ (w.force \/ BatchOverflows(a) > 0) \in BOOLEAN
        /\ (w.pending \/ m # {} \/ n > 0) \in BOOLEAN
    OBVIOUS
  <2> HIDE DEF n, o
  <2> QED
    BY <1>1, <1>3, <1>4, <2>1, <2>2 DEF AuditWindow
<1>7. /\ v.touched = m /\ v.overflows = n /\ v.pending = (w.pending \/ m # {} \/ n > 0)
      /\ v.own = o /\ v.force = (w.force \/ BatchOverflows(a) > 0)
      /\ w.limited => v.limited
      /\ Cardinality(w.touched \union a.paths) > MaxAuditPaths => v.limited
  <2> HIDE DEF n, o
  <2> QED
    BY <1>1
<1>8. \/ n = w.overflows + BatchOverflows(a) /\ o = w.own
      \/ n = w.overflows + BatchOverflows(a) + 1 /\ o = w.overflows + 1 /\ adds
  BY <1>2 DEF AuditWindow
<1> HIDE DEF n, o
<1> QED
  BY <1>3, <1>5, <1>6, <1>7, <1>8 DEF IsDirty

-----------------------------------------------------------------------------
(* Type correctness *)

\* The events the coordinator builds are events.
LEMMA EventTypes ==
  ASSUME NEW s \in Nat, NEW kind \in Kinds
  PROVE  /\ BareEvent(kind, s) \in Event
         /\ \A n \in Nat : [BareEvent(kind, s) EXCEPT !.count = n] \in Event
         /\ \A n \in Nat : [BareEvent(kind, s) EXCEPT !.op = n] \in Event
         /\ \A n, m \in Nat : [BareEvent(kind, s) EXCEPT !.op = n, !.count = m] \in Event
         /\ \A n, m, t \in Nat, full \in BOOLEAN :
              [BareEvent(kind, s) EXCEPT !.op = n, !.parent = m, !.tree = t, !.full = full]
                \in Event
BY DEF BareEvent, Event

LEMMA EmptyTypes == EmptyAcc \in AuditState /\ CleanAudit \in AuditWindow
BY LimitsAssumption DEF EmptyAcc, CleanAudit, AuditState, AuditWindow

\* What every way of ending a command leaves of the control state.
LEMMA ReturnType ==
  ASSUME NEW r \in {"none", "ok", "retryable", "fatal"}, Return(r)
  PROVE  /\ pc' \in {"idle", "stopped"} /\ cmd' = "none"
         /\ reply' \in {"none", "ok", "retryable", "fatal"}
BY DEF Return

LEMMA FailType ==
  ASSUME TypeOK, Fail
  PROVE  /\ pc' \in {"idle", "stopped"} /\ cmd' = "none"
         /\ reply' \in {"none", "ok", "retryable", "fatal"}
         /\ spent' \in [commands : Nat, faults : Nat]
<1>1. PICK e \in Errors : Return(e)
  BY DEF Fail
<1>2. spent' = [spent EXCEPT !.faults = @ + 1]
  BY DEF Fail
<1>3. spent \in [commands : Nat, faults : Nat]
  BY DEF TypeOK
<1>4. spent' \in [commands : Nat, faults : Nat]
  BY <1>2, <1>3
<1> QED
  BY <1>1, <1>4, ReturnType, ErrorAssumption

\* The window a successful snapshot leaves is one of two: answered as it is, or
\* drained into again.
LEMMA AfterSnapshotType ==
  ASSUME TypeOK, NEW w \in AuditWindow, AfterSnapshot(w)
  PROVE  /\ audit' \in AuditWindow /\ acc' \in AuditState
         /\ pc' \in {"idle", "stopped", "loop"}
         /\ cmd' \in CommandKinds \union {"none"}
         /\ reply' \in {"none", "ok", "retryable", "fatal"}
         /\ \/ audit' = w /\ acc' = acc
            \/ audit' \in DrainAudit(acc, w) /\ acc' = EmptyAcc
<1>1. CASE cmd = "snap"
  BY <1>1, ReturnType DEF AfterSnapshot, TypeOK
<1>2. CASE cmd # "snap"
  <2>1. audit' \in DrainAudit(acc, w) /\ acc' = EmptyAcc
    BY <1>2 DEF AfterSnapshot
  <2>2. audit' \in AuditWindow
    BY <2>1, DrainHolds DEF TypeOK
  <2> QED
    BY <1>2, <2>1, <2>2, EmptyTypes DEF AfterSnapshot, TypeOK
<1> QED
  BY <1>1, <1>2

\* The windows after a snapshot are windows.
LEMMA WindowTypes ==
  ASSUME NEW w \in AuditWindow
  PROVE  RetriedWindow(w) \in AuditWindow /\ PublishedWindow(w) \in AuditWindow
<1>1. (w.overflows > 0) \in BOOLEAN /\ (w.touched # {} \/ w.overflows > 0) \in BOOLEAN
  OBVIOUS
<1>2. \A f, p \in BOOLEAN : [w EXCEPT !.force = f, !.pending = p] \in AuditWindow
  BY DEF AuditWindow
<1> QED
  BY <1>1, <1>2 DEF RetriedWindow, PublishedWindow

\* Accepting an event of the right type.
LEMMA AcceptType ==
  ASSUME TypeOK, NEW e \in Event, Accept(e)
  PROVE  journal' \in Seq(Event) /\ seq' \in Nat \ {0}
BY DEF Accept, TypeOK

LEMMA TypeInit == Init => TypeOK
<1> SUFFICES ASSUME Init PROVE TypeOK
  OBVIOUS
<1>1. "session_start" \in Kinds /\ "none" \in Kinds
  BY DEF Kinds
<1>2. /\ [BareEvent("session_start", 0) EXCEPT !.op = 1] \in Event
      /\ NoEvent \in Event
  BY <1>1, EventTypes DEF NoEvent
<1>3. journal \in Seq(Event)
  BY <1>2 DEF Init
<1>4. acc \in AuditState /\ audit \in AuditWindow /\ pendingEvent \in Event
  BY <1>2, EmptyTypes DEF Init
<1>5. /\ recorder \in [op : Nat, tree : Nat, commit : Nat]
      /\ durable \in [seq : Nat, op : Nat, commit : Nat]
      /\ spent \in [commands : Nat, faults : Nat]
  BY DEF Init
<1>6. /\ fs = 0 /\ blind = 0 /\ watching = FALSE /\ notices = {} /\ seq = 1
      /\ snapshots = 0 /\ paused = FALSE /\ scanned = 0 /\ observed = 0
      /\ pc = "idle" /\ cmd = "none" /\ reply = "none"
  BY DEF Init
<1>7. /\ fs \in Nat /\ blind \in Nat /\ snapshots \in Nat /\ scanned \in Nat
      /\ observed \in Nat
  BY <1>6
<1>11. watching \in BOOLEAN /\ paused \in BOOLEAN
  BY <1>6
<1>12. seq \in Nat \ {0}
  BY <1>6
<1>8. pc \in {"idle", "loop", "snapshot", "audit", "commit", "emit", "final",
             "flush", "session", "stopped"}
  BY <1>6
<1>9. notices \subseteq Paths \union {Rescan} /\ cmd \in CommandKinds \union {"none"}
  BY <1>6
<1>10. reply \in {"none", "ok", "retryable", "fatal"}
  BY <1>6
<1> QED
  BY <1>3, <1>4, <1>5, <1>7, <1>8, <1>9, <1>10, <1>11, <1>12 DEF TypeOK

LEMMA TypeStep == TypeOK /\ [Next]_vars => TypeOK'
<1> SUFFICES ASSUME TypeOK, [Next]_vars PROVE TypeOK'
  OBVIOUS
<1>k. \A k \in {"snapshot", "touched_paths", "overflow", "mark", "flush", "session_end"} :
        k \in Kinds
  BY DEF Kinds
<1>n. NoEvent \in Event
  BY EventTypes DEF NoEvent, Kinds
<1>1. ASSUME NEW p \in Paths, Write(p) PROVE TypeOK'
  <2>1. fs' = fs + 1 /\ blind' \in {blind, fs + 1} /\ notices' \subseteq notices \union {p}
    BY <1>1 DEF Write
  <2>2. fs' \in Nat /\ blind' \in Nat /\ notices' \subseteq Paths \union {Rescan}
    BY <2>1 DEF TypeOK
  <2>3. UNCHANGED <<watching, acc, seq, snapshots, paused, audit, pendingEvent, recorder,
                    pc, cmd, scanned, reply, journal, durable, observed, spent>>
    BY <1>1 DEF Write, sinkVars
  <2> QED
    BY <2>2, <2>3 DEF TypeOK
<1>2. CASE StartWatcher
  <2>1. watching' = TRUE
    BY <1>2 DEF StartWatcher
  <2>2. watching' \in BOOLEAN
    BY <2>1
  <2>3. UNCHANGED <<fs, notices, blind, acc, seq, snapshots, paused, audit, pendingEvent,
                    recorder, pc, cmd, scanned, reply, journal, durable, observed, spent>>
    BY <1>2 DEF StartWatcher, sinkVars
  <2> QED
    BY <2>2, <2>3 DEF TypeOK
<1>3. CASE LoseNotices
  <2>1. notices' = {Rescan} /\ spent' = [spent EXCEPT !.faults = @ + 1]
    BY <1>3 DEF LoseNotices
  <2>2. spent' \in [commands : Nat, faults : Nat]
    <3>1. spent \in [commands : Nat, faults : Nat]
      BY DEF TypeOK
    <3> QED
      BY <2>1, <3>1
  <2>3. UNCHANGED <<fs, watching, blind, acc, seq, snapshots, paused, audit, pendingEvent,
                    recorder, pc, cmd, scanned, reply, journal, durable, observed>>
    BY <1>3 DEF LoseNotices, sinkVars
  <2> QED
    BY <2>1, <2>2, <2>3 DEF TypeOK
<1>4. ASSUME NEW n \in notices, Deliver(n) PROVE TypeOK'
  <2>1. acc' \in AuditState /\ observed' \in Nat
    <3>1. acc \in AuditState /\ observed \in Nat /\ (n # Rescan => n \in Paths)
      BY DEF TypeOK
    <3>2. CASE n = Rescan
      <4>1. acc' = ReportOverflow(acc) /\ observed' = observed
        BY <1>4, <3>2 DEF Deliver
      <4>2. ReportOverflow(acc) \in AuditState
        BY <3>1, LimitsAssumption DEF ReportOverflow, AuditState
      <4> QED
        BY <3>1, <4>1, <4>2
    <3>3. CASE n # Rescan
      BY <1>4, <3>1, <3>3, FoldDirty DEF Deliver
    <3> QED
      BY <3>2, <3>3
  <2> QED
    <3>1. notices' \subseteq notices
      BY <1>4 DEF Deliver
    <3>2. UNCHANGED <<fs, watching, blind, seq, snapshots, paused, audit, pendingEvent,
                      recorder, pc, cmd, scanned, reply, journal, durable, spent>>
      BY <1>4 DEF Deliver, sinkVars
    <3> QED
      BY <2>1, <3>1, <3>2 DEF TypeOK
<1>5. CASE ReceivePause
  <2>1. /\ spent' = [spent EXCEPT !.commands = @ + 1]
        /\ paused' = TRUE /\ reply' = "ok"
        /\ UNCHANGED <<fs, notices, watching, blind, acc, seq, snapshots, audit, pendingEvent,
                      recorder, pc, cmd, scanned, journal, durable, observed>>
    BY <1>5 DEF ReceivePause, watchVars, sinkVars
  <2>2. spent' \in [commands : Nat, faults : Nat]
    <3>1. spent \in [commands : Nat, faults : Nat]
      BY DEF TypeOK
    <3> QED
      BY <2>1, <3>1
  <2>3. paused' \in BOOLEAN
    BY <2>1
  <2> QED
    BY <2>1, <2>2, <2>3 DEF TypeOK
<1>6. ASSUME NEW kind \in CommandKinds, Receive(kind) PROVE TypeOK'
  <2>1. audit' \in AuditWindow /\ acc' \in AuditState
    BY <1>6, DrainHolds, EmptyTypes DEF Receive, TypeOK
  <2>2. /\ spent' = [spent EXCEPT !.commands = @ + 1]
        /\ cmd' = kind /\ reply' = "none" /\ paused' = (paused /\ kind # "resume")
        /\ pc' \in {"snapshot", "loop"}
    BY <1>6 DEF Receive
  <2>3. UNCHANGED <<fs, notices, watching, blind, seq, snapshots, pendingEvent, recorder,
                    scanned, journal, durable, observed>>
    BY <1>6 DEF Receive, watchVars, sinkVars
  <2>4. spent' \in [commands : Nat, faults : Nat]
    <3>1. spent \in [commands : Nat, faults : Nat]
      BY DEF TypeOK
    <3> QED
      BY <2>2, <3>1
  <2>5. paused' \in BOOLEAN
    BY <2>2
  <2> QED
    BY <2>1, <2>2, <2>3, <2>4, <2>5 DEF TypeOK
<1>7. CASE TestPending
  <2>1. /\ pc' \in {"snapshot", "final", "idle", "stopped"}
        /\ cmd' \in CommandKinds \union {"none"} /\ reply' \in {"none", "ok", "retryable", "fatal"}
    BY <1>7 DEF TestPending, Return, TypeOK
  <2> QED
    BY <1>7, <2>1 DEF TestPending, TypeOK, watchVars, sinkVars
<1>8. CASE RetryPending
  <2>1. AfterSnapshot(RetriedWindow(audit)) /\ Accept(pendingEvent)
    BY <1>8 DEF RetryPending
  <2>2. journal' \in Seq(Event) /\ seq' \in Nat \ {0}
    BY <2>1, AcceptType DEF TypeOK
  <2>3. RetriedWindow(audit) \in AuditWindow
    BY WindowTypes DEF TypeOK
  <2> QED
    BY <1>8, <1>n, <2>1, <2>2, <2>3, AfterSnapshotType DEF RetryPending, TypeOK, watchVars
<1>9. CASE RefuseStalePending
  <2>1. Return("retryable")
    BY <1>9 DEF RefuseStalePending
  <2> QED
    BY <1>9, <2>1 DEF RefuseStalePending, Return, TypeOK, watchVars, sinkVars
<1>10. CASE BeginSnapshot
  <2>1. audit' \in AuditWindow /\ acc' \in AuditState
    BY <1>10, DrainHolds, EmptyTypes DEF BeginSnapshot, TypeOK
  <2> QED
    BY <1>10, <2>1 DEF BeginSnapshot, TypeOK, watchVars, sinkVars
<1>11. CASE EmitOverflow
  <2>1. journal' \in Seq(Event) /\ seq' \in Nat \ {0}
    <3>1. PICK n \in {0, 1} : Accept([BareEvent("overflow", seq) EXCEPT !.count = n])
      BY <1>11 DEF EmitOverflow
    <3>2. seq \in Nat /\ n \in Nat /\ "overflow" \in Kinds
      BY <1>k DEF TypeOK
    <3>3. [BareEvent("overflow", seq) EXCEPT !.count = n] \in Event
      BY <3>2, EventTypes
    <3> QED
      BY <3>1, <3>3, AcceptType
  <2>2. audit' \in AuditWindow
    <3>0. audit \in AuditWindow /\ audit.overflows > 0
      BY <1>11 DEF EmitOverflow, TypeOK
    <3>1. /\ audit.overflows - 1 \in Nat
          /\ (IF audit.own > 0 THEN audit.own - 1 ELSE 0) \in Nat
      BY <3>0 DEF AuditWindow
    <3>2. audit' = [audit EXCEPT !.overflows = @ - 1,
                                 !.own = IF @ > 0 THEN @ - 1 ELSE 0]
      BY <1>11 DEF EmitOverflow
    <3> QED
      BY <3>0, <3>1, <3>2 DEF AuditWindow
  <2> QED
    BY <1>11, <2>1, <2>2 DEF EmitOverflow, TypeOK, watchVars
<1>12. CASE EmitAudit
  <2>0. audit.raw \in Nat
    BY DEF TypeOK, AuditWindow
  <2>1. journal' \in Seq(Event) /\ seq' \in Nat \ {0}
    BY <1>12, <1>k, <2>0, EventTypes, AcceptType DEF EmitAudit, TypeOK
  <2>2. audit' \in AuditWindow
    BY <1>12 DEF EmitAudit, TypeOK, AuditWindow
  <2> QED
    BY <1>12, <2>1, <2>2 DEF EmitAudit, TypeOK, watchVars
<1>13. CASE ScanTree
  BY <1>13 DEF ScanTree, TypeOK, watchVars, sinkVars
<1>14. CASE CommitCapture
  <2>1. audit.force \in BOOLEAN /\ recorder.op \in Nat /\ recorder.op + 1 \in Nat
    BY DEF TypeOK, AuditWindow
  <2>2. recorder' \in [op : Nat, tree : Nat, commit : Nat]
    BY <1>14, <2>1 DEF CommitCapture, TypeOK
  <2>3. pendingEvent' \in Event
    BY <1>14, <1>k, <2>1, EventTypes DEF CommitCapture, TypeOK
  <2> QED
    BY <1>14, <2>2, <2>3 DEF CommitCapture, TypeOK, watchVars, sinkVars
<1>15. CASE TearCapture
  <2>1. Fail /\ recorder' = [recorder EXCEPT !.op = @ + 1]
    BY <1>15 DEF TearCapture
  <2>2. recorder \in [op : Nat, tree : Nat, commit : Nat]
    BY DEF TypeOK
  <2>3. recorder' \in [op : Nat, tree : Nat, commit : Nat]
    BY <2>1, <2>2
  <2> QED
    BY <1>15, <2>1, <2>3, FailType DEF TearCapture, TypeOK, watchVars, sinkVars
<1>16. CASE EmitSnapshot
  <2>1. AfterSnapshot(PublishedWindow(audit)) /\ Accept(pendingEvent)
    BY <1>16 DEF EmitSnapshot
  <2>2. journal' \in Seq(Event) /\ seq' \in Nat \ {0}
    BY <2>1, AcceptType DEF TypeOK
  <2>3. PublishedWindow(audit) \in AuditWindow
    BY WindowTypes DEF TypeOK
  <2> QED
    BY <1>16, <1>n, <2>1, <2>2, <2>3, AfterSnapshotType DEF EmitSnapshot, TypeOK, watchVars
<1>17. CASE EmitMark
  <2>1. journal' \in Seq(Event) /\ seq' \in Nat \ {0}
    BY <1>17, <1>k, EventTypes, AcceptType DEF EmitMark, TypeOK
  <2>2. Return("ok")
    BY <1>17 DEF EmitMark
  <2> QED
    BY <1>17, <2>1, <2>2 DEF EmitMark, Return, TypeOK, watchVars
<1>18. CASE EmitSessionEnd
  <2>1. journal' \in Seq(Event) /\ seq' \in Nat \ {0}
    BY <1>18, <1>k, EventTypes, AcceptType DEF EmitSessionEnd, TypeOK
  <2> QED
    BY <1>18, <2>1 DEF EmitSessionEnd, TypeOK, watchVars
<1>19. CASE EmitFlush
  <2>1. journal' \in Seq(Event) /\ seq' \in Nat \ {0}
    BY <1>19, <1>k, EventTypes, AcceptType DEF EmitFlush, TypeOK
  <2> QED
    BY <1>19, <2>1 DEF EmitFlush, TypeOK, watchVars
<1>20. CASE CallFails
  <2>1. Fail
    BY <1>20 DEF CallFails
  <2> QED
    BY <1>20, <2>1, FailType DEF CallFails, TypeOK, watchVars, sinkVars
<1>21. CASE FlushSession
  <2>1. Return("ok") /\ seq - 1 \in Nat
    BY <1>21 DEF FlushSession, TypeOK
  <2> QED
    BY <1>21, <2>1 DEF FlushSession, Return, TypeOK, watchVars
<1>22. CASE WatchStep
  BY <1>22, <1>1, <1>2, <1>3, <1>4 DEF WatchStep
<1>23. CASE TaskStep
  BY <1>23, <1>7, <1>8, <1>9, <1>10, <1>11, <1>12, <1>13, <1>14, <1>15, <1>16, <1>17,
     <1>18, <1>19, <1>20, <1>21 DEF TaskStep
<1>24. CASE UNCHANGED vars
  BY <1>24 DEF vars, TypeOK
<1> QED
  BY <1>5, <1>6, <1>22, <1>23, <1>24 DEF Next

\* Type correctness of the coordinator, for every limit and bound.
THEOREM TypeCorrect == Spec => []TypeOK
BY TypeInit, TypeStep, PTL DEF Spec

-----------------------------------------------------------------------------
(* The journal: contiguous, and its newest checkpoint *)

\* Accepting an event keeps the sequence contiguous.  A snapshot becomes the
\* newest checkpoint; an event of another kind leaves the newest as it was.
LEMMA AcceptStep ==
  ASSUME TypeOK, JournalContiguous, NEW e \in Event, Accept(e)
  PROVE  /\ JournalContiguous'
         /\ \A t : e.kind = "snapshot" /\ e.tree = t => Published(t)'
         /\ e.kind \notin {"session_start", "snapshot"} =>
              \A t : Published(t) => Published(t)'
<1> DEFINE n == Len(journal)
<1>1. /\ journal \in Seq(Event) /\ n \in Nat /\ seq = n
      /\ journal' = Append(journal, e) /\ e.seq = seq /\ seq' = seq + 1
  BY DEF TypeOK, JournalContiguous, Accept
<1>2. /\ Len(journal') = n + 1
      /\ \A i \in 1..n : journal'[i] = journal[i]
      /\ journal'[n + 1] = e
  BY <1>1
<1>3. JournalContiguous'
  <2>1. seq' = Len(journal')
    BY <1>1, <1>2
  <2>2. ASSUME NEW i \in 1..Len(journal') PROVE journal'[i].seq = i - 1
    <3>1. CASE i = n + 1
      BY <1>1, <1>2, <3>1
    <3>2. CASE i \in 1..n
      BY <1>2, <3>2 DEF JournalContiguous
    <3> QED
      BY <1>1, <1>2, <3>1, <3>2
  <2> QED
    BY <2>1, <2>2 DEF JournalContiguous
<1>4. Checkpoints(Len(journal))' =
        {i \in 1..(n + 1) : journal'[i].kind \in {"session_start", "snapshot"}}
  BY <1>2 DEF Checkpoints
<1>5. ASSUME NEW t, e.kind = "snapshot", e.tree = t PROVE Published(t)'
  <2>1. n + 1 \in Checkpoints(Len(journal))'
    BY <1>1, <1>2, <1>4, <1>5
  <2>2. \A k \in Checkpoints(Len(journal))' : k <= n + 1
    BY <1>1, <1>4
  <2> QED
    BY <1>2, <1>5, <2>1, <2>2 DEF Published
<1>6. ASSUME e.kind \notin {"session_start", "snapshot"}, NEW t, Published(t)
      PROVE  Published(t)'
  <2>1. Checkpoints(Len(journal))' = Checkpoints(Len(journal))
    <3>1. n + 1 \notin Checkpoints(Len(journal))'
      BY <1>2, <1>4, <1>6
    <3>2. \A i \in 1..n : i \in Checkpoints(Len(journal))' <=> i \in Checkpoints(Len(journal))
      BY <1>1, <1>2, <1>4 DEF Checkpoints
    <3>3. /\ Checkpoints(Len(journal))' \subseteq 1..(n + 1)
          /\ Checkpoints(Len(journal)) \subseteq 1..n
      BY <1>4 DEF Checkpoints
    <3>4. \A i : i \in 1..(n + 1) <=> i \in 1..n \/ i = n + 1
      BY <1>1
    <3>5. \A i : i \in Checkpoints(Len(journal))' <=> i \in Checkpoints(Len(journal))
      <4> HIDE DEF n
      <4> QED
        BY <3>1, <3>2, <3>3, <3>4
    <3> QED
      BY <3>5
  <2>2. PICK i \in Checkpoints(Len(journal)) :
          /\ \A k \in Checkpoints(Len(journal)) : k <= i
          /\ journal[i].tree = t
    BY <1>6 DEF Published
  <2>3. i \in 1..n /\ journal'[i].tree = t
    BY <1>2, <2>2 DEF Checkpoints
  <2> QED
    BY <2>1, <2>2, <2>3 DEF Published
<1> QED
  BY <1>3, <1>5, <1>6

\* PublishedTree is the tree Published() speaks of.
LEMMA PublishedIsNewest ==
  ASSUME TypeOK, NEW t, Published(t)
  PROVE  PublishedTree = t
<1> DEFINE S == Checkpoints(Len(journal))
<1>1. PICK i \in S : (\A k \in S : k <= i) /\ journal[i].tree = t
  BY DEF Published
<1>2. S \subseteq Nat
  BY DEF Checkpoints, TypeOK
<1>3. Max(S) = i
  BY <1>1, <1>2 DEF Max
<1> QED
  BY <1>1, <1>3 DEF PublishedTree, LastCheckpoint

-----------------------------------------------------------------------------
(* EventInv is inductive *)

\* Steps that leave the journal, the pending event and the captured tree alone.
LEMMA EventFrame ==
  ASSUME EventInv, UNCHANGED <<journal, seq, pendingEvent>>,
         recorder'.tree = recorder.tree,
         pc' = "emit" => pendingEvent # NoEvent,
         pc' \in {"audit", "commit"} => pendingEvent = NoEvent
  PROVE  EventInv'
<1>1. JournalContiguous'
  BY DEF EventInv, JournalContiguous
<1>2. Published(recorder.tree) => Published(recorder.tree)'
  BY DEF Published, Checkpoints
<1> QED
  BY <1>1, <1>2 DEF EventInv

\* Steps that accept an event other than a checkpoint.
LEMMA EventAccept ==
  ASSUME TypeOK, EventInv, NEW e \in Event, Accept(e),
         e.kind \notin {"session_start", "snapshot"},
         UNCHANGED <<pendingEvent, recorder>>,
         pc' # "emit",
         pc' \in {"audit", "commit"} => pendingEvent = NoEvent
  PROVE  EventInv'
<1>1. JournalContiguous' /\ (Published(recorder.tree) => Published(recorder.tree)')
  <2>1. \A t : Published(t) => Published(t)'
    BY AcceptStep DEF EventInv
  <2>2. JournalContiguous'
    BY AcceptStep DEF EventInv
  <2>3. recorder.tree = recorder'.tree
    OBVIOUS
  <2> QED
    BY <2>1, <2>2, <2>3 DEF Published, Checkpoints
<1> QED
  BY <1>1 DEF EventInv

\* Steps that accept the snapshot event the coordinator holds.
LEMMA EventPublish ==
  ASSUME TypeOK, EventInv, pendingEvent # NoEvent, Accept(pendingEvent),
         pendingEvent' = NoEvent, UNCHANGED recorder, pc' \notin {"emit", "audit", "commit"}
  PROVE  EventInv'
<1>1. pendingEvent \in Event
  BY DEF TypeOK
<1>2. JournalContiguous'
  BY <1>1, AcceptStep DEF EventInv
<1>3. pendingEvent.kind = "snapshot" /\ pendingEvent.tree = recorder.tree
  BY DEF EventInv
<1>4. ASSUME NEW t, t = recorder.tree PROVE Published(t)'
  BY <1>1, <1>3, <1>4, AcceptStep DEF EventInv
<1>5. PICK t : t = recorder.tree
  OBVIOUS
<1>6. Published(recorder.tree)'
  BY <1>4, <1>5 DEF Published
<1> QED
  BY <1>2, <1>6 DEF EventInv

LEMMA EventInit == Init => EventInv
<1> SUFFICES ASSUME Init PROVE EventInv
  OBVIOUS
<1> DEFINE start == [BareEvent("session_start", 0) EXCEPT !.op = 1]
<1>1. start.kind = "session_start" /\ start.seq = 0 /\ start.tree = 0
  BY DEF BareEvent
<1>2. journal = <<start>> /\ seq = 1 /\ recorder.tree = 0 /\ pendingEvent = NoEvent /\ pc = "idle"
  BY DEF Init
<1> HIDE DEF start
<1>3. Len(journal) = 1 /\ journal[1] = start
  BY <1>2
<1>4. JournalContiguous
  BY <1>1, <1>2, <1>3 DEF JournalContiguous
<1>5. Published(recorder.tree)
  BY <1>1, <1>2, <1>3 DEF Published, Checkpoints
<1> QED
  BY <1>2, <1>4, <1>5 DEF EventInv

LEMMA EventStep == TypeOK /\ EventInv /\ [Next]_vars => EventInv'
<1> SUFFICES ASSUME TypeOK, EventInv, [Next]_vars PROVE EventInv'
  OBVIOUS
<1>t. \A k \in {"touched_paths", "overflow", "mark", "flush", "session_end"} :
        /\ BareEvent(k, seq) \in Event /\ BareEvent(k, seq).kind = k
        /\ \A n \in Nat : /\ [BareEvent(k, seq) EXCEPT !.op = n] \in Event
                          /\ [BareEvent(k, seq) EXCEPT !.op = n].kind = k
                          /\ [BareEvent(k, seq) EXCEPT !.count = n] \in Event
                          /\ [BareEvent(k, seq) EXCEPT !.count = n].kind = k
        /\ \A n, m \in Nat : /\ [BareEvent(k, seq) EXCEPT !.op = n, !.count = m] \in Event
                             /\ [BareEvent(k, seq) EXCEPT !.op = n, !.count = m].kind = k
  <2>1. seq \in Nat
    BY DEF TypeOK
  <2>2. \A k \in {"touched_paths", "overflow", "mark", "flush", "session_end"} : k \in Kinds
    BY DEF Kinds
  <2> QED
    BY <2>1, <2>2, EventTypes DEF BareEvent
<1>n. recorder.op \in Nat /\ snapshots \in Nat /\ audit.raw \in Nat
  BY DEF TypeOK, AuditWindow
<1>1. CASE WatchStep \/ UNCHANGED vars \/ ReceivePause
  <2>1. UNCHANGED <<journal, seq, pendingEvent, recorder, pc>>
    BY <1>1 DEF WatchStep, Write, StartWatcher, LoseNotices, Deliver, ReceivePause, vars,
                sinkVars
  <2> QED
    BY <2>1, EventFrame DEF EventInv
<1>2. ASSUME NEW kind \in CommandKinds, Receive(kind) PROVE EventInv'
  <2>1. UNCHANGED <<journal, seq, pendingEvent, recorder>> /\ pc' \in {"snapshot", "loop"}
    BY <1>2 DEF Receive, sinkVars
  <2> QED
    BY <2>1, EventFrame
<1>3. CASE TestPending \/ RefuseStalePending \/ CallFails
  <2>1. UNCHANGED <<journal, seq, pendingEvent, recorder>>
    BY <1>3 DEF TestPending, RefuseStalePending, CallFails, sinkVars
  <2>2. pc' \in {"snapshot", "final", "idle", "stopped"}
    BY <1>3 DEF TestPending, RefuseStalePending, CallFails, Fail, Return
  <2> QED
    BY <2>1, <2>2, EventFrame
<1>4. CASE RetryPending
  <2>1. /\ pendingEvent # NoEvent /\ Accept(pendingEvent) /\ pendingEvent' = NoEvent
        /\ UNCHANGED recorder
    BY <1>4 DEF RetryPending
  <2>2. pc' \in {"idle", "stopped", "loop"}
    BY <1>4 DEF RetryPending, AfterSnapshot, Return
  <2> QED
    BY <2>1, <2>2, EventPublish
<1>5. CASE BeginSnapshot
  <2>1. /\ UNCHANGED <<journal, seq, pendingEvent, recorder>>
        /\ pc' = "audit" /\ pendingEvent = NoEvent
    BY <1>5 DEF BeginSnapshot, sinkVars
  <2> QED
    BY <2>1, EventFrame
<1>6. CASE EmitOverflow
  <2>1. PICK n \in {0, 1} : Accept([BareEvent("overflow", seq) EXCEPT !.count = n])
    BY <1>6 DEF EmitOverflow
  <2>2. UNCHANGED <<pendingEvent, recorder, pc>> /\ pc = "audit"
    BY <1>6 DEF EmitOverflow
  <2>3. n \in Nat
    OBVIOUS
  <2> DEFINE e == [BareEvent("overflow", seq) EXCEPT !.count = n]
  <2>4. e \in Event /\ e.kind = "overflow"
    BY <1>t, <2>3
  <2> HIDE DEF e
  <2>5. Accept(e)
    BY <2>1 DEF e
  <2> QED
    BY <2>2, <2>4, <2>5, EventAccept DEF EventInv
<1>7. CASE EmitAudit
  <2>1. /\ Accept([BareEvent("touched_paths", seq) EXCEPT !.count = audit.raw])
        /\ UNCHANGED <<pendingEvent, recorder, pc>> /\ pc = "audit"
    BY <1>7 DEF EmitAudit
  <2> QED
    BY <1>t, <1>n, <2>1, EventAccept DEF EventInv
<1>8. CASE ScanTree
  <2>1. /\ UNCHANGED <<journal, seq, pendingEvent, recorder>> /\ pc = "audit" /\ pc' = "commit"
    BY <1>8 DEF ScanTree, sinkVars
  <2> QED
    BY <2>1, EventFrame DEF EventInv
<1>9. CASE CommitCapture
  <2>1. /\ UNCHANGED <<journal, seq>> /\ pc' = "emit"
        /\ pendingEvent'.kind = "snapshot" /\ pendingEvent'.tree = recorder'.tree
    BY <1>9 DEF CommitCapture, BareEvent, sinkVars
  <2>2. pendingEvent' # NoEvent
    BY <2>1 DEF NoEvent, BareEvent
  <2>3. JournalContiguous'
    BY <2>1 DEF EventInv, JournalContiguous
  <2> QED
    BY <2>1, <2>2, <2>3 DEF EventInv
<1>10. CASE TearCapture
  <2>1. /\ UNCHANGED <<journal, seq, pendingEvent>> /\ pc' \in {"idle", "stopped"}
        /\ recorder' = [recorder EXCEPT !.op = @ + 1]
    BY <1>10 DEF TearCapture, Fail, Return, sinkVars
  <2>2. recorder'.tree = recorder.tree
    BY <2>1 DEF TypeOK
  <2> QED
    BY <2>1, <2>2, EventFrame
<1>11. CASE EmitSnapshot
  <2>1. /\ pendingEvent # NoEvent /\ Accept(pendingEvent) /\ pendingEvent' = NoEvent
        /\ UNCHANGED recorder
    BY <1>11 DEF EmitSnapshot, EventInv
  <2>2. pc' \in {"idle", "stopped", "loop"}
    BY <1>11 DEF EmitSnapshot, AfterSnapshot, Return
  <2> QED
    BY <2>1, <2>2, EventPublish
<1>12. CASE EmitMark
  <2>1. /\ Accept([BareEvent("mark", seq) EXCEPT !.op = recorder.op])
        /\ UNCHANGED <<pendingEvent, recorder>> /\ pc' \in {"idle", "stopped"}
    BY <1>12 DEF EmitMark, Return
  <2> QED
    BY <1>t, <1>n, <2>1, EventAccept
<1>13. CASE EmitSessionEnd
  <2>1. /\ Accept([BareEvent("session_end", seq) EXCEPT !.op = recorder.op, !.count = snapshots])
        /\ UNCHANGED <<pendingEvent, recorder>> /\ pc' = "flush"
    BY <1>13 DEF EmitSessionEnd
  <2> QED
    BY <1>t, <1>n, <2>1, EventAccept
<1>14. CASE EmitFlush
  <2>1. /\ Accept([BareEvent("flush", seq) EXCEPT !.op = recorder.op])
        /\ UNCHANGED <<pendingEvent, recorder>> /\ pc' = "session"
    BY <1>14 DEF EmitFlush
  <2> QED
    BY <1>t, <1>n, <2>1, EventAccept
<1>15. CASE FlushSession
  <2>1. UNCHANGED <<journal, seq, pendingEvent, recorder>> /\ pc' \in {"idle", "stopped"}
    BY <1>15 DEF FlushSession, Return
  <2> QED
    BY <2>1, EventFrame
<1>16. CASE TaskStep
  BY <1>16, <1>3, <1>4, <1>5, <1>6, <1>7, <1>8, <1>9, <1>10, <1>11, <1>12, <1>13, <1>14,
     <1>15 DEF TaskStep
<1> QED
  BY <1>1, <1>2, <1>16 DEF Next

-----------------------------------------------------------------------------
(* ChangeInv is inductive *)

LEMMA ChangeInit == Init => ChangeInv
BY DEF Init, ChangeInv, Current, Held, CleanAudit

\* Steps of the coordinator task that drain nothing and capture nothing.
LEMMA ChangeFrame ==
  ASSUME ChangeInv, UNCHANGED <<watchVars, acc, audit, pendingEvent>>,
         recorder'.tree = recorder.tree, pc' \notin {"commit", "emit"}
  PROVE  ChangeInv'
BY DEF ChangeInv, Current, Noticed, Held, IsDirty, watchVars

\* A drain turns what the accumulator knew into what the window holds.
LEMMA ChangeDrain ==
  ASSUME TypeOK, NEW w \in AuditWindow, audit' \in DrainAudit(acc, w),
         UNCHANGED watchVars
  PROVE  /\ w.touched # {} \/ w.overflows > 0 => Held'
         /\ audit'.pending = (w.pending \/ Held')
         /\ \A t : Current(t) => Current(t)' \/ Held'
BY DrainHolds DEF TypeOK, Held, Current, Noticed, watchVars

\* A notification that is queued or folded in settles every conjunct.
LEMMA NoticedKeepsChange ==
  ASSUME ChangeInv, Noticed' \/ blind' = fs', blind' <= fs', ~watching' => blind' = fs',
         UNCHANGED <<audit, pendingEvent, recorder, pc>>
  PROVE  ChangeInv'
BY DEF ChangeInv, Current, Held

\* A snapshot succeeded with the captured tree still current, or with what makes
\* it stale in the window handed on.
LEMMA ChangeAfterSnapshot ==
  ASSUME TypeOK, ChangeInv, NEW w \in AuditWindow, AfterSnapshot(w),
         UNCHANGED <<watchVars, recorder>>, pendingEvent' = NoEvent,
         w.pending = (w.touched # {} \/ w.overflows > 0),
         Current(recorder.tree) \/ w.touched # {} \/ w.overflows > 0
  PROVE  ChangeInv'
<1>1. pc' \in {"idle", "stopped", "loop"}
  BY AfterSnapshotType
<1>2. CASE audit' = w /\ acc' = acc
  BY <1>1, <1>2 DEF ChangeInv, Current, Noticed, Held, watchVars
<1>3. CASE audit' \in DrainAudit(acc, w)
  <2>1. /\ w.touched # {} \/ w.overflows > 0 => Held'
        /\ audit'.pending = (w.pending \/ Held')
        /\ \A t : Current(t) => Current(t)' \/ Held'
    BY <1>3, ChangeDrain
  <2>2. Current(recorder.tree)' \/ Held'
    <3>1. PICK t : t = recorder.tree
      OBVIOUS
    <3>2. Current(t) \/ Held'
      BY <2>1, <3>1
    <3> QED
      BY <2>1, <3>1, <3>2 DEF Current
  <2> QED
    BY <1>1, <2>1, <2>2 DEF ChangeInv, watchVars
<1> QED
  BY <1>2, <1>3, AfterSnapshotType

LEMMA ChangeStep == TypeOK /\ ChangeInv /\ EventInv /\ [Next]_vars => ChangeInv'
<1> SUFFICES ASSUME TypeOK, ChangeInv, EventInv, [Next]_vars PROVE ChangeInv'
  OBVIOUS
<1>t. acc \in AuditState /\ audit \in AuditWindow /\ fs \in Nat /\ blind \in Nat
  BY DEF TypeOK
<1>1. ASSUME NEW p \in Paths, Write(p) PROVE ChangeInv'
  <2>1. Noticed' \/ blind' = fs'
    BY <1>1 DEF Write, Noticed
  <2>2. blind' <= fs' /\ (~watching' => blind' = fs')
    BY <1>1, <1>t DEF Write, ChangeInv
  <2> QED
    BY <1>1, <2>1, <2>2, NoticedKeepsChange DEF Write
<1>2. CASE StartWatcher
  BY <1>2 DEF StartWatcher, ChangeInv, Current, Noticed, Held, IsDirty
<1>3. CASE LoseNotices
  <2>1. Noticed'
    BY <1>3 DEF LoseNotices, Noticed
  <2> QED
    BY <1>3, <2>1, NoticedKeepsChange DEF LoseNotices, ChangeInv
<1>4. ASSUME NEW n \in notices, Deliver(n) PROVE ChangeInv'
  <2>1. IsDirty(acc)'
    <3>1. CASE n = Rescan
      BY <1>4, <1>t, <3>1, LimitsAssumption DEF Deliver, ReportOverflow, IsDirty, AuditState
    <3>2. CASE n # Rescan
      <4>1. n \in Paths /\ acc' = Observe(acc, n)
        BY <1>4, <3>2 DEF Deliver, TypeOK
      <4> QED
        BY <1>t, <4>1, FoldDirty DEF IsDirty
    <3> QED
      BY <3>1, <3>2
  <2>2. Noticed'
    BY <2>1 DEF Noticed
  <2> QED
    BY <1>4, <2>2, NoticedKeepsChange DEF Deliver, ChangeInv
<1>5. CASE ReceivePause \/ UNCHANGED vars
  BY <1>5 DEF ReceivePause, vars, watchVars, ChangeInv, Current, Noticed, Held, IsDirty
<1>6. ASSUME NEW kind \in CommandKinds, Receive(kind) PROVE ChangeInv'
  <2>1. /\ UNCHANGED <<watchVars, pendingEvent, recorder>> /\ pc' \in {"snapshot", "loop"}
    BY <1>6 DEF Receive
  <2>2. CASE kind = "snap"
    BY <1>6, <2>1, <2>2, ChangeFrame DEF Receive
  <2>3. CASE kind # "snap"
    <3>1. audit' \in DrainAudit(acc, audit)
      BY <1>6, <2>3 DEF Receive
    <3> QED
      BY <1>t, <2>1, <3>1, ChangeDrain DEF ChangeInv, Held, Current, Noticed, watchVars
  <2> QED
    BY <2>2, <2>3
<1>7. CASE TestPending \/ RefuseStalePending \/ CallFails \/ EmitMark \/ EmitSessionEnd
           \/ EmitFlush \/ FlushSession
  <2>1. UNCHANGED <<watchVars, acc, audit, pendingEvent, recorder>>
    BY <1>7 DEF TestPending, RefuseStalePending, CallFails, EmitMark, EmitSessionEnd,
                EmitFlush, FlushSession
  <2>2. pc' \notin {"commit", "emit"}
    BY <1>7 DEF TestPending, RefuseStalePending, CallFails, EmitMark, EmitSessionEnd,
                EmitFlush, FlushSession, Fail, Return
  <2> QED
    BY <2>1, <2>2, ChangeFrame
<1>8. CASE RetryPending
  <2>1. /\ AfterSnapshot(RetriedWindow(audit)) /\ UNCHANGED <<watchVars, recorder>>
        /\ pendingEvent # NoEvent /\ pendingEvent' = NoEvent
    BY <1>8 DEF RetryPending
  <2> DEFINE w == RetriedWindow(audit)
  <2>2. w \in AuditWindow
    BY <1>t, WindowTypes
  <2>3. w.touched = audit.touched /\ w.overflows = audit.overflows
        /\ w.pending = (w.touched # {} \/ w.overflows > 0)
    BY <1>t DEF RetriedWindow, AuditWindow
  <2>4. Current(recorder.tree) \/ w.touched # {} \/ w.overflows > 0
    BY <2>1, <2>3 DEF ChangeInv, Held
  <2> HIDE DEF w
  <2> QED
    BY <2>1, <2>2, <2>3, <2>4, ChangeAfterSnapshot DEF w
<1>9. CASE EmitSnapshot
  <2>1. /\ AfterSnapshot(PublishedWindow(audit)) /\ UNCHANGED <<watchVars, recorder>>
        /\ pendingEvent # NoEvent /\ pendingEvent' = NoEvent /\ ~Held
    BY <1>9 DEF EmitSnapshot, ChangeInv, EventInv
  <2> DEFINE w == PublishedWindow(audit)
  <2>2. w \in AuditWindow
    BY <1>t, WindowTypes
  <2>3. w.pending = FALSE /\ ~(w.touched # {} \/ w.overflows > 0)
    BY <1>t, <2>1 DEF PublishedWindow, AuditWindow, Held
  <2>4. Current(recorder.tree)
    BY <2>1 DEF ChangeInv
  <2> HIDE DEF w
  <2> QED
    BY <2>1, <2>2, <2>3, <2>4, ChangeAfterSnapshot DEF w
<1>10. CASE BeginSnapshot
  <2>1. /\ audit' \in DrainAudit(acc, audit) /\ pc' = "audit"
        /\ UNCHANGED <<watchVars, pendingEvent, recorder>>
    BY <1>10 DEF BeginSnapshot
  <2> QED
    BY <1>t, <2>1, ChangeDrain DEF ChangeInv, Held, Current, Noticed, watchVars
<1>11. CASE EmitOverflow \/ EmitAudit
  <2>1. /\ UNCHANGED <<watchVars, acc, pendingEvent, recorder, pc>> /\ pc = "audit"
        /\ pendingEvent = NoEvent
    BY <1>11 DEF EmitOverflow, EmitAudit, EventInv
  <2>2. audit'.pending = audit.pending /\ (Held' => Held)
    <3>1. CASE EmitOverflow
      BY <1>t, <3>1 DEF EmitOverflow, Held, AuditWindow
    <3>2. CASE EmitAudit
      BY <1>t, <3>2 DEF EmitAudit, Held, AuditWindow
    <3> QED
      BY <1>11, <3>1, <3>2
  <2> QED
    BY <2>1, <2>2 DEF ChangeInv, Current, Noticed, IsDirty, watchVars
<1>12. CASE ScanTree
  <2>1. /\ UNCHANGED <<watchVars, acc, audit, pendingEvent, recorder>>
        /\ scanned' = fs /\ pc' = "commit" /\ ~Held
    BY <1>12, <1>t DEF ScanTree, Held, AuditWindow
  <2> QED
    BY <2>1 DEF ChangeInv, Current, Noticed, Held, IsDirty, watchVars
<1>13. CASE CommitCapture
  <2>1. /\ UNCHANGED <<watchVars, acc, audit, scanned>>
        /\ recorder'.tree = scanned /\ pc = "commit" /\ pc' = "emit"
    BY <1>13 DEF CommitCapture
  <2> QED
    BY <2>1 DEF ChangeInv, Current, Noticed, Held, IsDirty, watchVars
<1>14. CASE TearCapture
  <2>1. /\ UNCHANGED <<watchVars, acc, audit, pendingEvent>> /\ pc' \in {"idle", "stopped"}
        /\ recorder' = [recorder EXCEPT !.op = @ + 1]
    BY <1>14 DEF TearCapture, Fail, Return
  <2>2. recorder'.tree = recorder.tree
    BY <2>1 DEF TypeOK
  <2> QED
    BY <2>1, <2>2, ChangeFrame
<1>15. CASE WatchStep
  BY <1>15, <1>1, <1>2, <1>3, <1>4 DEF WatchStep
<1>16. CASE TaskStep
  BY <1>16, <1>7, <1>8, <1>9, <1>10, <1>11, <1>12, <1>13, <1>14 DEF TaskStep
<1> QED
  BY <1>5, <1>6, <1>15, <1>16 DEF Next

-----------------------------------------------------------------------------
(* The theorems *)

\* The induction the two safety theorems below rest on.
LEMMA Invariance == Spec => []Inv
<1>1. Init => Inv
  BY TypeInit, ChangeInit, EventInit DEF Inv
<1>2. Inv /\ [Next]_vars => Inv'
  BY TypeStep, ChangeStep, EventStep DEF Inv
<1> QED
  BY <1>1, <1>2, PTL DEF Spec

\* Sequence numbers have no gap and no repetition, whatever fails and is retried.
THEOREM SequenceContiguous == Spec => []JournalContiguous
<1>1. Inv => JournalContiguous
  BY DEF Inv, EventInv
<1> QED
  BY <1>1, Invariance, PTL

\* The invariant says of the recorder's tree what NoLostChange says of the newest
\* published one; they are the same while no event is retained.
LEMMA InvKeepsChange == Inv => NoLostChange
<1> SUFFICES ASSUME Inv, pendingEvent = NoEvent PROVE NoLostChange
  BY DEF NoLostChange
<1>1. PublishedTree = recorder.tree
  <2>1. PICK t : t = recorder.tree
    OBVIOUS
  <2>2. Published(t)
    BY <2>1 DEF Inv, EventInv, Published
  <2> QED
    BY <2>1, <2>2, PublishedIsNewest DEF Inv
<1> QED
  BY <1>1 DEF Inv, ChangeInv, Current, Noticed, NoLostChange

\* No change to the watched tree is forgotten once the watch is registered.
THEOREM ChangesKept == Spec => []NoLostChange
BY InvKeepsChange, Invariance, PTL

\* One step keeps a retained event or publishes it, and takes no checkpoint.
LEMMA PendingStep ==
  Inv /\ [Next]_vars =>
    (pendingEvent # NoEvent =>
       /\ recorder' = recorder
       /\ \/ pendingEvent' = pendingEvent
          \/ pendingEvent' = NoEvent /\ journal' = Append(journal, pendingEvent))
<1> SUFFICES ASSUME Inv, [Next]_vars, pendingEvent # NoEvent
             PROVE  /\ recorder' = recorder
                    /\ \/ pendingEvent' = pendingEvent
                       \/ /\ pendingEvent' = NoEvent
                          /\ journal' = Append(journal, pendingEvent)
  OBVIOUS
\* A checkpoint is only taken while no event is retained.
<1>p. pc \notin {"audit", "commit"}
  BY DEF Inv, EventInv
<1>1. CASE WatchStep \/ UNCHANGED vars \/ ReceivePause
  BY <1>1 DEF WatchStep, Write, StartWatcher, LoseNotices, Deliver, ReceivePause, vars
<1>2. ASSUME NEW kind \in CommandKinds, Receive(kind)
      PROVE  UNCHANGED <<pendingEvent, recorder>>
  BY <1>2 DEF Receive
<1>3. CASE RetryPending \/ EmitSnapshot
  BY <1>3 DEF RetryPending, EmitSnapshot, Accept
<1>4. CASE TestPending \/ RefuseStalePending \/ CallFails \/ FlushSession
  BY <1>4 DEF TestPending, RefuseStalePending, CallFails, FlushSession
<1>5. CASE EmitMark \/ EmitSessionEnd \/ EmitFlush
  BY <1>5 DEF EmitMark, EmitSessionEnd, EmitFlush
<1>6. CASE BeginSnapshot \/ EmitOverflow \/ EmitAudit \/ ScanTree \/ CommitCapture \/ TearCapture
  BY <1>p, <1>6 DEF BeginSnapshot, EmitOverflow, EmitAudit, ScanTree, CommitCapture, TearCapture
<1>7. CASE TaskStep
  BY <1>7, <1>3, <1>4, <1>5, <1>6 DEF TaskStep
<1> QED
  BY <1>1, <1>2, <1>7 DEF Next

\* A snapshot event the sink refused is retried unchanged, and no other
\* checkpoint is taken until it is accepted.
THEOREM PendingRetried == Spec => PendingRetriedExactly
<1>1. Inv /\ [Next]_vars =>
        [pendingEvent # NoEvent =>
           /\ recorder' = recorder
           /\ \/ pendingEvent' = pendingEvent
              \/ /\ pendingEvent' = NoEvent
                 /\ journal' = Append(journal, pendingEvent)]_vars
  BY PendingStep
<1> QED
  BY <1>1, Invariance, PTL DEF Spec, PendingRetriedExactly

-----------------------------------------------------------------------------
(* The audit count *)

LEMMA AuditInit == Init => AuditInv
<1> SUFFICES ASSUME Init PROVE AuditInv
  OBVIOUS
<1>1. /\ Len(journal) = 1 /\ journal[1].kind = "session_start"
      /\ audit.raw = 0 /\ acc.raw = 0 /\ observed = 0
  BY DEF Init, CleanAudit, EmptyAcc, BareEvent
<1>2. {k \in 1..Len(journal) : journal[k].kind = "touched_paths"} = {}
  BY <1>1
<1>3. Reported = {}
  BY <1>2 DEF Reported
<1> QED
  BY <1>1, <1>3, FS_EmptySet DEF AuditInv, AuditConserved

\* An accepted event adds to what the journal tells of what it counts, if it is
\* one that counts notifications.
LEMMA AcceptReports ==
  ASSUME TypeOK, AuditInv, NEW e \in Event, Accept(e)
  PROVE  /\ IsFiniteSet(Reported')
         /\ Cardinality(Reported') = Cardinality(Reported)
              + (IF e.kind = "touched_paths" THEN e.count ELSE 0)
<1> DEFINE n  == Len(journal)
           Is(j) == {k \in 1..Len(j) : j[k].kind = "touched_paths"}
           New == {n + 1} \X (1..e.count)
<1>1. journal \in Seq(Event) /\ n \in Nat /\ journal' = Append(journal, e) /\ e.count \in Nat
  BY DEF TypeOK, Accept, Event
<1>2. /\ Len(journal') = n + 1
      /\ \A i \in 1..n : journal'[i] = journal[i]
      /\ journal'[n + 1] = e
  BY <1>1
<1>3. IsFiniteSet(Reported) /\ Cardinality(Reported) \in Nat
  BY FS_CardinalityType DEF AuditInv
<1>4. \A i : i \in 1..Len(journal') <=> i \in 1..n \/ i = n + 1
  BY <1>1, <1>2
<1>5. CASE e.kind # "touched_paths"
  <2>1. Is(journal') = Is(journal)
    BY <1>2, <1>4, <1>5
  <2>2. Reported' = Reported
    BY <1>2, <2>1 DEF Reported
  <2> QED
    BY <1>3, <1>5, <2>2
<1>6. CASE e.kind = "touched_paths"
  <2>1. Is(journal') = Is(journal) \union {n + 1}
    BY <1>2, <1>4, <1>6
  <2>2. Reported' = Reported \union New
    <3>1. Reported' = UNION {{i} \X (1..journal'[i].count) : i \in Is(journal')}
      BY DEF Reported
    <3>2. Reported = UNION {{i} \X (1..journal[i].count) : i \in Is(journal)}
      BY DEF Reported
    <3>3. \A i \in Is(journal) : i \in 1..n
      OBVIOUS
    <3> HIDE DEF Is
    <3> QED
      BY <1>2, <2>1, <3>1, <3>2, <3>3
  <2>3. Reported \cap New = {}
    <3>1. ASSUME NEW x \in Reported PROVE x[1] \in 1..n
      BY <3>1 DEF Reported
    <3>2. ASSUME NEW x \in New PROVE x[1] = n + 1
      BY <3>2
    <3>3. n + 1 \notin 1..n
      BY <1>1
    <3> HIDE DEF New
    <3> QED
      BY <3>1, <3>2, <3>3
  <2>4. IsFiniteSet(New) /\ Cardinality(New) = e.count
    <3>1. ASSUME NEW x, NEW c \in Nat
          PROVE  IsFiniteSet({x} \X (1..c)) /\ Cardinality({x} \X (1..c)) = c
      <4>1. IsFiniteSet({x}) /\ Cardinality({x}) = 1
        BY FS_Singleton
      <4>2. IsFiniteSet(1..c) /\ Cardinality(1..c) = IF 1 > c THEN 0 ELSE c - 1 + 1
        BY FS_Interval
      <4>3. Cardinality(1..c) = c
        BY <4>2
      <4>4. IsFiniteSet({x} \X (1..c))
            /\ Cardinality({x} \X (1..c)) = Cardinality({x}) * Cardinality(1..c)
        BY <4>1, <4>2, FS_Product
      <4> QED
        BY <4>1, <4>3, <4>4
    <3> QED
      BY <1>1, <3>1
  <2>5. IsFiniteSet(Reported') /\ Cardinality(Reported') = Cardinality(Reported) + e.count
    <3>1. /\ IsFiniteSet(Reported \union New)
          /\ Cardinality(Reported \union New)
               = Cardinality(Reported) + Cardinality(New) - Cardinality(Reported \cap New)
      <4> HIDE DEF New
      <4> QED
        BY <1>3, <2>4, FS_Union
    <3>2. Cardinality(Reported \cap New) = 0
      BY <2>3, FS_EmptySet
    <3> HIDE DEF New
    <3> QED
      BY <1>1, <1>3, <2>2, <2>4, <3>1, <3>2
  <2> QED
    BY <1>6, <2>5
<1> QED
  BY <1>5, <1>6

\* Draining moves the count from the accumulator to the window.
LEMMA DrainMoves ==
  ASSUME NEW a, NEW w, NEW v \in DrainAudit(a, w)
  PROVE  v.raw = w.raw + a.raw
BY DEF DrainAudit

LEMMA AuditStep == TypeOK /\ EventInv /\ AuditInv /\ [Next]_vars => AuditInv'
<1> SUFFICES ASSUME TypeOK, EventInv, AuditInv, [Next]_vars PROVE AuditInv'
  OBVIOUS
<1>t. /\ acc \in AuditState /\ audit \in AuditWindow /\ observed \in Nat /\ seq \in Nat
      /\ pendingEvent \in Event /\ journal \in Seq(Event) /\ snapshots \in Nat
      /\ recorder \in [op : Nat, tree : Nat, commit : Nat]
  BY DEF TypeOK
<1>n. acc.raw \in Nat /\ audit.raw \in Nat /\ recorder.op \in Nat
  BY <1>t DEF AuditState, AuditWindow
<1>c. IsFiniteSet(Reported) /\ Cardinality(Reported) \in Nat
      /\ Cardinality(Reported) + audit.raw + acc.raw = observed
  BY FS_CardinalityType DEF AuditInv, AuditConserved
\* The journal tells of as much as before, and the counts held are moved at most.
<1>m. ASSUME IsFiniteSet(Reported'), Cardinality(Reported') = Cardinality(Reported),
             observed' = observed,
             \/ audit'.raw = audit.raw /\ acc'.raw = acc.raw
             \/ audit'.raw = audit.raw + acc.raw /\ acc'.raw = 0
      PROVE  AuditInv'
  BY <1>n, <1>c, <1>m DEF AuditInv, AuditConserved
<1>j. ASSUME journal' = journal
      PROVE  IsFiniteSet(Reported') /\ Cardinality(Reported') = Cardinality(Reported)
  <2>1. Reported' = Reported
    BY <1>j DEF Reported
  <2> QED
    BY <1>c, <2>1
<1>a. ASSUME NEW e \in Event, Accept(e), e.kind # "touched_paths"
      PROVE  IsFiniteSet(Reported') /\ Cardinality(Reported') = Cardinality(Reported)
  BY <1>a, <1>c, AcceptReports
<1>d. EmptyAcc.raw = 0
  BY DEF EmptyAcc
<1>e. ASSUME NEW w \in AuditWindow, w.raw = audit.raw, AfterSnapshot(w)
      PROVE  \/ audit'.raw = audit.raw /\ acc'.raw = acc.raw
             \/ audit'.raw = audit.raw + acc.raw /\ acc'.raw = 0
  BY <1>d, <1>e, DrainMoves DEF AfterSnapshot
<1>1. CASE StartWatcher \/ LoseNotices \/ (\E p \in Paths : Write(p)) \/ ReceivePause
           \/ TestPending \/ RefuseStalePending \/ ScanTree \/ CommitCapture
           \/ TearCapture \/ FlushSession \/ CallFails \/ UNCHANGED vars
  <2>1. UNCHANGED <<journal, audit, acc, observed>>
    BY <1>1 DEF StartWatcher, LoseNotices, Write, ReceivePause, TestPending, RefuseStalePending,
                ScanTree, CommitCapture, TearCapture, FlushSession, CallFails, sinkVars, vars
  <2> QED
    BY <1>j, <1>m, <2>1
<1>2. ASSUME NEW x \in notices, Deliver(x) PROVE AuditInv'
  <2>1. UNCHANGED <<journal, audit>>
    BY <1>2 DEF Deliver, sinkVars
  <2>2. CASE x = Rescan
    <3>1. acc'.raw = acc.raw /\ observed' = observed
      BY <1>2, <1>t, <2>2 DEF Deliver, ReportOverflow, AuditState
    <3> QED
      BY <1>j, <1>m, <2>1, <3>1
  <2>3. CASE x # Rescan
    <3>1. acc'.raw = acc.raw + 1 /\ observed' = observed + 1
      BY <1>2, <1>t, <2>3 DEF Deliver, Observe, AuditState
    <3> QED
      BY <1>n, <1>c, <1>j, <2>1, <3>1 DEF AuditInv, AuditConserved
  <2> QED
    BY <2>2, <2>3
<1>3. ASSUME NEW kind \in CommandKinds, Receive(kind) PROVE AuditInv'
  <2>1. journal' = journal /\ observed' = observed
    BY <1>3 DEF Receive, sinkVars
  <2>2. \/ audit'.raw = audit.raw /\ acc'.raw = acc.raw
        \/ audit'.raw = audit.raw + acc.raw /\ acc'.raw = 0
    BY <1>3, <1>d, DrainMoves DEF Receive
  <2> QED
    BY <1>j, <1>m, <2>1, <2>2
<1>4. CASE BeginSnapshot
  <2>1. journal' = journal /\ observed' = observed
    BY <1>4 DEF BeginSnapshot, sinkVars
  <2>2. audit'.raw = audit.raw + acc.raw /\ acc'.raw = 0
    BY <1>4, <1>d, DrainMoves DEF BeginSnapshot
  <2> QED
    BY <1>j, <1>m, <2>1, <2>2
<1>5. CASE RetryPending
  <2> DEFINE w == RetriedWindow(audit)
  <2>1. w \in AuditWindow /\ w.raw = audit.raw
    BY <1>t, WindowTypes DEF RetriedWindow, AuditWindow
  <2>2. Accept(pendingEvent) /\ AfterSnapshot(w) /\ observed' = observed /\ pendingEvent # NoEvent
    BY <1>5 DEF RetryPending
  <2>3. pendingEvent.kind = "snapshot"
    BY <2>2 DEF EventInv
  <2> HIDE DEF w
  <2> QED
    BY <1>a, <1>e, <1>m, <1>t, <2>1, <2>2, <2>3
<1>6. CASE EmitSnapshot
  <2> DEFINE w == PublishedWindow(audit)
  <2>1. w \in AuditWindow /\ w.raw = audit.raw
    BY <1>t, WindowTypes DEF PublishedWindow, AuditWindow
  <2>2. Accept(pendingEvent) /\ AfterSnapshot(w) /\ observed' = observed /\ pc = "emit"
    BY <1>6 DEF EmitSnapshot
  <2>3. pendingEvent.kind = "snapshot"
    BY <2>2 DEF EventInv
  <2> HIDE DEF w
  <2> QED
    BY <1>a, <1>e, <1>m, <1>t, <2>1, <2>2, <2>3
<1>7. CASE EmitMark \/ EmitSessionEnd \/ EmitFlush
  <2>1. UNCHANGED <<audit, acc, observed>>
    BY <1>7 DEF EmitMark, EmitSessionEnd, EmitFlush
  <2>2. PICK e \in Event : Accept(e) /\ e.kind # "touched_paths"
    <3>1. CASE EmitMark
      <4>1. "mark" \in Kinds /\ [BareEvent("mark", seq) EXCEPT !.op = recorder.op].kind = "mark"
        BY DEF Kinds, BareEvent
      <4> QED
        BY <1>t, <1>n, <3>1, <4>1, EventTypes DEF EmitMark
    <3>2. CASE EmitFlush
      <4>1. "flush" \in Kinds /\ [BareEvent("flush", seq) EXCEPT !.op = recorder.op].kind = "flush"
        BY DEF Kinds, BareEvent
      <4> QED
        BY <1>t, <1>n, <3>2, <4>1, EventTypes DEF EmitFlush
    <3>3. CASE EmitSessionEnd
      <4>1. "session_end" \in Kinds
            /\ [BareEvent("session_end", seq) EXCEPT
                  !.op = recorder.op, !.count = snapshots].kind = "session_end"
        BY DEF Kinds, BareEvent
      <4> QED
        BY <1>t, <1>n, <3>3, <4>1, EventTypes DEF EmitSessionEnd
    <3> QED
      BY <1>7, <3>1, <3>2, <3>3
  <2> QED
    BY <1>a, <1>m, <2>1, <2>2
<1>8. CASE EmitOverflow
  <2>1. acc' = acc /\ observed' = observed /\ audit'.raw = audit.raw
    BY <1>8, <1>t DEF EmitOverflow, AuditWindow
  <2>2. PICK m \in Nat : Accept([BareEvent("overflow", seq) EXCEPT !.count = m])
    BY <1>8 DEF EmitOverflow
  <2> DEFINE e == [BareEvent("overflow", seq) EXCEPT !.count = m]
  <2>3. e \in Event
    BY <1>t, EventTypes DEF Kinds
  <2>4. e.kind = "overflow"
    BY DEF BareEvent
  <2> HIDE DEF e
  <2> QED
    BY <1>a, <1>m, <2>1, <2>2, <2>3, <2>4 DEF e
<1>9. CASE EmitAudit
  <2>1. acc' = acc /\ observed' = observed /\ audit'.raw = 0
    BY <1>9, <1>t DEF EmitAudit, AuditWindow
  <2> DEFINE e == [BareEvent("touched_paths", seq) EXCEPT !.count = audit.raw]
  <2>2. Accept(e)
    BY <1>9 DEF EmitAudit
  <2>3. e \in Event
    BY <1>t, <1>n, EventTypes DEF Kinds
  <2>4. e.kind = "touched_paths" /\ e.count = audit.raw
    BY DEF BareEvent
  <2> HIDE DEF e
  <2>5. IsFiniteSet(Reported') /\ Cardinality(Reported') = Cardinality(Reported) + audit.raw
    BY <2>2, <2>3, <2>4, AcceptReports
  <2> QED
    BY <1>n, <1>c, <2>1, <2>5 DEF AuditInv, AuditConserved
<1>10. CASE WatchStep
  BY <1>1, <1>2, <1>10 DEF WatchStep
<1>11. CASE TaskStep
  BY <1>1, <1>4, <1>5, <1>6, <1>7, <1>8, <1>9, <1>11 DEF TaskStep
<1> QED
  BY <1>1, <1>3, <1>10, <1>11 DEF Next

\* The journal and the two places that hold notifications account for every one
\* of them exactly once, whatever is refused between the drain and the event.
THEOREM AuditContextKept == Spec => []AuditConserved
<1>1. Inv /\ AuditInv /\ [Next]_vars => AuditInv'
  BY AuditStep DEF Inv
<1>2. AuditInv => AuditConserved
  BY DEF AuditInv
<1> QED
  BY <1>1, <1>2, AuditInit, Invariance, PTL DEF Spec

=============================================================================
