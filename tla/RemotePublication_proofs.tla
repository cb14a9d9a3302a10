------------------------ MODULE RemotePublication_proofs ------------------------
(***************************************************************************)
(* Proofs about RemotePublication, for every batch limit, every number of  *)
(* retries, every cursor file found at the start and every bound.          *)
(*                                                                         *)
(* The invariants (defined at the end of RemotePublication) follow a       *)
(* commit on its way out: RefInv to the Git ref, FlushInv from there into  *)
(* a batch, StoreInv through the network, which may keep a batch of a      *)
(* flush that has failed, to the endpoint, and ClientInv back with its     *)
(* answer.  Only ClientInv depends on the cursor file.                     *)
(***************************************************************************)
EXTENDS RemotePublication, NaturalSets, TLAPS

-----------------------------------------------------------------------------
(* Batches *)

\* take_batch() finds a batch of events not yet sent unless the next is too large.
LEMMA BatchOfUnsent ==
  ASSUME TypeOK, offset < Len(journal), ~Oversized
  PROVE  BatchEnd \in Unsent
<1> DEFINE S == {n \in Unsent : Fits(n)}
<1>1. Len(journal) \in Nat /\ offset \in Nat
  BY DEF TypeOK
<1>2. offset + 1 \in S
  BY <1>1 DEF Unsent, Oversized
<1>3. S \in SUBSET (0..Len(journal))
  BY <1>1 DEF Unsent
<1>4. Max(S) \in S
  <2> HIDE DEF S
  <2> QED
    BY <1>1, <1>2, <1>3, GreatestExists
<1> QED
  BY <1>4 DEF BatchEnd

\* A batch keeps its end while neither the journal nor the offset moves.
LEMMA BatchKept ==
  UNCHANGED <<journal, offset>> =>
    /\ BatchEnd' = BatchEnd /\ Unsent' = Unsent
<1> SUFFICES ASSUME UNCHANGED <<journal, offset>>
             PROVE  BatchEnd' = BatchEnd /\ Unsent' = Unsent
  OBVIOUS
<1>1. Unsent' = Unsent
  BY DEF Unsent
<1>2. \A n : Fits(n)' <=> Fits(n)
  BY DEF Fits
<1> QED
  BY <1>1, <1>2 DEF BatchEnd

-----------------------------------------------------------------------------
(* Types *)

Entry == [commit : Nat, size : {1} \union Sizes]

LEMMA TypeInit == Init => TypeOK
<1> SUFFICES ASSUME Init PROVE TypeOK
  OBVIOUS
<1>1. journal \in Seq(Entry)
  BY DEF Init, Entry
<1>2. attempt \in 0..(MaxRetries + 1) /\ offset \in 0..Len(journal)
  BY <1>1, BatchAssumption DEF Init
<1> QED
  BY <1>1, <1>2, CursorsAssumption DEF Init, TypeOK, Entry, NoAnswer

\* What Fault and EndFlush() assign.
LEMMA FaultType == spent \in [snapshots : Nat, flushes : Nat, faults : Nat] /\ Fault =>
                     spent' \in [snapshots : Nat, flushes : Nat, faults : Nat]
BY DEF Fault

\* One more event is accepted.
LEMMA JournalGrows ==
  ASSUME TypeOK, NEW e \in Entry, journal' = Append(journal, e)
  PROVE  /\ journal' \in Seq(Entry) /\ Len(journal) \in Nat /\ Len(journal') = Len(journal) + 1
         /\ journal'[Len(journal')] = e
         /\ \A i \in 1..Len(journal) : journal'[i] = journal[i]
BY DEF TypeOK, Entry

LEMMA BatchType ==
  ASSUME TypeOK, BatchEnd \in Unsent
  PROVE  /\ \A a \in Nat : [Batch EXCEPT !.attempt = a]
                             \in [from : Nat, to : Nat, durable : Nat, attempt : Nat]
         /\ Batch \in [from : Nat, to : Nat, durable : Nat, attempt : Nat]
         /\ Batch.to = BatchEnd
         /\ Batch.durable = 0 \/ (Batch.durable = Len(journal) /\ BatchEnd = Len(journal))
         /\ BatchEnd \in 1..Len(journal) /\ BatchEnd > offset /\ Len(journal) \in Nat
<1>1. Len(journal) \in Nat /\ offset \in Nat /\ attempt \in Nat
  BY BatchAssumption DEF TypeOK
<1>2. BatchEnd \in 1..Len(journal) /\ BatchEnd > offset
  BY <1>1 DEF Unsent
<1> QED
  BY <1>1, <1>2 DEF Batch, IsFinal

\* The answer to the attempt the client awaits, from what the endpoint holds.
LEMMA ReplyStep ==
  ASSUME TypeOK, NEW batch, NEW kind \in {"ack", "busy"},
         NEW holds \in [accepted : Nat, durable : Nat], Reply(batch, kind, holds)
  PROVE  /\ answer' \in [kind : {"none", "ack", "busy"}, accepted : Nat, durable : Nat]
         /\ \/ answer' = answer
            \/ answer'.accepted = holds.accepted /\ answer'.durable = holds.durable
BY DEF Reply, TypeOK

\* Types are kept; of the flush only the count of attempts and the batch matter.
LEMMA TypeStep == TypeOK /\ FlushInv /\ [Next]_vars => TypeOK'
<1> SUFFICES ASSUME TypeOK, FlushInv, [Next]_vars PROVE TypeOK'
  OBVIOUS
<1>0. /\ Len(journal) \in Nat /\ MaxRetries \in Nat /\ attempt \in Nat /\ offset \in Nat
      /\ 0 \in 0..(MaxRetries + 1)
  BY BatchAssumption DEF TypeOK
<1>s. spent \in [snapshots : Nat, flushes : Nat, faults : Nat]
  BY DEF TypeOK
<1>1. ASSUME NEW size \in Sizes, Snapshot(size) PROVE TypeOK'
  <2>1. [commit |-> commits + 1, size |-> size] \in Entry /\ commits' \in Nat
    BY <1>1 DEF Snapshot, TypeOK, Entry
  <2>2. journal' \in Seq(Entry) /\ Len(journal') = Len(journal) + 1
    BY <1>1, <2>1, JournalGrows DEF Snapshot
  <2>3. spent' \in [snapshots : Nat, flushes : Nat, faults : Nat]
    BY <1>s, <1>1 DEF Snapshot
  <2>4. offset \in 0..Len(journal')
    BY <1>0, <2>2 DEF TypeOK
  <2> QED
    BY <1>1, <2>1, <2>2, <2>3, <2>4 DEF Snapshot, TypeOK, Entry, progress, remoteVars
<1>2. CASE StartFlush
  <2>1. [commit |-> 0, size |-> 1] \in Entry
    BY DEF Entry
  <2>2. journal' \in Seq(Entry) /\ Len(journal') = Len(journal) + 1
    BY <1>2, <2>1, JournalGrows DEF StartFlush
  <2>3. spent' \in [snapshots : Nat, flushes : Nat, faults : Nat]
    BY <1>s, <1>2 DEF StartFlush
  <2>4. offset \in 0..Len(journal')
    BY <1>0, <2>2 DEF TypeOK
  <2> QED
    BY <1>2, <2>2, <2>3, <2>4 DEF StartFlush, TypeOK, Entry, progress, remoteVars
<1>3. CASE ReadTip \/ PushRejected \/ RefuseBatch
  BY <1>3 DEF ReadTip, PushRejected, RefuseBatch, EndFlush, TypeOK, progress, remoteVars
<1>4. CASE Push \/ PushUnanswered
  <2>1. ref' \in [owner : {"none", "us", "other"}, commit : Nat]
    BY <1>4 DEF Push, PushUnanswered, TypeOK
  <2>2. spent' \in [snapshots : Nat, flushes : Nat, faults : Nat]
    BY <1>4, FaultType DEF Push, PushUnanswered, TypeOK
  <2> QED
    BY <1>4, <2>1, <2>2 DEF Push, PushUnanswered, EndFlush, TypeOK, progress, remoteVars
<1>5. CASE RememberPush
  <2>1. spent' \in [snapshots : Nat, flushes : Nat, faults : Nat]
    BY <1>5, FaultType DEF RememberPush, TypeOK
  <2>2. offset' \in 0..Len(journal) /\ attempt' \in 0..(MaxRetries + 1)
    BY <1>0, <1>5 DEF RememberPush, BeginPublish, TypeOK
  <2>3. pc' \in {"idle", "post"} /\ result' \in {"ok", "failed", result}
    BY <1>5 DEF RememberPush, BeginPublish, EndFlush
  <2> QED
    BY <1>5, <2>1, <2>2, <2>3 DEF RememberPush, TypeOK, remoteVars
<1>6. CASE Post
  <2>1. BatchEnd \in Unsent
    BY <1>6, BatchOfUnsent DEF Post, FlushInv
  <2>2. net' \subseteq [from : Nat, to : Nat, durable : Nat, attempt : Nat]
    BY <1>6, <2>1, BatchType DEF Post, TypeOK
  <2>3. attempt' \in 0..(MaxRetries + 1)
    BY <1>0, <1>6 DEF Post, FlushInv
  <2> QED
    BY <1>6, <2>2, <2>3 DEF Post, TypeOK, NoAnswer
<1>7. CASE Acknowledged
  <2>1. spent' \in [snapshots : Nat, flushes : Nat, faults : Nat]
    BY <1>7, FaultType DEF Acknowledged, TypeOK
  <2>2. BatchEnd \in 0..Len(journal)
    BY <1>0, <1>7 DEF Acknowledged, FlushInv, Unsent
  <2>3. pc' \in {"idle", "post"} /\ result' \in {"ok", "failed", result}
    BY <1>7 DEF Acknowledged, EndFlush
  <2> QED
    BY <1>0, <1>7, <2>1, <2>2, <2>3 DEF Acknowledged, TypeOK, remoteVars
<1>8. CASE Retry \/ StepFails
  <2>1. spent' \in [snapshots : Nat, flushes : Nat, faults : Nat]
    BY <1>8, FaultType DEF Retry, StepFails, TypeOK
  <2>2. pc' \in {"idle", "post"} /\ result' \in {"transient", "failed", result}
    BY <1>8 DEF Retry, StepFails, EndFlush
  <2> QED
    BY <1>8, <2>1, <2>2 DEF Retry, StepFails, TypeOK, progress, remoteVars
<1>9. CASE ForeignPush
  BY <1>9 DEF ForeignPush, TypeOK, progress
<1>10. ASSUME NEW batch \in net, Accept(batch) PROVE TypeOK'
  <2>1. batch \in [from : Nat, to : Nat, durable : Nat, attempt : Nat]
    BY DEF TypeOK
  <2>2. server' \in [accepted : Nat, durable : Nat]
    <3>1. server.accepted \in Nat /\ server.durable \in Nat
      BY DEF TypeOK
    <3> QED
      BY <1>10, <2>1, <3>1, MaxOfTwo DEF Accept
  <2>3. answer' \in [kind : {"none", "ack", "busy"}, accepted : Nat, durable : Nat]
    BY <1>10, <2>2, ReplyStep DEF Accept
  <2> QED
    BY <1>10, <2>2, <2>3 DEF Accept, TypeOK, progress
<1>11. ASSUME NEW batch \in net, Busy(batch) PROVE TypeOK'
  <2>1. answer' \in [kind : {"none", "ack", "busy"}, accepted : Nat, durable : Nat]
    BY <1>11, ReplyStep DEF Busy, TypeOK
  <2>2. spent' \in [snapshots : Nat, flushes : Nat, faults : Nat]
    BY <1>11, FaultType DEF Busy, TypeOK
  <2> QED
    BY <1>11, <2>1, <2>2 DEF Busy, TypeOK, progress
<1>12. CASE UNCHANGED vars
  BY <1>12 DEF vars, TypeOK, progress, remoteVars
<1> QED
  BY <1>1, <1>2, <1>3, <1>4, <1>5, <1>6, <1>7, <1>8, <1>9, <1>10, <1>11, <1>12
     DEF Next, SinkStep

-----------------------------------------------------------------------------
(* The flush and the ref *)

LEMMA FlushInit == Init => FlushInv
BY DEF Init, FlushInv

LEMMA RefInit == Init => RefInv
BY DEF Init, RefInv

\* The steps outside flush_session() that leave the journal alone.
Outside == ForeignPush \/ UNCHANGED vars \/ \E batch \in net : Accept(batch) \/ Busy(batch)

LEMMA OutsideFrame ==
  Outside => UNCHANGED <<journal, commits, pc, result, progress>>
BY DEF Outside, ForeignPush, vars, Accept, Busy

LEMMA FlushStep == TypeOK /\ FlushInv /\ [Next]_vars => FlushInv'
<1> SUFFICES ASSUME TypeOK, FlushInv, [Next]_vars PROVE FlushInv'
  OBVIOUS
<1>1. ASSUME NEW size \in Sizes, Snapshot(size) PROVE FlushInv'
  <2>1. [commit |-> commits + 1, size |-> size] \in Entry
    BY DEF TypeOK, Entry
  <2>2. Len(journal') = Len(journal) + 1 /\ Len(journal) \in Nat
    BY <1>1, <2>1, JournalGrows DEF Snapshot
  <2>3. journal' # <<>> /\ pc' = "idle"
    BY <1>1, <2>2 DEF Snapshot
  <2> QED
    BY <2>3 DEF FlushInv
<1>2. CASE StartFlush
  <2>1. [commit |-> 0, size |-> 1] \in Entry
    BY DEF Entry
  <2>2. Len(journal') = Len(journal) + 1 /\ Len(journal) \in Nat /\ journal'[Len(journal')].commit = 0
    BY <1>2, <2>1, JournalGrows DEF StartFlush
  <2>3. journal' # <<>> /\ pc' = "tip"
    BY <1>2, <2>2 DEF StartFlush
  <2> QED
    BY <2>2, <2>3 DEF FlushInv
<1>3. CASE ReadTip
  BY <1>3 DEF ReadTip, EndFlush, FlushInv, remoteVars
<1>4. CASE Push \/ PushUnanswered \/ PushRejected
  BY <1>4 DEF Push, PushUnanswered, PushRejected, EndFlush, FlushInv
<1>5. CASE RememberPush
  BY <1>5, BatchAssumption DEF RememberPush, BeginPublish, EndFlush, FlushInv, remoteVars
<1>6. CASE Post
  <2>1. BatchEnd \in Unsent
    BY <1>6, BatchOfUnsent DEF Post, FlushInv
  <2>2. BatchEnd' \in Unsent'
    BY <1>6, <2>1, BatchKept DEF Post
  <2> QED
    BY <1>6, <2>2 DEF Post, FlushInv
<1>7. CASE RefuseBatch \/ StepFails
  BY <1>7 DEF RefuseBatch, StepFails, EndFlush, FlushInv
<1>8. CASE Acknowledged
  <2>1. pc' = "post" => BatchEnd # Len(journal)
    BY <1>8 DEF Acknowledged, EndFlush, IsFinal
  <2>2. BatchEnd <= Len(journal)
    BY <1>8 DEF Acknowledged, FlushInv, Unsent, TypeOK
  <2>3. pc' = "post" => offset' < Len(journal)
    BY <1>8, <2>1, <2>2 DEF Acknowledged, FlushInv, Unsent, TypeOK
  <2>4. pc' \in {"idle", "post"} /\ attempt' <= MaxRetries
    BY <1>8, BatchAssumption DEF Acknowledged, EndFlush
  <2> QED
    BY <1>8, <2>3, <2>4 DEF Acknowledged, FlushInv, remoteVars
<1>9. CASE Retry
  <2>1. pc' \in {"idle", "post"} /\ (pc' = "post" => attempt <= MaxRetries)
    BY <1>9, BatchAssumption DEF Retry, EndFlush, TypeOK
  <2> QED
    BY <1>9, <2>1 DEF Retry, FlushInv, progress, remoteVars
<1>10. CASE Outside
  <2>1. UNCHANGED <<journal, commits, pc, offset, attempt>>
    BY <1>10, OutsideFrame DEF progress
  <2>2. pc \in {"pushed", "post", "await"} => UNCHANGED ref
    BY <1>10 DEF Outside, ForeignPush, vars, remoteVars, Accept, Busy, FlushInv
  <2>3. BatchEnd' = BatchEnd /\ Unsent' = Unsent
    BY <2>1, BatchKept
  <2> QED
    BY <2>1, <2>2, <2>3 DEF FlushInv
<1> QED
  BY <1>1, <1>2, <1>3, <1>4, <1>5, <1>6, <1>7, <1>8, <1>9, <1>10
     DEF Next, SinkStep, Outside

\* The ref stays or moves to the newest commit, and never from another writer's.
LEMMA RefMoves ==
  ASSUME TypeOK, RefInv, [Next]_vars
  PROVE  \/ UNCHANGED ref
         \/ ref.owner # "other" /\ ref' = [owner |-> "us", commit |-> commits] /\ UNCHANGED commits
         \/ ref.owner = "none" /\ ref' = [owner |-> "other", commit |-> 0] /\ UNCHANGED commits
BY DEF Next, SinkStep, Snapshot, StartFlush, ReadTip, Push, PushUnanswered, PushRejected,
       RememberPush, Post, RefuseBatch, Acknowledged, Retry, StepFails, ForeignPush, Accept,
       Busy, vars, remoteVars

\* The journal stays or grows by an event that names no commit but a new one.
LEMMA JournalMoves ==
  ASSUME TypeOK, [Next]_vars
  PROVE  \/ UNCHANGED <<journal, commits>>
         \/ /\ pc = "idle" /\ UNCHANGED <<remoteVars, delivered>>
            /\ commits' \in {commits, commits + 1}
            /\ Len(journal) \in Nat /\ Len(journal') = Len(journal) + 1
            /\ journal'[Len(journal')].commit \in {0, commits'}
            /\ \A i \in 1..Len(journal) : journal'[i] = journal[i]
<1>1. ASSUME NEW size \in Sizes, Snapshot(size)
      PROVE  /\ pc = "idle" /\ UNCHANGED <<remoteVars, delivered>>
             /\ commits' \in {commits, commits + 1}
             /\ Len(journal) \in Nat /\ Len(journal') = Len(journal) + 1
             /\ journal'[Len(journal')].commit \in {0, commits'}
             /\ \A i \in 1..Len(journal) : journal'[i] = journal[i]
  <2>1. [commit |-> commits + 1, size |-> size] \in Entry
    BY DEF TypeOK, Entry
  <2> QED
    BY <1>1, <2>1, JournalGrows DEF Snapshot, progress
<1>2. CASE StartFlush
  <2>1. [commit |-> 0, size |-> 1] \in Entry
    BY DEF Entry
  <2> QED
    BY <1>2, <2>1, JournalGrows DEF StartFlush, progress
<1>3. CASE SinkStep
  BY <1>3 DEF SinkStep, ReadTip, Push, PushUnanswered, PushRejected,
              RememberPush, Post, RefuseBatch, Acknowledged, Retry, StepFails
<1>4. CASE Outside
  BY <1>4, OutsideFrame
<1> QED
  BY <1>1, <1>2, <1>3, <1>4 DEF Next, Outside

LEMMA RefStep == TypeOK /\ RefInv /\ [Next]_vars => RefInv'
<1> SUFFICES ASSUME TypeOK, RefInv, [Next]_vars PROVE RefInv'
  OBVIOUS
<1>1. CASE UNCHANGED <<journal, commits>>
  <2>1. commits \in Nat
    BY DEF TypeOK
  <2> QED
    BY <1>1, <2>1, RefMoves DEF RefInv
<1>2. CASE ~UNCHANGED <<journal, commits>>
  <2>1. /\ UNCHANGED ref /\ commits \in Nat /\ commits' \in {commits, commits + 1}
        /\ Len(journal) \in Nat /\ Len(journal') = Len(journal) + 1
        /\ journal'[Len(journal')].commit \in {0, commits'}
        /\ \A i \in 1..Len(journal) : journal'[i] = journal[i]
    BY <1>2, JournalMoves DEF TypeOK, remoteVars
  <2>2. \A i \in 1..Len(journal) : journal[i].commit \in Nat /\ journal[i].commit <= commits
    <3>1. journal \in Seq(Entry)
      BY DEF TypeOK, Entry
    <3>2. \A i \in 1..Len(journal) : journal[i] \in Entry
      BY <3>1
    <3> QED
      BY <3>2 DEF RefInv, Entry
  <2>3. ref.commit \in Nat /\ ref.commit <= commits /\ (ref.owner # "us" => ref.commit = 0)
    BY DEF TypeOK, RefInv
  <2>4. ASSUME NEW i \in 1..Len(journal') PROVE journal'[i].commit <= commits'
    <3>1. CASE i \in 1..Len(journal)
      BY <2>1, <2>2, <3>1
    <3>2. CASE i = Len(journal')
      BY <2>1, <3>2
    <3> QED
      BY <2>1, <3>1, <3>2
  <2> QED
    BY <2>1, <2>3, <2>4 DEF RefInv
<1> QED
  BY <1>1, <1>2

-----------------------------------------------------------------------------
(* The endpoint *)

LEMMA StoreInit == Init => StoreInv
BY DEF Init, StoreInv, Tellable, Flushed

\* What can be told stays so: the journal and the ref only grow.
LEMMA TellableKept ==
  ASSUME TypeOK, RefInv, [Next]_vars, NEW n \in Nat
  PROVE  /\ Tellable(n) => Tellable(n)'
         /\ Flushed(n) => Flushed(n)'
<1>1. Len(journal) \in Nat /\ \A i \in 1..Len(journal) : journal[i].commit \in Nat
  <2>1. journal \in Seq(Entry)
    BY DEF TypeOK, Entry
  <2>2. \A i \in 1..Len(journal) : journal[i] \in Entry
    BY <2>1
  <2> QED
    BY <2>1, <2>2 DEF Entry
<1>2. ref'.commit >= ref.commit /\ ref.commit \in Nat /\ ref'.commit \in Nat
  <2>1. ref.commit \in Nat /\ commits \in Nat /\ ref.commit <= commits
        /\ (ref.owner # "us" => ref.commit = 0)
    BY DEF TypeOK, RefInv
  <2> QED
    BY <2>1, RefMoves
<1>3. Len(journal) <= Len(journal') /\ Len(journal') \in Nat
      /\ \A i \in 1..Len(journal) : journal'[i] = journal[i]
  BY <1>1, JournalMoves
<1>4. ASSUME Tellable(n) PROVE Tellable(n)'
  <2>1. n <= Len(journal) /\ \A i \in 1..n : journal[i].commit <= ref.commit
    BY <1>4 DEF Tellable
  <2>2. \A i \in 1..n : i \in 1..Len(journal)
    BY <1>1, <2>1
  <2>3. \A i \in 1..n : journal'[i].commit <= ref'.commit
    BY <1>1, <1>2, <1>3, <2>1, <2>2
  <2>4. n <= Len(journal')
    BY <1>1, <1>3, <2>1
  <2> QED
    BY <2>3, <2>4 DEF Tellable
<1>5. ASSUME Flushed(n) PROVE Flushed(n)'
  BY <1>1, <1>3, <1>5 DEF Flushed
<1> QED
  BY <1>4, <1>5

\* Steps that post no batch and do not reach the endpoint keep what both hold.
LEMMA StoreFrame ==
  ASSUME TypeOK, RefInv, StoreInv, [Next]_vars, net' \subseteq net, UNCHANGED server
  PROVE  StoreInv'
<1>1. ASSUME NEW batch \in net'
      PROVE  Tellable(batch.to)' /\ Flushed(batch.durable)' /\ batch.durable <= batch.to
  <2>1. batch \in net /\ batch.to \in Nat /\ batch.durable \in Nat
    BY DEF TypeOK
  <2>2. Tellable(batch.to) /\ Flushed(batch.durable) /\ batch.durable <= batch.to
    BY <2>1 DEF StoreInv
  <2> QED
    BY <2>1, <2>2, TellableKept
<1>2. Tellable(server.accepted)' /\ Flushed(server.durable)'
      /\ server'.durable <= server'.accepted
  <2>1. PICK a \in Nat, d \in Nat : a = server.accepted /\ d = server.durable
    BY DEF TypeOK
  <2>2. Tellable(a) /\ Flushed(d) /\ d <= a
    BY <2>1 DEF StoreInv
  <2>3. Tellable(a)' /\ Flushed(d)'
    BY <2>2, TellableKept
  <2> QED
    BY <2>1, <2>2, <2>3 DEF Tellable, Flushed
<1> QED
  BY <1>1, <1>2 DEF StoreInv

LEMMA StoreStep ==
  TypeOK /\ FlushInv /\ RefInv /\ StoreInv /\ [Next]_vars => StoreInv'
<1> SUFFICES ASSUME TypeOK, FlushInv, RefInv, StoreInv, [Next]_vars PROVE StoreInv'
  OBVIOUS
<1>1. CASE Post
  <2>1. BatchEnd \in Unsent
    BY <1>1, BatchOfUnsent DEF Post, FlushInv
  <2>2. /\ Batch.to = BatchEnd /\ BatchEnd \in 1..Len(journal) /\ Len(journal) \in Nat
        /\ Batch.durable = 0 \/ (Batch.durable = Len(journal) /\ BatchEnd = Len(journal))
    BY <2>1, BatchType
  <2>3. \A i \in 1..Len(journal) : journal[i].commit <= ref.commit
    BY <1>1 DEF Post, FlushInv, RefInv
  <2>4. Tellable(Batch.to) /\ Flushed(Batch.durable) /\ Batch.durable <= Batch.to
    BY <1>1, <2>2, <2>3 DEF Tellable, Flushed, Post, FlushInv
  <2>5. /\ net' = net \union {Batch}
        /\ UNCHANGED <<journal, ref, server>>
    BY <1>1 DEF Post
  <2> HIDE DEF Post
  <2> QED
    BY <2>4, <2>5 DEF StoreInv, Tellable, Flushed
<1>2. ASSUME NEW batch \in net, Accept(batch) PROVE StoreInv'
  <2>1. /\ server' = [accepted |-> Max({server.accepted, batch.to}),
                      durable  |-> Max({server.durable, batch.durable})]
        /\ net' \subseteq net /\ UNCHANGED <<journal, ref>>
    BY <1>2 DEF Accept
  <2>2. /\ {server.accepted, server.durable, batch.to, batch.durable} \subseteq Nat
    BY DEF TypeOK
  <2>3. /\ Tellable(batch.to) /\ Flushed(batch.durable) /\ batch.durable <= batch.to
        /\ Tellable(server.accepted) /\ Flushed(server.durable)
        /\ server.durable <= server.accepted
    BY DEF StoreInv
  <2>4. /\ server'.accepted \in {server.accepted, batch.to}
        /\ server.accepted <= server'.accepted /\ batch.to <= server'.accepted
    BY <2>1, <2>2, MaxOfTwo
  <2>5. server'.durable \in {server.durable, batch.durable}
    BY <2>1, <2>2, MaxOfTwo
  <2>6. Tellable(server'.accepted) /\ Flushed(server'.durable)
    BY <2>3, <2>4, <2>5
  <2>7. server'.durable <= server'.accepted
    BY <2>2, <2>3, <2>4, <2>5
  <2> HIDE DEF Accept
  <2> QED
    BY <2>1, <2>6, <2>7 DEF StoreInv, Tellable, Flushed
<1>3. CASE ~Post /\ \A batch \in net : ~Accept(batch)
  <2>1. net' \subseteq net /\ UNCHANGED server
    BY <1>3 DEF Next, SinkStep, Snapshot, StartFlush, ReadTip, Push, PushUnanswered,
                PushRejected, RememberPush, RefuseBatch, Acknowledged, Retry, StepFails,
                ForeignPush, Busy, vars, remoteVars
  <2> QED
    BY <2>1, StoreFrame
<1> QED
  BY <1>1, <1>2, <1>3

-----------------------------------------------------------------------------
(* The client *)

LEMMA ClientInit == Init /\ Cursors \subseteq {0} => ClientInv
<1> SUFFICES ASSUME Init, Cursors \subseteq {0} PROVE ClientInv
  OBVIOUS
<1>1. delivered = 0 /\ server.accepted = 0 /\ server.durable = 0 /\ pc = "idle"
      /\ answer.accepted = 0 /\ answer.durable = 0
  BY DEF Init, NoAnswer
<1> QED
  BY <1>1 DEF ClientInv

\* The endpoint's state only advances, and an answer tells it as it is.
LEMMA ServerAdvances ==
  ASSUME TypeOK, [Next]_vars
  PROVE  /\ server.accepted <= server'.accepted /\ server.durable <= server'.durable
         /\ \/ answer' = answer \/ answer' = NoAnswer
            \/ answer'.accepted = server'.accepted /\ answer'.durable = server'.durable
<1>1. {server.accepted, server.durable} \subseteq Nat
  BY DEF TypeOK
<1>2. ASSUME NEW batch \in net, Accept(batch)
      PROVE  /\ server.accepted <= server'.accepted /\ server.durable <= server'.durable
             /\ \/ answer' = answer
                \/ answer'.accepted = server'.accepted /\ answer'.durable = server'.durable
  <2>1. batch.to \in Nat /\ batch.durable \in Nat
    BY DEF TypeOK
  <2>2. server.accepted <= server'.accepted /\ server.durable <= server'.durable
    BY <1>1, <1>2, <2>1, MaxOfTwo DEF Accept
  <2> QED
    BY <1>2, <2>2 DEF Accept, Reply
<1>3. ASSUME NEW batch \in net, Busy(batch)
      PROVE  /\ UNCHANGED server
             /\ \/ answer' = answer
                \/ answer'.accepted = server'.accepted /\ answer'.durable = server'.durable
  BY <1>3 DEF Busy, Reply
<1>4. CASE \A batch \in net : ~Accept(batch) /\ ~Busy(batch)
  <2>1. UNCHANGED server /\ (answer' = answer \/ answer' = NoAnswer)
    BY <1>4 DEF Next, SinkStep, Snapshot, StartFlush, ReadTip, Push, PushUnanswered,
                PushRejected, RememberPush, Post, RefuseBatch, Acknowledged, Retry, StepFails,
                ForeignPush, vars, remoteVars
  <2> QED
    BY <1>1, <2>1
<1> QED
  BY <1>1, <1>2, <1>3, <1>4

LEMMA ClientStep ==
  TypeOK /\ StoreInv /\ ClientInv /\ TypeOK' /\ [Next]_vars => ClientInv'
<1> SUFFICES ASSUME TypeOK, StoreInv, ClientInv, TypeOK', [Next]_vars PROVE ClientInv'
  OBVIOUS
<1>1. /\ {server.accepted, server.durable, answer.accepted, answer.durable, delivered} \subseteq Nat
      /\ {server'.accepted, server'.durable} \subseteq Nat /\ Len(journal) \in Nat
  BY DEF TypeOK
<1>2. answer'.accepted <= server'.accepted /\ answer'.durable <= server'.durable
  BY <1>1, ServerAdvances DEF ClientInv, NoAnswer
<1>3. delivered' <= server'.accepted
  <2>1. delivered' = delivered \/ delivered' = answer.accepted
    BY DEF Next, SinkStep, Snapshot, StartFlush, ReadTip, Push, PushUnanswered, PushRejected,
           RememberPush, Post, RefuseBatch, Acknowledged, Retry, StepFails, ForeignPush,
           Accept, Busy, vars, progress
  <2> QED
    BY <1>1, <2>1, ServerAdvances DEF ClientInv
<1>4. pc' \in {"tip", "push", "pushed"} => delivered' < Len(journal')
  <2>1. CASE StartFlush
    <3>1. delivered <= Len(journal) /\ Len(journal') = Len(journal) + 1 /\ delivered' = delivered
      <4>1. Len(journal') = Len(journal) + 1 /\ delivered' = delivered
        BY <2>1, JournalMoves DEF StartFlush, progress
      <4> QED
        BY <1>1, <4>1 DEF StoreInv, ClientInv, Tellable
    <3> QED
      BY <1>1, <3>1
  <2>2. CASE ~StartFlush
    <3>1. pc' \in {"tip", "push", "pushed"} =>
            pc \in {"tip", "push", "pushed"} /\ UNCHANGED <<journal, delivered>>
      BY <2>2 DEF Next, SinkStep, Snapshot, ReadTip, Push, PushUnanswered, PushRejected,
             RememberPush, BeginPublish, Post, RefuseBatch, Acknowledged, Retry, StepFails,
             EndFlush, ForeignPush, Accept, Busy, vars, progress
    <3> QED
      BY <3>1 DEF ClientInv
  <2> QED
    BY <2>1, <2>2
<1> QED
  BY <1>2, <1>3, <1>4 DEF ClientInv

-----------------------------------------------------------------------------
(* Theorems *)

PublicationInv == TypeOK /\ FlushInv /\ RefInv /\ StoreInv

LEMMA PublicationInvariance == Spec => []PublicationInv
<1>1. Init => PublicationInv
  BY TypeInit, FlushInit, RefInit, StoreInit DEF PublicationInv
<1>2. PublicationInv /\ [Next]_vars => PublicationInv'
  BY TypeStep, FlushStep, RefStep, StoreStep DEF PublicationInv
<1> QED
  BY <1>1, <1>2, PTL DEF Spec

\* Every variable keeps its type: attempts stay within max_retries, and the
\* publishing loop never starts behind the end of the journal.
THEOREM PublicationTypes == Spec => []TypeOK
<1>1. PublicationInv => TypeOK
  BY DEF PublicationInv
<1> QED
  BY <1>1, PublicationInvariance, PTL

\* Git before HTTP: whatever flush an event came from, and however late the
\* network delivered it, the commit it names is on the remote ref.
THEOREM StoredCommitsNamed == Spec => []EventsNameStoredCommits
<1>1. PublicationInv => EventsNameStoredCommits
  <2> SUFFICES ASSUME PublicationInv PROVE EventsNameStoredCommits
    OBVIOUS
  <2>1. Tellable(server.accepted) /\ server.accepted \in Nat /\ Len(journal) \in Nat
    BY DEF PublicationInv, StoreInv, TypeOK
  <2> QED
    BY <2>1 DEF Tellable, EventsNameStoredCommits
<1> QED
  BY <1>1, PublicationInvariance, PTL

\* The endpoint's watermark lies within what it holds and ends at a flush event.
THEOREM WatermarkAtFlush == Spec => []WatermarkEndsAtFlush
<1>1. PublicationInv => WatermarkEndsAtFlush
  BY DEF PublicationInv, StoreInv, Flushed, WatermarkEndsAtFlush
<1> QED
  BY <1>1, PublicationInvariance, PTL

\* The recorder never takes over another writer's ref nor moves its own back.
THEOREM RefNeverBack == Spec => RefAdvancesOnly
<1>1. PublicationInv /\ [Next]_vars =>
        [/\ ref.owner = "other" => ref' = ref
         /\ ref.owner = "us" => ref'.owner = "us" /\ ref'.commit >= ref.commit]_vars
  <2> SUFFICES ASSUME PublicationInv, [Next]_vars
               PROVE  /\ ref.owner = "other" => ref' = ref
                      /\ ref.owner = "us" => ref'.owner = "us" /\ ref'.commit >= ref.commit
    OBVIOUS
  <2>1. ref.commit \in Nat /\ commits \in Nat /\ ref.commit <= commits
    BY DEF PublicationInv, TypeOK, RefInv
  <2>2. \/ UNCHANGED ref
        \/ ref.owner # "other" /\ ref' = [owner |-> "us", commit |-> commits]
        \/ ref.owner = "none" /\ ref' = [owner |-> "other", commit |-> 0]
    BY RefMoves DEF PublicationInv
  <2> QED
    BY <2>1, <2>2
<1> QED
  BY <1>1, PublicationInvariance, PTL DEF Spec, RefAdvancesOnly

\* The client's cursor is honest when no other session's cursor was found: then
\* publish_events() never reports durability without asking the endpoint.
THEOREM CursorHonest ==
  ASSUME Cursors \subseteq {0}
  PROVE  Spec => []CursorIsHonest
<1>1. Init => ClientInv
  BY ClientInit
<1>2. PublicationInv /\ ClientInv /\ PublicationInv' /\ [Next]_vars => ClientInv'
  BY ClientStep DEF PublicationInv
<1>3. ClientInv => CursorIsHonest
  BY DEF ClientInv, CursorIsHonest
<1> QED
  BY <1>1, <1>2, <1>3, PublicationInvariance, PTL DEF Spec

\* A flush that returns Ok has its whole journal durable at the endpoint and its
\* checkpoint on the ref, again when no other session's cursor was found.
THEOREM FlushIsDurable ==
  ASSUME Cursors \subseteq {0}
  PROVE  Spec => FlushMeansDurable
<1> DEFINE Returns == pc # "idle" /\ pc' = "idle" /\ result' = "ok" =>
                        server.durable >= Len(journal) /\ ref.commit = commits
<1>1. Init => ClientInv
  BY ClientInit
<1>2. PublicationInv /\ ClientInv /\ PublicationInv' /\ [Next]_vars => ClientInv'
  BY ClientStep DEF PublicationInv
<1>3. PublicationInv /\ ClientInv /\ [Next]_vars => [Returns]_vars
  <2> SUFFICES ASSUME PublicationInv, ClientInv, [Next]_vars,
                      pc # "idle", pc' = "idle", result' = "ok"
               PROVE  server.durable >= Len(journal) /\ ref.commit = commits
    OBVIOUS
  <2>1. RememberPush \/ Acknowledged
    BY DEF Next, SinkStep, Snapshot, StartFlush, ReadTip, Push, PushUnanswered, PushRejected,
           Post, RefuseBatch, Retry, StepFails, EndFlush, ForeignPush, Accept, Busy, vars
  <2>2. ~RememberPush
    <3>1. Len(journal) \in Nat /\ delivered \in Nat
      BY DEF PublicationInv, TypeOK
    <3>2. pc = "pushed" => delivered < Len(journal)
      BY DEF ClientInv
    <3> QED
      BY <3>1, <3>2 DEF RememberPush, BeginPublish, EndFlush
  <2>3. Acknowledged /\ pc = "await"
    BY <2>1, <2>2 DEF Acknowledged
  <2>4. IsFinal /\ AckProves
    BY <2>3 DEF Acknowledged, EndFlush
  <2>5. /\ answer.durable >= Len(journal) /\ answer.durable <= server.durable
        /\ {answer.durable, server.durable, Len(journal)} \subseteq Nat
    BY <2>4 DEF AckProves, ClientInv, PublicationInv, TypeOK
  <2>6. ref.commit = commits
    BY <2>3 DEF PublicationInv, FlushInv
  <2> QED
    BY <2>5, <2>6
<1> QED
  BY <1>1, <1>2, <1>3, PublicationInvariance, PTL DEF Spec, FlushMeansDurable

\* The endpoint's timeline has one entry for each event of the journal.
LEMMA LogIsSeq ==
  ASSUME TypeOK
  PROVE  LET Log == [i \in DOMAIN journal |-> journal[i].commit]
         IN  /\ Log \in Seq(Nat) /\ Len(Log) = Len(journal)
             /\ Len(journal) \in Nat /\ DOMAIN journal = 1..Len(journal)
<1> DEFINE n   == Len(journal)
           Log == [i \in 1..n |-> journal[i].commit]
<1>1. journal \in Seq(Entry)
  BY DEF TypeOK, Entry
<1>2. n \in Nat /\ DOMAIN journal = 1..n /\ \A i \in 1..n : journal[i] \in Entry
  BY <1>1
<1>3. Log \in [1..n -> Nat]
  BY <1>2 DEF Entry
<1> HIDE DEF n, Log
<1>4. Log \in Seq(Nat) /\ Len(Log) = n
  BY <1>2, <1>3
<1> QED
  BY <1>2, <1>4 DEF n, Log

LEMMA TimelineStep ==
  PublicationInv /\ PublicationInv' /\ [Next]_vars => [Timeline!Next]_(Timeline!vars)
<1> SUFFICES ASSUME PublicationInv, PublicationInv', [Next]_vars
             PROVE  [Timeline!Next]_(Timeline!vars)
  OBVIOUS
<1> DEFINE Log == [i \in DOMAIN journal |-> journal[i].commit]
<1>l. /\ Log \in Seq(Nat) /\ Len(Log) = Len(journal)
      /\ Len(journal) \in Nat /\ DOMAIN journal = 1..Len(journal)
  BY LogIsSeq DEF PublicationInv
<1>k. /\ Len(Log') = Len(journal') /\ DOMAIN journal' = 1..Len(journal')
  <2>1. TypeOK' => (Len(Log) = Len(journal) /\ DOMAIN journal = 1..Len(journal))'
    BY LogIsSeq, PTL
  <2> QED
    BY <2>1 DEF PublicationInv
<1>t. TypeOK /\ RefInv
  BY DEF PublicationInv
<1>1. CASE UNCHANGED <<journal, commits>>
  <2>1. Log' = Log
    BY <1>1
  <2>2. ref'.commit >= ref.commit
    <3>1. ref.commit \in Nat /\ commits \in Nat /\ ref.commit <= commits
          /\ (ref.owner # "us" => ref.commit = 0)
      BY DEF PublicationInv, TypeOK, RefInv
    <3> QED
      BY <1>t, <3>1, RefMoves
  <2>3. server'.durable \in server.durable..Len(journal)
    <3>1. {server.durable, server'.durable, server'.accepted} \subseteq Nat
      BY DEF PublicationInv, TypeOK
    <3>2. server'.durable <= server'.accepted /\ server'.accepted <= Len(journal')
      BY DEF PublicationInv, StoreInv, Tellable
    <3>3. server.durable <= server'.durable
      BY <1>t, ServerAdvances
    <3> QED
      BY <1>1, <1>l, <3>1, <3>2, <3>3
  <2>4. \A i \in 1..server'.durable : Log[i] <= ref'.commit
    <3>1. {server'.durable, server'.accepted} \subseteq Nat
          /\ server'.durable <= server'.accepted /\ server'.accepted <= Len(journal')
      BY DEF PublicationInv, StoreInv, Tellable, TypeOK
    <3>2. \A i \in 1..server'.accepted : journal'[i].commit <= ref'.commit
      BY DEF PublicationInv, StoreInv, Tellable
    <3>3. \A i \in 1..server'.durable : i \in 1..server'.accepted /\ i \in 1..Len(journal)
      BY <1>1, <1>l, <3>1
    <3> QED
      BY <1>1, <1>l, <3>2, <3>3
  <2> HIDE DEF Log
  <2>5. Timeline!Advance
    BY <1>l, <2>1, <2>2, <2>3, <2>4 DEF Timeline!Advance, Timeline!Covers, Log
  <2> QED
    BY <2>5 DEF Timeline!Next
<1>2. CASE ~UNCHANGED <<journal, commits>>
  <2>1. /\ UNCHANGED <<ref, server>> /\ Len(journal') = Len(journal) + 1
        /\ \A i \in 1..Len(journal) : journal'[i] = journal[i]
    BY <1>2, <1>t, JournalMoves DEF remoteVars
  <2>2. \A i \in 1..Len(journal) : Log'[i] = Log[i]
    BY <1>k, <1>l, <2>1
  <2> HIDE DEF Log
  <2>3. Timeline!Record
    BY <1>k, <1>l, <2>1, <2>2 DEF Timeline!Record, Log
  <2> QED
    BY <2>3 DEF Timeline!Next
<1> QED
  BY <1>1, <1>2

\* Publication keeps the abstract promise to readers, with the endpoint's own
\* watermark: it only advances, over events whose commits the ref stores.
THEOREM PublicationImplementsTimeline == Spec => ImplementsTimeline
<1>1. Init => Timeline!Init
  <2> SUFFICES ASSUME Init PROVE Timeline!Init
    OBVIOUS
  <2>1. ref.commit = 0 /\ server.durable = 0
    BY DEF Init
  <2> QED
    BY <2>1, TypeInit, LogIsSeq DEF Timeline!Init
<1> QED
  BY <1>1, TimelineStep, PublicationInvariance, PTL DEF Spec, ImplementsTimeline, Timeline!Spec

=============================================================================
