------------------------- MODULE DirectorySession_proofs -------------------------
(***************************************************************************)
(* Proofs about DirectorySession, for every number of operations, events   *)
(* and failed calls.                                                       *)
(*                                                                         *)
(* What the sink accepts (SpoolInv) and copies (EventsInv) needs no        *)
(* assumption.  That published operations survive (RepoInv, ManifestInv)   *)
(* assumes LinksSynced, that jj and Git sync the objects they write, and   *)
(* ~TornSync, that no flush fails between placing an object and syncing    *)
(* its directory: without the latter a retry takes the object for safe,    *)
(* which the run `resync` shows.                                           *)
(***************************************************************************)
EXTENDS DirectorySession, NaturalSets, TLAPS

Line == [seq : 0..MaxEvents, op : 0..MaxOps]
States == [last : 0..Len(spool), durable : 0..Len(spool), failed : BOOLEAN]

-----------------------------------------------------------------------------
(* Types and the spool *)

LEMMA TypeInit == Init => TypeOK
<1> SUFFICES ASSUME Init PROVE TypeOK
  OBVIOUS
<1>1. /\ spool \in Seq(Line) /\ Len(spool) = 0
      /\ {MaxOps, MaxEvents, MaxFaults} \subseteq Nat
  BY DirectoryBounds DEF Init
<1>2. events \in [DOMAIN events -> 1..Len(spool)] /\ DOMAIN events \subseteq 1..MaxEvents
  BY DEF Init
<1>3. /\ manifests \subseteq [last : Nat, durable : Nat] /\ manifest \in manifests
      /\ reader \in [pc : {"idle", "events", "repo", "failed"},
                    manifest : [last : Nat, durable : Nat]]
  BY DEF Init, NoManifest
<1>4. state \in [last : 0..Len(spool), durable : 0..Len(spool), failed : BOOLEAN]
      /\ promised \in 0..Len(spool) /\ op \in 0..MaxOps /\ faults \in 0..MaxFaults
  BY <1>1 DEF Init
<1>5. {store, dirty, safe, intact, lost} \subseteq SUBSET (1..MaxOps)
  BY DEF Init
<1>6. eventsSafe \subseteq DOMAIN events /\ pc = "idle" /\ flushing = FALSE
  BY DEF Init
<1> QED
  BY <1>1, <1>2, <1>3, <1>4, <1>5, <1>6 DEF TypeOK, Line

LEMMA SpoolInit == Init => SpoolInv
<1> SUFFICES ASSUME Init PROVE SpoolInv
  OBVIOUS
<1>1. Len(spool) = 0 /\ MaxEvents \in Nat
  BY DirectoryBounds DEF Init
<1> QED
  BY <1>1 DEF Init, SpoolInv

\* Sequences of lines, with one more at the end.
LEMMA LineAppended ==
  ASSUME TypeOK, NEW line \in Line
  PROVE  LET longer == Append(spool, line)
         IN  /\ longer \in Seq(Line) /\ Len(spool) \in Nat /\ Len(longer) = Len(spool) + 1
             /\ longer[Len(spool) + 1] = line
             /\ \A i \in 1..Len(spool) : longer[i] = spool[i]
<1>1. spool \in Seq(Line)
  BY DEF TypeOK, Line
<1> QED
  BY <1>1

\* emit() appends a numbered line; the sink fails if it cannot tell whether it did.
LEMMA AppendLineStep ==
  ASSUME TypeOK, SpoolInv, CanEmit,
         NEW new \in 0..MaxOps, NEW named \in 0..new, op <= new,
         AppendLine([seq |-> state.last, op |-> named])
  PROVE  /\ spool' \in Seq(Line) /\ Len(spool) \in Nat /\ Len(spool') \in Nat
         /\ Len(spool) <= Len(spool') /\ Len(spool') <= MaxEvents
         /\ \A i \in 1..Len(spool) : spool'[i] = spool[i]
         /\ \A i \in 1..Len(spool') : spool'[i].seq = i - 1 /\ spool'[i].op <= new
         /\ state' \in States' /\ state'.durable = state.durable
         /\ \/ /\ pc' = "observe" /\ ~state'.failed /\ faults' = faults
               /\ state'.last = state.last + 1 /\ Len(spool') = state'.last
            \/ /\ pc' = "idle" /\ state'.failed /\ faults' \in 0..MaxFaults
               /\ state'.last = state.last /\ Len(spool') <= state.last + 1
<1> DEFINE line   == [seq |-> state.last, op |-> named]
           longer == Append(spool, line)
<1>1. /\ Len(spool) \in Nat /\ state.last = Len(spool) /\ Len(spool) < MaxEvents
      /\ MaxEvents \in Nat /\ MaxOps \in Nat /\ MaxFaults \in Nat /\ op \in Nat /\ new \in Nat
      /\ ~state.failed /\ state.durable \in 0..Len(spool) /\ faults \in 0..MaxFaults
      /\ spool \in Seq(Line)
  BY DirectoryBounds DEF TypeOK, SpoolInv, CanEmit, Line
<1>2. line \in Line
  BY <1>1 DEF Line
<1>3. /\ longer \in Seq(Line) /\ Len(longer) = Len(spool) + 1
      /\ longer[Len(spool) + 1] = line
      /\ \A i \in 1..Len(spool) : longer[i] = spool[i]
  BY <1>2, LineAppended
<1>4. spool' \in {spool, longer} /\ Len(spool') \in Nat
  BY <1>1, <1>3 DEF AppendLine
<1>5. \A i \in 1..Len(spool) : spool[i].seq = i - 1 /\ spool[i].op <= op /\ spool[i].op \in Nat
  <2>1. \A i \in 1..Len(spool) : spool[i] \in Line
    BY <1>1
  <2> QED
    BY <2>1 DEF SpoolInv, Line
<1>6. ASSUME NEW i \in 1..Len(spool') PROVE spool'[i].seq = i - 1 /\ spool'[i].op <= new
  <2>1. CASE i \in 1..Len(spool)
    <3>1. spool'[i] = spool[i]
      BY <1>3, <1>4, <2>1
    <3> QED
      BY <1>1, <1>5, <2>1, <3>1
  <2>2. CASE i = Len(spool) + 1 /\ spool' = longer
    BY <1>1, <1>3, <2>2
  <2> HIDE DEF longer
  <2> QED
    BY <1>1, <1>3, <1>4, <2>1, <2>2
<1>7. /\ Len(spool) <= Len(spool') /\ Len(spool') <= MaxEvents
      /\ \A i \in 1..Len(spool) : spool'[i] = spool[i]
  BY <1>1, <1>3, <1>4
<1>8. CASE /\ spool' = longer /\ state' = [state EXCEPT !.last = line.seq + 1]
           /\ pc' = "observe" /\ UNCHANGED faults
  <2>1. /\ state'.last = Len(spool) + 1 /\ state'.durable = state.durable /\ ~state'.failed
        /\ state' = [last |-> Len(spool) + 1, durable |-> state.durable, failed |-> FALSE]
    BY <1>1, <1>8 DEF TypeOK
  <2>2. state' \in States'
    <3>1. Len(spool') = Len(spool) + 1
      BY <1>3, <1>8
    <3> HIDE DEF longer
    <3> QED
      BY <1>1, <2>1, <3>1 DEF States
  <2> HIDE DEF longer
  <2> QED
    BY <1>1, <1>3, <1>4, <1>6, <1>7, <1>8, <2>1, <2>2
<1>9. CASE /\ Fault /\ spool' \in {spool, longer}
           /\ state' = [state EXCEPT !.failed = TRUE] /\ pc' = "idle"
  <2>1. /\ state'.last = state.last /\ state'.durable = state.durable /\ state'.failed
        /\ state' = [last |-> Len(spool), durable |-> state.durable, failed |-> TRUE]
    BY <1>1, <1>9 DEF TypeOK
  <2>2. state' \in States'
    BY <1>1, <1>4, <1>7, <2>1 DEF States
  <2>3. faults' \in 0..MaxFaults
    BY <1>1, <1>9 DEF Fault
  <2>4. Len(spool') <= state.last + 1
    BY <1>1, <1>3, <1>4
  <2> HIDE DEF longer
  <2> QED
    BY <1>1, <1>3, <1>4, <1>6, <1>7, <1>9, <2>1, <2>2, <2>3, <2>4
<1> QED
  BY <1>8, <1>9 DEF AppendLine

\* A step of the sink that ends emit()'s append, of a checkpoint or of a flush.
Appends == EmitCheckpoint \/ EmitFlush

LEMMA AppendsStep ==
  ASSUME TypeOK, SpoolInv, Appends
  PROVE  /\ spool' \in Seq(Line) /\ Len(spool) \in Nat /\ Len(spool') \in Nat
         /\ Len(spool) <= Len(spool') /\ Len(spool') <= MaxEvents
         /\ \A i \in 1..Len(spool) : spool'[i] = spool[i]
         /\ \A i \in 1..Len(spool') : spool'[i].seq = i - 1 /\ spool'[i].op <= op'
         /\ state' \in States' /\ state'.durable = state.durable
         /\ \/ /\ pc' = "observe" /\ ~state'.failed /\ faults' = faults
               /\ state'.last = state.last + 1 /\ Len(spool') = state'.last
            \/ /\ pc' = "idle" /\ state'.failed /\ faults' \in 0..MaxFaults
               /\ state'.last = state.last /\ Len(spool') <= state.last + 1
         /\ op' \in 0..MaxOps /\ op <= op' /\ flushing' \in BOOLEAN
         /\ pc = "idle" /\ UNCHANGED <<promised, repoVars, fileVars, reader>>
<1>1. op \in 0..MaxOps /\ MaxOps \in Nat
  BY DirectoryBounds DEF TypeOK
<1>2. CASE EmitCheckpoint
  <2>1. PICK n : n = op + 1
    OBVIOUS
  <2>2. /\ n \in 0..MaxOps /\ n \in 0..n /\ op <= n /\ op' = n /\ CanEmit
        /\ AppendLine([seq |-> state.last, op |-> n])
    BY <1>1, <1>2, <2>1 DEF EmitCheckpoint
  <2>3. pc = "idle" /\ flushing' = FALSE /\ UNCHANGED <<promised, repoVars, fileVars, reader>>
    BY <1>2 DEF EmitCheckpoint, CanEmit
  <2> QED
    BY <2>2, <2>3, AppendLineStep
<1>3. CASE EmitFlush
  <2>1. PICK n : n = op
    OBVIOUS
  <2>2. /\ n \in 0..MaxOps /\ 0 \in 0..n /\ op <= n /\ op' = n /\ CanEmit
        /\ AppendLine([seq |-> state.last, op |-> 0])
    BY <1>1, <1>3, <2>1 DEF EmitFlush
  <2>3. pc = "idle" /\ flushing' = TRUE /\ UNCHANGED <<promised, repoVars, fileVars, reader>>
    BY <1>3 DEF EmitFlush, CanEmit
  <2> QED
    BY <2>2, <2>3, AppendLineStep
<1> QED
  BY <1>2, <1>3 DEF Appends

\* Steps of a reader, and a step that changes nothing.
Reads == Read \/ UNCHANGED vars

LEMMA ReadsStep ==
  ASSUME TypeOK, Reads
  PROVE  /\ UNCHANGED <<sinkVars, repoVars, fileVars, faults>>
         /\ reader' \in [pc : {"idle", "events", "repo", "failed"},
                         manifest : [last : Nat, durable : Nat]]
<1>1. reader \in [pc : {"idle", "events", "repo", "failed"},
                  manifest : [last : Nat, durable : Nat]]
      /\ manifest \in [last : Nat, durable : Nat]
  BY DEF TypeOK
<1> QED
  BY <1>1 DEF Reads, Read, ReadManifest, ReadEvents, ReadRepository, vars

\* What the sink writes into a manifest.
LEMMA ManifestType ==
  ASSUME TypeOK
  PROVE  /\ Manifest(state) \in [last : Nat, durable : Nat]
         /\ Manifest(state).durable = state.durable
         /\ [Manifest(state) EXCEPT !.durable = state.last] \in [last : Nat, durable : Nat]
         /\ [Manifest(state) EXCEPT !.durable = state.last].durable = state.last
<1>1. state.last \in Nat /\ state.durable \in Nat
  BY DEF TypeOK
<1> QED
  BY <1>1 DEF Manifest

\* A power failure keeps what is safe and may take what is not.
LEMMA CrashStep ==
  ASSUME TypeOK, Crash
  PROVE  /\ {store', dirty', safe', intact', lost'} \subseteq SUBSET (1..MaxOps)
         /\ store' \subseteq store \union safe /\ safe \subseteq store'
         /\ safe' = store' /\ intact' = intact \union store' /\ dirty' = {}
         /\ lost' \subseteq lost \union (store' \ intact)
         /\ eventsSafe \subseteq DOMAIN events' /\ DOMAIN events' \subseteq DOMAIN events
         /\ eventsSafe' = DOMAIN events'
         /\ events' \in [DOMAIN events' -> 1..Len(spool)]
         /\ \A n \in DOMAIN events' : events'[n] = events[n]
         /\ manifest' \in manifests /\ manifests' = {manifest'}
         /\ reader' = [pc |-> "idle", manifest |-> NoManifest]
         /\ pc' = "off" /\ UNCHANGED <<spool, state, op, flushing, promised, faults>>
<1>1. /\ store' \subseteq store \union safe /\ safe \subseteq store'
      /\ lost' \subseteq lost \union (store' \ intact)
      /\ safe' = store' /\ intact' = intact \union store' /\ dirty' = {}
  BY DEF Crash
<1>2. {store', dirty', safe', intact', lost'} \subseteq SUBSET (1..MaxOps)
  <2>1. {store, dirty, safe, intact, lost} \subseteq SUBSET (1..MaxOps)
    BY DEF TypeOK
  <2> QED
    BY <1>1, <2>1
<1>3. PICK kept \in SUBSET (DOMAIN events \ eventsSafe) :
        events' = Restrict(events, eventsSafe \union kept)
  BY DEF Crash
<1>4. /\ DOMAIN events' = eventsSafe \union kept
      /\ \A n \in DOMAIN events' : events'[n] = events[n]
  BY <1>3 DEF Restrict
<1>5. /\ eventsSafe \subseteq DOMAIN events /\ events \in [DOMAIN events -> 1..Len(spool)]
  BY DEF TypeOK
<1>6. events' \in [DOMAIN events' -> 1..Len(spool)]
  <2>1. \A n \in eventsSafe \union kept : events[n] \in 1..Len(spool)
    BY <1>5
  <2> QED
    BY <1>3, <2>1 DEF Restrict
<1> QED
  BY <1>1, <1>2, <1>4, <1>5, <1>6 DEF Crash

\* The events object of a flush: a new name, or the one that is there.
LEMMA CopyStep ==
  ASSUME TypeOK, SpoolInv, CopyEvents
  PROVE  /\ DOMAIN events' = DOMAIN events \union {state.last}
         /\ events' \in [DOMAIN events' -> 1..Len(spool)]
         /\ \A n \in DOMAIN events : n # state.last => events'[n] = events[n]
         /\ state.last \notin DOMAIN events => pc' = "copied" /\ events'[state.last] = Len(spool)
         /\ state.last \in DOMAIN events => pc' = "publish" /\ events' = events
         /\ state.last \in 1..MaxEvents
<1>1. /\ events \in [DOMAIN events -> 1..Len(spool)]
      /\ Len(spool) \in Nat /\ MaxEvents \in Nat /\ state.last \in Nat
      /\ spool \in Seq(Line)
  BY DirectoryBounds DEF TypeOK, Line
<1>2. Len(spool) = state.last /\ state.last > 0 /\ Len(spool) <= MaxEvents
  BY DEF CopyEvents, SpoolInv
<1>3. CASE state.last \in DOMAIN events
  <2>1. pc' = "publish" /\ events' = events
    BY <1>3 DEF CopyEvents
  <2>2. DOMAIN events = DOMAIN events \union {state.last}
    BY <1>3
  <2>3. state.last \in 1..MaxEvents
    BY <1>1, <1>2
  <2> QED
    BY <1>1, <1>3, <2>1, <2>2, <2>3
<1>4. CASE state.last \notin DOMAIN events
  <2> DEFINE made == [n \in DOMAIN events \union {state.last} |->
                        IF n = state.last THEN Len(spool) ELSE events[n]]
  <2>1. events' = made /\ pc' = "copied"
    BY <1>4 DEF CopyEvents
  <2>2. \A n \in DOMAIN events : events[n] \in 1..Len(spool)
    BY <1>1
  <2>3. Len(spool) \in 1..Len(spool) /\ state.last \in 1..MaxEvents
    BY <1>1, <1>2
  <2>4. made \in [DOMAIN events \union {state.last} -> 1..Len(spool)]
    BY <2>2, <2>3
  <2> QED
    BY <1>4, <2>1, <2>3, <2>4
<1> QED
  BY <1>3, <1>4

LEMMA TypeStep == TypeOK /\ SpoolInv /\ [Next]_vars => TypeOK'
<1> SUFFICES ASSUME TypeOK, SpoolInv, [Next]_vars PROVE TypeOK'
  OBVIOUS
<1>0. /\ {MaxOps, MaxEvents, MaxFaults, Len(spool)} \subseteq Nat
      /\ {store, dirty, safe, intact, lost} \subseteq SUBSET (1..MaxOps)
  BY DirectoryBounds DEF TypeOK
<1>f. Fault => faults' \in 0..MaxFaults
  <2>1. faults \in 0..MaxFaults
    BY DEF TypeOK
  <2> QED
    BY <1>0, <2>1 DEF Fault
<1>1. CASE Appends
  <2>1. /\ spool' \in Seq(Line) /\ Len(spool') \in Nat /\ Len(spool) <= Len(spool')
        /\ state' \in States' /\ op' \in 0..MaxOps /\ flushing' \in BOOLEAN
        /\ pc' \in {"observe", "idle"}
        /\ UNCHANGED <<promised, repoVars, fileVars, reader>>
    BY <1>1, AppendsStep
  <2>2. faults' \in 0..MaxFaults
    BY <1>1, AppendsStep DEF TypeOK
  <2>3. promised \in 0..Len(spool')
    BY <1>0, <2>1 DEF TypeOK
  <2>4. events \in [DOMAIN events -> 1..Len(spool')]
    <3>1. 1..Len(spool) \subseteq 1..Len(spool')
      BY <1>0, <2>1
    <3>2. events \in [DOMAIN events -> 1..Len(spool)]
      BY DEF TypeOK
    <3> QED
      BY <3>1, <3>2
  <2> QED
    BY <2>1, <2>2, <2>3, <2>4 DEF TypeOK, Line, States, repoVars, fileVars
<1>2. CASE Observe
  BY <1>2, ManifestType DEF Observe, PutManifest, TypeOK, repoVars
<1>3. CASE Observed
  <2>1. faults' \in 0..MaxFaults
    BY <1>3, <1>f DEF Observed, TypeOK
  <2>2. manifests' \subseteq manifests /\ manifest \in manifests'
    BY <1>3 DEF Observed, TypeOK
  <2>3. pc' \in {"repo", "idle"} /\ {store', dirty', safe', intact', lost'} \subseteq SUBSET (1..MaxOps)
    BY <1>0, <1>3 DEF Observed
  <2> QED
    BY <1>3, <2>1, <2>2, <2>3 DEF Observed, TypeOK
<1>4. ASSUME NEW n \in Shadow, PlaceObject(n) PROVE TypeOK'
  <2>1. n \in 1..MaxOps
    BY <1>0 DEF Shadow, TypeOK
  <2>2. {store', dirty', safe', intact', lost'} \subseteq SUBSET (1..MaxOps)
    BY <1>0, <1>4, <2>1 DEF PlaceObject
  <2> QED
    BY <1>4, <2>2 DEF PlaceObject, TypeOK, sinkVars, fileVars
<1>5. CASE SyncDirectories
  <2>1. {store', dirty', safe', intact', lost'} \subseteq SUBSET (1..MaxOps)
    BY <1>0, <1>5 DEF SyncDirectories
  <2> QED
    BY <1>5, <2>1 DEF SyncDirectories, TypeOK, fileVars
<1>6. CASE CopyEvents
  <2>1. /\ events' \in [DOMAIN events' -> 1..Len(spool)] /\ DOMAIN events' \subseteq 1..MaxEvents
        /\ DOMAIN events \subseteq DOMAIN events'
    BY <1>6, CopyStep DEF TypeOK
  <2>2. pc' \in {"copied", "publish"}
    BY <1>6 DEF CopyEvents
  <2> QED
    BY <1>6, <2>1, <2>2 DEF CopyEvents, TypeOK, repoVars
<1>7. CASE SyncEvents
  BY <1>7 DEF SyncEvents, TypeOK, repoVars
<1>8. CASE Publish
  BY <1>8, ManifestType DEF Publish, PutManifest, TypeOK, repoVars
<1>9. CASE ReturnOk
  <2>1. state' = [last |-> state.last, durable |-> state.last, failed |-> state.failed]
    BY <1>9 DEF ReturnOk, TypeOK
  <2>2. state' \in [last : 0..Len(spool), durable : 0..Len(spool), failed : BOOLEAN]
        /\ promised' \in 0..Len(spool)
    BY <1>9, <2>1 DEF ReturnOk, TypeOK
  <2> QED
    BY <1>9, <2>2 DEF ReturnOk, TypeOK, repoVars
<1>10. CASE FlushFails
  BY <1>10, <1>f DEF FlushFails, TypeOK, repoVars, fileVars
<1>11. CASE Crash
  <2>1. /\ {store', dirty', safe', intact', lost'} \subseteq SUBSET (1..MaxOps)
        /\ eventsSafe' = DOMAIN events' /\ DOMAIN events' \subseteq DOMAIN events
        /\ events' \in [DOMAIN events' -> 1..Len(spool)]
        /\ manifest' \in manifests /\ manifests' = {manifest'}
        /\ reader' = [pc |-> "idle", manifest |-> NoManifest]
        /\ pc' = "off" /\ UNCHANGED <<spool, state, op, flushing, promised, faults>>
    BY <1>11, CrashStep
  <2>2. manifests' \subseteq manifests /\ DOMAIN events' \subseteq 1..MaxEvents
    BY <2>1 DEF TypeOK
  <2>3. reader' \in [pc : {"idle", "events", "repo", "failed"},
                     manifest : [last : Nat, durable : Nat]]
    BY <2>1 DEF NoManifest
  <2> QED
    BY <2>1, <2>2, <2>3 DEF TypeOK
<1>12. CASE Reads
  BY <1>12, ReadsStep DEF TypeOK, sinkVars, repoVars, fileVars
<1> QED
  BY <1>1, <1>2, <1>3, <1>4, <1>5, <1>6, <1>7, <1>8, <1>9, <1>10, <1>11, <1>12
     DEF Next, Emit, FlushStep, Appends, Reads

LEMMA SpoolStep == TypeOK /\ SpoolInv /\ [Next]_vars => SpoolInv'
<1> SUFFICES ASSUME TypeOK, SpoolInv, [Next]_vars PROVE SpoolInv'
  OBVIOUS
<1>1. CASE Appends
  <2>1. /\ Len(spool') <= MaxEvents
        /\ \A i \in 1..Len(spool') : spool'[i].seq = i - 1 /\ spool'[i].op <= op'
        /\ \/ /\ pc' = "observe" /\ ~state'.failed
              /\ state'.last = state.last + 1 /\ Len(spool') = state'.last
           \/ /\ pc' = "idle" /\ state'.failed
              /\ state'.last = state.last /\ Len(spool') <= state.last + 1
    BY <1>1, AppendsStep
  <2>2. state.last \in Nat
    BY DEF TypeOK
  <2>3. Len(spool') <= state'.last + 1 /\ (~state'.failed => Len(spool') = state'.last)
        /\ (pc' \notin {"idle", "off"} => ~state'.failed /\ state'.last > 0)
    BY <2>1, <2>2
  <2> QED
    BY <2>1, <2>3 DEF SpoolInv
<1>2. ASSUME UNCHANGED <<spool, op>>, state'.last = state.last, state'.failed = state.failed,
             pc' \notin {"idle", "off"} => pc \notin {"idle", "off"}
      PROVE  SpoolInv'
  BY <1>2 DEF SpoolInv
<1>3. CASE Observe \/ Observed \/ SyncDirectories \/ CopyEvents \/ SyncEvents \/ Publish
           \/ FlushFails \/ (\E n \in Shadow : PlaceObject(n))
  <2>1. UNCHANGED <<spool, op, state>> /\ pc \notin {"idle", "off"}
    BY <1>3 DEF Observe, Observed, SyncDirectories, CopyEvents, SyncEvents, Publish,
                FlushFails, PlaceObject, sinkVars
  <2> QED
    BY <1>2, <2>1
<1>4. CASE ReturnOk
  <2>1. UNCHANGED <<spool, op>> /\ pc' = "idle"
        /\ state'.last = state.last /\ state'.failed = state.failed
    BY <1>4 DEF ReturnOk, TypeOK
  <2> QED
    BY <1>2, <2>1
<1>5. CASE Crash
  <2>1. UNCHANGED <<spool, op, state>> /\ pc' = "off"
    BY <1>5, CrashStep
  <2> QED
    BY <1>2, <2>1
<1>6. CASE Reads
  <2>1. UNCHANGED <<spool, op, state, pc>>
    BY <1>6, ReadsStep DEF sinkVars
  <2> QED
    BY <1>2, <2>1
<1> QED
  BY <1>1, <1>3, <1>4, <1>5, <1>6 DEF Next, Emit, FlushStep, Appends, Reads

-----------------------------------------------------------------------------
(* The events objects *)

LEMMA EventsInit == Init => EventsInv
BY DEF Init, EventsInv

LEMMA EventsStep == TypeOK /\ SpoolInv /\ EventsInv /\ [Next]_vars => EventsInv'
<1> SUFFICES ASSUME TypeOK, SpoolInv, EventsInv, [Next]_vars PROVE EventsInv'
  OBVIOUS
<1>0. state.last \in Nat /\ \A n \in DOMAIN events : n \in Nat /\ n <= state.last /\ events[n] = n
  BY DEF TypeOK, EventsInv
<1>1. CASE Appends
  <2>1. /\ UNCHANGED <<events, eventsSafe>> /\ pc' \in {"observe", "idle"}
        /\ state'.last \in {state.last, state.last + 1}
        /\ pc' = "observe" => state'.last = state.last + 1
    BY <1>1, AppendsStep DEF fileVars
  <2>2. \A n \in DOMAIN events : n <= state'.last /\ n # state.last + 1
    BY <1>0, <2>1
  <2> QED
    BY <1>0, <2>1, <2>2 DEF EventsInv
<1>2. CASE Observe \/ Observed \/ SyncDirectories \/ FlushFails
           \/ (\E n \in Shadow : PlaceObject(n))
  <2>1. UNCHANGED <<events, eventsSafe, state>>
    BY <1>2 DEF Observe, Observed, SyncDirectories, FlushFails, PlaceObject, sinkVars, fileVars
  <2>2. /\ pc' \in {"observed", "repo", "events"} => pc \in {"observe", "observed", "repo", "events"}
        /\ pc' \in {"idle", "observed", "repo", "events"}
    BY <1>2 DEF Observe, Observed, SyncDirectories, FlushFails, PlaceObject, sinkVars
  <2> QED
    BY <2>1, <2>2 DEF EventsInv
<1>3. CASE CopyEvents
  <2>1. /\ state.last \notin DOMAIN events /\ UNCHANGED state /\ Len(spool) = state.last
    BY <1>3 DEF CopyEvents, EventsInv, SpoolInv
  <2>2. /\ pc' = "copied" /\ events'[state.last] = Len(spool)
        /\ DOMAIN events' = DOMAIN events \union {state.last}
        /\ \A n \in DOMAIN events : events'[n] = events[n]
    BY <1>3, <2>1, CopyStep
  <2>3. \A n \in DOMAIN events' : n <= state.last /\ events'[n] = n
    BY <1>0, <2>1, <2>2
  <2> QED
    BY <2>1, <2>2, <2>3 DEF EventsInv
<1>4. CASE SyncEvents
  BY <1>4 DEF SyncEvents, EventsInv
<1>5. CASE Publish
  BY <1>5 DEF Publish, EventsInv
<1>6. CASE ReturnOk
  <2>1. state'.last = state.last /\ UNCHANGED <<events, eventsSafe>> /\ pc' = "idle"
    BY <1>6 DEF ReturnOk, TypeOK
  <2> QED
    BY <2>1 DEF EventsInv
<1>7. CASE Crash
  <2>1. /\ DOMAIN events' \subseteq DOMAIN events /\ pc' = "off" /\ UNCHANGED state
        /\ \A n \in DOMAIN events' : events'[n] = events[n]
    BY <1>7, CrashStep
  <2> QED
    BY <1>0, <2>1 DEF EventsInv
<1>8. CASE Reads
  BY <1>8, ReadsStep DEF EventsInv, sinkVars, fileVars
<1> QED
  BY <1>1, <1>2, <1>3, <1>4, <1>5, <1>6, <1>7, <1>8 DEF Next, Emit, FlushStep, Appends, Reads

-----------------------------------------------------------------------------
(* The repository *)

LEMMA RepoInit == Init => RepoInv
BY DEF Init, RepoInv

LEMMA RepoStep ==
  ASSUME LinksSynced, ~TornSync
  PROVE  TypeOK /\ SpoolInv /\ RepoInv /\ [Next]_vars => RepoInv'
<1> SUFFICES ASSUME TypeOK, SpoolInv, RepoInv, [Next]_vars PROVE RepoInv'
  OBVIOUS
<1>1. CASE Appends
  <2>1. UNCHANGED <<store, dirty, safe, intact, lost>> /\ pc = "idle" /\ pc' \in {"observe", "idle"}
    BY <1>1, AppendsStep DEF repoVars
  <2> QED
    BY <2>1 DEF RepoInv
<1>2. CASE Observe \/ CopyEvents \/ SyncEvents \/ Publish \/ ReturnOk \/ Reads
  <2>1. UNCHANGED <<store, dirty, safe, intact, lost, op>>
    BY <1>2, ReadsStep DEF Observe, CopyEvents, SyncEvents, Publish, ReturnOk, repoVars, sinkVars
  <2>2. /\ pc' = "repo" => pc = "repo"
        /\ pc # "repo" \/ pc' = pc
        /\ pc' \in {"events", "copied", "publish", "published"} =>
             pc \in {"events", "copied", "publish", "published"}
    BY <1>2, ReadsStep DEF Observe, CopyEvents, SyncEvents, Publish, ReturnOk, sinkVars
  <2> QED
    BY <2>1, <2>2 DEF RepoInv, Shadow
<1>3. CASE Observed
  <2>1. pc \in {"observe", "observed"} /\ pc' \in {"repo", "idle"} /\ dirty' = {}
        /\ UNCHANGED <<store, safe, intact, lost>>
    BY <1>3 DEF Observed
  <2> QED
    BY <2>1 DEF RepoInv
<1>4. ASSUME NEW n \in Shadow, PlaceObject(n) PROVE RepoInv'
  <2>1. /\ pc = "repo" /\ pc' = "repo" /\ store' = store \union {n} /\ dirty' = dirty \union {n}
        /\ intact' = intact \union {n} /\ UNCHANGED <<safe, lost>>
    BY <1>4 DEF PlaceObject, sinkVars
  <2> QED
    BY <2>1 DEF RepoInv
<1>5. CASE SyncDirectories
  <2>1. /\ pc = "repo" /\ pc' = "events" /\ safe' = safe \union dirty /\ Shadow \subseteq store
        /\ UNCHANGED <<store, dirty, intact, lost, op>>
    BY <1>5 DEF SyncDirectories
  <2> QED
    BY <2>1 DEF RepoInv, Shadow
<1>6. CASE FlushFails
  <2>1. /\ pc' = "idle" /\ pc = "repo" => dirty = {}
        /\ UNCHANGED <<store, dirty, safe, intact, lost>>
    BY <1>6 DEF FlushFails, repoVars
  <2>2. pc' = "idle"
    BY <1>6 DEF FlushFails
  <2> QED
    BY <2>1, <2>2 DEF RepoInv
<1>7. CASE Crash
  <2>1. /\ store' \subseteq store \union safe /\ safe \subseteq store'
        /\ safe' = store' /\ intact' = intact \union store' /\ dirty' = {}
        /\ lost' \subseteq lost \union (store' \ intact) /\ pc' = "off"
    BY <1>7, CrashStep
  <2> QED
    BY <2>1 DEF RepoInv
<1> QED
  BY <1>1, <1>2, <1>3, <1>4, <1>5, <1>6, <1>7 DEF Next, Emit, FlushStep, Appends, Reads

-----------------------------------------------------------------------------
(* The manifests *)

LEMMA ManifestInit == Init => ManifestInv
<1> SUFFICES ASSUME Init PROVE ManifestInv
  OBVIOUS
<1>1. /\ manifests = {NoManifest} /\ NoManifest.durable = 0 /\ promised = 0
      /\ state.last = 0 /\ state.durable = 0 /\ pc = "idle" /\ reader.pc = "idle"
  BY DEF Init, NoManifest
<1> QED
  BY <1>1 DEF ManifestInv, Secured

\* What is safe stays safe, whatever happens.
LEMMA SafetyKept ==
  ASSUME TypeOK, SpoolInv, RepoInv, [Next]_vars
  PROVE  /\ eventsSafe \subseteq eventsSafe' /\ safe \subseteq safe'
         /\ state.last <= state'.last /\ Len(spool) <= Len(spool')
         /\ \A i \in 1..Len(spool) : spool'[i] = spool[i]
<1>0. /\ state.last \in Nat /\ Len(spool) \in Nat /\ eventsSafe \subseteq DOMAIN events
  BY DEF TypeOK
<1>1. CASE Appends
  BY <1>0, <1>1, AppendsStep DEF repoVars, fileVars
<1>2. CASE Crash
  BY <1>0, <1>2, CrashStep
<1>3. CASE ReturnOk
  <2>1. state'.last = state.last
    BY <1>3 DEF ReturnOk, TypeOK
  <2> QED
    BY <1>0, <1>3, <2>1 DEF ReturnOk, repoVars
<1>4. CASE Observe \/ Observed \/ SyncDirectories \/ CopyEvents \/ SyncEvents \/ Publish
           \/ FlushFails \/ (\E n \in Shadow : PlaceObject(n)) \/ Reads
  <2>1. UNCHANGED <<spool, state>>
    BY <1>4, ReadsStep DEF Observe, Observed, SyncDirectories, CopyEvents, SyncEvents, Publish,
                           FlushFails, PlaceObject, sinkVars
  <2>2. safe \subseteq safe'
    BY <1>4, ReadsStep DEF Observe, Observed, SyncDirectories, CopyEvents, SyncEvents, Publish,
                           FlushFails, PlaceObject, repoVars
  <2>3. eventsSafe \subseteq eventsSafe'
    BY <1>0, <1>4, ReadsStep DEF Observe, Observed, SyncDirectories, CopyEvents, SyncEvents,
                           Publish, FlushFails, PlaceObject, fileVars
  <2> QED
    BY <1>0, <2>1, <2>2, <2>3
<1> QED
  BY <1>1, <1>2, <1>3, <1>4 DEF Next, Emit, FlushStep, Appends, Reads

LEMMA SecuredKept ==
  ASSUME TypeOK, SpoolInv, RepoInv, [Next]_vars, NEW n \in Nat, Secured(n)
  PROVE  Secured(n)'
<1> SUFFICES ASSUME n > 0
             PROVE  /\ n <= state'.last /\ n \in eventsSafe'
                    /\ \A i \in 1..n : 1..spool'[i].op \subseteq safe'
  BY DEF Secured
<1>1. /\ {state.last, state'.last, Len(spool)} \subseteq Nat /\ state.last <= Len(spool)
  <2>1. state.last \in 0..Len(spool) /\ Len(spool) \in Nat
    BY DEF TypeOK
  <2>2. TypeOK'
    BY TypeStep
  <2>3. state'.last \in 0..Len(spool') /\ Len(spool') \in Nat
    BY <2>2 DEF TypeOK
  <2> QED
    BY <2>1, <2>3
<1>2. n <= state.last /\ n \in eventsSafe /\ \A i \in 1..n : 1..spool[i].op \subseteq safe
  BY DEF Secured
<1>3. \A i \in 1..n : i \in 1..Len(spool)
  BY <1>1, <1>2
<1>4. /\ eventsSafe \subseteq eventsSafe' /\ safe \subseteq safe' /\ state.last <= state'.last
      /\ \A i \in 1..Len(spool) : spool'[i] = spool[i]
  BY SafetyKept
<1> QED
  BY <1>1, <1>2, <1>3, <1>4

LEMMA PromiseKept ==
  ASSUME TypeOK, SpoolInv, RepoInv, ManifestInv, [Next]_vars, UNCHANGED promised
  PROVE  Secured(promised)'
<1>1. PICK n \in Nat : n = promised
  BY DEF TypeOK
<1>2. Secured(n)
  BY <1>1 DEF ManifestInv
<1>3. Secured(n)'
  BY <1>2, SecuredKept
<1> QED
  BY <1>1, <1>3 DEF Secured

\* A step that puts no new manifest in place keeps them all.
LEMMA ManifestFrame ==
  ASSUME TypeOK, SpoolInv, RepoInv, ManifestInv, [Next]_vars,
         manifests' \subseteq manifests, UNCHANGED <<promised, reader>>,
         state'.durable = state.durable,
         pc' = "published" => UNCHANGED <<manifest, state>> /\ pc = "published"
  PROVE  ManifestInv'
<1>1. /\ state.last \in Nat /\ promised \in Nat /\ promised <= state.last
      /\ state.last <= state'.last
  <2>1. state.last \in Nat /\ promised \in Nat
    BY DEF TypeOK
  <2>2. state.last <= state'.last
    BY SafetyKept
  <2> QED
    BY <2>1, <2>2 DEF ManifestInv
<1>2. promised <= state'.last
  <2>1. TypeOK'
    BY TypeStep
  <2>2. state'.last \in Nat
    BY <2>1 DEF TypeOK
  <2> QED
    BY <1>1, <2>2
<1>s. Secured(promised)'
  BY PromiseKept
<1>3. ASSUME NEW m \in manifests' PROVE Secured(m.durable)' /\ promised <= m.durable
  <2>1. m \in manifests /\ m.durable \in Nat
    BY <1>3 DEF TypeOK
  <2>2. Secured(m.durable) /\ promised <= m.durable
    BY <2>1 DEF ManifestInv
  <2> QED
    BY <2>1, <2>2, SecuredKept
<1>4. reader.pc \in {"events", "repo"} => reader.manifest.durable > 0 /\ Secured(reader.manifest.durable)'
  <2>1. PICK n \in Nat : n = reader.manifest.durable
    BY DEF TypeOK
  <2>2. reader.pc \in {"events", "repo"} => n > 0 /\ Secured(n)
    BY <2>1 DEF ManifestInv
  <2>3. Secured(n) => Secured(n)'
    BY SecuredKept
  <2>4. Secured(n)' => Secured(reader.manifest.durable)'
    BY <2>1 DEF Secured
  <2> QED
    BY <2>1, <2>2, <2>3, <2>4
<1> QED
  BY <1>2, <1>3, <1>4, <1>s DEF ManifestInv

\* A new manifest is put in place: it is secured and keeps what was promised.
LEMMA ManifestPut ==
  ASSUME TypeOK, SpoolInv, RepoInv, ManifestInv, [Next]_vars,
         NEW m \in [last : Nat, durable : Nat], PutManifest(m),
         Secured(m.durable), promised <= m.durable,
         UNCHANGED <<promised, reader, state>>,
         pc' = "published" => m.durable = state.last
  PROVE  ManifestInv'
<1>1. promised <= state.last /\ state.durable = promised /\ reader.pc # "failed"
  BY DEF ManifestInv
<1>2. manifest' = m /\ manifests' = manifests \union {m}
  BY DEF PutManifest
<1>s. Secured(promised)'
  BY PromiseKept
<1>3. ASSUME NEW k \in manifests' PROVE Secured(k.durable)' /\ promised <= k.durable
  <2>1. k.durable \in Nat /\ Secured(k.durable) /\ promised <= k.durable
    BY <1>2 DEF TypeOK, ManifestInv
  <2> QED
    BY <2>1, SecuredKept
<1>4. reader.pc \in {"events", "repo"} => reader.manifest.durable > 0 /\ Secured(reader.manifest.durable)'
  <2>1. PICK n \in Nat : n = reader.manifest.durable
    BY DEF TypeOK
  <2>2. reader.pc \in {"events", "repo"} => n > 0 /\ Secured(n)
    BY <2>1 DEF ManifestInv
  <2>3. Secured(n) => Secured(n)'
    BY SecuredKept
  <2>4. Secured(n)' => Secured(reader.manifest.durable)'
    BY <2>1 DEF Secured
  <2> QED
    BY <2>1, <2>2, <2>3, <2>4
<1> QED
  BY <1>1, <1>2, <1>3, <1>4, <1>s DEF ManifestInv

\* Behind the repository pass the whole spool is secured once its object is.
LEMMA SpoolSecured ==
  ASSUME TypeOK, SpoolInv, EventsInv, RepoInv, pc \in {"publish", "published"}
  PROVE  Secured(state.last)
<1>1. state.last \in eventsSafe /\ Shadow \subseteq safe
  BY DEF EventsInv, RepoInv
<1>2. state.last \in 0..Len(spool) /\ Len(spool) \in Nat /\ op \in Nat /\ spool \in Seq(Line)
  BY DirectoryBounds DEF TypeOK, Line
<1>3. ASSUME NEW i \in 1..state.last PROVE 1..spool[i].op \subseteq safe
  <2>1. i \in 1..Len(spool)
    BY <1>2
  <2>2. spool[i].op <= op /\ spool[i].op \in Nat
    <3>1. spool[i] \in Line
      BY <1>2, <2>1
    <3> QED
      BY <2>1, <3>1 DEF SpoolInv, Line
  <2>3. 1..spool[i].op \subseteq 1..op
    BY <1>2, <2>2
  <2> QED
    BY <1>1, <2>3 DEF Shadow
<1> QED
  BY <1>1, <1>2, <1>3 DEF Secured

\* A secured manifest can be opened, and every operation in its prefix loaded.
LEMMA SecuredOpens ==
  ASSUME TypeOK, SpoolInv, EventsInv, RepoInv, NEW m \in [last : Nat, durable : Nat],
         m.durable > 0, Secured(m.durable)
  PROVE  Opens(m) /\ Loads(m)
<1>1. /\ m.durable \in Nat /\ m.durable <= state.last /\ m.durable \in eventsSafe
      /\ \A i \in 1..m.durable : 1..spool[i].op \subseteq safe
  BY DEF Secured
<1>2. state.last \in 0..Len(spool) /\ Len(spool) \in Nat /\ spool \in Seq(Line)
      /\ eventsSafe \subseteq DOMAIN events
  BY DEF TypeOK, Line
<1>3. \A i \in 1..m.durable : i \in 1..Len(spool)
  BY <1>1, <1>2
<1>4. Opens(m)
  BY <1>1, <1>2, <1>3 DEF Opens, EventsInv, SpoolInv
<1>5. ASSUME NEW i \in 1..m.durable, spool[i].op > 0 PROVE spool[i].op \in store \ lost
  <2>1. spool[i] \in Line
    BY <1>2, <1>3
  <2>2. spool[i].op \in Nat
    BY <2>1 DEF Line
  <2>3. spool[i].op \in 1..spool[i].op
    BY <1>5, <2>2
  <2> QED
    BY <1>1, <2>3 DEF RepoInv
<1> QED
  BY <1>4, <1>5 DEF Loads

LEMMA ManifestStep ==
  TypeOK /\ SpoolInv /\ EventsInv /\ RepoInv /\ ManifestInv /\ [Next]_vars => ManifestInv'
<1> SUFFICES ASSUME TypeOK, SpoolInv, EventsInv, RepoInv, ManifestInv, [Next]_vars
             PROVE  ManifestInv'
  OBVIOUS
<1>0. /\ {state.last, state.durable, promised} \subseteq Nat
      /\ promised <= state.last /\ state.durable = promised
      /\ manifest \in manifests /\ manifest \in [last : Nat, durable : Nat]
  BY DEF TypeOK, ManifestInv
<1>1. CASE Appends
  <2>1. /\ UNCHANGED <<promised, reader, manifests>> /\ state'.durable = state.durable
        /\ pc' # "published"
    BY <1>1, AppendsStep DEF fileVars
  <2> QED
    BY <2>1, ManifestFrame
<1>2. CASE Observe
  <2>1. /\ PutManifest(Manifest(state)) /\ UNCHANGED <<promised, reader, state>>
        /\ pc' # "published"
    BY <1>2 DEF Observe
  <2>2. Secured(state.durable) /\ promised <= state.durable
    BY <1>0 DEF ManifestInv
  <2>3. PICK m \in [last : Nat, durable : Nat] : m = Manifest(state)
    BY ManifestType
  <2>4. m.durable = state.durable
    BY <2>3, ManifestType
  <2>5. Secured(m.durable) /\ promised <= m.durable /\ PutManifest(m)
    BY <2>1, <2>2, <2>3, <2>4
  <2> QED
    BY <2>1, <2>5, ManifestPut
<1>3. CASE Observed \/ SyncEvents
  <2>1. manifests' \subseteq manifests /\ UNCHANGED <<promised, reader, state>> /\ pc' # "published"
    BY <1>0, <1>3 DEF Observed, SyncEvents
  <2> QED
    BY <2>1, ManifestFrame
<1>4. CASE SyncDirectories \/ CopyEvents \/ FlushFails \/ (\E n \in Shadow : PlaceObject(n))
  <2>1. UNCHANGED <<manifests, promised, reader, state>> /\ pc' # "published"
    BY <1>4 DEF SyncDirectories, CopyEvents, FlushFails, PlaceObject, sinkVars, fileVars
  <2> QED
    BY <2>1, ManifestFrame
<1>5. CASE Publish
  <2>1. PICK m \in [last : Nat, durable : Nat] : m = [Manifest(state) EXCEPT !.durable = state.last]
    BY ManifestType
  <2>2. m.durable = state.last /\ PutManifest(m) /\ UNCHANGED <<promised, reader, state>>
    BY <1>5, <2>1, ManifestType DEF Publish
  <2>3. Secured(state.last)
    BY <1>5, SpoolSecured DEF Publish
  <2>4. Secured(m.durable) /\ promised <= m.durable
    BY <1>0, <2>2, <2>3
  <2> QED
    BY <2>2, <2>4, ManifestPut
<1>6. CASE ReturnOk
  <2>1. /\ manifests' = {manifest} /\ promised' = state.last /\ pc' = "idle" /\ pc = "published"
        /\ UNCHANGED <<reader, spool, eventsSafe, safe, manifest>>
        /\ state'.durable = state.last /\ state'.last = state.last
    BY <1>6 DEF ReturnOk, TypeOK, repoVars
  <2>2. manifest.durable = state.last
    BY <2>1 DEF ManifestInv
  <2>3. Secured(state.last)
    BY <2>1, SpoolSecured
  <2>4. \A n : Secured(n) => Secured(n)'
    BY <2>1 DEF Secured
  <2>5. Secured(state.last)'
    BY <2>1, <2>3 DEF Secured
  <2>6. Secured(manifest.durable)' /\ Secured(promised)'
    BY <2>1, <2>2, <2>5 DEF Secured
  <2>7. reader.pc \in {"events", "repo"} =>
          reader.manifest.durable > 0 /\ Secured(reader.manifest.durable)'
    <3>1. Secured(reader.manifest.durable) => Secured(reader.manifest.durable)'
      BY <2>1 DEF Secured
    <3> QED
      BY <3>1 DEF ManifestInv
  <2>8. \A m \in manifests' : Secured(m.durable)' /\ promised' <= m.durable
    BY <1>0, <2>1, <2>2, <2>6
  <2> QED
    BY <1>0, <2>1, <2>6, <2>7, <2>8 DEF ManifestInv
<1>7. CASE Crash
  <2>1. /\ manifests' \subseteq manifests /\ UNCHANGED <<promised, state>> /\ pc' = "off"
        /\ reader'.pc = "idle"
    BY <1>7, CrashStep
  <2>2. ASSUME NEW m \in manifests' PROVE Secured(m.durable)' /\ promised <= m.durable
    <3>1. m \in manifests /\ m.durable \in Nat
      BY <2>1 DEF TypeOK
    <3>2. Secured(m.durable) /\ promised <= m.durable
      BY <3>1 DEF ManifestInv
    <3> QED
      BY <3>1, <3>2, SecuredKept
  <2>3. Secured(promised)'
    BY <2>1, PromiseKept
  <2> QED
    BY <1>0, <2>1, <2>2, <2>3 DEF ManifestInv
<1>8. CASE ReadManifest
  <2>1. /\ reader' = [pc |-> "events", manifest |-> manifest] /\ manifest.durable > 0
        /\ UNCHANGED <<manifests, manifest, promised, state, spool, eventsSafe, safe, pc>>
    BY <1>8 DEF ReadManifest, sinkVars, repoVars, fileVars
  <2>2. Secured(manifest.durable)
    BY <1>0 DEF ManifestInv
  <2> QED
    BY <2>1, <2>2 DEF ManifestInv, Secured
<1>9. CASE ReadEvents \/ ReadRepository
  <2>1. PICK m \in [last : Nat, durable : Nat] : m = reader.manifest
    BY DEF TypeOK
  <2>2. m.durable > 0 /\ Secured(m.durable)
    BY <1>9, <2>1 DEF ManifestInv, ReadEvents, ReadRepository
  <2>3. Opens(m) /\ Loads(m)
    BY <2>2, SecuredOpens
  <2>4. /\ reader'.pc \in {"repo", "idle"} /\ reader'.manifest = reader.manifest
        /\ UNCHANGED <<manifests, manifest, promised, state, spool, eventsSafe, safe, pc>>
    BY <1>9, <2>1, <2>3 DEF ReadEvents, ReadRepository, sinkVars, repoVars, fileVars, TypeOK
  <2> QED
    BY <2>1, <2>2, <2>4 DEF ManifestInv, Secured
<1>10. CASE UNCHANGED vars
  BY <1>10 DEF vars, sinkVars, repoVars, fileVars, ManifestInv, Secured
<1> QED
  BY <1>1, <1>2, <1>3, <1>4, <1>5, <1>6, <1>7, <1>8, <1>9, <1>10
     DEF Next, Emit, FlushStep, Appends, Read

-----------------------------------------------------------------------------
(* Theorems *)

\* Every variable keeps its type: counts stay within the lines of the spool,
\* whatever fails and whether or not objects are synced.
THEOREM DirectoryTypes == Spec => []TypeOK
<1>1. Init => TypeOK /\ SpoolInv
  BY TypeInit, SpoolInit
<1>2. TypeOK /\ SpoolInv /\ [Next]_vars => TypeOK' /\ SpoolInv'
  BY TypeStep, SpoolStep
<1> QED
  BY <1>1, <1>2, PTL DEF Spec

SessionInv == TypeOK /\ SpoolInv /\ EventsInv /\ RepoInv /\ ManifestInv

LEMMA SessionInvariance ==
  ASSUME LinksSynced, ~TornSync
  PROVE  Spec => []SessionInv
<1>1. Init => SessionInv
  BY TypeInit, SpoolInit, EventsInit, RepoInit, ManifestInit DEF SessionInv
<1>2. SessionInv /\ [Next]_vars => SessionInv'
  BY TypeStep, SpoolStep, EventsStep, RepoStep, ManifestStep DEF SessionInv
<1> QED
  BY <1>1, <1>2, PTL DEF Spec

\* Whatever manifest a reader finds, beside a flush or after a power failure, it
\* can open the events object and load every operation that names.
THEOREM ReaderSucceeds ==
  ASSUME LinksSynced, ~TornSync
  PROVE  Spec => []ReaderNeverFails
<1>1. SessionInv => ReaderNeverFails
  BY DEF SessionInv, ManifestInv, ReaderNeverFails
<1> QED
  BY <1>1, SessionInvariance, PTL

\* A flush that returned Ok keeps its promise through every later failure.
THEOREM PromiseSurvives ==
  ASSUME LinksSynced, ~TornSync
  PROVE  Spec => []FlushSurvives
<1>1. SessionInv => FlushSurvives
  <2> SUFFICES ASSUME SessionInv, promised > 0
               PROVE  manifest.durable >= promised /\ Opens(manifest) /\ Loads(manifest)
    BY DEF FlushSurvives
  <2>1. PICK m \in [last : Nat, durable : Nat] : m = manifest
    BY DEF SessionInv, TypeOK
  <2>2. promised <= m.durable /\ Secured(m.durable) /\ promised \in Nat
    BY <2>1 DEF SessionInv, TypeOK, ManifestInv
  <2>3. m.durable > 0
    BY <2>2
  <2>4. Opens(m) /\ Loads(m)
    BY <2>2, <2>3, SecuredOpens DEF SessionInv
  <2> QED
    BY <2>1, <2>2, <2>4
<1> QED
  BY <1>1, SessionInvariance, PTL

-----------------------------------------------------------------------------
(* The promise to readers *)

\* The operations a power failure cannot take are counted without a gap.
LEMMA KeptIsPrefix ==
  TypeOK /\ RepoInv =>
    Kept \in 0..MaxOps /\ 1..Kept \subseteq safe /\ Kept + 1 \notin safe
<1> SUFFICES ASSUME TypeOK, RepoInv
             PROVE  Kept \in 0..MaxOps /\ 1..Kept \subseteq safe /\ Kept + 1 \notin safe
  OBVIOUS
<1> DEFINE Prefixes == {n \in 0..MaxOps : 1..n \subseteq safe}
<1>1. (safe \intersect intact) \ lost = safe
  BY DEF RepoInv
<1>2. MaxOps \in Nat /\ safe \subseteq 1..MaxOps
  BY DirectoryBounds DEF TypeOK
<1>3. 0 \in Prefixes /\ Prefixes \in SUBSET (0..MaxOps)
  BY <1>2
<1>4. PICK m \in Prefixes : \A n \in Prefixes : n <= m
  <2> HIDE DEF Prefixes
  <2> QED
    BY <1>2, <1>3, GreatestExists
<1>5. m \in 0..MaxOps /\ 1..m \subseteq safe
  OBVIOUS
<1>6. m + 1 \notin safe
  <2> SUFFICES ASSUME m + 1 \in safe PROVE FALSE
    OBVIOUS
  <2>1. m + 1 \in 0..MaxOps /\ m \in Nat
    BY <1>2, <1>5
  <2>2. \A i \in 1..(m + 1) : i \in safe
    BY <1>5, <2>1
  <2>3. m + 1 \in Prefixes
    BY <2>1, <2>2
  <2> QED
    BY <1>4, <2>1, <2>3
<1> QED
  BY <1>1, <1>5, <1>6 DEF Kept

\* The entries of the abstract log are the operations of the spool's lines.
LEMMA LogIsSeq ==
  TypeOK /\ SpoolInv =>
    LET Log == [i \in 1..state.last |-> spool[i].op]
    IN  /\ Log \in Seq(Nat) /\ Len(Log) = state.last /\ state.last \in 0..Len(spool)
        /\ Len(spool) \in Nat
<1> SUFFICES ASSUME TypeOK, SpoolInv
             PROVE  LET Log == [i \in 1..state.last |-> spool[i].op]
                    IN  /\ Log \in Seq(Nat) /\ Len(Log) = state.last
                        /\ state.last \in 0..Len(spool) /\ Len(spool) \in Nat
  OBVIOUS
<1> DEFINE n   == state.last
           Log == [i \in 1..n |-> spool[i].op]
<1>1. n \in 0..Len(spool) /\ Len(spool) \in Nat /\ spool \in Seq(Line)
  BY DEF TypeOK, Line
<1>2. \A i \in 1..n : spool[i].op \in Nat
  <2>1. \A i \in 1..n : spool[i] \in Line
    BY <1>1
  <2> QED
    BY <2>1 DEF Line
<1>3. Log \in [1..n -> Nat] /\ n \in Nat
  BY <1>1, <1>2
<1> HIDE DEF n, Log
<1>4. Log \in Seq(Nat) /\ Len(Log) = n
  BY <1>3
<1> QED
  BY <1>1, <1>4 DEF n, Log

LEMMA TimelineInit == Init => Timeline!Init
<1> SUFFICES ASSUME Init PROVE Timeline!Init
  OBVIOUS
<1>1. TypeOK /\ SpoolInv /\ RepoInv
  BY TypeInit, SpoolInit, RepoInit
<1>2. safe = {} /\ promised = 0
  BY DEF Init
<1>3. Kept = 0
  <2>1. Kept \in 0..MaxOps /\ 1..Kept \subseteq {} /\ MaxOps \in Nat
    BY <1>1, <1>2, KeptIsPrefix, DirectoryBounds
  <2>2. Kept > 0 => 1 \in 1..Kept
    BY <2>1
  <2> QED
    BY <2>1, <2>2
<1> QED
  BY <1>1, <1>2, <1>3, LogIsSeq DEF Timeline!Init

LEMMA TimelineStep ==
  SessionInv /\ SessionInv' /\ [Next]_vars => [Timeline!Next]_(Timeline!vars)
<1> SUFFICES ASSUME SessionInv, SessionInv', [Next]_vars
             PROVE  [Timeline!Next]_(Timeline!vars)
  OBVIOUS
<1> DEFINE Log == [i \in 1..state.last |-> spool[i].op]
<1>t. TypeOK /\ SpoolInv /\ RepoInv /\ ManifestInv /\ TypeOK' /\ SpoolInv' /\ RepoInv' /\ ManifestInv'
  BY DEF SessionInv
<1>l. /\ Len(Log) = state.last /\ state.last \in 0..Len(spool) /\ Len(spool) \in Nat
  BY <1>t, LogIsSeq
<1>m. /\ Len(Log') = state'.last /\ state'.last \in 0..Len(spool') /\ Len(spool') \in Nat
  <2>1. (TypeOK /\ SpoolInv)' =>
          (Len(Log) = state.last /\ state.last \in 0..Len(spool) /\ Len(spool) \in Nat)'
    BY LogIsSeq, PTL
  <2> QED
    BY <1>t, <2>1
<1>k. /\ Kept \in 0..MaxOps /\ 1..Kept \subseteq safe /\ Kept + 1 \notin safe
      /\ Kept' \in 0..MaxOps /\ 1..Kept' \subseteq safe' /\ Kept' + 1 \notin safe'
      /\ MaxOps \in Nat
  <2>1. (TypeOK /\ RepoInv)' =>
          (Kept \in 0..MaxOps /\ 1..Kept \subseteq safe /\ Kept + 1 \notin safe)'
    BY KeptIsPrefix, PTL
  <2> QED
    BY <1>t, <2>1, KeptIsPrefix, DirectoryBounds
<1>s. /\ safe \subseteq safe' /\ state.last <= state'.last
      /\ \A i \in 1..Len(spool) : spool'[i] = spool[i]
  BY <1>t, SafetyKept
<1>1. CASE Appends /\ state'.last = state.last + 1
  <2>1. UNCHANGED <<promised, safe, intact, lost>>
    BY <1>1, <1>t, AppendsStep DEF repoVars
  <2>2. Kept' = Kept
    BY <2>1 DEF Kept
  <2>3. \A i \in 1..state.last : Log'[i] = Log[i]
    BY <1>1, <1>l, <1>s
  <2> HIDE DEF Log
  <2>4. Timeline!Record
    BY <1>1, <1>l, <1>m, <2>1, <2>2, <2>3 DEF Timeline!Record, Log
  <2> QED
    BY <2>4 DEF Timeline!Next
<1>2. CASE ~(Appends /\ state'.last = state.last + 1)
  <2>1. state'.last = state.last /\ promised' \in {promised, state.last}
    <3>1. CASE Appends
      BY <1>2, <1>t, <3>1, AppendsStep
    <3>2. CASE Crash
      BY <1>t, <3>2, CrashStep
    <3>3. CASE ReturnOk
      BY <1>t, <3>3 DEF ReturnOk, TypeOK
    <3>4. CASE Observe \/ Observed \/ SyncDirectories \/ CopyEvents \/ SyncEvents \/ Publish
               \/ FlushFails \/ (\E n \in Shadow : PlaceObject(n)) \/ Reads
      BY <1>t, <3>4, ReadsStep DEF Observe, Observed, SyncDirectories, CopyEvents, SyncEvents,
                             Publish, FlushFails, PlaceObject, sinkVars
    <3> QED
      BY <3>1, <3>2, <3>3, <3>4 DEF Next, Emit, FlushStep, Appends, Reads
  <2>2. \A i \in 1..state.last : i \in 1..Len(spool)
    BY <1>l
  <2>3. Log' = Log
    BY <1>s, <2>1, <2>2
  <2>k. PICK k \in Nat, q \in Nat :
          /\ k = Kept /\ 1..k \subseteq safe
          /\ q = Kept' /\ q + 1 \notin safe'
    BY <1>k
  <2>4. k <= q
    <3> SUFFICES ASSUME q < k PROVE FALSE
      OBVIOUS
    <3>1. q + 1 \in 1..k
      OBVIOUS
    <3> QED
      BY <1>s, <2>k, <3>1
  <2>5. promised' \in promised..state.last
    <3>1. promised \in Nat /\ promised <= state.last
      BY <1>t DEF TypeOK, ManifestInv
    <3> QED
      BY <1>l, <2>1, <3>1
  <2>6. ASSUME NEW i \in 1..promised' PROVE Log[i] <= q
    <3>1. i \in 1..state.last /\ i \in 1..Len(spool) /\ promised' > 0
      <4>1. promised' \in Nat /\ state.last \in Nat
        BY <1>l, <1>t, <2>5 DEF TypeOK
      <4>2. PICK m \in Nat : m = promised' /\ m <= state.last /\ i \in 1..m
        BY <4>1, <2>5
      <4> QED
        BY <1>l, <4>1, <4>2
    <3>2. 1..spool'[i].op \subseteq safe'
      BY <1>t, <3>1 DEF ManifestInv, Secured
    <3>3. spool'[i].op \in Nat
      <4>1. spool' \in Seq(Line) /\ i \in 1..Len(spool')
        BY <1>m, <1>t, <2>1, <3>1 DEF TypeOK, Line
      <4>2. spool'[i] \in Line
        BY <4>1
      <4> QED
        BY <4>2 DEF Line
    <3>4. spool'[i].op <= q
      <4>1. PICK o \in Nat : o = spool'[i].op
        BY <3>3
      <4> SUFFICES ASSUME o > q PROVE FALSE
        BY <4>1
      <4>2. q + 1 \in 1..o
        OBVIOUS
      <4> QED
        BY <2>k, <3>2, <4>1, <4>2
    <3>5. Log[i] = spool'[i].op
      BY <1>s, <3>1
    <3> QED
      BY <2>k, <3>3, <3>4, <3>5
  <2> HIDE DEF Log
  <2>7. Timeline!Advance
    BY <1>l, <2>3, <2>k, <2>4, <2>5, <2>6 DEF Timeline!Advance, Timeline!Covers, Log
  <2> QED
    BY <2>7 DEF Timeline!Next
<1> QED
  BY <1>1, <1>2

\* The directory session keeps the abstract promise to readers: what its watermark
\* covers names only operations that no power failure can take.
THEOREM SessionImplementsTimeline ==
  ASSUME LinksSynced, ~TornSync
  PROVE  Spec => ImplementsTimeline
<1>1. Spec => []SessionInv
  BY SessionInvariance
<1> QED
  BY <1>1, TimelineInit, TimelineStep, PTL DEF Spec, ImplementsTimeline, Timeline!Spec

=============================================================================
