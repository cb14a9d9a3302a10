---------------------------- MODULE DirectorySession ----------------------------
(***************************************************************************)
(* DirectorySessionSink (crates/rrjj-sinks/src/local.rs): the synced spool *)
(* that accepts events, and the publication of a directory session, with   *)
(* power failures at any point and a reader opening the session at any     *)
(* point (Session::open() of crates/rrjj-reader/src/lib.rs).               *)
(*                                                                         *)
(* The file system is modelled by what survives a power failure: a rename  *)
(* or a link is visible at once and safe when its directory is synced; a   *)
(* change not yet safe may or may not be there afterwards.                 *)
(*                                                                         *)
(* Operations are numbered.  The immutable repository files an operation   *)
(* added are one object, in a directory of its own; opening operation n    *)
(* needs the objects up to n.  Mutable repository files are *)
(* left out: the reader loads operations by id and reads no head.          *)
(***************************************************************************)
EXTENDS Naturals, Sequences, FiniteSets, Functions, FiniteSetsExt

CONSTANTS
  LinksSynced, \* do jj and Git sync the objects they write to the shadow?
  TornSync,    \* may a flush fail between placing a file and syncing directories?
  MaxOps,      \* bound: operations
  MaxEvents,   \* bound: lines of the spool
  MaxFaults    \* bound: failed calls

ASSUME DirectorySwitches == LinksSynced \in BOOLEAN /\ TornSync \in BOOLEAN
ASSUME DirectoryBounds == {MaxOps, MaxEvents, MaxFaults} \subseteq Nat

VARIABLES
  spool,     \* lines of the spool file: [seq, op]; op 0 names none
  state,     \* DirectoryState: [last, durable, failed], counted in events
  op,        \* newest operation of the shadow
  pc,        \* where the sink is
  flushing,  \* is the event being emitted that of a flush?
  store,     \* objects visible under session/store/repo
  dirty,     \* objects whose directory is in dirty_directories
  safe,      \* objects whose directory entry is safe
  intact,    \* objects whose content is safe
  lost,      \* objects there with their content lost
  events,    \* events objects visible: name (a count) |-> lines copied
  eventsSafe,\* the names among them that are safe
  manifest,  \* the manifest.json visible: [last, durable]
  manifests, \* those a power failure may leave
  promised,  \* the watermark of the last flush that returned Ok
  reader,    \* a reader: [pc, manifest]
  faults     \* failed calls so far

sinkVars == <<spool, state, op, pc, flushing, promised>>
repoVars == <<store, dirty, safe, intact, lost>>
fileVars == <<events, eventsSafe, manifest, manifests>>
vars == <<sinkVars, repoVars, fileVars, reader, faults>>

NoManifest == [last |-> 0, durable |-> 0]

\* What the manifest says of a state.
Manifest(s) == [last |-> s.last, durable |-> s.durable]

Shadow == 1..op

Init ==
  /\ spool = <<>> /\ state = [last |-> 0, durable |-> 0, failed |-> FALSE] /\ op = 0
  /\ pc = "idle" /\ flushing = FALSE
  /\ store = {} /\ dirty = {} /\ safe = {} /\ intact = {} /\ lost = {}
  /\ events = [n \in {} |-> 0] /\ eventsSafe = {}
  /\ manifest = NoManifest /\ manifests = {NoManifest}
  /\ promised = 0
  /\ reader = [pc |-> "idle", manifest |-> NoManifest]
  /\ faults = 0

Fault == faults < MaxFaults /\ faults' = faults + 1

\* A rename of manifest.json: visible, and safe or not at a power failure.
PutManifest(m) ==
  /\ manifest' = m
  /\ manifests' = manifests \union {m}

-----------------------------------------------------------------------------
(* emit() *)

\* The line is appended and synced, or the append fails: then the sink has
\* failed for good, and the line may be there all the same.
AppendLine(line) ==
  \/ /\ spool' = Append(spool, line)
     /\ state' = [state EXCEPT !.last = line.seq + 1]
     /\ pc' = "observe"
     /\ UNCHANGED faults
  \/ /\ Fault
     /\ spool' \in {spool, Append(spool, line)}
     /\ state' = [state EXCEPT !.failed = TRUE]
     /\ pc' = "idle"

CanEmit == pc = "idle" /\ ~state.failed /\ Len(spool) < MaxEvents

\* The coordinator captured an operation and emits its event; the first is
\* session_start with the baseline.
EmitCheckpoint ==
  /\ CanEmit /\ op < MaxOps
  /\ op' = op + 1 /\ flushing' = FALSE
  /\ AppendLine([seq |-> state.last, op |-> op + 1])
  /\ UNCHANGED <<promised, repoVars, fileVars, reader>>

\* flush_durable() emits its flush event.
EmitFlush ==
  /\ CanEmit /\ state.last > 0
  /\ flushing' = TRUE
  /\ AppendLine([seq |-> state.last, op |-> 0])
  /\ UNCHANGED <<op, promised, repoVars, fileVars, reader>>

\* write_manifest_atomic() of the observed manifest, up to the rename.
Observe ==
  /\ pc = "observe"
  /\ PutManifest(Manifest(state))
  /\ pc' = "observed"
  /\ UNCHANGED <<spool, state, op, flushing, promised, repoVars, events,
                 eventsSafe, reader, faults>>

\* The emit returns Ok, also when the observed manifest could not be written.
Observed ==
  /\ \/ pc = "observed" /\ manifests' = {manifest} /\ UNCHANGED faults
     \/ pc \in {"observe", "observed"} /\ Fault /\ UNCHANGED manifests
  /\ pc' = IF flushing THEN "repo" ELSE "idle"
  /\ dirty' = {}
  /\ UNCHANGED <<spool, state, op, flushing, promised, store, safe, intact,
                 lost, events, eventsSafe, manifest, reader>>

-----------------------------------------------------------------------------
(* flush_session(): sync_directory_session() *)

\* sync_repository_file(): an object already there is reused as it is; another
\* is linked or, when that fails, copied and synced.
PlaceObject(n) ==
  /\ pc = "repo" /\ n \in Shadow \ store
  /\ store' = store \union {n}
  /\ dirty' = dirty \union {n}
  /\ intact' \in IF LinksSynced THEN {intact \union {n}}
                                ELSE {intact, intact \union {n}}
  /\ UNCHANGED <<sinkVars, safe, lost, fileVars, reader, faults>>

\* Slip: publication goes on without sync_directories().
SyncDirectories_Skipped ==
  /\ pc = "repo" /\ Shadow \subseteq store
  /\ pc' = "events"
  /\ UNCHANGED <<spool, state, op, flushing, promised, repoVars, fileVars,
                 reader, faults>>

\* sync_directories(): only the directories this flush changed are synced.
SyncDirectories ==
  /\ pc = "repo" /\ Shadow \subseteq store
  /\ safe' = safe \union dirty
  /\ pc' = "events"
  /\ UNCHANGED <<spool, state, op, flushing, promised, store, dirty, intact,
                 lost, fileVars, reader, faults>>

\* Slip: the events object is not made before the manifest names it.
CopyEvents_Skipped ==
  /\ pc = "events"
  /\ pc' = "publish"
  /\ UNCHANGED <<spool, state, op, flushing, promised, repoVars, fileVars,
                 reader, faults>>

\* The spool is copied to events/<last_seq>.ndjson unless that name exists.
CopyEvents ==
  /\ pc = "events"
  /\ IF state.last \in DOMAIN events
       THEN pc' = "publish" /\ UNCHANGED events
       ELSE /\ events' = [n \in DOMAIN events \union {state.last} |->
                            IF n = state.last THEN Len(spool) ELSE events[n]]
            /\ pc' = "copied"
  /\ UNCHANGED <<spool, state, op, flushing, promised, repoVars, eventsSafe,
                 manifest, manifests, reader, faults>>

\* Slip: the directory of the events object is not synced.
SyncEvents_Skipped ==
  /\ pc = "copied"
  /\ pc' = "publish"
  /\ UNCHANGED <<spool, state, op, flushing, promised, repoVars, fileVars,
                 reader, faults>>

\* The events directory and the session directory are synced.
SyncEvents ==
  /\ pc = "copied"
  /\ eventsSafe' = DOMAIN events
  /\ manifests' = {manifest}
  /\ pc' = "publish"
  /\ UNCHANGED <<spool, state, op, flushing, promised, repoVars, events,
                 manifest, reader, faults>>

\* The cursor is written (nobody reads it), then the manifest is renamed into
\* place with the new watermark.
Publish ==
  /\ pc = "publish"
  /\ PutManifest([Manifest(state) EXCEPT !.durable = state.last])
  /\ pc' = "published"
  /\ UNCHANGED <<spool, state, op, flushing, promised, repoVars, events,
                 eventsSafe, reader, faults>>

\* Slip: the watermark is counted past the last event.
ReturnOk_PastEnd ==
  /\ pc = "published"
  /\ manifests' = {manifest}
  /\ state' = [state EXCEPT !.durable = state.last + 1]
  /\ promised' = state.last
  /\ pc' = "idle"
  /\ UNCHANGED <<spool, op, flushing, repoVars, events, eventsSafe, manifest,
                 reader, faults>>

\* The session directory is synced, the state updated, the flush returns Ok.
ReturnOk ==
  /\ pc = "published"
  /\ manifests' = {manifest}
  /\ state' = [state EXCEPT !.durable = state.last]
  /\ promised' = state.last
  /\ pc' = "idle"
  /\ UNCHANGED <<spool, op, flushing, repoVars, events, eventsSafe, manifest,
                 reader, faults>>

\* A call of the flush fails: it returns an error with the state unchanged, and
\* what it has already placed stays.
FlushFails ==
  /\ pc \in {"repo", "events", "copied", "publish", "published"}
  /\ pc = "repo" => TornSync \/ dirty = {}
  /\ Fault
  /\ pc' = "idle"
  /\ UNCHANGED <<spool, state, op, flushing, promised, repoVars, fileVars,
                 reader>>

-----------------------------------------------------------------------------
(* Power failures *)

\* The power fails.  An object that is there without safe content may have lost
\* it.  Only readers go on: a later daemon is not modelled.
Crash ==
  /\ pc # "off"
  /\ pc' = "off"
  /\ \E kept \in SUBSET (store \ safe) : store' = safe \union kept
  /\ \E gone \in SUBSET (store' \ intact) : lost' = lost \union gone
  /\ safe' = store' /\ intact' = intact \union store' /\ dirty' = {}
  /\ \E kept \in SUBSET (DOMAIN events \ eventsSafe) :
       events' = Restrict(events, eventsSafe \union kept)
  /\ eventsSafe' = DOMAIN events'
  /\ manifest' \in manifests /\ manifests' = {manifest'}
  /\ reader' = [pc |-> "idle", manifest |-> NoManifest]
  /\ UNCHANGED <<spool, state, op, flushing, promised, faults>>

-----------------------------------------------------------------------------
(* Session::open() and the operations of the reader *)

\* Timeline::read() and the check against the watermark accept the events object
\* a manifest names.
Opens(m) ==
  /\ m.durable \in DOMAIN events
  /\ events[m.durable] = m.durable
  /\ \A i \in 1..m.durable : spool[i].seq = i - 1

\* Every operation of the durable prefix can be loaded.
Loads(m) ==
  \A i \in 1..m.durable : spool[i].op > 0 => spool[i].op \in store \ lost

\* manifest.json is read; without a watermark the session is not durable.
ReadManifest ==
  /\ reader.pc = "idle" /\ manifest.durable > 0
  /\ reader' = [pc |-> "events", manifest |-> manifest]
  /\ UNCHANGED <<sinkVars, repoVars, fileVars, faults>>

\* The events object is opened and checked.
ReadEvents ==
  /\ reader.pc = "events"
  /\ reader' = [reader EXCEPT !.pc = IF Opens(reader.manifest) THEN "repo"
                                                               ELSE "failed"]
  /\ UNCHANGED <<sinkVars, repoVars, fileVars, faults>>

\* diff() and materialize() load the operations.
ReadRepository ==
  /\ reader.pc = "repo"
  /\ reader' = [reader EXCEPT !.pc = IF Loads(reader.manifest) THEN "idle"
                                                               ELSE "failed"]
  /\ UNCHANGED <<sinkVars, repoVars, fileVars, faults>>

-----------------------------------------------------------------------------
Emit == EmitCheckpoint \/ EmitFlush \/ Observe \/ Observed

FlushStep ==
  \/ \E n \in Shadow : PlaceObject(n)
  \/ SyncDirectories \/ CopyEvents \/ SyncEvents \/ Publish \/ ReturnOk
  \/ FlushFails

Read == ReadManifest \/ ReadEvents \/ ReadRepository

Next == Emit \/ FlushStep \/ Crash \/ Read

Spec == Init /\ [][Next]_vars

-----------------------------------------------------------------------------
(* Properties *)

\* Type invariant: counts stay within the lines of the spool.
TypeOK ==
  /\ spool \in Seq([seq : 0..MaxEvents, op : 0..MaxOps])
  /\ state \in [last : 0..Len(spool), durable : 0..Len(spool), failed : BOOLEAN]
  /\ op \in 0..MaxOps
  /\ pc \in {"idle", "observe", "observed", "repo", "events", "copied", "publish",
             "published", "off"}
  /\ flushing \in BOOLEAN
  /\ {store, dirty, safe, intact, lost} \subseteq SUBSET (1..MaxOps)
  /\ events \in [DOMAIN events -> 1..Len(spool)] /\ DOMAIN events \subseteq 1..MaxEvents
  /\ eventsSafe \subseteq DOMAIN events
  /\ manifests \subseteq [last : Nat, durable : Nat]
  /\ manifest \in manifests
  /\ promised \in 0..Len(spool)
  /\ reader \in [pc : {"idle", "events", "repo", "failed"},
                 manifest : [last : Nat, durable : Nat]]
  /\ faults \in 0..MaxFaults

\* "A crash or concurrent reader sees either the previous manifest and its
\* still-present event object, or the new complete publication": whatever
\* manifest a reader finds, it can go on and open what that names.
ReaderNeverFails == reader.pc # "failed"

\* What a successful flush promised is kept: its watermark does not go back, and
\* its prefix can be opened and every operation in it loaded, also after a power
\* failure and also when a later flush failed half-way.
FlushSurvives ==
  promised > 0 =>
    /\ manifest.durable >= promised
    /\ Opens(manifest) /\ Loads(manifest)

\* The promise to readers, with the watermark of the last successful flush: what
\* counts as stored is what a power failure cannot take away.
Kept == CHOOSE n \in 0..MaxOps :
          /\ 1..n \subseteq (safe \intersect intact) \ lost
          /\ n + 1 \notin (safe \intersect intact) \ lost
Timeline ==
  INSTANCE DurableTimeline
    WITH log     <- [i \in 1..state.last |-> spool[i].op],
         stored  <- Kept,
         durable <- promised
ImplementsTimeline == Timeline!Spec

-----------------------------------------------------------------------------
(* The inductive invariants behind these properties *)

\* The spool is numbered and names no operation before it is captured.  A sink
\* that failed, perhaps with a line too many, never gets past emit().
SpoolInv ==
  /\ Len(spool) <= MaxEvents /\ Len(spool) <= state.last + 1
  /\ \A i \in 1..Len(spool) : spool[i].seq = i - 1 /\ spool[i].op <= op
  /\ ~state.failed => Len(spool) = state.last
  /\ pc \notin {"idle", "off"} => ~state.failed /\ state.last > 0

\* An events object holds what its name says, and the name a flush will use is
\* new until it is copied.
EventsInv ==
  /\ \A n \in DOMAIN events : n <= state.last /\ events[n] = n
  /\ pc \in {"observe", "observed", "repo", "events"} => state.last \notin DOMAIN events
  /\ pc = "copied" => state.last \in DOMAIN events
  /\ pc \in {"publish", "published"} => state.last \in eventsSafe

\* Outside the repository pass every object is safe, its content included, and
\* behind the pass every operation is there.
RepoInv ==
  /\ safe \subseteq store /\ store \subseteq intact /\ lost = {}
  /\ store \subseteq IF pc = "repo" THEN safe \union dirty ELSE safe
  /\ dirty \subseteq store
  /\ pc \in {"events", "copied", "publish", "published"} => Shadow \subseteq safe

\* A watermark of n was published: its events object is safe, and so is every
\* operation up to those it names.
Secured(n) ==
  n > 0 =>
    /\ n <= state.last /\ n \in eventsSafe
    /\ \A i \in 1..n : 1..spool[i].op \subseteq safe

\* Every manifest a reader may find, now or after a power failure, is secured
\* and keeps what was promised.
ManifestInv ==
  /\ \A m \in manifests : Secured(m.durable) /\ promised <= m.durable
  /\ promised <= state.last /\ state.durable = promised /\ Secured(promised)
  /\ pc = "published" => manifest.durable = state.last
  /\ reader.pc \in {"events", "repo"} => reader.manifest.durable > 0 /\ Secured(reader.manifest.durable)
  /\ reader.pc # "failed"

=============================================================================
