------------------------------ MODULE LocalJournal ------------------------------
(***************************************************************************)
(* The spool file every event is accepted into, over the life of several   *)
(* daemons given the same path: how NdjsonSink (crates/rrjj-sinks/src/     *)
(* journal.rs) and DirectorySessionSink (local.rs) open, append to and     *)
(* sync it, what a failed append leaves in it, and what process deaths and *)
(* power failures do to it.                                                *)
(*                                                                         *)
(* backend is the daemon's durable mode (rrjj/src/main.rs): "spool" is an  *)
(* NdjsonSink without a session, "remote" the NdjsonSink of the Git and    *)
(* HTTP sinks, bound to its session, "local" a DirectorySessionSink.       *)
(*                                                                         *)
(* A line is an event or Torn, which is no JSON.  frag is what the file    *)
(* holds behind its last newline: nothing, Torn, or an event that lacks    *)
(* only its newline.  Sizes are counted in lines.  The coordinator numbers *)
(* its events from 0 in every daemon; an event it was refused it offers    *)
(* again, or another one with the same number (body tells them apart).     *)
(***************************************************************************)
EXTENDS Naturals, Sequences, FiniteSets, SequencesExt

CONSTANTS
  Backends,    \* the modes to look at
  Bodies,      \* what events with one number may differ in
  MaxSpool,    \* max_spool_bytes, in lines
  Torn, None,  \* model values: text that is no JSON; no event, or no text
  MaxRuns,     \* bound: daemons started one after the other
  MaxEvents,   \* bound: events of one daemon
  MaxFaults    \* bound: failed appends, syncs and power failures

ASSUME JournalAssumption ==
  /\ Backends \subseteq {"spool", "remote", "local"}
  /\ {MaxSpool, MaxRuns, MaxEvents, MaxFaults} \subseteq Nat

VARIABLES
  backend,   \* the mode, the same for all daemons
  lines,     \* the file, line by line, as any process sees it
  frag,      \* what follows the last newline: None, Torn or an event
  safe,      \* how many lines a power failure cannot take
  phase,     \* the daemon: down, starting, running
  run,       \* its number
  sid,       \* its session id
  seq,       \* the coordinator's next sequence number
  writing,   \* the event whose line is written and not yet synced, or None
  accepted,  \* NdjsonSink.accepted
  bytes,     \* the sink's count of the file's size
  failed,    \* DirectoryState.failed
  faults,    \* failures so far
  sound,     \* history: nothing has happened the sink does not claim to handle
  vouched,   \* history: events accepted while sound
  offered    \* history: events some emit() returned Ok for

fileVars == <<lines, frag, safe>>
sinkVars == <<writing, accepted, bytes, failed>>
historyVars == <<sound, vouched, offered>>
journalVars == <<backend, fileVars, phase, run, sid, seq, sinkVars, faults, historyVars>>

Events ==
  [run: 1..MaxRuns, sid: 1..MaxRuns, seq: 0..MaxEvents, body: Bodies]

\* Slip: a daemon numbers its events on from the lines it finds.
Event_FromFile(body) == [run |-> run, sid |-> sid, seq |-> Len(lines), body |-> body]

\* The daemon's next event.
Event(body) == [run |-> run, sid |-> sid, seq |-> seq, body |-> body]

ASSUME MarkAssumption == Torn \notin Events /\ None \notin Events /\ Torn # None

\* Every line is an event, numbered from 0, all of one session.
Numbered(ls) ==
  \A i \in DOMAIN ls :
    ls[i] # Torn /\ ls[i].seq = i - 1 /\ ls[i].sid = ls[1].sid

\* The file split at its newlines, the last of which may be missing.
Text == IF frag = None THEN lines ELSE Append(lines, frag)

\* parse_event_spool() accepts the file for a session; it insists on the newline.
Parses(id) ==
  frag = None /\ Numbered(lines) /\ \A i \in DOMAIN lines : lines[i].sid = id

\* The size of the file, in lines.
Size == Len(Text)

\* A size the sink allows.  create() opens the spool of a daemon without durable
\* backends with no limit at all.
Allowed(size) == backend = "spool" \/ size <= MaxSpool

JournalInit ==
  /\ backend \in Backends
  /\ lines = <<>> /\ frag = None /\ safe = 0
  /\ phase = "down" /\ run = 0 /\ sid = 0 /\ seq = 0
  /\ writing = None /\ accepted = <<>> /\ bytes = 0 /\ failed = FALSE
  /\ faults = 0
  /\ sound = TRUE /\ vouched = {} /\ offered = {}

Fault == faults < MaxFaults /\ faults' = faults + 1

-----------------------------------------------------------------------------
(* Starting *)

\* create_for_session(), create_bounded(), DirectorySessionSink::create(): the
\* session is a new one or, when the operator reuses an id, an earlier one.  A
\* sink that refuses the file ends the daemon and changes nothing.
Open(id) ==
  /\ phase = "down" /\ run < MaxRuns
  /\ id \in 1..(run + 1)
  /\ backend = "remote" => Parses(id)
  /\ Allowed(Size)
  /\ run' = run + 1 /\ sid' = id /\ seq' = 0
  /\ accepted' = IF backend = "remote" THEN lines ELSE <<>>
  /\ bytes' = Size
  /\ writing' = None /\ failed' = FALSE
  /\ phase' = "starting"
  /\ sound' = (backend = "remote" \/ frag = None)
  /\ UNCHANGED <<backend, fileVars, faults, vouched, offered>>

-----------------------------------------------------------------------------
(* emit() *)

\* Slip: a journal takes whatever number comes.
Takes_AnySeq == backend = "local" => ~failed

\* Slip: a sink that failed goes on.
Takes_AfterFailure == backend # "local" => seq = Len(accepted)

\* What emit() tests before it writes: the next number in a journal, an earlier
\* failure in a directory session.
Takes == IF backend = "local" THEN ~failed ELSE seq = Len(accepted)

HasRoom == Allowed(bytes + 1)

Emitting == phase # "down" /\ writing = None /\ seq < MaxEvents

\* write_all() and flush(): the line is in the file.  It continues a line that
\* was left incomplete.
AppendLine(body) ==
  /\ Emitting /\ Takes /\ HasRoom
  /\ lines' = Append(lines, IF frag = None THEN Event(body) ELSE Torn)
  /\ frag' = None
  /\ writing' = Event(body)
  /\ UNCHANGED <<backend, safe, phase, run, sid, seq, accepted, bytes, failed,
                 faults, historyVars>>

\* sync_data(): accepted, and the coordinator's emit_exact() moves on.
Accept ==
  /\ writing # None
  /\ safe' = Len(lines)
  /\ accepted' = Append(accepted, writing)
  /\ bytes' = bytes + 1
  /\ seq' = seq + 1
  /\ phase' = "running"
  /\ offered' = offered \union {writing}
  /\ vouched' = IF sound THEN vouched \union {writing} ELSE vouched
  /\ writing' = None
  /\ UNCHANGED <<backend, lines, frag, run, sid, failed, faults, sound>>

\* What a process takes with it.
Forget ==
  /\ phase' = "down"
  /\ writing' = None /\ accepted' = <<>> /\ bytes' = 0 /\ failed' = FALSE
  /\ UNCHANGED <<backend, run, sid, seq, vouched, offered>>

\* An emit() that returns an error: a daemon that starts gives up, a running one
\* keeps its number.
EmitFails ==
  IF phase = "starting"
    THEN Forget
    ELSE /\ failed' = (backend = "local")
         /\ writing' = None
         /\ UNCHANGED <<backend, phase, run, sid, seq, accepted, bytes, vouched, offered>>

\* The write fails: nothing is written, part of the line, or all but its newline.
WriteFails ==
  /\ Emitting /\ Takes /\ HasRoom /\ Fault
  /\ \/ frag' \in {frag, Torn}
     \/ frag = None /\ \E body \in Bodies : frag' = Event(body)
  /\ sound' = (sound /\ (backend = "local" \/ frag' = frag))
  /\ EmitFails
  /\ UNCHANGED <<lines, safe>>

\* The sync fails, the line written.
SyncFails ==
  /\ writing # None /\ Fault
  /\ EmitFails
  /\ UNCHANGED <<fileVars, sound>>

\* emit() refuses the first event of a daemon, which ends.
StartRefused ==
  /\ phase = "starting" /\ Emitting /\ ~(Takes /\ HasRoom)
  /\ Forget
  /\ UNCHANGED <<fileVars, faults, sound>>

\* flush(): sync_all() of whatever is there.
FlushSpool ==
  /\ phase = "running" /\ writing = None
  /\ backend = "local" => ~failed
  /\ safe' = Len(lines)
  /\ UNCHANGED <<backend, lines, frag, phase, run, sid, seq, sinkVars, faults,
                 historyVars>>

-----------------------------------------------------------------------------
(* Ends *)

\* The daemon ends, in order or not; the file stays as it is.
Stop ==
  /\ phase # "down"
  /\ Forget
  /\ UNCHANGED <<fileVars, faults, sound>>

\* The machine loses power: what was not synced may be gone, cut at any byte.
PowerFails ==
  /\ Fault
  /\ \E n \in safe..Len(lines) :
       /\ lines' = SubSeq(lines, 1, n)
       /\ \/ frag' = None
          \/ n < Len(Text) /\ frag' \in {Torn, Text[n + 1]}
       /\ safe' = n
  /\ Forget
  /\ UNCHANGED sound

JournalNext ==
  \/ \E id \in 1..MaxRuns : Open(id)
  \/ \E body \in Bodies : AppendLine(body)
  \/ Accept \/ WriteFails \/ SyncFails \/ StartRefused \/ FlushSpool
  \/ Stop \/ PowerFails

JournalSpec == JournalInit /\ [][JournalNext]_journalVars

-----------------------------------------------------------------------------
(* Properties *)

JournalTypeOK ==
  /\ backend \in Backends
  /\ lines \in Seq(Events \union {Torn}) /\ safe \in 0..Len(lines)
  /\ frag \in Events \union {Torn, None}
  /\ phase \in {"down", "starting", "running"}
  /\ run \in 0..MaxRuns /\ sid \in 0..run /\ seq \in 0..MaxEvents
  /\ writing \in Events \union {None}
  /\ accepted \in Seq(Events) /\ bytes \in Nat /\ Allowed(bytes) /\ failed \in BOOLEAN
  /\ faults \in 0..MaxFaults
  /\ sound \in BOOLEAN /\ vouched \subseteq offered /\ offered \subseteq Events

SafeLines == {lines[i] : i \in 1..safe}

\* An accepted event is a line of the file that no power failure takes, and no
\* later daemon destroys, unless its daemon continued a file cut inside a line
\* (which a journal bound to a session refuses) or went on after a failed append
\* left something (which a directory session refuses).
AcceptedStayReadable == vouched \subseteq SafeLines

\* A file a reader finds numbered without a gap is the recording of one daemon,
\* and all of it but perhaps its last line was accepted, however many daemons
\* and sessions wrote to it and whatever failed: validateTimeline() is enough,
\* though parseNdjson() also takes a last line without its newline.
NumberedIsOneRecording ==
  Numbered(Text) =>
    \A i \in DOMAIN Text :
      Text[i].run = Text[1].run /\ (i < Len(Text) => Text[i] \in offered)

\* The journal of the remote sinks holds the events of one daemon: a later one
\* is refused, by the file or by its first emit(), unless nothing was written.
JournalOfOneDaemon ==
  backend = "remote" =>
    \A i, j \in DOMAIN lines :
      lines[i] # Torn /\ lines[j] # Torn => lines[i].run = lines[j].run

\* A directory session never grows past max_spool_bytes, also when appends fail:
\* the count kept in memory is not behind the file when it goes on.
SpoolWithinLimit == backend = "local" => Size <= MaxSpool

\* An event for which emit() returned Ok is a line of the spool.
SpoolHoldsAccepted == offered \subseteq {lines[i] : i \in DOMAIN lines}

-----------------------------------------------------------------------------
(* The inductive invariants behind these properties *)

\* The daemon's n-th event.
IsEvent(e, n) == e.run = run /\ e.sid = sid /\ e.seq = n

\* The lines that the daemon's accepted events and the one being written took.
Written == seq + (IF writing = None THEN 0 ELSE 1)

\* A daemon that is up has a number and a session; it accepted its events in order,
\* and the line it writes is the last of the file, cut or not.
DaemonInv ==
  /\ phase # "down" => run > 0 /\ sid > 0 /\ Len(accepted) >= seq
  /\ phase = "starting" => seq = 0
  /\ phase = "running" => seq > 0 /\ Last(accepted) \in offered
                                 /\ IsEvent(Last(accepted), seq - 1)
  /\ writing # None =>
       /\ phase # "down" /\ seq < MaxEvents /\ Allowed(bytes + 1) /\ Len(lines) > 0
       /\ IsEvent(writing, seq) /\ lines[Len(lines)] \in {writing, Torn}

\* While the sink claims the file is in order, no line is joined to a part of one.
SoundInv ==
  /\ sound /\ phase # "down" => frag = None \/ (backend = "local" /\ failed)
  /\ sound /\ writing # None => lines[Len(lines)] = writing
  /\ AcceptedStayReadable

\* The first n lines are events, numbered from 0, of one session.
NumberedUpTo(n) ==
  \A i \in 1..n : Text[i] # Torn /\ Text[i].seq = i - 1 /\ Text[i].sid = Text[1].sid

\* A file no longer than what the daemon wrote is the daemon's alone, so whoever
\* goes on with the next number wrote all the numbers before.
OwnFileInv ==
  phase # "down" =>
    /\ Len(lines) >= Written
    /\ Len(lines) = Written =>
         \A i \in 1..seq : lines[i] # Torn => lines[i] \in offered /\ lines[i].run = run

\* NumberedIsOneRecording for every part of the file that a power failure may leave.
PrefixInv ==
  \A n \in 1..Len(Text) : NumberedUpTo(n) =>
    \A i \in 1..n : Text[i].run = Text[1].run /\ (i < n => Text[i] \in offered)

\* A journal's daemon found it empty, or can write nothing; what the first daemon
\* wrote first stays.
OneDaemonInv ==
  backend = "remote" =>
    /\ \A i, j \in 1..Len(lines) :
         lines[i] # Torn /\ lines[j] # Torn => lines[i].run = lines[j].run
    /\ phase # "down" =>
         \/ seq = 0 /\ accepted # <<>> /\ writing = None
         \/ /\ Len(accepted) = seq
            /\ \A i \in 1..Len(lines) : lines[i] # Torn => lines[i].run = run
    /\ phase = "starting" => /\ frag = None
                             /\ writing = None => lines = accepted
                             /\ writing # None => lines = <<writing>>
    /\ \A e \in offered : safe > 0 /\ lines[1] # Torn /\ lines[1].run = e.run

\* A directory session counts no less than the file holds until an append fails.
LimitInv ==
  backend = "local" =>
    /\ Size <= MaxSpool
    /\ phase # "down" /\ ~failed =>
         Size <= bytes + (IF writing = None THEN 0 ELSE 1)

JournalInv ==
  JournalTypeOK /\ DaemonInv /\ SoundInv /\ OwnFileInv /\ PrefixInv /\ OneDaemonInv /\ LimitInv
=============================================================================
