---------------------------- MODULE LiveFeed_proofs ----------------------------
(***************************************************************************)
(* Proofs about LocalJournal and LiveFeed: what the spool file holds, over *)
(* any number of daemons, failures and power cuts, and what a browser that *)
(* follows the live stream and loads spool files shows of it.              *)
(*                                                                         *)
(* The journal's invariants are proved for its own steps; the feed takes   *)
(* those steps or leaves the journal alone, and adds its own invariant.    *)
(***************************************************************************)
EXTENDS LiveFeed, FiniteSetTheorems, TLAPS

USE DEF journalVars, fileVars, sinkVars, historyVars

LEMMA EventTyped ==
  ASSUME JournalTypeOK, phase # "down", run > 0, sid > 0, NEW body \in Bodies
  PROVE  Event(body) \in Events
BY JournalAssumption DEF JournalTypeOK, Event, Events

LEMMA FailedEmit ==
  EmitFails <=>
    \/ phase = "starting" /\ Forget
    \/ /\ phase # "starting"
       /\ failed' = (backend = "local")
       /\ writing' = None
       /\ UNCHANGED <<backend, phase, run, sid, seq, accepted, bytes, vouched, offered>>
BY DEF EmitFails

\* The file's text: its lines, and what follows the last newline.
LEMMA TextOf ==
  ASSUME NEW ls \in Seq(Events \union {Torn}), NEW rest \in Events \union {Torn, None},
         NEW text, text = IF rest = None THEN ls ELSE Append(ls, rest)
  PROVE  /\ text \in Seq(Events \union {Torn}) /\ Len(ls) \in Nat
         /\ Len(text) = Len(ls) + (IF rest = None THEN 0 ELSE 1)
         /\ \A i \in 1..Len(ls) : text[i] = ls[i]
         /\ rest # None => text[Len(ls) + 1] = rest
OBVIOUS

-----------------------------------------------------------------------------
(* Types *)

LEMMA JournalTypes ==
  ASSUME JournalTypeOK, DaemonInv, [JournalNext]_journalVars
  PROVE  JournalTypeOK'
<1>b. {MaxSpool, MaxRuns, MaxEvents, MaxFaults} \subseteq Nat
  BY JournalAssumption
<1>1. ASSUME NEW id \in 1..MaxRuns, Open(id) PROVE JournalTypeOK'
  <2>1. lines \in Seq(Events) \/ backend # "remote"
    BY <1>1 DEF Open, JournalTypeOK, Parses, Numbered
  <2>2. accepted' \in Seq(Events)
    BY <1>1, <2>1 DEF Open
  <2>3. Size \in Nat /\ Allowed(Size)
    <3>1. Len(Text) = Len(lines) + (IF frag = None THEN 0 ELSE 1) /\ Len(lines) \in Nat
      BY TextOf DEF JournalTypeOK, Text
    <3> QED
      BY <1>1, <3>1 DEF Open, Size
  <2>4. run' \in 0..MaxRuns /\ sid' \in 0..run'
    BY <1>1, <1>b DEF Open, JournalTypeOK
  <2>5. sound' \in BOOLEAN /\ failed' \in BOOLEAN
    BY <1>1 DEF Open
  <2>6. writing' = None /\ bytes' = Size /\ seq' = 0 /\ phase' = "starting"
        /\ UNCHANGED <<backend, fileVars, faults, vouched, offered>>
    BY <1>1 DEF Open
  <2> QED
    BY <1>b, <2>2, <2>3, <2>4, <2>5, <2>6 DEF JournalTypeOK, Allowed
<1>2. ASSUME NEW body \in Bodies, AppendLine(body) PROVE JournalTypeOK'
  <2>1. Event(body) \in Events
    BY <1>2, EventTyped DEF AppendLine, Emitting, DaemonInv
  <2>2. lines' \in Seq(Events \union {Torn}) /\ Len(lines') = Len(lines) + 1 /\ Len(lines) \in Nat
    BY <1>2, <2>1 DEF AppendLine, JournalTypeOK
  <2>3. safe' \in 0..Len(lines')
    BY <1>2, <2>2 DEF AppendLine, JournalTypeOK
  <2> QED
    BY <1>2, <2>1, <2>2, <2>3 DEF AppendLine, JournalTypeOK, Allowed
<1>3. CASE Accept
  <2>1. accepted' \in Seq(Events)
    BY <1>3 DEF Accept, JournalTypeOK
  <2>2. seq' \in 0..MaxEvents /\ bytes' \in Nat /\ Allowed(bytes)'
    BY <1>3, <1>b DEF Accept, JournalTypeOK, DaemonInv, Allowed
  <2>3. vouched' \subseteq offered' /\ offered' \subseteq Events
    BY <1>3 DEF Accept, JournalTypeOK
  <2>4. safe' \in 0..Len(lines')
    BY <1>3 DEF Accept, JournalTypeOK
  <2> QED
    BY <1>3, <2>1, <2>2, <2>3, <2>4 DEF Accept, JournalTypeOK
<1>f. Forget => /\ phase' = "down" /\ writing' = None /\ accepted' \in Seq(Events)
                /\ bytes' \in Nat /\ Allowed(bytes)' /\ failed' \in BOOLEAN
                /\ UNCHANGED <<backend, run, sid, seq, vouched, offered>>
  <2>1. <<>> \in Seq(Events) /\ 0 \in Nat /\ 0 <= MaxSpool /\ FALSE \in BOOLEAN
    BY <1>b
  <2> QED
    BY <2>1 DEF Forget, Allowed
<1>e. EmitFails => /\ phase' \in {"down", phase} /\ writing' = None
                   /\ accepted' \in Seq(Events)
                   /\ bytes' \in Nat /\ Allowed(bytes)' /\ failed' \in BOOLEAN
                   /\ UNCHANGED <<backend, run, sid, seq, vouched, offered>>
  BY <1>f, FailedEmit DEF JournalTypeOK, Allowed
<1>4. CASE WriteFails
  <2>1. faults' \in 0..MaxFaults
    BY <1>4, <1>b DEF WriteFails, Fault, JournalTypeOK
  <2>2. frag' \in Events \union {Torn, None} /\ sound' \in BOOLEAN
    <3>1. phase # "down"
      BY <1>4 DEF WriteFails, Emitting
    <3>2. \A body \in Bodies : Event(body) \in Events
      BY <3>1, EventTyped DEF DaemonInv
    <3> QED
      BY <1>4, <3>2 DEF WriteFails, JournalTypeOK
  <2> QED
    BY <1>4, <1>e, <2>1, <2>2 DEF WriteFails, JournalTypeOK
<1>5. CASE SyncFails
  <2>1. faults' \in 0..MaxFaults
    BY <1>5, <1>b DEF SyncFails, Fault, JournalTypeOK
  <2> QED
    BY <1>5, <1>e, <2>1 DEF SyncFails, JournalTypeOK
<1>6. CASE StartRefused \/ Stop
  BY <1>6, <1>f DEF StartRefused, Stop, JournalTypeOK
<1>7. CASE FlushSpool
  BY <1>7 DEF FlushSpool, JournalTypeOK, Allowed
<1>8. CASE PowerFails
  <2>1. faults' \in 0..MaxFaults
    BY <1>8, <1>b DEF PowerFails, Fault, JournalTypeOK
  <2>2. lines' \in Seq(Events \union {Torn}) /\ safe' \in 0..Len(lines')
        /\ frag' \in Events \union {Torn, None}
    <3>1. PICK n \in safe..Len(lines) :
            /\ lines' = SubSeq(lines, 1, n)
            /\ frag' = None \/ (n < Len(Text) /\ frag' \in {Torn, Text[n + 1]})
            /\ safe' = n
      BY <1>8 DEF PowerFails
    <3>2. n \in 0..Len(lines) /\ lines \in Seq(Events \union {Torn}) /\ Len(lines) \in Nat
      BY <3>1 DEF JournalTypeOK
    <3>3. lines' \in Seq(Events \union {Torn}) /\ Len(lines') = n
      BY <3>1, <3>2
    <3>4. frag' \in Events \union {Torn, None}
      <4>1. Text \in Seq(Events \union {Torn})
        BY TextOf DEF JournalTypeOK, Text
      <4>2. n < Len(Text) => Text[n + 1] \in Events \union {Torn}
        BY <3>2, <4>1
      <4> QED
        BY <3>1, <4>2
    <3> QED
      BY <3>1, <3>2, <3>3, <3>4
  <2> QED
    BY <1>8, <1>f, <2>1, <2>2 DEF PowerFails, JournalTypeOK
<1>9. CASE UNCHANGED journalVars
  BY <1>9 DEF JournalTypeOK, Allowed
<1> QED
  BY <1>1, <1>2, <1>3, <1>4, <1>5, <1>6, <1>7, <1>8, <1>9 DEF JournalNext

-----------------------------------------------------------------------------
(* The daemon that is up *)

\* A step that ends the daemon, or fails its emit(), in terms of what it leaves.
LEMMA DaemonEnds ==
  ASSUME Forget \/ EmitFails
  PROVE  /\ writing' = None /\ phase' \in {"down", phase}
         /\ UNCHANGED <<backend, run, sid, seq, vouched, offered>>
         /\ phase' # "down" =>
              /\ phase # "starting" /\ UNCHANGED <<accepted, bytes>>
              /\ backend = "local" => failed'
BY DEF Forget, EmitFails

LEMMA DaemonKept ==
  ASSUME JournalTypeOK, DaemonInv, [JournalNext]_journalVars
  PROVE  DaemonInv'
<1>b. {MaxSpool, MaxRuns, MaxEvents, MaxFaults} \subseteq Nat
  BY JournalAssumption
<1>1. ASSUME NEW id \in 1..MaxRuns, Open(id) PROVE DaemonInv'
  <2>1. run' > 0 /\ sid' > 0 /\ Len(accepted') >= seq'
    <3>1. run \in Nat /\ id > 0
      BY <1>b DEF JournalTypeOK
    <3>2. Len(accepted') \in Nat
      BY <1>1 DEF Open, JournalTypeOK
    <3> QED
      BY <1>1, <3>1, <3>2 DEF Open
  <2> QED
    BY <1>1, <2>1 DEF Open, DaemonInv
<1>2. ASSUME NEW body \in Bodies, AppendLine(body) PROVE DaemonInv'
  <2>1. writing' # None => IsEvent(writing, seq)'
    BY <1>2 DEF AppendLine, Event, IsEvent
  <2>2. Len(lines') > 0 /\ lines'[Len(lines')] \in {writing', Torn}
    BY <1>2 DEF AppendLine, JournalTypeOK
  <2>3. seq < MaxEvents /\ phase # "down" /\ Allowed(bytes + 1)
    BY <1>2 DEF AppendLine, Emitting, HasRoom
  <2> QED
    BY <1>2, <2>1, <2>2, <2>3 DEF AppendLine, DaemonInv, IsEvent, Allowed
<1>3. CASE Accept
  <2>1. writing \in Events /\ accepted \in Seq(Events) /\ seq \in Nat
    BY <1>3, <1>b DEF Accept, JournalTypeOK
  <2>2. Last(accepted') = writing /\ Len(accepted') = Len(accepted) + 1
    BY <1>3, <2>1 DEF Accept, Last
  <2>3. seq' = seq + 1 /\ seq' - 1 = seq /\ writing' = None /\ phase' = "running"
        /\ UNCHANGED <<run, sid>> /\ writing \in offered'
    BY <1>3, <2>1 DEF Accept
  <2>4. IsEvent(Last(accepted), seq - 1)'
    BY <1>3, <2>2, <2>3 DEF Accept, DaemonInv, IsEvent
  <2>5. run > 0 /\ sid > 0 /\ Len(accepted) >= seq
    BY <1>3 DEF Accept, DaemonInv
  <2> QED
    BY <2>1, <2>2, <2>3, <2>4, <2>5 DEF DaemonInv
<1>4. CASE WriteFails \/ SyncFails \/ StartRefused \/ Stop \/ PowerFails
  <2>1. Forget \/ EmitFails
    BY <1>4 DEF WriteFails, SyncFails, StartRefused, Stop, PowerFails
  <2> QED
    BY <2>1, DaemonEnds DEF DaemonInv, IsEvent
<1>5. CASE FlushSpool \/ UNCHANGED journalVars
  BY <1>5 DEF FlushSpool, DaemonInv, IsEvent, Allowed
<1> QED
  BY <1>1, <1>2, <1>3, <1>4, <1>5 DEF JournalNext

-----------------------------------------------------------------------------
(* The file *)

\* The lines before n are those of the file before.
SameUpTo(n) == n <= Len(lines) /\ n <= Len(lines') /\ \A i \in 1..n : lines'[i] = lines[i]

\* A step leaves what is safe, and unless the power fails all of the file.
LEMMA FileKept ==
  ASSUME JournalTypeOK, [JournalNext]_journalVars
  PROVE  /\ safe <= safe' /\ SameUpTo(safe)
         /\ ~PowerFails => SameUpTo(Len(lines))
<1>1. Len(lines) \in Nat /\ safe \in 0..Len(lines)
  BY DEF JournalTypeOK
<1>2. SameUpTo(Len(lines)) => SameUpTo(safe)
  BY <1>1 DEF SameUpTo
<1>3. ASSUME NEW body \in Bodies, AppendLine(body)
      PROVE  safe <= safe' /\ SameUpTo(Len(lines))
  BY <1>1, <1>3 DEF AppendLine, SameUpTo, JournalTypeOK
<1>4. CASE PowerFails
  <2>1. PICK n \in safe..Len(lines) : lines' = SubSeq(lines, 1, n) /\ safe' = n
    BY <1>4 DEF PowerFails
  <2>2. Len(lines') = n /\ \A i \in 1..n : lines'[i] = lines[i]
    BY <1>1, <2>1 DEF JournalTypeOK
  <2> QED
    BY <1>1, <1>4, <2>1, <2>2 DEF SameUpTo
<1>5. CASE (\E id \in 1..MaxRuns : Open(id)) \/ Accept \/ FlushSpool \/ WriteFails \/ SyncFails
             \/ StartRefused \/ Stop \/ UNCHANGED journalVars
  <2>1. lines' = lines /\ safe' \in {safe, Len(lines)}
    BY <1>5 DEF Open, Accept, FlushSpool, WriteFails, SyncFails, StartRefused, Stop
  <2>2. safe <= safe' /\ SameUpTo(Len(lines))
    BY <1>1, <2>1 DEF SameUpTo
  <2> QED
    BY <1>2, <2>2
<1> QED
  BY <1>2, <1>3, <1>4, <1>5 DEF JournalNext

\* What is safe stays safe.
LEMMA SafeKept ==
  ASSUME JournalTypeOK, JournalTypeOK', [JournalNext]_journalVars
  PROVE  SafeLines \subseteq SafeLines'
<1>1. safe \in Nat /\ safe' \in Nat
  BY DEF JournalTypeOK
<1> QED
  BY <1>1, FileKept DEF SafeLines, SameUpTo

LEMMA SoundKept ==
  ASSUME JournalTypeOK, JournalTypeOK', DaemonInv, SoundInv, [JournalNext]_journalVars
  PROVE  SoundInv'
<1>s. SafeLines \subseteq SafeLines'
  BY SafeKept
<1>t. Len(lines) \in Nat /\ safe \in 0..Len(lines)
  BY DEF JournalTypeOK
<1>1. CASE \E id \in 1..MaxRuns : Open(id)
  <2>1. sound' => frag = None
    BY <1>1 DEF Open, Parses
  <2>2. writing' = None /\ UNCHANGED <<frag, vouched>>
    BY <1>1 DEF Open
  <2> QED
    BY <1>s, <2>1, <2>2 DEF SoundInv, AcceptedStayReadable
<1>2. ASSUME NEW body \in Bodies, AppendLine(body) PROVE SoundInv'
  <2>1. sound => frag = None
    BY <1>2 DEF AppendLine, Emitting, Takes, SoundInv
  <2>2. sound => lines'[Len(lines')] = writing'
    BY <1>2, <1>t, <2>1 DEF AppendLine, JournalTypeOK
  <2> QED
    BY <1>2, <1>s, <2>2 DEF AppendLine, SoundInv, AcceptedStayReadable
<1>3. CASE Accept
  <2>1. Len(lines) > 0 /\ phase # "down"
    BY <1>3 DEF Accept, DaemonInv
  <2>2. sound => writing \in SafeLines'
    BY <1>3, <1>t, <2>1 DEF Accept, SoundInv, SafeLines
  <2>3. AcceptedStayReadable'
    BY <1>3, <1>s, <2>2 DEF Accept, SoundInv, AcceptedStayReadable
  <2> QED
    BY <1>3, <2>1, <2>3 DEF Accept, SoundInv
<1>4. CASE WriteFails
  <2>1. writing' = None /\ vouched' = vouched /\ backend' = backend
        /\ (phase' # "down" => phase' = phase /\ (backend = "local" => failed'))
    BY <1>4, DaemonEnds DEF WriteFails
  <2>2. sound' => sound /\ (backend = "local" \/ frag' = frag)
    BY <1>4 DEF WriteFails
  <2> QED
    BY <1>s, <2>1, <2>2 DEF SoundInv, AcceptedStayReadable
<1>5. CASE SyncFails \/ StartRefused \/ Stop
  <2>1. writing' = None /\ vouched' = vouched /\ backend' = backend
        /\ (phase' # "down" => phase' = phase /\ (backend = "local" => failed'))
    BY <1>5, DaemonEnds DEF SyncFails, StartRefused, Stop
  <2>2. frag' = frag /\ sound' = sound
    BY <1>5 DEF SyncFails, StartRefused, Stop
  <2> QED
    BY <1>s, <2>1, <2>2 DEF SoundInv, AcceptedStayReadable
<1>6. CASE PowerFails
  <2>1. writing' = None /\ vouched' = vouched /\ phase' = "down"
    BY <1>6 DEF PowerFails, Forget
  <2> QED
    BY <1>s, <2>1 DEF SoundInv, AcceptedStayReadable
<1>7. CASE FlushSpool \/ UNCHANGED journalVars
  BY <1>7, <1>s DEF FlushSpool, SoundInv, AcceptedStayReadable
<1> QED
  BY <1>1, <1>2, <1>3, <1>4, <1>5, <1>6, <1>7 DEF JournalNext

LEMMA LimitKept ==
  ASSUME JournalTypeOK, JournalTypeOK', DaemonInv, LimitInv, [JournalNext]_journalVars
  PROVE  LimitInv'
<1> DEFINE held == IF writing = None THEN 0 ELSE 1
<1>b. {MaxSpool, MaxRuns, MaxEvents, MaxFaults} \subseteq Nat
  BY JournalAssumption
<1>t. Len(lines) \in Nat /\ Len(lines') \in Nat /\ bytes \in Nat
  <2>1. lines \in Seq(Events \union {Torn}) /\ lines' \in Seq(Events \union {Torn})
    BY DEF JournalTypeOK
  <2> QED
    BY <2>1 DEF JournalTypeOK
<1> SUFFICES ASSUME backend' = "local"
             PROVE  /\ Size' <= MaxSpool
                    /\ phase' # "down" /\ ~failed' =>
                         Size' <= bytes' + (IF writing' = None THEN 0 ELSE 1)
  BY DEF LimitInv
<1>l. backend = "local"
  BY DEF JournalNext, Open, AppendLine, Accept, WriteFails, SyncFails, StartRefused,
         FlushSpool, Stop, PowerFails, Forget, EmitFails
<1>s. Size = Len(lines) + (IF frag = None THEN 0 ELSE 1)
  BY TextOf DEF Size, Text, JournalTypeOK
<1>z. Size' = Len(lines') + (IF frag' = None THEN 0 ELSE 1)
  <2>1. Size' = Len(Text') /\ Text' = IF frag' = None THEN lines' ELSE Append(lines', frag')
    BY DEF Size, Text
  <2>2. lines' \in Seq(Events \union {Torn}) /\ frag' \in Events \union {Torn, None}
    BY DEF JournalTypeOK
  <2> QED
    BY <2>1, <2>2, TextOf
<1>i. /\ Size <= MaxSpool
      /\ phase # "down" /\ ~failed => Size <= bytes + held
  BY <1>l DEF LimitInv
<1>1. CASE \E id \in 1..MaxRuns : Open(id)
  <2>1. Size' = Size /\ bytes' = Size /\ writing' = None
    BY <1>1, <1>s, <1>z DEF Open
  <2> QED
    BY <1>i, <1>s, <1>t, <2>1
<1>2. ASSUME NEW body \in Bodies, AppendLine(body)
      PROVE  Size' <= MaxSpool /\ Size' <= bytes' + (IF writing' = None THEN 0 ELSE 1)
  <2>1. Len(lines') = Len(lines) + 1 /\ frag' = None
    BY <1>2 DEF AppendLine, JournalTypeOK
  <2>2. phase # "down" /\ ~failed /\ writing = None
    BY <1>2, <1>l DEF AppendLine, Emitting, Takes
  <2>3. writing' # None
    <3>1. Event(body) \in Events
      BY <1>2, <2>2, EventTyped DEF DaemonInv
    <3> QED
      BY <1>2, <3>1, MarkAssumption DEF AppendLine
  <2>4. bytes' = bytes /\ bytes + 1 <= MaxSpool
    BY <1>2, <1>l DEF AppendLine, HasRoom, Allowed
  <2> QED
    BY <1>b, <1>i, <1>s, <1>t, <1>z, <2>1, <2>2, <2>3, <2>4
<1>3. CASE Accept
  <2>1. Size' = Size /\ bytes' = bytes + 1 /\ failed' = failed /\ writing' = None
    BY <1>3, <1>s, <1>z DEF Accept
  <2>2. phase # "down" /\ writing # None
    BY <1>3 DEF Accept, DaemonInv
  <2> QED
    BY <1>i, <1>s, <1>t, <2>1, <2>2
<1>4. CASE WriteFails
  <2>1. phase # "down" /\ ~failed /\ writing = None /\ bytes + 1 <= MaxSpool
    BY <1>4, <1>l DEF WriteFails, Emitting, Takes, HasRoom, Allowed
  <2>2. lines' = lines /\ (phase' = "down" \/ failed')
    BY <1>4, <1>l DEF WriteFails, EmitFails, Forget
  <2> QED
    BY <1>b, <1>i, <1>s, <1>t, <1>z, <2>1, <2>2
<1>5. CASE SyncFails \/ StartRefused \/ Stop
  <2>1. phase' = "down" \/ failed'
    BY <1>5, <1>l, DaemonEnds DEF SyncFails, StartRefused, Stop
  <2>2. Size' = Size
    BY <1>5, <1>s, <1>z DEF SyncFails, StartRefused, Stop
  <2> QED
    BY <1>i, <2>1, <2>2
<1>6. CASE PowerFails
  <2>1. phase' = "down"
    BY <1>6 DEF PowerFails, Forget
  <2>2. Size' <= Size
    <3>1. PICK n \in safe..Len(lines) :
            /\ lines' = SubSeq(lines, 1, n)
            /\ frag' = None \/ n < Len(Text)
      BY <1>6 DEF PowerFails
    <3>2. n \in 0..Len(lines) /\ Len(lines') = n
      BY <1>t, <3>1 DEF JournalTypeOK
    <3>3. frag' # None => n < Size
      BY <3>1 DEF Size
    <3> QED
      BY <1>s, <1>t, <1>z, <3>2, <3>3
  <2>3. Size \in Nat /\ Size' \in Nat
    BY <1>s, <1>t, <1>z
  <2> QED
    BY <1>b, <1>i, <2>1, <2>2, <2>3
<1>7. CASE FlushSpool \/ UNCHANGED journalVars
  <2>1. Size' = Size /\ UNCHANGED <<phase, failed, bytes, writing>>
    BY <1>7, <1>s, <1>z DEF FlushSpool
  <2> QED
    BY <1>i, <2>1
<1> QED
  BY <1>1, <1>2, <1>3, <1>4, <1>5, <1>6, <1>7 DEF JournalNext

\* What a file's prefix is, after a step that adds no line.
LEMMA NothingAdded ==
  ASSUME JournalTypeOK, WriteFails \/ SyncFails \/ StartRefused \/ Stop \/ PowerFails
  PROVE  /\ Len(lines') <= Len(lines) /\ safe <= safe'
         /\ \A i \in 1..Len(lines') : lines'[i] = lines[i]
         /\ offered' = offered /\ writing' = None /\ phase' \in {"down", phase}
         /\ phase' # "down" =>
              phase # "starting" /\ UNCHANGED <<lines, run, seq, accepted, offered>>
<1>1. Len(lines) \in Nat /\ safe \in 0..Len(lines)
  BY DEF JournalTypeOK
<1>2. CASE WriteFails \/ SyncFails \/ StartRefused \/ Stop
  <2>1. lines' = lines /\ safe' = safe
    BY <1>2 DEF WriteFails, SyncFails, StartRefused, Stop
  <2> QED
    <3>1. Forget \/ EmitFails
      BY <1>2 DEF WriteFails, SyncFails, StartRefused, Stop
    <3>2. /\ offered' = offered /\ writing' = None /\ phase' \in {"down", phase}
          /\ phase' # "down" => phase # "starting" /\ UNCHANGED <<run, seq, accepted, offered>>
      BY <3>1, DaemonEnds
    <3> QED
      BY <1>1, <2>1, <3>2
<1>3. CASE PowerFails
  <2>1. PICK n \in safe..Len(lines) : lines' = SubSeq(lines, 1, n) /\ safe' = n
    BY <1>3 DEF PowerFails
  <2>2. Len(lines') = n /\ \A i \in 1..n : lines'[i] = lines[i]
    BY <1>1, <2>1 DEF JournalTypeOK
  <2> QED
    BY <1>1, <1>3, <2>1, <2>2 DEF PowerFails, Forget
<1> QED
  BY <1>2, <1>3

LEMMA OneDaemonKept ==
  ASSUME JournalTypeOK, JournalTypeOK', DaemonInv, OneDaemonInv, [JournalNext]_journalVars
  PROVE  OneDaemonInv'
<1>t. Len(lines) \in Nat /\ safe \in 0..Len(lines) /\ seq \in Nat
      /\ accepted \in Seq(Events) /\ lines \in Seq(Events \union {Torn})
  BY JournalAssumption DEF JournalTypeOK
<1>t2. Len(lines') \in Nat /\ safe' \in 0..Len(lines')
  BY DEF JournalTypeOK
<1> SUFFICES ASSUME backend' = "remote" PROVE OneDaemonInv'
  BY DEF OneDaemonInv
<1>l. backend = "remote"
  BY DEF JournalNext, Open, AppendLine, Accept, WriteFails, SyncFails, StartRefused,
         FlushSpool, Stop, PowerFails, Forget, EmitFails
<1>1. CASE \E id \in 1..MaxRuns : Open(id)
  <2>1. /\ phase' = "starting" /\ seq' = 0 /\ writing' = None /\ accepted' = lines /\ frag' = None
        /\ UNCHANGED <<lines, safe, offered>>
    BY <1>1, <1>l DEF Open, Parses
  <2>2. accepted' = <<>> => Len(accepted') = 0 /\ Len(lines) = 0
    BY <2>1
  <2> QED
    BY <1>l, <1>t, <2>1, <2>2 DEF OneDaemonInv
<1>2. ASSUME NEW body \in Bodies, AppendLine(body) PROVE OneDaemonInv'
  <2>1. /\ phase # "down" /\ seq = Len(accepted) /\ writing = None
        /\ writing' = Event(body) /\ frag' = None
        /\ UNCHANGED <<phase, run, seq, accepted, safe, offered>>
    BY <1>2, <1>l DEF AppendLine, Emitting, Takes
  <2>2. Event(body) \in Events /\ Event(body) # None /\ Event(body).run = run
    BY <2>1, EventTyped, MarkAssumption DEF DaemonInv, Event
  <2>3. PICK new \in Events \union {Torn} :
          /\ lines' = Append(lines, new) /\ new \in {Event(body), Torn}
          /\ frag = None => new = Event(body)
    BY <1>2, <2>2 DEF AppendLine
  <2>4. /\ Len(lines') = Len(lines) + 1 /\ lines'[Len(lines) + 1] = new
        /\ \A i \in 1..Len(lines) : lines'[i] = lines[i]
    BY <1>t, <2>3
  <2>5. \A i \in 1..Len(lines) : lines[i] # Torn => lines[i].run = run
    BY <1>l, <1>t, <2>1 DEF OneDaemonInv
  <2>6. \A i \in 1..Len(lines') : lines'[i] # Torn => lines'[i].run = run
    BY <1>t, <2>2, <2>3, <2>4, <2>5
  <2>7. phase = "starting" => lines' = <<writing'>>
    <3> SUFFICES ASSUME phase = "starting" PROVE lines' = <<writing'>>
      OBVIOUS
    <3>1. lines = <<>> /\ frag = None
      BY <1>l, <1>t, <2>1 DEF OneDaemonInv, DaemonInv
    <3> QED
      BY <1>t, <2>1, <2>3, <3>1
  <2>8. \A e \in offered : safe > 0 /\ lines'[1] # Torn /\ lines'[1].run = e.run
    BY <1>l, <1>t, <2>4 DEF OneDaemonInv
  <2> QED
    BY <1>t, <2>1, <2>2, <2>6, <2>7, <2>8 DEF OneDaemonInv
<1>3. CASE Accept
  <2>1. /\ writing # None /\ safe' = Len(lines) /\ accepted' = Append(accepted, writing)
        /\ seq' = seq + 1 /\ phase' = "running" /\ offered' = offered \union {writing}
        /\ writing' = None /\ UNCHANGED <<lines, run>>
    BY <1>3 DEF Accept
  <2>2. writing \in Events /\ writing # Torn
    BY <2>1, MarkAssumption DEF JournalTypeOK
  <2>3. Len(lines) > 0 /\ phase # "down" /\ writing.run = run
    BY <2>1 DEF DaemonInv, IsEvent
  <2>4. Len(accepted) = seq /\ \A i \in 1..Len(lines) : lines[i] # Torn => lines[i].run = run
    BY <1>l, <2>1, <2>3 DEF OneDaemonInv
  <2>5. Len(accepted') = seq'
    <3>1. Len(Append(accepted, writing)) = Len(accepted) + 1
      BY <1>t, <2>2
    <3> QED
      BY <2>1, <2>4, <3>1
  <2>6. lines[1] # Torn /\ lines[1].run = run
    <3>1. CASE phase = "starting"
      BY <1>l, <2>1, <2>2, <2>3, <3>1 DEF OneDaemonInv
    <3>2. CASE phase = "running"
      BY <1>l, <3>2 DEF OneDaemonInv, DaemonInv, IsEvent
    <3> QED
      BY <2>3, <3>1, <3>2 DEF JournalTypeOK
  <2>7. \A e \in offered' : safe' > 0 /\ lines'[1] # Torn /\ lines'[1].run = e.run
    BY <1>l, <2>1, <2>3, <2>6 DEF OneDaemonInv
  <2> QED
    BY <2>1, <2>4, <2>5, <2>7 DEF OneDaemonInv
<1>4. CASE WriteFails \/ SyncFails \/ StartRefused \/ Stop \/ PowerFails
  <2>1. /\ Len(lines') <= Len(lines) /\ safe <= safe'
        /\ \A i \in 1..Len(lines') : lines'[i] = lines[i]
        /\ offered' = offered /\ writing' = None /\ phase' \in {"down", phase}
        /\ phase' # "down" =>
             phase # "starting" /\ UNCHANGED <<lines, run, seq, accepted, offered>>
    BY <1>4, NothingAdded
  <2>2. \A i, j \in 1..Len(lines') :
          lines'[i] # Torn /\ lines'[j] # Torn => lines'[i].run = lines'[j].run
    BY <1>l, <1>t, <1>t2, <2>1 DEF OneDaemonInv
  <2>3. \A e \in offered' : safe' > 0 /\ lines'[1] # Torn /\ lines'[1].run = e.run
    BY <1>l, <1>t, <1>t2, <2>1 DEF OneDaemonInv
  <2>4. phase' # "starting"
    BY <2>1
  <2>5. phase' # "down" =>
          \/ seq' = 0 /\ accepted' # <<>> /\ writing' = None
          \/ /\ Len(accepted') = seq'
             /\ \A i \in 1..Len(lines') : lines'[i] # Torn => lines'[i].run = run'
    BY <1>l, <2>1 DEF OneDaemonInv
  <2> QED
    BY <2>2, <2>3, <2>4, <2>5 DEF OneDaemonInv
<1>5. CASE FlushSpool \/ UNCHANGED journalVars
  <2>1. /\ UNCHANGED <<lines, frag, phase, run, seq, writing, accepted, offered>>
        /\ safe' \in {safe, Len(lines)}
    BY <1>5 DEF FlushSpool
  <2> QED
    BY <1>l, <1>t, <2>1 DEF OneDaemonInv
<1> QED
  BY <1>1, <1>2, <1>3, <1>4, <1>5 DEF JournalNext

\* The part of OwnFileInv that a step keeps for a daemon that stays up.
LEMMA OwnFileKept ==
  ASSUME JournalTypeOK, JournalTypeOK', DaemonInv, OwnFileInv, [JournalNext]_journalVars
  PROVE  OwnFileInv'
<1> DEFINE held == IF writing = None THEN 0 ELSE 1
<1>t. Len(lines) \in Nat /\ seq \in Nat /\ lines \in Seq(Events \union {Torn})
  BY JournalAssumption DEF JournalTypeOK
<1>i. phase # "down" =>
        /\ Len(lines) >= seq + held
        /\ Len(lines) = seq + held =>
             \A i \in 1..seq : lines[i] # Torn => lines[i] \in offered /\ lines[i].run = run
  BY DEF OwnFileInv, Written
<1>1. CASE \E id \in 1..MaxRuns : Open(id)
  <2>1. seq' = 0 /\ writing' = None /\ lines' = lines
    BY <1>1 DEF Open
  <2> QED
    BY <1>t, <2>1 DEF OwnFileInv, Written
<1>2. ASSUME NEW body \in Bodies, AppendLine(body) PROVE OwnFileInv'
  <2>1. /\ phase # "down" /\ writing = None /\ Len(lines') = Len(lines) + 1
        /\ \A i \in 1..Len(lines) : lines'[i] = lines[i]
        /\ UNCHANGED <<seq, offered, run>>
    BY <1>2, <1>t DEF AppendLine, Emitting
  <2>2. Written' = seq + 1
    <3>1. Event(body) \in Events
      BY <1>2, <2>1, EventTyped DEF DaemonInv
    <3> QED
      BY <1>2, <2>1, <3>1, MarkAssumption DEF AppendLine, Written
  <2> QED
    BY <1>i, <1>t, <2>1, <2>2 DEF OwnFileInv
<1>3. CASE Accept
  <2>1. /\ writing # None /\ seq' = seq + 1 /\ writing' = None /\ writing \in offered'
        /\ offered \subseteq offered' /\ UNCHANGED <<lines, run>>
    BY <1>3 DEF Accept
  <2>2. phase # "down" /\ lines[Len(lines)] \in {writing, Torn} /\ writing.run = run
    BY <2>1 DEF DaemonInv, IsEvent
  <2>3. Written' = seq + 1
    BY <1>t, <2>1 DEF Written
  <2>4. Len(lines) = seq + 1 =>
          \A i \in 1..(seq + 1) : lines[i] # Torn => lines[i] \in offered' /\ lines[i].run = run
    BY <1>i, <1>t, <2>1, <2>2
  <2> QED
    BY <1>i, <2>1, <2>2, <2>3, <2>4 DEF OwnFileInv
<1>4. CASE WriteFails \/ SyncFails \/ StartRefused \/ Stop \/ PowerFails
  <2>1. /\ writing' = None /\ phase' \in {"down", phase}
        /\ phase' # "down" => UNCHANGED <<lines, run, seq, offered>>
    BY <1>4, NothingAdded
  <2>2. phase' # "down" => Written' = seq /\ seq <= Len(lines)
    BY <1>i, <1>t, <2>1 DEF Written
  <2>3. phase' # "down" /\ Len(lines) = seq =>
          \A i \in 1..seq : lines[i] # Torn => lines[i] \in offered /\ lines[i].run = run
    BY <1>i, <1>t, <2>1
  <2> QED
    BY <2>1, <2>2, <2>3 DEF OwnFileInv
<1>5. CASE FlushSpool \/ UNCHANGED journalVars
  BY <1>5 DEF FlushSpool, OwnFileInv, Written
<1> QED
  BY <1>1, <1>2, <1>3, <1>4, <1>5 DEF JournalNext

LEMMA PrefixKept ==
  ASSUME JournalTypeOK, JournalTypeOK', DaemonInv, OwnFileInv, PrefixInv, [JournalNext]_journalVars
  PROVE  PrefixInv'
<1>t. Len(lines) \in Nat /\ seq \in Nat /\ lines \in Seq(Events \union {Torn})
  BY JournalAssumption DEF JournalTypeOK
<1>a. /\ Text \in Seq(Events \union {Torn})
      /\ Len(Text) = Len(lines) + (IF frag = None THEN 0 ELSE 1)
      /\ \A i \in 1..Len(lines) : Text[i] = lines[i]
      /\ frag # None => Text[Len(lines) + 1] = frag
  BY TextOf DEF Text, JournalTypeOK
<1>z. /\ Text' \in Seq(Events \union {Torn}) /\ Len(lines') \in Nat
      /\ Len(Text') = Len(lines') + (IF frag' = None THEN 0 ELSE 1)
      /\ \A i \in 1..Len(lines') : Text'[i] = lines'[i]
      /\ frag' # None => Text'[Len(lines') + 1] = frag'
  <2>1. Text' = IF frag' = None THEN lines' ELSE Append(lines', frag')
    BY DEF Text
  <2>2. lines' \in Seq(Events \union {Torn}) /\ frag' \in Events \union {Torn, None}
    BY DEF JournalTypeOK
  <2> QED
    BY <2>1, <2>2, TextOf
<1>n. Len(Text) \in Nat /\ Len(Text') \in Nat
  BY <1>a, <1>z
<1>o. offered \subseteq offered'
  BY DEF JournalNext, Open, AppendLine, Accept, WriteFails, SyncFails, StartRefused,
         FlushSpool, Stop, PowerFails, Forget, EmitFails
\* A part of the file that stands as it stood.
<1>p. ASSUME NEW n \in 1..Len(Text'), n <= Len(Text), NumberedUpTo(n)',
             \A i \in 1..n : Text'[i] = Text[i]
      PROVE  \A i \in 1..n : Text'[i].run = Text'[1].run /\ (i < n => Text'[i] \in offered')
  <2>1. NumberedUpTo(n)
    BY <1>p, <1>n DEF NumberedUpTo
  <2>2. \A i \in 1..n : Text[i].run = Text[1].run /\ (i < n => Text[i] \in offered)
    BY <1>p, <1>n, <2>1 DEF PrefixInv
  <2> QED
    BY <1>o, <1>p, <1>n, <2>2
\* What is no event ends the part that can be numbered.
<1>1. CASE \A i \in 1..Len(Text') : Text'[i] = Torn \/ (i <= Len(Text) /\ Text'[i] = Text[i])
  <2> SUFFICES ASSUME NEW n \in 1..Len(Text'), NumberedUpTo(n)'
               PROVE  \A i \in 1..n : Text'[i].run = Text'[1].run /\ (i < n => Text'[i] \in offered')
    BY DEF PrefixInv
  <2>1. \A i \in 1..n : Text'[i] # Torn
    BY DEF NumberedUpTo
  <2>2. n <= Len(Text) /\ \A i \in 1..n : Text'[i] = Text[i]
    BY <1>1, <1>n, <2>1
  <2> QED
    BY <1>p, <2>2
\* The daemon's next event behind all the lines, with its newline or without.
<1>2. ASSUME NEW body \in Bodies, phase # "down", writing = None, frag = None,
             Len(Text') = Len(lines) + 1, \A i \in 1..Len(lines) : Text'[i] = lines[i],
             Text'[Len(lines) + 1] = Event(body)
      PROVE  PrefixInv'
  <2> SUFFICES ASSUME NEW n \in 1..Len(Text'), NumberedUpTo(n)'
               PROVE  \A i \in 1..n : Text'[i].run = Text'[1].run /\ (i < n => Text'[i] \in offered')
    BY DEF PrefixInv
  <2>1. CASE n <= Len(lines)
    <3>1. n <= Len(Text) /\ \A i \in 1..n : Text'[i] = Text[i]
      BY <1>2, <1>a, <1>t, <2>1
    <3> QED
      BY <1>p, <3>1
  <2>2. CASE n = Len(lines) + 1
    <3>1. /\ \A i \in 1..n : Text'[i] # Torn
          /\ Text'[n].seq = n - 1
      BY <1>t, <2>2 DEF NumberedUpTo
    <3>2. Text'[n] = Event(body) /\ Event(body).seq = seq /\ Event(body).run = run
      BY <1>2, <2>2 DEF Event
    <3>3. Len(lines) = seq /\ Written = seq
      BY <1>2, <1>t, <2>2, <3>1, <3>2 DEF Written
    <3>4. \A i \in 1..Len(lines) : Text'[i] \in offered /\ Text'[i].run = run
      BY <1>2, <1>t, <2>2, <3>1, <3>3 DEF OwnFileInv
    <3> QED
      BY <1>o, <1>t, <2>2, <3>2, <3>4
  <2> QED
    BY <1>2, <1>t, <2>1, <2>2
<1>3. ASSUME NEW body \in Bodies, AppendLine(body) PROVE PrefixInv'
  <2>1. /\ phase # "down" /\ writing = None /\ Len(lines') = Len(lines) + 1 /\ frag' = None
        /\ \A i \in 1..Len(lines) : lines'[i] = lines[i]
        /\ lines'[Len(lines) + 1] = IF frag = None THEN Event(body) ELSE Torn
    BY <1>3, <1>t DEF AppendLine, Emitting
  <2>2. /\ Len(Text') = Len(lines) + 1
        /\ \A i \in 1..Len(lines) : Text'[i] = lines[i]
        /\ Text'[Len(lines) + 1] = IF frag = None THEN Event(body) ELSE Torn
    BY <1>t, <1>z, <2>1
  <2>3. CASE frag = None
    BY <1>2, <2>1, <2>2, <2>3
  <2>4. CASE frag # None
    BY <1>1, <1>a, <1>t, <2>2, <2>4
  <2> QED
    BY <2>3, <2>4
<1>4. CASE WriteFails
  <2>1. lines' = lines /\ phase # "down" /\ writing = None
    BY <1>4 DEF WriteFails, Emitting
  <2>2. CASE frag' \in {frag, Torn}
    BY <1>1, <1>a, <1>t, <1>z, <2>1, <2>2
  <2>3. ASSUME frag = None, NEW body \in Bodies, frag' = Event(body) PROVE PrefixInv'
    <3>1. Event(body) # None
      BY <2>1, EventTyped, MarkAssumption DEF DaemonInv
    <3> QED
      BY <1>2, <1>t, <1>z, <2>1, <2>3, <3>1
  <2> QED
    BY <1>4, <2>2, <2>3 DEF WriteFails
<1>5. CASE PowerFails
  <2>1. PICK n \in safe..Len(lines) :
          /\ lines' = SubSeq(lines, 1, n)
          /\ frag' = None \/ (n < Len(Text) /\ frag' \in {Torn, Text[n + 1]})
          /\ safe' = n
    BY <1>5 DEF PowerFails
  <2>2. n \in 0..Len(lines) /\ Len(lines') = n /\ \A i \in 1..n : lines'[i] = lines[i]
    BY <1>t, <2>1 DEF JournalTypeOK
  <2>3. \A i \in 1..n : i <= Len(Text) /\ Text'[i] = Text[i]
    BY <1>a, <1>t, <1>z, <2>2
  <2>4. frag' # None =>
          Text'[n + 1] = Torn \/ (n + 1 <= Len(Text) /\ Text'[n + 1] = Text[n + 1])
    BY <1>n, <1>z, <2>1, <2>2
  <2>5. \A i \in 1..Len(Text') : i \in 1..n \/ (i = n + 1 /\ frag' # None)
    BY <1>z, <2>2
  <2> QED
    BY <1>1, <2>3, <2>4, <2>5
<1>6. CASE (\E id \in 1..MaxRuns : Open(id)) \/ Accept \/ FlushSpool \/ SyncFails
             \/ StartRefused \/ Stop \/ UNCHANGED journalVars
  <2>1. lines' = lines /\ frag' = frag
    BY <1>6 DEF Open, Accept, FlushSpool, SyncFails, StartRefused, Stop
  <2>2. Text' = Text
    BY <2>1 DEF Text
  <2> QED
    BY <1>1, <1>n, <2>2
<1> QED
  BY <1>3, <1>4, <1>5, <1>6 DEF JournalNext

-----------------------------------------------------------------------------
(* The journal in the feed *)

LEMMA JournalStarts == JournalInit => JournalInv
<1> SUFFICES ASSUME JournalInit PROVE JournalInv
  OBVIOUS
<1>1. JournalTypeOK
  <2>1. <<>> \in Seq(Events) /\ <<>> \in Seq(Events \union {Torn}) /\ Len(<<>>) = 0
    OBVIOUS
  <2>2. 0 \in 0..MaxRuns /\ 0 \in 0..MaxEvents /\ 0 \in 0..MaxFaults /\ 0 <= MaxSpool
    BY JournalAssumption
  <2>3. safe \in 0..Len(lines) /\ sid \in 0..run
    BY <2>1 DEF JournalInit
  <2> QED
    BY <2>1, <2>2, <2>3 DEF JournalInit, JournalTypeOK, Allowed
<1>2. DaemonInv /\ OwnFileInv /\ SoundInv
  BY DEF JournalInit, DaemonInv, OwnFileInv, SoundInv, AcceptedStayReadable
<1>3. PrefixInv /\ OneDaemonInv
  BY DEF JournalInit, PrefixInv, OneDaemonInv, Text
<1>4. LimitInv
  BY JournalAssumption DEF JournalInit, LimitInv, Size, Text
<1> QED
  BY <1>1, <1>2, <1>3, <1>4 DEF JournalInv

LEMMA JournalKept == JournalInv /\ [JournalNext]_journalVars => JournalInv'
<1> SUFFICES ASSUME JournalInv, [JournalNext]_journalVars PROVE JournalInv'
  OBVIOUS
<1>1. JournalTypeOK'
  BY JournalTypes DEF JournalInv
<1> QED
  BY <1>1, DaemonKept, SoundKept, OwnFileKept, PrefixKept, OneDaemonKept, LimitKept
     DEF JournalInv

LEMMA JournalInvariant == JournalSpec => []JournalInv
BY JournalStarts, JournalKept, PTL DEF JournalSpec

\* The feed drives the journal, or leaves it alone.
LEMMA FeedDrivesJournal == [FeedNext]_<<journalVars, feedVars>> => [JournalNext]_journalVars
<1> SUFFICES ASSUME [FeedNext]_<<journalVars, feedVars>>, ~UNCHANGED journalVars
             PROVE  JournalNext
  OBVIOUS
<1>1. FeedNext
  OBVIOUS
<1>2. StartDaemon \/ Emit \/ EndDaemon
  BY <1>1 DEF FeedNext, Publish, Click, Subscribe, ConnectionDrops, Receive, ChooseFile, FinishLoad
<1> QED
  BY <1>2 DEF StartDaemon, Emit, EndDaemon, JournalNext

\* So whatever holds of the journal alone holds of the one in the feed.
LEMMA FeedIsJournal == FeedSpec => JournalSpec
<1>1. FeedInit => JournalInit
  BY DEF FeedInit
<1> QED
  BY <1>1, FeedDrivesJournal, PTL DEF FeedSpec, JournalSpec

\* What a daemon that starts, syncs, fails or loses power does to the spool leaves
\* every accepted event in a safe line, as long as the sink claims that much.
THEOREM AcceptedSurvive == JournalSpec => []AcceptedStayReadable
<1>1. JournalInv => AcceptedStayReadable
  BY DEF JournalInv, SoundInv
<1> QED
  BY <1>1, JournalInvariant, PTL

\* validateTimeline() is enough: a file with no gap is one daemon's recording,
\* whoever else was given the path.
THEOREM NumberedFilesAreRecordings == JournalSpec => []NumberedIsOneRecording
<1>1. JournalInv => NumberedIsOneRecording
  <2> SUFFICES ASSUME JournalInv, Numbered(Text), NEW i \in DOMAIN Text
               PROVE  Text[i].run = Text[1].run /\ (i < Len(Text) => Text[i] \in offered)
    BY DEF NumberedIsOneRecording
  <2>1. Text \in Seq(Events \union {Torn})
    BY TextOf DEF JournalInv, JournalTypeOK, Text
  <2>2. NumberedUpTo(Len(Text)) /\ i \in 1..Len(Text) /\ Len(Text) \in 1..Len(Text)
    BY <2>1 DEF Numbered, NumberedUpTo
  <2> QED
    BY <2>2 DEF JournalInv, PrefixInv
<1> QED
  BY <1>1, JournalInvariant, PTL

\* A journal bound to a session never mixes the events of two daemons.
THEOREM OneDaemonPerJournal == JournalSpec => []JournalOfOneDaemon
<1>1. JournalInv => JournalOfOneDaemon
  <2> SUFFICES ASSUME JournalInv PROVE JournalOfOneDaemon
    OBVIOUS
  <2>1. DOMAIN lines = 1..Len(lines)
    BY DEF JournalInv, JournalTypeOK
  <2> QED
    BY <2>1 DEF JournalInv, OneDaemonInv, JournalOfOneDaemon
<1> QED
  BY <1>1, JournalInvariant, PTL

\* A directory session stops at max_spool_bytes, whatever its appends left behind.
THEOREM SpoolBounded == JournalSpec => []SpoolWithinLimit
<1>1. JournalInv => SpoolWithinLimit
  BY DEF JournalInv, LimitInv, SpoolWithinLimit
<1> QED
  BY <1>1, JournalInvariant, PTL

-----------------------------------------------------------------------------
(* The channel and the timeline *)

USE DEF feedVars, connection, timeline

\* What send() leaves in the channel of a connection: all it held, or all but the
\* oldest, and the event.
LEMMA Sent ==
  ASSUME FeedTypeOK, NEW event \in Events, Send(event), source = "open"
  PROVE  /\ source' = "open" /\ queue' \in Seq(Events)
         /\ Len(queue') \in 1..Capacity
         /\ queue'[Len(queue')] = event
         /\ \E dropped \in {0, 1} :
              /\ Len(queue') = Len(queue) + 1 - dropped
              /\ \A i \in 1..(Len(queue') - 1) : queue'[i] = queue[i + dropped]
              /\ dropped = 0 /\ ~lagged' => ~lagged
              /\ dropped = 1 => lagged'
<1>1. queue \in Seq(Events) /\ Len(queue) \in 0..Capacity /\ Capacity \in Nat \ {0}
  BY FeedAssumption DEF FeedTypeOK
<1>2. CASE Len(queue) < Capacity
  <2>1. queue' = Append(queue, event) /\ source' = "open" /\ (~lagged' => ~lagged)
    BY <1>2 DEF Send
  <2>2. /\ Len(queue') = Len(queue) + 1 - 0 /\ queue' \in Seq(Events)
        /\ queue'[Len(queue')] = event
        /\ \A i \in 1..(Len(queue') - 1) : queue'[i] = queue[i + 0]
    BY <1>1, <2>1
  <2> QED
    BY <1>1, <1>2, <2>1, <2>2
<1>3. CASE ~(Len(queue) < Capacity)
  <2>1. queue' = Append(Tail(queue), event) /\ source' = "open" /\ Len(queue) = Capacity
    BY <1>1, <1>3 DEF Send
  <2>2. lagged'
    BY <1>3, <2>1 DEF Send
  <2>3. /\ Tail(queue) \in Seq(Events) /\ Len(Tail(queue)) = Len(queue) - 1
        /\ \A i \in 1..(Len(queue) - 1) : Tail(queue)[i] = queue[i + 1]
    BY <1>1, <2>1
  <2>4. /\ Len(queue') = Len(queue) + 1 - 1 /\ queue' \in Seq(Events)
        /\ queue'[Len(queue')] = event
        /\ \A i \in 1..(Len(queue') - 1) : queue'[i] = queue[i + 1]
    BY <1>1, <2>1, <2>3
  <2> QED
    BY <1>1, <2>1, <2>2, <2>4
<1> QED
  BY <1>2, <1>3

\* The event published is the newest the durable sink accepted.
LEMMA PublishedEvent ==
  ASSUME JournalInv, Publish
  PROVE  /\ Last(accepted) \in Events /\ Last(accepted) \in offered
         /\ IsEvent(Last(accepted), seq - 1)
BY DEF Publish, JournalInv, DaemonInv, JournalTypeOK

\* What a message from the channel does: it is shown, or the page stops.
LEMMA Received ==
  ASSUME FeedTypeOK, Receive
  PROVE  /\ queue # <<>> /\ UNCHANGED <<journalVars, published, loads, loaded>>
         /\ \/ Disconnected /\ view'.events = view.events /\ joined' = joined
               /\ view' \in [events : Seq(Events), resync : BOOLEAN]
            \/ /\ ~lagged /\ Continues(Head(queue)) /\ joined'
               /\ view' \in [events : Seq(Events), resync : BOOLEAN]
               /\ view'.events = Append(view.events, Head(queue))
               /\ queue' = Tail(queue) /\ UNCHANGED <<source, lagged>>
<1>1. queue # <<>> /\ queue \in Seq(Events) /\ view \in [events : Seq(Events), resync : BOOLEAN]
  BY DEF Receive, FeedTypeOK
<1>2. Head(queue) \in Events
  BY <1>1
<1>3. CASE StopForResync
  BY <1>1, <1>3 DEF StopForResync, Receive
<1>4. CASE ~lagged /\ Continues(Head(queue)) /\ Show(Head(queue))
  <2>1. Append(view.events, Head(queue)) \in Seq(Events)
    BY <1>1, <1>2
  <2> QED
    BY <1>1, <1>4, <2>1 DEF Show, Receive
<1> QED
  BY <1>3, <1>4 DEF Receive, Show

\* A finished reading replaces the timeline by a file that is numbered, or nothing.
LEMMA Loaded ==
  ASSUME FeedTypeOK, NEW file \in loads, FileInv(file), FinishLoad(file)
  PROVE  /\ loads' = loads \ {file}
         /\ \/ UNCHANGED timeline
            \/ /\ Numbered(file) /\ file \in Seq(Events)
               /\ view'.events = file /\ loaded' = Len(file) /\ ~joined'
               /\ view' \in [events : Seq(Events), resync : BOOLEAN]
<1>1. CASE Numbered(file)
  <2>1. file \in Seq(Events)
    BY <1>1 DEF FileInv, Numbered
  <2>2. /\ loads' = loads \ {file} /\ loaded' = Len(file) /\ ~joined'
        /\ view' = [events |-> file, resync |-> FALSE]
    BY <1>1 DEF FinishLoad
  <2>3. view' \in [events : Seq(Events), resync : BOOLEAN] /\ view'.events = file
    BY <2>1, <2>2
  <2> QED
    BY <1>1, <2>1, <2>2, <2>3
<1>2. CASE ~(Numbered(file))
  BY <1>2 DEF FinishLoad
<1> QED
  BY <1>1, <1>2

LEMMA FeedTypes ==
  JournalInv /\ JournalInv' /\ FeedTypeOK /\ (\A file \in loads : FileInv(file))
    /\ [FeedNext]_<<journalVars, feedVars>> => FeedTypeOK'
<1>1. ASSUME JournalInv, JournalInv', FeedTypeOK, \A file \in loads : FileInv(file),
             [FeedNext]_<<journalVars, feedVars>>
      PROVE  FeedTypeOK'
  <2>b. MaxEvents \in Nat /\ MaxLoads \in Nat /\ Capacity \in Nat \ {0}
    BY JournalAssumption, FeedAssumption
  <2>j. JournalTypeOK' /\ seq \in 0..MaxEvents
    BY <1>1 DEF JournalInv, JournalTypeOK
  <2>e. <<>> \in Seq(Events) /\ Len(<<>>) = 0
    OBVIOUS
  <2>1. CASE StartDaemon
    BY <1>1, <2>1, <2>b, <2>j DEF StartDaemon, FeedTypeOK
  <2>2. CASE Emit \/ UNCHANGED <<journalVars, feedVars>>
    BY <1>1, <2>2, <2>j DEF Emit, FeedTypeOK
  <2>3. CASE Publish
    <3>1. published' \in 0..MaxEvents
      BY <1>1, <2>3, <2>b, <2>j DEF Publish, FeedTypeOK
    <3>2. source' \in {"none", "retrying", "open"} /\ queue' \in Seq(Events)
          /\ Len(queue') <= Capacity /\ lagged' \in BOOLEAN
      <4>1. CASE source = "open"
        <5>1. Last(accepted) \in Events /\ Send(Last(accepted))
          BY <1>1, <2>3, PublishedEvent DEF Publish
        <5>2. lagged' \in BOOLEAN
          BY <1>1, <4>1, <5>1 DEF Send
        <5> QED
          BY <1>1, <2>b, <4>1, <5>1, <5>2, Sent
      <4>2. CASE source # "open"
        BY <1>1, <2>3, <4>2 DEF Publish, Send, FeedTypeOK
      <4> QED
        BY <4>1, <4>2
    <3> QED
      BY <1>1, <2>3, <2>j, <3>1, <3>2 DEF Publish, FeedTypeOK
  <2>4. CASE EndDaemon \/ ConnectionDrops \/ Click
    <3>1. source' \in {"none", "retrying", "open"} /\ queue' = <<>> /\ UNCHANGED <<published, timeline, loads>>
      BY <1>1, <2>4 DEF EndDaemon, ConnectionDrops, Click, Cut, FeedTypeOK
    <3>2. lagged' \in BOOLEAN
      BY <2>4 DEF EndDaemon, ConnectionDrops, Click, Cut
    <3> QED
      BY <1>1, <2>b, <2>e, <2>j, <3>1, <3>2 DEF FeedTypeOK
  <2>5. CASE Subscribe
    BY <1>1, <2>5, <2>j DEF Subscribe, FeedTypeOK
  <2>6. CASE Receive
    <3>1. queue \in Seq(Events) /\ Len(queue) <= Capacity /\ view.events \in Seq(Events)
          /\ loaded \in 0..Len(view.events) /\ queue # <<>> /\ joined \in BOOLEAN
      BY <1>1, <2>6 DEF Receive, FeedTypeOK
    <3>2. Head(queue) \in Events /\ Tail(queue) \in Seq(Events) /\ Len(Tail(queue)) <= Capacity
      BY <2>b, <3>1
    <3>3. source' \in {"none", "retrying", "open"} /\ queue' \in Seq(Events)
          /\ Len(queue') <= Capacity /\ lagged' \in BOOLEAN
      <4>1. CASE Disconnected
        <5>1. source' = "none" /\ queue' = <<>>
          BY <4>1 DEF Disconnected
        <5>2. lagged' \in BOOLEAN
          BY <4>1 DEF Disconnected
        <5> QED
          BY <2>b, <2>e, <5>1, <5>2
      <4>2. CASE queue' = Tail(queue) /\ UNCHANGED <<source, lagged>>
        BY <1>1, <3>2, <4>2 DEF FeedTypeOK
      <4> QED
        BY <1>1, <2>6, <4>1, <4>2, Received
    <3>4. view' \in [events : Seq(Events), resync : BOOLEAN] /\ loaded' \in 0..Len(view'.events)
      <4>1. Len(view.events) <= Len(view'.events) /\ Len(view'.events) \in Nat
        BY <1>1, <2>6, <3>1, <3>2, Received
      <4> QED
        BY <1>1, <2>6, <3>1, <4>1, Received
    <3>5. joined' \in BOOLEAN
      BY <2>6, <3>1 DEF Receive, Show, StopForResync
    <3>6. UNCHANGED <<published, loads>>
      BY <1>1, <2>6 DEF Receive
    <3> QED
      BY <1>1, <2>j, <3>3, <3>4, <3>5, <3>6 DEF FeedTypeOK
  <2>7. CASE ChooseFile
    <3>1. IsFiniteSet(loads') /\ Cardinality(loads') <= MaxLoads
      <4>1. IsFiniteSet(loads) /\ Cardinality(loads) < MaxLoads /\ Cardinality(loads) \in Nat
        BY <1>1, <2>7, <2>b, FS_CardinalityType DEF ChooseFile, FeedTypeOK
      <4>2. loads' = loads \union {Text}
        BY <2>7 DEF ChooseFile
      <4>3. /\ IsFiniteSet(loads \union {Text})
            /\ Cardinality(loads \union {Text}) <= Cardinality(loads) + 1
        <5> DEFINE file == Text
        <5>1. IsFiniteSet(loads) /\ Cardinality(loads) \in Nat
          BY <4>1
        <5> HIDE DEF file
        <5>2. IsFiniteSet(loads \union {file}) /\ Cardinality(loads \union {file}) <= Cardinality(loads) + 1
          BY <5>1, FS_AddElement
        <5> QED
          BY <5>2 DEF file
      <4>4. Cardinality(loads \union {Text}) \in Nat
        BY <4>3, FS_CardinalityType
      <4> QED
        BY <2>b, <4>1, <4>2, <4>3, <4>4
    <3>2. source' = "none" /\ queue' = <<>> /\ UNCHANGED <<published, timeline>>
      BY <2>7 DEF ChooseFile, Disconnected
    <3>3. lagged' \in BOOLEAN
      BY <2>7 DEF ChooseFile, Disconnected
    <3> QED
      BY <1>1, <2>b, <2>e, <2>j, <3>1, <3>2, <3>3 DEF FeedTypeOK
  <2>8. ASSUME NEW file \in loads, FinishLoad(file) PROVE FeedTypeOK'
    <3>1. IsFiniteSet(loads') /\ Cardinality(loads') <= MaxLoads
      <4>1. IsFiniteSet(loads) /\ Cardinality(loads) <= MaxLoads /\ Cardinality(loads) \in Nat
        BY <1>1, <2>b, FS_CardinalityType DEF FeedTypeOK
      <4>2. loads' = loads \ {file}
        BY <2>8 DEF FinishLoad
      <4>3. IsFiniteSet(loads \ {file}) /\ Cardinality(loads \ {file}) <= Cardinality(loads)
        BY <4>1, FS_RemoveElement
      <4>4. Cardinality(loads \ {file}) \in Nat
        BY <4>3, FS_CardinalityType
      <4> QED
        BY <2>b, <4>1, <4>2, <4>3, <4>4
    <3>2. view' \in [events : Seq(Events), resync : BOOLEAN] /\ loaded' \in 0..Len(view'.events)
          /\ joined' \in BOOLEAN
      <4>1. CASE UNCHANGED timeline
        BY <1>1, <4>1 DEF FeedTypeOK
      <4>2. CASE ~UNCHANGED timeline
        <5>1. loaded' = Len(view'.events) /\ view' \in [events : Seq(Events), resync : BOOLEAN]
          BY <1>1, <2>8, <4>2, Loaded
        <5>2. joined' \in BOOLEAN
          BY <2>8, <4>2 DEF FinishLoad
        <5>3. Len(view'.events) \in Nat
          BY <5>1
        <5> QED
          BY <5>1, <5>2, <5>3
      <4> QED
        BY <4>1, <4>2
    <3> QED
      BY <1>1, <2>8, <2>j, <3>1, <3>2 DEF FinishLoad, FeedTypeOK
  <2> QED
    BY <1>1, <2>1, <2>2, <2>3, <2>4, <2>5, <2>6, <2>7, <2>8 DEF FeedNext
<1> QED
  BY <1>1

LEMMA OfferedGrows == [JournalNext]_journalVars => offered \subseteq offered'
BY DEF JournalNext, Open, AppendLine, Accept, WriteFails, SyncFails, StartRefused,
       FlushSpool, Stop, PowerFails, Forget, EmitFails

\* What is being read was the recording of one daemon when the reading began.
LEMMA FilesKept ==
  JournalInv /\ (\A file \in loads : FileInv(file)) /\ [FeedNext]_<<journalVars, feedVars>>
    => \A file \in loads' : FileInv(file)'
<1>1. ASSUME JournalInv, \A file \in loads : FileInv(file),
             [FeedNext]_<<journalVars, feedVars>>, NEW file \in loads'
      PROVE  FileInv(file)'
  <2>1. offered \subseteq offered'
    BY <1>1, OfferedGrows, FeedDrivesJournal
  <2>2. CASE file \in loads
    BY <1>1, <2>1, <2>2 DEF FileInv
  <2>3. CASE file \notin loads
    <3>1. file = Text
      BY <1>1, <2>3 DEF FeedNext, StartDaemon, Emit, EndDaemon, Publish, Click, Subscribe,
         ConnectionDrops, Receive, ChooseFile, FinishLoad
    <3>2. Text \in Seq(Events \union {Torn})
      BY <1>1, TextOf DEF JournalInv, JournalTypeOK, Text
    <3>3. ASSUME Numbered(Text), NEW i \in 1..Len(Text)
          PROVE  Text[i].run = Text[1].run /\ (i < Len(Text) => Text[i] \in offered)
      <4>1. NumberedUpTo(Len(Text)) /\ Len(Text) \in 1..Len(Text)
        BY <3>2, <3>3 DEF Numbered, NumberedUpTo
      <4> QED
        BY <1>1, <3>3, <4>1 DEF JournalInv, PrefixInv
    <3> QED
      BY <2>1, <3>1, <3>2, <3>3 DEF FileInv
  <2> QED
    BY <2>2, <2>3
<1> QED
  BY <1>1

\* The durable sink at work, seen from the channel.
LEMMA EmitStep ==
  ASSUME JournalInv, Emit
  PROVE  /\ published >= seq /\ UNCHANGED feedVars /\ UNCHANGED <<run, sid>>
         /\ phase = "running" => phase' = "running"
         /\ phase' # "down" => phase # "down"
         /\ seq' \in {seq, seq + 1}
BY DEF Emit, AppendLine, Accept, WriteFails, SyncFails, StartRefused, FlushSpool, Forget,
       EmitFails, JournalInv, DaemonInv

LEMMA ChannelKept ==
  JournalInv /\ FeedTypeOK /\ ChannelInv /\ [FeedNext]_<<journalVars, feedVars>> => ChannelInv'
<1>1. ASSUME JournalInv, FeedTypeOK, ChannelInv, [FeedNext]_<<journalVars, feedVars>>
      PROVE  ChannelInv'
  <2>t. /\ published \in Nat /\ seq \in Nat /\ queue \in Seq(Events) /\ Len(queue) \in Nat
    BY <1>1, JournalAssumption DEF FeedTypeOK, JournalInv, JournalTypeOK
  <2>o. offered \subseteq offered'
    BY <1>1, OfferedGrows, FeedDrivesJournal
  <2>c. /\ phase # "down" => published \in {seq - 1, seq}
        /\ source = "open" => phase = "running"
        /\ source # "open" => queue = <<>> /\ ~lagged
        /\ \A i \in 1..Len(queue) :
             queue[i] \in offered /\ IsEvent(queue[i], published - Len(queue) + i - 1)
    BY <1>1 DEF ChannelInv
  <2>e. \A i \in 1..Len(<<>>) : FALSE
    OBVIOUS
  <2>1. CASE StartDaemon
    <3>1. phase = "down" /\ seq' = 0 /\ published' = 0 /\ UNCHANGED <<connection, offered>>
      BY <2>1 DEF StartDaemon, Open
    <3>2. queue = <<>> /\ ~lagged /\ source # "open"
      BY <2>c, <3>1
    <3> QED
      BY <2>e, <3>1, <3>2 DEF ChannelInv
  <2>2. CASE Emit
    <3>1. /\ published >= seq /\ UNCHANGED feedVars /\ UNCHANGED <<run, sid>>
          /\ phase = "running" => phase' = "running"
          /\ phase' # "down" => phase # "down"
          /\ seq' \in {seq, seq + 1}
      BY <1>1, <2>2, EmitStep
    <3>2. phase' # "down" => published' \in {seq' - 1, seq'}
      <4>1. phase' # "down" => published \in {seq - 1, seq}
        BY <2>c, <3>1
      <4>2. published' = published /\ published >= seq /\ seq' \in {seq, seq + 1}
        BY <3>1
      <4>3. phase' # "down" => published' = seq
        BY <2>t, <4>1, <4>2
      <4>4. seq' - 1 = seq \/ seq' = seq
        <5>1. CASE seq' = seq + 1
          BY <2>t, <5>1
        <5> QED
          BY <4>2, <5>1
      <4> QED
        BY <4>3, <4>4
    <3>3. \A i \in 1..Len(queue) :
            queue[i] \in offered' /\ IsEvent(queue[i], published - Len(queue) + i - 1)'
      BY <2>c, <2>o, <3>1 DEF IsEvent
    <3> QED
      BY <2>c, <3>1, <3>2, <3>3 DEF ChannelInv
  <2>3. CASE Publish
    <3>1. /\ phase = "running" /\ published = seq - 1 /\ published' = published + 1
          /\ Send(Last(accepted)) /\ UNCHANGED journalVars
      BY <2>3, <2>c, <2>t DEF Publish
    <3>2. CASE source # "open"
      <4>1. UNCHANGED connection /\ queue = <<>> /\ ~lagged
        BY <2>c, <3>1, <3>2 DEF Send
      <4> QED
        BY <2>c, <2>e, <2>t, <3>1, <3>2, <4>1 DEF ChannelInv
    <3>3. CASE source = "open"
      <4>1. Last(accepted) \in Events /\ Last(accepted) \in offered
            /\ IsEvent(Last(accepted), published)
        BY <1>1, <2>3, <3>1, PublishedEvent
      <4>2. /\ source' = "open" /\ queue' \in Seq(Events) /\ Len(queue') \in 1..Capacity
            /\ queue'[Len(queue')] = Last(accepted)
        BY <1>1, <3>1, <3>3, <4>1, Sent
      <4>3. PICK dropped \in {0, 1} :
              /\ Len(queue') = Len(queue) + 1 - dropped
              /\ \A i \in 1..(Len(queue') - 1) : queue'[i] = queue[i + dropped]
        BY <1>1, <3>1, <3>3, <4>1, Sent
      <4>4. ASSUME NEW i \in 1..Len(queue')
            PROVE  queue'[i] \in offered /\ IsEvent(queue'[i], published' - Len(queue') + i - 1)
        <5>0. Len(queue') \in Nat
          BY <4>2
        <5>1. CASE i = Len(queue')
          <6>1. published' - Len(queue') + i - 1 = published
            BY <2>t, <3>1, <5>0, <5>1
          <6> QED
            BY <4>1, <4>2, <5>1, <6>1
        <5>2. CASE i < Len(queue')
          <6>1. /\ i + dropped \in 1..Len(queue) /\ queue'[i] = queue[i + dropped]
                /\ published' - Len(queue') + i - 1 = published - Len(queue) + (i + dropped) - 1
            BY <2>t, <3>1, <4>3, <5>0, <5>2
          <6> QED
            BY <2>c, <6>1
        <5> QED
          BY <5>0, <5>1, <5>2
      <4>5. \A i \in 1..Len(queue') :
              queue'[i] \in offered' /\ IsEvent(queue[i], published - Len(queue) + i - 1)'
        BY <3>1, <4>4 DEF IsEvent
      <4> QED
        BY <2>t, <3>1, <4>2, <4>5 DEF ChannelInv
    <3> QED
      BY <3>2, <3>3
  <2>4. CASE EndDaemon
    <3>1. phase' = "down" /\ source' # "open" /\ queue' = <<>> /\ ~lagged'
      BY <2>4 DEF EndDaemon, Stop, PowerFails, Forget, Cut
    <3> QED
      BY <2>e, <3>1 DEF ChannelInv
  <2>5. CASE Click \/ ConnectionDrops \/ ChooseFile
    <3>1. source' # "open" /\ queue' = <<>> /\ ~lagged' /\ UNCHANGED <<journalVars, published>>
      BY <2>5 DEF Click, ConnectionDrops, ChooseFile, Disconnected, Cut
    <3> QED
      BY <2>c, <2>e, <3>1 DEF ChannelInv
  <2>6. CASE Subscribe
    <3>1. phase = "running" /\ source # "open"
          /\ UNCHANGED <<journalVars, published, queue, lagged>>
      BY <2>6 DEF Subscribe
    <3> QED
      BY <2>c, <2>e, <3>1 DEF ChannelInv
  <2>7. CASE Receive
    <3>1. UNCHANGED <<journalVars, published>> /\ queue # <<>>
      BY <2>7 DEF Receive
    <3>2. CASE Disconnected
      <4>1. source' = "none" /\ queue' = <<>> /\ ~lagged'
        BY <3>2 DEF Disconnected
      <4> QED
        BY <2>c, <2>e, <3>1, <4>1 DEF ChannelInv
    <3>3. CASE queue' = Tail(queue) /\ UNCHANGED <<source, lagged>>
      <4>1. /\ Len(queue') = Len(queue) - 1
            /\ \A i \in 1..Len(queue') : queue'[i] = queue[i + 1] /\ i + 1 \in 1..Len(queue)
        BY <2>t, <3>1, <3>3
      <4>2. ASSUME NEW i \in 1..Len(queue')
            PROVE  /\ queue'[i] \in offered'
                   /\ IsEvent(queue[i], published - Len(queue) + i - 1)'
        <5>1. published' - Len(queue') + i - 1 = published - Len(queue) + (i + 1) - 1
          BY <2>t, <3>1, <4>1
        <5> QED
          BY <2>c, <3>1, <4>1, <5>1 DEF IsEvent
      <4> QED
        BY <2>c, <3>1, <3>3, <4>2 DEF ChannelInv
    <3> QED
      BY <1>1, <2>7, <3>2, <3>3, Received
  <2>8. CASE (\E file \in loads : FinishLoad(file)) \/ UNCHANGED <<journalVars, feedVars>>
    <3>1. UNCHANGED <<journalVars, published, connection>>
      BY <2>8 DEF FinishLoad
    <3> QED
      BY <2>c, <3>1 DEF ChannelInv, IsEvent
  <2> QED
    BY <1>1, <2>1, <2>2, <2>3, <2>4, <2>5, <2>6, <2>7, <2>8 DEF FeedNext
<1> QED
  BY <1>1

\* A timeline that joined the connection goes on where the channel begins, until
\* the channel drops an event or the connection ends.
LEMMA JoinKept ==
  JournalInv /\ FeedTypeOK /\ ChannelInv /\ JoinInv /\ (\A file \in loads : FileInv(file))
    /\ [FeedNext]_<<journalVars, feedVars>> => JoinInv'
<1>1. ASSUME JournalInv, FeedTypeOK, ChannelInv, JoinInv, \A file \in loads : FileInv(file),
             [FeedNext]_<<journalVars, feedVars>>, source' = "open", joined', ~lagged'
      PROVE  /\ view'.events # <<>>
             /\ IsEvent(Last(view.events), published - Len(queue) - 1)'
  <2>t. /\ published \in Nat /\ queue \in Seq(Events) /\ Len(queue) \in Nat
        /\ view.events \in Seq(Events)
    BY <1>1, JournalAssumption DEF FeedTypeOK
  <2>j. source = "open" /\ joined /\ ~lagged =>
          /\ view.events # <<>> /\ IsEvent(Last(view.events), published - Len(queue) - 1)
    BY <1>1 DEF JoinInv
  <2>1. CASE StartDaemon
    <3>1. phase = "down" /\ source = "open"
      BY <1>1, <2>1 DEF StartDaemon, Open
    <3> QED
      BY <1>1, <3>1 DEF ChannelInv
  <2>2. CASE Emit
    <3>1. UNCHANGED feedVars /\ UNCHANGED <<run, sid>>
      BY <1>1, <2>2, EmitStep
    <3> QED
      BY <1>1, <2>j, <3>1 DEF IsEvent
  <2>3. CASE Publish
    <3>1. /\ published' = published + 1 /\ Send(Last(accepted)) /\ UNCHANGED <<journalVars, timeline>>
      BY <2>3 DEF Publish
    <3>2. source = "open"
      BY <1>1, <3>1 DEF Send
    <3>3. Last(accepted) \in Events
      BY <1>1, <2>3, PublishedEvent
    <3>4. PICK dropped \in {0, 1} :
            /\ Len(queue') = Len(queue) + 1 - dropped
            /\ dropped = 0 /\ ~lagged' => ~lagged
            /\ dropped = 1 => lagged'
      BY <1>1, <3>1, <3>2, <3>3, Sent
    <3>5. dropped = 0 /\ ~lagged
      BY <1>1, <3>4
    <3>6. published' - Len(queue') - 1 = published - Len(queue) - 1
      BY <2>t, <3>1, <3>4, <3>5
    <3>7. view.events # <<>> /\ IsEvent(Last(view.events), published - Len(queue) - 1)
      BY <1>1, <2>j, <3>1, <3>2, <3>5
    <3> QED
      BY <3>1, <3>6, <3>7 DEF IsEvent
  <2>4. CASE EndDaemon \/ Click \/ ConnectionDrops \/ ChooseFile
    BY <1>1, <2>4 DEF EndDaemon, Click, ConnectionDrops, ChooseFile, Disconnected, Cut
  <2>5. CASE Subscribe
    BY <1>1, <2>5 DEF Subscribe
  <2>6. CASE Receive
    <3>1. /\ queue # <<>> /\ UNCHANGED <<journalVars, published>>
          /\ view'.events = Append(view.events, Head(queue)) /\ queue' = Tail(queue)
      BY <1>1, <2>6, Received DEF Disconnected
    <3>2. /\ Head(queue) = queue[1] /\ Head(queue) \in Events /\ 1 \in 1..Len(queue)
          /\ Len(queue') = Len(queue) - 1
      BY <2>t, <3>1
    <3>3. view'.events # <<>> /\ Last(view'.events) = queue[1]
      BY <2>t, <3>1, <3>2 DEF Last
    <3>4. IsEvent(queue[1], published - Len(queue) + 1 - 1)
      BY <1>1, <3>2 DEF ChannelInv
    <3>5. published' - Len(queue') - 1 = published - Len(queue) + 1 - 1
      BY <2>t, <3>1, <3>2
    <3> QED
      BY <3>1, <3>3, <3>4, <3>5 DEF IsEvent
  <2>7. ASSUME NEW file \in loads, FinishLoad(file)
        PROVE  /\ view'.events # <<>>
               /\ IsEvent(Last(view.events), published - Len(queue) - 1)'
    <3>1. UNCHANGED <<journalVars, published, connection, timeline>>
      BY <1>1, <2>7, Loaded DEF FinishLoad
    <3> QED
      BY <1>1, <2>j, <3>1 DEF IsEvent
  <2>8. CASE UNCHANGED <<journalVars, feedVars>>
    BY <1>1, <2>8, <2>j DEF IsEvent
  <2> QED
    BY <1>1, <2>1, <2>2, <2>3, <2>4, <2>5, <2>6, <2>7, <2>8 DEF FeedNext
<1> QED
  BY <1>1 DEF JoinInv

-----------------------------------------------------------------------------
(* What the browser shows *)

\* The page shows one more accepted event, which continues its timeline.
Shows(e) ==
  /\ Continues(e) /\ e \in Events
  /\ view'.events = Append(view.events, e) /\ loaded' = loaded

\* The page shows a file it has read instead.
ShowsFile(file) ==
  /\ Numbered(file) /\ FileInv(file) /\ file \in Seq(Events)
  /\ view'.events = file /\ loaded' = Len(file)

LEMMA TimelineMoves ==
  ASSUME JournalInv, FeedTypeOK, ChannelInv, \A file \in loads : FileInv(file),
         [FeedNext]_<<journalVars, feedVars>>
  PROVE  \/ view'.events = view.events /\ loaded' = loaded
         \/ \E e \in offered : Shows(e)
         \/ \E file \in loads : ShowsFile(file)
<1>1. CASE Receive
  <2>1. queue # <<>> /\ queue \in Seq(Events) /\ loaded' = loaded
    BY <1>1, Received DEF FeedTypeOK
  <2>2. Head(queue) \in Events /\ Head(queue) = queue[1] /\ 1 \in 1..Len(queue)
    BY <2>1
  <2>3. Head(queue) \in offered
    BY <2>2 DEF ChannelInv
  <2> QED
    BY <1>1, <2>1, <2>2, <2>3, Received DEF Shows
<1>2. ASSUME NEW file \in loads, FinishLoad(file)
      PROVE  \/ view'.events = view.events /\ loaded' = loaded
             \/ ShowsFile(file)
  BY <1>2, Loaded DEF ShowsFile
<1>3. CASE ~Receive /\ ~(\E file \in loads : FinishLoad(file))
  BY <1>3 DEF FeedNext, StartDaemon, Emit, Publish, EndDaemon, Click, Subscribe,
     ConnectionDrops, ChooseFile
<1> QED
  BY <1>1, <1>2, <1>3

LEMMA ShownKept ==
  JournalInv /\ FeedTypeOK /\ ChannelInv /\ ShownIsRecorded /\ (\A file \in loads : FileInv(file))
    /\ [FeedNext]_<<journalVars, feedVars>> => ShownIsRecorded'
<1>1. ASSUME JournalInv, FeedTypeOK, ChannelInv, ShownIsRecorded, \A file \in loads : FileInv(file),
             [FeedNext]_<<journalVars, feedVars>>, NEW i \in DOMAIN view'.events
      PROVE  view'.events[i] \in offered' \/ i = loaded'
  <2>t. view.events \in Seq(Events)
    BY <1>1 DEF FeedTypeOK
  <2>o. offered \subseteq offered'
    BY <1>1, OfferedGrows, FeedDrivesJournal
  <2>s. \A k \in DOMAIN view.events : view.events[k] \in offered \/ k = loaded
    BY <1>1 DEF ShownIsRecorded
  <2>1. CASE view'.events = view.events /\ loaded' = loaded
    BY <1>1, <2>o, <2>s, <2>1
  <2>2. ASSUME NEW e \in offered, Shows(e) PROVE view'.events[i] \in offered' \/ i = loaded'
    <3>1. \/ i \in DOMAIN view.events /\ view'.events[i] = view.events[i]
          \/ view'.events[i] = e
      BY <1>1, <2>t, <2>2 DEF Shows
    <3>2. loaded' = loaded
      BY <2>2 DEF Shows
    <3> QED
      BY <2>o, <2>s, <3>1, <3>2
  <2>3. ASSUME NEW file \in loads, ShowsFile(file)
        PROVE  view'.events[i] \in offered' \/ i = loaded'
    <3>1. i \in 1..Len(file) /\ Len(file) \in Nat
      BY <1>1, <2>3 DEF ShowsFile
    <3>2. i < Len(file) => file[i] \in offered
      BY <2>3, <3>1 DEF ShowsFile, FileInv
    <3>3. view'.events[i] = file[i] /\ loaded' = Len(file)
      BY <2>3 DEF ShowsFile
    <3> QED
      BY <2>o, <3>1, <3>2, <3>3
  <2> QED
    BY <1>1, <2>1, <2>2, <2>3, TimelineMoves
<1> QED
  BY <1>1 DEF ShownIsRecorded

LEMMA SegmentKept ==
  JournalInv /\ FeedTypeOK /\ ChannelInv /\ ShownIsRecorded /\ ViewIsSegment
    /\ (\A file \in loads : FileInv(file)) /\ [FeedNext]_<<journalVars, feedVars>> => ViewIsSegment'
<1>1. ASSUME JournalInv, FeedTypeOK, ChannelInv, ShownIsRecorded, ViewIsSegment,
             \A file \in loads : FileInv(file),
             [FeedNext]_<<journalVars, feedVars>>, NEW i \in 2..Len(view'.events)
      PROVE  /\ view'.events[i].seq = view'.events[i - 1].seq + 1
             /\ view'.events[i].sid = view'.events[i - 1].sid
             /\ \/ view'.events[i].run = view'.events[i - 1].run
                \/ Reused' /\ (backend' # "remote" \/ i = loaded' + 1)
  <2>t. view.events \in Seq(Events) /\ Len(view.events) \in Nat
    BY <1>1 DEF FeedTypeOK
  <2>b. backend' = backend
    <3>1. [JournalNext]_journalVars
      BY <1>1, FeedDrivesJournal
    <3> QED
      BY <3>1 DEF JournalNext, Open, AppendLine, Accept, WriteFails, SyncFails, StartRefused,
         FlushSpool, Stop, PowerFails, Forget, EmitFails
  <2>s. \A k \in 2..Len(view.events) :
          /\ view.events[k].seq = view.events[k - 1].seq + 1
          /\ view.events[k].sid = view.events[k - 1].sid
          /\ \/ view.events[k].run = view.events[k - 1].run
             \/ Reused /\ (backend # "remote" \/ k = loaded + 1)
    BY <1>1 DEF ViewIsSegment
  <2>1. CASE view'.events = view.events /\ loaded' = loaded
    BY <1>1, <2>b, <2>s, <2>1 DEF Reused
  <2>2. ASSUME NEW e \in offered, Shows(e)
        PROVE  /\ view'.events[i].seq = view'.events[i - 1].seq + 1
               /\ view'.events[i].sid = view'.events[i - 1].sid
               /\ \/ view'.events[i].run = view'.events[i - 1].run
                  \/ Reused' /\ (backend' # "remote" \/ i = loaded' + 1)
    <3>1. /\ view'.events \in Seq(Events) /\ Len(view'.events) = Len(view.events) + 1
          /\ view'.events[Len(view.events) + 1] = e
          /\ \A k \in 1..Len(view.events) : view'.events[k] = view.events[k]
          /\ loaded' = loaded
      BY <2>t, <2>2 DEF Shows
    <3>2. CASE i <= Len(view.events)
      <4>1. i \in 2..Len(view.events) /\ i - 1 \in 1..Len(view.events) /\ i \in 1..Len(view.events)
        BY <1>1, <2>t, <3>1, <3>2
      <4>2. Reused => Reused'
        BY <2>t, <3>1 DEF Reused
      <4> QED
        BY <2>b, <2>s, <3>1, <4>1, <4>2
    <3>3. CASE i = Len(view.events) + 1
      <4>1. /\ i - 1 = Len(view.events) /\ Len(view.events) \in 1..Len(view.events)
            /\ view'.events[i] = e /\ view'.events[i - 1] = Last(view.events)
        BY <1>1, <2>t, <3>1, <3>3 DEF Last
      <4>2. e.seq = Last(view.events).seq + 1 /\ e.sid = Last(view.events).sid
        BY <2>2, <2>t, <4>1 DEF Shows, Continues
      <4>3. CASE e.run # Last(view.events).run
        <5>1. Reused'
          <6>1. e.run # e.sid \/ Last(view.events).run # Last(view.events).sid
            BY <4>2, <4>3
          <6>2. i \in DOMAIN view'.events /\ i - 1 \in DOMAIN view'.events
            BY <1>1, <3>1, <4>1
          <6> QED
            BY <4>1, <6>1, <6>2 DEF Reused
        <5>2. ASSUME backend = "remote", Len(view.events) # loaded PROVE FALSE
          <6>1. Last(view.events) \in offered
            BY <1>1, <2>t, <4>1, <5>2 DEF ShownIsRecorded, Last
          <6>2. lines[1].run = e.run /\ lines[1].run = Last(view.events).run
            BY <1>1, <5>2, <6>1, <2>2 DEF JournalInv, OneDaemonInv
          <6> QED
            BY <4>3, <6>2
        <5> QED
          BY <2>b, <3>1, <3>3, <4>1, <4>2, <5>1, <5>2
      <4> QED
        BY <4>1, <4>2, <4>3
    <3> QED
      BY <1>1, <2>t, <3>1, <3>2, <3>3
  <2>3. ASSUME NEW file \in loads, ShowsFile(file)
        PROVE  /\ view'.events[i].seq = view'.events[i - 1].seq + 1
               /\ view'.events[i].sid = view'.events[i - 1].sid
               /\ view'.events[i].run = view'.events[i - 1].run
    <3>1. view'.events = file /\ Len(file) \in Nat /\ file \in Seq(Events)
      BY <2>3 DEF ShowsFile
    <3>2. i \in 1..Len(file) /\ i - 1 \in 1..Len(file)
      BY <1>1, <3>1
    <3>3. \A k \in 1..Len(file) :
            /\ file[k].seq = k - 1 /\ file[k].sid = file[1].sid
            /\ file[k].run = file[1].run
      BY <2>3, <3>1 DEF ShowsFile, Numbered, FileInv
    <3>4. i - 1 = ((i - 1) - 1) + 1
      BY <1>1
    <3> QED
      BY <3>1, <3>2, <3>3, <3>4
  <2> QED
    BY <1>1, <2>1, <2>2, <2>3, TimelineMoves
<1> QED
  BY <1>1 DEF ViewIsSegment

-----------------------------------------------------------------------------
(* Theorems about the feed *)

LEMMA FeedStarts == FeedInit => FeedInv
<1> SUFFICES ASSUME FeedInit PROVE FeedInv
  OBVIOUS
<1>1. JournalTypeOK
  BY JournalStarts DEF FeedInit, JournalInv
<1>2. FeedTypeOK
  <2>1. /\ <<>> \in Seq(Events) /\ Len(<<>>) = 0 /\ 0 <= Capacity /\ 0 \in 0..MaxEvents
    BY JournalAssumption, FeedAssumption
  <2>2. IsFiniteSet(loads) /\ Cardinality(loads) <= MaxLoads
    BY FS_EmptySet, FeedAssumption DEF FeedInit
  <2>3. view \in [events : Seq(Events), resync : BOOLEAN] /\ loaded \in 0..Len(view.events)
    BY <2>1 DEF FeedInit
  <2>4. lagged \in BOOLEAN /\ joined \in BOOLEAN
    BY DEF FeedInit
  <2>5. published = 0 /\ source = "none" /\ queue = <<>>
    BY DEF FeedInit
  <2> QED
    BY <1>1, <2>1, <2>2, <2>3, <2>4, <2>5 DEF FeedTypeOK
<1>3. ChannelInv /\ JoinInv
  BY DEF FeedInit, JournalInit, ChannelInv, JoinInv
<1>4. ViewIsSegment /\ ShownIsRecorded /\ \A file \in loads : FileInv(file)
  BY DEF FeedInit, ViewIsSegment, ShownIsRecorded
<1> QED
  BY <1>2, <1>3, <1>4 DEF FeedInv

LEMMA FeedKept ==
  JournalInv /\ JournalInv' /\ FeedInv /\ [FeedNext]_<<journalVars, feedVars>> => FeedInv'
BY FeedTypes, FilesKept, ChannelKept, JoinKept, ShownKept, SegmentKept DEF FeedInv

LEMMA FeedInvariant == FeedSpec => []FeedInv
BY FeedStarts, FeedKept, FeedIsJournal, JournalInvariant, PTL DEF FeedSpec

\* Every variable of the spool, the channel and the page keeps its type; the channel
\* of BroadcastSink holds no more than its capacity.
THEOREM FeedTypeCorrect == FeedSpec => []FeedTypeOK
<1>1. FeedInv => FeedTypeOK
  BY DEF FeedInv
<1> QED
  BY <1>1, FeedInvariant, PTL

\* Nothing is shown before the durable sink accepted it, but for the last line of a
\* loaded file: emit() sends to the channel after its `await'.
THEOREM ShownWasAccepted == FeedSpec => []ShownIsRecorded
<1>1. FeedInv => ShownIsRecorded
  BY DEF FeedInv
<1> QED
  BY <1>1, FeedInvariant, PTL

\* What appendLiveEvent() and loadTimeline() let into the page is a stretch of one
\* daemon's timeline with no gap, as far as a session id tells daemons apart.
THEOREM ViewHasNoGap == FeedSpec => []ViewIsSegment
<1>1. FeedInv => ViewIsSegment
  BY DEF FeedInv
<1> QED
  BY <1>1, FeedInvariant, PTL

\* A page that joined the stream, and was not told that it lagged, misses nothing.
THEOREM ViewCatchesUp == FeedSpec => []LiveViewComplete
<1>1. FeedInv => LiveViewComplete
  <2> SUFFICES ASSUME FeedInv, source = "open", joined, queue = <<>>, ~lagged
               PROVE  Last(view.events).seq = published - 1 /\ Last(view.events).run = run
    BY DEF LiveViewComplete
  <2>1. IsEvent(Last(view.events), published - Len(queue) - 1)
    BY DEF FeedInv, JoinInv
  <2>2. published - Len(queue) - 1 = published - 1
    BY JournalAssumption DEF FeedInv, FeedTypeOK
  <2> QED
    BY <2>1, <2>2 DEF IsEvent
<1> QED
  BY <1>1, FeedInvariant, PTL

=============================================================================
