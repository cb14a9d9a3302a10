-------------------------- MODULE ControlSocket_proofs --------------------------
(***************************************************************************)
(* Safety of ControlSocket for any number of daemons, shadows and clients, *)
(* any capacity of the command channel and any number of launches.         *)
(*                                                                         *)
(* Each property has an inductive invariant of its own below.  Which       *)
(* daemon a step belongs to decides most cases: a daemon's phase is        *)
(* changed by its own steps only.                                          *)
(***************************************************************************)
EXTENDS ControlSocket, TLAPS

Phases == {"down"} \union Starting \union Recording

\* What the proofs need of the types.
Typed ==
  /\ phase \in [Daemons -> Phases]
  /\ shadow \in [Daemons -> Shadows]
  /\ path \in Daemons \union {Nobody}
  /\ met \in [Daemons -> SUBSET Daemons]
  /\ killed \subseteq Daemons

\* A shadow that is recorded into has a repository, and one recorder.
RecorderInv ==
  /\ \A d \in Daemons : phase[d] \in Recording => shadow[d] \in repo
  /\ OneRecorderPerShadow

\* A daemon whose socket the path holds serves, is on its way down, or was killed.
SocketInv ==
  \A d \in Daemons :
    path = d => phase[d] \in {"serving", "stopping", "finishing"} \/ d \in killed

\* Those a daemon has met serve; past its probe, their socket is not at the path.
MetInv ==
  \A d \in Daemons :
    /\ \A e \in met[d] : phase[e] = "serving"
    /\ phase[d] \notin {"down", "lstat", "probe"} => path \notin met[d]

\* While no daemon was started beside another, one of them is up at most, and what
\* it found at the path is gone before it goes on.
AloneInv ==
  alone =>
    /\ \A d, e \in Daemons : d # e => phase[d] = "down" \/ phase[e] = "down"
    /\ \A d \in Daemons :
         /\ phase[d] \in {"validate", "init", "starting", "bind"} => path = Nobody
         /\ phase[d] = "serving" => path = d
    /\ ~refused

-----------------------------------------------------------------------------
\* The steps that leave alone everything the invariants speak of.
Silent == UNCHANGED <<phase, shadow, path, repo, alone, refused, killed, met>>

\* A daemon's own steps, from its launch to its end.
OwnStep(d) ==
  \/ \E s \in Shadows : Launch(d, s)
  \/ Lstat(d) \/ Probe(d) \/ RemoveStale(d) \/ Validate(d) \/ InitRepo(d)
  \/ Started(d) \/ Bind(d) \/ Signal(d) \/ SendStop(d) \/ Unlink(d) \/ Die(d)

\* The requests do not touch what the daemons share.
LEMMA RequestsAreSilent ==
  ASSUME \/ \E c \in Clients : Connect(c) \/ AcceptConnection(c) \/ Dispatch(c)
         \/ \E d \in Daemons : AutoSnap(d) \/ Execute(d)
         \/ UNCHANGED vars
  PROVE  Silent
BY DEF Silent, Connect, AcceptConnection, Dispatch, AutoSnap, Execute, vars,
       processVars, historyVars

\* A step of the specification is silent or one daemon's.
LEMMA StepCases ==
  ASSUME [Next]_vars
  PROVE  Silent \/ \E d \in Daemons : OwnStep(d)
BY RequestsAreSilent DEF Next, DaemonStep, OwnStep

-----------------------------------------------------------------------------
(* Types *)

\* The variables the proofs speak of keep their types.
LEMMA TypedInductive ==
  /\ Init => Typed
  /\ Typed /\ [Next]_vars => Typed'
<1>1. Init => Typed
  BY DEF Init, Typed, Phases
<1>2. ASSUME Typed, [Next]_vars PROVE Typed'
  <2>1. CASE Silent
    BY <1>2, <2>1 DEF Silent, Typed
  <2>2. ASSUME NEW d \in Daemons, OwnStep(d) PROVE  Typed'
    <3>1. CASE \E s \in Shadows : Launch(d, s)
      BY <1>2, <3>1 DEF Typed, Launch, Step, Listening, Phases, Starting, requestVars
    <3>2. CASE Lstat(d) \/ Probe(d) \/ Validate(d) \/ InitRepo(d)
      BY <1>2, <3>2 DEF Typed, Lstat, Probe, Validate, InitRepo, Step, Phases,
         Starting, Recording, historyVars
    <3>3. CASE RemoveStale(d) \/ Started(d) \/ SendStop(d) \/ Unlink(d)
      BY <1>2, <3>3 DEF Typed, RemoveStale, Started, SendStop, Unlink, Step, Phases,
         Starting, Recording, historyVars
    <3>4. CASE Bind(d)
      BY <1>2, <3>4 DEF Typed, Bind, Step, Phases, Recording
    <3>5. CASE Signal(d) \/ Die(d)
      BY <1>2, <3>5 DEF Typed, Signal, Die, Unmeet, Step, Phases, Recording
    <3>. QED  BY <2>2, <3>1, <3>2, <3>3, <3>4, <3>5 DEF OwnStep
  <2>. QED  BY <1>2, <2>1, <2>2, StepCases
<1>. QED  BY <1>1, <1>2

LEMMA TypedAlways == Spec => []Typed
<1>. QED  BY TypedInductive, PTL DEF Spec

-----------------------------------------------------------------------------
(* One recorder per shadow *)

\* No two daemons record into one shadow repository, however many are started on
\* it at once: InitRepo takes the shadow or finds it taken.
THEOREM OneRecorder == Spec => []OneRecorderPerShadow
<1>1. Init => RecorderInv
  BY DEF Init, RecorderInv, OneRecorderPerShadow, Recording
<1>2. ASSUME Typed, Typed', RecorderInv, [Next]_vars PROVE RecorderInv'
  <2>1. CASE Silent
    BY <1>2, <2>1 DEF Silent, RecorderInv, OneRecorderPerShadow
  <2>2. ASSUME NEW d \in Daemons, OwnStep(d) PROVE  RecorderInv'
    <3>1. CASE InitRepo(d)
      BY <1>2, <3>1 DEF Typed, RecorderInv, OneRecorderPerShadow, InitRepo, Step,
         Recording
    <3>2. CASE \E s \in Shadows : Launch(d, s)
      BY <1>2, <3>2 DEF Typed, RecorderInv, OneRecorderPerShadow, Launch, Step,
         Recording
    <3>3. CASE Lstat(d) \/ Probe(d) \/ RemoveStale(d) \/ Validate(d)
      BY <1>2, <3>3 DEF Typed, RecorderInv, OneRecorderPerShadow, Lstat, Probe,
         RemoveStale, Validate, Step, Recording
    <3>4. CASE Started(d) \/ Bind(d) \/ Signal(d) \/ SendStop(d)
      BY <1>2, <3>4 DEF Typed, RecorderInv, OneRecorderPerShadow, Started, Bind,
         Signal, SendStop, Step, Recording
    <3>5. CASE Unlink(d) \/ Die(d)
      BY <1>2, <3>5 DEF Typed, RecorderInv, OneRecorderPerShadow, Unlink, Die, Step,
         Recording
    <3>. QED  BY <2>2, <3>1, <3>2, <3>3, <3>4, <3>5 DEF OwnStep
  <2>. QED  BY <1>2, <2>1, <2>2, StepCases
<1>3. RecorderInv => OneRecorderPerShadow
  BY DEF RecorderInv
<1>. QED  BY <1>1, <1>2, <1>3, TypedAlways, PTL DEF Spec

-----------------------------------------------------------------------------
(* What a stopped daemon leaves *)

\* A daemon that was stopped and not killed leaves no socket behind: its last step
\* removes whatever the path holds.
THEOREM StopLeavesNothing == Spec => []OrderlyLeavesNothing
<1>1. Init => SocketInv
  BY SocketAssumption DEF Init, SocketInv
<1>2. ASSUME Typed, Typed', SocketInv, [Next]_vars PROVE SocketInv'
  <2>1. CASE Silent
    BY <1>2, <2>1 DEF Silent, SocketInv
  <2>2. ASSUME NEW d \in Daemons, OwnStep(d) PROVE  SocketInv'
    <3>1. CASE \E s \in Shadows : Launch(d, s)
      BY <1>2, <3>1 DEF Typed, SocketInv, Launch, Step
    <3>2. CASE RemoveStale(d) \/ Unlink(d)
      BY <1>2, <3>2, SocketAssumption DEF Typed, SocketInv, RemoveStale, Unlink
    <3>3. CASE Lstat(d) \/ Probe(d) \/ Validate(d) \/ InitRepo(d) \/ Started(d)
      BY <1>2, <3>3 DEF Typed, SocketInv, Lstat, Probe, Validate, InitRepo, Started,
         Step, historyVars
    <3>4. CASE Bind(d)
      BY <1>2, <3>4 DEF Typed, SocketInv, Bind, Step
    <3>5. CASE Signal(d) \/ SendStop(d) \/ Die(d)
      BY <1>2, <3>5 DEF Typed, SocketInv, Signal, SendStop, Die, Step, historyVars
    <3>. QED  BY <2>2, <3>1, <3>2, <3>3, <3>4, <3>5 DEF OwnStep
  <2>. QED  BY <1>2, <2>1, <2>2, StepCases
<1>3. SocketInv => OrderlyLeavesNothing
  BY DEF SocketInv, OrderlyLeavesNothing
<1>. QED  BY <1>1, <1>2, <1>3, TypedAlways, PTL DEF Spec

-----------------------------------------------------------------------------
(* The socket of a daemon that serves *)

\* A daemon that was serving when another was started, and still is, does not lose
\* its socket to it: past the probe the path holds nobody's socket or that of a
\* daemon which came later.
THEOREM ActiveSocketKept == Spec => []ActiveSocketIsKept
<1>1. Init => MetInv
  BY DEF Init, MetInv
<1>2. ASSUME Typed, Typed', MetInv, [Next]_vars PROVE MetInv'
  <2>1. CASE Silent
    BY <1>2, <2>1 DEF Silent, MetInv
  <2>2. ASSUME NEW d \in Daemons, OwnStep(d) PROVE  MetInv'
    <3>1. CASE \E s \in Shadows : Launch(d, s)
      BY <1>2, <3>1 DEF Typed, MetInv, Launch, Step, Listening
    <3>2. CASE Lstat(d) \/ Probe(d)
      BY <1>2, <3>2, SocketAssumption DEF Typed, MetInv, Lstat, Probe, Step, Listening,
         historyVars
    <3>3. CASE RemoveStale(d) \/ Unlink(d)
      BY <1>2, <3>3, SocketAssumption DEF Typed, MetInv, RemoveStale, Unlink, Step,
         historyVars
    <3>4. CASE Validate(d) \/ InitRepo(d) \/ Started(d) \/ SendStop(d)
      BY <1>2, <3>4 DEF Typed, MetInv, Validate, InitRepo, Started, SendStop, Step,
         historyVars
    <3>5. CASE Bind(d)
      BY <1>2, <3>5 DEF Typed, MetInv, Bind, Step
    <3>6. CASE Signal(d) \/ Die(d)
      BY <1>2, <3>6 DEF Typed, MetInv, Signal, Die, Unmeet, Step
    <3>. QED  BY <2>2, <3>1, <3>2, <3>3, <3>4, <3>5, <3>6 DEF OwnStep
  <2>. QED  BY <1>2, <2>1, <2>2, StepCases
<1>3. MetInv => ActiveSocketIsKept
  BY DEF MetInv, ActiveSocketIsKept
<1>. QED  BY <1>1, <1>2, <1>3, TypedAlways, PTL DEF Spec

-----------------------------------------------------------------------------
(* A daemon that meets nobody *)

\* Where no two processes overlap, what an earlier daemon left at the path turns
\* nobody away, and who serves is reachable.
THEOREM LoneDaemon == Spec => []LoneDaemonServes
<1>1. Init => AloneInv
  BY DEF Init, AloneInv
<1>2. ASSUME Typed, Typed', AloneInv, [Next]_vars PROVE AloneInv'
  <2>1. CASE Silent
    BY <1>2, <2>1 DEF Silent, AloneInv
  <2>2. ASSUME NEW d \in Daemons, OwnStep(d) PROVE  AloneInv'
    <3>1. CASE \E s \in Shadows : Launch(d, s)
      <4>. SUFFICES ASSUME alone' PROVE AloneInv'
        BY DEF AloneInv
      <4>1. alone /\ \A other \in Daemons : phase[other] = "down"
        BY <3>1 DEF Launch
      <4>2. phase' = [phase EXCEPT ![d] = "lstat"] /\ refused' = refused /\ path' = path
        BY <3>1 DEF Launch, Step
      <4>. QED  BY <1>2, <4>1, <4>2 DEF Typed, AloneInv
    <3>2. CASE Lstat(d) \/ Probe(d)
      BY <1>2, <3>2, SocketAssumption DEF Typed, AloneInv, Lstat, Probe, Step,
         Listening, historyVars
    <3>3. CASE RemoveStale(d) \/ Unlink(d)
      BY <1>2, <3>3, SocketAssumption DEF Typed, AloneInv, RemoveStale, Unlink, Step,
         historyVars
    <3>4. CASE Validate(d) \/ InitRepo(d) \/ Started(d) \/ SendStop(d)
      BY <1>2, <3>4 DEF Typed, AloneInv, Validate, InitRepo, Started, SendStop, Step,
         historyVars
    <3>5. CASE Bind(d)
      BY <1>2, <3>5 DEF Typed, AloneInv, Bind, Step
    <3>6. CASE Signal(d) \/ Die(d)
      <4>1. PICK to \in {"stopping", "down"} :
              /\ phase' = [phase EXCEPT ![d] = to]
              /\ to = "stopping" => phase[d] = "serving"
              /\ UNCHANGED <<path, alone, refused>>
        BY <3>6 DEF Signal, Die, Step
      <4>2. phase'[d] = to /\ \A e \in Daemons : e # d => phase'[e] = phase[e]
        BY <1>2, <4>1 DEF Typed
      <4>. QED  BY <1>2, <4>1, <4>2 DEF AloneInv
    <3>. QED  BY <2>2, <3>1, <3>2, <3>3, <3>4, <3>5, <3>6 DEF OwnStep
  <2>. QED  BY <1>2, <2>1, <2>2, StepCases
<1>3. AloneInv => LoneDaemonServes
  BY DEF AloneInv, LoneDaemonServes
<1>. QED  BY <1>1, <1>2, <1>3, TypedAlways, PTL DEF Spec

-----------------------------------------------------------------------------
(* The command channel *)

Senders == Clients \union {"stop", "watcher"}

\* A coordinator has returned only after the stop it was sent, or with its process,
\* and then its channel is empty.
ChannelInv ==
  /\ chan \in [Daemons -> Seq(Senders)]
  /\ ended \in [Daemons -> BOOLEAN]
  /\ \A d \in Daemons :
       /\ Len(chan[d]) <= ChannelCap
       /\ ended[d] => chan[d] = <<>>
       /\ phase[d] \in {"bind", "serving", "stopping"} => ~ended[d]
       /\ \A i \in 1..Len(chan[d]) : chan[d][i] = "stop" => phase[d] = "finishing"

ClientInv ==
  client \in [Clients -> [pc : {"idle", "queued", "accepted", "waiting"},
                          to : Daemons \union {Nobody}]]

\* One more request in a channel with room.
LEMMA SendKeeps ==
  ASSUME ChannelInv, NEW d \in Daemons, NEW who \in Senders, ~ended[d],
         HasRoom(d), Send(d, who), ended' = ended,
         \A e \in Daemons : phase'[e] \in {phase[e], "finishing"},
         who = "stop" => phase'[d] = "finishing"
  PROVE  ChannelInv'
<1>1. chan' = [chan EXCEPT ![d] = Append(chan[d], who)]
  BY DEF Send
<1>2. chan[d] \in Seq(Senders) /\ Len(chan[d]) < ChannelCap
  BY DEF ChannelInv, HasRoom
<1>3. /\ Append(chan[d], who) \in Seq(Senders)
      /\ Len(Append(chan[d], who)) = Len(chan[d]) + 1
      /\ Append(chan[d], who)[Len(chan[d]) + 1] = who
      /\ \A i \in 1..Len(chan[d]) : Append(chan[d], who)[i] = chan[d][i]
  BY <1>2
<1>4. Len(chan[d]) + 1 <= ChannelCap
  BY <1>2, SocketAssumption
<1>5. chan' \in [Daemons -> Seq(Senders)] /\ ended' \in [Daemons -> BOOLEAN]
  BY <1>1, <1>3 DEF ChannelInv
<1>6. ASSUME NEW e \in Daemons
      PROVE  /\ Len(chan'[e]) <= ChannelCap
             /\ ended'[e] => chan'[e] = <<>>
             /\ phase'[e] \in {"bind", "serving", "stopping"} => ~ended'[e]
             /\ \A i \in 1..Len(chan'[e]) : chan'[e][i] = "stop" => phase'[e] = "finishing"
  <2>1. CASE e = d
    <3>1. chan'[e] = Append(chan[d], who) /\ ~ended'[e]
      BY <1>1, <2>1 DEF ChannelInv
    <3>2. ASSUME NEW i \in 1..Len(chan'[e]), chan'[e][i] = "stop"
          PROVE  phase'[e] = "finishing"
      <4>1. CASE i = Len(chan[d]) + 1
        BY <1>3, <2>1, <3>1, <3>2, <4>1
      <4>2. CASE i \in 1..Len(chan[d])
        BY <1>3, <2>1, <3>1, <3>2, <4>2 DEF ChannelInv
      <4>. QED  BY <1>2, <1>3, <3>1, <3>2, <4>1, <4>2
    <3>. QED  BY <1>3, <1>4, <3>1, <3>2
  <2>2. CASE e # d
    <3>1. chan'[e] = chan[e] /\ ended'[e] = ended[e]
      BY <1>1, <2>2 DEF ChannelInv
    <3>. QED  BY <3>1 DEF ChannelInv
  <2>. QED  BY <2>1, <2>2
<1>. QED  BY <1>5, <1>6 DEF ChannelInv

\* The head of a channel leaves it.
LEMMA TailKeeps ==
  ASSUME ChannelInv, NEW d \in Daemons, chan[d] # <<>>, UNCHANGED <<ended, phase>>,
         chan' = [chan EXCEPT ![d] = Tail(chan[d])]
  PROVE  ChannelInv'
<1>1. chan[d] \in Seq(Senders) /\ Len(chan[d]) <= ChannelCap /\ ~ended[d]
  BY DEF ChannelInv
<1>2. /\ Tail(chan[d]) \in Seq(Senders)
      /\ Len(Tail(chan[d])) = Len(chan[d]) - 1
      /\ \A i \in 1..Len(Tail(chan[d])) : Tail(chan[d])[i] = chan[d][i + 1]
  BY <1>1
<1>3. Len(Tail(chan[d])) <= ChannelCap
  BY <1>1, <1>2, SocketAssumption
<1>4. \A i \in 1..Len(Tail(chan[d])) :
        Tail(chan[d])[i] = "stop" => phase[d] = "finishing"
  BY <1>1, <1>2 DEF ChannelInv
<1>. QED  BY <1>1, <1>2, <1>3, <1>4 DEF ChannelInv

\* No step of a daemon's own puts a stop into a channel but SendStop, nor lets a
\* coordinator that has returned go on.
LEMMA ChannelInductive ==
  /\ Init => ChannelInv
  /\ Typed /\ ChannelInv /\ [Next]_vars => ChannelInv'
<1>1. Init => ChannelInv
  BY SocketAssumption DEF Init, ChannelInv
<1>2. ASSUME Typed, ChannelInv, [Next]_vars PROVE ChannelInv'
  <2>1. ASSUME NEW d \in Daemons,
               \/ \E s \in Shadows : Launch(d, s)
               \/ Lstat(d) \/ Probe(d) \/ RemoveStale(d) \/ Validate(d) \/ InitRepo(d)
        PROVE  ChannelInv'
    BY <1>2, <2>1 DEF Typed, ChannelInv, Launch, Lstat, Probe, RemoveStale, Validate,
       InitRepo, Step, requestVars, Phases, Starting
  <2>2. ASSUME NEW d \in Daemons, Started(d) \/ Bind(d) \/ Signal(d) \/ Unlink(d)
        PROVE  ChannelInv'
    <3>1. CASE Started(d)
      <4>1. phase[d] = "starting" /\ phase' = [phase EXCEPT ![d] = "bind"]
        BY <3>1 DEF Started, Step
      <4>2. chan' = chan /\ ended' = [ended EXCEPT ![d] = FALSE]
        BY <3>1 DEF Started
      <4>. QED  BY <1>2, <4>1, <4>2 DEF Typed, ChannelInv
    <3>2. CASE Bind(d)
      <4>1. /\ phase[d] = "bind"
            /\ \/ phase' = [phase EXCEPT ![d] = "serving"]
               \/ phase' = [phase EXCEPT ![d] = "down"]
        BY <3>2 DEF Bind, Step
      <4>2. chan' = chan /\ ended' = ended
        BY <3>2 DEF Bind, requestVars
      <4>. QED  BY <1>2, <4>1, <4>2 DEF Typed, ChannelInv
    <3>3. CASE Signal(d)
      <4>1. phase[d] = "serving" /\ phase' = [phase EXCEPT ![d] = "stopping"]
        BY <3>3 DEF Signal, Step
      <4>2. chan' = chan /\ ended' = ended
        BY <3>3 DEF Signal
      <4>. QED  BY <1>2, <4>1, <4>2 DEF Typed, ChannelInv
    <3>4. CASE Unlink(d)
      <4>1. ended[d] /\ phase' = [phase EXCEPT ![d] = "down"]
        BY <3>4 DEF Unlink, Step
      <4>2. chan' = chan /\ ended' = ended
        BY <3>4 DEF Unlink
      <4>3. chan[d] = <<>>
        BY <1>2, <4>1 DEF ChannelInv
      <4>. QED  BY <1>2, <4>1, <4>2, <4>3 DEF Typed, ChannelInv
    <3>. QED  BY <2>2, <3>1, <3>2, <3>3, <3>4
  <2>3. ASSUME NEW d \in Daemons, Die(d) PROVE ChannelInv'
    BY <1>2, <2>3, SocketAssumption DEF Typed, ChannelInv, Die
  <2>4. ASSUME NEW d \in Daemons, SendStop(d) PROVE ChannelInv'
    <3>1. HasRoom(d) /\ Send(d, "stop") /\ ended' = ended
      BY <2>4 DEF SendStop
    <3>2. phase[d] = "stopping" /\ phase' = [phase EXCEPT ![d] = "finishing"]
      BY <2>4 DEF SendStop, Step
    <3>3. /\ phase'[d] = "finishing"
          /\ \A e \in Daemons : phase'[e] \in {phase[e], "finishing"}
      BY <1>2, <3>2 DEF Typed
    <3>4. ~ended[d] /\ "stop" \in Senders
      BY <1>2, <3>2 DEF ChannelInv, Senders
    <3>. QED  BY <1>2, <3>1, <3>3, <3>4, SendKeeps
  <2>5. ASSUME NEW d \in Daemons, AutoSnap(d) PROVE ChannelInv'
    <3>1. HasRoom(d) /\ Send(d, "watcher") /\ ended' = ended /\ phase' = phase
      BY <2>5 DEF AutoSnap, processVars
    <3>2. ~ended[d] /\ "watcher" \in Senders
      BY <2>5 DEF AutoSnap, Senders
    <3>. QED  BY <1>2, <3>1, <3>2, SendKeeps
  <2>6. ASSUME NEW d \in Daemons, Execute(d) PROVE ChannelInv'
    <3>1. CASE Head(chan[d]) = "stop"
      <4>1. chan[d] \in Seq(Senders) /\ chan[d] # <<>>
        BY <1>2, <2>6 DEF ChannelInv, Execute
      <4>2. 1 \in 1..Len(chan[d]) /\ chan[d][1] = "stop"
        BY <3>1, <4>1
      <4>3. phase[d] = "finishing"
        BY <1>2, <4>2 DEF ChannelInv
      <4>4. /\ ended' = [ended EXCEPT ![d] = TRUE]
            /\ chan' = [chan EXCEPT ![d] = <<>>]
            /\ phase' = phase
        BY <2>6, <3>1 DEF Execute, processVars
      <4>. QED  BY <1>2, <4>3, <4>4, SocketAssumption DEF ChannelInv
    <3>2. CASE Head(chan[d]) # "stop"
      BY <1>2, <2>6, <3>2, TailKeeps DEF Execute, processVars
    <3>. QED  BY <3>1, <3>2
  <2>7. ASSUME NEW c \in Clients, Connect(c) \/ AcceptConnection(c) PROVE ChannelInv'
    BY <1>2, <2>7 DEF ChannelInv, Connect, AcceptConnection, processVars
  <2>8. ASSUME NEW c \in Clients, Dispatch(c) PROVE ChannelInv'
    <3>1. CASE chan' = chan
      BY <1>2, <2>8, <3>1 DEF ChannelInv, Dispatch, processVars
    <3>2. CASE client[c].to \in Daemons /\ chan' # chan
      <4>. DEFINE d == client[c].to
      <4>1. /\ ~ended[d] /\ HasRoom(d) /\ Send(d, c)
            /\ ended' = ended /\ phase' = phase
        BY <2>8, <3>2 DEF Dispatch, processVars
      <4>2. c \in Senders /\ c # "stop" /\ d \in Daemons
        BY <3>2, SocketAssumption DEF Senders
      <4>. HIDE DEF d
      <4>. QED  BY <1>2, <4>1, <4>2, SendKeeps
    <3>3. CASE client[c].to \notin Daemons
      BY <1>2, <2>8, <3>3 DEF ChannelInv, Dispatch, Send, processVars
    <3>. QED  BY <3>1, <3>2, <3>3
  <2>9. CASE UNCHANGED vars
    BY <1>2, <2>9 DEF ChannelInv, vars, processVars, requestVars
  <2>. QED
    BY <1>2, <2>1, <2>2, <2>3, <2>4, <2>5, <2>6, <2>7, <2>8, <2>9 DEF Next, DaemonStep
<1>. QED  BY <1>1, <1>2

\* A client is in one of four places, with a daemon or with nobody.
LEMMA ClientInductive ==
  /\ Init => ClientInv
  /\ Typed /\ ClientInv /\ [Next]_vars => ClientInv'
<1>1. Init => ClientInv
  BY DEF Init, ClientInv, Idle
<1>2. ASSUME Typed, ClientInv, [Next]_vars PROVE ClientInv'
  <2>1. ASSUME NEW d, NEW who, EndRequests(d, who) PROVE ClientInv'
    BY <1>2, <2>1 DEF ClientInv, EndRequests, Idle
  <2>2. ASSUME NEW c \in Clients, Connect(c) PROVE ClientInv'
    BY <1>2, <2>2 DEF ClientInv, Connect, Listening
  <2>3. ASSUME NEW c \in Clients, AcceptConnection(c) PROVE ClientInv'
    BY <1>2, <2>3 DEF ClientInv, AcceptConnection
  <2>4. ASSUME NEW c \in Clients, Dispatch(c) PROVE ClientInv'
    BY <1>2, <2>4 DEF ClientInv, Dispatch, Idle
  <2>5. ASSUME NEW d \in Daemons, Execute(d) \/ Signal(d) \/ Unlink(d) \/ Die(d)
        PROVE  ClientInv'
    BY <2>1, <2>5 DEF Execute, Signal, Unlink, Die
  <2>6. ASSUME NEW d \in Daemons,
               \/ \E s \in Shadows : Launch(d, s)
               \/ Lstat(d) \/ Probe(d) \/ RemoveStale(d) \/ Validate(d) \/ InitRepo(d)
               \/ Started(d) \/ Bind(d) \/ SendStop(d) \/ AutoSnap(d)
        PROVE  ClientInv'
    BY <1>2, <2>6 DEF ClientInv, Launch, Lstat, Probe, RemoveStale, Validate, InitRepo,
       Started, Bind, SendStop, AutoSnap, requestVars
  <2>7. CASE UNCHANGED vars
    BY <1>2, <2>7 DEF ClientInv, vars, requestVars
  <2>. QED  BY <1>2, <2>2, <2>3, <2>4, <2>5, <2>6, <2>7 DEF Next, DaemonStep
<1>. QED  BY <1>1, <1>2

\* The rest of the type invariant.
OtherTypes ==
  /\ repo \subseteq Shadows /\ launches \in 0..MaxLaunches
  /\ alone \in BOOLEAN /\ refused \in BOOLEAN

LEMMA OtherInductive ==
  /\ Init => OtherTypes
  /\ Typed /\ OtherTypes /\ [Next]_vars => OtherTypes'
<1>1. ASSUME Init PROVE OtherTypes
  <2>1. repo \subseteq Shadows /\ launches \in 0..MaxLaunches
    BY <1>1, SocketAssumption DEF Init
  <2>2. alone \in BOOLEAN /\ refused \in BOOLEAN
    BY <1>1 DEF Init
  <2>. QED  BY <2>1, <2>2 DEF OtherTypes
<1>2. ASSUME Typed, OtherTypes, [Next]_vars PROVE OtherTypes'
  <2>1. repo' = repo \/ \E d \in Daemons : repo' = repo \union {shadow[d]}
    BY <1>2 DEF Next, DaemonStep, Launch, Lstat, Probe, RemoveStale, Validate, InitRepo,
       Started, Bind, Execute, Unlink, AutoSnap, Signal, SendStop, Die, Connect,
       AcceptConnection, Dispatch, vars, processVars
  <2>2. launches' = launches \/ (launches < MaxLaunches /\ launches' = launches + 1)
    BY <1>2 DEF Next, DaemonStep, Launch, Lstat, Probe, RemoveStale, Validate, InitRepo,
       Started, Bind, Execute, Unlink, AutoSnap, Signal, SendStop, Die, Connect,
       AcceptConnection, Dispatch, vars, processVars
  <2>3. alone' \in BOOLEAN
    BY <1>2 DEF OtherTypes, Next, DaemonStep, Launch, Lstat, Probe, RemoveStale,
       Validate, InitRepo, Started, Bind, Execute, Unlink, AutoSnap, Signal, SendStop,
       Die, Connect, AcceptConnection, Dispatch, vars, historyVars
  <2>4. refused' \in BOOLEAN
    BY <1>2 DEF OtherTypes, Next, DaemonStep, Launch, Lstat, Probe, RemoveStale,
       Validate, InitRepo, Started, Bind, Execute, Unlink, AutoSnap, Signal, SendStop,
       Die, Connect, AcceptConnection, Dispatch, vars, historyVars
  <2>5. repo' \subseteq Shadows
    BY <1>2, <2>1 DEF Typed, OtherTypes
  <2>6. launches' \in 0..MaxLaunches
    BY <1>2, <2>2, SocketAssumption DEF OtherTypes
  <2>. QED  BY <2>3, <2>4, <2>5, <2>6 DEF OtherTypes
<1>. QED  BY <1>1, <1>2

\* Every variable keeps its type, the command channel its capacity, and the channel
\* of a coordinator that has returned stays empty.
THEOREM TypeCorrect == Spec => []TypeOK
<1>1. Typed /\ ChannelInv /\ ClientInv /\ OtherTypes => TypeOK
  BY DEF Typed, ChannelInv, ClientInv, OtherTypes, TypeOK, Phases, Senders
<1>. QED
  BY <1>1, TypedAlways, ChannelInductive, ClientInductive, OtherInductive, PTL
  DEF Spec

=============================================================================
