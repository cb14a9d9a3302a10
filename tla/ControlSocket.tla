----------------------------- MODULE ControlSocket -----------------------------
(***************************************************************************)
(* The life of daemons given one control socket path, and of the control   *)
(* requests sent through it (crates/rrjj/src/main.rs, run(), serve(),      *)
(* request(), remove_stale_socket(); rrjj-core/src/lib.rs, start()).       *)
(*                                                                         *)
(* The path is a slot that holds nobody's socket or the one a daemon bound *)
(* there; it outlives its daemon, and is stale once nobody listens.  A     *)
(* daemon is one process of start-up, service and shutdown; a process that *)
(* returns an error before it serves ends as one that is killed: with what *)
(* it has made left behind.  The options need no HTTP address, so nothing  *)
(* but the path and the shadow stands between two daemons.                 *)
(***************************************************************************)
EXTENDS Naturals, Sequences, FiniteSets, SequencesExt

CONSTANTS
  Daemons,     \* processes
  Shadows,     \* shadow directories to choose from
  Clients,     \* control commands run from a shell
  ChannelCap,  \* of the coordinator's command channel
  MaxLaunches, \* bound: daemons started
  Nobody       \* model value: no socket at the path

ASSUME SocketAssumption ==
  /\ Nobody \notin Daemons
  /\ ChannelCap \in Nat \ {0} /\ MaxLaunches \in Nat
  /\ {"stop", "watcher"} \intersect Clients = {}

VARIABLES
  phase,    \* per daemon: how far run() is
  shadow,   \* per daemon: its --shadow
  path,     \* whose socket the path holds
  repo,     \* shadows with a repository
  chan,     \* per daemon: the command channel
  ended,    \* per daemon: has its coordinator returned?
  client,   \* per client: [pc, to]
  launches, \* daemons started so far
  alone,    \* history: no daemon was started beside another process
  refused,  \* history: has a path in use turned a lone daemon away?
  killed,   \* history: daemons that were killed since they last bound the path
  met       \* history: per daemon, those that were serving at the path when it
            \* was started and have served since

processVars == <<phase, shadow, repo, launches>>
requestVars == <<chan, ended, client>>
historyVars == <<alone, refused, killed, met>>
vars == <<processVars, path, requestVars, historyVars>>

Idle == [pc |-> "idle", to |-> Nobody]

Init ==
  /\ phase = [d \in Daemons |-> "down"]
  /\ shadow \in [Daemons -> Shadows]
  /\ path = Nobody /\ repo = {}
  /\ chan = [d \in Daemons |-> <<>>] /\ ended = [d \in Daemons |-> FALSE]
  /\ client = [c \in Clients |-> Idle]
  /\ launches = 0
  /\ alone = TRUE /\ refused = FALSE /\ killed = {}
  /\ met = [d \in Daemons |-> {}]

Listening(d) == d \in Daemons /\ phase[d] = "serving"

Step(d, from, to) == phase[d] = from /\ phase' = [phase EXCEPT ![d] = to]

\* The requests that some clients have made of a daemon end: request() reads the
\* answer, or a closed connection, and returns.
EndRequests(d, who) ==
  client' = [c \in Clients |->
               IF client[c].to = d /\ c \in who THEN Idle ELSE client[c]]

InState(pc) == {c \in Clients : client[c].pc = pc}

Unmeet(d) == met' = [r \in Daemons |-> met[r] \ {d}]

-----------------------------------------------------------------------------
(* run() up to the bound socket *)

Launch(d, s) ==
  /\ launches < MaxLaunches
  /\ Step(d, "down", "lstat")
  /\ shadow' = [shadow EXCEPT ![d] = s]
  /\ launches' = launches + 1
  /\ alone' = (alone /\ \A other \in Daemons : phase[other] = "down")
  /\ met' = [met EXCEPT ![d] = {other \in {path} : Listening(other)}]
  /\ UNCHANGED <<path, repo, requestVars, refused, killed>>

\* remove_stale_socket(): symlink_metadata().
Lstat(d) ==
  /\ Step(d, "lstat", IF path = Nobody THEN "validate" ELSE "probe")
  /\ UNCHANGED <<shadow, repo, launches, path, requestVars, historyVars>>

\* Slip: whoever answers, the socket goes.
Probe_Ignored(d) ==
  /\ Step(d, "probe", "remove")
  /\ UNCHANGED <<shadow, repo, launches, path, requestVars, historyVars>>

\* connect(): a listener means an active daemon and ends this one.
Probe(d) ==
  /\ Step(d, "probe", IF Listening(path) THEN "down" ELSE "remove")
  /\ refused' = (refused \/ (alone /\ Listening(path)))
  /\ UNCHANGED <<shadow, repo, launches, path, requestVars, alone, killed, met>>

\* Slip: a refused connection is taken for a free path.
RemoveStale_Skipped(d) ==
  /\ Step(d, "remove", "validate")
  /\ UNCHANGED <<shadow, repo, launches, path, requestVars, historyVars>>

\* remove_file() of what the path holds by now.
RemoveStale(d) ==
  /\ Step(d, "remove", "validate")
  /\ path' = Nobody
  /\ UNCHANGED <<shadow, repo, launches, requestVars, historyVars>>

\* validate_roots(): the shadow must be empty.
Validate(d) ==
  /\ Step(d, "validate", IF shadow[d] \in repo THEN "down" ELSE "init")
  /\ UNCHANGED <<shadow, repo, launches, path, requestVars, historyVars>>

\* Slip: the repository is made whether or not it exists.
InitRepo_Shared(d) ==
  /\ Step(d, "init", "starting")
  /\ repo' = repo \union {shadow[d]}
  /\ UNCHANGED <<shadow, launches, path, requestVars, historyVars>>

\* JjRecorder::init(): create_dir() makes the repository or finds it made.
InitRepo(d) ==
  /\ Step(d, "init", IF shadow[d] \in repo THEN "down" ELSE "starting")
  /\ repo' = repo \union {shadow[d]}
  /\ UNCHANGED <<shadow, launches, path, requestVars, historyVars>>

\* start(): baseline, session_start, coordinator thread, watcher.
Started(d) ==
  /\ Step(d, "starting", "bind")
  /\ ended' = [ended EXCEPT ![d] = FALSE]
  /\ UNCHANGED <<shadow, repo, launches, path, chan, client, historyVars>>

\* UnixListener::bind(): it does not replace what the path holds.
Bind(d) ==
  /\ Step(d, "bind", IF path = Nobody THEN "serving" ELSE "down")
  /\ path' = IF path = Nobody THEN d ELSE path
  /\ killed' = IF path = Nobody THEN killed \ {d} ELSE killed
  /\ refused' = (refused \/ (alone /\ path # Nobody))
  /\ UNCHANGED <<shadow, repo, launches, requestVars, alone, met>>

-----------------------------------------------------------------------------
(* Control requests *)

\* request(): the connection is in the listener's backlog at once.
Connect(c) ==
  /\ client[c].pc = "idle" /\ Listening(path)
  /\ client' = [client EXCEPT ![c] = [pc |-> "queued", to |-> path]]
  /\ UNCHANGED <<processVars, path, chan, ended, historyVars>>

\* serve(): accept() and a task for the connection.
AcceptConnection(c) ==
  /\ client[c].pc = "queued" /\ Listening(client[c].to)
  /\ client' = [client EXCEPT ![c].pc = "accepted"]
  /\ UNCHANGED <<processVars, path, chan, ended, historyVars>>

HasRoom(d) == Len(chan[d]) < ChannelCap

Send(d, who) == chan' = [chan EXCEPT ![d] = Append(@, who)]

\* Slip: a request that finds the channel full is forgotten.
Dispatch_Lossy(c) ==
  /\ client[c].pc = "accepted"
  /\ IF HasRoom(client[c].to) THEN Send(client[c].to, c) ELSE UNCHANGED chan
  /\ client' = [client EXCEPT ![c].pc = "waiting"]
  /\ UNCHANGED <<processVars, path, ended, historyVars>>

\* dispatch(): the command is sent when there is room, or the channel is closed
\* and the client is told.
Dispatch(c) ==
  /\ client[c].pc = "accepted"
  /\ IF ended[client[c].to]
       THEN client' = [client EXCEPT ![c] = Idle] /\ UNCHANGED chan
       ELSE /\ HasRoom(client[c].to)
            /\ Send(client[c].to, c)
            /\ client' = [client EXCEPT ![c].pc = "waiting"]
  /\ UNCHANGED <<processVars, path, ended, historyVars>>

\* The watcher task's snap(), one at a time.
AutoSnap(d) ==
  /\ phase[d] \in {"bind", "serving", "stopping", "finishing"} /\ ~ended[d]
  /\ HasRoom(d) /\ "watcher" \notin ToSet(chan[d])
  /\ Send(d, "watcher")
  /\ UNCHANGED <<processVars, path, ended, client, historyVars>>

\* Slip: a coordinator that is told to stop serves on.
Execute_Deaf(d) ==
  /\ chan[d] # <<>> /\ ~ended[d]
  /\ chan' = [chan EXCEPT ![d] = Tail(@)]
  /\ EndRequests(d, {Head(chan[d])})
  /\ UNCHANGED <<processVars, path, ended, historyVars>>

\* Coordinator::run(): the next command is executed and its sender answered; a
\* shutdown ends the task, and who is left in the channel gets an error.
Execute(d) ==
  /\ chan[d] # <<>> /\ ~ended[d]
  /\ IF Head(chan[d]) = "stop"
       THEN /\ ended' = [ended EXCEPT ![d] = TRUE]
            /\ chan' = [chan EXCEPT ![d] = <<>>]
            /\ EndRequests(d, InState("waiting"))
       ELSE /\ chan' = [chan EXCEPT ![d] = Tail(@)]
            /\ EndRequests(d, {Head(chan[d])})
            /\ UNCHANGED ended
  /\ UNCHANGED <<processVars, path, historyVars>>

-----------------------------------------------------------------------------
(* The end of a daemon *)

\* SIGINT, SIGTERM or an error of accept(): serve() returns and drops the
\* listener, and with it the connections it has not accepted.
Signal(d) ==
  /\ Step(d, "serving", "stopping")
  /\ EndRequests(d, InState("queued"))
  /\ Unmeet(d)
  /\ UNCHANGED <<shadow, repo, launches, path, chan, ended, alone, refused, killed>>

\* shutdown(): waits for room like every command.
SendStop(d) ==
  /\ HasRoom(d)
  /\ Step(d, "stopping", "finishing")
  /\ Send(d, "stop")
  /\ UNCHANGED <<shadow, repo, launches, path, ended, client, historyVars>>

\* Slip: the socket is left where it is.
Unlink_Skipped(d) ==
  /\ ended[d] /\ Step(d, "finishing", "down")
  /\ EndRequests(d, Clients)
  /\ UNCHANGED <<shadow, repo, launches, path, chan, ended, historyVars>>

\* remove_file() of what the path holds by now, and the process exits.
Unlink(d) ==
  /\ ended[d] /\ Step(d, "finishing", "down")
  /\ path' = Nobody
  /\ EndRequests(d, Clients)
  /\ UNCHANGED <<shadow, repo, launches, chan, ended, historyVars>>

\* The process is killed, also by a signal before serve() has set its handlers,
\* or returns an error.
Die(d) ==
  /\ phase[d] # "down"
  /\ phase' = [phase EXCEPT ![d] = "down"]
  /\ chan' = [chan EXCEPT ![d] = <<>>] /\ ended' = [ended EXCEPT ![d] = TRUE]
  /\ EndRequests(d, Clients)
  /\ killed' = killed \union {d}
  /\ Unmeet(d)
  /\ UNCHANGED <<shadow, repo, launches, path, alone, refused>>

DaemonStep(d) ==
  \/ Lstat(d) \/ Probe(d) \/ RemoveStale(d) \/ Validate(d) \/ InitRepo(d)
  \/ Started(d) \/ Bind(d) \/ Execute(d) \/ Unlink(d)

Next ==
  \/ \E d \in Daemons :
       \/ \E s \in Shadows : Launch(d, s)
       \/ DaemonStep(d) \/ AutoSnap(d) \/ Signal(d) \/ SendStop(d) \/ Die(d)
  \/ \E c \in Clients : Connect(c) \/ AcceptConnection(c) \/ Dispatch(c)

\* The runtime polls what is ready, and the channel serves those who wait for
\* room in turn, so that the watcher cannot overtake one of them for ever.
Fairness ==
  /\ \A d \in Daemons : WF_vars(DaemonStep(d)) /\ SF_vars(SendStop(d))
  /\ \A c \in Clients : WF_vars(AcceptConnection(c)) /\ SF_vars(Dispatch(c))

Spec == Init /\ [][Next]_vars /\ Fairness

-----------------------------------------------------------------------------
(* Properties *)

Starting == {"lstat", "probe", "remove", "validate", "init", "starting", "bind"}
Recording == {"starting", "bind", "serving", "stopping", "finishing"}

\* Type invariant; nothing waits in the channel of a coordinator that is gone.
TypeOK ==
  /\ phase \in [Daemons -> {"down"} \union Starting \union Recording]
  /\ shadow \in [Daemons -> Shadows]
  /\ path \in Daemons \union {Nobody} /\ repo \subseteq Shadows
  /\ \A d \in Daemons :
       /\ chan[d] \in Seq(Clients \union {"stop", "watcher"})
       /\ Len(chan[d]) <= ChannelCap
       /\ ended[d] => chan[d] = <<>>
  /\ ended \in [Daemons -> BOOLEAN]
  /\ client \in [Clients -> [pc : {"idle", "queued", "accepted", "waiting"},
                             to : Daemons \union {Nobody}]]
  /\ launches \in 0..MaxLaunches
  /\ alone \in BOOLEAN /\ refused \in BOOLEAN
  /\ killed \subseteq Daemons /\ met \in [Daemons -> SUBSET Daemons]

\* Two daemons never record into one shadow repository, however they are started
\* together: create_dir() decides, not the tests before it.
OneRecorderPerShadow ==
  \A d, e \in Daemons :
    d # e /\ phase[d] \in Recording /\ phase[e] \in Recording
      => shadow[d] # shadow[e]

\* A daemon that was serving when another was started keeps its socket from it:
\* the other removes a socket only if nobody listened at it then.
ActiveSocketIsKept ==
  \A d \in Daemons : phase[d] \in {"remove", "finishing"} => path \notin met[d]

\* Where no two processes overlap, a daemon is never turned away by what an
\* earlier one left at the path, killed or not, and is reachable while it serves.
LoneDaemonServes ==
  alone => /\ ~refused
           /\ \A d \in Daemons : phase[d] = "serving" => path = d

\* A daemon stopped by a signal leaves no socket behind.
OrderlyLeavesNothing ==
  \A d \in Daemons : path = d /\ phase[d] = "down" => d \in killed

\* Every control request ends, answered or told that it failed, also when its
\* daemon stops or is killed.
RequestsEnd == \A c \in Clients : client[c].pc # "idle" ~> client[c].pc = "idle"

\* A daemon told to stop does, however full its command channel is.
StopEnds == \A d \in Daemons : phase[d] = "stopping" ~> phase[d] = "down"

=============================================================================
