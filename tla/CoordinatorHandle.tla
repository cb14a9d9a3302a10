--------------------------- MODULE CoordinatorHandle ---------------------------
(***************************************************************************)
(* The coordinator with the tasks that talk to it: control clients calling *)
(* CoordinatorHandle, the command channel, and the watcher task that turns *)
(* quiescence and retry deadlines into Snap commands                       *)
(* (crates/rrjj-core/src/lib.rs, CoordinatorHandle and start_watcher()).   *)
(*                                                                         *)
(* Deadlines are not timed: once armed, a deadline may fire at any later   *)
(* moment.  A caller waits for its reply, so it has one request under way. *)
(***************************************************************************)
EXTENDS Coordinator

CONSTANTS
  Clients,         \* control connections
  ClientCommands,  \* what each of them may ask for
  MaxAsks          \* bound: requests made by all clients together

ASSUME ClientAssumption ==
  /\ "watcher" \notin Clients
  /\ ClientCommands \in [Clients -> SUBSET (CommandKinds \union {"pause"})]
  /\ MaxAsks \in Nat

VARIABLES
  rx,          \* the mpsc channel: requests [from, kind] in order
  serving,     \* the sender whose command the coordinator serves
  client,      \* per client: idle, pausing, waiting, resumed, or refused, which
               \* is idle after a request that failed
  asks,        \* requests made so far
  watchPaused, \* the `paused' watch channel
  watcher,     \* the watcher task: parked, armed, snapping, stopped
  retryDue     \* retry_due.is_some()

handleVars == <<rx, serving, client, asks, watchPaused, watcher, retryDue>>
allVars == <<vars, handleVars>>

Senders == Clients \union {"watcher"}

HandleInit ==
  /\ Init
  /\ rx = <<>> /\ serving = "none"
  /\ client = [c \in Clients |-> "idle"] /\ asks = 0
  /\ watchPaused = FALSE /\ watcher = "parked" /\ retryDue = FALSE

Send(from, kind) == rx' = Append(rx, [from |-> from, kind |-> kind])

\* A deadline exists and pausing does not suppress it.
Due == ~watchPaused /\ (IsDirty(acc) \/ retryDue)

-----------------------------------------------------------------------------
(* Control clients *)

\* The client has no request under way.
Free(c) == client[c] \in {"idle", "refused"}

MayAsk(c, kind) ==
  /\ Free(c) /\ kind \in ClientCommands[c] /\ asks < MaxAsks
  /\ watching /\ pc # "stopped"
  /\ asks' = asks + 1

\* snap(), mark(), flush(), resume(), shutdown(): send and wait.
Ask(c, kind) ==
  /\ kind # "pause"
  /\ MayAsk(c, kind)
  /\ Send(c, kind)
  /\ client' = [client EXCEPT ![c] = "waiting"]
  /\ UNCHANGED <<vars, serving, watchPaused, watcher, retryDue>>

\* pause() sets the watch channel first ...
PauseWatcher(c) ==
  /\ MayAsk(c, "pause")
  /\ watchPaused' = TRUE
  /\ client' = [client EXCEPT ![c] = "pausing"]
  /\ UNCHANGED <<vars, rx, serving, watcher, retryDue>>

\* ... and then sends the command.
SendPause(c) ==
  /\ client[c] = "pausing"
  /\ Send(c, "pause")
  /\ client' = [client EXCEPT ![c] = "waiting"]
  /\ UNCHANGED <<vars, serving, asks, watchPaused, watcher, retryDue>>

\* Slip: resume() returns without clearing the watch channel.
ReleaseWatcher_Not(c) ==
  /\ client[c] = "resumed"
  /\ client' = [client EXCEPT ![c] = "idle"]
  /\ UNCHANGED <<vars, rx, serving, asks, watchPaused, watcher, retryDue>>

\* resume() clears the watch channel after a successful reply.
ReleaseWatcher(c) ==
  /\ client[c] = "resumed"
  /\ watchPaused' = FALSE
  /\ client' = [client EXCEPT ![c] = "idle"]
  /\ UNCHANGED <<vars, rx, serving, asks, watcher, retryDue>>

\* Slip: requests left in the channel of a stopped coordinator are kept.
ChannelClosed_Ignored(c) ==
  /\ pc = "idle" /\ rx = <<>> /\ client[c] = "waiting"
  /\ client' = [client EXCEPT ![c] = "refused"]
  /\ UNCHANGED <<vars, rx, serving, asks, watchPaused, watcher, retryDue>>

\* The coordinator has returned: its receiver is gone, so a request fails.
ChannelClosed(c) ==
  /\ pc = "stopped" /\ client[c] = "waiting"
  /\ client' = [client EXCEPT ![c] = "refused"]
  /\ UNCHANGED <<vars, rx, serving, asks, watchPaused, watcher, retryDue>>

-----------------------------------------------------------------------------
(* The watcher task *)

\* The loop computes a deadline and sleeps on it.
Arm ==
  /\ watcher = "parked" /\ watching /\ Due
  /\ watcher' = "armed"
  /\ UNCHANGED <<vars, rx, serving, client, asks, watchPaused, retryDue>>

\* select! wakes on the pause channel and the loop finds nothing due.
Disarm ==
  /\ watcher = "armed" /\ ~Due
  /\ watcher' = "parked"
  /\ UNCHANGED <<vars, rx, serving, client, asks, watchPaused, retryDue>>

\* The sleep wins select!: snap() is sent without another look at `paused'.
Fire ==
  /\ watcher = "armed" /\ pc # "stopped"
  /\ Send("watcher", "snap")
  /\ watcher' = "snapping"
  /\ UNCHANGED <<vars, serving, client, asks, watchPaused, retryDue>>

\* The watched tree changes after the watcher was dropped.
WriteUnseen ==
  /\ watcher = "stopped" /\ fs < MaxWrites
  /\ fs' = fs + 1
  /\ UNCHANGED <<notices, watching, blind, acc, seq, snapshots, paused, audit,
                 pendingEvent, recorder, pc, cmd, scanned, reply, sinkVars,
                 observed, spent, handleVars>>

-----------------------------------------------------------------------------
(* The coordinator serving the channel *)

\* What a client does with the reply: resume() has one step left.
AfterReply(kind, result) ==
  IF result # "ok" THEN "refused"
  ELSE IF kind = "resume" THEN "resumed" ELSE "idle"

\* Slip: a failed snapshot sets no retry deadline.
Answer_NoRetry(to, kind, result) ==
  IF to = "watcher"
    THEN /\ watcher' = IF result = "fatal" THEN "stopped" ELSE "parked"
         /\ retryDue' = FALSE
         /\ UNCHANGED client
    ELSE /\ client' = [client EXCEPT ![to] = AfterReply(kind, result)]
         /\ UNCHANGED <<watcher, retryDue>>

\* A reply reaches the task that awaits it.
Answer(to, kind, result) ==
  IF to = "watcher"
    THEN /\ watcher' = IF result = "fatal" THEN "stopped" ELSE "parked"
         /\ retryDue' = (result = "retryable")
         /\ UNCHANGED client
    ELSE /\ client' = [client EXCEPT ![to] = AfterReply(kind, result)]
         /\ UNCHANGED <<watcher, retryDue>>

\* recv() takes the next command.
Recv ==
  /\ rx # <<>>
  /\ rx' = Tail(rx)
  /\ serving' = Head(rx).from
  /\ \/ /\ Head(rx).kind = "pause"
        /\ ReceivePause
        /\ Answer(Head(rx).from, "pause", "ok")
     \/ /\ Head(rx).kind # "pause"
        /\ Receive(Head(rx).kind)
        /\ UNCHANGED <<client, watcher, retryDue>>
  /\ UNCHANGED <<asks, watchPaused>>

\* The coordinator task runs; if that ends the command its sender is answered.
Serve ==
  /\ TaskStep
  /\ IF cmd' = "none"
       THEN Answer(serving, cmd, reply')
       ELSE UNCHANGED <<client, watcher, retryDue>>
  /\ UNCHANGED <<rx, serving, asks, watchPaused>>

\* The tree and the callbacks, while the watch is alive.
Watch == watcher # "stopped" /\ WatchStep /\ UNCHANGED handleVars

\* What the OS and the callback thread do of their own accord.
WatchDelivers ==
  /\ watcher # "stopped"
  /\ StartWatcher \/ \E n \in notices : Deliver(n)
  /\ UNCHANGED handleVars

HandleNext ==
  \/ \E c \in Clients :
       \/ \E kind \in CommandKinds : Ask(c, kind)
       \/ PauseWatcher(c) \/ SendPause(c) \/ ReleaseWatcher(c) \/ ChannelClosed(c)
  \/ Arm \/ Disarm \/ Fire \/ WriteUnseen
  \/ Recv \/ Serve \/ Watch

HandleSpec == HandleInit /\ [][HandleNext]_allVars

\* The runtimes poll every ready task, the OS delivers what it queued, and a
\* call that fails finitely often (MaxFaults) is followed by one that answers.
\* Nothing is assumed of the clients' next request or of the workload.
Fairness ==
  /\ WF_allVars(Recv) /\ WF_allVars(Serve)
  /\ WF_allVars(Arm) /\ WF_allVars(Fire)
  /\ WF_allVars(WatchDelivers)
  /\ \A c \in Clients :
       WF_allVars(SendPause(c) \/ ReleaseWatcher(c) \/ ChannelClosed(c))

HandleFairSpec == HandleSpec /\ Fairness

-----------------------------------------------------------------------------
(* Properties *)

\* Once no control request is under way, the coordinator and its watcher agree on
\* whether automatic checkpoints are deferred, so status() tells the truth; the one
\* exception is a resume that failed (or found the coordinator gone) and said so,
\* which leaves the watcher paused.  One client pauses and resumes: see the README
\* for two.
PauseAgrees ==
  (\A c \in Clients : Free(c)) =>
    \/ paused <=> watchPaused
    \/ /\ watchPaused /\ ~paused
       /\ \E c \in Clients : client[c] = "refused" /\ "resume" \in ClientCommands[c]

\* A published checkpoint is the tree as it stands, or no watched write is newer.
Settled == PublishedTree = fs \/ fs = blind

\* A notification is on its way or folded in.
ChangeNoticed == notices # {} \/ IsDirty(acc)

\* The coordinator has just told a client that its command failed.
ToldClient == cmd = "none" /\ serving \in Clients /\ reply # "ok"

\* While automatic checkpoints are not paused, a noticed change is eventually in a
\* published checkpoint, an attempt of the watcher's that failed being made again
\* until it succeeds, unless a client's command took the change from the
\* accumulator, failed, and said so to that client.
EventuallyPublished ==
  ~Settled /\ ~watchPaused /\ ChangeNoticed ~>
    Settled \/ watchPaused \/ ToldClient \/ pc = "stopped" \/ watcher = "stopped"

\* Every control request is eventually answered, also while checkpoints fail.
RequestsAnswered == \A c \in Clients : ~Free(c) ~> Free(c)

-----------------------------------------------------------------------------
(* The inductive invariant behind PauseAgrees, for the client c that alone *)
(* pauses and resumes                                                      *)

\* Client c alone pauses and resumes, and asks for nothing else.
OnlyPauser(c) ==
  /\ c \in Clients /\ ClientCommands[c] = {"pause", "resume"}
  /\ \A d \in Clients \ {c} : ClientCommands[d] \subseteq CommandKinds \ {"resume"}

HandleTypes ==
  /\ paused \in BOOLEAN /\ watchPaused \in BOOLEAN
  /\ client \in [Clients -> {"idle", "pausing", "waiting", "resumed", "refused"}]
  /\ rx \in Seq([from : Senders, kind : CommandKinds \union {"pause"}])
  /\ cmd # "none" => serving \in Senders
  /\ cmd = "none" <=> pc \in {"idle", "stopped"}

\* Until the coordinator stops, a client with a request in the channel or being
\* served waits for it, and has no other one there.
RequestInv(c) ==
  pc # "stopped" =>
    /\ \A i \in 1..Len(rx) :
         /\ rx[i].kind \in {"pause", "resume"} <=> rx[i].from = c
         /\ rx[i].kind = "pause" => watchPaused
         /\ rx[i].from = c =>
              client[c] = "waiting" /\ \A j \in 1..Len(rx) : rx[j].from = c => j = i
    /\ cmd # "none" =>
         /\ cmd = "resume" <=> serving = c
         /\ serving = c =>
              client[c] = "waiting" /\ ~paused /\ \A i \in 1..Len(rx) : rx[i].from # c

\* The watch channel is set before the coordinator is told, and cleared after.
PauseInv(c) ==
  /\ paused => watchPaused
  /\ \A d \in Clients \ {c} : client[d] \notin {"pausing", "resumed"}
  /\ client[c] = "idle" => (watchPaused => paused)
  /\ client[c] = "pausing" => watchPaused
  /\ client[c] = "resumed" => ~paused

HandleInv(c) == HandleTypes /\ RequestInv(c) /\ PauseInv(c)

\* The watcher has one snap under way at most, and waits for its answer: once it has
\* stopped none arrives to start it again.
WatcherInv ==
  /\ cmd = "none" <=> pc \in {"idle", "stopped"}
  /\ \A i \in 1..Len(rx) : rx[i].from = "watcher" =>
       watcher = "snapping" /\ \A j \in 1..Len(rx) : rx[j].from = "watcher" => j = i
  /\ cmd # "none" /\ serving = "watcher" =>
       watcher = "snapping" /\ \A i \in 1..Len(rx) : rx[i].from # "watcher"
=============================================================================
