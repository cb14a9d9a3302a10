------------------------ MODULE CoordinatorHandle_proofs ------------------------
(***************************************************************************)
(* Proofs about CoordinatorHandle: the pause flag of the coordinator and   *)
(* the one of its watcher are set and cleared by different tasks at        *)
(* different times, and agree whenever no control request is under way.    *)
(*                                                                         *)
(* P is the client that pauses and resumes; the argument follows its one   *)
(* request from the watch channel through the command channel and back.    *)
(*                                                                         *)
(* The steps of the composition are the coordinator's own, but for writes  *)
(* after the watch was dropped; so what is proved of the coordinator holds *)
(* behind its channel too.                                                 *)
(***************************************************************************)
EXTENDS CoordinatorHandle, Coordinator_proofs

Requests == [from : Senders, kind : CommandKinds \union {"pause"}]

-----------------------------------------------------------------------------
(* The coordinator task's steps, as its clients see them *)

LEMMA ReturnSeen ==
  ASSUME NEW r, Return(r)
  PROVE  cmd' = "none" /\ pc' \in {"idle", "stopped"}
BY DEF Return

LEMMA AfterSnapshotSeen ==
  ASSUME NEW w, AfterSnapshot(w)
  PROVE  \/ cmd' = "none" /\ pc' \in {"idle", "stopped"}
         \/ cmd' = cmd /\ pc' \notin {"idle", "stopped"}
BY ReturnSeen DEF AfterSnapshot

\* A step of the task belongs to a command, leaves `paused' alone, and ends the
\* command or goes on with it.
LEMMA TaskSeen ==
  ASSUME TaskStep
  PROVE  /\ pc \notin {"idle", "stopped"}
         /\ paused' = paused
         /\ \/ cmd' = "none" /\ pc' \in {"idle", "stopped"}
            \/ cmd' = cmd /\ pc' \notin {"idle", "stopped"}
<1>1. CASE TestPending
  BY <1>1, ReturnSeen DEF TestPending
<1>2. CASE RetryPending
  BY <1>2, AfterSnapshotSeen DEF RetryPending
<1>3. CASE RefuseStalePending
  BY <1>3, ReturnSeen DEF RefuseStalePending
<1>4. CASE BeginSnapshot
  BY <1>4 DEF BeginSnapshot
<1>5. CASE EmitOverflow
  BY <1>5 DEF EmitOverflow
<1>6. CASE EmitAudit
  BY <1>6 DEF EmitAudit
<1>7. CASE ScanTree
  BY <1>7 DEF ScanTree
<1>8. CASE CommitCapture
  BY <1>8 DEF CommitCapture
<1>9. CASE TearCapture
  BY <1>9, ReturnSeen DEF TearCapture, Fail
<1>10. CASE EmitSnapshot
  BY <1>10, AfterSnapshotSeen DEF EmitSnapshot
<1>11. CASE EmitMark
  BY <1>11, ReturnSeen DEF EmitMark
<1>12. CASE EmitSessionEnd
  BY <1>12 DEF EmitSessionEnd
<1>13. CASE EmitFlush
  BY <1>13 DEF EmitFlush
<1>14. CASE FlushSession
  BY <1>14, ReturnSeen DEF FlushSession
<1>15. CASE CallFails
  BY <1>15, ReturnSeen DEF CallFails, Fail
<1> QED
  BY <1>1, <1>2, <1>3, <1>4, <1>5, <1>6, <1>7, <1>8, <1>9, <1>10, <1>11,
     <1>12, <1>13, <1>14, <1>15 DEF TaskStep

\* Receiving a command puts the task to work on it; only a resume touches `paused'.
LEMMA ReceiveSeen ==
  ASSUME NEW kind, Receive(kind)
  PROVE  /\ pc = "idle" /\ pc' \notin {"idle", "stopped"}
         /\ cmd' = kind
         /\ paused' = (paused /\ kind # "resume")
BY DEF Receive

-----------------------------------------------------------------------------
(* The command channel *)

LEMMA SendKeeps ==
  ASSUME NEW s \in Seq(Requests), NEW r \in Requests
  PROVE  /\ Append(s, r) \in Seq(Requests)
         /\ Len(Append(s, r)) = Len(s) + 1
         /\ \A i \in 1..Len(s) : Append(s, r)[i] = s[i]
         /\ Append(s, r)[Len(s) + 1] = r
OBVIOUS

LEMMA TakeKeeps ==
  ASSUME NEW s \in Seq(Requests), s # <<>>
  PROVE  /\ Tail(s) \in Seq(Requests)
         /\ Head(s) = s[1] /\ Head(s) \in Requests
         /\ Len(s) \in Nat /\ Len(s) > 0 /\ Len(Tail(s)) = Len(s) - 1
         /\ \A i \in 1..Len(Tail(s)) : Tail(s)[i] = s[i + 1] /\ i + 1 \in 2..Len(s)
OBVIOUS

\* A request joins the channel: of the pausing client, which waits for it and has
\* no other one, or of somebody else.
LEMMA SendRequest ==
  ASSUME NEW P \in Clients, HandleTypes, RequestInv(P), pc # "stopped",
         NEW from \in Senders, NEW kind \in CommandKinds \union {"pause"},
         Send(from, kind),
         UNCHANGED <<pc, cmd, paused, serving, watchPaused>>,
         kind \in {"pause", "resume"} <=> from = P,
         kind = "pause" => watchPaused,
         IF from = P THEN client[P] # "waiting" /\ client'[P] = "waiting"
                     ELSE client'[P] = client[P]
  PROVE  RequestInv(P)' /\ rx' \in Seq(Requests)
<1> DEFINE r == [from |-> from, kind |-> kind]
<1>1. r \in Requests /\ rx \in Seq(Requests)
  BY DEF Requests, HandleTypes
<1>2. rx' = Append(rx, r)
  BY DEF Send
<1>3. rx' \in Seq(Requests) /\ Len(rx) \in Nat /\ Len(rx') = Len(rx) + 1
  BY <1>1, <1>2, SendKeeps
<1>4. (\A i \in 1..Len(rx) : rx'[i] = rx[i]) /\ rx'[Len(rx) + 1] = r
  BY <1>1, <1>2, SendKeeps
<1>5. r.from = from /\ r.kind = kind
  OBVIOUS
<1>6. \A i \in 1..Len(rx') : (i \in 1..Len(rx) /\ rx'[i] = rx[i]) \/ (i = Len(rx) + 1 /\ rx'[i] = r)
  BY <1>3, <1>4
<1>7. from = P => \A i \in 1..Len(rx) : rx[i].from # P
  BY DEF RequestInv
<1>8. from = P /\ cmd # "none" => serving # P
  BY DEF RequestInv
<1> HIDE DEF r
<1>9. ASSUME NEW i \in 1..Len(rx')
      PROVE  /\ rx'[i].kind \in {"pause", "resume"} <=> rx'[i].from = P
             /\ rx'[i].kind = "pause" => watchPaused'
             /\ rx'[i].from = P =>
                  client'[P] = "waiting" /\ \A j \in 1..Len(rx') : rx'[j].from = P => j = i
  BY <1>6, <1>5, <1>7 DEF RequestInv
<1>10. ASSUME cmd' # "none"
       PROVE  /\ cmd' = "resume" <=> serving' = P
              /\ serving' = P =>
                   client'[P] = "waiting" /\ ~paused' /\ \A i \in 1..Len(rx') : rx'[i].from # P
  BY <1>10, <1>6, <1>5, <1>8 DEF RequestInv
<1> QED
  BY <1>3, <1>9, <1>10 DEF RequestInv

\* The coordinator takes a request from the channel.
LEMMA TakeRequest ==
  ASSUME NEW P \in Clients, HandleTypes, RequestInv(P), pc = "idle",
         rx # <<>>, rx' = Tail(rx)
  PROVE  /\ rx' \in Seq(Requests) /\ Head(rx) \in Requests
         /\ Head(rx).kind \in {"pause", "resume"} <=> Head(rx).from = P
         /\ Head(rx).kind = "pause" => watchPaused
         /\ Head(rx).from = P =>
              client[P] = "waiting" /\ \A i \in 1..Len(rx') : rx'[i].from # P
         /\ \A i \in 1..Len(rx') :
              /\ rx'[i].kind \in {"pause", "resume"} <=> rx'[i].from = P
              /\ rx'[i].kind = "pause" => watchPaused
              /\ rx'[i].from = P =>
                   client[P] = "waiting" /\ \A j \in 1..Len(rx') : rx'[j].from = P => j = i
<1>1. rx \in Seq(Requests)
  BY DEF Requests, HandleTypes
<1>2. /\ rx' \in Seq(Requests) /\ Head(rx) = rx[1] /\ Head(rx) \in Requests
      /\ Len(rx) \in Nat /\ Len(rx) > 0 /\ Len(rx') = Len(rx) - 1
  BY <1>1, TakeKeeps
<1>3. \A i \in 1..Len(rx') : rx'[i] = rx[i + 1] /\ i + 1 \in 2..Len(rx)
  BY <1>1, TakeKeeps
<1>4. 1 \in 1..Len(rx)
  BY <1>2
<1>5. \A i \in 1..Len(rx') : i + 1 \in 1..Len(rx) /\ i + 1 # 1
  BY <1>2, <1>3
<1>6. \A i \in 1..Len(rx) :
         /\ rx[i].kind \in {"pause", "resume"} <=> rx[i].from = P
         /\ rx[i].kind = "pause" => watchPaused
         /\ rx[i].from = P =>
              client[P] = "waiting" /\ \A j \in 1..Len(rx) : rx[j].from = P => j = i
  BY DEF RequestInv
<1>7. Head(rx).from = P => client[P] = "waiting" /\ \A i \in 1..Len(rx') : rx'[i].from # P
  BY <1>2, <1>3, <1>4, <1>5, <1>6
<1>8. ASSUME NEW i \in 1..Len(rx'), rx'[i].from = P
      PROVE  \A j \in 1..Len(rx') : rx'[j].from = P => j = i
  <2> SUFFICES ASSUME NEW j \in 1..Len(rx'), rx'[j].from = P PROVE j = i
    OBVIOUS
  <2>1. i + 1 = j + 1
    BY <1>3, <1>5, <1>6, <1>8
  <2> QED
    BY <2>1, <1>2
<1> QED
  BY <1>2, <1>3, <1>4, <1>5, <1>6, <1>7, <1>8

-----------------------------------------------------------------------------
(* Every step preserves HandleInv(P) *)

LEMMA HandleStart == ASSUME NEW P \in Clients PROVE HandleInit => HandleInv(P)
<1> SUFFICES ASSUME HandleInit PROVE HandleInv(P)
  OBVIOUS
<1>a. paused \in BOOLEAN /\ watchPaused \in BOOLEAN
  <2>1. paused = FALSE /\ watchPaused = FALSE
    BY DEF HandleInit, Init
  <2> QED
    BY <2>1
<1>b. rx = <<>> /\ pc = "idle" /\ cmd = "none" /\ client = [c \in Clients |-> "idle"]
  BY DEF HandleInit, Init
<1>1. HandleTypes
  BY <1>a, <1>b DEF HandleTypes
<1>2. RequestInv(P)
  BY DEF HandleInit, Init, RequestInv
<1>3. PauseInv(P)
  BY DEF HandleInit, Init, PauseInv
<1> QED
  BY <1>1, <1>2, <1>3 DEF HandleInv

\* Requests of the clients.
LEMMA AskKeeps ==
  ASSUME NEW P, OnlyPauser(P), HandleInv(P),
         NEW c \in Clients, NEW kind \in CommandKinds, Ask(c, kind)
  PROVE  HandleInv(P)'
<1>1. HandleTypes /\ RequestInv(P) /\ PauseInv(P) /\ P \in Clients
  BY DEF HandleInv, OnlyPauser
<1>2. /\ pc # "stopped" /\ client[c] \in {"idle", "refused"} /\ kind \in ClientCommands[c]
      /\ Send(c, kind) /\ client' = [client EXCEPT ![c] = "waiting"]
      /\ UNCHANGED <<vars, serving, watchPaused>>
  BY DEF Ask, MayAsk, Free
<1>3. UNCHANGED <<pc, cmd, paused, serving, watchPaused>>
  BY <1>2 DEF vars
<1>4. c \in Senders /\ kind # "pause"
  BY DEF Senders, CommandKinds
<1>5. kind \in {"pause", "resume"} <=> c = P
  BY <1>2, <1>4 DEF OnlyPauser
<1>6. client'[c] = "waiting" /\ \A d \in Clients \ {c} : client'[d] = client[d]
  BY <1>1, <1>2 DEF HandleTypes
<1>7. RequestInv(P)' /\ rx' \in Seq(Requests)
  BY <1>1, <1>2, <1>3, <1>4, <1>5, <1>6, SendRequest
<1>8. HandleTypes'
  BY <1>1, <1>2, <1>3, <1>7 DEF HandleTypes, Requests
<1>9. PauseInv(P)'
  BY <1>1, <1>3, <1>6 DEF PauseInv
<1> QED
  BY <1>7, <1>8, <1>9 DEF HandleInv

LEMMA PauseWatcherKeeps ==
  ASSUME NEW P, OnlyPauser(P), HandleInv(P), NEW c \in Clients, PauseWatcher(c)
  PROVE  HandleInv(P)'
<1>1. HandleTypes /\ RequestInv(P) /\ PauseInv(P) /\ P \in Clients
  BY DEF HandleInv, OnlyPauser
<1>2. /\ pc # "stopped" /\ client[c] \in {"idle", "refused"} /\ "pause" \in ClientCommands[c]
      /\ watchPaused' = TRUE /\ client' = [client EXCEPT ![c] = "pausing"]
      /\ UNCHANGED <<vars, rx, serving>>
  BY DEF PauseWatcher, MayAsk, Free
<1>3. UNCHANGED <<pc, cmd, paused, serving, rx>>
  BY <1>2 DEF vars
<1>4. c = P
  BY <1>2 DEF OnlyPauser, CommandKinds
<1>5. client'[P] = "pausing" /\ \A d \in Clients \ {P} : client'[d] = client[d]
  BY <1>1, <1>2, <1>4 DEF HandleTypes
<1>6. HandleTypes'
  BY <1>1, <1>2, <1>3 DEF HandleTypes
<1>7. PauseInv(P)'
  BY <1>1, <1>2, <1>3, <1>5 DEF PauseInv
<1>8. RequestInv(P)'
  BY <1>1, <1>2, <1>3, <1>4 DEF RequestInv
<1> QED
  BY <1>6, <1>7, <1>8 DEF HandleInv

LEMMA SendPauseKeeps ==
  ASSUME NEW P, OnlyPauser(P), HandleInv(P), NEW c \in Clients, SendPause(c)
  PROVE  HandleInv(P)'
<1>1. HandleTypes /\ RequestInv(P) /\ PauseInv(P) /\ P \in Clients
  BY DEF HandleInv, OnlyPauser
<1>2. /\ client[c] = "pausing" /\ Send(c, "pause")
      /\ client' = [client EXCEPT ![c] = "waiting"]
      /\ UNCHANGED <<vars, serving, watchPaused>>
  BY DEF SendPause
<1>3. UNCHANGED <<pc, cmd, paused, serving, watchPaused>>
  BY <1>2 DEF vars
<1>4. c = P /\ watchPaused
  BY <1>1, <1>2 DEF PauseInv
<1>5. client'[P] = "waiting" /\ \A d \in Clients \ {P} : client'[d] = client[d]
  BY <1>1, <1>2, <1>4 DEF HandleTypes
<1>6. c \in Senders /\ "pause" \in CommandKinds \union {"pause"}
  BY DEF Senders
<1>7. RequestInv(P)'
  BY <1>1, <1>2, <1>3, <1>4, <1>5, <1>6, SendRequest DEF RequestInv
<1>8. rx' \in Seq(Requests)
  BY <1>1, <1>2, <1>6, SendKeeps DEF Send, HandleTypes, Requests
<1>9. HandleTypes'
  BY <1>1, <1>2, <1>3, <1>8 DEF HandleTypes, Requests
<1>10. PauseInv(P)'
  BY <1>1, <1>3, <1>4, <1>5 DEF PauseInv
<1> QED
  BY <1>7, <1>9, <1>10 DEF HandleInv

LEMMA ReleaseKeeps ==
  ASSUME NEW P, OnlyPauser(P), HandleInv(P), NEW c \in Clients, ReleaseWatcher(c)
  PROVE  HandleInv(P)'
<1>1. HandleTypes /\ RequestInv(P) /\ PauseInv(P) /\ P \in Clients
  BY DEF HandleInv, OnlyPauser
<1>2. /\ client[c] = "resumed" /\ watchPaused' = FALSE
      /\ client' = [client EXCEPT ![c] = "idle"]
      /\ UNCHANGED <<vars, rx, serving>>
  BY DEF ReleaseWatcher
<1>3. UNCHANGED <<pc, cmd, paused, serving, rx>>
  BY <1>2 DEF vars
<1>4. c = P /\ ~paused
  BY <1>1, <1>2 DEF PauseInv
<1>5. client'[P] = "idle" /\ \A d \in Clients \ {P} : client'[d] = client[d]
  BY <1>1, <1>2, <1>4 DEF HandleTypes
<1>6. HandleTypes'
  BY <1>1, <1>2, <1>3 DEF HandleTypes
<1>7. PauseInv(P)'
  BY <1>1, <1>2, <1>3, <1>4, <1>5 DEF PauseInv
<1>8. RequestInv(P)'
  BY <1>1, <1>2, <1>3, <1>4 DEF RequestInv
<1> QED
  BY <1>6, <1>7, <1>8 DEF HandleInv

LEMMA ClosedKeeps ==
  ASSUME NEW P, OnlyPauser(P), HandleInv(P), NEW c \in Clients, ChannelClosed(c)
  PROVE  HandleInv(P)'
<1>1. HandleTypes /\ RequestInv(P) /\ PauseInv(P) /\ P \in Clients
  BY DEF HandleInv, OnlyPauser
<1>2. /\ pc = "stopped" /\ client' = [client EXCEPT ![c] = "refused"]
      /\ UNCHANGED <<vars, rx, serving, watchPaused>>
  BY DEF ChannelClosed
<1>3. UNCHANGED <<pc, cmd, paused, serving, watchPaused, rx>>
  BY <1>2 DEF vars
<1>4. \A d \in Clients : client'[d] \in {client[d], "refused"}
  BY <1>1, <1>2 DEF HandleTypes
<1>5. HandleTypes'
  BY <1>1, <1>2, <1>3 DEF HandleTypes
<1>6. PauseInv(P)'
  BY <1>1, <1>3, <1>4 DEF PauseInv
<1>7. RequestInv(P)'
  BY <1>2, <1>3 DEF RequestInv
<1> QED
  BY <1>5, <1>6, <1>7 DEF HandleInv

\* The watcher task and the tree.
LEMMA WatcherKeeps ==
  ASSUME NEW P, OnlyPauser(P), HandleInv(P), Arm \/ Disarm \/ Fire \/ WriteUnseen \/ Watch
  PROVE  HandleInv(P)'
<1>1. HandleTypes /\ RequestInv(P) /\ PauseInv(P) /\ P \in Clients
  BY DEF HandleInv, OnlyPauser
<1>2. ASSUME UNCHANGED <<pc, cmd, paused, serving, watchPaused, rx, client>>
      PROVE  HandleInv(P)'
  <2>1. HandleTypes'
    BY <1>1, <1>2 DEF HandleTypes
  <2>2. PauseInv(P)'
    BY <1>1, <1>2 DEF PauseInv
  <2>3. RequestInv(P)'
    BY <1>1, <1>2 DEF RequestInv
  <2> QED
    BY <2>1, <2>2, <2>3 DEF HandleInv
<1>3. CASE Arm \/ Disarm
  <2>1. UNCHANGED <<pc, cmd, paused, serving, watchPaused, rx, client>>
    BY <1>3 DEF Arm, Disarm, vars
  <2> QED
    BY <1>2, <2>1
<1>4. CASE Fire
  <2>1. pc # "stopped" /\ Send("watcher", "snap")
        /\ UNCHANGED <<pc, cmd, paused, serving, watchPaused, client>>
    BY <1>4 DEF Fire, vars
  <2>2. "watcher" \in Senders /\ "watcher" # P /\ "snap" \in CommandKinds \union {"pause"}
    BY <1>1, ClientAssumption DEF Senders, CommandKinds
  <2>3. RequestInv(P)' /\ rx' \in Seq(Requests)
    BY <1>1, <2>1, <2>2, SendRequest
  <2>4. HandleTypes'
    BY <1>1, <2>1, <2>3 DEF HandleTypes, Requests
  <2>5. PauseInv(P)'
    BY <1>1, <2>1 DEF PauseInv
  <2> QED
    BY <2>3, <2>4, <2>5 DEF HandleInv
<1>5. CASE WriteUnseen
  <2>1. UNCHANGED <<pc, cmd, paused, serving, watchPaused, rx, client>>
    BY <1>5 DEF WriteUnseen, handleVars
  <2> QED
    BY <1>2, <2>1
<1>6. CASE Watch
  <2>1. UNCHANGED <<pc, cmd, paused>>
    BY <1>6 DEF Watch, WatchStep, StartWatcher, LoseNotices, Write, Deliver
  <2>2. UNCHANGED <<serving, watchPaused, rx, client>>
    BY <1>6 DEF Watch, handleVars
  <2> QED
    BY <1>2, <2>1, <2>2
<1> QED
  BY <1>3, <1>4, <1>5, <1>6

\* An answer reaches one task; only to a resume that succeeded is it `resumed'.
LEMMA AnswerSeen ==
  ASSUME HandleTypes, NEW to \in Senders, NEW kind, NEW result, Answer(to, kind, result)
  PROVE  /\ client' \in [Clients -> {"idle", "pausing", "waiting", "resumed", "refused"}]
         /\ \A c \in Clients \ {to} : client'[c] = client[c]
         /\ to \in Clients => client'[to] = AfterReply(kind, result)
<1>1. CASE to = "watcher"
  BY <1>1, ClientAssumption DEF Answer, HandleTypes
<1>2. CASE to # "watcher"
  <2>1. to \in Clients /\ client' = [client EXCEPT ![to] = AfterReply(kind, result)]
    BY <1>2 DEF Answer, Senders
  <2>2. AfterReply(kind, result) \in {"idle", "resumed", "refused"}
    BY DEF AfterReply
  <2> QED
    BY <2>1, <2>2 DEF HandleTypes
<1> QED
  BY <1>1, <1>2

\* The coordinator takes a pause, or a command, from the channel.
LEMMA RecvPauseKeeps ==
  ASSUME NEW P, OnlyPauser(P), HandleInv(P), Recv, Head(rx).kind = "pause"
  PROVE  HandleInv(P)'
<1>1. HandleTypes /\ RequestInv(P) /\ PauseInv(P) /\ P \in Clients
  BY DEF HandleInv, OnlyPauser
<1>2. /\ rx # <<>> /\ rx' = Tail(rx) /\ serving' = Head(rx).from
      /\ ReceivePause /\ Answer(Head(rx).from, "pause", "ok")
      /\ watchPaused' = watchPaused
  BY DEF Recv
<1>3. pc = "idle" /\ UNCHANGED <<pc, cmd>>
  BY <1>2 DEF ReceivePause
<1>4. paused'
  BY <1>2 DEF ReceivePause
<1>5. paused' \in BOOLEAN
  BY <1>2 DEF ReceivePause
<1>6. Head(rx).from = P /\ watchPaused /\ rx' \in Seq(Requests) /\ cmd = "none"
  BY <1>1, <1>2, <1>3, TakeRequest DEF HandleTypes
<1>7. \A i \in 1..Len(rx') : rx'[i].from # P /\ rx'[i].kind \notin {"pause", "resume"}
  BY <1>1, <1>2, <1>3, <1>6, TakeRequest
<1>8. /\ client' \in [Clients -> {"idle", "pausing", "waiting", "resumed", "refused"}]
      /\ \A c \in Clients \ {P} : client'[c] = client[c]
      /\ client'[P] = AfterReply("pause", "ok")
  BY <1>1, <1>2, <1>6, AnswerSeen DEF Senders
<1>9. client'[P] = "idle"
  BY <1>8 DEF AfterReply
<1>10. HandleTypes'
  BY <1>1, <1>2, <1>3, <1>5, <1>6, <1>8 DEF HandleTypes, Requests
<1>11. PauseInv(P)'
  BY <1>1, <1>2, <1>4, <1>6, <1>8, <1>9 DEF PauseInv
<1>12. RequestInv(P)'
  BY <1>3, <1>6, <1>7 DEF RequestInv
<1> QED
  BY <1>10, <1>11, <1>12 DEF HandleInv

LEMMA RecvCommandKeeps ==
  ASSUME NEW P, OnlyPauser(P), HandleInv(P), Recv, Head(rx).kind # "pause"
  PROVE  HandleInv(P)'
<1>1. HandleTypes /\ RequestInv(P) /\ PauseInv(P) /\ P \in Clients
  BY DEF HandleInv, OnlyPauser
<1> DEFINE kind == Head(rx).kind
           from == Head(rx).from
<1>2. /\ rx # <<>> /\ rx' = Tail(rx) /\ serving' = from
      /\ Receive(kind) /\ UNCHANGED <<client, watchPaused>>
  BY DEF Recv
<1>3. /\ pc = "idle" /\ pc' \notin {"idle", "stopped"} /\ cmd' = kind
      /\ paused' = (paused /\ kind # "resume")
  BY <1>2, ReceiveSeen
<1>4. /\ rx' \in Seq(Requests) /\ Head(rx) \in Requests
      /\ kind \in {"pause", "resume"} <=> from = P
      /\ from = P => client[P] = "waiting" /\ \A i \in 1..Len(rx') : rx'[i].from # P
  BY <1>1, <1>2, <1>3, TakeRequest
<1>5. \A i \in 1..Len(rx') :
         /\ rx'[i].kind \in {"pause", "resume"} <=> rx'[i].from = P
         /\ rx'[i].kind = "pause" => watchPaused
         /\ rx'[i].from = P =>
              client[P] = "waiting" /\ \A j \in 1..Len(rx') : rx'[j].from = P => j = i
  BY <1>1, <1>2, <1>3, TakeRequest
<1>6. kind \in CommandKinds /\ from \in Senders
  BY <1>4 DEF Requests
<1>7. kind # "none" /\ (kind = "resume" <=> from = P)
  BY <1>4, <1>6 DEF CommandKinds
<1>8. paused' \in BOOLEAN
  BY <1>3
<1>9. paused' => paused /\ kind # "resume"
  BY <1>3
<1>9a. kind # "resume" => paused' = paused
  BY <1>1, <1>3 DEF HandleTypes
<1>10. HandleTypes'
  BY <1>1, <1>2, <1>3, <1>4, <1>6, <1>7, <1>8 DEF HandleTypes, Requests
<1>11. PauseInv(P)'
  BY <1>1, <1>2, <1>4, <1>7, <1>9, <1>9a DEF PauseInv
<1>12. RequestInv(P)'
  <2> HIDE DEF kind, from
  <2> QED
    BY <1>2, <1>3, <1>4, <1>5, <1>7, <1>9 DEF RequestInv
<1> QED
  BY <1>10, <1>11, <1>12 DEF HandleInv

\* The coordinator task moves, and answers when that ends the command.
LEMMA ServeKeeps ==
  ASSUME NEW P, OnlyPauser(P), HandleInv(P), Serve
  PROVE  HandleInv(P)'
<1>1. HandleTypes /\ RequestInv(P) /\ PauseInv(P) /\ P \in Clients
  BY DEF HandleInv, OnlyPauser
<1>2. /\ pc \notin {"idle", "stopped"} /\ paused' = paused
      /\ \/ cmd' = "none" /\ pc' \in {"idle", "stopped"}
         \/ cmd' = cmd /\ pc' \notin {"idle", "stopped"}
      /\ UNCHANGED <<rx, serving, watchPaused>>
  BY TaskSeen DEF Serve
<1>3. cmd # "none" /\ serving \in Senders
  BY <1>1, <1>2 DEF HandleTypes
<1>4. CASE cmd' # "none"
  <2>1. UNCHANGED client
    BY <1>4 DEF Serve
  <2>2. cmd' = cmd /\ pc' \notin {"idle", "stopped"}
    BY <1>2, <1>4
  <2>3. HandleTypes'
    BY <1>1, <1>2, <1>3, <2>1, <2>2 DEF HandleTypes
  <2>4. PauseInv(P)'
    BY <1>1, <1>2, <2>1 DEF PauseInv
  <2>5. RequestInv(P)'
    BY <1>1, <1>2, <1>3, <2>1, <2>2 DEF RequestInv
  <2> QED
    BY <2>3, <2>4, <2>5 DEF HandleInv
<1>5. CASE cmd' = "none"
  <2>1. Answer(serving, cmd, reply')
    BY <1>5 DEF Serve
  <2>2. pc' \in {"idle", "stopped"}
    BY <1>2, <1>3, <1>5
  <2>3. /\ client' \in [Clients -> {"idle", "pausing", "waiting", "resumed", "refused"}]
        /\ \A c \in Clients \ {serving} : client'[c] = client[c]
        /\ serving \in Clients => client'[serving] = AfterReply(cmd, reply')
    BY <1>1, <1>3, <2>1, AnswerSeen
  <2>4. /\ cmd = "resume" <=> serving = P
        /\ serving = P =>
             client[P] = "waiting" /\ ~paused /\ \A i \in 1..Len(rx) : rx[i].from # P
    BY <1>1, <1>2, <1>3 DEF RequestInv
  <2>5. serving = P => client'[P] \in {"resumed", "refused"}
    BY <1>1, <2>3, <2>4 DEF AfterReply
  <2>6. ASSUME serving \in Clients, serving # P
        PROVE  client'[serving] \in {"idle", "refused"}
    BY <2>3, <2>4, <2>6 DEF AfterReply
  <2>7. HandleTypes'
    BY <1>1, <1>2, <1>5, <2>2, <2>3 DEF HandleTypes
  <2>8. PauseInv(P)'
    <3>1. CASE serving = P
      BY <1>1, <1>2, <2>3, <2>4, <2>5, <3>1 DEF PauseInv
    <3>2. CASE serving # P
      <4>1. client'[P] = client[P]
        BY <1>1, <2>3, <3>2
      <4>2. \A d \in Clients \ {P} : client'[d] \notin {"pausing", "resumed"}
        BY <1>1, <2>3, <2>6, <3>2 DEF PauseInv
      <4> QED
        BY <1>1, <1>2, <4>1, <4>2 DEF PauseInv
    <3> QED
      BY <3>1, <3>2
  <2>9. RequestInv(P)'
    <3>1. CASE serving = P
      BY <1>1, <1>2, <1>5, <2>4, <3>1 DEF RequestInv
    <3>2. CASE serving # P
      <4>1. client'[P] = client[P]
        BY <1>1, <2>3, <3>2
      <4> QED
        BY <1>1, <1>2, <1>5, <4>1 DEF RequestInv
    <3> QED
      BY <3>1, <3>2
  <2> QED
    BY <2>7, <2>8, <2>9 DEF HandleInv
<1> QED
  BY <1>4, <1>5

LEMMA HandleStep ==
  ASSUME NEW P, OnlyPauser(P)
  PROVE  HandleInv(P) /\ [HandleNext]_allVars => HandleInv(P)'
<1> SUFFICES ASSUME HandleInv(P), [HandleNext]_allVars PROVE HandleInv(P)'
  OBVIOUS
<1>1. ASSUME NEW c \in Clients, NEW kind \in CommandKinds, Ask(c, kind) PROVE HandleInv(P)'
  BY <1>1, AskKeeps
<1>2. ASSUME NEW c \in Clients, PauseWatcher(c) PROVE HandleInv(P)'
  BY <1>2, PauseWatcherKeeps
<1>3. ASSUME NEW c \in Clients, SendPause(c) PROVE HandleInv(P)'
  BY <1>3, SendPauseKeeps
<1>4. ASSUME NEW c \in Clients, ReleaseWatcher(c) PROVE HandleInv(P)'
  BY <1>4, ReleaseKeeps
<1>5. ASSUME NEW c \in Clients, ChannelClosed(c) PROVE HandleInv(P)'
  BY <1>5, ClosedKeeps
<1>6. CASE Arm \/ Disarm \/ Fire \/ WriteUnseen \/ Watch
  BY <1>6, WatcherKeeps
<1>7. CASE Recv
  BY <1>7, RecvPauseKeeps, RecvCommandKeeps
<1>8. CASE Serve
  BY <1>8, ServeKeeps
<1>9. CASE UNCHANGED allVars
  <2>1. UNCHANGED <<pc, cmd, paused, serving, watchPaused, rx, client>>
    BY <1>9 DEF allVars, vars, handleVars
  <2> QED
    BY <2>1 DEF HandleInv, HandleTypes, RequestInv, PauseInv
<1> QED
  BY <1>1, <1>2, <1>3, <1>4, <1>5, <1>6, <1>7, <1>8, <1>9 DEF HandleNext

\* pause() and resume() tell two tasks, at two moments, with commands, failures,
\* timeouts and a shutdown in between: whenever no client has a request under way
\* the two flags agree, or a resume that failed said so to its caller.
THEOREM PauseFlagsAgree ==
  ASSUME NEW P, OnlyPauser(P)
  PROVE  HandleSpec => []PauseAgrees
<1>1. HandleInit => HandleInv(P)
  BY HandleStart DEF OnlyPauser
<1>2. HandleInv(P) /\ [HandleNext]_allVars => HandleInv(P)'
  BY HandleStep
<1>3. HandleInv(P) => PauseAgrees
  <2> SUFFICES ASSUME HandleInv(P), \A c \in Clients : Free(c) PROVE PauseAgrees
    BY DEF PauseAgrees
  <2>1. P \in Clients /\ client[P] \in {"idle", "refused"} /\ "resume" \in ClientCommands[P]
    BY DEF OnlyPauser, Free
  <2>2. paused \in BOOLEAN /\ watchPaused \in BOOLEAN
    BY DEF HandleInv, HandleTypes
  <2>3. paused => watchPaused
    BY DEF HandleInv, PauseInv
  <2>4. CASE client[P] = "idle"
    <3>1. watchPaused => paused
      BY <2>4 DEF HandleInv, PauseInv
    <3> QED
      BY <2>2, <2>3, <3>1 DEF PauseAgrees
  <2>5. CASE client[P] = "refused"
    BY <2>1, <2>2, <2>3, <2>5 DEF PauseAgrees
  <2> QED
    BY <2>1, <2>4, <2>5
<1> QED
  BY <1>1, <1>2, <1>3, PTL DEF HandleSpec

-----------------------------------------------------------------------------
(* The coordinator behind its channel *)

\* What is sent is a request, whoever sends it.
RequestsOnly == rx \in Seq(Requests)

LEMMA RequestsTyped == HandleSpec => []RequestsOnly
<1>1. HandleInit => RequestsOnly
  BY DEF HandleInit, RequestsOnly
<1>2. RequestsOnly /\ [HandleNext]_allVars => RequestsOnly'
  <2> SUFFICES ASSUME rx \in Seq(Requests), [HandleNext]_allVars PROVE rx' \in Seq(Requests)
    BY DEF RequestsOnly
  <2>1. ASSUME NEW from \in Senders, NEW kind \in CommandKinds \union {"pause"}, Send(from, kind)
        PROVE  rx' \in Seq(Requests)
    BY <2>1, SendKeeps DEF Send, Requests
  <2>2. ASSUME NEW c \in Clients, NEW kind \in CommandKinds, Ask(c, kind) PROVE rx' \in Seq(Requests)
    BY <2>1, <2>2 DEF Ask, Senders
  <2>3. ASSUME NEW c \in Clients, SendPause(c) PROVE rx' \in Seq(Requests)
    BY <2>1, <2>3 DEF SendPause, Senders
  <2>4. CASE Fire
    BY <2>1, <2>4 DEF Fire, Senders, CommandKinds
  <2>5. CASE Recv
    BY <2>5, TakeKeeps DEF Recv
  <2>6. ASSUME NEW c \in Clients, PauseWatcher(c) \/ ReleaseWatcher(c) \/ ChannelClosed(c)
        PROVE  rx' \in Seq(Requests)
    BY <2>6 DEF PauseWatcher, ReleaseWatcher, ChannelClosed
  <2>7. CASE Arm \/ Disarm \/ WriteUnseen \/ Serve \/ Watch \/ UNCHANGED allVars
    BY <2>7 DEF Arm, Disarm, WriteUnseen, Serve, Watch, handleVars, allVars
  <2> QED
    BY <2>2, <2>3, <2>4, <2>5, <2>6, <2>7 DEF HandleNext
<1> QED
  BY <1>1, <1>2, PTL DEF HandleSpec

LEMMA HandleDrives ==
  ASSUME rx \in Seq(Requests), [HandleNext]_allVars
  PROVE  [Next]_vars \/ WriteUnseen
<1>1. ASSUME NEW c \in Clients,
             \/ \E kind \in CommandKinds : Ask(c, kind)
             \/ PauseWatcher(c) \/ SendPause(c) \/ ReleaseWatcher(c) \/ ChannelClosed(c)
      PROVE  UNCHANGED vars
  BY <1>1 DEF Ask, PauseWatcher, SendPause, ReleaseWatcher, ChannelClosed
<1>2. CASE Arm \/ Disarm \/ Fire \/ UNCHANGED allVars
  BY <1>2 DEF Arm, Disarm, Fire, allVars
<1>3. CASE Recv
  <2>1. Head(rx).kind \in CommandKinds \union {"pause"}
    BY <1>3, TakeKeeps DEF Recv, Requests
  <2>2. ReceivePause \/ \E kind \in CommandKinds : Receive(kind)
    BY <1>3, <2>1 DEF Recv
  <2> QED
    BY <2>2 DEF Next
<1>4. CASE Serve
  BY <1>4 DEF Serve, Next
<1>5. CASE Watch
  BY <1>5 DEF Watch, Next
<1>6. CASE WriteUnseen
  BY <1>6
<1> QED
  BY <1>1, <1>2, <1>3, <1>4, <1>5, <1>6 DEF HandleNext

\* A write nobody is told of changes nothing that the coordinator holds.
LEMMA UnseenKeeps ==
  ASSUME TypeOK, EventInv, AuditInv, WriteUnseen
  PROVE  TypeOK' /\ EventInv' /\ AuditInv'
<1>1. /\ fs' = fs + 1
      /\ UNCHANGED <<notices, watching, blind, acc, seq, snapshots, paused, audit,
                     pendingEvent, recorder, pc, cmd, scanned, reply, journal, durable,
                     observed, spent>>
  BY DEF WriteUnseen, sinkVars
<1>2. fs' \in Nat
  BY <1>1 DEF TypeOK
<1>3. TypeOK'
  BY <1>1, <1>2 DEF TypeOK
<1>4. EventInv'
  BY <1>1 DEF EventInv, JournalContiguous, Published, Checkpoints
<1>5. AuditInv'
  BY <1>1 DEF AuditInv, AuditConserved, Reported
<1> QED
  BY <1>3, <1>4, <1>5

LEMMA ServedInvariance == HandleSpec => [](TypeOK /\ EventInv /\ AuditInv)
<1>1. HandleInit => TypeOK /\ EventInv /\ AuditInv
  BY TypeInit, EventInit, AuditInit DEF HandleInit
<1>2. TypeOK /\ EventInv /\ AuditInv /\ RequestsOnly /\ [HandleNext]_allVars =>
        TypeOK' /\ EventInv' /\ AuditInv'
  BY HandleDrives, TypeStep, EventStep, AuditStep, UnseenKeeps DEF RequestsOnly
<1> QED
  BY <1>1, <1>2, RequestsTyped, PTL DEF HandleSpec

\* Behind the channel, with any clients, the watcher and its retries, and also after
\* the watch was dropped, the sequence has no gap and no repetition.
THEOREM ServedSequence == HandleSpec => []JournalContiguous
<1>1. EventInv => JournalContiguous
  BY DEF EventInv
<1> QED
  BY <1>1, ServedInvariance, PTL

\* There too, no notification is lost between the accumulator and the journal, and
\* none is told twice.
THEOREM ServedAudit == HandleSpec => []AuditConserved
<1>1. AuditInv => AuditConserved
  BY DEF AuditInv
<1> QED
  BY <1>1, ServedInvariance, PTL

-----------------------------------------------------------------------------
(* No change is lost while the watcher runs *)

\* A request joins the channel: the watcher's only one, or somebody else's.
LEMMA SendOne ==
  ASSUME rx \in Seq(Requests), WatcherInv, NEW from \in Senders,
         NEW kind \in CommandKinds \union {"pause"}, Send(from, kind),
         UNCHANGED <<pc, cmd, serving>>,
         IF from = "watcher" THEN watcher # "snapping" /\ watcher' = "snapping"
                             ELSE watcher' = watcher
  PROVE  WatcherInv'
<1> DEFINE r == [from |-> from, kind |-> kind]
<1>1. r \in Requests /\ r.from = from
  BY DEF Requests
<1>2. rx' = Append(rx, r)
  BY DEF Send
<1> HIDE DEF r
<1>3. Len(rx) \in Nat /\ Len(rx') = Len(rx) + 1
  BY <1>1, <1>2, SendKeeps
<1>4. (\A i \in 1..Len(rx) : rx'[i] = rx[i]) /\ rx'[Len(rx) + 1] = r
  BY <1>1, <1>2, SendKeeps
<1>5. \A i \in 1..Len(rx') : (i \in 1..Len(rx) /\ rx'[i] = rx[i]) \/ (i = Len(rx) + 1 /\ rx'[i] = r)
  BY <1>3, <1>4
<1>6. from = "watcher" => \A i \in 1..Len(rx) : rx[i].from # "watcher"
  BY DEF WatcherInv
<1>7. from = "watcher" /\ cmd # "none" => serving # "watcher"
  BY DEF WatcherInv
<1>8. ASSUME NEW i \in 1..Len(rx'), rx'[i].from = "watcher"
      PROVE  watcher' = "snapping" /\ \A j \in 1..Len(rx') : rx'[j].from = "watcher" => j = i
  BY <1>1, <1>5, <1>6, <1>8 DEF WatcherInv
<1>9. ASSUME cmd' # "none", serving' = "watcher"
      PROVE  watcher' = "snapping" /\ \A i \in 1..Len(rx') : rx'[i].from # "watcher"
  BY <1>1, <1>5, <1>7, <1>9 DEF WatcherInv
<1> QED
  BY <1>8, <1>9 DEF WatcherInv

LEMMA WatcherStep ==
  ASSUME rx \in Seq(Requests), WatcherInv, [HandleNext]_allVars
  PROVE  WatcherInv' /\ (watcher = "stopped" => watcher' = "stopped")
<1>1. ASSUME UNCHANGED <<pc, cmd, serving, rx>>,
             \/ watcher' = watcher
             \/ watcher \in {"parked", "armed"} /\ watcher' \in {"parked", "armed"}
      PROVE  WatcherInv' /\ (watcher = "stopped" => watcher' = "stopped")
  BY <1>1 DEF WatcherInv
<1>2. ASSUME NEW c \in Clients, NEW kind \in CommandKinds, Ask(c, kind)
      PROVE  WatcherInv' /\ watcher' = watcher
  <2>1. UNCHANGED <<pc, cmd, serving, watcher>> /\ Send(c, kind)
    BY <1>2 DEF Ask, vars
  <2>2. c \in Senders /\ c # "watcher"
    BY ClientAssumption DEF Senders
  <2> QED
    BY <2>1, <2>2, SendOne
<1>3. ASSUME NEW c \in Clients, SendPause(c)
      PROVE  WatcherInv' /\ watcher' = watcher
  <2>1. UNCHANGED <<pc, cmd, serving, watcher>> /\ Send(c, "pause")
    BY <1>3 DEF SendPause, vars
  <2>2. c \in Senders /\ c # "watcher" /\ "pause" \in CommandKinds \union {"pause"}
    BY ClientAssumption DEF Senders
  <2> QED
    BY <2>1, <2>2, SendOne
<1>4. CASE Fire
  <2>1. /\ UNCHANGED <<pc, cmd, serving>> /\ Send("watcher", "snap")
        /\ watcher = "armed" /\ watcher' = "snapping"
    BY <1>4 DEF Fire, vars
  <2>2. "watcher" \in Senders /\ "snap" \in CommandKinds \union {"pause"}
    BY DEF Senders, CommandKinds
  <2> QED
    BY <2>1, <2>2, SendOne
<1>5. ASSUME NEW c \in Clients, PauseWatcher(c) \/ ReleaseWatcher(c) \/ ChannelClosed(c)
      PROVE  UNCHANGED <<pc, cmd, serving, rx, watcher>>
  BY <1>5 DEF PauseWatcher, ReleaseWatcher, ChannelClosed, vars
<1>6. CASE Arm \/ Disarm
  BY <1>1, <1>6 DEF Arm, Disarm, vars
<1>7. CASE WriteUnseen \/ UNCHANGED allVars
  BY <1>1, <1>7 DEF WriteUnseen, handleVars, allVars, vars
<1>8. CASE Watch
  <2>1. UNCHANGED <<pc, cmd>>
    BY <1>8 DEF Watch, WatchStep, StartWatcher, LoseNotices, Write, Deliver
  <2>2. UNCHANGED <<serving, rx, watcher>>
    BY <1>8 DEF Watch, handleVars
  <2> QED
    BY <1>1, <2>1, <2>2
<1>9. CASE Recv
  <2> DEFINE from == Head(rx).from
  <2>1. /\ rx # <<>> /\ rx' = Tail(rx) /\ serving' = from
        /\ \/ Head(rx).kind = "pause" /\ ReceivePause /\ Answer(from, "pause", "ok")
           \/ Receive(Head(rx).kind) /\ watcher' = watcher
    BY <1>9 DEF Recv
  <2>2. /\ Head(rx) = rx[1] /\ Head(rx) \in Requests
        /\ Len(rx) \in Nat /\ Len(rx) > 0 /\ Len(rx') = Len(rx) - 1
    BY <2>1, TakeKeeps
  <2>3. \A i \in 1..Len(rx') : rx'[i] = rx[i + 1] /\ i + 1 \in 2..Len(rx)
    BY <2>1, TakeKeeps
  <2>4. 1 \in 1..Len(rx) /\ \A i \in 1..Len(rx') : i + 1 \in 1..Len(rx) /\ i + 1 # 1
    BY <2>2, <2>3
  <2>5. from = "watcher" => watcher = "snapping" /\ \A i \in 1..Len(rx') : rx'[i].from # "watcher"
    BY <2>2, <2>3, <2>4 DEF WatcherInv
  <2>6. ASSUME NEW i \in 1..Len(rx'), rx'[i].from = "watcher"
        PROVE  watcher = "snapping" /\ \A j \in 1..Len(rx') : rx'[j].from = "watcher" => j = i
    <3>1. watcher = "snapping" /\ \A j \in 1..Len(rx) : rx[j].from = "watcher" => j = i + 1
      BY <2>3, <2>4, <2>6 DEF WatcherInv
    <3>2. ASSUME NEW j \in 1..Len(rx'), rx'[j].from = "watcher" PROVE j = i
      <4>1. j + 1 = i + 1
        BY <2>3, <2>4, <3>1, <3>2
      <4> QED
        BY <4>1, <2>2
    <3> QED
      BY <3>1, <3>2
  <2>7. CASE Head(rx).kind = "pause" /\ ReceivePause /\ Answer(from, "pause", "ok")
    <3>1. pc = "idle" /\ UNCHANGED <<pc, cmd>>
      BY <2>7 DEF ReceivePause
    <3>2. cmd = "none"
      BY <3>1 DEF WatcherInv
    <3>3. from # "watcher" => watcher' = watcher
      BY <2>7 DEF Answer
    <3>4. from = "watcher" => watcher # "stopped"
      BY <2>5
    <3> HIDE DEF from
    <3> QED
      BY <2>5, <2>6, <3>1, <3>2, <3>3, <3>4 DEF WatcherInv
  <2>8. CASE Receive(Head(rx).kind) /\ watcher' = watcher
    <3>1. pc' \notin {"idle", "stopped"} /\ cmd' = Head(rx).kind
      BY <2>8, ReceiveSeen
    <3>2. cmd' # "none"
      BY <2>2, <3>1 DEF Requests, CommandKinds
    <3> HIDE DEF from
    <3> QED
      BY <2>1, <2>5, <2>6, <2>8, <3>1, <3>2 DEF WatcherInv
  <2> QED
    BY <2>1, <2>7, <2>8
<1>10. CASE Serve
  <2>1. /\ pc \notin {"idle", "stopped"}
        /\ \/ cmd' = "none" /\ pc' \in {"idle", "stopped"}
           \/ cmd' = cmd /\ pc' \notin {"idle", "stopped"}
        /\ UNCHANGED <<rx, serving>>
    BY <1>10, TaskSeen DEF Serve
  <2>2. cmd # "none"
    BY <2>1 DEF WatcherInv
  <2>3. CASE cmd' # "none"
    <3>1. watcher' = watcher
      BY <1>10, <2>3 DEF Serve
    <3> QED
      BY <2>1, <2>2, <2>3, <3>1 DEF WatcherInv
  <2>4. CASE cmd' = "none"
    <3>1. serving # "watcher" => watcher' = watcher
      BY <1>10, <2>4 DEF Serve, Answer
    <3>2. serving = "watcher" =>
            watcher = "snapping" /\ \A i \in 1..Len(rx) : rx[i].from # "watcher"
      BY <2>2 DEF WatcherInv
    <3> QED
      BY <2>1, <2>2, <2>4, <3>1, <3>2 DEF WatcherInv
  <2> QED
    BY <2>3, <2>4
<1> QED
  BY <1>1, <1>2, <1>3, <1>4, <1>5, <1>6, <1>7, <1>8, <1>9, <1>10 DEF HandleNext

\* Behind the channel no change is forgotten as long as the watcher has not given
\* up: whatever client's command drains, fails or is retried.
THEOREM ServedChanges == HandleSpec => [](watcher # "stopped" => NoLostChange)
<1> DEFINE I == WatcherInv /\ (watcher # "stopped" => ChangeInv)
<1>1. HandleInit => I
  BY ChangeInit DEF HandleInit, Init, WatcherInv
<1>2. TypeOK /\ EventInv /\ RequestsOnly /\ I /\ [HandleNext]_allVars => I'
  <2> SUFFICES ASSUME TypeOK, EventInv, RequestsOnly, I, [HandleNext]_allVars PROVE I'
    OBVIOUS
  <2>1. WatcherInv' /\ (watcher = "stopped" => watcher' = "stopped")
    BY WatcherStep DEF RequestsOnly
  <2>2. ASSUME watcher # "stopped" PROVE ChangeInv'
    <3>1. [Next]_vars
      BY <2>2, HandleDrives DEF RequestsOnly, WriteUnseen
    <3> QED
      BY <2>2, <3>1, ChangeStep
  <2> QED
    BY <2>1, <2>2
<1>3. TypeOK /\ EventInv /\ I => (watcher # "stopped" => NoLostChange)
  BY InvKeepsChange DEF Inv
<1> HIDE DEF I
<1> QED
  BY <1>1, <1>2, <1>3, ServedInvariance, RequestsTyped, PTL DEF HandleSpec

=================================================================================
