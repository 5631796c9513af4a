------------------------- MODULE RealtimeManagerProofs -------------------------
(* What RealtimeManager keeps for any number of sockets, tasks and changes.  *)
EXTENDS RealtimeManager, SequenceTheorems, TLAPS

(* The parts of the type invariant, to be shown one at a time. *)
LEMMA MessagesTyped ==
  /\ Request \in Message
  /\ \A v \in Versions : Event(v) \in Message
  /\ \A v \in Versions, t \in Tasks : Reply(t, v) \in Message
BY BoundAssumption DEF Request, Event, Reply, Message, Versions

LEMMA MessageParts ==
  ASSUME NEW m \in Message
  PROVE  /\ m.version \in Versions
         /\ m.kind = "reply" => m.task \in Tasks
BY DEF Message

LEMMA LoopTyped ==
  ASSUME NEW pc \in {"none", "receiving", "acking", "answering",
                     "ended", "broken", "failed", "killed"}
  PROVE  At(pc) \in LoopState
BY BoundAssumption DEF At, LoopState, Versions

LEMMA SyncTyped ==
  ASSUME NEW pc \in {"unused", "new", "waiting", "ready", "done", "failed"},
         NEW s \in Sockets \cup {None}, NEW v \in Versions
  PROVE  Sync(pc, s, v) \in TaskState
BY DEF Sync, TaskState

(* What the steps of the sync task and Spawn do to task and ready.         *)
TaskTypeOK ==
  /\ task \in [Tasks -> TaskState]
  /\ \A t \in Tasks : task[t].pc # "unused" => task[t].socket \in Sockets
  /\ ready \in Seq(Tasks)

LEMMA SpawnTyped ==
  ASSUME TaskTypeOK, NEW s \in Sockets, Spawn(s)
  PROVE  TaskTypeOK'
<1>1. 0 \in Versions
  BY BoundAssumption DEF Versions
<1>2. PICK t \in Tasks : /\ task' = [task EXCEPT ![t] = Sync("new", s, 0)]
                         /\ ready' = Append(ready, t)
  BY DEF Spawn
<1>3. Sync("new", s, 0) \in TaskState /\ Sync("new", s, 0).socket = s
  BY <1>1, SyncTyped DEF Sync
<1> QED
  BY <1>2, <1>3 DEF TaskTypeOK

LEMMA ResolveTyped ==
  ASSUME TaskTypeOK, NEW s \in Sockets, NEW m \in Message, m.kind = "reply",
         Resolve(s, m)
  PROVE  TaskTypeOK'
<1>1. m.task \in Tasks /\ m.version \in Versions
  BY MessageParts
<1>2. /\ Sync("ready", s, m.version) \in TaskState
      /\ Sync("ready", s, m.version).socket = s
  BY <1>1, SyncTyped DEF Sync
<1>3. CASE /\ task' = [task EXCEPT ![m.task] = Sync("ready", s, m.version)]
           /\ ready' = Append(ready, m.task)
  BY <1>1, <1>2, <1>3 DEF TaskTypeOK
<1>4. CASE UNCHANGED <<task, ready>>
  BY <1>4 DEF TaskTypeOK
<1> QED
  BY <1>3, <1>4 DEF Resolve

LEMMA RunTyped ==
  ASSUME TaskTypeOK, NEW t \in Tasks, Run(t)
  PROVE  TaskTypeOK'
<1>1. /\ ready # <<>> /\ ready' = Tail(ready)
      /\ task[t].pc # "unused"
      /\ \E pc \in {"waiting", "done", "failed"} : task' = [task EXCEPT ![t].pc = pc]
  BY DEF Run, RequestSnapshot, RequestFails, StoreSnapshot, StoreFails, Runs
<1>2. PICK pc \in {"waiting", "done", "failed"} : task' = [task EXCEPT ![t].pc = pc]
  BY <1>1
<1>3. [task[t] EXCEPT !.pc = pc] \in TaskState
      /\ [task[t] EXCEPT !.pc = pc].socket = task[t].socket
  BY DEF TaskTypeOK, TaskState
<1>4. task' \in [Tasks -> TaskState]
  BY <1>2, <1>3 DEF TaskTypeOK
<1>5. \A u \in Tasks : task'[u].pc # "unused" => task'[u].socket \in Sockets
  BY <1>1, <1>2, <1>3 DEF TaskTypeOK
<1>6. ready' \in Seq(Tasks)
  BY <1>1 DEF TaskTypeOK
<1> QED
  BY <1>4, <1>5, <1>6 DEF TaskTypeOK

-----------------------------------------------------------------------------
(* The part of the type invariant that is the agent's and the network's. *)
NetTypeOK ==
  /\ net \in [Sockets -> {"unused", "up", "down"}]
  /\ inbox \in [Sockets -> Seq(Message)]
  /\ asked \in [Sockets -> SUBSET Tasks]
  /\ version \in Versions

LoopTypeOK ==
  /\ loop \in [Sockets -> LoopState]
  /\ dead \in [Sockets -> BOOLEAN]
  /\ active \in Sockets \cup {None}
  /\ online \in BOOLEAN
  /\ stored \in [Sockets -> Versions]
  /\ acked \in [Sockets -> Versions]

LEMMA TypeParts == TypeOK <=> NetTypeOK /\ LoopTypeOK /\ TaskTypeOK
BY DEF TypeOK, NetTypeOK, LoopTypeOK, TaskTypeOK

LEMMA SendTyped ==
  ASSUME NetTypeOK, NEW s \in Sockets, NEW m \in Message, Send(s, m)
  PROVE  inbox' \in [Sockets -> Seq(Message)]
BY DEF NetTypeOK, Send

LEMMA TakeTyped ==
  ASSUME NetTypeOK, NEW s \in Sockets, inbox[s] # <<>>
  PROVE  /\ Head(inbox[s]) \in Message
         /\ Take(s) => inbox' \in [Sockets -> Seq(Message)]
<1>1. inbox[s] \in Seq(Message) /\ inbox[s] # <<>>
  BY DEF NetTypeOK
<1>2. Head(inbox[s]) \in Message /\ Tail(inbox[s]) \in Seq(Message)
  BY <1>1, HeadTailProperties
<1> QED
  BY <1>2 DEF NetTypeOK, Take

(* The agent's steps leave the server's variables alone. *)
LEMMA AgentTyped ==
  ASSUME TypeOK, AgentChange \/ \E s \in Sockets : Agent(s)
  PROVE  NetTypeOK' /\ UNCHANGED serverVars
<1> USE TypeParts
<1>1. CASE AgentChange
  <2>1. version' \in Versions
    BY <1>1, BoundAssumption DEF AgentChange, NetTypeOK, Versions
  <2>2. inbox' \in [Sockets -> Seq(Message)]
    BY <1>1, <2>1, SendTyped, MessagesTyped DEF AgentChange, NetTypeOK
  <2> QED
    BY <1>1, <2>1, <2>2 DEF AgentChange, NetTypeOK
<1>2. ASSUME NEW s \in Sockets, AgentConnect(s)
      PROVE  NetTypeOK' /\ UNCHANGED serverVars
  BY <1>2 DEF AgentConnect, NetTypeOK
<1>3. ASSUME NEW s \in Sockets, NEW t \in Tasks,
             AgentAnswer(s, t) \/ AgentRepeat(s, t)
      PROVE  NetTypeOK' /\ UNCHANGED serverVars
  <2>1. version \in Versions
    BY DEF NetTypeOK
  <2>2. inbox' \in [Sockets -> Seq(Message)]
    BY <1>3, <2>1, SendTyped, MessagesTyped DEF AgentAnswer, AgentRepeat
  <2>3. asked' \in [Sockets -> SUBSET Tasks]
    BY <1>3 DEF AgentAnswer, AgentRepeat, NetTypeOK
  <2> QED
    BY <1>3, <2>2, <2>3 DEF AgentAnswer, AgentRepeat, NetTypeOK
<1>4. ASSUME NEW s \in Sockets, AgentRequest(s)
      PROVE  NetTypeOK' /\ UNCHANGED serverVars
  <2>1. inbox' \in [Sockets -> Seq(Message)]
    BY <1>4, SendTyped, MessagesTyped DEF AgentRequest
  <2> QED
    BY <1>4, <2>1 DEF AgentRequest, NetTypeOK
<1>5. ASSUME NEW s \in Sockets, Drop(s)
      PROVE  NetTypeOK' /\ UNCHANGED serverVars
  BY <1>5 DEF Drop, NetTypeOK
<1> QED
  BY <1>1, <1>2, <1>3, <1>4, <1>5 DEF Agent

(* What the loops keep of their own variables and of the network's.        *)
LEMMA LoopsTyped ==
  ASSUME TypeOK, NEW s \in Sockets, Loop(s)
  PROVE  NetTypeOK' /\ LoopTypeOK'
<1> USE TypeParts
<1> DEFINE Pcs == {"none", "receiving", "acking", "answering",
                   "ended", "broken", "failed", "killed"}
<1>1. \A pc \in Pcs : SetLoop(s, pc) => loop' \in [Sockets -> LoopState]
  BY LoopTyped DEF SetLoop, LoopTypeOK
<1>2. NextReceive(s) => loop' \in [Sockets -> LoopState]
  BY <1>1 DEF NextReceive
<1>3. ASSUME Register(s) \/ RegisterFails(s)
      PROVE  NetTypeOK' /\ LoopTypeOK'
  <2>1. loop' \in [Sockets -> LoopState]
    BY <1>1, <1>3 DEF Register, RegisterFails
  <2> QED
    BY <1>3, <2>1
    DEF Register, RegisterFails, Closed, AgentVars, NetTypeOK, LoopTypeOK
<1>4. ASSUME ReceiveReply(s) \/ ReceiveRequest(s)
      PROVE  NetTypeOK' /\ LoopTypeOK'
  <2>1. loop' \in [Sockets -> LoopState]
    BY <1>1, <1>2, <1>4 DEF ReceiveReply, ReceiveRequest
  <2>2. inbox' \in [Sockets -> Seq(Message)]
    BY <1>4, TakeTyped DEF ReceiveReply, ReceiveRequest
  <2> QED
    BY <1>4, <2>1, <2>2
    DEF ReceiveReply, ReceiveRequest, NetTypeOK, LoopTypeOK
<1>5. ASSUME ReceiveEvent(s) PROVE NetTypeOK' /\ LoopTypeOK'
  <2>1. Head(inbox[s]).version \in Versions
    BY <1>5, TakeTyped, MessageParts DEF ReceiveEvent
  <2>2. loop' \in [Sockets -> LoopState]
    BY <1>5, <2>1, LoopTyped DEF ReceiveEvent, LoopState, LoopTypeOK
  <2>3. inbox' \in [Sockets -> Seq(Message)]
    BY <1>5, TakeTyped DEF ReceiveEvent
  <2> QED
    BY <1>5, <2>2, <2>3 DEF ReceiveEvent, NetTypeOK, LoopTypeOK
<1>6. ASSUME ReceiveFails(s) PROVE NetTypeOK' /\ LoopTypeOK'
  <2>1. inbox' \in [Sockets -> Seq(Message)]
    BY <1>6, TakeTyped DEF ReceiveFails
  <2>2. loop' \in [Sockets -> LoopState]
    BY <1>1, <1>6 DEF ReceiveFails
  <2> QED
    BY <1>6, <2>1, <2>2 DEF ReceiveFails, Closed, NetTypeOK, LoopTypeOK
<1>7. ASSUME AckSent(s) \/ AnswerSent(s) \/ HandlerSendFails(s)
      PROVE  NetTypeOK' /\ LoopTypeOK'
  <2>1. loop' \in [Sockets -> LoopState]
    BY <1>1, <1>2, <1>7 DEF AckSent, AnswerSent, HandlerSendFails
  <2>2. loop[s].version \in Versions
    BY DEF LoopTypeOK, LoopState
  <2> QED
    BY <1>7, <2>1, <2>2
    DEF AckSent, AnswerSent, HandlerSendFails, AgentVars, NetTypeOK, LoopTypeOK
<1>8. ASSUME ReceiveDisconnect(s) \/ DisconnectFails(s)
      PROVE  NetTypeOK' /\ LoopTypeOK'
  <2>1. loop' \in [Sockets -> LoopState]
    BY <1>1, <1>8 DEF ReceiveDisconnect, DisconnectFails
  <2>2. inbox' \in [Sockets -> Seq(Message)]
    <3>1. <<>> \in Seq(Message) /\ inbox' = [inbox EXCEPT ![s] = <<>>]
      BY <1>8 DEF ReceiveDisconnect, DisconnectFails
    <3> QED
      BY <3>1 DEF NetTypeOK
  <2> QED
    BY <1>8, <2>1, <2>2 DEF ReceiveDisconnect, DisconnectFails, NetTypeOK, LoopTypeOK
<1> QED
  BY <1>3, <1>4, <1>5, <1>6, <1>7, <1>8 DEF Loop, Receive

-----------------------------------------------------------------------------
(* The variables keep their types: an answer names a task, a task its      *)
(* socket, and the queue of the event loop holds tasks                     *)
(* (RealtimeManager.start and _sync_environment).                          *)
THEOREM TypeCorrect == Spec => []TypeOK
<1> USE TypeParts
<1>1. Init => TypeOK
  <2> SUFFICES ASSUME Init PROVE TypeOK
    OBVIOUS
  <2>1. 0 \in Versions
    BY BoundAssumption DEF Versions
  <2>2. NetTypeOK
    BY <2>1 DEF Init, NetTypeOK
  <2>3. LoopTypeOK
    BY <2>1, LoopTyped DEF Init, LoopTypeOK
  <2>4. TaskTypeOK
    <3>1. Sync("unused", None, 0) \in TaskState
          /\ Sync("unused", None, 0).pc = "unused"
      BY <2>1, SyncTyped DEF Sync
    <3> QED
      BY <3>1 DEF Init, TaskTypeOK
  <2> QED
    BY <2>2, <2>3, <2>4
<1>2. TypeOK /\ [Next]_vars => TypeOK'
  <2> SUFFICES ASSUME TypeOK, [Next]_vars
               PROVE  NetTypeOK' /\ LoopTypeOK' /\ TaskTypeOK'
    BY DEF TypeOK, NetTypeOK, LoopTypeOK, TaskTypeOK
  <2>1. CASE AgentChange \/ \E s \in Sockets : Agent(s)
    BY <2>1, AgentTyped DEF serverVars, LoopTypeOK, TaskTypeOK
  <2>2. ASSUME NEW s \in Sockets, Loop(s)
        PROVE  NetTypeOK' /\ LoopTypeOK' /\ TaskTypeOK'
    <3>1. CASE Spawn(s)
      BY <2>2, <3>1, LoopsTyped, SpawnTyped
    <3>2. CASE ReceiveReply(s)
      <4>1. Head(inbox[s]) \in Message /\ Head(inbox[s]).kind = "reply"
        BY <3>2, TakeTyped DEF ReceiveReply
      <4>2. Resolve(s, Head(inbox[s]))
        BY <3>2 DEF ReceiveReply
      <4>3. TaskTypeOK'
        BY <4>1, <4>2, ResolveTyped
      <4> QED
        BY <2>2, <4>3, LoopsTyped
    <3>3. CASE UNCHANGED <<task, ready>>
      BY <2>2, <3>3, LoopsTyped DEF TaskTypeOK
    <3> QED
      BY <2>2, <3>1, <3>2, <3>3
      DEF Loop, Receive, Register, RegisterFails, ReceiveEvent,
          ReceiveRequest, ReceiveFails, ReceiveDisconnect, DisconnectFails,
          AckSent, AnswerSent, HandlerSendFails
  <2>3. ASSUME NEW t \in Tasks, Run(t)
        PROVE  NetTypeOK' /\ LoopTypeOK' /\ TaskTypeOK'
    <3>1. TaskTypeOK'
      BY <2>3, RunTyped
    <3>2. task[t].socket \in Sockets /\ task[t].version \in Versions
      BY <2>3
      DEF Run, RequestSnapshot, RequestFails, StoreSnapshot, StoreFails, Runs,
          TaskTypeOK, TaskState
    <3>3. /\ asked' \in [Sockets -> SUBSET Tasks]
          /\ dead' \in [Sockets -> BOOLEAN]
          /\ stored' \in [Sockets -> Versions]
      <4>1. CASE RequestSnapshot(t)
        BY <4>1, <3>2 DEF RequestSnapshot, NetTypeOK, LoopTypeOK
      <4>2. CASE RequestFails(t)
        BY <4>2, <3>2 DEF RequestFails, AgentVars, NetTypeOK, LoopTypeOK
      <4>3. CASE StoreSnapshot(t) \/ StoreFails(t)
        BY <4>3, <3>2
        DEF StoreSnapshot, StoreFails, AgentVars, NetTypeOK, LoopTypeOK
      <4> QED
        BY <2>3, <4>1, <4>2, <4>3 DEF Run
    <3>4. UNCHANGED <<net, inbox, version, loop, active, online, acked>>
      BY <2>3
      DEF Run, RequestSnapshot, RequestFails, StoreSnapshot, StoreFails,
          AgentVars
    <3> QED
      BY <3>1, <3>3, <3>4 DEF NetTypeOK, LoopTypeOK
  <2>4. CASE Restart
    <3>1. /\ task' \in [Tasks -> TaskState]
          /\ \A t \in Tasks : task'[t].socket = task[t].socket
          /\ \A t \in Tasks : task'[t].pc = "unused" <=> task[t].pc = "unused"
      <4>1. \A t \in Tasks :
              /\ Sync("failed", task[t].socket, task[t].version) \in TaskState
              /\ Sync("failed", task[t].socket, task[t].version).socket
                   = task[t].socket
              /\ Sync("failed", task[t].socket, task[t].version).pc = "failed"
        BY DEF TaskTypeOK, TaskState, Sync
      <4> QED
        BY <2>4, <4>1 DEF Restart, TaskTypeOK
    <3>2. ready' \in Seq(Tasks)
      BY <2>4 DEF Restart
    <3>3. loop' \in [Sockets -> LoopState]
      BY <2>4, LoopTyped DEF Restart, LoopTypeOK
    <3>4. inbox' \in [Sockets -> Seq(Message)]
      <4>1. <<>> \in Seq(Message)
        OBVIOUS
      <4> QED
        BY <2>4, <4>1 DEF Restart
    <3> QED
      BY <2>4, <3>1, <3>2, <3>3, <3>4
      DEF Restart, NetTypeOK, LoopTypeOK, TaskTypeOK
  <2>5. CASE UNCHANGED vars
    BY <2>5 DEF vars, serverVars, NetTypeOK, LoopTypeOK, TaskTypeOK
  <2> QED
    BY <2>1, <2>2, <2>3, <2>4, <2>5 DEF Next
<1> QED
  BY <1>1, <1>2, PTL DEF Spec

-----------------------------------------------------------------------------
(* While the loop of the registered socket runs, the database says that    *)
(* the environment is online, whichever other sockets close around it      *)
(* (RealtimeManager.start, _update_environment_status).                    *)
THEOREM EntryAndStatusAgree == Spec => []RegisteredIsOnline
<1> USE DEF RegisteredIsOnline, Running
<1>1. Init => RegisteredIsOnline
  BY DEF Init
<1>2. TypeOK /\ RegisteredIsOnline /\ [Next]_vars => RegisteredIsOnline'
  <2> SUFFICES ASSUME TypeOK, RegisteredIsOnline, [Next]_vars
               PROVE  RegisteredIsOnline'
    OBVIOUS
  <2> USE DEF TypeOK, SetLoop, NextReceive, At
  <2>1. CASE AgentChange \/ \E s \in Sockets : Agent(s)
    BY <2>1, AgentTyped DEF serverVars
  <2>2. ASSUME NEW s \in Sockets,
               \/ Register(s) \/ ReceiveReply(s) \/ ReceiveEvent(s)
               \/ ReceiveRequest(s)
        PROVE  RegisteredIsOnline'
    BY <2>2 DEF Register, ReceiveReply, ReceiveEvent, ReceiveRequest
  <2>3. ASSUME NEW s \in Sockets, ReceiveDisconnect(s) \/ DisconnectFails(s)
        PROVE  RegisteredIsOnline'
    BY <2>3 DEF ReceiveDisconnect, DisconnectFails
  <2>4. ASSUME NEW s \in Sockets,
               \/ RegisterFails(s) \/ ReceiveFails(s) \/ AckSent(s)
               \/ AnswerSent(s) \/ HandlerSendFails(s)
        PROVE  RegisteredIsOnline'
    <3> DEFINE pcs == {"receiving", "acking", "answering"}
    <3>1. \A r \in Sockets : loop'[r].pc \in pcs => loop[r].pc \in pcs
      <4>1. CASE RegisterFails(s) \/ ReceiveFails(s)
        <5>1. loop' = [loop EXCEPT ![s] = [pc |-> "failed", version |-> 0]]
          BY <4>1 DEF RegisterFails, ReceiveFails
        <5> QED
          BY <5>1
      <4>2. CASE AckSent(s)
        BY <4>2 DEF AckSent
      <4>3. CASE AnswerSent(s) \/ HandlerSendFails(s)
        BY <4>3 DEF AnswerSent, HandlerSendFails
      <4> QED
        BY <2>4, <4>1, <4>2, <4>3
    <3>2. CASE RegisterFails(s)
      BY <3>1, <3>2 DEF RegisterFails
    <3>3. CASE ReceiveFails(s)
      BY <3>1, <3>3 DEF ReceiveFails
    <3>4. CASE AckSent(s) \/ AnswerSent(s) \/ HandlerSendFails(s)
      BY <3>1, <3>4 DEF AckSent, AnswerSent, HandlerSendFails
    <3> QED
      BY <2>4, <3>2, <3>3, <3>4
  <2>5. ASSUME NEW t \in Tasks, Run(t) PROVE RegisteredIsOnline'
    BY <2>5
    DEF Run, RequestSnapshot, RequestFails, StoreSnapshot, StoreFails
  <2>6. CASE Restart
    BY <2>6 DEF Restart
  <2>7. CASE UNCHANGED vars
    BY <2>7 DEF vars, serverVars
  <2> QED
    BY <2>1, <2>2, <2>3, <2>4, <2>5, <2>6, <2>7 DEF Next, Loop, Receive
<1> QED
  BY <1>1, <1>2, TypeCorrect, PTL DEF Spec

-----------------------------------------------------------------------------
(* When every loop that was started has ended by the disconnect of its     *)
(* socket, nothing of them is left: no entry, and the database says        *)
(* offline (RealtimeManager.start, the except branch).                     *)
THEOREM EndedLoopsLeaveNothing == Spec => []EndedMeansOffline
<1> USE DEF EndedMeansOffline
<1>1. Init => EndedMeansOffline
  BY DEF Init
<1>2. TypeOK /\ EndedMeansOffline /\ [Next]_vars => EndedMeansOffline'
  <2> SUFFICES ASSUME TypeOK, EndedMeansOffline, [Next]_vars
               PROVE  EndedMeansOffline'
    OBVIOUS
  <2> USE DEF TypeOK, SetLoop, NextReceive, At
  <2>1. CASE AgentChange \/ \E s \in Sockets : Agent(s)
    BY <2>1, AgentTyped DEF serverVars
  <2>2. ASSUME NEW s \in Sockets, ReceiveDisconnect(s)
        PROVE  EndedMeansOffline'
    BY <2>2 DEF ReceiveDisconnect
  <2>3. ASSUME NEW s \in Sockets,
               \/ Register(s) \/ RegisterFails(s)
               \/ ReceiveReply(s) \/ ReceiveEvent(s) \/ ReceiveRequest(s)
               \/ ReceiveFails(s) \/ DisconnectFails(s)
               \/ AckSent(s) \/ AnswerSent(s) \/ HandlerSendFails(s)
        PROVE  EndedMeansOffline'
    <3>1. loop'[s].pc \notin {"none", "ended"}
      <4>1. CASE Register(s) \/ RegisterFails(s)
        BY <4>1 DEF Register, RegisterFails
      <4>2. CASE ReceiveReply(s) \/ ReceiveRequest(s)
        BY <4>2 DEF ReceiveReply, ReceiveRequest
      <4>3. CASE ReceiveEvent(s)
        BY <4>3 DEF ReceiveEvent
      <4>4. CASE ReceiveFails(s) \/ DisconnectFails(s)
        BY <4>4 DEF ReceiveFails, DisconnectFails
      <4>5. CASE AckSent(s) \/ AnswerSent(s) \/ HandlerSendFails(s)
        BY <4>5 DEF AckSent, AnswerSent, HandlerSendFails
      <4> QED
        BY <2>3, <4>1, <4>2, <4>3, <4>4, <4>5
    <3> QED
      BY <3>1
  <2>4. ASSUME NEW t \in Tasks, Run(t) PROVE EndedMeansOffline'
    BY <2>4
    DEF Run, RequestSnapshot, RequestFails, StoreSnapshot, StoreFails
  <2>5. CASE Restart
    BY <2>5 DEF Restart, Running
  <2>6. CASE UNCHANGED vars
    BY <2>6 DEF vars, serverVars
  <2> QED
    BY <2>1, <2>2, <2>3, <2>4, <2>5, <2>6 DEF Next, Loop, Receive
<1> QED
  BY <1>1, <1>2, TypeCorrect, PTL DEF Spec

-----------------------------------------------------------------------------
(* A task is in the event loop's queue at most once, and only to be run. *)
QueueInv ==
  /\ \A i, j \in 1..Len(ready) : ready[i] = ready[j] => i = j
  /\ \A i \in 1..Len(ready) : task[ready[i]].pc \in {"new", "ready"}

(* A task that was not in the queue is put at its end. *)
LEMMA EnqueueKeeps ==
  ASSUME TaskTypeOK, QueueInv,
         NEW t \in Tasks, task[t].pc \notin {"new", "ready"},
         NEW w \in TaskState, w.pc \in {"new", "ready"},
         task' = [task EXCEPT ![t] = w], ready' = Append(ready, t)
  PROVE  QueueInv'
<1> DEFINE n == Len(ready)
<1>1. /\ n \in Nat
      /\ Len(ready') = n + 1
      /\ \A i \in 1..n : ready'[i] = ready[i] /\ ready[i] \in Tasks
      /\ ready'[n + 1] = t
  BY DEF TaskTypeOK
<1>2. \A i \in 1..n : ready[i] # t
  BY DEF QueueInv
<1>3. /\ task'[t] = w
      /\ \A u \in Tasks \ {t} : task'[u] = task[u]
  BY DEF TaskTypeOK
<1>4. ASSUME NEW i \in 1..Len(ready'), NEW j \in 1..Len(ready'),
             ready'[i] = ready'[j]
      PROVE  i = j
  <2>1. i \in 1..n \/ i = n + 1
    BY <1>1
  <2>2. j \in 1..n \/ j = n + 1
    BY <1>1
  <2> QED
    BY <2>1, <2>2, <1>1, <1>2, <1>4 DEF QueueInv
<1>5. ASSUME NEW i \in 1..Len(ready')
      PROVE  task'[ready'[i]].pc \in {"new", "ready"}
  <2>1. CASE i = n + 1
    BY <2>1, <1>1, <1>3
  <2>2. CASE i \in 1..n
    BY <2>2, <1>1, <1>2, <1>3 DEF QueueInv
  <2> QED
    BY <1>1, <2>1, <2>2
<1> QED
  BY <1>4, <1>5 DEF QueueInv

(* The task at the head of the queue runs and leaves it. *)
LEMMA DequeueKeeps ==
  ASSUME TaskTypeOK, QueueInv, ready # <<>>, NEW t \in Tasks,
         Head(ready) = t, ready' = Tail(ready),
         \A u \in Tasks \ {t} : task'[u] = task[u]
  PROVE  /\ QueueInv'
         /\ \A i \in 1..Len(ready') :
              /\ i + 1 \in 1..Len(ready)
              /\ ready'[i] = ready[i + 1] /\ ready'[i] # t
<1>1. /\ Len(ready) \in Nat \ {0} /\ ready[1] = t
      /\ Len(ready') = Len(ready) - 1
      /\ \A i \in 1..Len(ready') : ready'[i] = ready[i + 1]
  BY HeadTailProperties, EmptySeq DEF TaskTypeOK
<1>2. \A i \in 1..Len(ready') :
        /\ i + 1 \in 1..Len(ready)
        /\ ready'[i] = ready[i + 1] /\ ready'[i] \in Tasks /\ ready'[i] # t
  <2> TAKE i \in 1..Len(ready')
  <2>1. i + 1 \in 1..Len(ready) /\ i + 1 # 1 /\ 1 \in 1..Len(ready)
    BY <1>1
  <2>2. ready[i + 1] \in Tasks
    BY <2>1, ElementOfSeq DEF TaskTypeOK
  <2> QED
    BY <1>1, <2>1, <2>2 DEF QueueInv
<1>3. QueueInv'
  <2>1. ASSUME NEW i \in 1..Len(ready'), NEW j \in 1..Len(ready'),
               ready'[i] = ready'[j]
        PROVE  i = j
    <3>1. i + 1 = j + 1
      BY <2>1, <1>2 DEF QueueInv
    <3> QED
      BY <3>1
  <2>2. \A i \in 1..Len(ready') : task'[ready'[i]].pc \in {"new", "ready"}
    BY <1>2 DEF QueueInv
  <2> QED
    BY <2>1, <2>2 DEF QueueInv
<1> QED
  BY <1>2, <1>3

(* What Spawn, Resolve and the steps of a task amount to. *)
LEMMA SpawnEnqueues ==
  ASSUME NEW s \in Sockets, Spawn(s)
  PROVE  \E t \in Tasks :
           /\ task[t].pc = "unused"
           /\ task' = [task EXCEPT ![t] = Sync("new", s, 0)]
           /\ ready' = Append(ready, t)
BY DEF Spawn

LEMMA RunDequeues ==
  ASSUME TypeOK, NEW t \in Tasks, Run(t)
  PROVE  /\ ready # <<>> /\ Head(ready) = t /\ ready' = Tail(ready)
         /\ \A u \in Tasks \ {t} : task'[u] = task[u]
BY DEF Run, RequestSnapshot, RequestFails, StoreSnapshot, StoreFails, Runs,
       TypeOK

LEMMA LoopQueue ==
  ASSUME NEW s \in Sockets, Loop(s)
  PROVE  \/ Spawn(s)
         \/ ReceiveReply(s)
         \/ UNCHANGED <<task, ready>>
BY DEF Loop, Receive, Register, RegisterFails, ReceiveEvent, ReceiveRequest,
       ReceiveFails, ReceiveDisconnect, DisconnectFails, AckSent, AnswerSent,
       HandlerSendFails

(* The queue of the event loop holds each task once (asyncio.create_task   *)
(* and the futures of _sync_environment).                                  *)
LEMMA QueueInvariant == Spec => []QueueInv
<1>1. Init => QueueInv
  BY DEF Init, QueueInv
<1>2. TypeOK /\ QueueInv /\ [Next]_vars => QueueInv'
  <2> SUFFICES ASSUME TypeOK, QueueInv, [Next]_vars PROVE QueueInv'
    OBVIOUS
  <2> USE TypeParts
  <2>1. ASSUME UNCHANGED <<task, ready>> PROVE QueueInv'
    BY <2>1 DEF QueueInv
  <2>2. CASE AgentChange \/ \E s \in Sockets : Agent(s)
    BY <2>1, <2>2, AgentTyped DEF serverVars
  <2>3. ASSUME NEW s \in Sockets, Spawn(s) PROVE QueueInv'
    <3>1. PICK t \in Tasks : /\ task[t].pc = "unused"
                             /\ task' = [task EXCEPT ![t] = Sync("new", s, 0)]
                             /\ ready' = Append(ready, t)
      BY <2>3, SpawnEnqueues
    <3>2. Sync("new", s, 0) \in TaskState /\ Sync("new", s, 0).pc = "new"
      BY SyncTyped, BoundAssumption DEF Sync, Versions
    <3> QED
      BY <3>1, <3>2, EnqueueKeeps
  <2>4. ASSUME NEW s \in Sockets, ReceiveReply(s) PROVE QueueInv'
    <3> DEFINE m == Head(inbox[s])
    <3>1. m \in Message /\ m.kind = "reply" /\ Resolve(s, m)
      BY <2>4, TakeTyped DEF ReceiveReply
    <3>2. m.task \in Tasks /\ m.version \in Versions
      BY <3>1, MessageParts
    <3>3. /\ Sync("ready", s, m.version) \in TaskState
          /\ Sync("ready", s, m.version).pc = "ready"
      BY <3>2, SyncTyped DEF Sync
    <3>4. CASE /\ Awaited(m.task, s)
               /\ task' = [task EXCEPT ![m.task] = Sync("ready", s, m.version)]
               /\ ready' = Append(ready, m.task)
      <4> HIDE DEF m
      <4> QED
        BY <3>2, <3>3, <3>4, EnqueueKeeps DEF Awaited
    <3> QED
      BY <3>1, <3>4, <2>1 DEF Resolve
  <2>5. ASSUME NEW s \in Sockets, Loop(s) PROVE QueueInv'
    BY <2>1, <2>3, <2>4, <2>5, LoopQueue
  <2>6. ASSUME NEW t \in Tasks, Run(t) PROVE QueueInv'
    BY <2>6, RunDequeues, DequeueKeeps
  <2>7. CASE Restart
    BY <2>7 DEF Restart, QueueInv
  <2>8. CASE UNCHANGED vars
    BY <2>1, <2>8 DEF vars, serverVars
  <2> QED
    BY <2>2, <2>5, <2>6, <2>7, <2>8 DEF Next
<1> QED
  BY <1>1, <1>2, TypeCorrect, PTL DEF Spec

-----------------------------------------------------------------------------
(* A snapshot travels from the agent through the inbox of its socket and   *)
(* the event loop's queue to the database.  At every point of the way      *)
(* nothing overtakes: what is behind is not older.                         *)
Carries(s, n) == inbox[s][n].kind # "request"
Resumed(i) == task[ready[i]].pc = "ready"
Snapshot(i) == task[ready[i]].version
Origin(i) == task[ready[i]].socket

InboxOrdered ==
  /\ \A s \in Sockets : stored[s] <= version
  /\ \A s \in Sockets : \A n \in 1..Len(inbox[s]) : Carries(s, n) =>
       /\ stored[s] <= inbox[s][n].version
       /\ inbox[s][n].version <= version
  /\ \A s \in Sockets : \A m, n \in 1..Len(inbox[s]) :
       Carries(s, m) /\ Carries(s, n) /\ m < n =>
         inbox[s][m].version <= inbox[s][n].version

QueueOrdered ==
  /\ \A i \in 1..Len(ready) : Resumed(i) =>
       /\ Snapshot(i) <= version
       /\ stored[Origin(i)] <= Snapshot(i)
       /\ \A n \in 1..Len(inbox[Origin(i)]) :
            Carries(Origin(i), n) => Snapshot(i) <= inbox[Origin(i)][n].version
  /\ \A i, j \in 1..Len(ready) :
       Resumed(i) /\ Resumed(j) /\ Origin(i) = Origin(j) /\ i < j =>
         Snapshot(i) <= Snapshot(j)

(* An inbox that loses its head or all it holds, and a queue that loses    *)
(* its head or gets tasks that wait to start, keep what they had in order. *)
InboxShift(s) ==
  \E d \in {0, 1} : \A n \in 1..Len(inbox'[s]) :
    n + d \in 1..Len(inbox[s]) /\ inbox'[s][n] = inbox[s][n + d]

QueueShift ==
  \E d \in {0, 1} : \A i \in 1..Len(ready') : task'[ready'[i]].pc = "ready" =>
    /\ i + d \in 1..Len(ready) /\ ready'[i] = ready[i + d]
    /\ task'[ready'[i]] = task[ready[i + d]]

LEMMA InboxShiftKeeps ==
  ASSUME InboxOrdered, \A s \in Sockets : InboxShift(s),
         UNCHANGED <<stored, version>>
  PROVE  InboxOrdered'
<1>1. ASSUME NEW s \in Sockets, NEW n \in 1..Len(inbox'[s]),
             inbox'[s][n].kind # "request"
      PROVE  /\ stored'[s] <= inbox'[s][n].version
             /\ inbox'[s][n].version <= version'
  BY <1>1 DEF InboxOrdered, InboxShift, Carries
<1>2. ASSUME NEW s \in Sockets,
             NEW m \in 1..Len(inbox'[s]), NEW n \in 1..Len(inbox'[s]),
             inbox'[s][m].kind # "request", inbox'[s][n].kind # "request", m < n
      PROVE  inbox'[s][m].version <= inbox'[s][n].version
  <2>1. PICK d \in {0, 1} : \A k \in 1..Len(inbox'[s]) :
          k + d \in 1..Len(inbox[s]) /\ inbox'[s][k] = inbox[s][k + d]
    BY DEF InboxShift
  <2>2. m + d < n + d
    BY <1>2
  <2> QED
    BY <1>2, <2>1, <2>2 DEF InboxOrdered, Carries
<1> QED
  BY <1>1, <1>2 DEF InboxOrdered, Carries

LEMMA ShiftsKeepQueue ==
  ASSUME TypeOK, QueueOrdered, QueueShift, \A s \in Sockets : InboxShift(s),
         UNCHANGED <<stored, version>>
  PROVE  QueueOrdered'
<1> USE TypeParts
<1>1. PICK d \in {0, 1} :
        \A i \in 1..Len(ready') : task'[ready'[i]].pc = "ready" =>
          /\ i + d \in 1..Len(ready) /\ ready'[i] = ready[i + d]
          /\ task'[ready'[i]] = task[ready[i + d]]
  BY DEF QueueShift
<1>2. ASSUME NEW i \in 1..Len(ready'), task'[ready'[i]].pc = "ready"
      PROVE  LET u == task'[ready'[i]] IN
             /\ u.version <= version'
             /\ stored'[u.socket] <= u.version
             /\ \A n \in 1..Len(inbox'[u.socket]) :
                  inbox'[u.socket][n].kind # "request" =>
                    u.version <= inbox'[u.socket][n].version
  <2> DEFINE u == task'[ready'[i]]
  <2>1. i + d \in 1..Len(ready) /\ u = task[ready[i + d]]
    BY <1>1, <1>2
  <2>2. ready[i + d] \in Tasks
    BY <2>1, ElementOfSeq DEF TaskTypeOK
  <2>3. u.socket \in Sockets
    BY <1>2, <2>1, <2>2 DEF TaskTypeOK
  <2>4. /\ u.version <= version
        /\ stored[u.socket] <= u.version
        /\ \A n \in 1..Len(inbox[u.socket]) :
             inbox[u.socket][n].kind # "request" =>
               u.version <= inbox[u.socket][n].version
    BY <1>2, <2>1 DEF QueueOrdered, Resumed, Snapshot, Origin, Carries
  <2>5. InboxShift(u.socket)
    BY <2>3
  <2> HIDE DEF u
  <2>6. \A n \in 1..Len(inbox'[u.socket]) :
          inbox'[u.socket][n].kind # "request" =>
            u.version <= inbox'[u.socket][n].version
    BY <2>4, <2>5 DEF InboxShift
  <2> QED
    BY <2>4, <2>6 DEF u
<1>3. ASSUME NEW i \in 1..Len(ready'), NEW j \in 1..Len(ready'), i < j,
             task'[ready'[i]].pc = "ready", task'[ready'[j]].pc = "ready",
             task'[ready'[i]].socket = task'[ready'[j]].socket
      PROVE  task'[ready'[i]].version <= task'[ready'[j]].version
  <2>1. i + d < j + d
    BY <1>3
  <2> QED
    BY <1>1, <1>3, <2>1 DEF QueueOrdered, Resumed, Snapshot, Origin
<1> QED
  BY <1>2, <1>3 DEF QueueOrdered, Resumed, Snapshot, Origin, Carries

(* The agent sends a message, which carries its state of the moment if any. *)
LEMMA SendKeeps ==
  ASSUME TypeOK, InboxOrdered, QueueOrdered,
         NEW s \in Sockets, NEW m \in Message, Send(s, m),
         m.kind # "request" => m.version = version',
         version' \in Versions, version <= version',
         UNCHANGED <<stored, task, ready>>
  PROVE  InboxOrdered' /\ QueueOrdered'
<1> USE TypeParts
<1> DEFINE n == Len(inbox[s])
<1>1. /\ n \in Nat /\ Len(inbox'[s]) = n + 1
      /\ \A k \in 1..n : inbox'[s][k] = inbox[s][k]
      /\ inbox'[s][n + 1] = m
      /\ \A r \in Sockets \ {s} : inbox'[r] = inbox[r]
  BY DEF NetTypeOK, Send
<1>2. /\ version \in Int /\ version' \in Int
      /\ \A r \in Sockets : stored[r] \in Int
      /\ \A r \in Sockets : \A k \in 1..Len(inbox[r]) :
           inbox[r][k].version \in Int
  <2>1. Versions \subseteq Int
    BY DEF Versions
  <2>2. \A r \in Sockets : \A k \in 1..Len(inbox[r]) : inbox[r][k] \in Message
    BY ElementOfSeq DEF NetTypeOK
  <2> QED
    BY <2>1, <2>2, MessageParts DEF NetTypeOK, LoopTypeOK
<1> HIDE DEF n
<1>3. ASSUME NEW r \in Sockets, NEW k \in 1..Len(inbox'[r]),
             inbox'[r][k].kind # "request"
      PROVE  \/ /\ k \in 1..Len(inbox[r])
                /\ inbox'[r][k] = inbox[r][k]
             \/ /\ r = s /\ k = n + 1
                /\ inbox'[r][k].version = version'
  BY <1>1, <1>3 DEF n
<1>4. InboxOrdered'
  <2>1. ASSUME NEW r \in Sockets, NEW k \in 1..Len(inbox'[r]),
               inbox'[r][k].kind # "request"
        PROVE  /\ stored'[r] <= inbox'[r][k].version
               /\ inbox'[r][k].version <= version'
    <3>1. CASE k \in 1..Len(inbox[r]) /\ inbox'[r][k] = inbox[r][k]
      BY <1>2, <2>1, <3>1 DEF InboxOrdered, Carries
    <3>2. CASE r = s /\ k = n + 1 /\ inbox'[r][k].version = version'
      BY <1>2, <3>2 DEF InboxOrdered
    <3> QED
      BY <1>3, <2>1, <3>1, <3>2
  <2>2. ASSUME NEW r \in Sockets,
               NEW k \in 1..Len(inbox'[r]), NEW l \in 1..Len(inbox'[r]),
               inbox'[r][k].kind # "request", inbox'[r][l].kind # "request", k < l
        PROVE  inbox'[r][k].version <= inbox'[r][l].version
    <3>1. CASE l \in 1..Len(inbox[r]) /\ inbox'[r][l] = inbox[r][l]
      <4>1. k \in 1..Len(inbox[r]) /\ inbox'[r][k] = inbox[r][k]
        BY <1>1, <1>3, <2>2, <3>1 DEF n
      <4> QED
        BY <2>2, <3>1, <4>1 DEF InboxOrdered, Carries
    <3>2. CASE r = s /\ l = n + 1 /\ inbox'[r][l].version = version'
      BY <2>1, <2>2, <3>2
    <3> QED
      BY <1>3, <2>2, <3>1, <3>2
  <2>3. \A r \in Sockets : stored'[r] <= version'
    BY <1>2 DEF InboxOrdered
  <2> QED
    BY <2>1, <2>2, <2>3 DEF InboxOrdered, Carries
<1>5. QueueOrdered'
  <2>1. ASSUME NEW i \in 1..Len(ready), Resumed(i)
        PROVE  /\ Snapshot(i) <= version'
               /\ \A k \in 1..Len(inbox'[Origin(i)]) :
                    inbox'[Origin(i)][k].kind # "request" =>
                      Snapshot(i) <= inbox'[Origin(i)][k].version
    <3>1. ready[i] \in Tasks
      BY ElementOfSeq DEF TaskTypeOK
    <3>2. Origin(i) \in Sockets /\ Snapshot(i) \in Int
      BY <2>1, <3>1
      DEF TaskTypeOK, TaskState, Resumed, Origin, Snapshot, Versions
    <3>3. Snapshot(i) <= version'
      BY <1>2, <2>1, <3>2 DEF QueueOrdered
    <3> QED
      BY <1>3, <2>1, <3>2, <3>3 DEF QueueOrdered, Carries
  <2> QED
    BY <2>1 DEF QueueOrdered, Resumed, Snapshot, Origin, Carries
<1> QED
  BY <1>4, <1>5

(* An answer that is awaited moves from the head of the inbox to the end   *)
(* of the queue: it is not newer than what stays in the inbox, and not     *)
(* older than what is in the queue.                                        *)
LEMMA ResumeKeeps ==
  ASSUME TypeOK, QueueInv, InboxOrdered, QueueOrdered,
         NEW s \in Sockets, inbox[s] # <<>>, Take(s),
         NEW t \in Tasks, task[t].pc \notin {"new", "ready"},
         Head(inbox[s]).kind = "reply",
         task' = [task EXCEPT ![t] = Sync("ready", s, Head(inbox[s]).version)],
         ready' = Append(ready, t),
         UNCHANGED <<stored, version>>
  PROVE  QueueOrdered'
<1> USE TypeParts
<1> DEFINE n == Len(ready)
           v == Head(inbox[s]).version
<1>1. /\ n \in Nat /\ Len(ready') = n + 1 /\ ready'[n + 1] = t
      /\ \A i \in 1..n : ready'[i] = ready[i] /\ ready[i] \in Tasks
  BY DEF TaskTypeOK
<1>2. /\ task'[t] = [pc |-> "ready", socket |-> s, version |-> v]
      /\ \A i \in 1..n : task'[ready'[i]] = task[ready[i]]
  BY <1>1 DEF QueueInv, TaskTypeOK, Sync
<1>3. /\ 1 \in 1..Len(inbox[s]) /\ inbox[s][1] = Head(inbox[s])
      /\ \A k \in 1..Len(inbox'[s]) :
           /\ k + 1 \in 1..Len(inbox[s]) /\ 1 < k + 1
           /\ inbox'[s][k] = inbox[s][k + 1]
      /\ \A r \in Sockets \ {s} : inbox'[r] = inbox[r]
  <2>1. inbox[s] \in Seq(Message) /\ inbox'[s] = Tail(inbox[s])
    BY DEF NetTypeOK, Take
  <2>2. /\ Len(inbox[s]) \in Nat \ {0}
        /\ Len(inbox'[s]) = Len(inbox[s]) - 1
        /\ \A k \in 1..Len(inbox'[s]) : inbox'[s][k] = inbox[s][k + 1]
    BY <2>1, EmptySeq, HeadTailProperties
  <2>3. \A r \in Sockets \ {s} : inbox'[r] = inbox[r]
    BY DEF NetTypeOK, Take
  <2> QED
    BY <2>1, <2>2, <2>3
<1>4. /\ stored[s] <= v /\ v <= version
      /\ \A k \in 1..Len(inbox'[s]) :
           inbox'[s][k].kind # "request" => v <= inbox'[s][k].version
  <2>1. Carries(s, 1) /\ inbox[s][1].version = v
    BY <1>3 DEF Carries
  <2>2. stored[s] <= v /\ v <= version
    BY <1>3, <2>1 DEF InboxOrdered
  <2>3. ASSUME NEW k \in 1..Len(inbox'[s]), inbox'[s][k].kind # "request"
        PROVE  v <= inbox'[s][k].version
    <3>1. k + 1 \in 1..Len(inbox[s]) /\ 1 < k + 1 /\ Carries(s, k + 1)
      BY <1>3, <2>3 DEF Carries
    <3>2. v <= inbox[s][k + 1].version
      BY <1>3, <2>1, <3>1 DEF InboxOrdered
    <3> QED
      BY <1>3, <3>2
  <2> QED
    BY <2>2, <2>3
<1>5. \A i \in 1..n : Resumed(i) /\ Origin(i) = s => Snapshot(i) <= v
  BY <1>3 DEF QueueOrdered, Carries
<1> HIDE DEF n, v
<1>6. ASSUME NEW i \in 1..Len(ready'), task'[ready'[i]].pc = "ready"
      PROVE  LET u == task'[ready'[i]] IN
             /\ u.version <= version'
             /\ stored'[u.socket] <= u.version
             /\ \A k \in 1..Len(inbox'[u.socket]) :
                  inbox'[u.socket][k].kind # "request" =>
                    u.version <= inbox'[u.socket][k].version
  <2> DEFINE u == task'[ready'[i]]
  <2>1. CASE i = n + 1
    <3>1. u.version = v /\ u.socket = s
      BY <2>1, <1>1, <1>2
    <3> HIDE DEF u
    <3>2. /\ u.version <= version'
          /\ stored'[u.socket] <= u.version
          /\ \A k \in 1..Len(inbox'[u.socket]) :
               inbox'[u.socket][k].kind # "request" =>
                 u.version <= inbox'[u.socket][k].version
      BY <3>1, <1>4
    <3> QED
      BY <3>2 DEF u
  <2>2. CASE i \in 1..n
    <3>1. u = task[ready[i]] /\ ready[i] \in Tasks
      BY <2>2, <1>1, <1>2
    <3>2. u.socket \in Sockets
      BY <1>6, <3>1 DEF TaskTypeOK
    <3>3. /\ u.version <= version
          /\ stored[u.socket] <= u.version
          /\ \A k \in 1..Len(inbox[u.socket]) :
               inbox[u.socket][k].kind # "request" =>
                 u.version <= inbox[u.socket][k].version
      BY <1>6, <2>2, <3>1
      DEF QueueOrdered, Resumed, Snapshot, Origin, Carries, n
    <3> HIDE DEF u
    <3>4. \A k \in 1..Len(inbox'[u.socket]) :
            inbox'[u.socket][k].kind # "request" =>
              u.version <= inbox'[u.socket][k].version
      <4>1. CASE u.socket = s
        <5> SUFFICES ASSUME NEW k \in 1..Len(inbox'[s]),
                            inbox'[s][k].kind # "request"
                     PROVE  u.version <= inbox'[s][k].version
          BY <4>1
        <5>1. k + 1 \in 1..Len(inbox[s]) /\ inbox'[s][k] = inbox[s][k + 1]
          BY <1>3
        <5> QED
          BY <4>1, <5>1, <3>3
      <4>2. CASE u.socket # s
        BY <4>2, <3>2, <3>3, <1>3
      <4> QED
        BY <4>1, <4>2
    <3> QED
      BY <3>3, <3>4 DEF u
  <2>3. i = n + 1 \/ i \in 1..n
    BY <1>1
  <2> QED
    BY <2>1, <2>2, <2>3
<1>7. ASSUME NEW i \in 1..Len(ready'), NEW j \in 1..Len(ready'), i < j,
             task'[ready'[i]].pc = "ready", task'[ready'[j]].pc = "ready",
             task'[ready'[i]].socket = task'[ready'[j]].socket
      PROVE  task'[ready'[i]].version <= task'[ready'[j]].version
  <2>1. i \in 1..n
    BY <1>1, <1>7
  <2>2. CASE j = n + 1
    BY <1>1, <1>2, <1>5, <1>7, <2>1, <2>2 DEF Resumed, Origin, Snapshot
  <2>3. CASE j \in 1..n
    BY <1>2, <1>7, <2>1, <2>3
    DEF QueueOrdered, Resumed, Snapshot, Origin, n
  <2> QED
    BY <1>1, <2>2, <2>3
<1> QED
  BY <1>6, <1>7 DEF QueueOrdered, Resumed, Snapshot, Origin, Carries

(* The snapshot at the head of the queue is stored: what is stored already *)
(* is not newer, what is behind it is not older.                           *)
LEMMA StoreKeeps ==
  ASSUME TypeOK, QueueInv, InboxOrdered, QueueOrdered,
         NEW t \in Tasks, StoreSnapshot(t)
  PROVE  /\ InboxOrdered' /\ QueueOrdered'
         /\ \A s \in Sockets : stored'[s] >= stored[s]
<1> USE TypeParts
<1> DEFINE s == task[t].socket
           v == task[t].version
<1>1. /\ 1 \in 1..Len(ready) /\ ready[1] = t /\ Resumed(1)
      /\ s \in Sockets /\ v \in Versions
  <2>1. ready # <<>> /\ Head(ready) = t /\ task[t].pc = "ready"
    BY DEF StoreSnapshot, Runs
  <2>2. Len(ready) \in Nat \ {0} /\ ready[1] = t
    BY <2>1, EmptySeq DEF TaskTypeOK
  <2>3. s \in Sockets /\ v \in Versions
    BY <2>1 DEF TaskTypeOK, TaskState
  <2> QED
    BY <2>1, <2>2, <2>3 DEF Resumed
<1>2. /\ v <= version /\ stored[s] <= v
      /\ \A n \in 1..Len(inbox[s]) : Carries(s, n) => v <= inbox[s][n].version
  BY <1>1 DEF QueueOrdered, Snapshot, Origin
<1>3. /\ stored'[s] = v
      /\ \A r \in Sockets \ {s} : stored'[r] = stored[r]
      /\ UNCHANGED <<inbox, version>>
  BY <1>1 DEF StoreSnapshot, AgentVars, LoopTypeOK
<1>4. \A i \in 1..Len(ready') :
        /\ i + 1 \in 1..Len(ready) /\ 1 < i + 1
        /\ ready'[i] = ready[i + 1]
        /\ ready[i + 1] \in Tasks
        /\ task'[ready'[i]] = task[ready[i + 1]]
  <2>1. /\ ready # <<>> /\ Head(ready) = t /\ ready' = Tail(ready)
        /\ \A u \in Tasks \ {t} : task'[u] = task[u]
    BY RunDequeues DEF Run
  <2>2. \A i \in 1..Len(ready') :
          /\ i + 1 \in 1..Len(ready)
          /\ ready'[i] = ready[i + 1] /\ ready'[i] # t
    BY <2>1, DequeueKeeps
  <2>3. \A i \in 1..Len(ready) : ready[i] \in Tasks
    BY ElementOfSeq DEF TaskTypeOK
  <2> QED
    BY <2>1, <2>2, <2>3
<1>5. \A r \in Sockets : stored[r] \in Int
  BY DEF LoopTypeOK, Versions
<1>6. \A r \in Sockets : stored'[r] >= stored[r]
  BY <1>2, <1>3, <1>5
<1> HIDE DEF s, v
<1>7. InboxOrdered'
  <2>1. ASSUME NEW r \in Sockets
        PROVE  /\ stored'[r] <= version
               /\ \A n \in 1..Len(inbox[r]) :
                    Carries(r, n) => stored'[r] <= inbox[r][n].version
    <3>1. CASE r = s
      BY <3>1, <1>2, <1>3
    <3>2. CASE r # s
      BY <3>2, <1>3 DEF InboxOrdered
    <3> QED
      BY <3>1, <3>2
  <2> QED
    BY <2>1, <1>3 DEF InboxOrdered, Carries
<1>8. QueueOrdered'
  <2>1. ASSUME NEW i \in 1..Len(ready'), task'[ready'[i]].pc = "ready"
        PROVE  /\ task'[ready'[i]].version <= version
               /\ stored'[task'[ready'[i]].socket] <= task'[ready'[i]].version
               /\ \A n \in 1..Len(inbox[task'[ready'[i]].socket]) :
                    inbox[task'[ready'[i]].socket][n].kind # "request" =>
                      task'[ready'[i]].version
                        <= inbox[task'[ready'[i]].socket][n].version
    <3>1. /\ Resumed(i + 1) /\ i + 1 \in 1..Len(ready)
          /\ task'[ready'[i]].version = Snapshot(i + 1)
          /\ task'[ready'[i]].socket = Origin(i + 1)
          /\ Origin(i + 1) \in Sockets
      <4>1. /\ i + 1 \in 1..Len(ready) /\ ready[i + 1] \in Tasks
            /\ task'[ready'[i]] = task[ready[i + 1]]
        BY <1>4
      <4>2. task[ready[i + 1]].pc = "ready"
        BY <2>1, <4>1
      <4>3. task[ready[i + 1]].socket \in Sockets
        BY <4>1, <4>2 DEF TaskTypeOK
      <4> QED
        BY <4>1, <4>2, <4>3 DEF Resumed, Snapshot, Origin
    <3>2. stored'[Origin(i + 1)] <= Snapshot(i + 1)
      <4>1. CASE Origin(i + 1) = s
        <5>1. Origin(1) = s /\ Snapshot(1) = v
          BY <1>1 DEF Origin, Snapshot, s, v
        <5>2. v <= Snapshot(i + 1)
          BY <1>1, <1>4, <3>1, <4>1, <5>1 DEF QueueOrdered
        <5> QED
          BY <1>3, <4>1, <5>2
      <4>2. CASE Origin(i + 1) # s
        BY <1>3, <3>1, <4>2 DEF QueueOrdered
      <4> QED
        BY <4>1, <4>2
    <3> QED
      BY <3>1, <3>2 DEF QueueOrdered, Carries
  <2>2. ASSUME NEW i \in 1..Len(ready'), NEW j \in 1..Len(ready'), i < j,
               task'[ready'[i]].pc = "ready", task'[ready'[j]].pc = "ready",
               task'[ready'[i]].socket = task'[ready'[j]].socket
        PROVE  task'[ready'[i]].version <= task'[ready'[j]].version
    <3>1. /\ i + 1 \in 1..Len(ready) /\ j + 1 \in 1..Len(ready)
          /\ i + 1 < j + 1
          /\ task'[ready'[i]] = task[ready[i + 1]]
          /\ task'[ready'[j]] = task[ready[j + 1]]
      BY <1>4, <2>2
    <3>2. Resumed(i + 1) /\ Resumed(j + 1) /\ Origin(i + 1) = Origin(j + 1)
      BY <2>2, <3>1 DEF Resumed, Origin
    <3>3. Snapshot(i + 1) <= Snapshot(j + 1)
      BY <3>1, <3>2 DEF QueueOrdered
    <3> QED
      BY <3>1, <3>3 DEF Snapshot
  <2> QED
    BY <2>1, <2>2, <1>3 DEF QueueOrdered, Resumed, Snapshot, Origin, Carries
<1> QED
  BY <1>6, <1>7, <1>8

-----------------------------------------------------------------------------
OrderInv == QueueInv /\ InboxOrdered /\ QueueOrdered

(* The steps that neither send, resume nor store are shifts of the inbox   *)
(* and of the queue.                                                       *)
LEMMA LoopShifts ==
  ASSUME TypeOK, NEW s \in Sockets, Loop(s)
  PROVE  (\A r \in Sockets : InboxShift(r)) /\ UNCHANGED <<stored, version>>
<1> USE TypeParts
<1>1. \/ inbox' = inbox
      \/ inbox[s] # <<>> /\ inbox' = [inbox EXCEPT ![s] = Tail(@)]
      \/ inbox' = [inbox EXCEPT ![s] = <<>>]
  BY DEF Loop, Receive, Register, RegisterFails, ReceiveReply, ReceiveEvent,
         ReceiveRequest, ReceiveFails, ReceiveDisconnect, DisconnectFails,
         AckSent, AnswerSent, HandlerSendFails, Take, AgentVars
<1>2. UNCHANGED <<stored, version>>
  BY DEF Loop, Receive, Register, RegisterFails, ReceiveReply, ReceiveEvent,
         ReceiveRequest, ReceiveFails, ReceiveDisconnect, DisconnectFails,
         AckSent, AnswerSent, HandlerSendFails, AgentVars
<1>3. ASSUME NEW r \in Sockets, inbox'[r] = inbox[r] PROVE InboxShift(r)
  <2>1. \A n \in 1..Len(inbox'[r]) :
          n + 0 \in 1..Len(inbox[r]) /\ inbox'[r][n] = inbox[r][n + 0]
    BY <1>3
  <2> QED
    BY <2>1 DEF InboxShift
<1>4. CASE inbox' = inbox
  BY <1>2, <1>3, <1>4
<1>5. CASE inbox[s] # <<>> /\ inbox' = [inbox EXCEPT ![s] = Tail(@)]
  <2>1. /\ inbox[s] \in Seq(Message) /\ inbox'[s] = Tail(inbox[s])
        /\ \A r \in Sockets \ {s} : inbox'[r] = inbox[r]
    BY <1>5 DEF NetTypeOK
  <2>2. \A n \in 1..Len(inbox'[s]) :
          n + 1 \in 1..Len(inbox[s]) /\ inbox'[s][n] = inbox[s][n + 1]
    <3>1. Len(inbox[s]) \in Nat \ {0}
      BY <1>5, <2>1, EmptySeq
    <3>2. /\ Len(inbox'[s]) = Len(inbox[s]) - 1
          /\ \A n \in 1..Len(inbox'[s]) : inbox'[s][n] = inbox[s][n + 1]
      <4>1. /\ Len(Tail(inbox[s])) = Len(inbox[s]) - 1
            /\ \A n \in 1..Len(Tail(inbox[s])) :
                 Tail(inbox[s])[n] = inbox[s][n + 1]
        BY <1>5, <2>1, HeadTailProperties
      <4> QED
        BY <2>1, <4>1
    <3>3. ASSUME NEW n \in 1..Len(inbox'[s])
          PROVE  n + 1 \in 1..Len(inbox[s]) /\ inbox'[s][n] = inbox[s][n + 1]
      <4>1. n \in Nat /\ 1 <= n /\ n <= Len(inbox[s]) - 1
        BY <3>1, <3>2
      <4> QED
        BY <3>1, <3>2, <4>1
    <3> QED
      BY <3>3
  <2>3. InboxShift(s)
    BY <2>2 DEF InboxShift
  <2> QED
    BY <1>2, <1>3, <2>1, <2>3
<1>6. CASE inbox' = [inbox EXCEPT ![s] = <<>>]
  <2>1. /\ Len(inbox'[s]) = 0
        /\ \A r \in Sockets \ {s} : inbox'[r] = inbox[r]
    BY <1>6, EmptySeq DEF NetTypeOK
  <2>2. InboxShift(s)
    BY <2>1 DEF InboxShift
  <2> QED
    BY <1>2, <1>3, <2>1, <2>2
<1> QED
  BY <1>1, <1>4, <1>5, <1>6

(* A task that runs and stores nothing leaves the queue, or the queue ends *)
(* with the process.                                                       *)
LEMMA RunShifts ==
  ASSUME TypeOK, QueueInv, NEW t \in Tasks, Run(t)
  PROVE  /\ QueueShift
         /\ \A r \in Sockets : InboxShift(r)
         /\ StoreSnapshot(t) \/ UNCHANGED stored
         /\ UNCHANGED version
<1> USE TypeParts
<1>1. /\ ready # <<>> /\ Head(ready) = t /\ ready' = Tail(ready)
      /\ \A u \in Tasks \ {t} : task'[u] = task[u]
  BY RunDequeues
<1>2. \A i \in 1..Len(ready') :
        /\ i + 1 \in 1..Len(ready)
        /\ ready'[i] = ready[i + 1] /\ ready'[i] # t
  BY <1>1, DequeueKeeps
<1>3. \A i \in 1..Len(ready) : ready[i] \in Tasks
  BY ElementOfSeq DEF TaskTypeOK
<1>4. QueueShift
  <2>1. \A i \in 1..Len(ready') : task'[ready'[i]] = task[ready[i + 1]]
    BY <1>1, <1>2, <1>3
  <2> QED
    BY <2>1, <1>2 DEF QueueShift
<1>5. UNCHANGED <<inbox, version>> /\ (StoreSnapshot(t) \/ UNCHANGED stored)
  BY DEF Run, RequestSnapshot, RequestFails, StoreSnapshot, StoreFails, AgentVars
<1>6. \A r \in Sockets : \A n \in 1..Len(inbox'[r]) :
        n + 0 \in 1..Len(inbox[r]) /\ inbox'[r][n] = inbox[r][n + 0]
  BY <1>5
<1> QED
  BY <1>4, <1>5, <1>6 DEF InboxShift

LEMMA SpawnShifts ==
  ASSUME TypeOK, QueueInv, NEW s \in Sockets, Spawn(s)
  PROVE  QueueShift
<1> USE TypeParts
<1>1. PICK t \in Tasks : /\ task[t].pc = "unused"
                         /\ task' = [task EXCEPT ![t] = Sync("new", s, 0)]
                         /\ ready' = Append(ready, t)
  BY SpawnEnqueues
<1>2. /\ Len(ready) \in Nat /\ Len(ready') = Len(ready) + 1
      /\ \A i \in 1..Len(ready) : ready'[i] = ready[i] /\ ready[i] \in Tasks
      /\ ready'[Len(ready) + 1] = t
  BY <1>1 DEF TaskTypeOK
<1>3. \A i \in 1..Len(ready) : task'[ready'[i]] = task[ready[i]]
  BY <1>1, <1>2 DEF QueueInv, TaskTypeOK
<1>4. task'[t].pc = "new"
  BY <1>1 DEF TaskTypeOK, Sync
<1>5. ASSUME NEW i \in 1..Len(ready'), task'[ready'[i]].pc = "ready"
      PROVE  /\ i + 0 \in 1..Len(ready) /\ ready'[i] = ready[i + 0]
             /\ task'[ready'[i]] = task[ready[i + 0]]
  <2>1. i # Len(ready) + 1
    BY <1>2, <1>4, <1>5
  <2> QED
    BY <2>1, <1>2, <1>3
<1> QED
  BY <1>5 DEF QueueShift

LEMMA SameQueueShifts ==
  ASSUME UNCHANGED <<task, ready>>
  PROVE  QueueShift
<1>1. \A i \in 1..Len(ready') :
        /\ i + 0 \in 1..Len(ready) /\ ready'[i] = ready[i + 0]
        /\ task'[ready'[i]] = task[ready[i + 0]]
  OBVIOUS
<1> QED
  BY <1>1 DEF QueueShift

(* The agent and the network send one message or none. *)
LEMMA AgentOrder ==
  ASSUME TypeOK, OrderInv, AgentChange \/ \E s \in Sockets : Agent(s)
  PROVE  OrderInv' /\ UNCHANGED stored
<1> USE TypeParts DEF OrderInv
<1>1. UNCHANGED <<stored, task, ready>> /\ version' \in Versions
  BY AgentTyped DEF serverVars, NetTypeOK
<1>2. version <= version'
  <2>1. version \in Int
    BY DEF NetTypeOK, Versions
  <2>2. version' = version \/ version' = version + 1
    <3>1. CASE AgentChange
      BY <3>1 DEF AgentChange
    <3>2. ASSUME NEW s \in Sockets, Agent(s) PROVE version' = version
      BY <3>2
      DEF Agent, AgentConnect, AgentAnswer, AgentRepeat, AgentRequest, Drop
    <3> QED
      BY <3>1, <3>2
  <2>3. version + 1 \in Int /\ version <= version + 1 /\ version <= version
    BY <2>1
  <2> QED
    BY <2>2, <2>3
<1>3. QueueInv'
  BY <1>1 DEF QueueInv
<1>4. ASSUME NEW s \in Sockets, NEW m \in Message, Send(s, m),
             m.kind # "request" => m.version = version'
      PROVE  OrderInv'
  BY <1>1, <1>2, <1>3, <1>4, SendKeeps
<1>5. ASSUME UNCHANGED inbox PROVE OrderInv'
  <2>1. version \in Int /\ version' \in Int
    BY <1>1 DEF NetTypeOK, Versions
  <2>2. \A s \in Sockets : stored[s] \in Int
    <3>1. stored \in [Sockets -> Versions]
      BY DEF LoopTypeOK
    <3>2. Versions \subseteq Int
      BY DEF Versions
    <3> QED
      BY <3>1, <3>2
  <2>3. \A s \in Sockets : \A n \in 1..Len(inbox[s]) :
          inbox[s][n].version \in Int
    <3>1. \A s \in Sockets : \A n \in 1..Len(inbox[s]) : inbox[s][n] \in Message
      BY ElementOfSeq DEF NetTypeOK
    <3> QED
      BY <3>1, MessageParts DEF Versions
  <2>4. \A i \in 1..Len(ready) : Snapshot(i) \in Int
    <3>1. \A i \in 1..Len(ready) : ready[i] \in Tasks
      BY ElementOfSeq DEF TaskTypeOK
    <3> QED
      BY <3>1 DEF TaskTypeOK, TaskState, Snapshot, Versions
  <2>5. InboxOrdered'
    BY <1>1, <1>2, <1>5, <2>1, <2>2, <2>3 DEF InboxOrdered, Carries
  <2>6. QueueOrdered'
    <3>1. \A i \in 1..Len(ready) : Resumed(i) => Snapshot(i) <= version'
      BY <1>2, <2>1, <2>4 DEF QueueOrdered
    <3> QED
      BY <1>1, <1>5, <3>1
      DEF QueueOrdered, Resumed, Snapshot, Origin, Carries
  <2> QED
    BY <1>3, <2>5, <2>6
<1>6. CASE AgentChange
  <2>1. Event(version') \in Message /\ Event(version').version = version'
    BY <1>1, MessagesTyped DEF Event
  <2> QED
    BY <1>1, <1>4, <1>5, <1>6, <2>1 DEF AgentChange
<1>7. ASSUME NEW s \in Sockets, NEW t \in Tasks,
             AgentAnswer(s, t) \/ AgentRepeat(s, t)
      PROVE  OrderInv'
  <2>1. Send(s, Reply(t, version)) /\ version' = version
    BY <1>7 DEF AgentAnswer, AgentRepeat
  <2>2. Reply(t, version) \in Message /\ Reply(t, version).version = version'
    BY <1>1, <2>1, MessagesTyped DEF Reply
  <2> QED
    BY <1>4, <2>1, <2>2
<1>8. ASSUME NEW s \in Sockets, AgentRequest(s) PROVE OrderInv'
  BY <1>4, <1>8, MessagesTyped DEF AgentRequest, Request
<1>9. ASSUME NEW s \in Sockets, AgentConnect(s) \/ Drop(s) PROVE OrderInv'
  BY <1>5, <1>9 DEF AgentConnect, Drop
<1> QED
  BY <1>1, <1>6, <1>7, <1>8, <1>9 DEF Agent

(* No step of the service lets a snapshot overtake another one. *)
LEMMA ServerOrder ==
  ASSUME TypeOK, OrderInv, QueueInv',
         \/ \E s \in Sockets : Loop(s)
         \/ \E t \in Tasks : Run(t)
         \/ Restart
         \/ UNCHANGED vars
  PROVE  OrderInv' /\ \A s \in Sockets : stored'[s] >= stored[s]
<1> USE TypeParts DEF OrderInv
<1>1. \A s \in Sockets : stored[s] >= stored[s]
  BY DEF LoopTypeOK, Versions
<1>2. ASSUME \A s \in Sockets : InboxShift(s), QueueShift,
             UNCHANGED <<stored, version>>
      PROVE  OrderInv' /\ \A s \in Sockets : stored'[s] >= stored[s]
  BY <1>1, <1>2, InboxShiftKeeps, ShiftsKeepQueue
<1>3. ASSUME NEW s \in Sockets, Loop(s)
      PROVE  OrderInv' /\ \A r \in Sockets : stored'[r] >= stored[r]
  <2>1. /\ \A r \in Sockets : InboxShift(r)
        /\ UNCHANGED <<stored, version>>
    BY <1>3, LoopShifts
  <2>2. CASE Spawn(s)
    BY <1>2, <2>1, <2>2, SpawnShifts
  <2>3. CASE UNCHANGED <<task, ready>>
    BY <1>2, <2>1, <2>3, SameQueueShifts
  <2>4. CASE ReceiveReply(s)
    <3> DEFINE m == Head(inbox[s])
    <3>1. /\ inbox[s] # <<>> /\ Take(s) /\ m.kind = "reply"
          /\ m \in Message /\ Resolve(s, m)
      BY <2>4, TakeTyped DEF ReceiveReply
    <3>2. m.task \in Tasks
      BY <3>1, MessageParts
    <3>3. CASE /\ Awaited(m.task, s)
               /\ task' = [task EXCEPT ![m.task] = Sync("ready", s, m.version)]
               /\ ready' = Append(ready, m.task)
      <4>1. task[m.task].pc = "waiting"
        BY <3>3 DEF Awaited
      <4>2. QueueOrdered'
        BY <2>1, <3>1, <3>2, <3>3, <4>1, ResumeKeeps
      <4>3. InboxOrdered'
        BY <2>1, InboxShiftKeeps
      <4> QED
        BY <1>1, <2>1, <4>2, <4>3
    <3> QED
      BY <2>3, <3>1, <3>3 DEF Resolve
  <2> QED
    BY <1>3, <2>2, <2>3, <2>4, LoopQueue
<1>4. ASSUME NEW t \in Tasks, Run(t)
      PROVE  OrderInv' /\ \A s \in Sockets : stored'[s] >= stored[s]
  <2>1. CASE StoreSnapshot(t)
    BY <2>1, StoreKeeps
  <2>2. CASE UNCHANGED stored
    BY <1>2, <1>4, <2>2, RunShifts
  <2> QED
    BY <1>4, <2>1, <2>2, RunShifts
<1>5. CASE Restart
  <2>1. /\ ready' = <<>> /\ \A s \in Sockets : inbox'[s] = <<>>
        /\ UNCHANGED <<stored, version>>
    BY <1>5 DEF Restart
  <2>2. QueueShift /\ \A s \in Sockets : InboxShift(s)
    BY <2>1 DEF QueueShift, InboxShift
  <2> QED
    BY <1>2, <2>1, <2>2
<1>6. CASE UNCHANGED vars
  <2>1. UNCHANGED <<stored, version, inbox, task, ready>>
    BY <1>6 DEF vars, serverVars
  <2>2. \A s \in Sockets : \A n \in 1..Len(inbox'[s]) :
          n + 0 \in 1..Len(inbox[s]) /\ inbox'[s][n] = inbox[s][n + 0]
    BY <2>1
  <2> QED
    BY <1>2, <2>1, <2>2, SameQueueShifts DEF InboxShift
<1> QED
  BY <1>3, <1>4, <1>5, <1>6

(* At every point of the way nothing overtakes.                            *)
LEMMA OrderInvariant == Spec => []OrderInv
<1>1. Init => OrderInv
  <2> SUFFICES ASSUME Init PROVE OrderInv
    OBVIOUS
  <2>1. /\ ready = <<>> /\ version = 0
        /\ \A s \in Sockets : inbox[s] = <<>> /\ stored[s] = 0
    BY DEF Init
  <2> QED
    BY <2>1 DEF OrderInv, QueueInv, InboxOrdered, QueueOrdered
<1>2. TypeOK /\ OrderInv /\ QueueInv' /\ [Next]_vars => OrderInv'
  <2> SUFFICES ASSUME TypeOK, OrderInv, QueueInv', [Next]_vars
               PROVE  OrderInv'
    OBVIOUS
  <2>1. CASE AgentChange \/ \E s \in Sockets : Agent(s)
    BY <2>1, AgentOrder
  <2> QED
    BY <2>1, ServerOrder DEF Next
<1> QED
  BY <1>1, <1>2, TypeCorrect, QueueInvariant, PTL DEF Spec

-----------------------------------------------------------------------------
(* A change on its way from the inbox to its acknowledgement is not older  *)
(* than the last one acknowledged, and not newer than what is behind it.   *)
AcksOrdered(s) ==
  /\ acked[s] <= version
  /\ \A n \in 1..Len(inbox[s]) : Carries(s, n) => acked[s] <= inbox[s][n].version
  /\ loop[s].pc = "acking" =>
       /\ acked[s] <= loop[s].version /\ loop[s].version <= version
       /\ \A n \in 1..Len(inbox[s]) :
            Carries(s, n) => loop[s].version <= inbox[s][n].version
AckInv == \A s \in Sockets : AcksOrdered(s)

(* All that is compared is numbers.                                        *)
LEMMA VersionsAreNumbers ==
  ASSUME TypeOK, NEW s \in Sockets
  PROVE  /\ version \in Int /\ acked[s] \in Int /\ stored[s] \in Int
         /\ loop[s].version \in Int
         /\ \A n \in 1..Len(inbox[s]) : inbox[s][n].version \in Int
<1>1. Versions \subseteq Int
  BY DEF Versions
<1>2. \A n \in 1..Len(inbox[s]) : inbox[s][n].version \in Versions
  BY ElementOfSeq, MessageParts DEF TypeOK
<1> QED
  BY <1>1, <1>2 DEF TypeOK, LoopState

(* A socket whose loop acknowledges nothing new, and whose inbox loses     *)
(* messages.                                                               *)
LEMMA ShiftKeepsAcks ==
  ASSUME NEW s \in Sockets, AcksOrdered(s), InboxShift(s),
         acked'[s] = acked[s], version' = version,
         loop'[s].pc = "acking" => loop'[s] = loop[s]
  PROVE  AcksOrdered(s)'
BY DEF AcksOrdered, InboxShift, Carries

(* What the agent sends is its state of the moment, and behind the rest.   *)
LEMMA AgentSends ==
  ASSUME TypeOK, AgentChange \/ \E r \in Sockets : Agent(r), NEW s \in Sockets
  PROVE  /\ version <= version'
         /\ \A n \in 1..Len(inbox'[s]) :
              \/ n \in 1..Len(inbox[s]) /\ inbox'[s][n] = inbox[s][n]
              \/ inbox'[s][n].kind # "request" => inbox'[s][n].version = version'
<1> DEFINE Extended ==
      \A n \in 1..Len(inbox'[s]) :
        \/ n \in 1..Len(inbox[s]) /\ inbox'[s][n] = inbox[s][n]
        \/ inbox'[s][n].kind # "request" => inbox'[s][n].version = version'
<1>1. version \in Int /\ inbox[s] \in Seq(Message)
  BY VersionsAreNumbers DEF TypeOK
<1>2. ASSUME NEW r \in Sockets, NEW m \in Message, Send(r, m),
             m.kind # "request" => m.version = version'
      PROVE  Extended
  <2>1. inbox'[s] = IF s = r THEN Append(inbox[s], m) ELSE inbox[s]
    BY <1>2 DEF Send, TypeOK
  <2> QED
    BY <1>1, <1>2, <2>1
<1>3. UNCHANGED inbox => Extended
  OBVIOUS
<1>4. CASE AgentChange
  <2>1. version' = version + 1 /\ version' \in Versions
    BY <1>4, AgentTyped DEF AgentChange, NetTypeOK
  <2>2. Event(version') \in Message /\ Event(version').version = version'
    BY <2>1, MessagesTyped DEF Event
  <2>3. Extended
    BY <1>2, <1>3, <1>4, <2>2 DEF AgentChange
  <2> QED
    BY <1>1, <2>1, <2>3
<1>5. ASSUME NEW r \in Sockets, Agent(r) PROVE version' = version /\ Extended
  <2>1. version' = version
    BY <1>5 DEF Agent, AgentConnect, AgentAnswer, AgentRepeat, AgentRequest, Drop
  <2>2. ASSUME NEW t \in Tasks, AgentAnswer(r, t) \/ AgentRepeat(r, t)
        PROVE  Extended
    <3>1. Reply(t, version) \in Message /\ Reply(t, version).version = version'
      BY <2>1, MessagesTyped DEF TypeOK, Reply
    <3> QED
      BY <1>2, <2>2, <3>1 DEF AgentAnswer, AgentRepeat
  <2>3. CASE AgentRequest(r)
    BY <1>2, <2>3, MessagesTyped DEF AgentRequest, Request
  <2>4. CASE AgentConnect(r) \/ Drop(r)
    BY <1>3, <2>4 DEF AgentConnect, Drop
  <2> QED
    BY <1>5, <2>1, <2>2, <2>3, <2>4 DEF Agent
<1> QED
  BY <1>1, <1>4, <1>5

(* Acknowledgements follow the agent's changes.                            *)
LEMMA AckInvariant == Spec => []AckInv
<1>1. Init => AckInv
  <2> SUFFICES ASSUME Init, NEW s \in Sockets PROVE AcksOrdered(s)
    BY DEF AckInv
  <2>1. version = 0 /\ acked[s] = 0 /\ inbox[s] = <<>> /\ loop[s].pc = "none"
    BY DEF Init, At
  <2> QED
    BY <2>1 DEF AcksOrdered
<1>2. TypeOK /\ OrderInv /\ AckInv /\ [Next]_vars => AckInv'
  <2> SUFFICES ASSUME TypeOK, OrderInv, AckInv, [Next]_vars, NEW s \in Sockets
               PROVE  AcksOrdered(s)'
    BY DEF AckInv
  <2>1. AcksOrdered(s)
    BY DEF AckInv
  <2>2. CASE AgentChange \/ \E r \in Sockets : Agent(r)
    <3>1. UNCHANGED <<acked, loop>>
      BY <2>2, AgentTyped DEF serverVars
    <3>2. /\ version <= version' /\ version' \in Int
          /\ \A n \in 1..Len(inbox'[s]) :
               \/ n \in 1..Len(inbox[s]) /\ inbox'[s][n] = inbox[s][n]
               \/ inbox'[s][n].kind # "request" => inbox'[s][n].version = version'
      BY <2>2, AgentSends, AgentTyped DEF NetTypeOK, Versions
    <3>3. /\ version \in Int /\ acked[s] \in Int /\ loop[s].version \in Int
          /\ acked[s] <= version
      BY <2>1, VersionsAreNumbers DEF AcksOrdered
    <3>4. acked[s] <= version'
      BY <3>2, <3>3
    <3>5. loop[s].pc = "acking" => loop[s].version <= version'
      BY <2>1, <3>2, <3>3 DEF AcksOrdered
    <3>6. \A n \in 1..Len(inbox'[s]) : inbox'[s][n].kind # "request" =>
            /\ acked[s] <= inbox'[s][n].version
            /\ loop[s].pc = "acking" => loop[s].version <= inbox'[s][n].version
      BY <2>1, <3>2, <3>4, <3>5 DEF AcksOrdered, Carries
    <3> QED
      BY <2>1, <3>1, <3>4, <3>5, <3>6 DEF AcksOrdered, Carries
  <2>3. ASSUME NEW r \in Sockets, Loop(r) PROVE AcksOrdered(s)'
    <3>1. InboxShift(s) /\ version' = version
      BY <2>3, LoopShifts
    <3>2. CASE s # r
      <4>1. acked'[s] = acked[s] /\ loop'[s] = loop[s]
        BY <2>3, <3>2
        DEF Loop, Receive, Register, RegisterFails, ReceiveReply, ReceiveEvent,
            ReceiveRequest, ReceiveFails, ReceiveDisconnect, DisconnectFails,
            AckSent, AnswerSent, HandlerSendFails, NextReceive, SetLoop, TypeOK
      <4> QED
        BY <2>1, <3>1, <4>1, ShiftKeepsAcks
    <3>3. CASE s = r /\ AckSent(r)
      <4>1. /\ acked'[s] = loop[s].version /\ loop[s].pc = "acking"
            /\ loop'[s].pc # "acking" /\ UNCHANGED <<inbox, version>>
        BY <3>3 DEF AckSent, NextReceive, SetLoop, At, AgentVars, TypeOK
      <4> QED
        BY <2>1, <4>1 DEF AcksOrdered, Carries
    <3>4. CASE s = r /\ ReceiveEvent(r)
      <4>1. /\ inbox[s] # <<>> /\ inbox'[s] = Tail(inbox[s])
            /\ Head(inbox[s]).kind = "event"
            /\ loop'[s].pc = "acking" => loop'[s].version = Head(inbox[s]).version
            /\ acked'[s] = acked[s] /\ version' = version
        BY <3>4 DEF ReceiveEvent, Take, At, TypeOK
      <4>2. /\ inbox[s] \in Seq(Message) /\ 1 \in 1..Len(inbox[s])
            /\ inbox[s][1] = Head(inbox[s]) /\ Carries(s, 1)
            /\ \A n \in 1..Len(inbox'[s]) :
                 /\ n + 1 \in 1..Len(inbox[s]) /\ 1 < n + 1
                 /\ inbox'[s][n] = inbox[s][n + 1]
        <5>1. inbox[s] \in Seq(Message) /\ Len(inbox[s]) \in Nat \ {0}
          BY <4>1, EmptySeq DEF TypeOK
        <5> QED
          BY <4>1, <5>1 DEF Carries
      <4>3. /\ acked[s] <= inbox[s][1].version /\ inbox[s][1].version <= version
            /\ \A n \in 1..Len(inbox'[s]) :
                 Carries(s, n + 1) => inbox[s][1].version <= inbox[s][n + 1].version
        BY <2>1, <4>2 DEF AcksOrdered, OrderInv, InboxOrdered
      <4> QED
        BY <2>1, <4>1, <4>2, <4>3 DEF AcksOrdered, Carries
    <3>5. CASE s = r /\ ~AckSent(r) /\ ~ReceiveEvent(r)
      <4>1. acked'[s] = acked[s] /\ loop'[s].pc # "acking"
        BY <2>3, <3>5
        DEF Loop, Receive, Register, RegisterFails, ReceiveReply,
            ReceiveRequest, ReceiveFails, ReceiveDisconnect, DisconnectFails,
            AnswerSent, HandlerSendFails, NextReceive, SetLoop, At, TypeOK
      <4> QED
        BY <2>1, <3>1, <4>1, ShiftKeepsAcks
    <3> QED
      BY <3>2, <3>3, <3>4, <3>5
  <2>4. ASSUME NEW t \in Tasks, Run(t) PROVE AcksOrdered(s)'
    <3>1. UNCHANGED <<acked, loop, inbox, version>>
      BY <2>4
      DEF Run, RequestSnapshot, RequestFails, StoreSnapshot, StoreFails, AgentVars
    <3> QED
      BY <2>1, <3>1 DEF AcksOrdered, Carries
  <2>5. CASE Restart
    <3>1. /\ UNCHANGED <<acked, version>> /\ inbox'[s] = <<>>
          /\ loop'[s].pc # "acking"
      BY <2>5 DEF Restart, Running, At, TypeOK
    <3> QED
      BY <2>1, <3>1 DEF AcksOrdered
  <2>6. CASE UNCHANGED vars
    BY <2>1, <2>6 DEF vars, serverVars, AcksOrdered, Carries
  <2> QED
    BY <2>2, <2>3, <2>4, <2>5, <2>6 DEF Next
<1> QED
  BY <1>1, <1>2, TypeCorrect, OrderInvariant, PTL DEF Spec

-----------------------------------------------------------------------------
(* Every step of the service is one of AgentCopy's or none of its concern. *)
LEMMA StepsAreCopies ==
  ASSUME TypeOK, OrderInv, AckInv, [Next]_vars
  PROVE  [Copy!Next]_(Copy!copyVars)
<1> USE DEF Copy!copyVars
<1>1. CASE AgentChange \/ \E s \in Sockets : Agent(s)
  <2>1. UNCHANGED <<acked, stored>> /\ (version' = version + 1 \/ version' = version)
    BY <1>1, AgentTyped
    DEF serverVars, AgentChange, Agent, AgentConnect, AgentAnswer, AgentRepeat,
        AgentRequest, Drop
  <2> QED
    BY <2>1 DEF Copy!Next, Copy!Change
<1>2. ASSUME NEW s \in Sockets, AckSent(s) PROVE Copy!Acknowledge(s)
  <2>1. /\ acked' = [acked EXCEPT ![s] = loop[s].version]
        /\ UNCHANGED <<version, stored>> /\ loop[s].pc = "acking"
    BY <1>2 DEF AckSent, AgentVars
  <2>2. loop[s].version \in acked[s]..version
    BY <2>1, VersionsAreNumbers DEF AckInv, AcksOrdered
  <2> QED
    BY <2>1, <2>2 DEF Copy!Acknowledge
<1>3. ASSUME NEW s \in Sockets, Loop(s), ~AckSent(s)
      PROVE  UNCHANGED <<version, acked, stored>>
  BY <1>3
  DEF Loop, Receive, Register, RegisterFails, ReceiveReply, ReceiveEvent,
      ReceiveRequest, ReceiveFails, ReceiveDisconnect, DisconnectFails,
      AnswerSent, HandlerSendFails, AgentVars
<1>4. ASSUME NEW t \in Tasks, StoreSnapshot(t)
      PROVE  \E s \in Sockets : Copy!Store(s)
  <2> DEFINE s == task[t].socket
             v == task[t].version
  <2>1. /\ ready \in Seq(Tasks) /\ ready # <<>> /\ Head(ready) = t
        /\ task[t].pc = "ready" /\ s \in Sockets /\ v \in Versions
        /\ stored' = [stored EXCEPT ![s] = v] /\ UNCHANGED <<version, acked>>
    BY <1>4 DEF StoreSnapshot, Runs, AgentVars, TypeOK, TaskState
  <2>2. 1 \in 1..Len(ready) /\ ready[1] = t
    BY <2>1, EmptySeq
  <2>3. stored[s] <= v /\ v <= version
    BY <2>1, <2>2 DEF OrderInv, QueueOrdered, Resumed, Snapshot, Origin
  <2>4. v \in stored[s]..version
    BY <2>1, <2>3, VersionsAreNumbers DEF Versions
  <2> QED
    BY <2>1, <2>4 DEF Copy!Store
<1>5. ASSUME NEW t \in Tasks, Run(t), ~StoreSnapshot(t)
      PROVE  UNCHANGED <<version, acked, stored>>
  BY <1>5 DEF Run, RequestSnapshot, RequestFails, StoreFails, AgentVars
<1>6. CASE Restart \/ UNCHANGED vars
  BY <1>6 DEF Restart, vars, serverVars
<1> QED
  BY <1>1, <1>2, <1>3, <1>4, <1>5, <1>6 DEF Next, Copy!Next

(* RealtimeManager implements AgentCopy: the snapshots of a socket are     *)
(* states the agent has been in and reach the database in their order, and *)
(* changes are acknowledged in theirs, whatever the agent repeats or       *)
(* reorders, however tasks overlap and whenever the process restarts.      *)
THEOREM ImplementsAgentCopy == Spec => StoresCopies
<1>1. Init => Copy!Init
  BY DEF Init, Copy!Init
<1>2. TypeOK /\ OrderInv /\ AckInv /\ [Next]_vars => [Copy!Next]_(Copy!copyVars)
  BY StepsAreCopies
<1> QED
  BY <1>1, <1>2, TypeCorrect, OrderInvariant, AckInvariant, PTL
  DEF Spec, StoresCopies, Copy!Spec

-----------------------------------------------------------------------------
(* A task that waits may be answered more than once, and the first answer  *)
(* counts; AckInv says that any of them is new enough.  A task that has    *)
(* not asked has no answer, and a loop runs on an open socket only.        *)
Answered(t, s) == \E n \in 1..Len(inbox[s]) : inbox[s][n].task = t
OnTheWay(t, s) ==
  /\ task[t].socket = s
  /\ \/ task[t].pc = "new"
     \/ /\ task[t].pc = "waiting"
        /\ t \in asked[s] \/ Answered(t, s)
     \/ task[t].pc = "ready" /\ acked[s] <= task[t].version
Live(s) == net[s] = "up" /\ Running(s) /\ ~SyncFailed(s)
CoverInv ==
  \A s \in Sockets : Live(s) =>
    acked[s] <= stored[s] \/ \E t \in Tasks : OnTheWay(t, s)

FreshInv ==
  /\ \A t \in Tasks : task[t].pc \in {"unused", "new"} =>
       \A s \in Sockets : t \notin asked[s] /\ ~Answered(t, s)
  /\ \A s \in Sockets : net[s] = "unused" => loop[s].pc = "none"

(* What the agent's steps and the loops' do to tasks, requests and answers *)
(* of a socket.                                                            *)
LEMMA AgentAnswers ==
  ASSUME TypeOK, AgentChange \/ \E r \in Sockets : Agent(r),
         NEW s \in Sockets, NEW t \in Tasks
  PROVE  /\ Answered(t, s) => Answered(t, s)'
         /\ Answered(t, s)' =>
              \/ Answered(t, s) \/ t \in asked[s]
              \/ task[t].pc \in {"waiting", "ready", "done", "failed"}
         /\ asked'[s] \subseteq asked[s]
         /\ net'[s] = "up" => (t \in asked[s] => t \in asked'[s] \/ Answered(t, s)')
<1> DEFINE Same == inbox'[s] = inbox[s]
           Sent(m) == inbox'[s] = Append(inbox[s], m)
<1>1. /\ inbox[s] \in Seq(Message) /\ Len(inbox[s]) \in Nat
      /\ None \notin Tasks
  BY NoneAssumption DEF TypeOK
<1>2. Same => (Answered(t, s)' <=> Answered(t, s))
  BY DEF Answered
<1>3. ASSUME NEW m \in Message, Sent(m)
      PROVE  Answered(t, s)' <=> Answered(t, s) \/ m.task = t
  <2>1. /\ Len(inbox'[s]) = Len(inbox[s]) + 1 /\ inbox'[s][Len(inbox[s]) + 1] = m
        /\ \A n \in 1..Len(inbox[s]) : inbox'[s][n] = inbox[s][n]
    BY <1>1, <1>3
  <2>2. \A n \in 1..Len(inbox'[s]) : n \in 1..Len(inbox[s]) \/ n = Len(inbox[s]) + 1
    BY <1>1, <2>1
  <2>3. \A n \in 1..Len(inbox[s]) : n \in 1..Len(inbox'[s])
    BY <1>1, <2>1
  <2>4. Len(inbox[s]) + 1 \in 1..Len(inbox'[s])
    BY <1>1, <2>1
  <2> QED
    BY <2>1, <2>2, <2>3, <2>4 DEF Answered
<1> HIDE DEF Same, Sent
<1>4. ASSUME NEW r \in Sockets, NEW m, Send(r, m)
      PROVE  IF r = s THEN Sent(m) ELSE Same
  BY <1>4 DEF Send, TypeOK, Same, Sent
<1>5. CASE AgentChange
  <2>1. version' \in Versions /\ UNCHANGED <<net, asked>>
    BY <1>5, AgentTyped DEF AgentChange, NetTypeOK
  <2>2. Event(version') \in Message /\ Event(version').task # t
    BY <1>1, <2>1, MessagesTyped DEF Event
  <2>3. Same \/ Sent(Event(version'))
    BY <1>4, <1>5 DEF AgentChange, Same
  <2> QED
    BY <1>2, <1>3, <2>1, <2>2, <2>3
<1>6. ASSUME NEW r \in Sockets, NEW u \in Tasks,
             AgentAnswer(r, u) \/ AgentRepeat(r, u)
      PROVE  /\ Answered(t, s) => Answered(t, s)'
             /\ Answered(t, s)' =>
                  \/ Answered(t, s) \/ t \in asked[s]
                  \/ task[t].pc \in {"waiting", "ready", "done", "failed"}
             /\ asked'[s] \subseteq asked[s]
             /\ t \in asked[s] => t \in asked'[s] \/ Answered(t, s)'
  <2>1. Reply(u, version) \in Message /\ Reply(u, version).task = u
    BY MessagesTyped DEF Reply, TypeOK
  <2>2. IF r = s THEN Sent(Reply(u, version)) ELSE Same
    BY <1>4, <1>6 DEF AgentAnswer, AgentRepeat
  <2>3. /\ u \in asked[r] \/ task[u].pc \in {"waiting", "ready", "done", "failed"}
        /\ asked'[s] \subseteq asked[s]
        /\ t \in asked[s] => t \in asked'[s] \/ (t = u /\ r = s)
    BY <1>6 DEF AgentAnswer, AgentRepeat, TypeOK
  <2> QED
    BY <1>2, <1>3, <2>1, <2>2, <2>3
<1>7. ASSUME NEW r \in Sockets, AgentRequest(r)
      PROVE  (Answered(t, s)' <=> Answered(t, s)) /\ asked' = asked
  <2>1. Request \in Message /\ Request.task # t /\ asked' = asked
    BY <1>1, <1>7, MessagesTyped DEF Request, AgentRequest
  <2>2. Same \/ Sent(Request)
    BY <1>4, <1>7 DEF AgentRequest
  <2> QED
    BY <1>2, <1>3, <2>1, <2>2
<1>8. ASSUME NEW r \in Sockets, AgentConnect(r) \/ Drop(r)
      PROVE  /\ Answered(t, s)' <=> Answered(t, s)
             /\ asked'[s] \subseteq asked[s]
             /\ net'[s] = "up" => asked'[s] = asked[s]
  BY <1>2, <1>8 DEF AgentConnect, Drop, TypeOK, Same
<1> QED
  BY <1>5, <1>6, <1>7, <1>8 DEF Agent

LEMMA LoopSockets ==
  ASSUME TypeOK, NEW r \in Sockets, Loop(r), NEW s \in Sockets
  PROVE  /\ asked'[s] \subseteq asked[s]
         /\ net'[s] = "unused" => net[s] = "unused"
         /\ s # r => UNCHANGED <<net[s], loop[s], inbox[s], asked[s], acked[s]>>
<1>1. CASE Register(r) \/ RegisterFails(r)
  BY <1>1 DEF Register, RegisterFails, SetLoop, Closed, AgentVars, TypeOK
<1>2. CASE ReceiveReply(r) \/ ReceiveEvent(r) \/ ReceiveRequest(r)
  BY <1>2
  DEF ReceiveReply, ReceiveEvent, ReceiveRequest, Take, NextReceive, SetLoop, TypeOK
<1>3. CASE ReceiveFails(r) \/ ReceiveDisconnect(r) \/ DisconnectFails(r)
  BY <1>3
  DEF ReceiveFails, ReceiveDisconnect, DisconnectFails, Take, Closed, SetLoop, TypeOK
<1>4. CASE AckSent(r) \/ AnswerSent(r) \/ HandlerSendFails(r)
  BY <1>4
  DEF AckSent, AnswerSent, HandlerSendFails, AgentVars, NextReceive, SetLoop, TypeOK
<1> QED
  BY <1>1, <1>2, <1>3, <1>4 DEF Loop, Receive

LEMMA LoopAnswers ==
  ASSUME TypeOK, NEW r \in Sockets, Loop(r), NEW s \in Sockets, NEW t \in Tasks
  PROVE  Answered(t, s)' => Answered(t, s)
<1>1. InboxShift(s)
  BY LoopShifts
<1> QED
  BY <1>1 DEF InboxShift, Answered

LEMMA RunAnswers ==
  ASSUME TypeOK, NEW u \in Tasks, Run(u)
  PROVE  /\ UNCHANGED <<net, loop, inbox, acked>>
         /\ task[u].socket \in Sockets /\ task'[u].socket = task[u].socket
         /\ task'[u].pc \in {"waiting", "done", "failed"}
         /\ \A v \in Tasks \ {u} : task'[v] = task[v]
         /\ \A s \in Sockets : asked[s] \subseteq asked'[s] /\ asked'[s] \subseteq asked[s] \cup {u}
<1>1. task \in [Tasks -> TaskState] /\ asked \in [Sockets -> SUBSET Tasks]
  BY DEF TypeOK
<1>2. task[u].pc \in {"new", "ready"}
  BY DEF Run, RequestSnapshot, RequestFails, StoreSnapshot, StoreFails, Runs
<1>3. task[u].socket \in Sockets
  BY <1>2 DEF TypeOK
<1>4. UNCHANGED <<net, loop, inbox, acked>>
  BY DEF Run, RequestSnapshot, RequestFails, StoreSnapshot, StoreFails, AgentVars
<1>5. \E pc \in {"waiting", "done", "failed"} : task' = [task EXCEPT ![u].pc = pc]
  BY DEF Run, RequestSnapshot, RequestFails, StoreSnapshot, StoreFails
<1>6. /\ task'[u].socket = task[u].socket
      /\ task'[u].pc \in {"waiting", "done", "failed"}
      /\ \A v \in Tasks \ {u} : task'[v] = task[v]
  BY <1>1, <1>5 DEF TaskState
<1>7. asked' = asked \/ asked' = [asked EXCEPT ![task[u].socket] = @ \cup {u}]
  BY <1>1, <1>3
  DEF Run, RequestSnapshot, RequestFails, StoreSnapshot, StoreFails, AgentVars
<1>8. \A s \in Sockets : asked[s] \subseteq asked'[s] /\ asked'[s] \subseteq asked[s] \cup {u}
  BY <1>1, <1>3, <1>7
<1> QED
  BY <1>3, <1>4, <1>6, <1>8

(* A task that is created was not in use, and one that gets its answer     *)
(* has waited for it.                                                      *)
LEMMA SpawnCreates ==
  ASSUME TypeOK, NEW s \in Sockets, Spawn(s)
  PROVE  \E t \in Tasks :
           /\ task[t].pc = "unused" /\ task'[t] = Sync("new", s, 0)
           /\ \A u \in Tasks \ {t} : task'[u] = task[u]
BY DEF Spawn, TypeOK

LEMMA ReplyResolves ==
  ASSUME TypeOK, NEW s \in Sockets, ReceiveReply(s)
  PROVE  /\ Head(inbox[s]) \in Message /\ Head(inbox[s]).task \in Tasks
         /\ \A t \in Tasks :
              IF t = Head(inbox[s]).task /\ Awaited(t, s)
              THEN task'[t] = Sync("ready", s, Head(inbox[s]).version)
              ELSE task'[t] = task[t]
<1>1. Head(inbox[s]) \in Message /\ Head(inbox[s]).task \in Tasks
  BY TakeTyped, TypeParts, MessageParts DEF ReceiveReply
<1>2. task \in [Tasks -> TaskState]
  BY DEF TypeOK
<1> QED
  BY <1>1, <1>2 DEF ReceiveReply, Resolve

(* A task that has not asked yet has just been created or not at all.      *)
LEMMA NewTasks ==
  ASSUME TypeOK, NEW t \in Tasks, task'[t].pc \in {"unused", "new"},
         \/ \E s \in Sockets : Loop(s)
         \/ \E u \in Tasks : Run(u)
         \/ Restart
  PROVE  task[t].pc \in {"unused", "new"}
<1>1. ASSUME NEW s \in Sockets, Loop(s) PROVE task[t].pc \in {"unused", "new"}
  <2>1. CASE Spawn(s)
    BY <2>1, SpawnCreates
  <2>2. CASE ReceiveReply(s)
    <3>1. task'[t] = task[t] \/ task'[t] = Sync("ready", s, Head(inbox[s]).version)
      BY <2>2, ReplyResolves
    <3>2. Sync("ready", s, Head(inbox[s]).version).pc = "ready"
      BY DEF Sync
    <3> QED
      BY <3>1, <3>2
  <2> QED
    BY <1>1, <2>1, <2>2, LoopQueue
<1>2. ASSUME NEW u \in Tasks, Run(u) PROVE task[t].pc \in {"unused", "new"}
  BY <1>2, RunAnswers
<1>3. CASE Restart
  BY <1>3 DEF Restart, Sync
<1> QED
  BY <1>1, <1>2, <1>3

LEMMA FreshInvariant == Spec => []FreshInv
<1>1. Init => FreshInv
  <2> SUFFICES ASSUME Init PROVE FreshInv
    OBVIOUS
  <2>1. \A s \in Sockets : inbox[s] = <<>> /\ asked[s] = {} /\ loop[s].pc = "none"
    BY DEF Init, At
  <2>2. \A s \in Sockets, t \in Tasks : ~Answered(t, s)
    BY <2>1 DEF Answered
  <2> QED
    BY <2>1, <2>2 DEF FreshInv
<1>2. TypeOK /\ FreshInv /\ [Next]_vars => FreshInv'
  <2> SUFFICES ASSUME TypeOK, FreshInv, [Next]_vars PROVE FreshInv'
    OBVIOUS
  <2>1. CASE AgentChange \/ \E r \in Sockets : Agent(r)
    <3>1. UNCHANGED <<task, loop>>
      BY <2>1, AgentTyped DEF serverVars
    <3>2. \A s \in Sockets : net'[s] = "unused" => net[s] = "unused"
      BY <2>1
      DEF AgentChange, Agent, AgentConnect, AgentAnswer, AgentRepeat,
          AgentRequest, Drop, TypeOK
    <3>3. ASSUME NEW t \in Tasks, task[t].pc \in {"unused", "new"}, NEW s \in Sockets
          PROVE  t \notin asked'[s] /\ ~Answered(t, s)'
      BY <2>1, <3>3, AgentAnswers DEF FreshInv
    <3> QED
      BY <3>1, <3>2, <3>3 DEF FreshInv
  <2>2. ASSUME NEW r \in Sockets, Loop(r) PROVE FreshInv'
    <3>1. ASSUME NEW t \in Tasks, task'[t].pc \in {"unused", "new"}, NEW s \in Sockets
          PROVE  t \notin asked'[s] /\ ~Answered(t, s)'
      BY <2>2, <3>1, NewTasks, LoopAnswers, LoopSockets DEF FreshInv
    <3>2. net[r] # "unused"
      BY <2>2
      DEF FreshInv, Loop, Receive, Register, RegisterFails, ReceiveReply,
          ReceiveEvent, ReceiveRequest, ReceiveFails, ReceiveDisconnect,
          DisconnectFails, AckSent, AnswerSent, HandlerSendFails
    <3>3. ASSUME NEW s \in Sockets, net'[s] = "unused" PROVE loop'[s].pc = "none"
      <4>1. net[s] = "unused" /\ s # r
        BY <2>2, <3>2, <3>3, LoopSockets
      <4> QED
        BY <2>2, <4>1, LoopSockets DEF FreshInv
    <3> QED
      BY <3>1, <3>3 DEF FreshInv
  <2>3. ASSUME NEW u \in Tasks, Run(u) PROVE FreshInv'
    <3>1. \A t \in Tasks, s \in Sockets : Answered(t, s)' <=> Answered(t, s)
      BY <2>3, RunAnswers DEF Answered
    <3>2. ASSUME NEW t \in Tasks, task'[t].pc \in {"unused", "new"}, NEW s \in Sockets
          PROVE  t \notin asked'[s] /\ ~Answered(t, s)'
      BY <2>3, <3>1, <3>2, NewTasks, RunAnswers DEF FreshInv
    <3> QED
      BY <2>3, <3>2, RunAnswers DEF FreshInv
  <2>4. CASE Restart
    <3>1. \A s \in Sockets : inbox'[s] = <<>> /\ asked'[s] = {}
      BY <2>4 DEF Restart
    <3>2. \A s \in Sockets, t \in Tasks : ~Answered(t, s)'
      BY <3>1 DEF Answered
    <3>3. \A s \in Sockets : net'[s] = "unused" => loop'[s].pc = "none"
      BY <2>4 DEF Restart, FreshInv, Running, TypeOK
    <3> QED
      BY <3>1, <3>2, <3>3 DEF FreshInv
  <2>5. CASE UNCHANGED vars
    BY <2>5 DEF vars, serverVars, FreshInv, Answered
  <2> QED
    BY <2>1, <2>2, <2>3, <2>4, <2>5 DEF Next
<1> QED
  BY <1>1, <1>2, TypeCorrect, PTL DEF Spec

(* A failed sync stays failed, and only Register makes a socket live.      *)
LEMMA LoopLiveBefore ==
  ASSUME TypeOK, NEW r \in Sockets, Loop(r), NEW s \in Sockets, Live(s)'
  PROVE  /\ Live(s) \/ (s = r /\ Register(r))
         /\ s = r => \/ Register(r) \/ AckSent(r) \/ AnswerSent(r)
                     \/ ReceiveReply(r) \/ ReceiveEvent(r) \/ ReceiveRequest(r)
<1>1. SyncFailed(s) => SyncFailed(s)'
  <2>1. ASSUME NEW t \in Tasks, task[t].pc = "failed"
        PROVE  task'[t] = task[t]
    <3>1. CASE Spawn(r)
      BY <2>1, <3>1, SpawnCreates
    <3>2. CASE ReceiveReply(r)
      <4>1. ~Awaited(t, r)
        BY <2>1 DEF Awaited
      <4> QED
        BY <3>2, <4>1, ReplyResolves
    <3> QED
      BY <3>1, <3>2, LoopQueue
  <2> QED
    BY <2>1 DEF SyncFailed, SyncsOn
<1>2. CASE s # r
  BY <1>1, <1>2, LoopSockets DEF Live, Running
<1>3. CASE s = r /\ (Register(r) \/ AckSent(r) \/ AnswerSent(r) \/ ReceiveReply(r)
                       \/ ReceiveEvent(r) \/ ReceiveRequest(r))
  <2>1. Register(r) \/ (Running(r) /\ net' = net)
    BY <1>3
    DEF AckSent, AnswerSent, ReceiveReply, ReceiveEvent, ReceiveRequest,
        AgentVars, Running
  <2> QED
    BY <1>1, <1>3, <2>1 DEF Live
<1>4. CASE s = r /\ (RegisterFails(r) \/ ReceiveFails(r) \/ DisconnectFails(r)
                       \/ ReceiveDisconnect(r) \/ HandlerSendFails(r))
  <2>1. loop'[r].pc \in {"failed", "ended", "broken"}
    BY <1>4
    DEF RegisterFails, ReceiveFails, DisconnectFails, ReceiveDisconnect,
        HandlerSendFails, SetLoop, At, TypeOK
  <2> QED
    BY <1>4, <2>1 DEF Live, Running
<1> QED
  BY <1>2, <1>3, <1>4 DEF Loop, Receive

(* What keeps a task on its way.                                           *)
LEMMA StaysOnTheWay ==
  ASSUME NEW s \in Sockets, NEW t \in Tasks, OnTheWay(t, s),
         task'[t] = task[t], acked'[s] = acked[s],
         (t \in asked[s] \/ Answered(t, s)) => (t \in asked'[s] \/ Answered(t, s)')
  PROVE  OnTheWay(t, s)'
BY DEF OnTheWay

LEMMA CoverAgent ==
  ASSUME TypeOK, FreshInv, CoverInv,
         AgentChange \/ \E r \in Sockets : Agent(r)
  PROVE  CoverInv'
<1> SUFFICES ASSUME NEW s \in Sockets, Live(s)'
             PROVE  acked'[s] <= stored'[s] \/ \E t \in Tasks : OnTheWay(t, s)'
  BY DEF CoverInv
<1>1. UNCHANGED <<task, loop, acked, stored>>
  BY AgentTyped DEF serverVars
<1>2. net'[s] = "up" => net[s] = "up" \/ net[s] = "unused"
  BY DEF AgentChange, Agent, AgentConnect, AgentAnswer, AgentRepeat,
         AgentRequest, Drop, TypeOK
<1>3. Live(s)
  BY <1>1, <1>2 DEF Live, Running, SyncFailed, SyncsOn, FreshInv
<1>4. ASSUME NEW t \in Tasks, OnTheWay(t, s) PROVE OnTheWay(t, s)'
  <2>1. (t \in asked[s] \/ Answered(t, s)) => (t \in asked'[s] \/ Answered(t, s)')
    BY AgentAnswers DEF Live
  <2> QED
    BY <1>1, <1>4, <2>1, StaysOnTheWay
<1> QED
  BY <1>1, <1>3, <1>4 DEF CoverInv

LEMMA CoverLoop ==
  ASSUME TypeOK, AckInv, CoverInv, NEW r \in Sockets, Loop(r)
  PROVE  CoverInv'
<1> SUFFICES ASSUME NEW s \in Sockets, Live(s)'
             PROVE  acked'[s] <= stored'[s] \/ \E t \in Tasks : OnTheWay(t, s)'
  BY DEF CoverInv
<1>1. stored' = stored
  BY LoopShifts
<1>2. CASE s # r
  <2>1. Live(s) /\ UNCHANGED <<inbox[s], asked[s], acked[s]>>
    BY <1>2, LoopLiveBefore, LoopSockets
  <2>2. ASSUME NEW t \in Tasks, OnTheWay(t, s) PROVE OnTheWay(t, s)'
    <3>1. task[t].socket = s /\ task[t].pc \in {"new", "waiting", "ready"}
      BY <2>2 DEF OnTheWay
    <3>2. task'[t] = task[t]
      <4>1. CASE Spawn(r)
        BY <3>1, <4>1, SpawnCreates
      <4>2. CASE ReceiveReply(r)
        BY <1>2, <3>1, <4>2, ReplyResolves DEF Awaited
      <4> QED
        BY <4>1, <4>2, LoopQueue
    <3>3. Answered(t, s) => Answered(t, s)'
      BY <2>1 DEF Answered
    <3> QED
      BY <2>1, <2>2, <3>2, <3>3, StaysOnTheWay
  <2> QED
    BY <1>1, <2>1, <2>2 DEF CoverInv
<1>3. CASE s = r /\ (Register(r) \/ AckSent(r))
  <2>1. Spawn(r)
    BY <1>3 DEF Register, AckSent
  <2>2. PICK t \in Tasks : task'[t] = Sync("new", r, 0)
    BY <2>1, SpawnCreates
  <2>3. OnTheWay(t, s)'
    BY <1>3, <2>2 DEF OnTheWay, Sync
  <2> QED
    BY <2>3
<1>4. CASE s = r /\ AnswerSent(r)
  <2>1. Live(s) /\ UNCHANGED <<inbox, asked, acked, task>>
    BY <1>4, LoopLiveBefore
    DEF AnswerSent, Register, AgentVars, SetLoop, NextReceive
  <2>2. ASSUME NEW t \in Tasks, OnTheWay(t, s) PROVE OnTheWay(t, s)'
    BY <2>1, <2>2 DEF OnTheWay, Answered
  <2> QED
    BY <1>1, <2>1, <2>2 DEF CoverInv
<1>5. CASE s = r /\ (ReceiveReply(r) \/ ReceiveEvent(r) \/ ReceiveRequest(r))
  <2> DEFINE m == Head(inbox[r])
  <2>1. /\ Live(s) /\ acked' = acked /\ asked' = asked
        /\ inbox[r] \in Seq(Message) /\ inbox[r] # <<>> /\ inbox'[r] = Tail(inbox[r])
    BY <1>5, LoopLiveBefore
    DEF ReceiveReply, ReceiveEvent, ReceiveRequest, Register, Take, TypeOK
  <2>2. ASSUME NEW t \in Tasks, Answered(t, s), m.task # t
        PROVE  Answered(t, s)'
    <3>1. PICK n \in 1..Len(inbox[r]) : inbox[r][n].task = t
      BY <1>5, <2>2 DEF Answered
    <3>2. n - 1 \in 1..Len(inbox'[r]) /\ inbox'[r][n - 1] = inbox[r][n]
      BY <2>1, <2>2, <3>1
    <3> QED
      BY <1>5, <3>1, <3>2 DEF Answered
  <2>3. ASSUME NEW t \in Tasks, OnTheWay(t, s) PROVE OnTheWay(t, s)'
    <3>1. CASE task'[t] = task[t] /\ m.task # t
      BY <2>1, <2>2, <2>3, <3>1, StaysOnTheWay
    <3>2. CASE task'[t] = task[t] /\ task[t].pc # "waiting"
      BY <2>1, <2>3, <3>2 DEF OnTheWay
    <3>3. CASE ReceiveReply(r) /\ m.task = t /\ task[t].pc = "waiting"
      <4>1. task'[t] = Sync("ready", r, m.version)
        BY <1>5, <2>3, <3>3, ReplyResolves DEF Awaited, OnTheWay
      <4>2. 1 \in 1..Len(inbox[r]) /\ inbox[r][1] = m
        BY <2>1, EmptySeq
      <4>3. acked[r] <= m.version
        BY <3>3, <4>2 DEF AckInv, AcksOrdered, Carries, ReceiveReply
      <4> QED
        BY <1>5, <2>1, <4>1, <4>3 DEF OnTheWay, Sync
    <3>4. ASSUME ReceiveReply(r), m.task # t \/ task[t].pc # "waiting"
          PROVE  task'[t] = task[t]
      BY <3>4, ReplyResolves DEF Awaited
    <3>5. ASSUME ReceiveEvent(r) \/ ReceiveRequest(r)
          PROVE  task'[t] = task[t] /\ m.task # t
      <4>1. m \in Message /\ m.kind \in {"event", "request"}
        BY <2>1, <3>5 DEF ReceiveEvent, ReceiveRequest
      <4>2. m.task = None
        BY <4>1 DEF Message
      <4> QED
        BY <3>5, <4>2, NoneAssumption DEF ReceiveEvent, ReceiveRequest
    <3> QED
      BY <1>5, <3>1, <3>2, <3>3, <3>4, <3>5
  <2> QED
    BY <1>1, <2>1, <2>3 DEF CoverInv
<1> QED
  BY <1>2, <1>3, <1>4, <1>5, LoopLiveBefore

LEMMA CoverRun ==
  ASSUME TypeOK, OrderInv, FreshInv, CoverInv, NEW u \in Tasks, Run(u)
  PROVE  CoverInv'
<1> SUFFICES ASSUME NEW s \in Sockets, Live(s)'
             PROVE  acked'[s] <= stored'[s] \/ \E t \in Tasks : OnTheWay(t, s)'
  BY DEF CoverInv
<1>1. /\ UNCHANGED <<net, loop, inbox, acked>>
      /\ task'[u].socket = task[u].socket
      /\ \A v \in Tasks \ {u} : task'[v] = task[v]
      /\ asked[s] \subseteq asked'[s]
  BY RunAnswers
<1>2. task[u].pc \in {"new", "ready"}
  BY DEF Run, RequestSnapshot, RequestFails, StoreSnapshot, StoreFails, Runs
<1>3. SyncFailed(s) => SyncFailed(s)'
  BY <1>1, <1>2 DEF SyncFailed, SyncsOn
<1>4. Live(s)
  BY <1>1, <1>3 DEF Live, Running
<1>5. stored[s] <= stored'[s]
  BY ServerOrder, RunShifts, StoreKeeps, VersionsAreNumbers DEF OrderInv
<1>6. ASSUME NEW t \in Tasks \ {u}, OnTheWay(t, s) PROVE OnTheWay(t, s)'
  <2>1. Answered(t, s) => Answered(t, s)'
    BY <1>1 DEF Answered
  <2> QED
    BY <1>1, <1>6, <2>1, StaysOnTheWay
<1>7. ASSUME OnTheWay(u, s) PROVE acked'[s] <= stored'[s] \/ OnTheWay(u, s)'
  <2>1. task[u].socket = s /\ task'[u].socket = s
    BY <1>1, <1>7 DEF OnTheWay
  <2>2. task'[u].pc # "failed"
    BY <2>1 DEF Live, SyncFailed, SyncsOn
  <2>3. CASE RequestSnapshot(u)
    <3>1. task'[u].pc = "waiting" /\ u \in asked'[s]
      BY <1>4, <2>1, <2>3 DEF RequestSnapshot, Live, TypeOK, TaskState
    <3> QED
      BY <2>1, <3>1 DEF OnTheWay
  <2>4. CASE StoreSnapshot(u)
    <3>1. stored'[s] = task[u].version /\ acked[s] <= task[u].version
      BY <1>7, <2>1, <2>4 DEF StoreSnapshot, Runs, OnTheWay, TypeOK
    <3> QED
      BY <1>1, <3>1
  <2>5. CASE RequestFails(u) \/ StoreFails(u)
    BY <2>2, <2>5 DEF RequestFails, StoreFails, TypeOK, TaskState
  <2> QED
    BY <2>3, <2>4, <2>5 DEF Run
<1>8. acked[s] <= stored[s] => acked'[s] <= stored'[s]
  <2>1. acked[s] \in Int /\ stored[s] \in Int
    BY VersionsAreNumbers
  <2>2. stored'[s] \in Int
    <3>1. stored'[s] = stored[s] \/ stored'[s] = task[u].version
      BY RunShifts DEF StoreSnapshot, TypeOK, OrderInv
    <3> QED
      BY <2>1, <3>1 DEF TypeOK, TaskState, Versions
  <2> QED
    BY <1>1, <1>5, <2>1, <2>2
<1> QED
  BY <1>4, <1>6, <1>7, <1>8 DEF CoverInv

LEMMA CoverInvariant == Spec => []CoverInv
<1>1. Init => CoverInv
  BY DEF Init, CoverInv, Live
<1>2. TypeOK /\ OrderInv /\ AckInv /\ FreshInv /\ CoverInv /\ [Next]_vars => CoverInv'
  <2> SUFFICES ASSUME TypeOK, OrderInv, AckInv, FreshInv, CoverInv, [Next]_vars
               PROVE  CoverInv'
    OBVIOUS
  <2>1. CASE AgentChange \/ \E r \in Sockets : Agent(r)
    BY <2>1, CoverAgent
  <2>2. ASSUME NEW r \in Sockets, Loop(r) PROVE CoverInv'
    BY <2>2, CoverLoop
  <2>3. ASSUME NEW u \in Tasks, Run(u) PROVE CoverInv'
    BY <2>3, CoverRun
  <2>4. CASE Restart
    <3>1. \A s \in Sockets : net'[s] # "up"
      BY <2>4 DEF Restart
    <3> QED
      BY <3>1 DEF CoverInv, Live
  <2>5. CASE UNCHANGED vars
    BY <2>5
    DEF vars, serverVars, CoverInv, Live, Running, SyncFailed, SyncsOn,
        OnTheWay, Answered
  <2> QED
    BY <2>1, <2>2, <2>3, <2>4, <2>5 DEF Next
<1> QED
  BY <1>1, <1>2, TypeCorrect, OrderInvariant, AckInvariant, FreshInvariant, PTL
  DEF Spec

(* No change that was acknowledged is forgotten: every acknowledgement     *)
(* leaves a sync behind (EventHandler._sync_snapshot), an answer is never  *)
(* older than what was acknowledged before it, and what is stored never    *)
(* goes back.                                                              *)
THEOREM AckedChangesCovered == Spec => []AckedChangeCovered
<1>1. TypeOK /\ AckInv /\ CoverInv => AckedChangeCovered
  <2> SUFFICES ASSUME TypeOK, AckInv, CoverInv, NEW s \in Sockets, Live(s)
               PROVE  \/ stored[s] >= acked[s]
                      \/ \E t \in SyncsOn(s) : Covers(t, s, acked[s])
    BY DEF AckedChangeCovered, Live
  <2>1. CASE acked[s] <= stored[s]
    BY <2>1, VersionsAreNumbers
  <2>2. ASSUME NEW t \in Tasks, OnTheWay(t, s)
        PROVE  t \in SyncsOn(s) /\ Covers(t, s, acked[s])
    <3>1. task[t].socket = s
      BY <2>2 DEF OnTheWay
    <3>2. CASE task[t].pc = "waiting" /\ Answered(t, s)
      <4>1. PICK n \in 1..Len(inbox[s]) : inbox[s][n].task = t
        BY <3>2 DEF Answered
      <4>2. inbox[s][n] \in Message /\ n \in DOMAIN inbox[s]
        BY <4>1, ElementOfSeq DEF TypeOK
      <4>3. inbox[s][n].kind # "request"
        BY <4>1, <4>2, NoneAssumption DEF Message
      <4>4. inbox[s][n].version >= acked[s]
        BY <4>3, VersionsAreNumbers DEF AckInv, AcksOrdered, Carries
      <4> QED
        BY <3>1, <3>2, <4>1, <4>2, <4>4 DEF Covers, SyncsOn
    <3>3. CASE task[t].pc = "waiting" /\ t \in asked[s]
      BY <3>1, <3>3 DEF Covers, SyncsOn
    <3>4. CASE task[t].pc = "ready" /\ acked[s] <= task[t].version
      <4>1. acked[s] \in Int /\ task[t].version \in Int
        BY VersionsAreNumbers DEF TypeOK, TaskState, Versions
      <4> QED
        BY <3>1, <3>4, <4>1 DEF Covers, SyncsOn
    <3>5. CASE task[t].pc = "new"
      BY <3>1, <3>5 DEF Covers, SyncsOn
    <3> QED
      BY <2>2, <3>2, <3>3, <3>4, <3>5 DEF OnTheWay
  <2> QED
    BY <2>1, <2>2 DEF CoverInv
<1> QED
  BY <1>1, TypeCorrect, AckInvariant, CoverInvariant, PTL

=============================================================================
