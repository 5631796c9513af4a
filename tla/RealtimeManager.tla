--------------------------- MODULE RealtimeManager ---------------------------
(***************************************************************************)
(* The agent's WebSocket, from /ws/agent to the snapshot in the database,  *)
(* for one environment.  One process, one event loop: a coroutine runs     *)
(* alone from one await to the next.  Each socket has a loop that receives *)
(* its messages; every change the agent reports, and every new socket,     *)
(* starts a task of its own that asks the agent for a snapshot, waits for  *)
(* the answer and stores it.                                               *)
(*                                                                         *)
(* The agent uses one socket at a time, but it may open the next one       *)
(* before the server has noticed that the last one is gone.                *)
(***************************************************************************)
EXTENDS Naturals, Sequences

CONSTANTS
  Sockets,     \* the sockets the agent opens (bounds their number)
  Tasks,       \* the sync tasks the server creates (bounds their number)
  MaxVersion,  \* bound of the changes the agent makes
  MaxInbox     \* bound of the messages under way on a socket

ASSUME BoundAssumption == MaxVersion \in Nat /\ MaxInbox \in Nat \ {0}

CONSTANT None
ASSUME NoneAssumption == None \notin Sockets \cup Tasks

VARIABLES
  net,      \* net[s]: the agent's end of the socket
  loop,     \* loop[s]: RealtimeManager.start for the socket
  dead,     \* dead[s]: a send has failed and the server's end knows it
  active,   \* active_connections: the environment's entry
  online,   \* the environment's status_online in the database
  inbox,    \* inbox[s]: messages sent to the server and not yet received
  asked,    \* asked[s]: sync requests the agent has and has not answered
  task,     \* task[t]: _sync_environment
  ready,    \* the event loop's queue: tasks that can run, in their order
  version,  \* the agent's own state, counted by its changes
  stored,   \* stored[s]: the last snapshot that came over s and was stored
  acked     \* history, acked[s]: the last change acknowledged on s

serverVars == <<loop, dead, active, online, task, ready, stored, acked>>
vars == <<net, loop, dead, active, online, inbox, asked, task, ready,
          version, stored, acked>>

Versions == 0..MaxVersion
Event(v) == [kind |-> "event", version |-> v, task |-> None]
Reply(t, v) == [kind |-> "reply", version |-> v, task |-> t]
Request == [kind |-> "request", version |-> 0, task |-> None]
Message ==
  [kind : {"event", "request"}, version : Versions, task : {None}]
    \cup [kind : {"reply"}, version : Versions, task : Tasks]

(* acking and answering: at the await of the handler's send; version: the  *)
(* change being acknowledged.  ended: left by WebSocketDisconnect.         *)
(* broken: left by the RuntimeError of receiving on a dead socket.         *)
(* failed: left because the database or accept raised.  killed: the        *)
(* process ended.                                                          *)
LoopState == [pc : {"none", "receiving", "acking", "answering",
                    "ended", "broken", "failed", "killed"},
              version : Versions]
At(pc) == [pc |-> pc, version |-> 0]
Running(s) == loop[s].pc \in {"receiving", "acking", "answering"}

(* new: created; waiting: at the await of the future; ready: the future    *)
(* has its result.                                                         *)
TaskState == [pc : {"unused", "new", "waiting", "ready", "done", "failed"},
              socket : Sockets \cup {None}, version : Versions]
Sync(pc, s, v) == [pc |-> pc, socket |-> s, version |-> v]

TypeOK ==
  /\ net \in [Sockets -> {"unused", "up", "down"}]
  /\ loop \in [Sockets -> LoopState]
  /\ dead \in [Sockets -> BOOLEAN]
  /\ active \in Sockets \cup {None}
  /\ online \in BOOLEAN
  /\ inbox \in [Sockets -> Seq(Message)]
  /\ asked \in [Sockets -> SUBSET Tasks]
  /\ task \in [Tasks -> TaskState]
  /\ \A t \in Tasks : task[t].pc # "unused" => task[t].socket \in Sockets
  /\ ready \in Seq(Tasks)
  /\ version \in Versions
  /\ stored \in [Sockets -> Versions]
  /\ acked \in [Sockets -> Versions]

Init ==
  /\ net = [s \in Sockets |-> "unused"]
  /\ loop = [s \in Sockets |-> At("none")]
  /\ dead = [s \in Sockets |-> FALSE]
  /\ active = None
  /\ online = FALSE
  /\ inbox = [s \in Sockets |-> <<>>]
  /\ asked = [s \in Sockets |-> {}]
  /\ task = [t \in Tasks |-> Sync("unused", None, 0)]
  /\ ready = <<>>
  /\ version = 0
  /\ stored = [s \in Sockets |-> 0]
  /\ acked = [s \in Sockets |-> 0]

-----------------------------------------------------------------------------
(* The agent and the network *)

AgentVars == <<net, inbox, asked, version>>

Room(s) == Len(inbox[s]) < MaxInbox
Send(s, m) == inbox' = [inbox EXCEPT ![s] = Append(@, m)]

(* The upgrade request, with an agent's token, is let through. *)
AgentConnect(s) ==
  /\ net[s] = "unused"
  /\ \A o \in Sockets : net[o] # "up"
  /\ net' = [net EXCEPT ![s] = "up"]
  /\ UNCHANGED <<serverVars, inbox, asked, version>>

(* The agent's state changes; if it has a socket it says so. *)
AgentChange ==
  /\ version < MaxVersion
  /\ version' = version + 1
  /\ \/ /\ \A s \in Sockets : net[s] # "up"
        /\ UNCHANGED inbox
     \/ \E s \in Sockets :
          /\ net[s] = "up" /\ Room(s)
          /\ Send(s, Event(version'))
  /\ UNCHANGED <<serverVars, net, asked>>

(* The agent answers a request with its state of the moment, requests in   *)
(* any order.                                                              *)
AgentAnswer(s, t) ==
  /\ net[s] = "up" /\ Room(s)
  /\ t \in asked[s]
  /\ Send(s, Reply(t, version))
  /\ asked' = [asked EXCEPT ![s] = @ \ {t}]
  /\ UNCHANGED <<serverVars, net, version>>

(* It answers one a second time. *)
AgentRepeat(s, t) ==
  /\ net[s] = "up" /\ Room(s)
  /\ task[t].socket = s
  /\ task[t].pc \in {"waiting", "ready", "done", "failed"}
  /\ t \notin asked[s]
  /\ Send(s, Reply(t, version))
  /\ UNCHANGED <<serverVars, net, asked, version>>

AgentRequest(s) ==
  /\ net[s] = "up" /\ Room(s)
  /\ Send(s, Request)
  /\ UNCHANGED <<serverVars, net, asked, version>>

(* The connection is gone for the agent.  What it had sent may still       *)
(* reach the server before the server learns of it.                        *)
Drop(s) ==
  /\ net[s] = "up"
  /\ net' = [net EXCEPT ![s] = "down"]
  /\ asked' = [asked EXCEPT ![s] = {}]
  /\ UNCHANGED <<serverVars, inbox, version>>

-----------------------------------------------------------------------------
(* Helpers of the server *)

SetLoop(s, pc) == loop' = [loop EXCEPT ![s] = At(pc)]

(* Back to receive_text, which raises RuntimeError on a dead socket.       *)
NextReceive(s) == SetLoop(s, IF dead[s] THEN "broken" ELSE "receiving")

(* The coroutine of the socket has raised: the server closes the socket.   *)
Closed(s) ==
  /\ net' = [net EXCEPT ![s] = "down"]
  /\ asked' = [asked EXCEPT ![s] = {}]

(* create_task: the new task runs after those that can run already.        *)
Spawn(s) ==
  \E t \in Tasks :
    /\ task[t].pc = "unused"
    /\ task' = [task EXCEPT ![t] = Sync("new", s, 0)]
    /\ ready' = Append(ready, t)

-----------------------------------------------------------------------------
(* RealtimeManager.start *)

(* The handshake is accepted; up to the first receive nothing is awaited.  *)
Register(s) ==
  /\ net[s] # "unused" /\ loop[s].pc = "none"
  /\ active' = s
  /\ online' = TRUE
  /\ Spawn(s)
  /\ SetLoop(s, "receiving")
  /\ UNCHANGED <<AgentVars, dead, stored, acked>>

(* accept raises, or the database refuses the status: what has been        *)
(* registered stays.                                                       *)
RegisterFails(s) ==
  /\ net[s] # "unused" /\ loop[s].pc = "none"
  /\ active' \in {active, s}
  /\ SetLoop(s, "failed")
  /\ Closed(s)
  /\ UNCHANGED <<dead, online, inbox, task, ready, version, stored, acked>>

(* The future of the request gets its result; an answer nobody waits for,  *)
(* or no longer, is ignored.                                               *)
Awaited(t, s) == task[t].pc = "waiting" /\ task[t].socket = s

Resolve(s, m) ==
  \/ /\ Awaited(m.task, s)
     /\ task' = [task EXCEPT ![m.task] = Sync("ready", s, m.version)]
     /\ ready' = Append(ready, m.task)
  \/ /\ ~Awaited(m.task, s)
     /\ UNCHANGED <<task, ready>>

Take(s) == inbox' = [inbox EXCEPT ![s] = Tail(@)]

ReceiveReply(s) ==
  /\ loop[s].pc = "receiving" /\ inbox[s] # <<>>
  /\ Head(inbox[s]).kind = "reply"
  /\ Take(s)
  /\ online' = TRUE
  /\ Resolve(s, Head(inbox[s]))
  /\ NextReceive(s)
  /\ UNCHANGED <<net, asked, version, dead, active, stored, acked>>

(* A change is acknowledged if the environment has an entry, its own or    *)
(* not; otherwise the agent is told that it is not connected.              *)
ReceiveEvent(s) ==
  /\ loop[s].pc = "receiving" /\ inbox[s] # <<>>
  /\ Head(inbox[s]).kind = "event"
  /\ Take(s)
  /\ online' = TRUE
  /\ loop' = [loop EXCEPT ![s] =
       IF active # None
       THEN [pc |-> "acking", version |-> Head(inbox[s]).version]
       ELSE At("answering")]
  /\ UNCHANGED <<net, asked, version, dead, active, task, ready,
                 stored, acked>>

(* Of what else the agent asks, a heartbeat and system.info get no answer: *)
(* the response cannot be built without its origin, an exception that the  *)
(* loop swallows.  node.sync.request gets one, with the nodes or with an   *)
(* error.                                                                  *)
ReceiveRequest(s) ==
  /\ loop[s].pc = "receiving" /\ inbox[s] # <<>>
  /\ Head(inbox[s]).kind = "request"
  /\ Take(s)
  /\ online' = TRUE
  /\ NextReceive(s) \/ SetLoop(s, "answering")
  /\ UNCHANGED <<net, asked, version, dead, active, task, ready, stored, acked>>

(* The database refuses the status that every message sets: the exception  *)
(* leaves the loop past its cleanup.                                       *)
ReceiveFails(s) ==
  /\ loop[s].pc = "receiving" /\ inbox[s] # <<>>
  /\ Take(s)
  /\ SetLoop(s, "failed")
  /\ Closed(s)
  /\ UNCHANGED <<version, dead, active, online, task, ready, stored, acked>>

(* Mutated forms: the sync is started on the environment's entry as it is  *)
(* after the send; no new sync while one is not finished.                  *)
AckSentOnEntry(s) ==
  /\ loop[s].pc = "acking"
  /\ acked' = [acked EXCEPT ![s] = loop[s].version]
  /\ Spawn(active)
  /\ NextReceive(s)
  /\ UNCHANGED <<AgentVars, dead, active, online, stored>>

AckSentCoalescing(s) ==
  LET Unfinished(t) == task[t].socket = s /\ task[t].pc \in {"waiting", "ready"}
  IN
  /\ loop[s].pc = "acking"
  /\ acked' = [acked EXCEPT ![s] = loop[s].version]
  /\ \/ /\ ~\E t \in Tasks : Unfinished(t)
        /\ Spawn(s)
     \/ /\ \E t \in Tasks : Unfinished(t)
        /\ UNCHANGED <<task, ready>>
  /\ NextReceive(s)
  /\ UNCHANGED <<AgentVars, dead, active, online, stored>>

(* EventHandler: the acknowledgement is sent, then the sync is started.    *)
AckSent(s) ==
  /\ loop[s].pc = "acking"
  /\ acked' = [acked EXCEPT ![s] = loop[s].version]
  /\ Spawn(s)
  /\ NextReceive(s)
  /\ UNCHANGED <<AgentVars, dead, active, online, stored>>

AnswerSent(s) ==
  /\ loop[s].pc = "answering"
  /\ NextReceive(s)
  /\ UNCHANGED <<AgentVars, dead, active, online, task, ready, stored, acked>>

(* The send of a handler fails, or both sends of node.sync: the            *)
(* WebSocketDisconnect it raises is swallowed with every other exception   *)
(* of a handler, and the next receive_text raises another exception.       *)
HandlerSendFails(s) ==
  /\ loop[s].pc \in {"acking", "answering"}
  /\ net[s] = "down"
  /\ dead' = [dead EXCEPT ![s] = TRUE]
  /\ SetLoop(s, "broken")
  /\ UNCHANGED <<AgentVars, active, online, task, ready, stored, acked>>

(* Mutated form: the entry is removed only by the connection it holds.     *)
ReceiveDisconnectOwnEntry(s) ==
  /\ loop[s].pc = "receiving" /\ net[s] = "down"
  /\ active' = IF active = s THEN None ELSE active
  /\ online' = FALSE
  /\ inbox' = [inbox EXCEPT ![s] = <<>>]
  /\ SetLoop(s, "ended")
  /\ UNCHANGED <<net, asked, version, dead, task, ready, stored, acked>>

(* Mutated form: the environment goes offline only with the connection     *)
(* that its entry holds.                                                   *)
ReceiveDisconnectOwnStatus(s) ==
  /\ loop[s].pc = "receiving" /\ net[s] = "down"
  /\ active' = IF active = s THEN None ELSE active
  /\ online' = (online /\ active # s)
  /\ inbox' = [inbox EXCEPT ![s] = <<>>]
  /\ SetLoop(s, "ended")
  /\ UNCHANGED <<net, asked, version, dead, task, ready, stored, acked>>

(* The server learns that the socket is closed, whatever it held is lost:  *)
(* the environment's entry is removed and its status set.                  *)
ReceiveDisconnect(s) ==
  /\ loop[s].pc = "receiving" /\ net[s] = "down"
  /\ active' = None
  /\ online' = FALSE
  /\ inbox' = [inbox EXCEPT ![s] = <<>>]
  /\ SetLoop(s, "ended")
  /\ UNCHANGED <<net, asked, version, dead, task, ready, stored, acked>>

(* The same when the database refuses the status. *)
DisconnectFails(s) ==
  /\ loop[s].pc = "receiving" /\ net[s] = "down"
  /\ active' = None
  /\ inbox' = [inbox EXCEPT ![s] = <<>>]
  /\ SetLoop(s, "failed")
  /\ UNCHANGED <<net, asked, version, dead, online, task, ready,
                 stored, acked>>

-----------------------------------------------------------------------------
(* _sync_environment: the task at the head of the queue runs. *)

Runs(t, pc) == ready # <<>> /\ Head(ready) = t /\ task[t].pc = pc

(* Mutated form: the request goes through ConnectionManager.send, which    *)
(* drops a message equal to a recent one but for its request_id.           *)
RequestSnapshotDeduplicated(t) ==
  LET s == task[t].socket
      Recent == \E u \in Tasks : u # t /\ task[u].socket = s
                                       /\ task[u].pc \in {"waiting", "ready", "done"}
  IN
  /\ Runs(t, "new")
  /\ ~dead[s]
  /\ ready' = Tail(ready)
  /\ task' = [task EXCEPT ![t].pc = "waiting"]
  /\ asked' = [asked EXCEPT ![s] = IF net[s] = "up" /\ ~Recent THEN @ \cup {t} ELSE @]
  /\ UNCHANGED <<net, loop, dead, active, online, inbox, version, stored,
                 acked>>

(* The future is registered, the request sent and the answer awaited: the  *)
(* send and the answer are one wait, as nothing is read between them.  A   *)
(* request sent into a closed socket may be lost without an exception.     *)
RequestSnapshot(t) ==
  LET s == task[t].socket IN
  /\ Runs(t, "new")
  /\ ~dead[s]
  /\ ready' = Tail(ready)
  /\ task' = [task EXCEPT ![t].pc = "waiting"]
  /\ asked' = [asked EXCEPT ![s] = IF net[s] = "up" THEN @ \cup {t} ELSE @]
  /\ UNCHANGED <<net, loop, dead, active, online, inbox, version, stored,
                 acked>>

(* The send raises: the task logs it and is over. *)
RequestFails(t) ==
  LET s == task[t].socket IN
  /\ Runs(t, "new")
  /\ dead[s] \/ net[s] = "down"
  /\ ready' = Tail(ready)
  /\ task' = [task EXCEPT ![t].pc = "failed"]
  /\ dead' = [dead EXCEPT ![s] = TRUE]
  /\ UNCHANGED <<AgentVars, loop, active, online, stored, acked>>

(* Mutated form: resumed tasks run in any order, as they would if the      *)
(* snapshot were stored in a thread.                                       *)
StoreSnapshotInAnyOrder(t) ==
  /\ task[t].pc = "ready"
  /\ ready' = SelectSeq(ready, LAMBDA u : u # t)
  /\ task' = [task EXCEPT ![t].pc = "done"]
  /\ stored' = [stored EXCEPT ![task[t].socket] = task[t].version]
  /\ UNCHANGED <<AgentVars, loop, dead, active, online, acked>>

(* The answer is a snapshot and the database takes it, before any other    *)
(* coroutine runs.                                                         *)
StoreSnapshot(t) ==
  /\ Runs(t, "ready")
  /\ ready' = Tail(ready)
  /\ task' = [task EXCEPT ![t].pc = "done"]
  /\ stored' = [stored EXCEPT ![task[t].socket] = task[t].version]
  /\ UNCHANGED <<AgentVars, loop, dead, active, online, acked>>

(* The agent answered with an error, the snapshot is not valid or the      *)
(* database refuses it: logged, and not tried again.                       *)
StoreFails(t) ==
  /\ Runs(t, "ready")
  /\ ready' = Tail(ready)
  /\ task' = [task EXCEPT ![t].pc = "failed"]
  /\ UNCHANGED <<AgentVars, loop, dead, active, online, stored, acked>>

-----------------------------------------------------------------------------
(* The process ends without a word and starts again: entries, loops and    *)
(* tasks are gone, the database stays.                                     *)
Restart ==
  /\ \E s \in Sockets : Running(s)
  /\ net' = [s \in Sockets |-> IF net[s] = "up" THEN "down" ELSE net[s]]
  /\ loop' = [s \in Sockets |->
       IF Running(s) \/ (net[s] # "unused" /\ loop[s].pc = "none")
       THEN At("killed") ELSE loop[s]]
  /\ active' = None
  /\ ready' = <<>>
  /\ task' = [t \in Tasks |->
       IF task[t].pc \in {"unused", "done"} THEN task[t]
       ELSE Sync("failed", task[t].socket, task[t].version)]
  /\ asked' = [s \in Sockets |-> {}]
  /\ inbox' = [s \in Sockets |-> <<>>]
  /\ UNCHANGED <<dead, online, version, stored, acked>>

-----------------------------------------------------------------------------
Agent(s) ==
  \/ AgentConnect(s)
  \/ \E t \in Tasks : AgentAnswer(s, t) \/ AgentRepeat(s, t)
  \/ AgentRequest(s)
  \/ Drop(s)

Receive(s) ==
  ReceiveReply(s) \/ ReceiveEvent(s) \/ ReceiveRequest(s)
    \/ ReceiveDisconnect(s)

Loop(s) ==
  \/ Register(s) \/ RegisterFails(s)
  \/ Receive(s) \/ ReceiveFails(s) \/ DisconnectFails(s)
  \/ AckSent(s) \/ AnswerSent(s) \/ HandlerSendFails(s)

Run(t) ==
  RequestSnapshot(t) \/ RequestFails(t) \/ StoreSnapshot(t) \/ StoreFails(t)

Next ==
  \/ AgentChange
  \/ \E s \in Sockets : Agent(s) \/ Loop(s)
  \/ \E t \in Tasks : Run(t)
  \/ Restart

Spec == Init /\ [][Next]_vars

(* The event loop runs what can run; nothing in a handler or a task waits  *)
(* without end but a task for its answer, and the agent answers.           *)
FairSpec ==
  /\ Spec
  /\ \A s \in Sockets :
       /\ WF_vars(Register(s) \/ RegisterFails(s))
       /\ WF_vars(Receive(s))
       /\ WF_vars(AckSent(s) \/ AnswerSent(s) \/ HandlerSendFails(s))
  /\ \A t \in Tasks :
       /\ WF_vars(Run(t))
       /\ \A s \in Sockets : SF_vars(AgentAnswer(s, t))

-----------------------------------------------------------------------------
(* Properties *)

SyncsOn(s) == {t \in Tasks : task[t].socket = s}
SyncFailed(s) == \E t \in SyncsOn(s) : task[t].pc = "failed"

(* The database as a copy of the agent's state, one per socket. *)
Copy == INSTANCE AgentCopy WITH
  Channels <- Sockets, source <- version, copy <- stored,
  broken <- [s \in Sockets |-> net[s] # "up" \/ SyncFailed(s)]

(* What a socket brings to the database is what AgentCopy promises: only   *)
(* states that the agent has been in, of which it was told no more than    *)
(* there was, and never an older one after a newer one.                    *)
StoresCopies == Copy!Spec

(* While the loop of the registered socket runs the environment is online  *)
(* in the database: entry and status never part, whichever sockets close   *)
(* around it.                                                              *)
RegisteredIsOnline ==
  active # None /\ Running(active) => online

(* A task on its way to store version v or a later one. *)
Covers(t, s, v) ==
  \/ task[t].pc = "new"
  \/ task[t].pc = "waiting" /\ t \in asked[s]
  \/ task[t].pc = "waiting" /\ \E i \in DOMAIN inbox[s] :
       inbox[s][i].task = t /\ inbox[s][i].version >= v
  \/ task[t].pc = "ready" /\ task[t].version >= v

(* No acknowledged change is forgotten: as long as the socket lives and    *)
(* none of its syncs has failed, an acknowledged version has been stored   *)
(* or a task is on its way to store it, whatever answers the agent repeats *)
(* and however tasks overlap.                                              *)
AckedChangeCovered ==
  \A s \in Sockets : net[s] = "up" /\ Running(s) /\ ~SyncFailed(s) =>
    \/ stored[s] >= acked[s]
    \/ \E t \in SyncsOn(s) : Covers(t, s, acked[s])

(* What the agent was told is recorded does reach the database, unless the *)
(* socket goes or a sync on it fails: the copy is never behind for good.   *)
CopiesCatchUp == Copy!FairSpec

(* docs/REALTIME_FLOW: the manager has to "clean up the connection and     *)
(* mark the environment Offline if the WebSocket closes".  Once every loop *)
(* that was started has ended so, none by another exception or with the    *)
(* process, there is no entry and the status says offline, however the     *)
(* loops overlapped and whatever an old socket still had to deliver.       *)
EndedMeansOffline ==
  (\A s \in Sockets : loop[s].pc \in {"none", "ended"}) => active = None /\ ~online

=============================================================================
