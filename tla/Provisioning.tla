---------------------------- MODULE Provisioning ----------------------------
(***************************************************************************)
(* How a published container gets its node: after every snapshot the       *)
(* orchestrator decides from the container's recorded state whether a      *)
(* preauth key has to be made and the agent told to join with it.          *)
(*                                                                         *)
(* Each sync task runs the orchestrator in a session of its own.  The      *)
(* tasks share one event loop: a task that has it keeps it until it awaits *)
(* the send to the agent.  The threads that serve clients run all the      *)
(* while, make keys of the same container, and delete environments: the    *)
(* Headscale user goes first, with its keys, in a commit of its own.  One  *)
(* container is modelled, for as long as it is recorded; the orchestrator  *)
(* treats them one by one and reloads after each commit.                   *)
(***************************************************************************)
EXTENDS Naturals, FiniteSets

CONSTANTS
  Tasks,      \* sync tasks that are under way at once
  Keys,       \* row identities of the container's preauth keys (bound)
  AgentTTL,   \* twenty-four hours: life of a key made for the container
  ClientTTL,  \* one hour: life of a key made for a client
  DedupTime,  \* five seconds: equal messages are dropped this long
  MaxTime     \* bound of the clock

ASSUME TimeAssumption ==
  /\ AgentTTL \in Nat \ {0}
  /\ ClientTTL \in Nat \ {0}
  /\ DedupTime \in Nat
  /\ MaxTime \in Nat

CONSTANT None
ASSUME NoneAssumption == None \notin Tasks \cup Keys

VARIABLES
  clock,
  status,      \* the container's provisioning_status
  running,     \* its status is "running"
  nodeUp,      \* its published_node has ids, an address and is online
  online,      \* the environment's status_online
  registered,  \* the environment has an entry in active_connections
  user,        \* headscale_users has a row of the environment
  keyExp,      \* headscale_preauth_keys: expiration, 0 for no row
  keyFor,      \* whom the key was made for; deleted: its row is gone
  dropUntil,   \* _last_sent_hashes: when a message with key k is sent again
  task,        \* what each task is doing
  holder       \* the task that has the event loop, or None

dbVars == <<status, running, nodeUp, user, keyExp, keyFor>>
linkVars == <<online, registered>>
vars == <<clock, dbVars, linkVars, dropUntil, task, holder>>

Statuses == {"PENDING", "KEY_CREATED", "WAITING_AGENT", "CONNECTED"}

(* key: the active key; loaded: the status the session has of the row.     *)
TaskState == [pc : {"idle", "stored", "ready", "keyless", "keyed", "marked",
                    "dispatching", "sending"},
              key : Keys \cup {None}, loaded : Statuses]
Working(pc, k, st) == [pc |-> pc, key |-> k, loaded |-> st]
Idle == Working("idle", None, "PENDING")

TypeOK ==
  /\ clock \in 0..MaxTime
  /\ status \in Statuses
  /\ running \in BOOLEAN /\ nodeUp \in BOOLEAN
  /\ online \in BOOLEAN /\ registered \in BOOLEAN
  /\ keyExp \in [Keys -> Nat]
  /\ user \in BOOLEAN
  /\ keyFor \in [Keys -> {"agent", "client", "deleted"}]
  /\ dropUntil \in [Keys -> Nat]
  /\ task \in [Tasks -> TaskState]
  /\ \A t \in Tasks :
       task[t].pc \in {"keyed", "marked", "dispatching", "sending"}
       => task[t].key \in Keys
  /\ holder \in Tasks \cup {None}

Init ==
  /\ clock = 0
  /\ status = "PENDING"
  /\ running = FALSE /\ nodeUp = FALSE
  /\ online = FALSE /\ registered = FALSE
  /\ user = FALSE
  /\ keyExp = [k \in Keys |-> 0]
  /\ keyFor = [k \in Keys |-> "agent"]
  /\ dropUntil = [k \in Keys |-> 0]
  /\ task = [t \in Tasks |-> Idle]
  /\ holder = None

-----------------------------------------------------------------------------
(* Helpers *)

NoRow(k) == keyExp[k] = 0
InForce(k) == keyExp[k] > clock

(* A row identity no key has had: uuids are not used again. *)
Fresh(k) == NoRow(k) /\ keyFor[k] # "deleted"
SetTask(t, w) == task' = [task EXCEPT ![t] = w]

(* The task has the event loop and is at pc. *)
Runs(t, pc) == holder = t /\ task[t].pc = pc

(* The task is over, and gives the event loop back. *)
Over(t) == SetTask(t, Idle) /\ holder' = None

-----------------------------------------------------------------------------
(* The sync task *)

(* The snapshot is stored in one transaction: the container's status, its  *)
(* node, and CONNECTED when the node works.                                *)
StoreSnapshot(t) ==
  /\ holder = None /\ task[t].pc = "idle"
  /\ running' \in BOOLEAN /\ nodeUp' \in BOOLEAN
  /\ status' = IF nodeUp' THEN "CONNECTED" ELSE status
  /\ SetTask(t, Working("stored", None, status'))
  /\ holder' = t
  /\ UNCHANGED <<clock, linkVars, user, keyExp, keyFor, dropUntil>>

(* An exception of Headscale or the database: what is committed stays.  A  *)
(* key that Headscale made, whose answer or commit was lost, is recorded   *)
(* nowhere.                                                                *)
OrchestrateFails(t) ==
  /\ holder = t
  /\ Over(t)
  /\ UNCHANGED <<clock, dbVars, linkVars, dropUntil>>

Due == online /\ running

(* The environment is given its Headscale user again where it has none.    *)
EnsureUser(t) ==
  /\ Runs(t, "stored")
  /\ user' = TRUE
  /\ SetTask(t, Working("ready", None, task[t].loaded))
  /\ UNCHANGED <<clock, status, running, nodeUp, keyExp, keyFor, linkVars,
                 dropUntil, holder>>

(* Mutated forms: a container that has a key is left alone; one that is    *)
(* CONNECTED is given a key whether its node works or not; one that waits  *)
(* for the agent goes on waiting.                                          *)
DecisionKeyIsEnough(k) ==
  IF ~Due THEN "SKIP"
  ELSE IF status = "CONNECTED"
       THEN IF nodeUp THEN "SKIP" ELSE "RESET_AND_PROVISION"
  ELSE IF k # None THEN "SKIP" ELSE "PROVISION"

DecisionIgnoringNode(k) ==
  IF ~Due THEN "SKIP"
  ELSE IF k # None THEN "DISPATCH_EVENT" ELSE "RESET_AND_PROVISION"

DecisionWaitingWaits(k) ==
  IF ~Due THEN "SKIP"
  ELSE IF status = "CONNECTED"
       THEN IF nodeUp THEN "SKIP" ELSE "RESET_AND_PROVISION"
  ELSE IF k # None THEN "DISPATCH_EVENT"
  ELSE IF status = "WAITING_AGENT" THEN "SKIP" ELSE "PROVISION"

(* ProvisioningDecisionService.evaluate_container, for the key the         *)
(* orchestrator found in force, or None.                                   *)
Decision(k) ==
  IF ~Due THEN "SKIP"
  ELSE IF status = "CONNECTED"
       THEN IF nodeUp THEN "SKIP" ELSE "RESET_AND_PROVISION"
  ELSE IF k # None THEN "DISPATCH_EVENT"
  ELSE IF status = "PENDING" THEN "PROVISION" ELSE "RESET_AND_PROVISION"

(* One of the keys in force is taken, in no order; None if there is none.  *)
Found(k) ==
  \/ k \in Keys /\ InForce(k)
  \/ k = None /\ ~\E j \in Keys : InForce(j)

ResetStatus == "PENDING"

(* The container's state and keys are read and the decision is taken.  A   *)
(* reset is committed at once, whatever becomes of the new key.            *)
Decide(t) ==
  /\ Runs(t, "ready")
  /\ \E k \in Keys \cup {None} :
       /\ Found(k)
       /\ \/ /\ Decision(k) = "SKIP"
             /\ Over(t)
             /\ UNCHANGED status
          \/ /\ Decision(k) = "RESET_AND_PROVISION"
             /\ status' = ResetStatus
             /\ SetTask(t, Working("keyless", None, ResetStatus))
             /\ UNCHANGED holder
          \/ /\ Decision(k) = "PROVISION"
             /\ SetTask(t, Working("keyless", None, status))
             /\ UNCHANGED <<status, holder>>
          \/ /\ Decision(k) = "DISPATCH_EVENT"
             /\ SetTask(t, Working("dispatching", k, status))
             /\ UNCHANGED <<status, holder>>
  /\ UNCHANGED <<clock, running, nodeUp, user, keyExp, keyFor, linkVars,
                 dropUntil>>

(* Mutated forms: a key is made without looking for one in force; the key  *)
(* found when the decision was taken is used, None included.               *)
EnsureKeyAlways(t) ==
  /\ Runs(t, "keyless")
  /\ \E k \in Keys :
       /\ Fresh(k)
       /\ keyExp' = [keyExp EXCEPT ![k] = clock + AgentTTL]
       /\ keyFor' = [keyFor EXCEPT ![k] = "agent"]
       /\ SetTask(t, Working("keyed", k, task[t].loaded))
  /\ UNCHANGED <<clock, status, running, nodeUp, user, linkVars, dropUntil,
                 holder>>

EnsureKeyNotRead(t) ==
  /\ Runs(t, "keyless")
  /\ SetTask(t, Working("keyed", task[t].key, task[t].loaded))
  /\ UNCHANGED <<clock, dbVars, linkVars, dropUntil,
                 holder>>

(* ensure_container_preauth_key: a key in force is used, whoever it was    *)
(* made for; else Headscale makes one, which is committed before the       *)
(* container's row is touched.  Without the user it raises, as it does     *)
(* when Headscale or the commit fails: OrchestrateFails.                   *)
EnsureKey(t) ==
  /\ Runs(t, "keyless")
  /\ user
  /\ \E k \in Keys :
       /\ \/ /\ InForce(k)
             /\ UNCHANGED <<keyExp, keyFor>>
          \/ /\ ~\E j \in Keys : InForce(j)
             /\ Fresh(k)
             /\ keyExp' = [keyExp EXCEPT ![k] = clock + AgentTTL]
             /\ keyFor' = [keyFor EXCEPT ![k] = "agent"]
       /\ SetTask(t, Working("keyed", k, task[t].loaded))
  /\ UNCHANGED <<clock, status, running, nodeUp, user, linkVars, dropUntil,
                 holder>>

(* The commit makes the session forget the key it holds: to be sent, it is *)
(* read once more.                                                         *)
MarkKeyCreated(t) ==
  /\ Runs(t, "keyed")
  /\ status' = "KEY_CREATED"
  /\ SetTask(t, Working("marked", task[t].key, "KEY_CREATED"))
  /\ UNCHANGED <<clock, running, nodeUp, user, keyExp, keyFor, linkVars,
                 dropUntil, holder>>

(* The row is written only when the session has another status of it, and  *)
(* then over whatever was committed since.                                 *)
WriteWaiting(t) ==
  status' = IF task[t].loaded = "WAITING_AGENT" THEN status ELSE "WAITING_AGENT"

(* The key can be put into the message: its row was read when the decision *)
(* was taken, or is still there.                                           *)
HasKey(t) ==
  \/ Runs(t, "dispatching")
  \/ Runs(t, "marked") /\ ~NoRow(task[t].key)

(* Without an entry the container is left as it is. *)
AgentOffline(t) ==
  /\ Runs(t, "dispatching") \/ Runs(t, "marked")
  /\ ~registered
  /\ Over(t)
  /\ UNCHANGED <<clock, dbVars, linkVars, dropUntil>>

(* An equal message was on its way less than DedupTime ago: send returns,  *)
(* and the container waits for the agent.                                  *)
DispatchDropped(t) ==
  /\ HasKey(t)
  /\ registered
  /\ clock < dropUntil[task[t].key]
  /\ WriteWaiting(t)
  /\ Over(t)
  /\ UNCHANGED <<clock, running, nodeUp, user, keyExp, keyFor, linkVars,
                 dropUntil>>

(* The message is noted as sent and handed to the socket; other coroutines *)
(* run until the socket has taken it.                                      *)
Dispatch(t) ==
  /\ HasKey(t)
  /\ registered
  /\ clock >= dropUntil[task[t].key]
  /\ dropUntil' = [dropUntil EXCEPT ![task[t].key] = clock + DedupTime]
  /\ SetTask(t, Working("sending", task[t].key, task[t].loaded))
  /\ holder' = None
  /\ UNCHANGED <<clock, dbVars, linkVars>>

SendDone(t) ==
  /\ holder = None /\ task[t].pc = "sending"
  /\ WriteWaiting(t)
  /\ SetTask(t, Idle)
  /\ UNCHANGED <<clock, running, nodeUp, user, keyExp, keyFor, linkVars,
                 dropUntil, holder>>

(* The socket is gone: the exception ends the task. *)
SendFails(t) ==
  /\ holder = None /\ task[t].pc = "sending"
  /\ SetTask(t, Idle)
  /\ UNCHANGED <<clock, dbVars, linkVars, dropUntil,
                 holder>>

-----------------------------------------------------------------------------
(* The rest of the service *)

(* A thread makes sure of the user, and a key of this container for a      *)
(* client, unless Headscale refuses it.                                    *)
ClientKey(k) ==
  /\ user' = TRUE
  /\ \/ /\ Fresh(k)
        /\ keyExp' = [keyExp EXCEPT ![k] = clock + ClientTTL]
        /\ keyFor' = [keyFor EXCEPT ![k] = "client"]
     \/ UNCHANGED <<keyExp, keyFor>>
  /\ UNCHANGED <<clock, status, running, nodeUp, linkVars, dropUntil, task,
                 holder>>

(* A thread deletes the environment: the first commit takes its Headscale  *)
(* user and every key.  The container stays until the second one, for good *)
(* when that fails.                                                        *)
RemoveUser ==
  /\ user
  /\ user' = FALSE
  /\ keyExp' = [k \in Keys |-> 0]
  /\ keyFor' = [k \in Keys |-> IF NoRow(k) THEN keyFor[k] ELSE "deleted"]
  /\ UNCHANGED <<clock, status, running, nodeUp, linkVars, dropUntil, task,
                 holder>>

(* Sockets open and close: in RealtimeManager entry and status part in     *)
(* every way.                                                              *)
ChangeLink ==
  /\ holder = None
  /\ online' \in BOOLEAN /\ registered' \in BOOLEAN
  /\ UNCHANGED <<clock, dbVars, dropUntil, task, holder>>

(* The process ends and starts again. *)
Restart ==
  /\ registered' = FALSE
  /\ dropUntil' = [k \in Keys |-> 0]
  /\ task' = [t \in Tasks |-> Idle]
  /\ holder' = None
  /\ UNCHANGED <<clock, dbVars, online>>

Tick ==
  /\ clock < MaxTime
  /\ clock' = clock + 1
  /\ UNCHANGED <<dbVars, linkVars, dropUntil, task, holder>>

-----------------------------------------------------------------------------
Orchestrate(t) ==
  \/ EnsureUser(t) \/ Decide(t) \/ EnsureKey(t) \/ MarkKeyCreated(t)
  \/ AgentOffline(t) \/ DispatchDropped(t) \/ Dispatch(t)

Sync(t) ==
  \/ StoreSnapshot(t) \/ OrchestrateFails(t)
  \/ Orchestrate(t)
  \/ SendDone(t) \/ SendFails(t)

Next ==
  \/ \E t \in Tasks : Sync(t)
  \/ \E k \in Keys : ClientKey(k)
  \/ RemoveUser
  \/ ChangeLink
  \/ Restart
  \/ Tick

Spec == Init /\ [][Next]_vars

(* A task that has the event loop goes on, and neither the database,       *)
(* Headscale nor the send fails for ever.  Of the agent: again and again   *)
(* it is connected, with its environment online, and then snapshots of the *)
(* running container come that the orchestrator gets to see.               *)
Reachable == online /\ registered
FairSpec ==
  /\ Spec
  /\ SF_vars(ChangeLink /\ online' /\ registered')
  /\ \A t \in Tasks :
       /\ SF_vars(StoreSnapshot(t) /\ running' /\ Reachable)
       /\ SF_vars(EnsureUser(t) /\ Due /\ registered)
       /\ SF_vars(Decide(t) /\ Due /\ registered)
       /\ SF_vars(DispatchDropped(t) \/ Dispatch(t))
       /\ SF_vars(SendDone(t))
       /\ WF_vars(OrchestrateFails(t) \/ Orchestrate(t))

-----------------------------------------------------------------------------
(* Properties *)

(* However many syncs overlap, the container never has two keys of its own *)
(* in force: the search for one and the making of one are one turn of the  *)
(* event loop.                                                             *)
OneAgentKey ==
  \A j, k \in Keys :
    InForce(j) /\ InForce(k) /\ keyFor[j] = "agent" /\ keyFor[k] = "agent"
    => j = k

(* published_node_sync_service, Rule 7: the status is "CONNECTED if node   *)
(* is fully functional".  So it is as long as syncs do not overlap.        *)
FunctionalIsConnected == nodeUp => status = "CONNECTED"

(* When they do, a task that was in its send when the node came up writes  *)
(* WAITING_AGENT over it.  No more than that: while the node works no join *)
(* is sent, and its container's status is taken back by the sends only     *)
(* that were under way before, each of them once.                          *)
OnlyLateSendsOverwrite ==
  [][nodeUp =>
       /\ \A t \in Tasks : task'[t].pc = "sending" => task[t].pc = "sending"
       /\ \/ status' \in {status, "CONNECTED"}
          \/ \E t \in Tasks : task[t].pc = "sending" /\ task'[t].pc = "idle"]_vars

(* A key that was made but not handed over is tried again, or its          *)
(* container starts again: KEY_CREATED does not last.  A message that is   *)
(* dropped as equal to one just sent ends it as well (ConnectionManager).  *)
KeyReachesAgent == status = "KEY_CREATED" ~> status # "KEY_CREATED"

(* A container whose key has lapsed, or was deleted with the environment's *)
(* user while the container stayed, does not wait for ever for an agent to *)
(* use it: it starts again or is given another.                            *)
AwaitsDeadKey ==
  status \in {"KEY_CREATED", "WAITING_AGENT"} /\ ~\E k \in Keys : InForce(k)
DeadKeyStartsAgain == AwaitsDeadKey ~> ~AwaitsDeadKey

=============================================================================
