------------------------- MODULE ProvisioningProofs -------------------------
(***************************************************************************)
(* What holds of the provisioning of a container for every number of       *)
(* overlapping sync tasks and of keys, and all lifetimes.                  *)
(***************************************************************************)
EXTENDS Provisioning, TLAPS

-----------------------------------------------------------------------------
(* A key is handed over only if one was found.                             *)
LEMMA DispatchHasKey ==
  ASSUME NEW k, Decision(k) = "DISPATCH_EVENT"
  PROVE  k # None
BY DEF Decision

LEMMA IdleTyped == Idle \in TaskState /\ Idle.pc = "idle"
BY DEF Idle, Working, TaskState, Statuses

-----------------------------------------------------------------------------
(* The variables keep their types, and a task that hands a key over has    *)
(* one (ProvisioningOrchestrator.orchestrate).                             *)
THEOREM TypeCorrect == Spec => []TypeOK
<1> USE TimeAssumption, NoneAssumption
<1>1. Init => TypeOK
  <2> SUFFICES ASSUME Init PROVE TypeOK
    OBVIOUS
  <2>1. task \in [Tasks -> TaskState] /\ \A t \in Tasks : task[t].pc = "idle"
    BY IdleTyped DEF Init
  <2>2. /\ keyExp \in [Keys -> Nat]
        /\ keyFor \in [Keys -> {"agent", "client", "deleted"}]
        /\ dropUntil \in [Keys -> Nat]
    BY DEF Init
  <2>3. \A t \in Tasks :
          task[t].pc \in {"keyed", "marked", "dispatching", "sending"}
          => task[t].key \in Keys
    BY <2>1
  <2>4. /\ clock \in 0..MaxTime
        /\ status \in Statuses
        /\ holder \in Tasks \cup {None}
    BY DEF Init, Statuses
  <2>5. /\ running \in BOOLEAN /\ nodeUp \in BOOLEAN
        /\ online \in BOOLEAN /\ registered \in BOOLEAN
        /\ user \in BOOLEAN
    BY DEF Init
  <2> QED
    BY <2>1, <2>2, <2>3, <2>4, <2>5 DEF TypeOK
<1>2. TypeOK /\ [Next]_vars => TypeOK'
  <2> SUFFICES ASSUME TypeOK, [Next]_vars PROVE TypeOK'
    OBVIOUS
  <2> USE DEF TypeOK, dbVars, linkVars
  <2>1. ASSUME NEW t \in Tasks, StoreSnapshot(t) PROVE TypeOK'
    BY <2>1 DEF StoreSnapshot, SetTask, Working, TaskState, Statuses
  <2>2. ASSUME NEW t \in Tasks, OrchestrateFails(t) PROVE TypeOK'
    BY <2>2, IdleTyped DEF OrchestrateFails, Over, SetTask, Idle, Working
  <2>3. ASSUME NEW t \in Tasks, Decide(t) PROVE TypeOK'
    <3>1. PICK k \in Keys \cup {None} : 
            \/ Over(t) /\ UNCHANGED status
            \/ /\ status' = ResetStatus
               /\ SetTask(t, Working("keyless", None, ResetStatus))
               /\ UNCHANGED holder
            \/ /\ SetTask(t, Working("keyless", None, status))
               /\ UNCHANGED <<status, holder>>
            \/ /\ k # None
               /\ SetTask(t, Working("dispatching", k, status))
               /\ UNCHANGED <<status, holder>>
      BY <2>3, DispatchHasKey DEF Decide
    <3>2. UNCHANGED <<clock, running, nodeUp, user, keyExp, keyFor, linkVars,
                      dropUntil>>
      BY <2>3 DEF Decide
    <3>3. CASE Over(t) /\ UNCHANGED status
      BY <3>2, <3>3, IdleTyped DEF Over, SetTask, Idle, Working
    <3>4. CASE /\ status' = ResetStatus
               /\ SetTask(t, Working("keyless", None, ResetStatus))
               /\ UNCHANGED holder
      BY <3>2, <3>4 DEF SetTask, Working, TaskState, Statuses, ResetStatus
    <3>5. CASE /\ SetTask(t, Working("keyless", None, status))
               /\ UNCHANGED <<status, holder>>
      BY <3>2, <3>5 DEF SetTask, Working, TaskState
    <3>6. CASE /\ k # None
               /\ SetTask(t, Working("dispatching", k, status))
               /\ UNCHANGED <<status, holder>>
      BY <3>2, <3>6 DEF SetTask, Working, TaskState
    <3> QED
      BY <3>1, <3>3, <3>4, <3>5, <3>6
  <2>4. ASSUME NEW t \in Tasks, EnsureKey(t) PROVE TypeOK'
    BY <2>4 DEF EnsureKey, SetTask, Working, TaskState
  <2>5. ASSUME NEW t \in Tasks, MarkKeyCreated(t) PROVE TypeOK'
    BY <2>5 DEF MarkKeyCreated, Runs, SetTask, Working, TaskState, Statuses
  <2>6. ASSUME NEW t \in Tasks, AgentOffline(t) PROVE TypeOK'
    BY <2>6, IdleTyped DEF AgentOffline, Over, SetTask, Idle, Working
  <2>7. ASSUME NEW t \in Tasks, DispatchDropped(t) PROVE TypeOK'
    BY <2>7, IdleTyped
    DEF DispatchDropped, WriteWaiting, Over, SetTask, Idle, Working, Statuses
  <2>8. ASSUME NEW t \in Tasks, Dispatch(t) PROVE TypeOK'
    BY <2>8 DEF Dispatch, HasKey, Runs, SetTask, Working, TaskState
  <2>9. ASSUME NEW t \in Tasks, SendDone(t) PROVE TypeOK'
    BY <2>9, IdleTyped
    DEF SendDone, WriteWaiting, SetTask, Idle, Working, Statuses
  <2>10. ASSUME NEW t \in Tasks, SendFails(t) PROVE TypeOK'
    BY <2>10, IdleTyped DEF SendFails, SetTask, Idle, Working
  <2>11. ASSUME NEW k \in Keys, ClientKey(k) PROVE TypeOK'
    BY <2>11 DEF ClientKey
  <2>12. ASSUME NEW t \in Tasks, EnsureUser(t) PROVE TypeOK'
    BY <2>12 DEF EnsureUser, SetTask, Working, TaskState
  <2>13. CASE RemoveUser
    BY <2>13 DEF RemoveUser
  <2>14. CASE ChangeLink
    BY <2>14 DEF ChangeLink
  <2>15. CASE Restart
    BY <2>15, IdleTyped DEF Restart, Idle, Working
  <2>16. CASE Tick
    BY <2>16 DEF Tick
  <2>17. CASE UNCHANGED vars
    BY <2>17 DEF vars
  <2> QED
    BY <2>1, <2>2, <2>3, <2>4, <2>5, <2>6, <2>7, <2>8, <2>9, <2>10, <2>11,
       <2>12, <2>13, <2>14, <2>15, <2>16, <2>17 DEF Next, Sync, Orchestrate
<1> QED
  BY <1>1, <1>2, PTL DEF Spec

-----------------------------------------------------------------------------
(* Two agent keys are never in force together: one is made only when no    *)
(* key at all is in force, and time only takes keys out of force           *)
(* (HeadscaleProvisioningService.ensure_container_preauth_key).            *)
THEOREM AgentKeyUnique == Spec => []OneAgentKey
<1> USE TimeAssumption, NoneAssumption
<1>1. Init => OneAgentKey
  BY DEF Init, OneAgentKey, InForce
<1>2. TypeOK /\ OneAgentKey /\ [Next]_vars => OneAgentKey'
  <2> SUFFICES ASSUME TypeOK, OneAgentKey, [Next]_vars PROVE OneAgentKey'
    OBVIOUS
  <2> USE DEF TypeOK, OneAgentKey, InForce
  <2>1. CASE UNCHANGED <<clock, keyExp, keyFor>>
    BY <2>1
  <2>2. ASSUME NEW t \in Tasks, EnsureKey(t) PROVE OneAgentKey'
    <3>1. CASE UNCHANGED <<keyExp, keyFor>>
      BY <2>2, <3>1 DEF EnsureKey
    <3>2. CASE /\ ~\E j \in Keys : InForce(j)
               /\ \E k \in Keys :
                    keyExp' = [keyExp EXCEPT ![k] = clock + AgentTTL]
      <4>1. PICK k \in Keys : keyExp' = [keyExp EXCEPT ![k] = clock + AgentTTL]
        BY <3>2
      <4>2. clock' = clock
        BY <2>2 DEF EnsureKey
      <4>3. \A j \in Keys : keyExp'[j] > clock' => j = k
        BY <3>2, <4>1, <4>2
      <4> QED
        BY <4>3
    <3> QED
      BY <2>2, <3>1, <3>2 DEF EnsureKey
  <2>3. ASSUME NEW k \in Keys, ClientKey(k) PROVE OneAgentKey'
    <3>1. CASE UNCHANGED <<keyExp, keyFor>>
      BY <2>3, <3>1 DEF ClientKey
    <3>2. CASE ~UNCHANGED <<keyExp, keyFor>>
      <4>1. /\ keyFor'[k] = "client" /\ clock' = clock
            /\ \A j \in Keys \ {k} :
                 keyExp'[j] = keyExp[j] /\ keyFor'[j] = keyFor[j]
        BY <2>3, <3>2 DEF ClientKey
      <4> QED
        BY <4>1
    <3> QED
      BY <3>1, <3>2
  <2>4. CASE Tick
    <3>1. /\ UNCHANGED <<keyExp, keyFor>> /\ clock' = clock + 1
          /\ clock \in Nat /\ \A k \in Keys : keyExp[k] \in Nat
      BY <2>4 DEF Tick, dbVars
    <3> QED
      BY <3>1
  <2>5. ASSUME NEW t \in Tasks, Sync(t), ~EnsureKey(t)
        PROVE  UNCHANGED <<clock, keyExp, keyFor>>
    BY <2>5
    DEF Sync, Orchestrate, StoreSnapshot, OrchestrateFails, EnsureUser, Decide,
        MarkKeyCreated, AgentOffline, DispatchDropped, Dispatch, SendDone,
        SendFails, dbVars
  <2>6. CASE RemoveUser
    <3>1. /\ keyExp' = [k \in Keys |-> 0] /\ clock' = clock
          /\ clock \in Nat
      BY <2>6 DEF RemoveUser
    <3> QED
      BY <3>1
  <2> QED
    BY <2>1, <2>2, <2>3, <2>4, <2>5, <2>6
    DEF Next, ChangeLink, Restart, vars, dbVars
<1> QED
  BY <1>1, <1>2, TypeCorrect, PTL DEF Spec

-----------------------------------------------------------------------------
(* A task that is neither idle nor in its send has the event loop.  When   *)
(* the node works, none of them is past its decision, and one that is      *)
(* before it has found the container CONNECTED.                            *)
HasTurn ==
  \A t \in Tasks : task[t].pc \notin {"idle", "sending"} => holder = t

WorkingIsSkipped ==
  nodeUp => \A t \in Tasks :
    /\ task[t].pc \in {"idle", "stored", "ready", "sending"}
    /\ task[t].pc \in {"stored", "ready"} => status = "CONNECTED"

TurnInv == HasTurn /\ WorkingIsSkipped

LEMMA TurnInvariant == Spec => []TurnInv
<1> USE NoneAssumption
<1>1. Init => TurnInv
  BY DEF Init, TurnInv, HasTurn, WorkingIsSkipped, Idle, Working
<1>2. TypeOK /\ TurnInv /\ [Next]_vars => TurnInv'
  <2> SUFFICES ASSUME TypeOK, TurnInv, [Next]_vars PROVE TurnInv'
    OBVIOUS
  <2> USE DEF TypeOK, TurnInv, HasTurn, WorkingIsSkipped, Runs, SetTask,
              Working, Idle, Over, dbVars
  <2>1. ASSUME NEW t \in Tasks, StoreSnapshot(t) PROVE TurnInv'
    <3>1. \A u \in Tasks : task[u].pc \in {"idle", "sending"}
      BY <2>1 DEF StoreSnapshot
    <3>2. /\ \A u \in Tasks : u # t => task'[u] = task[u]
          /\ task'[t].pc = "stored" /\ holder' = t
          /\ nodeUp' => status' = "CONNECTED"
      BY <2>1 DEF StoreSnapshot
    <3> QED
      BY <3>1, <3>2
  <2>2. ASSUME NEW t \in Tasks,
               OrchestrateFails(t) \/ AgentOffline(t) \/ SendFails(t)
        PROVE  TurnInv'
    BY <2>2 DEF OrchestrateFails, AgentOffline, SendFails
  <2>3. ASSUME NEW t \in Tasks, EnsureUser(t) PROVE TurnInv'
    BY <2>3 DEF EnsureUser
  <2>4. ASSUME NEW t \in Tasks, Decide(t) PROVE TurnInv'
    <3>1. CASE nodeUp
      <4>1. \A k : Decision(k) = "SKIP"
        BY <2>4, <3>1 DEF Decide, Decision
      <4>2. Over(t) /\ UNCHANGED <<status, nodeUp>> /\ holder = t
        BY <2>4, <4>1 DEF Decide
      <4> QED
        BY <4>2
    <3>2. CASE ~nodeUp
      <4>1. nodeUp' = nodeUp /\ holder = t
        BY <2>4 DEF Decide
      <4>2. \/ Over(t)
            \/ holder' = holder /\ \E w : task' = [task EXCEPT ![t] = w]
        BY <2>4 DEF Decide
      <4>3. \A u \in Tasks : task[u].pc \notin {"idle", "sending"} => u = t
        BY <4>1
      <4>4. \A u \in Tasks : u # t => task'[u] = task[u]
        BY <4>2
      <4>5. holder' = t \/ task'[t].pc = "idle"
        BY <4>1, <4>2
      <4>6. HasTurn'
        BY <4>1, <4>2, <4>3, <4>4, <4>5
      <4> QED
        BY <3>2, <4>1, <4>6
    <3> QED
      BY <3>1, <3>2
  <2>5. ASSUME NEW t \in Tasks, EnsureKey(t) \/ MarkKeyCreated(t)
        PROVE  TurnInv'
    BY <2>5 DEF EnsureKey, MarkKeyCreated
  <2>6. ASSUME NEW t \in Tasks, DispatchDropped(t) \/ Dispatch(t)
        PROVE  TurnInv'
    BY <2>6 DEF DispatchDropped, Dispatch, HasKey
  <2>7. ASSUME NEW t \in Tasks, SendDone(t) PROVE TurnInv'
    BY <2>7 DEF SendDone
  <2>8. CASE Restart
    BY <2>8 DEF Restart
  <2>9. ASSUME UNCHANGED <<status, nodeUp, task, holder>> PROVE TurnInv'
    BY <2>9
  <2> QED
    BY <2>1, <2>2, <2>3, <2>4, <2>5, <2>6, <2>7, <2>8, <2>9
    DEF Next, Sync, Orchestrate, ClientKey, RemoveUser, ChangeLink, Tick, vars
<1> QED
  BY <1>1, <1>2, TypeCorrect, PTL DEF Spec

(* However many syncs overlap, a container whose node works is sent no     *)
(* join, and loses its status only to sends that were under way before     *)
(* (ProvisioningOrchestrator.orchestrate, ProvisioningDecisionService).    *)
THEOREM WorkingNodeLeftAlone == Spec => OnlyLateSendsOverwrite
<1> DEFINE Late ==
      nodeUp =>
        /\ \A t \in Tasks : task'[t].pc = "sending" => task[t].pc = "sending"
        /\ \/ status' \in {status, "CONNECTED"}
           \/ \E t \in Tasks : task[t].pc = "sending" /\ task'[t].pc = "idle"
<1>1. TypeOK /\ TurnInv /\ [Next]_vars => [Late]_vars
  <2> SUFFICES ASSUME TypeOK, TurnInv, [Next]_vars, nodeUp
               PROVE  /\ \A t \in Tasks :
                           task'[t].pc = "sending" => task[t].pc = "sending"
                      /\ \/ status' \in {status, "CONNECTED"}
                         \/ \E t \in Tasks :
                              task[t].pc = "sending" /\ task'[t].pc = "idle"
    OBVIOUS
  <2> USE DEF TypeOK, TurnInv, WorkingIsSkipped, Runs, SetTask, Working, Idle,
              Over, dbVars
  <2>1. ASSUME NEW t \in Tasks,
               \/ StoreSnapshot(t) \/ OrchestrateFails(t) \/ EnsureUser(t)
               \/ AgentOffline(t) \/ SendFails(t)
        PROVE  /\ status' \in {status, "CONNECTED"}
               /\ \E w : w.pc # "sending" /\ task' = [task EXCEPT ![t] = w]
    <3>1. CASE StoreSnapshot(t)
      BY <3>1 DEF StoreSnapshot
    <3>2. CASE EnsureUser(t)
      BY <3>2 DEF EnsureUser
    <3>3. CASE OrchestrateFails(t) \/ AgentOffline(t) \/ SendFails(t)
      BY <3>3 DEF OrchestrateFails, AgentOffline, SendFails
    <3> QED
      BY <2>1, <3>1, <3>2, <3>3
  <2>2. ASSUME NEW t \in Tasks, Decide(t)
        PROVE  status' = status /\ Over(t)
    <3>1. \A k : Decision(k) = "SKIP"
      BY <2>2 DEF Decide, Decision
    <3> QED
      BY <2>2, <3>1 DEF Decide
  <2>3. ASSUME NEW t \in Tasks,
               \/ EnsureKey(t) \/ MarkKeyCreated(t) \/ DispatchDropped(t)
               \/ Dispatch(t)
        PROVE  FALSE
    BY <2>3 DEF EnsureKey, MarkKeyCreated, DispatchDropped, Dispatch, HasKey
  <2>4. ASSUME NEW t \in Tasks, SendDone(t)
        PROVE  /\ task[t].pc = "sending"
               /\ task' = [task EXCEPT ![t] = Idle]
    BY <2>4 DEF SendDone
  <2>5. CASE Restart
    BY <2>5 DEF Restart
  <2>6. CASE UNCHANGED <<status, task>>
    BY <2>6
  <2>7. ASSUME NEW t \in Tasks, Sync(t)
        PROVE  \/ UNCHANGED <<status, task>>
               \/ /\ \A u \in Tasks :
                       task'[u].pc = "sending" => task[u].pc = "sending"
                  /\ \/ status' \in {status, "CONNECTED"}
                     \/ \E u \in Tasks :
                          task[u].pc = "sending" /\ task'[u].pc = "idle"
    <3>1. CASE \/ StoreSnapshot(t) \/ OrchestrateFails(t) \/ EnsureUser(t)
               \/ AgentOffline(t) \/ SendFails(t)
      BY <2>1, <3>1
    <3>2. CASE Decide(t)
      BY <2>2, <3>2
    <3>3. CASE SendDone(t)
      BY <2>4, <3>3
    <3> QED
      BY <2>3, <2>7, <3>1, <3>2, <3>3 DEF Sync, Orchestrate
  <2> QED
    BY <2>5, <2>6, <2>7
    DEF Next, ClientKey, RemoveUser, ChangeLink, Tick, vars
<1> QED
  BY <1>1, TypeCorrect, TurnInvariant, PTL DEF Spec, OnlyLateSendsOverwrite

-----------------------------------------------------------------------------
(* With one task, no snapshot is stored while the task provisions, and it  *)
(* provisions only a container whose node does not work.                   *)
ProvisionedIsDown ==
  \A t \in Tasks : task[t].pc \notin {"idle", "stored", "ready"} => ~nodeUp

OneTaskInv == FunctionalIsConnected /\ ProvisionedIsDown

(* Rule 7 of the node sync, "CONNECTED if node is fully functional", holds *)
(* of a service whose syncs never overlap; WorkingNodeLeftAlone is what is *)
(* left of it when they do.                                                *)
THEOREM OneTaskFunctionalIsConnected ==
  ASSUME \A t, u \in Tasks : t = u
  PROVE  Spec => []FunctionalIsConnected
<1> USE NoneAssumption
<1>1. Init => OneTaskInv
  BY DEF Init, OneTaskInv, FunctionalIsConnected, ProvisionedIsDown
<1>2. TypeOK /\ OneTaskInv /\ [Next]_vars => OneTaskInv'
  <2> SUFFICES ASSUME TypeOK, OneTaskInv, [Next]_vars PROVE OneTaskInv'
    OBVIOUS
  <2> USE DEF TypeOK, OneTaskInv, FunctionalIsConnected, ProvisionedIsDown,
              SetTask, Working, Idle, Over, dbVars
  <2>1. ASSUME NEW t \in Tasks, StoreSnapshot(t) PROVE OneTaskInv'
    BY <2>1 DEF StoreSnapshot
  <2>2. ASSUME NEW t \in Tasks,
               \/ OrchestrateFails(t) \/ EnsureUser(t) \/ AgentOffline(t)
               \/ SendFails(t)
        PROVE  OneTaskInv'
    BY <2>2 DEF OrchestrateFails, EnsureUser, AgentOffline, SendFails, Runs
  <2>3. ASSUME NEW t \in Tasks, Decide(t) PROVE OneTaskInv'
    <3>1. \A k : Decision(k) # "SKIP" => ~nodeUp
      BY DEF Decision
    <3>2. CASE ~nodeUp
      BY <2>3, <3>2 DEF Decide
    <3>3. CASE nodeUp
      <4>1. Over(t) /\ UNCHANGED <<status, nodeUp>>
        BY <2>3, <3>1, <3>3 DEF Decide
      <4> QED
        BY <4>1
    <3> QED
      BY <3>2, <3>3
  <2>4. ASSUME NEW t \in Tasks,
               \/ EnsureKey(t) \/ MarkKeyCreated(t) \/ DispatchDropped(t)
               \/ Dispatch(t) \/ SendDone(t)
        PROVE  OneTaskInv'
    <3>1. ~nodeUp /\ nodeUp' = nodeUp
      BY <2>4
      DEF EnsureKey, MarkKeyCreated, DispatchDropped, Dispatch, HasKey,
          SendDone, Runs
    <3> QED
      BY <3>1
  <2>5. CASE Restart
    BY <2>5 DEF Restart
  <2>6. ASSUME UNCHANGED <<status, nodeUp, task>> PROVE OneTaskInv'
    BY <2>6
  <2> QED
    BY <2>1, <2>2, <2>3, <2>4, <2>5, <2>6
    DEF Next, Sync, Orchestrate, ClientKey, RemoveUser, ChangeLink, Tick, vars
<1>3. OneTaskInv => FunctionalIsConnected
  BY DEF OneTaskInv
<1> QED
  BY <1>1, <1>2, <1>3, TypeCorrect, PTL DEF Spec

=============================================================================
