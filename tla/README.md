# Formal models of cloud-control-api

TLA+ modules of the parts of cloud-control-api whose correctness depends on
what happens in between: request threads, the event loop, the two background
loops, the agents at the other end of a WebSocket, and Headscale, which all
meet in one database. TLC checks the modules on small instances; TLAPS proves
most safety properties for every value of the constants. `PROJECT.json` lists
the parts, runs, mutants, findings, hazards and theorems, and maps each
definition to the lines it stands for.

## The system

A user's *environment* runs an *agent*, which keeps a WebSocket to the cloud
and publishes *containers* and *access tokens*. A container joins a VPN, for
which the cloud makes a *preauth key* at *Headscale*. A *client* that has an
access token asks for a *connection*, gets a key of its own, joins, and
confirms.

| Part | State | Operations |
|---|---|---|
| Client connections | `connections`, `headscale_preauth_keys` | connect, confirm (thread pool); expire what is overdue (loop, and at start) |
| Headscale client | the process's circuit breaker | every call to Headscale: admit, retry, count |
| Realtime manager | `active_connections`, futures, `environments.status_online` | accept a socket, receive, acknowledge, ask for a snapshot and store it |
| Provisioning | `published_containers.provisioning_status`, keys, hashes of messages sent | decide, make a key, send `container.provision` |
| Headscale state sync | `headscale_nodes`, node of a connection | list all machines, update or create rows, bind connections, send deltas |
| Snapshots and cleanup | `published_containers`, `access_tokens`, rows and machines of what is removed | store a snapshot; purge what it no longer lists |
| Network endpoints, catalogue | `network_endpoints`, ports | store a container's endpoint under a global name; show the endpoints of an environment |
| Environments, users | `environments`, `headscale_users`, users at Headscale | create and delete an environment; create, look up and record its user when a key is needed |
| Authentication, resolvers, DTOs, audit | none of their own | reads, conversions, logging |

How they interact:

* a socket's start and each `environment.changed` event spawn a *sync task*
  (`RealtimeManager._sync_environment`): it asks the agent for a snapshot,
  stores it in one transaction (which may purge containers at Headscale) and
  then runs the provisioning orchestrator. Tasks overlap at their awaits;
* the endpoints of clients are plain functions: FastAPI runs them in a pool of
  threads, each with a database session of its own. Between a session's read
  and its commit anything may be committed, and an ORM `UPDATE` names only the
  row's id;
* calls to Headscale are synchronous: a call made from a coroutine stops the
  event loop, but no thread; all calls share one breaker;
* the state sync stores a round without an await, then sends its deltas with
  an await each.

What makes this hard: lost updates between sessions, sockets that are replaced
before their end is noticed, failures between two commits or between
Headscale and the database, restarts, retries and duplicates that are dropped,
and statuses written after an await. `hazards` in `PROJECT.json` has them at
their lines with the properties that would notice.

## Modules

Each component module has its constants with their assumptions, `TypeOK`,
`Init`, one action per operation or per stretch of code between two points
where others may come in, `Next`, `Spec`, `FairSpec`, and the properties.
`MC<module>` has the functions and symmetries that the configurations use
(ClientConnection, HeadscaleClient, NetworkEndpointSync and
EnvironmentLifecycle need none), and
`<module>Proofs` has the theorems. A definition introduced as a "mutated
form" is used by no specification: it stands before the definition that it is
a plausible wrong version of.

**ClientConnection**: connect, confirm and cleanup for one container, its
tokens, threads and keys. A thread's record holds what its session has read.
Connecting is authorisation and read of the previous connections
(`ConnectBegin`), the user (`CreateUser`), the key (`RequestKey`), the commit
of the key, which also commits the EXPIRED marks (`CommitKey`), and the commit
of the connection. `CleanupSelect` and `CleanupCommit` are the loop, `Abort`
and `CleanupAbort` its failures. The snapshot occurs as `SyncToken`,
`RemoveContainer` and `ChangeReachability`.

**ConnectionLifecycle** is what a client is promised of its connection, without
threads, sessions or keys: it is offered once, to a token that asks, and each
verdict on it (confirmed, expired) was justified when it was begun; of verdicts
that are under way together the last one written stands. ClientConnection
implements it with

| ConnectionLifecycle | ClientConnection |
|---|---|
| `now` | `clock` |
| `asking` | the tokens with a request in flight (`InFlight`) |
| `state`, `token`, `due` | `status`, `token`, `expires` of the rows in `conn` |
| `verdicts` | `Verdicts`: what the sessions that have read the row will write |

`CommitConnection` is `Offered`, the commits of confirmations, clean-ups and keys
are `Judged`, `RemoveContainer` is `Removed`; in every other step connections
wait, and a read that finds one pending begins a verdict.

**HeadscaleClient**: callers of `_request`. `Admitted` is the breaker's check,
`Answered`, `Refused`, `ServerError` and `Unreachable` are the outcomes of an
attempt, which lead to a retry or to the breaker's `OnSuccess` or `OnFailure`.
A breaker that has been open for its recovery time is HALF_OPEN as soon as it
is looked at. Only successes and connection errors change the count.

**RealtimeManager**: one environment with several sockets and sync tasks. Each
socket has a receive loop with the points at which it awaits, an inbox and the
network's view; `active` is the entry of `active_connections`. Versions number
what the agent has: the one an event carries is for the history `acked` only,
as the code takes nothing from an event but that there was one; the one in an
answer is the snapshot, and `stored` is what was stored of it. A `Request` of
the agent is its heartbeat, `system.info` or `node.sync.request`; the last is
answered, the others fail. Answers may be repeated; sockets drop, sends fail,
the process restarts.

**AgentCopy** is the abstract specification of that machinery, without
messages, tasks or transactions: over each channel a copy of the agent's state
is kept that may be late but never goes back, changes are acknowledged in
their order, and (`CatchUp`) a copy that is behind an acknowledgement catches
up unless the channel is broken. RealtimeManager implements it with

| AgentCopy | RealtimeManager |
|---|---|
| `Channels` | `Sockets` |
| `source` | `version` |
| `acked` | `acked` |
| `copy` | `stored` |
| `broken[s]` | the agent's end of `s` is not up, or a sync on `s` has failed |

`AgentChange` is `Change`, the acknowledgement of a received event is
`Acknowledge`, `StoreSnapshot` is `Store`; every other step stutters. The
safety part is proved and checked (`StoresCopies`), the fair specification is
checked (`CopiesCatchUp`).

**Provisioning**: one container with overlapping orchestrations. `StoreSnapshot`
is Rule 7 of the node sync, `EnsureUser` the user an orchestration makes sure
of, `Decide` the decision with the status it resets, `EnsureKey` and
`MarkKeyCreated` two commits (after the second the key is read again), `Dispatch`,
`DispatchDropped` and `SendFails` the send, and `SendDone` the write that
follows it. Keys made for clients are in the same table (`ClientKey`).
`RemoveUser` is the first commit of an environment's deletion: the user goes
with all keys, the container stays until the second commit, or for good when
that fails.

**EnvironmentSync**: snapshots of one environment. `tx` is the transaction:
its own view of the tables and how far it has come. A purge collects machines
(from rows, from connections, by name at Headscale), expires keys, deletes the
machines one by one, then the container with what cascades. Any call may fail,
and a failure of a deletion rolls the database back, not Headscale. Threads
may ask for keys and store connections in the middle, machines may join. The
state sync and the orchestrator run between transactions (`StateSync`,
`Provision`): all three are on the event loop.

**ContainerRegistry** is what storing the snapshots of an agent comes to,
without transactions, order or failures: `Apply` replaces the containers by
those that are listed, once the machines of the others are gone, and leaves
nothing that refers to what has gone. EnvironmentSync implements it with its own
`containers`, `home`, `row`, `conn` and `machine`, with `agent` as `listed` and
`Called` as `After`. `Commit` is `Apply`; each deletion of a machine is `Delete`,
in a transaction that fails later too; `StateSync` is `Record`, `ConnectEnd`
is `Connect`; all that a transaction does in its own view stutters.

**HeadscaleStateSync**: the rounds of the state sync. `UpdateNode`,
`CreateNode` and `SkipNode` are the three ways of a machine through the loop,
`Commit` writes rows and bindings, `SendDelta` and `SendFails` follow. Threads
make and settle connections meanwhile, snapshots write to the same table
between rounds (`Register`, `Purge`). `seen` and `touched` are history
variables of the property `QuietWhenUnchanged`.

**NetworkEndpointSync**: the endpoints of all environments, which share the
names. `tx` is the transaction of one snapshot: its view of the table, the
containers still to come, and the ports as the session first loaded them.
`SyncBegin` purges what is no longer listed, then each container takes its turn
in any order (`UpdateEndpoint`, `ReassignEndpoint`, `CreateEndpoint`: the three
ways through `sync_container_endpoint`), `Commit` and `Rollback` end it.
`SyncPorts` is `sync_ports` with a collection that does not follow the rows it
is compared with. `Catalogue` is what `get_catalog_for_user` makes of the rows.

**EndpointDirectory** is that without the order of the containers: a snapshot is
one step, after which each name asked for is served by one of those that ask
for it. NetworkEndpointSync implements it with the names and addresses in
`report` as `wanted` and those in `rows` as `entry`: `Commit` is `Snapshot`, a
changed report is `Ask`, every other step stutters.

**EnvironmentLifecycle**: the environments of one owner with their users at
Headscale, as threads and the event loop (`Workers`) work on them. A request
for a key goes through `ensure_environment_user` call by call (`Verify`,
`LookUp`, `CreateUser`, `InsertRow`), then makes and stores the key. A deletion
removes the user at Headscale, its row, then the environment. An id is
`"current"` or `"stale"`, as the user it was given to is there or not.
`ReadFails`, `CreateUserFails` and `RemoveUserFails` are failures of calls, of
which the second and third may have taken effect (the answer was lost); `Ends`
is the end of a request in the middle; `RemoveOutside` is an administrator.
`by`, `touched` and `excused` are history variables of the properties.

EnvironmentSync and HeadscaleStateSync describe the same tables at different
grain: in one the state sync is a step and the snapshot a transaction, in the
other the reverse.

## Runs

All bounds are constants of the configurations; a module's guards name the
constants that bound a counter (`MaxTime`, `MaxFailures`, `MaxVersion`,
`MaxInbox`); sets of row identities, tasks and keys bound how many there are.
Symmetry is used where only safety is checked. Safety and liveness share a run
where the larger instance is within reach of the liveness check.

| Run | Checks | Bounds, and why they are enough |
|---|---|---|
| `connection` | `TypeOK`, `OnePendingPerWorker`, `DeadlineWithinKey`, `LivesByTheRules`, `RefusedTokenStaysQuiet`, `PendingResolved` | two threads, two connections, two keys, time to 2 and lives of 1: two requests, or a request and a confirmation, against the loop; a connection made at once lasts as long as its key, one made later is cut short by it |
| `breaker` | `TypeOK`, `ClosedIffBelowThreshold`, `Recovers` | the real threshold 4 and 3 attempts; three callers: one late, one probing, one more |
| `realtime_safety` | `TypeOK`, `RegisteredIsOnline`, `EndedMeansOffline`, `AckedChangeCovered`, `StoresCopies` | two sockets (a reconnect), three tasks, two versions, inboxes of two |
| `realtime_liveness` | `CopiesCatchUp` | one socket, three tasks (one for the socket, one for each change), two versions |
| `provisioning_safety` | `TypeOK`, `OneAgentKey`, `OnlyLateSendsOverwrite` | two tasks, two keys, time to 3 past both lives: one task is in its send while the other's snapshot brings the node up |
| `provisioning_one_task` | `KeyReachesAgent`, `DeadKeyStartsAgain` | one task, two keys, time to 2, as long as the longer life; with two tasks the liveness check is out of reach |
| `snapshot` | `TypeOK`, `AppliesInOneStep`, `OrphanPurged` | two containers, the machine of one, a token that may move, a connection: a snapshot that keeps one container and purges the other, with the key, the binding and the machine that the purge meets |
| `snapshot_binding` | refutes `OnlyOrphansNodesDeleted` | two machines with names that have nothing in common |
| `state_safety` | `TypeOK`, `QuietWhenUnchanged`, `BindingKept`, `CommitsAreExact` | two machines of one environment, a connection |
| `state_liveness` | `StatusRecorded` | a machine of a known and one of an unknown user |
| `endpoints` | `TypeOK`, `SnapshotIsOneStep`, `NamesServed`, `DoubledByNamesakesOnly`, `CatalogueSettles`, `NameRegained` | two containers, of one environment or one each (`owner` is chosen at the start), two names, one port: containers that swap names, share one within a snapshot, or take it across environments |
| `environments` | `TypeOK`, `NamesApart`, `RecordAgrees`, `NoUserLeft`, `DeletedInTheEnd`, `KeysFlow` | two workers, two environments, two spellings of one name; keys are made in one of the environments, which is enough as no two environments share a user |

In TLC's instances of EnvironmentSync no machine is a client's and no name
begins another (`Begins` is empty), which would put the liveness check out of
reach: for a purge by prefix there are only the theorems, which hold for any
kinds and names.

CHECK_DEADLOCK is FALSE for `connection`, `realtime_*` and `environments`, where the
model may run out of identities, time, sockets or tasks, as no system does. HeadscaleClient,
Provisioning, NetworkEndpointSync, EnvironmentSync and HeadscaleStateSync never stop, which is checked.
Every property of a passing run has a mutant in `PROJECT.json`; those of the
refinements that several promises went into have one for each of these.

No run checks `SettledIsFinal`, `PurgedNodesGone`, `SnapshotStoredWhole`,
`DeletedForAnOrphan` and `NamesUnique`: what they say of the tables is part of
`LivesByTheRules`, `AppliesInOneStep` and `SnapshotIsOneStep` (`RulesSettle` and
`RegistryPromises` are the proofs for the first four), and all five are proved
of their modules. `NamesUnique` says it of the view of an open transaction too.
`KeysNotShared` (each request has a key of its own made) and
`FunctionalIsConnected` (one task only) are proved and not run either.

### Where the code departs from what is said of it

One run has a counterexample (`findings` quotes the sentence):

* `snapshot_binding`: the state sync binds every pending connection of an
  environment to the machine it looks at, of whichever container; when the
  connection's container is purged, so is that machine. What does hold is
  `DeletedForAnOrphan`: the machine is called after, recorded for or bound to a
  connection of what is to be purged, by what the database says at that time.

What the modules do because the code does, and the properties leave room for:

* two requests by one token in two threads do not expire each other's
  connection (`OnePendingPerWorker` is per thread; `AtMostOnePending` is
  proved for one);
* a session that has read PENDING overwrites what was committed since, a
  confirmation by EXPIRED or an expiry by CONNECTED (`SettledIsFinal` starts
  when no such session is left; that each of the two was justified when its
  session read the row is `LivesByTheRules`);
* a success admitted before the breaker opened closes it at once
  (`RecoveryTimeKept` is proved for one caller), and answered but failed calls
  between failures do not reset the count;
* an agent that reconnects before the server notices that its old socket is
  gone has the new socket's entry removed by the end of the old loop
  (`manager.py:115`) and counts as not connected until it reconnects; what
  holds in any order of ends is `RegisteredIsOnline` and `EndedMeansOffline`;
* a loop that ends by another exception, or with the process, leaves entry or
  status behind (`EndedMeansOffline` is about the others);
* a heartbeat and a `system.info` are not answered: the response lacks a
  required field;
* WAITING_AGENT is written over CONNECTED by a task that resumes from its send:
  `OnlyLateSendsOverwrite` says that nothing else does so, `FunctionalIsConnected`
  is for one task. It also follows a message that was dropped as a duplicate
  of one that failed, which ends KEY_CREATED for `KeyReachesAgent` too;
* a deletion commits the removal of the user and its keys before that of the
  environment, so that containers stay with KEY_CREATED or WAITING_AGENT and
  no key behind it (`DeadKeyStartsAgain` says that this does not last while
  snapshots are stored);
* purging `web` deletes the clients of `web2` (`Begins`), and a container is
  removed though the list of its machines failed;
* a token that moves to another container with connections left behind blocks
  that container's purge and with it every snapshot (`LeftBehind` in
  `OrphanPurged`);
* two identities of one machine write one row in turns, in every round
  (`UnchangedIsQuiet` and `CommitIsExact` assume that no two share a key); a
  machine that Headscale no longer lists stays as it was in the table
  (`Expected`); a snapshot sets a
  working machine's row offline until the next round; a failed send drops the
  other environments' deltas (`CommitsAreExact` is about what is noted to be
  sent);
* containers that report one name take the endpoint from each other in every
  snapshot, for ever (`NameRegained`); one without an address shows that of the
  container it took the endpoint from (`Serves` and `CatalogueSettles` ask for
  the address only where one is reported);
* an endpoint's ports are compared with what the session loaded first: two
  containers of one snapshot that share a name leave two rows for a port, later
  snapshots keep both as long as it is wanted, and the catalogue lists it twice
  for good. `DoubledByNamesakesOnly` says that no other snapshot does this, and
  `CatalogueSettles` that each port wanted is listed and no other;
* the first deletion of an environment with a connection fails: the user is
  deleted at Headscale, its row cannot be (the connection's foreign key), the
  exception is logged, and the session, which was not rolled back, then refuses
  to delete the environment, though the comment at `environment_service.py:104`
  says that this does not fail. A second deletion gets a 404 for the user, goes
  on without touching its row, and succeeds (`DeletedInTheEnd`). Requests for
  keys that come in between make the user again and the row refuses the next
  deletion too, hence the assumption that no more keys are made;
* a user that was deleted and created again at Headscale has another id, the
  row keeps the old one, and keys are refused from then on (`touched` in
  `RecordAgrees` and `KeysFlow`);
* a request for a key that runs into a deletion, or a creation whose answer was
  lost, may leave a user at Headscale that nobody deletes (`excused` in
  `NoUserLeft`);
* two requests at once create two environments whose names differ in case only
  (`NamesApart` says that one worker cannot).

A hazard whose own case is one of these has no property in `PROJECT.json`: its
note says what the code does and what the neighbouring properties leave out.

## Fairness

* ClientConnection: the cleanup loop runs again after every round, whatever it
  raised (`main.py:22-31`), so its steps are weakly fair; clients, agents and
  the removal of a container owe nothing.
* HeadscaleClient: a call that was made ends (each attempt has a timeout), and
  the state sync calls again and again (`main.py:34-44`).
* RealtimeManager: the event loop runs ready tasks and receives what is in an
  inbox; the network, the agent and the ends of sockets are not fair, so the
  properties leave out sockets that go and tasks that fail. The agent answers
  each request in the end: strong fairness, since a full inbox may make it
  wait. AgentCopy's fairness is weak: `CatchUp` stays possible until it is
  done or the channel breaks, which disables it.
* Provisioning: an orchestration that has started is carried on, and neither the
  database, Headscale nor a send fails for ever (strong fairness of the steps
  that may fail). Of the agent: again and again it is connected with its
  environment online and has a snapshot stored of the running container.
* EnvironmentSync: one weak fairness for all steps of a snapshot. That another
  snapshot comes is the agent's doing (it reconnects and sends changes): the
  code itself only promises to retry with "the next environment.sync".
* HeadscaleStateSync: the loop runs on; a round that fails, a restart and a
  failed send are not fair, and `StatusRecorded` assumes that rounds stop being
  cut short before their commit.
* NetworkEndpointSync: a transaction that has begun runs on (weak: nothing in
  it waits), and each environment's snapshots are begun again and again (strong:
  they take turns). That is the agents' doing, as for EnvironmentSync. Failures
  end, by assumption in the properties (`FailuresEnd`).
* EnvironmentLifecycle: a request that has begun goes on, as each of its calls
  has a timeout; that requests come is an assumption of the properties, and so
  is that calls stop failing.

## What is proved

TLAPS proves, for any sets of threads, tokens, tasks, machines, names and so on
and any times, the theorems listed in `PROJECT.json`: type correctness of all
eight modules, every safety property of every passing run, and four
refinements: that RealtimeManager implements AgentCopy (without its fairness),
ClientConnection ConnectionLifecycle, EnvironmentSync ContainerRegistry and
NetworkEndpointSync EndpointDirectory. The assumptions are
those of the modules (`NoneAssumption`, `TimeAssumption`, `BoundAssumption`,
`BreakerAssumption`, `MachineAssumption`, `NameAssumption`, `OwnerAssumption`,
`KeyAssumption`, `UsedAssumption`); five theorems assume more (one thread, one
caller, one task, and two that no two identities have one machine key) and say
so. Action properties are proved from an invariant that holds in both of the states.

The inductive invariants, and why the property alone is not inductive:

* `OnePendingPerWorker`: what a thread's session has read has to include every
  pending connection that the same thread has left for the token, at each step
  from the read to the commit; the invariant follows the thread's record.
* `AtMostOnePending` follows from it for a single thread (assumed), and
  `KeysNotShared` from keys being fresh when committed and held by one thread
  until its connection is stored.
* `SettledIsFinal`, `RefusedTokenStaysQuiet`: from the types and the guards; a
  session in flight is visible in its thread's record.
* `LivesByTheRules`: what a session holds has been inserted, a request in flight
  has a token, and rows are deleted with their container only (`LifeInv`). Then
  each step is, connection by connection, an offer, a judgement, a wait or a
  removal: verdicts under way only shrink, except when a session reads.
* `ClosedIffBelowThreshold`: OPEN and HALF_OPEN keep the count at the
  threshold or above, since only a success resets it. `RecoveryTimeKept`
  assumes one caller: a call that is out was then not admitted while OPEN.
* `RegisteredIsOnline`, `EndedMeansOffline`: inductive with the types.
* `StoresCopies`: the answers in an inbox, the one a task has taken, and what
  is stored are in the order of the agent's versions (`OrderInv`), and so are
  the events under way and what was acknowledged (`AckInv`); with them each
  step is one of AgentCopy or stutters.
* `AckedChangeCovered` is proved with a covering task that is free to change:
  `CoverInv` asks of it only that it has not asked yet, has been asked, or has
  some answer under way, on a socket that is live. That an answer, whichever of
  several is taken first, is then new enough follows from `AckInv`, and that a
  task does not lose its answer or get one before it has asked from `FreshInv`.
  The acknowledgement of a change creates the task that covers it in the same
  turn.
* `OneAgentKey`: a key is looked for and made in one turn of the event loop.
  `OnlyLateSendsOverwrite`: a task that is neither idle nor in its send has the
  event loop, and when the node works it has not got past a decision other than
  to leave the container alone (`TurnInvariant`); so no join is begun, and the
  status is written by what comes out of a send only. `FunctionalIsConnected`
  assumes one task.
* `PurgedNodesGone`: what the transaction has purged has no live machine, its
  container's pending deletions cover the live machines recorded for it, and
  nothing recorded can be added while the transaction is open.
* `SnapshotStoredWhole`: the transaction's view has purged all but the
  snapshot's containers when nothing is left to do, and holds what has been
  stored of it.
* `DeletedForAnOrphan`: the machines to delete were listed some steps before
  each is deleted, but while there is something to purge the transaction's view
  records no machine that the table does not, and nothing is unbound from what
  is being purged (`OrphanInv`).
* `AppliesInOneStep`: in the tables, and in the transaction's view, no token,
  row, connection or thread refers to a container or a token that is not there
  (`StandInv`); with it and the invariants above `Commit` is `Apply`, and each
  deletion is of a machine of what is to go.
* `BindingKept`: a round holds a binding only for a connection that is bound
  to nothing. `QuietWhenUnchanged`, if no two identities share a machine key:
  the table agrees with the last list, and the round's view with its own list
  where it has been stored. `CommitsAreExact`, on the same assumption: the
  round's view differs from the table just where a machine has been stored, and
  has noted the environments of those that differ (`ExactInv`).
* `NamesUnique` is inductive with the types, since a transaction changes its own
  view only and all others wait. `NamesServed`: of the containers that have had
  their turn each has its name served by one that has had it too, and a turn
  that takes a name gives it to a container of the same snapshot.
  `SnapshotIsOneStep`: the view is compared with the table container by
  container (`TrackInv`): one that is listed and has had its turn has its name
  and address, or has lost the name to another that has had its turn; one of the
  environment that is not listed has none; one of another environment is as it
  was, or its name is one of those taken. `DoubledByNamesakesOnly`: if the
  snapshot's names are apart, an endpoint is never taken from a container that
  has had its turn, so that one which has not still has, in the view, the ports
  that the session has loaded (`PortsInv`).
* `NamesApart`: a worker between its look-up and its insert has created none of
  the environments that are there (`NamersHaveNone`).
* `RecordAgrees`: what is about to be recorded of an environment whose user
  nobody has begun to delete is the user that is there (`RecordersAgree`), and
  a worker that deletes has marked the environment before (`DeletersTouch`).

* `NoUserLeft`: where nothing went wrong (`UserHeld`), requests for keys and
  deletions do not meet; a deletion that has got past the user's removal, or had
  none to do, finds no user; and a user without a row has a worker that is about
  to insert it, so that a deletion that finds no row finds no user either.

Only model-checked: the liveness properties (`PendingResolved`, `Recovers`,
`CopiesCatchUp`, `KeyReachesAgent`, `DeadKeyStartsAgain`, `OrphanPurged`, `StatusRecorded`,
`CatalogueSettles`, `NameRegained`, `DeletedInTheEnd`, `KeysFlow`), since
liveness under fairness and ENABLED are out of the prover's reach. No module
uses a RECURSIVE operator, so that all can be proved about.

## What is abstracted or left out

* Time is a counter; lives of keys and deadlines are small constants.
* Attributes that no property tells apart (addresses, names, versions of the
  agent's software) are left out. Machines have a name of one of three kinds.
* One environment in RealtimeManager, EnvironmentSync; one container in
  ClientConnection, Provisioning; one owner in EnvironmentLifecycle: rows of
  others do not meet there. Host names, which all environments share, are in
  NetworkEndpointSync for all of them.
* A host name stands for what `sanitize_hostname` makes of it; an address for
  the container whose machine has it.
* The database is serialisable up to lost updates: a session reads what is
  committed and overwrites by row identity. Rows deleted by an open
  transaction are locked.
* The deletion of an environment is in EnvironmentLifecycle and, as far as its
  first commit goes, in Provisioning, where the connections that would stop that
  commit are left out. The tables of HeadscaleStateSync and EnvironmentSync are
  those of environments that stay.
* A row that a snapshot has stripped of its keys is not found by its machine key
  in the round that gives them back (`Matches`), as in the code.
* The statuses REVOKED and DISCONNECTED are written nowhere in the code.

### Not modelled

* Authentication of users and agents: each request is judged by itself from a
  signature, a hash or a row; nothing is remembered from one to the next.
* DTOs and mapper, response builder, audit log: conversions and output.
* Resolvers and client API: their reads are part of the actions that act on
  them (`ConnectBegin` of ClientConnection); they keep no state.
* The attributes of a published node (software, addresses) are copied from the
  snapshot in the transaction that EnvironmentSync has; no property tells them
  apart.
* Operations that no other part of the code calls: `provision_environment`,
  `rename_user`, `remove_container`, `revoke_container_key`, `rename` and `move` of nodes.
* Migrations: they run before the process.

## Plan

Done: the eight component modules with their proofs; the four abstract
specifications and the refinements, for any number of threads, tasks and
machines; `AckedChangeCovered`. Left:

1. A composition of EnvironmentSync and Provisioning: a container purged while
   its orchestration is in its send.
2. Larger instances: `connection` with a key that outlives the deadline, as the
   real hour and five minutes do; snapshots with clients' machines and names
   that begin each other; three containers in `endpoints`.
