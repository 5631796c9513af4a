---------------------------- MODULE EnvironmentSync ----------------------------
(***************************************************************************)
(* What an agent's snapshot does to the database and to Headscale: the     *)
(* containers and access tokens it lists are stored, and a container it no *)
(* longer lists is purged together with the machines it has at Headscale.  *)
(*                                                                         *)
(* A snapshot is applied in one transaction, which a failure rolls back;   *)
(* what was done at Headscale by then stays done.  The event loop runs it  *)
(* without a pause, so no other task (such as the state sync) comes        *)
(* between its steps.  Threads that serve clients do, and so does the      *)
(* world: machines join, Headscale goes down and comes back.               *)
(***************************************************************************)
EXTENDS Naturals, FiniteSets

CONSTANTS
  Containers,  \* containers of one environment; a name is never reused
  Tokens,      \* access tokens, by their hashes
  Nodes,       \* machines, by the identity Headscale gives them (bound)
  Conns,       \* row identities of connections (bound)
  Belongs,     \* Belongs[n]: the container the machine n serves or reaches
  Kind,        \* Kind[n]: how the machine n is called at Headscale
  Begins,      \* <<c, d>>: the name of d is that of c with something added
  Places       \* Places[t]: the containers the agent may list t under

Kinds == {"own",     \* the container's own name
          "client",  \* client-<container>-...
          "other"}   \* a name of its own

ASSUME MachineAssumption ==
  /\ Belongs \in [Nodes -> Containers]
  /\ Kind \in [Nodes -> Kinds]
ASSUME NameAssumption ==
  /\ Begins \subseteq Containers \X Containers
  /\ Places \in [Tokens -> SUBSET Containers]

CONSTANTS None, Unrecorded
ASSUME NoneAssumption ==
  /\ None \notin Containers \cup Nodes
  /\ Unrecorded \notin Containers \cup {None}

VARIABLES
  containers,  \* published_containers
  home,        \* access_tokens: the container of each token, None for no row
  row,         \* headscale_nodes: the container of each row, None for none
  conn,        \* connections
  asking,      \* asking[t]: the container a client thread connects to by t
  machine,     \* Headscale: the machines
  keys,        \* Headscale: the containers that some live preauth key admits to
  up,          \* Headscale answers
  agent,       \* what the agent lists in its snapshots
  tx           \* the transaction that applies a snapshot

dbVars == <<containers, home, row>>
worldVars == <<keys, up, agent>>
vars == <<dbVars, conn, asking, machine, worldVars, tx>>

ConnRow == [container : Containers, token : Tokens, node : Nodes \cup {None},
            pending : BOOLEAN]

(* The row r, bound to the machine n; to none, if n is None.               *)
Bound(r, n) == [r EXCEPT !.node = n]
NoConn == [container |-> None, token |-> None, node |-> None, pending |-> FALSE]

Listing == {l \in [has : SUBSET Containers, home : [Tokens -> Containers \cup {None}]] :
              \A t \in Tokens : l.home[t] # None => l.home[t] \in l.has \cap Places[t]}
Nothing == [has |-> {}, home |-> [t \in Tokens |-> None]]

(* orphans and incoming: the containers still to be purged and stored;     *)
(* cur: the one being purged, del: its machines still to be deleted;       *)
(* the rest is the transaction's own view of the tables.                   *)
TxState == [pc : {"idle", "purging", "expiring", "deleting"},
            orphans : SUBSET Containers, incoming : SUBSET Containers,
            cur : Containers \cup {None},
            del : SUBSET Nodes,
            containers : SUBSET Containers,
            home : [Tokens -> Containers \cup {None}],
            row : [Nodes -> Containers \cup {None, Unrecorded}]]
NoTx == [pc |-> "idle", orphans |-> {}, incoming |-> {},
         cur |-> None, del |-> {}, containers |-> {},
         home |-> [t \in Tokens |-> None], row |-> [n \in Nodes |-> Unrecorded]]

TypeOK ==
  /\ containers \in SUBSET Containers
  /\ home \in [Tokens -> Containers \cup {None}]
  /\ row \in [Nodes -> Containers \cup {None, Unrecorded}]
  /\ conn \in [Conns -> ConnRow \cup {NoConn}]
  /\ asking \in [Tokens -> Containers \cup {None}]
  /\ machine \in [Nodes -> {"new", "live", "gone"}]
  /\ keys \in SUBSET Containers
  /\ up \in BOOLEAN
  /\ agent \in Listing
  /\ tx \in TxState
  /\ tx.pc \in {"expiring", "deleting"} <=> tx.cur # None

Init ==
  /\ containers = {} /\ keys = {} /\ up = TRUE
  /\ home = [t \in Tokens |-> None]
  /\ row = [n \in Nodes |-> Unrecorded]
  /\ conn = [k \in Conns |-> NoConn]
  /\ asking = [t \in Tokens |-> None]
  /\ machine = [n \in Nodes |-> "new"]
  /\ agent = Nothing
  /\ tx = NoTx

-----------------------------------------------------------------------------
(* The transaction *)

SyncBegin ==
  /\ tx.pc = "idle"
  /\ tx' = [pc |-> "purging",
            orphans |-> containers \ agent.has, incoming |-> agent.has,
            cur |-> None, del |-> {},
            containers |-> containers, home |-> home, row |-> row]
  /\ UNCHANGED <<dbVars, conn, asking, machine, worldVars>>

(* Mutated form: what was done up to the failure is kept.                  *)
RollbackKeepingWork ==
  /\ tx' = NoTx
  /\ containers' = tx.containers /\ home' = tx.home /\ row' = tx.row
  /\ conn' = [k \in Conns |-> IF conn[k].container \in tx.containers
                              THEN conn[k] ELSE NoConn]

Rollback == tx' = NoTx /\ UNCHANGED <<dbVars, conn>>

(* Mutated form: those that are nobody's are taken for those of c.         *)
RecordedOrNobodys(c) ==
  {n \in Nodes : tx.row[n] \in {c, None}}
  \cup {n \in Nodes : /\ tx.row[n] # Unrecorded
                      /\ \E k \in Conns : conn[k].container = c /\ conn[k].node = n}

(* The machines the database knows to be those of c: its own, and those    *)
(* that its connections are bound to.                                      *)
Recorded(c) ==
  {n \in Nodes : tx.row[n] = c}
  \cup {n \in Nodes : /\ tx.row[n] # Unrecorded
                      /\ \E k \in Conns : conn[k].container = c /\ conn[k].node = n}

(* A machine that Headscale lists under a name that is c's, or that begins *)
(* with client-<name of c>.                                                *)
Called(n, c) ==
  \/ Kind[n] = "own" /\ Belongs[n] = c
  \/ Kind[n] = "client" /\ (Belongs[n] = c \/ <<c, Belongs[n]>> \in Begins)

(* Layers 1 to 3.  A list that fails is done without.                      *)
CollectNodes(c) ==
  /\ tx.pc = "purging" /\ c \in tx.orphans
  /\ tx' = [tx EXCEPT !.pc = "expiring", !.cur = c,
                      !.del = Recorded(c) \cup
                         {n \in Nodes : up /\ machine[n] = "live" /\ Called(n, c)}]
  /\ UNCHANGED <<dbVars, conn, asking, machine, worldVars>>

(* Layer 4: failures are logged, and the row keeps saying unused.          *)
ExpireKeys ==
  /\ tx.pc = "expiring"
  /\ keys' = IF up THEN keys \ {tx.cur} ELSE keys
  /\ tx' = [tx EXCEPT !.pc = "deleting"]
  /\ UNCHANGED <<dbVars, conn, asking, machine, up, agent>>

(* Mutated forms: a machine that is gone already is an error; every error  *)
(* is taken for a machine that is gone already.                            *)
DeleteNodeOnce(n) ==
  /\ tx.pc = "deleting" /\ n \in tx.del /\ up
  /\ machine' = [machine EXCEPT ![n] = "gone"]
  /\ IF machine[n] = "live"
     THEN /\ tx' = [tx EXCEPT !.del = @ \ {n}, !.row[n] = Unrecorded]
          /\ UNCHANGED <<dbVars, conn>>
     ELSE Rollback
  /\ UNCHANGED <<asking, worldVars>>

DeleteNodeFailsQuietly(n) ==
  /\ tx.pc = "deleting" /\ n \in tx.del /\ ~up
  /\ tx' = [tx EXCEPT !.del = @ \ {n}]
  /\ UNCHANGED <<dbVars, conn, asking, machine, worldVars>>

(* A machine that is gone already (404, 400) counts as deleted, but only a *)
(* call that succeeds removes the machine's row as well.                   *)
DeleteNode(n) ==
  /\ tx.pc = "deleting" /\ n \in tx.del /\ up
  /\ machine' = [machine EXCEPT ![n] = "gone"]
  /\ tx' = [tx EXCEPT
       !.del = @ \ {n},
       !.row = IF machine[n] = "live" THEN [@ EXCEPT ![n] = Unrecorded] ELSE @]
  /\ UNCHANGED <<dbVars, conn, asking, worldVars>>

(* Any other error.  A call that times out may have been carried out.      *)
DeleteNodeFails(n) ==
  /\ tx.pc = "deleting" /\ n \in tx.del /\ ~up
  /\ machine' \in {machine, [machine EXCEPT ![n] = "gone"]}
  /\ Rollback
  /\ UNCHANGED <<asking, worldVars>>

(* Mutated form: only connections to the container itself are looked at.   *)
TokenInUseHere(c) ==
  \E k \in Conns : conn[k] # NoConn /\ conn[k].container = c /\ tx.home[conn[k].token] # c

(* A token that some connection to another container was made with cannot  *)
(* be deleted: the connection would be left with no token.                 *)
TokenInUse(c) ==
  \E k \in Conns : /\ conn[k] # NoConn
                   /\ conn[k].container \in tx.containers \ {c}
                   /\ tx.home[conn[k].token] = c

(* Mutated form: the container purged is still the current one.            *)
PurgeContainerStill ==
  /\ tx.pc = "deleting" /\ tx.del = {}
  /\ ~TokenInUse(tx.cur)
  /\ tx' = [tx EXCEPT !.pc = "purging", !.orphans = @ \ {tx.cur},
                      !.containers = @ \ {tx.cur}]
  /\ UNCHANGED <<dbVars, conn, asking, machine, worldVars>>

PurgeContainer ==
  /\ tx.pc = "deleting" /\ tx.del = {}
  /\ ~TokenInUse(tx.cur)
  /\ tx' = [tx EXCEPT
       !.pc = "purging", !.cur = None,
       !.orphans = @ \ {tx.cur},
       !.containers = @ \ {tx.cur},
       !.home = [t \in Tokens |-> IF @[t] = tx.cur THEN None ELSE @[t]],
       !.row = [n \in Nodes |-> IF @[n] = tx.cur THEN Unrecorded ELSE @[n]]]
  /\ UNCHANGED <<dbVars, conn, asking, machine, worldVars>>

PurgeRefused ==
  /\ tx.pc = "deleting" /\ tx.del = {}
  /\ TokenInUse(tx.cur)
  /\ Rollback
  /\ UNCHANGED <<asking, machine, worldVars>>

Live == {n \in Nodes : machine[n] = "live"}

(* The machines that get a row as the container's own when it is reported  *)
(* to work: those with its name, or the only one there is.                 *)
TakenForOwn(c) ==
  {n \in Live : \/ Kind[n] = "own" /\ Belongs[n] = c
                \/ Cardinality(Live) = 1}

(* The container is created or updated, its node and its tokens synced.    *)
(* A row that exists keeps its container; a token is moved if it has to.   *)
ApplyContainer(c, working) ==
  /\ tx.pc = "purging" /\ tx.orphans = {} /\ c \in tx.incoming
  /\ tx' = [tx EXCEPT
       !.incoming = @ \ {c},
       !.containers = @ \cup {c},
       !.home = [t \in Tokens |-> IF agent.home[t] = c THEN c ELSE @[t]],
       !.row = [n \in Nodes |->
                  IF working /\ up /\ n \in TakenForOwn(c) /\ @[n] = Unrecorded
                  THEN c ELSE @[n]]]
  /\ UNCHANGED <<dbVars, conn, asking, machine, worldVars>>

(* Connections go with their container; a row that goes is unbound.  A     *)
(* thread whose token or container has gone cannot store its connection.   *)
Commit ==
  /\ tx.pc = "purging" /\ tx.orphans = {} /\ tx.incoming = {}
  /\ containers' = tx.containers /\ home' = tx.home /\ row' = tx.row
  /\ conn' = [k \in Conns |->
       IF conn[k].container \notin containers' THEN NoConn
       ELSE IF conn[k].node # None /\ row'[conn[k].node] = Unrecorded
            THEN Bound(conn[k], None)
       ELSE conn[k]]
  /\ asking' = [t \in Tokens |-> IF {asking[t], home[t]} \subseteq containers'
                                 THEN asking[t] ELSE None]
  /\ tx' = NoTx
  /\ UNCHANGED <<machine, worldVars>>

-----------------------------------------------------------------------------
(* The other tasks of the event loop, and the threads *)

(* The state sync records the machines that are new, with no container, and *)
(* binds every pending connection to the first machine of the list.        *)
StateSync(first) ==
  /\ tx.pc = "idle" /\ up /\ first \in Live
  /\ row' = [n \in Nodes |-> IF n \in Live /\ row[n] = Unrecorded THEN None ELSE row[n]]
  /\ conn' = [k \in Conns |-> IF conn[k].pending /\ conn[k].node = None
                              THEN Bound(conn[k], first) ELSE conn[k]]
  /\ UNCHANGED <<containers, home, asking, machine, worldVars, tx>>

(* The orchestrator makes a key for a container of the database.           *)
Provision(c) ==
  /\ tx.pc = "idle" /\ up /\ c \in containers
  /\ keys' = keys \cup {c}
  /\ UNCHANGED <<dbVars, conn, asking, machine, up, agent, tx>>

(* A thread waits for the rows a transaction under way has deleted.        *)
Visible(t, c) ==
  tx.pc # "idle" => c \in tx.containers /\ home[t] \in tx.containers

(* A client thread has been authorised, and its key is made.               *)
ConnectBegin(t) ==
  /\ home[t] # None /\ asking[t] = None /\ up
  /\ Visible(t, home[t])
  /\ asking' = [asking EXCEPT ![t] = home[t]]
  /\ keys' = keys \cup {home[t]}
  /\ UNCHANGED <<dbVars, conn, machine, up, agent, tx>>

ConnectEnd(t, k) ==
  /\ asking[t] # None /\ conn[k] = NoConn
  /\ Visible(t, asking[t])
  /\ conn' = [conn EXCEPT ![k] = [container |-> asking[t], token |-> t,
                                 node |-> None, pending |-> TRUE]]
  /\ asking' = [asking EXCEPT ![t] = None]
  /\ UNCHANGED <<dbVars, machine, worldVars, tx>>

(* A connection is confirmed, or its deadline passes.                      *)
Settle(k) ==
  /\ conn[k].pending
  /\ conn' = [conn EXCEPT ![k].pending = FALSE]
  /\ UNCHANGED <<dbVars, asking, machine, worldVars, tx>>

(* The process dies: the transaction and the threads with it.              *)
Restart ==
  /\ tx.pc # "idle" \/ \E t \in Tokens : asking[t] # None
  /\ tx' = NoTx
  /\ asking' = [t \in Tokens |-> None]
  /\ UNCHANGED <<dbVars, conn, machine, worldVars>>

-----------------------------------------------------------------------------
(* The world *)

Join(n) ==
  /\ machine[n] = "new" /\ Belongs[n] \in keys
  /\ machine' = [machine EXCEPT ![n] = "live"]
  /\ UNCHANGED <<dbVars, conn, asking, worldVars, tx>>

(* Not while a snapshot is applied: it would show in the next one only.    *)
ChangeAgent(l) ==
  /\ tx.pc = "idle"
  /\ agent' = l
  /\ UNCHANGED <<dbVars, conn, asking, machine, keys, up, tx>>

ChangeHealth ==
  /\ up' = ~up
  /\ UNCHANGED <<dbVars, conn, asking, machine, keys, agent, tx>>

-----------------------------------------------------------------------------
Apply == \E c \in Containers, working \in BOOLEAN : ApplyContainer(c, working)

Purge ==
  \/ \E c \in Containers : CollectNodes(c)
  \/ ExpireKeys \/ PurgeContainer \/ PurgeRefused
  \/ \E n \in Nodes : DeleteNode(n) \/ DeleteNodeFails(n)

Sync == SyncBegin \/ Purge \/ Apply \/ Commit

Threads ==
  \/ \E t \in Tokens : ConnectBegin(t) \/ \E k \in Conns : ConnectEnd(t, k)
  \/ \E k \in Conns : Settle(k)

World ==
  \/ \E n \in Nodes : Join(n)
  \/ \E l \in Listing : ChangeAgent(l)
  \/ ChangeHealth

Next ==
  \/ Sync \/ Threads \/ World \/ Restart
  \/ \E n \in Nodes : StateSync(n)
  \/ \E c \in Containers : Provision(c)

Spec == Init /\ [][Next]_vars

(* The event loop runs on, and the agent has its snapshots applied again   *)
(* and again: nothing else triggers a sync.                                *)
FairSpec == Spec /\ WF_vars(Sync)

-----------------------------------------------------------------------------
(* Properties *)

BelongsTo(n, c) == row[n] = c \/ \E k \in Conns : conn[k].container = c /\ conn[k].node = n

(* No container leaves the database before every machine recorded as its   *)
(* own, or bound to a connection to it, has left Headscale.  The deletions *)
(* are calls to another system made in the middle of a transaction, each   *)
(* of which may fail, while threads add connections.                       *)
PurgedNodesGone ==
  [][\A c \in containers \ containers' : \A n \in Nodes :
       BelongsTo(n, c) => machine'[n] # "live"]_vars

(* There is a container to be purged that n belongs to, or is called after. *)
Condemned(n) == \E c \in containers \ agent.has : BelongsTo(n, c) \/ Called(n, c)

(* A machine is deleted only on account of a container that the database   *)
(* has and the agent lists no more: recorded as its own or bound to a      *)
(* connection to it, by what the database says at the time of the call and *)
(* not only when the list to delete was made, or called after it at        *)
(* Headscale (ContainerCleanupService._cleanup_single_container).          *)
DeletedForAnOrphan ==
  [][\A n \in Nodes :
       machine[n] = "live" /\ machine'[n] # "live" => Condemned(n)]_vars

(* A snapshot is stored whole or not at all: when the tables change, the   *)
(* containers are those of the snapshot that was being applied, and its    *)
(* tokens are where it has them.                                           *)
SnapshotStoredWhole ==
  [][<<containers, home>>' # <<containers, home>> =>
       /\ containers' = agent.has
       /\ \A t \in Tokens :
            agent.home[t] # None => home'[t] = agent.home[t]]_vars

(* A connection made with a token that has since moved to the container c: *)
(* as long as it is there, c cannot be deleted.                            *)
LeftBehind(c) ==
  \E k \in Conns : conn[k] # NoConn /\ conn[k].container # c /\ home[conn[k].token] = c

(* A container that the agent no longer lists is purged in the end, if     *)
(* Headscale is up, the process alive and no token of a container to be    *)
(* purged away from its connections from some time on: a purge that failed *)
(* half way is taken up again, whatever it had deleted by then.            *)
OrphanPurged ==
  \A c \in Containers :
    (/\ <>[](up /\ c \notin agent.has /\ \A d \in Containers \ agent.has : ~LeftBehind(d))
     /\ <>[][~Restart]_vars)
      => <>[](c \notin containers)

(* container_cleanup_service.py:33-34 speaks of the nodes "for the         *)
(* container and its clients": no machine that belongs to a container the  *)
(* agent still lists is deleted.                                           *)
OnlyOrphansNodesDeleted ==
  [][\A n \in Nodes :
       machine[n] = "live" /\ machine'[n] = "gone" =>
         Belongs[n] \notin agent.has]_vars

-----------------------------------------------------------------------------
(* What all this implements *)

NamedAfter == {p \in Nodes \X Containers : Called(p[1], p[2])}
Registry == INSTANCE ContainerRegistry
              WITH listed <- agent, Free <- NoConn, After <- NamedAfter

(* Seen from outside a snapshot is applied in one step, whatever fails or  *)
(* is taken up again and whatever threads and machines do in the middle:   *)
(* what it no longer lists has no machine left by then, and no token, row  *)
(* or connection is left that refers to what has gone; and but for the     *)
(* machines of what is to go a failed one has done nothing                 *)
(* (EnvironmentSyncService.sync).                                          *)
AppliesInOneStep == Registry!Spec

=============================================================================
