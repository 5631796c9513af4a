------------------------ MODULE EnvironmentSyncProofs ------------------------
(***************************************************************************)
(* What holds of applying snapshots for every set of containers, tokens,   *)
(* machines and connections, whatever their names.                         *)
(***************************************************************************)
EXTENDS EnvironmentSync, TLAPS

-----------------------------------------------------------------------------
(* The state between two transactions.                                     *)
LEMMA NoTxTyped == NoTx \in TxState /\ NoTx.pc = "idle" /\ NoTx.cur = None
BY DEF NoTx, TxState

(* A listing is one that the agent may have.                               *)
LEMMA ListingTyped ==
  \A l \in Listing : /\ l.has \in SUBSET Containers
                     /\ l.home \in [Tokens -> Containers \cup {None}]
                     /\ \A t \in Tokens : l.home[t] # None => l.home[t] \in l.has
BY DEF Listing

(* So is the empty one, which the agent starts with.                       *)
LEMMA NothingListed == Nothing \in Listing
<1>1. /\ Nothing \in [has : SUBSET Containers,
                      home : [Tokens -> Containers \cup {None}]]
      /\ \A t \in Tokens : Nothing.home[t] = None
  BY DEF Nothing
<1> QED
  BY <1>1 DEF Listing

(* Binding a row to a machine leaves a row.                                *)
LEMMA BoundRow ==
  \A r \in ConnRow, n \in Nodes \cup {None} :
    /\ Bound(r, n) \in ConnRow
    /\ Bound(r, n).container = r.container
    /\ Bound(r, n).token = r.token
    /\ Bound(r, n).node = n
BY DEF Bound, ConnRow

(* A row that is free is no connection to any container.                   *)
LEMMA NoConnFields ==
  NoConn.container = None /\ NoConn.node = None /\ NoConn.pending = FALSE
BY DEF NoConn

-----------------------------------------------------------------------------
(* The variables keep their types, and a container is being purged just    *)
(* while its keys are expired and its machines deleted.                    *)
THEOREM TypeCorrect == Spec => []TypeOK
<1> USE MachineAssumption, NameAssumption, NoneAssumption
<1>1. Init => TypeOK
  BY NoTxTyped, NothingListed DEF Init, TypeOK
<1>2. TypeOK /\ [Next]_vars => TypeOK'
  <2> SUFFICES ASSUME TypeOK, [Next]_vars PROVE TypeOK'
    OBVIOUS
  <2> USE DEF TypeOK, dbVars, worldVars
  <2>1. CASE SyncBegin
    BY <2>1, ListingTyped DEF SyncBegin, TxState
  <2>2. ASSUME NEW c \in Containers, CollectNodes(c) PROVE TypeOK'
    <3>1. Recorded(c) \subseteq Nodes
      BY DEF Recorded
    <3> QED
      BY <2>2, <3>1 DEF CollectNodes, TxState
  <2>3. CASE ExpireKeys
    BY <2>3 DEF ExpireKeys, TxState
  <2>4. ASSUME NEW n \in Nodes, DeleteNode(n) PROVE TypeOK'
    BY <2>4 DEF DeleteNode, TxState
  <2>5. ASSUME NEW n \in Nodes, DeleteNodeFails(n) PROVE TypeOK'
    BY <2>5, NoTxTyped DEF DeleteNodeFails, Rollback
  <2>6. CASE PurgeContainer
    BY <2>6 DEF PurgeContainer, TxState
  <2>7. CASE PurgeRefused
    BY <2>7, NoTxTyped DEF PurgeRefused, Rollback
  <2>8. ASSUME NEW c \in Containers, NEW working \in BOOLEAN,
               ApplyContainer(c, working)
        PROVE TypeOK'
    BY <2>8 DEF ApplyContainer, TxState
  <2>9. CASE Commit
    <3>1. \A k \in Conns : conn'[k] \in ConnRow \cup {NoConn}
      <4> SUFFICES ASSUME NEW k \in Conns
                   PROVE  conn'[k] \in ConnRow \cup {NoConn}
        OBVIOUS
      <4>1. conn'[k] \in {conn[k], NoConn, Bound(conn[k], None)}
        BY <2>9 DEF Commit
      <4>2. CASE conn[k] = NoConn
        BY <2>9, <4>2, NoConnFields DEF Commit
      <4>3. CASE conn[k] \in ConnRow
        BY <4>1, <4>3, BoundRow
      <4> QED
        BY <4>2, <4>3
    <3>2. conn' \in [Conns -> ConnRow \cup {NoConn}]
      BY <2>9, <3>1 DEF Commit
    <3>3. asking' \in [Tokens -> Containers \cup {None}]
      BY <2>9 DEF Commit
    <3> QED
      BY <2>9, <3>2, <3>3, NoTxTyped DEF Commit, TxState
  <2>10. ASSUME NEW n \in Nodes, StateSync(n) PROVE TypeOK'
    <3>1. conn' \in [Conns -> ConnRow \cup {NoConn}]
      BY <2>10, BoundRow, NoConnFields DEF StateSync, Live
    <3>2. row' \in [Nodes -> Containers \cup {None, Unrecorded}]
      BY <2>10 DEF StateSync
    <3> QED
      BY <2>10, <3>1, <3>2 DEF StateSync
  <2>11. ASSUME NEW c \in Containers, Provision(c) PROVE TypeOK'
    BY <2>11 DEF Provision
  <2>12. ASSUME NEW t \in Tokens, ConnectBegin(t) PROVE TypeOK'
    <3>1. home[t] \in Containers
      BY <2>12 DEF ConnectBegin
    <3>2. keys' \in SUBSET Containers
      BY <2>12, <3>1 DEF ConnectBegin
    <3>3. asking' \in [Tokens -> Containers \cup {None}]
      BY <2>12, <3>1 DEF ConnectBegin
    <3>4. UNCHANGED <<containers, home, row, conn, machine, up, agent, tx>>
      BY <2>12 DEF ConnectBegin
    <3> QED
      BY <3>2, <3>3, <3>4
  <2>13. ASSUME NEW t \in Tokens, NEW k \in Conns, ConnectEnd(t, k) PROVE TypeOK'
    <3>1. [container |-> asking[t], token |-> t, node |-> None, pending |-> TRUE]
            \in ConnRow
      BY <2>13 DEF ConnectEnd, ConnRow
    <3>2. conn' \in [Conns -> ConnRow \cup {NoConn}]
      BY <2>13, <3>1 DEF ConnectEnd
    <3>3. asking' \in [Tokens -> Containers \cup {None}]
      BY <2>13 DEF ConnectEnd
    <3> QED
      BY <2>13, <3>2, <3>3 DEF ConnectEnd
  <2>14. ASSUME NEW k \in Conns, Settle(k) PROVE TypeOK'
    <3>1. conn[k] \in ConnRow
      BY <2>14, NoConnFields DEF Settle
    <3>2. [conn[k] EXCEPT !.pending = FALSE] \in ConnRow
      BY <3>1 DEF ConnRow
    <3>3. conn' = [conn EXCEPT ![k] = [conn[k] EXCEPT !.pending = FALSE]]
      BY <2>14 DEF Settle
    <3>4. conn' \in [Conns -> ConnRow \cup {NoConn}]
      BY <3>2, <3>3
    <3> QED
      BY <2>14, <3>4 DEF Settle
  <2>15. CASE Restart
    BY <2>15, NoTxTyped DEF Restart
  <2>16. ASSUME NEW n \in Nodes, Join(n) PROVE TypeOK'
    BY <2>16 DEF Join
  <2>17. ASSUME NEW l \in Listing, ChangeAgent(l) PROVE TypeOK'
    BY <2>17 DEF ChangeAgent
  <2>18. CASE ChangeHealth
    BY <2>18 DEF ChangeHealth
  <2>19. CASE UNCHANGED vars
    BY <2>19 DEF vars
  <2> QED
    BY <2>1, <2>2, <2>3, <2>4, <2>5, <2>6, <2>7, <2>8, <2>9, <2>10, <2>11,
       <2>12, <2>13, <2>14, <2>15, <2>16, <2>17, <2>18, <2>19
    DEF Next, Sync, Purge, Apply, Threads, World
<1> QED
  BY <1>1, <1>2, PTL DEF Spec

-----------------------------------------------------------------------------
(* Why a purge forgets no machine.  A binding is to a recorded machine, and *)
(* a recorded machine has joined, so one that is gone stays gone.  While a *)
(* snapshot is applied, the machines of a container that has been purged   *)
(* are gone, and those of the container being purged are gone or still on  *)
(* the list of those to delete; the transaction misses only rows of        *)
(* machines it has seen gone.                                              *)
PurgeInv ==
  /\ \A k \in Conns : conn[k].node # None => row[conn[k].node] # Unrecorded
  /\ \A n \in Nodes : row[n] # Unrecorded => machine[n] # "new"
  /\ tx.pc # "idle" =>
       /\ \A n \in Nodes : tx.row[n] # Unrecorded => machine[n] # "new"
       /\ \A n \in Nodes :
            row[n] # Unrecorded => tx.row[n] = row[n] \/ machine[n] = "gone"
       /\ \A c \in containers \ tx.containers, n \in Nodes :
            BelongsTo(n, c) => machine[n] = "gone"
       /\ tx.cur # None =>
            \A n \in Nodes : BelongsTo(n, tx.cur) => n \in tx.del \/ machine[n] = "gone"

(* Steps that leave the tables, the bindings and the transaction alone, and *)
(* bring no machine back, keep the invariant.                              *)
LEMMA PurgeInvFrame ==
  ASSUME TypeOK, PurgeInv, UNCHANGED <<containers, row, tx>>,
         \A n \in Nodes : machine[n] # "new" => machine'[n] = machine[n],
         \A k \in Conns : \/ conn'[k].node = None
                          \/ /\ conn'[k].node = conn[k].node
                             /\ conn'[k].container = conn[k].container
  PROVE  PurgeInv'
<1>1. \A n \in Nodes : \A c :
        c # None /\ BelongsTo(n, c)' => BelongsTo(n, c)
  BY NoneAssumption DEF BelongsTo
<1>2. \A k \in Conns : conn'[k].node # None => row'[conn'[k].node] # Unrecorded
  BY DEF PurgeInv
<1>3. \A n \in Nodes : row'[n] # Unrecorded => machine'[n] # "new"
  BY DEF PurgeInv
<1>4. ASSUME tx'.pc # "idle"
      PROVE  /\ \A n \in Nodes : tx'.row[n] # Unrecorded => machine'[n] # "new"
             /\ \A n \in Nodes :
                  row'[n] # Unrecorded => tx'.row[n] = row'[n] \/ machine'[n] = "gone"
  BY <1>4 DEF PurgeInv
<1>5. ASSUME tx'.pc # "idle", NEW c \in containers' \ tx'.containers,
             NEW n \in Nodes, BelongsTo(n, c)'
      PROVE  machine'[n] = "gone"
  <2>1. c # None
    BY NoneAssumption DEF TypeOK
  <2>2. machine[n] = "gone"
    BY <1>1, <1>5, <2>1 DEF PurgeInv
  <2> QED
    BY <2>2
<1>6. ASSUME tx'.pc # "idle", tx'.cur # None, NEW n \in Nodes, BelongsTo(n, tx.cur)'
      PROVE  n \in tx'.del \/ machine'[n] = "gone"
  <2>1. n \in tx.del \/ machine[n] = "gone"
    BY <1>1, <1>6 DEF PurgeInv
  <2> QED
    BY <2>1
<1> QED
  BY <1>2, <1>3, <1>4, <1>5, <1>6 DEF PurgeInv, BelongsTo

(* The invariant holds whatever the machines, the names and the threads.   *)
LEMMA PurgeInvariant == Spec => []PurgeInv
<1> USE NoneAssumption
<1>1. Init => PurgeInv
  BY NoTxTyped, NoConnFields DEF Init, PurgeInv
<1>2. TypeOK /\ PurgeInv /\ [Next]_vars => PurgeInv'
  <2> SUFFICES ASSUME TypeOK, PurgeInv, [Next]_vars PROVE PurgeInv'
    OBVIOUS
  <2> USE DEF dbVars, worldVars
  <2>1. CASE SyncBegin
    BY <2>1 DEF SyncBegin, PurgeInv, BelongsTo, TypeOK
  <2>2. ASSUME NEW c \in Containers, CollectNodes(c) PROVE PurgeInv'
    <3>1. /\ UNCHANGED <<containers, row, conn, machine>>
          /\ tx'.cur = c /\ tx'.containers = tx.containers /\ tx'.row = tx.row
          /\ Recorded(c) \subseteq tx'.del
          /\ tx.pc # "idle"
      BY <2>2 DEF CollectNodes, TypeOK, TxState
    <3>2. ASSUME NEW n \in Nodes, BelongsTo(n, c), machine[n] # "gone"
          PROVE  n \in Recorded(c)
      <4>1. row[n] # Unrecorded
        BY <2>2, <3>2 DEF BelongsTo, PurgeInv
      <4>2. tx.row[n] = row[n]
        BY <3>1, <3>2, <4>1 DEF PurgeInv
      <4> QED
        BY <3>2, <4>1, <4>2 DEF BelongsTo, Recorded
    <3> QED
      BY <3>1, <3>2 DEF PurgeInv, BelongsTo
  <2>3. CASE ExpireKeys
    <3>1. /\ UNCHANGED <<containers, row, conn, machine>>
          /\ tx'.cur = tx.cur /\ tx'.containers = tx.containers
          /\ tx'.row = tx.row /\ tx'.del = tx.del /\ tx.pc # "idle"
      BY <2>3 DEF ExpireKeys, TypeOK, TxState
    <3> QED
      BY <3>1 DEF PurgeInv, BelongsTo
  <2>4. ASSUME NEW n \in Nodes, DeleteNode(n) PROVE PurgeInv'
    <3>1. /\ UNCHANGED <<containers, row, conn>>
          /\ machine' = [machine EXCEPT ![n] = "gone"]
          /\ tx'.cur = tx.cur /\ tx'.containers = tx.containers
          /\ tx'.del = tx.del \ {n} /\ tx.pc # "idle"
          /\ tx'.row \in {tx.row, [tx.row EXCEPT ![n] = Unrecorded]}
      BY <2>4 DEF DeleteNode, TypeOK, TxState
    <3>2. tx.row \in [Nodes -> Containers \cup {None, Unrecorded}]
      BY DEF TypeOK, TxState
    <3>3. machine \in [Nodes -> {"new", "live", "gone"}]
      BY DEF TypeOK
    <3> QED
      BY <3>1, <3>2, <3>3 DEF PurgeInv, BelongsTo
  <2>5. ASSUME NEW n \in Nodes, DeleteNodeFails(n) PROVE PurgeInv'
    <3>1. /\ UNCHANGED <<containers, row, conn>>
          /\ machine' \in {machine, [machine EXCEPT ![n] = "gone"]}
          /\ tx' = NoTx
      BY <2>5 DEF DeleteNodeFails, Rollback
    <3> QED
      BY <3>1, NoTxTyped DEF PurgeInv, TypeOK
  <2>6. CASE PurgeContainer
    <3>1. /\ UNCHANGED <<containers, row, conn, machine>>
          /\ tx'.cur = None /\ tx'.containers = tx.containers \ {tx.cur}
          /\ tx.del = {} /\ tx.pc # "idle" /\ tx.cur # None
          /\ tx'.row = [n \in Nodes |-> IF tx.row[n] = tx.cur THEN Unrecorded
                                         ELSE tx.row[n]]
      BY <2>6 DEF PurgeContainer, TypeOK, TxState
    <3>2. \A n \in Nodes : BelongsTo(n, tx.cur) => machine[n] = "gone"
      BY <3>1 DEF PurgeInv
    <3>3. \A n \in Nodes : row[n] # Unrecorded =>
            tx'.row[n] = row[n] \/ machine[n] = "gone"
      BY <3>1, <3>2 DEF PurgeInv, BelongsTo
    <3>4. \A n \in Nodes : tx'.row[n] # Unrecorded => machine[n] # "new"
      BY <3>1 DEF PurgeInv
    <3>5. \A c \in containers \ tx'.containers, n \in Nodes :
            BelongsTo(n, c) => machine[n] = "gone"
      BY <3>1, <3>2 DEF PurgeInv
    <3> QED
      BY <3>1, <3>3, <3>4, <3>5 DEF PurgeInv, BelongsTo
  <2>7. CASE PurgeRefused
    BY <2>7, NoTxTyped DEF PurgeRefused, Rollback, PurgeInv, BelongsTo
  <2>8. ASSUME NEW c \in Containers, NEW working \in BOOLEAN,
               ApplyContainer(c, working)
        PROVE PurgeInv'
    <3>1. /\ UNCHANGED <<containers, row, conn, machine>>
          /\ tx'.cur = tx.cur /\ tx'.containers = tx.containers \cup {c}
          /\ tx.pc = "purging"
      BY <2>8 DEF ApplyContainer, TypeOK, TxState
    <3>2. \A n \in Nodes :
            \/ tx'.row[n] = tx.row[n]
            \/ tx.row[n] = Unrecorded /\ machine[n] = "live"
      BY <2>8 DEF ApplyContainer, TypeOK, TxState, TakenForOwn, Live
    <3>3. tx.cur = None
      BY <3>1 DEF TypeOK
    <3> QED
      BY <3>1, <3>2, <3>3 DEF PurgeInv, BelongsTo
  <2>9. CASE Commit
    <3>1. \A k \in Conns : conn'[k].node # None => row'[conn'[k].node] # Unrecorded
      <4> SUFFICES ASSUME NEW k \in Conns, conn'[k].node # None
                   PROVE  row'[conn'[k].node] # Unrecorded
        OBVIOUS
      <4>1. conn[k] \in ConnRow \/ conn[k] = NoConn
        BY DEF TypeOK
      <4>2. conn'[k] \in {conn[k], NoConn, Bound(conn[k], None)}
        BY <2>9 DEF Commit
      <4>3. conn[k] \in ConnRow
        BY <2>9, <4>1, NoConnFields DEF Commit, TypeOK
      <4>4. conn'[k] = conn[k]
        BY <4>2, <4>3, BoundRow, NoConnFields
      <4>5. CASE row'[conn[k].node] = Unrecorded
        <5>1. conn'[k] \in {NoConn, Bound(conn[k], None)}
          BY <2>9, <4>4, <4>5 DEF Commit
        <5> QED
          BY <5>1, <4>3, BoundRow, NoConnFields
      <4> QED
        BY <4>4, <4>5
    <3>2. \A n \in Nodes : row'[n] # Unrecorded => machine'[n] # "new"
      BY <2>9 DEF Commit, PurgeInv
    <3> QED
      BY <2>9, <3>1, <3>2, NoTxTyped DEF Commit, PurgeInv
  <2>10. ASSUME NEW n \in Nodes, StateSync(n) PROVE PurgeInv'
    <3>1. \A k \in Conns : conn'[k].node \in {conn[k].node, n}
      <4> SUFFICES ASSUME NEW k \in Conns PROVE conn'[k].node \in {conn[k].node, n}
        OBVIOUS
      <4>1. CASE conn[k].pending
        BY <2>10, <4>1, BoundRow, NoConnFields DEF StateSync, TypeOK
      <4>2. CASE ~conn[k].pending
        BY <2>10, <4>2 DEF StateSync
      <4> QED
        BY <4>1, <4>2
    <3>2. /\ machine[n] = "live" /\ row'[n] # Unrecorded
          /\ UNCHANGED <<machine, tx>> /\ tx.pc = "idle"
      BY <2>10 DEF StateSync, Live, TypeOK
    <3>3. \A m \in Nodes : row[m] # Unrecorded => row'[m] = row[m]
      BY <2>10 DEF StateSync
    <3>4. \A m \in Nodes : row'[m] # Unrecorded => row[m] # Unrecorded \/ machine[m] = "live"
      BY <2>10 DEF StateSync, Live
    <3>5. \A k \in Conns : conn[k].node \in Nodes \cup {None}
      BY NoConnFields DEF TypeOK, ConnRow
    <3> QED
      BY <3>1, <3>2, <3>3, <3>4, <3>5 DEF PurgeInv
  <2>11. ASSUME NEW c \in Containers, Provision(c) PROVE PurgeInv'
    BY <2>11, PurgeInvFrame DEF Provision
  <2>12. ASSUME NEW t \in Tokens, ConnectBegin(t) PROVE PurgeInv'
    BY <2>12, PurgeInvFrame DEF ConnectBegin
  <2>13. ASSUME NEW t \in Tokens, NEW k \in Conns, ConnectEnd(t, k) PROVE PurgeInv'
    BY <2>13, PurgeInvFrame DEF ConnectEnd, TypeOK
  <2>14. ASSUME NEW k \in Conns, Settle(k) PROVE PurgeInv'
    <3>1. conn[k] \in ConnRow
      BY <2>14, NoConnFields DEF Settle, TypeOK
    <3>2. conn' = [conn EXCEPT ![k] = [conn[k] EXCEPT !.pending = FALSE]]
      BY <2>14 DEF Settle
    <3>3. conn \in [Conns -> ConnRow \cup {NoConn}]
      BY DEF TypeOK
    <3>4. \A j \in Conns : /\ conn'[j].node = conn[j].node
                           /\ conn'[j].container = conn[j].container
      BY <3>1, <3>2, <3>3 DEF ConnRow
    <3> QED
      BY <2>14, <3>4, PurgeInvFrame DEF Settle
  <2>15. CASE Restart
    BY <2>15, NoTxTyped DEF Restart, PurgeInv, BelongsTo
  <2>16. ASSUME NEW n \in Nodes, Join(n) PROVE PurgeInv'
    BY <2>16, PurgeInvFrame DEF Join, TypeOK
  <2>17. ASSUME NEW l \in Listing, ChangeAgent(l) PROVE PurgeInv'
    BY <2>17, PurgeInvFrame DEF ChangeAgent
  <2>18. CASE ChangeHealth
    BY <2>18, PurgeInvFrame DEF ChangeHealth
  <2>19. CASE UNCHANGED vars
    BY <2>19, PurgeInvFrame DEF vars
  <2> QED
    BY <2>1, <2>2, <2>3, <2>4, <2>5, <2>6, <2>7, <2>8, <2>9, <2>10, <2>11,
       <2>12, <2>13, <2>14, <2>15, <2>16, <2>17, <2>18, <2>19
    DEF Next, Sync, Purge, Apply, Threads, World
<1> QED
  BY <1>1, <1>2, TypeCorrect, PTL DEF Spec

(* The containers and the homes of the tokens change in commits only.      *)
LEMMA CommitsOnly ==
  ASSUME [Next]_vars, <<containers, home>>' # <<containers, home>>
  PROVE  Commit
<1> USE DEF dbVars, worldVars
<1>1. CASE SyncBegin
  BY <1>1 DEF SyncBegin
<1>2. CASE Purge
  BY <1>2 DEF Purge, CollectNodes, ExpireKeys, PurgeContainer, PurgeRefused,
              DeleteNode, DeleteNodeFails, Rollback
<1>3. CASE Apply
  BY <1>3 DEF Apply, ApplyContainer
<1>4. CASE Threads
  BY <1>4 DEF Threads, ConnectBegin, ConnectEnd, Settle
<1>5. CASE World
  BY <1>5 DEF World, Join, ChangeAgent, ChangeHealth
<1>6. CASE Restart \/ (\E n \in Nodes : StateSync(n)) \/ (\E c \in Containers : Provision(c))
  BY <1>6 DEF Restart, StateSync, Provision
<1>7. CASE UNCHANGED vars
  BY <1>7 DEF vars
<1> QED
  BY <1>1, <1>2, <1>3, <1>4, <1>5, <1>6, <1>7 DEF Next, Sync

(* No container leaves the database before the machines recorded as its    *)
(* own or bound to its connections have left Headscale                     *)
(* (ContainerCleanupService._cleanup_single_container).                    *)
THEOREM PurgeLeavesNoNode == Spec => PurgedNodesGone
<1>1. ASSUME TypeOK, PurgeInv, [Next]_vars,
             NEW c \in containers \ containers', NEW n \in Nodes, BelongsTo(n, c)
      PROVE  machine'[n] # "live"
  <2>1. Commit
    BY <1>1, CommitsOnly
  <2>2. containers' = tx.containers /\ machine' = machine /\ tx.pc = "purging"
    BY <2>1 DEF Commit
  <2> QED
    BY <1>1, <2>2 DEF PurgeInv
<1>2. TypeOK /\ PurgeInv /\ [Next]_vars =>
        [\A c \in containers \ containers' : \A n \in Nodes :
           BelongsTo(n, c) => machine'[n] # "live"]_vars
  BY <1>1
<1> QED
  BY <1>2, TypeCorrect, PurgeInvariant, PTL DEF Spec, PurgedNodesGone

-----------------------------------------------------------------------------
(* How far the transaction has got: it has the listed containers that are  *)
(* not to be stored any more, with their tokens, and of the others only    *)
(* those that are still to be purged.                                      *)
SnapshotInv ==
  tx.pc # "idle" =>
    /\ tx.incoming \subseteq agent.has
    /\ tx.orphans \cap agent.has = {}
    /\ tx.cur # None => tx.cur \in tx.orphans
    /\ tx.containers \subseteq agent.has \cup tx.orphans
    /\ agent.has \ tx.incoming \subseteq tx.containers
    /\ \A t \in Tokens :
         agent.home[t] \in agent.has \ tx.incoming => tx.home[t] = agent.home[t]

(* The invariant of the transaction's progress holds.                      *)
LEMMA SnapshotInvariant == Spec => []SnapshotInv
<1> USE NoneAssumption
<1>1. Init => SnapshotInv
  BY NoTxTyped DEF Init, SnapshotInv
<1>2. TypeOK /\ SnapshotInv /\ [Next]_vars => SnapshotInv'
  <2> SUFFICES ASSUME TypeOK, SnapshotInv, [Next]_vars PROVE SnapshotInv'
    OBVIOUS
  <2> USE DEF dbVars, worldVars
  <2>1. CASE tx' = NoTx
    BY <2>1, NoTxTyped DEF SnapshotInv
  <2>2. CASE UNCHANGED <<agent, tx>>
    BY <2>2 DEF SnapshotInv
  <2>3. CASE SyncBegin
    BY <2>3 DEF SyncBegin, SnapshotInv, TypeOK
  <2>4. ASSUME NEW c \in Containers, CollectNodes(c) PROVE SnapshotInv'
    BY <2>4 DEF CollectNodes, SnapshotInv, TypeOK, TxState
  <2>5. CASE ExpireKeys
    BY <2>5 DEF ExpireKeys, SnapshotInv, TypeOK, TxState
  <2>6. ASSUME NEW n \in Nodes, DeleteNode(n) PROVE SnapshotInv'
    BY <2>6 DEF DeleteNode, SnapshotInv, TypeOK, TxState
  <2>7. CASE PurgeContainer
    <3>1. /\ agent' = agent /\ tx'.incoming = tx.incoming
          /\ tx'.orphans = tx.orphans \ {tx.cur}
          /\ tx'.containers = tx.containers \ {tx.cur} /\ tx'.cur = None
          /\ \A t \in Tokens : tx.home[t] # tx.cur => tx'.home[t] = tx.home[t]
      BY <2>7 DEF PurgeContainer, TypeOK, TxState
    <3>2. tx.cur \in tx.orphans /\ tx.pc # "idle"
      BY <2>7 DEF PurgeContainer, SnapshotInv, TypeOK
    <3> QED
      BY <3>1, <3>2 DEF SnapshotInv
  <2>8. ASSUME NEW c \in Containers, NEW working \in BOOLEAN,
               ApplyContainer(c, working)
        PROVE SnapshotInv'
    <3>1. /\ agent' = agent /\ tx'.incoming = tx.incoming \ {c}
          /\ tx'.orphans = tx.orphans /\ tx'.cur = tx.cur
          /\ tx'.containers = tx.containers \cup {c}
          /\ \A t \in Tokens :
               tx'.home[t] = IF agent.home[t] = c THEN c ELSE tx.home[t]
          /\ tx.pc # "idle" /\ c \in tx.incoming
      BY <2>8 DEF ApplyContainer, TypeOK, TxState
    <3> QED
      BY <3>1 DEF SnapshotInv
  <2>9. ASSUME NEW l \in Listing, ChangeAgent(l) PROVE SnapshotInv'
    BY <2>9 DEF ChangeAgent, SnapshotInv
  <2>10. CASE Threads \/ (\E n \in Nodes : Join(n)) \/ ChangeHealth
              \/ (\E n \in Nodes : StateSync(n)) \/ (\E c \in Containers : Provision(c))
    BY <2>2, <2>10 DEF Threads, ConnectBegin, ConnectEnd, Settle, Join,
                       ChangeHealth, StateSync, Provision
  <2> QED
    BY <2>1, <2>2, <2>3, <2>4, <2>5, <2>6, <2>7, <2>8, <2>9, <2>10
    DEF Next, Sync, Purge, Apply, World, vars, Commit, PurgeRefused,
        DeleteNodeFails, Rollback, Restart
<1> QED
  BY <1>1, <1>2, TypeCorrect, PTL DEF Spec

(* A snapshot is stored whole or not at all, however many containers it    *)
(* adds and removes and whatever fails (EnvironmentSyncService.sync).      *)
THEOREM SnapshotIsStoredWhole == Spec => SnapshotStoredWhole
<1>1. ASSUME TypeOK, SnapshotInv, [Next]_vars,
             <<containers, home>>' # <<containers, home>>
      PROVE  /\ containers' = agent.has
             /\ \A t \in Tokens : agent.home[t] # None => home'[t] = agent.home[t]
  <2>1. Commit
    BY <1>1, CommitsOnly
  <2>2. /\ containers' = tx.containers /\ home' = tx.home
        /\ tx.pc = "purging" /\ tx.orphans = {} /\ tx.incoming = {}
    BY <2>1 DEF Commit
  <2>3. \A t \in Tokens : agent.home[t] # None => agent.home[t] \in agent.has
    BY <1>1, ListingTyped DEF TypeOK
  <2> QED
    BY <1>1, <2>2, <2>3 DEF SnapshotInv
<1>2. TypeOK /\ SnapshotInv /\ [Next]_vars =>
        [<<containers, home>>' # <<containers, home>> =>
           /\ containers' = agent.has
           /\ \A t \in Tokens : agent.home[t] # None => home'[t] = agent.home[t]]_vars
  BY <1>1
<1> QED
  BY <1>2, TypeCorrect, SnapshotInvariant, PTL DEF Spec, SnapshotStoredWhole

-----------------------------------------------------------------------------
(* What the machines to delete are: those of the container being purged,   *)
(* which the database still has, by the bindings of the database and the   *)
(* names at Headscale.  The transaction never adds a row for a machine     *)
(* while there is something to purge.                                      *)
OrphanInv ==
  /\ tx.orphans \subseteq containers
  /\ tx.pc # "idle" /\ tx.orphans # {} =>
       \A n \in Nodes : tx.row[n] \in {row[n], Unrecorded}
  /\ tx.cur # None =>
       \A n \in tx.del : BelongsTo(n, tx.cur) \/ Called(n, tx.cur)

(* Steps that leave the tables and the transaction alone, and no bound     *)
(* connection unbound, keep the invariant.                                 *)
LEMMA OrphanInvFrame ==
  ASSUME TypeOK, OrphanInv, UNCHANGED <<containers, row, tx>>,
         \A k \in Conns : conn[k].node \in Nodes =>
            /\ conn'[k].node = conn[k].node
            /\ conn'[k].container = conn[k].container
  PROVE  OrphanInv'
<1>1. \A n \in Nodes : \A c : BelongsTo(n, c) => BelongsTo(n, c)'
  BY DEF BelongsTo
<1>2. tx.del \subseteq Nodes
  BY DEF TypeOK, TxState
<1> QED
  BY <1>1, <1>2 DEF OrphanInv, Called

(* The invariant of what is deleted holds.                                 *)
LEMMA OrphanInvariant == Spec => []OrphanInv
<1> USE NoneAssumption
<1>1. tx = NoTx => OrphanInv
  BY DEF NoTx, OrphanInv
<1>2. Init => OrphanInv
  BY <1>1 DEF Init
<1>3. TypeOK /\ SnapshotInv /\ OrphanInv /\ [Next]_vars => OrphanInv'
  <2> SUFFICES ASSUME TypeOK, SnapshotInv, OrphanInv, [Next]_vars PROVE OrphanInv'
    OBVIOUS
  <2> USE DEF dbVars, worldVars
  <2>1. CASE tx' = NoTx
    BY <2>1 DEF NoTx, OrphanInv
  <2>2. CASE SyncBegin
    BY <2>2 DEF SyncBegin, OrphanInv, TypeOK
  <2>3. ASSUME NEW c \in Containers, CollectNodes(c) PROVE OrphanInv'
    <3>1. /\ UNCHANGED <<containers, row, conn>>
          /\ tx'.orphans = tx.orphans /\ tx'.row = tx.row /\ tx'.cur = c
          /\ tx'.del = Recorded(c) \cup
               {n \in Nodes : up /\ machine[n] = "live" /\ Called(n, c)}
          /\ tx.pc # "idle" /\ c \in tx.orphans
      BY <2>3 DEF CollectNodes, TypeOK, TxState
    <3>2. ASSUME NEW n \in Recorded(c) PROVE BelongsTo(n, c)
      BY <3>1, <3>2 DEF Recorded, BelongsTo, OrphanInv
    <3> QED
      BY <3>1, <3>2 DEF OrphanInv, BelongsTo, Called
  <2>4. CASE ExpireKeys
    <3>1. /\ UNCHANGED <<containers, row, conn>>
          /\ tx'.orphans = tx.orphans /\ tx'.row = tx.row /\ tx'.cur = tx.cur
          /\ tx'.del = tx.del /\ tx.pc # "idle"
      BY <2>4 DEF ExpireKeys, TypeOK, TxState
    <3> QED
      BY <3>1 DEF OrphanInv, BelongsTo, Called
  <2>5. ASSUME NEW n \in Nodes, DeleteNode(n) PROVE OrphanInv'
    <3>1. /\ UNCHANGED <<containers, row, conn>>
          /\ tx'.orphans = tx.orphans /\ tx'.cur = tx.cur
          /\ tx'.del = tx.del \ {n} /\ tx.pc # "idle"
          /\ tx'.row \in {tx.row, [tx.row EXCEPT ![n] = Unrecorded]}
      BY <2>5 DEF DeleteNode, TypeOK, TxState
    <3>2. tx.row \in [Nodes -> Containers \cup {None, Unrecorded}]
      BY DEF TypeOK, TxState
    <3> QED
      BY <3>1, <3>2 DEF OrphanInv, BelongsTo, Called
  <2>6. CASE PurgeContainer
    <3>1. /\ UNCHANGED <<containers, row, conn>>
          /\ tx'.cur = None /\ tx'.orphans = tx.orphans \ {tx.cur}
          /\ tx.pc # "idle"
          /\ \A n \in Nodes : tx'.row[n] \in {tx.row[n], Unrecorded}
      BY <2>6 DEF PurgeContainer, TypeOK, TxState
    <3> QED
      BY <3>1 DEF OrphanInv
  <2>7. ASSUME NEW c \in Containers, NEW working \in BOOLEAN,
               ApplyContainer(c, working)
        PROVE  OrphanInv'
    <3>1. /\ containers' = containers /\ tx'.orphans = {} /\ tx'.cur = None
      BY <2>7 DEF ApplyContainer, TypeOK, TxState
    <3> QED
      BY <3>1 DEF OrphanInv
  <2>8. ASSUME NEW n \in Nodes, StateSync(n) PROVE OrphanInv'
    <3>1. tx.pc = "idle" /\ tx.cur = None /\ UNCHANGED <<containers, tx>>
      BY <2>8 DEF StateSync, TypeOK
    <3> QED
      BY <3>1 DEF OrphanInv
  <2>9. ASSUME NEW t \in Tokens, NEW k \in Conns, ConnectEnd(t, k) PROVE OrphanInv'
    <3>1. \A j \in Conns : conn[j].node \in Nodes => conn'[j] = conn[j]
      BY <2>9, NoConnFields DEF ConnectEnd, TypeOK
    <3> QED
      BY <2>9, <3>1, OrphanInvFrame DEF ConnectEnd
  <2>10. ASSUME NEW k \in Conns, Settle(k) PROVE OrphanInv'
    <3>1. conn[k] \in ConnRow
      BY <2>10, NoConnFields DEF Settle, TypeOK
    <3>2. conn' = [conn EXCEPT ![k] = [conn[k] EXCEPT !.pending = FALSE]]
      BY <2>10 DEF Settle
    <3>3. conn \in [Conns -> ConnRow \cup {NoConn}]
      BY DEF TypeOK
    <3>4. \A j \in Conns : /\ conn'[j].node = conn[j].node
                           /\ conn'[j].container = conn[j].container
      BY <3>1, <3>2, <3>3 DEF ConnRow
    <3> QED
      BY <2>10, <3>4, OrphanInvFrame DEF Settle
  <2>11. CASE UNCHANGED <<containers, row, conn, tx>>
    BY <2>11, OrphanInvFrame
  <2>12. CASE World \/ (\E c \in Containers : Provision(c)) \/ (\E t \in Tokens : ConnectBegin(t))
              \/ UNCHANGED vars
    BY <2>11, <2>12 DEF World, Join, ChangeAgent, ChangeHealth, Provision, ConnectBegin, vars
  <2> QED
    BY <2>1, <2>2, <2>3, <2>4, <2>5, <2>6, <2>7, <2>8, <2>9, <2>10, <2>12
    DEF Next, Sync, Purge, Apply, Threads, Commit, PurgeRefused,
        DeleteNodeFails, Rollback, Restart
<1> QED
  BY <1>2, <1>3, TypeCorrect, SnapshotInvariant, PTL DEF Spec

(* Machines are deleted by a purge only.                                   *)
LEMMA DeletedByPurge ==
  ASSUME TypeOK, [Next]_vars, NEW n \in Nodes, machine[n] = "live", machine'[n] # "live"
  PROVE  DeleteNode(n) \/ DeleteNodeFails(n)
<1> USE DEF dbVars, worldVars
<1>1. ASSUME NEW m \in Nodes, DeleteNode(m) \/ DeleteNodeFails(m) PROVE m = n
  BY <1>1 DEF DeleteNode, DeleteNodeFails, TypeOK
<1>2. CASE Purge
  <2>1. machine' # machine
    OBVIOUS
  <2> QED
    BY <1>1, <1>2, <2>1 DEF Purge, CollectNodes, ExpireKeys, PurgeContainer, PurgeRefused
<1>3. CASE World
  BY <1>3 DEF World, Join, ChangeAgent, ChangeHealth, TypeOK
<1>4. CASE SyncBegin \/ Apply \/ Commit \/ Threads
  BY <1>4 DEF SyncBegin, Apply, ApplyContainer, Commit, Threads, ConnectBegin, ConnectEnd, Settle
<1>5. CASE Restart \/ (\E m \in Nodes : StateSync(m)) \/ (\E c \in Containers : Provision(c))
              \/ UNCHANGED vars
  BY <1>5 DEF Restart, StateSync, Provision, vars
<1> QED
  BY <1>2, <1>3, <1>4, <1>5 DEF Next, Sync

(* A machine is deleted only if it belongs to a container that is being    *)
(* purged, or is called after one, at the time of the call                 *)
(* (ContainerCleanupService._cleanup_single_container).                    *)
THEOREM DeletesForOrphansOnly == Spec => DeletedForAnOrphan
<1>1. ASSUME TypeOK, SnapshotInv, OrphanInv, [Next]_vars,
             NEW n \in Nodes, machine[n] = "live", machine'[n] # "live"
      PROVE  Condemned(n)
  <2>1. tx.pc = "deleting" /\ n \in tx.del
    BY <1>1, DeletedByPurge DEF DeleteNode, DeleteNodeFails
  <2>2. tx.cur # None /\ tx.cur \in tx.orphans
    BY <1>1, <2>1 DEF TypeOK, SnapshotInv
  <2>3. tx.cur \in containers \ agent.has
    BY <1>1, <2>1, <2>2 DEF OrphanInv, SnapshotInv
  <2> QED
    BY <1>1, <2>1, <2>2, <2>3 DEF OrphanInv, Condemned
<1>2. TypeOK /\ SnapshotInv /\ OrphanInv /\ [Next]_vars =>
        [\A n \in Nodes :
           machine[n] = "live" /\ machine'[n] # "live" => Condemned(n)]_vars
  BY <1>1
<1> QED
  BY <1>2, TypeCorrect, SnapshotInvariant, OrphanInvariant, PTL DEF Spec, DeletedForAnOrphan

-----------------------------------------------------------------------------
(* What refers to what.                                                    *)

(* No token, thread, connection or row refers to a container or a token    *)
(* that is not there; nor does what the transaction will store, with the   *)
(* connections that threads add to it meanwhile.  A thread that waits for  *)
(* a row to be deleted adds none, and a container whose token such a       *)
(* connection has is not purged.  A listed container is not purged either, *)
(* so that while there is something to purge no token has been moved.      *)
StandInv ==
  /\ \A t \in Tokens : /\ home[t] \in containers \cup {None}
                       /\ asking[t] # None => {asking[t], home[t]} \subseteq containers
  /\ \A k \in Conns :
       conn[k] # NoConn => {conn[k].container, home[conn[k].token]} \subseteq containers
  /\ \A n \in Nodes : row[n] \in containers \cup {None, Unrecorded}
  /\ tx.pc # "idle" =>
       /\ containers \cap agent.has \subseteq tx.containers
       /\ \A t \in Tokens :
            /\ tx.home[t] \in tx.containers \cup {None}
            /\ home[t] \in tx.containers => tx.home[t] # None
            /\ tx.orphans # {} => tx.home[t] \in {home[t], None}
       /\ \A k \in Conns :
            conn[k].container \in tx.containers => tx.home[conn[k].token] # None
       /\ \A n \in Nodes :
            /\ tx.row[n] \in tx.containers \cup {None, Unrecorded}
            /\ tx.row[n] # row[n] =>
                 row[n] = Unrecorded \/ (tx.row[n] = Unrecorded /\ machine[n] = "gone")
            /\ n \in tx.del => machine[n] # "new"

(* Steps of others than the transaction that add no connection.            *)
LEMMA StandInvFrame ==
  ASSUME StandInv, UNCHANGED <<containers, home, row, tx>>,
         tx.pc # "idle" => agent' = agent,
         \A n \in Nodes : machine[n] # "new" => machine'[n] = machine[n],
         \A t \in Tokens : asking'[t] # None => {asking'[t], home[t]} \subseteq containers,
         \A k \in Conns : \/ conn'[k] = conn[k]
                          \/ /\ conn[k] # NoConn
                             /\ conn'[k].container = conn[k].container
                             /\ conn'[k].token = conn[k].token
  PROVE  StandInv'
<1>1. \A k \in Conns :
        conn'[k] # NoConn => {conn'[k].container, home[conn'[k].token]} \subseteq containers
  BY DEF StandInv
<1>2. ASSUME tx.pc # "idle", NEW k \in Conns, conn'[k].container \in tx.containers
      PROVE  tx.home[conn'[k].token] # None
  <2>1. conn'[k].token = conn[k].token /\ conn'[k].container = conn[k].container
    OBVIOUS
  <2> QED
    BY <1>2, <2>1 DEF StandInv
<1> QED
  BY <1>1, <1>2 DEF StandInv

(* Nothing ever refers to what is not there.                               *)
LEMMA StandInvariant == Spec => []StandInv
<1> USE NoneAssumption
<1>1. Init => StandInv
  BY NoTxTyped DEF Init, StandInv
<1>2. TypeOK /\ PurgeInv /\ SnapshotInv /\ StandInv /\ [Next]_vars => StandInv'
  <2> SUFFICES ASSUME TypeOK, PurgeInv, SnapshotInv, StandInv, [Next]_vars
               PROVE  StandInv'
    OBVIOUS
  <2> USE DEF dbVars, worldVars
  <2>1. CASE SyncBegin
    <3>1. /\ UNCHANGED <<containers, home, row, conn, asking, machine, agent>>
          /\ tx'.containers = containers /\ tx'.home = home /\ tx'.row = row
          /\ tx'.del = {}
      BY <2>1 DEF SyncBegin
    <3>2. \A k \in Conns : conn[k].container \in containers => conn[k] # NoConn
      BY NoConnFields DEF TypeOK
    <3>3. None \notin containers
      BY DEF TypeOK
    <3>4. \A k \in Conns : conn[k].container \in containers => home[conn[k].token] # None
      BY <3>2, <3>3 DEF StandInv
    <3> QED
      BY <3>1, <3>3, <3>4 DEF StandInv
  <2>2. ASSUME NEW c \in Containers, CollectNodes(c) PROVE StandInv'
    <3>1. /\ UNCHANGED <<containers, home, row, conn, asking, machine, agent>>
          /\ tx'.containers = tx.containers /\ tx'.home = tx.home
          /\ tx'.row = tx.row /\ tx'.orphans = tx.orphans /\ tx.pc # "idle"
          /\ tx'.del = Recorded(c) \cup
               {n \in Nodes : up /\ machine[n] = "live" /\ Called(n, c)}
      BY <2>2 DEF CollectNodes, TypeOK, TxState
    <3>2. \A n \in Recorded(c) : machine[n] # "new"
      BY <3>1 DEF Recorded, PurgeInv
    <3> QED
      BY <3>1, <3>2 DEF StandInv
  <2>3. CASE ExpireKeys
    <3>1. /\ UNCHANGED <<containers, home, row, conn, asking, machine, agent>>
          /\ tx'.containers = tx.containers /\ tx'.home = tx.home /\ tx'.del = tx.del
          /\ tx'.row = tx.row /\ tx'.orphans = tx.orphans /\ tx.pc # "idle"
      BY <2>3 DEF ExpireKeys, TypeOK, TxState
    <3> QED
      BY <3>1 DEF StandInv
  <2>4. ASSUME NEW n \in Nodes, DeleteNode(n) PROVE StandInv'
    <3>1. /\ UNCHANGED <<containers, home, row, conn, asking, agent>>
          /\ machine' = [machine EXCEPT ![n] = "gone"]
          /\ tx'.containers = tx.containers /\ tx'.home = tx.home
          /\ tx'.orphans = tx.orphans /\ tx.pc # "idle"
          /\ tx'.del = tx.del \ {n}
          /\ tx'.row \in {tx.row, [tx.row EXCEPT ![n] = Unrecorded]}
      BY <2>4 DEF DeleteNode, TypeOK, TxState
    <3>2. tx.row \in [Nodes -> Containers \cup {None, Unrecorded}]
      BY DEF TypeOK, TxState
    <3>3. \A m \in Nodes : /\ machine'[m] = IF m = n THEN "gone" ELSE machine[m]
                           /\ m # n => tx'.row[m] = tx.row[m]
                           /\ tx'.row[m] \in {tx.row[m], Unrecorded}
      BY <3>1, <3>2 DEF TypeOK
    <3>4. \A m \in Nodes :
            /\ tx'.row[m] \in tx.containers \cup {None, Unrecorded}
            /\ tx'.row[m] # row[m] =>
                 row[m] = Unrecorded \/ (tx'.row[m] = Unrecorded /\ machine'[m] = "gone")
            /\ m \in tx'.del => machine'[m] # "new"
      BY <3>1, <3>3 DEF StandInv
    <3>5. /\ UNCHANGED <<containers, home, row, conn, asking, agent>>
          /\ tx'.containers = tx.containers /\ tx'.home = tx.home
          /\ tx'.orphans = tx.orphans /\ tx.pc # "idle"
      BY <3>1
    <3> QED
      BY <3>4, <3>5 DEF StandInv
  <2>5. CASE /\ UNCHANGED <<containers, home, row, conn>> /\ tx' = NoTx
             /\ \A t \in Tokens : asking'[t] \in {asking[t], None}
    BY <2>5, NoTxTyped DEF StandInv
  <2>6. CASE PurgeContainer
    <3>1. /\ UNCHANGED <<containers, home, row, conn, asking, machine, agent>>
          /\ tx'.containers = tx.containers \ {tx.cur}
          /\ tx'.home = [t \in Tokens |-> IF tx.home[t] = tx.cur THEN None ELSE tx.home[t]]
          /\ tx'.row = [n \in Nodes |-> IF tx.row[n] = tx.cur THEN Unrecorded
                                        ELSE tx.row[n]]
          /\ tx'.del = tx.del /\ tx.del = {} /\ ~TokenInUse(tx.cur)
          /\ tx'.orphans \subseteq tx.orphans
          /\ tx.pc # "idle" /\ tx.cur # None
      BY <2>6 DEF PurgeContainer, TypeOK, TxState
    <3>2. tx.cur \in tx.orphans /\ tx.cur \notin agent.has
      BY <3>1 DEF SnapshotInv
    <3>3. \A n \in Nodes : row[n] = tx.cur => machine[n] = "gone"
      BY <3>1 DEF PurgeInv, BelongsTo
    <3>4. ASSUME NEW n \in Nodes
          PROVE  /\ tx'.row[n] \in tx'.containers \cup {None, Unrecorded}
                 /\ tx'.row[n] # row[n] =>
                      row[n] = Unrecorded \/ (tx'.row[n] = Unrecorded /\ machine[n] = "gone")
      BY <3>1, <3>3 DEF StandInv
    <3>5. ASSUME NEW t \in Tokens
          PROVE  /\ tx'.home[t] \in tx'.containers \cup {None}
                 /\ home[t] \in tx'.containers => tx'.home[t] # None
                 /\ tx'.home[t] \in {home[t], None}
      BY <3>1, <3>2 DEF StandInv
    <3>6. ASSUME NEW k \in Conns, conn[k].container \in tx'.containers
          PROVE  tx'.home[conn[k].token] # None
      <4>1. conn[k].container \in tx.containers \ {tx.cur} /\ conn[k] # NoConn
        BY <3>1, <3>6, NoConnFields DEF TypeOK, TxState
      <4>2. conn[k].token \in Tokens
        BY <4>1 DEF TypeOK, ConnRow
      <4>3. tx.home[conn[k].token] # None /\ tx.home[conn[k].token] # tx.cur
        BY <3>1, <4>1 DEF StandInv, TokenInUse
      <4> QED
        BY <3>1, <4>2, <4>3
    <3> QED
      BY <3>1, <3>2, <3>4, <3>5, <3>6 DEF StandInv
  <2>7. ASSUME NEW c \in Containers, NEW working \in BOOLEAN,
               ApplyContainer(c, working)
        PROVE  StandInv'
    <3>1. /\ UNCHANGED <<containers, home, row, conn, asking, machine, agent>>
          /\ tx'.containers = tx.containers \cup {c}
          /\ \A t \in Tokens :
               tx'.home[t] = IF agent.home[t] = c THEN c ELSE tx.home[t]
          /\ tx'.orphans = {} /\ tx'.del = tx.del /\ tx.pc # "idle"
          /\ c \in tx.incoming
      BY <2>7 DEF ApplyContainer, TypeOK, TxState
    <3>2. \A n \in Nodes :
            \/ tx'.row[n] = tx.row[n]
            \/ tx.row[n] = Unrecorded /\ machine[n] = "live" /\ tx'.row[n] = c
      BY <2>7 DEF ApplyContainer, TypeOK, TxState, TakenForOwn, Live
    <3>3. c \in containers => c \in tx.containers
      BY <3>1 DEF SnapshotInv, StandInv
    <3>4. ASSUME NEW n \in Nodes
          PROVE  /\ tx'.row[n] \in tx'.containers \cup {None, Unrecorded}
                 /\ tx'.row[n] # row[n] =>
                      row[n] = Unrecorded \/ (tx'.row[n] = Unrecorded /\ machine[n] = "gone")
      <4>1. CASE tx'.row[n] = tx.row[n]
        BY <3>1, <4>1 DEF StandInv
      <4>2. CASE tx.row[n] = Unrecorded /\ machine[n] = "live" /\ tx'.row[n] = c
        BY <3>1, <4>2 DEF StandInv
      <4> QED
        BY <3>2, <4>1, <4>2
    <3>5. ASSUME NEW t \in Tokens
          PROVE  /\ tx'.home[t] \in tx'.containers \cup {None}
                 /\ home[t] \in tx'.containers => tx'.home[t] # None
      BY <3>1, <3>3 DEF StandInv
    <3>6. ASSUME NEW k \in Conns, conn[k].container \in tx'.containers
          PROVE  tx'.home[conn[k].token] # None
      <4>1. conn[k] # NoConn
        BY <3>1, <3>6, NoConnFields DEF TypeOK, TxState
      <4>2. conn[k].token \in Tokens /\ conn[k].container \in containers
        BY <4>1 DEF TypeOK, ConnRow, StandInv
      <4>3. tx.home[conn[k].token] # None
        BY <3>1, <3>3, <3>6, <4>2 DEF StandInv
      <4> QED
        BY <3>1, <4>2, <4>3
    <3> QED
      BY <3>1, <3>4, <3>5, <3>6 DEF StandInv
  <2>8. CASE Commit
    <3>1. /\ containers' = tx.containers /\ home' = tx.home /\ row' = tx.row
          /\ tx'.pc = "idle" /\ tx.pc # "idle"
      BY <2>8, NoTxTyped DEF Commit
    <3>2. ASSUME NEW t \in Tokens
          PROVE  /\ home'[t] \in containers' \cup {None}
                 /\ asking'[t] # None => {asking'[t], home'[t]} \subseteq containers'
      <4>1. asking'[t] # None => asking'[t] = asking[t] /\ {asking[t], home[t]} \subseteq containers'
        BY <2>8 DEF Commit
      <4> QED
        BY <3>1, <4>1 DEF StandInv
    <3>3. ASSUME NEW k \in Conns, conn'[k] # NoConn
          PROVE  {conn'[k].container, home'[conn'[k].token]} \subseteq containers'
      <4>1. conn[k].container \in tx.containers
        BY <2>8, <3>1, <3>3 DEF Commit
      <4>2. conn[k] \in ConnRow
        BY <4>1, NoConnFields DEF TypeOK, TxState
      <4>3. conn'[k] \in {conn[k], Bound(conn[k], None)}
        BY <2>8, <3>1, <4>1 DEF Commit
      <4>4. conn'[k].container = conn[k].container /\ conn'[k].token = conn[k].token
        BY <4>2, <4>3, BoundRow
      <4>5. conn[k].token \in Tokens
        BY <4>2 DEF ConnRow
      <4> QED
        BY <3>1, <4>1, <4>4, <4>5 DEF StandInv
    <3> QED
      BY <3>1, <3>2, <3>3 DEF StandInv
  <2>9. ASSUME NEW n \in Nodes, StateSync(n) PROVE StandInv'
    <3>1. tx' = tx /\ tx.pc = "idle" /\ UNCHANGED <<containers, home, asking>>
      BY <2>9 DEF StateSync
    <3>2. \A k \in Conns : \/ conn'[k] = conn[k]
                           \/ /\ conn[k] # NoConn
                              /\ conn'[k].container = conn[k].container
                              /\ conn'[k].token = conn[k].token
      <4> SUFFICES ASSUME NEW k \in Conns, conn'[k] # conn[k]
                   PROVE  /\ conn[k] # NoConn
                          /\ conn'[k].container = conn[k].container
                          /\ conn'[k].token = conn[k].token
        OBVIOUS
      <4>1. conn[k].pending /\ conn'[k] = Bound(conn[k], n)
        BY <2>9 DEF StateSync
      <4>2. conn[k] \in ConnRow /\ conn[k] # NoConn
        BY <4>1, NoConnFields DEF TypeOK
      <4> QED
        BY <4>1, <4>2, BoundRow
    <3>3. \A m \in Nodes : row'[m] \in {row[m], None}
      BY <2>9 DEF StateSync
    <3> QED
      BY <3>1, <3>2, <3>3 DEF StandInv
  <2>10. ASSUME NEW c \in Containers, Provision(c) PROVE StandInv'
    BY <2>10, StandInvFrame DEF Provision, StandInv
  <2>11. ASSUME NEW t \in Tokens, ConnectBegin(t) PROVE StandInv'
    <3>1. \A s \in Tokens : asking'[s] # None => {asking'[s], home[s]} \subseteq containers
      BY <2>11 DEF ConnectBegin, StandInv, TypeOK
    <3> QED
      BY <2>11, <3>1, StandInvFrame DEF ConnectBegin
  <2>12. ASSUME NEW t \in Tokens, NEW k \in Conns, ConnectEnd(t, k) PROVE StandInv'
    <3> DEFINE r == [container |-> asking[t], token |-> t, node |-> None, pending |-> TRUE]
    <3>1. /\ UNCHANGED <<containers, home, row, machine, agent, tx>>
          /\ asking[t] # None /\ Visible(t, asking[t])
          /\ \A s \in Tokens : asking'[s] \in {asking[s], None}
          /\ \A j \in Conns : conn'[j] = IF j = k THEN r ELSE conn[j]
      BY <2>12 DEF ConnectEnd, TypeOK
    <3>2. r.container = asking[t] /\ r.token = t
      OBVIOUS
    <3> HIDE DEF r
    <3>3. \A j \in Conns : conn'[j] # NoConn =>
            {conn'[j].container, home[conn'[j].token]} \subseteq containers
      BY <3>1, <3>2 DEF StandInv
    <3>4. tx.pc # "idle" => \A j \in Conns :
            conn'[j].container \in tx.containers => tx.home[conn'[j].token] # None
      BY <3>1, <3>2 DEF StandInv, Visible
    <3> QED
      BY <3>1, <3>3, <3>4 DEF StandInv
  <2>13. ASSUME NEW k \in Conns, Settle(k) PROVE StandInv'
    <3>1. conn[k] \in ConnRow /\ conn[k] # NoConn
      BY <2>13, NoConnFields DEF Settle, TypeOK
    <3>2. conn' = [conn EXCEPT ![k] = [conn[k] EXCEPT !.pending = FALSE]]
      BY <2>13 DEF Settle
    <3>3. conn \in [Conns -> ConnRow \cup {NoConn}]
      BY DEF TypeOK
    <3>4. \A j \in Conns : \/ conn'[j] = conn[j]
                           \/ /\ conn[j] # NoConn
                              /\ conn'[j].container = conn[j].container
                              /\ conn'[j].token = conn[j].token
      BY <3>1, <3>2, <3>3 DEF ConnRow
    <3> QED
      BY <2>13, <3>4, StandInvFrame DEF Settle, StandInv
  <2>14. ASSUME NEW n \in Nodes, Join(n) PROVE StandInv'
    BY <2>14, StandInvFrame DEF Join, StandInv, TypeOK
  <2>15. ASSUME NEW l \in Listing, ChangeAgent(l) PROVE StandInv'
    BY <2>15, StandInvFrame DEF ChangeAgent, StandInv
  <2>16. CASE ChangeHealth \/ UNCHANGED vars
    BY <2>16, StandInvFrame DEF ChangeHealth, vars, StandInv
  <2>17. ASSUME NEW n \in Nodes, DeleteNodeFails(n) PROVE StandInv'
    BY <2>5, <2>17 DEF DeleteNodeFails, Rollback
  <2>18. CASE PurgeRefused \/ Restart
    BY <2>5, <2>18 DEF PurgeRefused, Rollback, Restart
  <2> QED
    BY <2>1, <2>2, <2>3, <2>4, <2>6, <2>7, <2>8, <2>9, <2>10, <2>11,
       <2>12, <2>13, <2>14, <2>15, <2>16, <2>17, <2>18
    DEF Next, Sync, Purge, Apply, Threads, World
<1> QED
  BY <1>1, <1>2, TypeCorrect, PurgeInvariant, SnapshotInvariant, PTL DEF Spec

(* The commit of a transaction is the registry's one step.                 *)
LEMMA CommitIsApply ==
  ASSUME TypeOK, PurgeInv, SnapshotInv, StandInv, Commit
  PROVE  Registry!Apply
<1> USE NoneAssumption DEF dbVars, worldVars
<1>1. /\ containers' = tx.containers /\ home' = tx.home /\ row' = tx.row
      /\ tx.pc = "purging" /\ tx.orphans = {} /\ tx.incoming = {}
      /\ UNCHANGED <<agent, machine>>
  BY DEF Commit
<1>2. containers' = agent.has
  BY <1>1 DEF SnapshotInv
<1>3. ASSUME NEW t \in Tokens
      PROVE  /\ home'[t] \in containers' \cup {None}
             /\ agent.home[t] # None => home'[t] = agent.home[t]
  <2>1. agent.home[t] # None => agent.home[t] \in agent.has
    BY ListingTyped DEF TypeOK
  <2> QED
    BY <1>1, <2>1 DEF StandInv, SnapshotInv
<1>4. ASSUME NEW n \in Nodes
      PROVE  /\ row'[n] \in containers' \cup {None, Unrecorded}
             /\ row'[n] # row[n] =>
                  row[n] = Unrecorded \/ (row'[n] = Unrecorded /\ machine[n] = "gone")
  BY <1>1 DEF StandInv
<1>5. ASSUME NEW c \in containers \ containers', NEW n \in Nodes, Registry!Owned(n, c)
      PROVE  machine[n] # "live"
  BY <1>1, <1>5 DEF PurgeInv, BelongsTo, Registry!Owned
<1>6. ASSUME NEW k \in Conns, conn[k].container \in containers'
      PROVE  /\ conn'[k] \in {conn[k], Registry!WithNode(conn[k], None)}
             /\ home'[conn[k].token] # None
  <2>1. conn'[k] \in {conn[k], Bound(conn[k], None)}
    BY <1>6 DEF Commit
  <2>2. tx.home[conn[k].token] # None
    BY <1>1, <1>6 DEF StandInv
  <2> QED
    BY <1>1, <2>1, <2>2 DEF Bound, Registry!WithNode
<1>7. ASSUME NEW k \in Conns, conn[k].container \notin containers'
      PROVE  conn'[k] = NoConn
  BY <1>7 DEF Commit
<1> QED
  BY <1>1, <1>2, <1>3, <1>4, <1>5, <1>6, <1>7 DEF Registry!Apply

(* A machine that is deleted is one of a container to be purged, or gone.  *)
LEMMA DeletesAsRegistry ==
  ASSUME TypeOK, SnapshotInv, OrphanInv, StandInv, NEW n \in Nodes,
         tx.pc = "deleting", n \in tx.del, machine' = [machine EXCEPT ![n] = "gone"],
         UNCHANGED <<agent, containers, home, row, conn>>
  PROVE  Registry!Delete(n) \/ machine' = machine
<1>1. machine[n] \in {"live", "gone"}
  BY DEF StandInv, TypeOK
<1>2. CASE machine[n] = "gone"
  BY <1>2 DEF TypeOK
<1>3. CASE machine[n] = "live"
  <2>1. tx.cur # None /\ tx.cur \in containers \ agent.has
    BY DEF TypeOK, SnapshotInv, OrphanInv
  <2>2. tx.cur \in Containers
    BY <2>1 DEF TypeOK
  <2>3. Registry!Owned(n, tx.cur) \/ <<n, tx.cur>> \in NamedAfter
    BY <2>1, <2>2 DEF OrphanInv, BelongsTo, Registry!Owned, NamedAfter
  <2> QED
    BY <1>3, <2>1, <2>3 DEF Registry!Delete
<1> QED
  BY <1>1, <1>2, <1>3

(* EnvironmentSync implements ContainerRegistry: whatever fails in a       *)
(* snapshot's transaction, and whatever comes between its steps, it is     *)
(* applied in one step or not at all, and leaves nothing that refers to    *)
(* what has gone (EnvironmentSyncService.sync).                            *)
THEOREM ImplementsRegistry == Spec => AppliesInOneStep
<1> USE NoneAssumption
<1>1. Init => Registry!Init
  BY DEF Init, Registry!Init
<1>2. TypeOK /\ PurgeInv /\ SnapshotInv /\ OrphanInv /\ StandInv /\ [Next]_vars =>
        [Registry!Next]_(Registry!registryVars)
  <2> SUFFICES ASSUME TypeOK, PurgeInv, SnapshotInv, OrphanInv, StandInv, [Next]_vars
               PROVE  Registry!Next \/ UNCHANGED Registry!registryVars
    OBVIOUS
  <2> USE DEF dbVars, worldVars
  <2>1. CASE UNCHANGED <<agent, containers, home, row, conn, machine>>
    BY <2>1 DEF Registry!registryVars
  <2>2. CASE SyncBegin \/ (\E c \in Containers : CollectNodes(c)) \/ ExpireKeys
             \/ PurgeContainer \/ PurgeRefused \/ Apply \/ Restart
    BY <2>1, <2>2 DEF SyncBegin, CollectNodes, ExpireKeys, PurgeContainer, PurgeRefused,
                      Rollback, Apply, ApplyContainer, Restart
  <2>3. CASE (\E c \in Containers : Provision(c)) \/ (\E t \in Tokens : ConnectBegin(t))
             \/ ChangeHealth \/ UNCHANGED vars
    BY <2>1, <2>3 DEF Provision, ConnectBegin, ChangeHealth, vars
  <2>4. ASSUME NEW n \in Nodes, tx.pc = "deleting", n \in tx.del,
               machine' = [machine EXCEPT ![n] = "gone"],
               UNCHANGED <<agent, containers, home, row, conn>>
        PROVE  Registry!Next \/ UNCHANGED Registry!registryVars
    BY <2>1, <2>4, DeletesAsRegistry DEF Registry!Next
  <2>5. ASSUME NEW n \in Nodes, DeleteNode(n) \/ DeleteNodeFails(n)
        PROVE  Registry!Next \/ UNCHANGED Registry!registryVars
    BY <2>1, <2>4, <2>5 DEF DeleteNode, DeleteNodeFails, Rollback
  <2>6. CASE Commit
    BY <2>6, CommitIsApply DEF Registry!Next
  <2>7. ASSUME NEW n \in Nodes, StateSync(n)
        PROVE  Registry!Next \/ UNCHANGED Registry!registryVars
    <3>1. \A m \in Nodes : row'[m] # row[m] =>
            machine[m] = "live" /\ row[m] = Unrecorded /\ row'[m] = None
      BY <2>7 DEF StateSync, Live, TypeOK
    <3>2. \A k \in Conns : conn'[k] # conn[k] =>
            conn[k].node = None /\ conn'[k] = Registry!WithNode(conn[k], n)
      BY <2>7 DEF StateSync, Bound, Registry!WithNode, TypeOK
    <3> QED
      BY <2>7, <3>1, <3>2 DEF StateSync, Live, Registry!Record, Registry!Next
  <2>8. ASSUME NEW t \in Tokens, NEW k \in Conns, ConnectEnd(t, k)
        PROVE  Registry!Next \/ UNCHANGED Registry!registryVars
    <3>1. asking[t] \in Containers /\ {asking[t], home[t]} \subseteq containers
      BY <2>8 DEF ConnectEnd, StandInv, TypeOK
    <3>2. Registry!Connect(k, asking[t], t)
      BY <2>8, <3>1 DEF ConnectEnd, Registry!Connect
    <3> QED
      BY <3>1, <3>2 DEF Registry!Next
  <2>9. ASSUME NEW k \in Conns, Settle(k)
        PROVE  Registry!Next \/ UNCHANGED Registry!registryVars
    BY <2>9 DEF Settle, Registry!Settle, Registry!Next
  <2>10. ASSUME NEW n \in Nodes, Join(n)
         PROVE  Registry!Next \/ UNCHANGED Registry!registryVars
    BY <2>10 DEF Join, Registry!Join, Registry!Next
  <2>11. ASSUME NEW l \in Listing, ChangeAgent(l)
         PROVE  Registry!Next \/ UNCHANGED Registry!registryVars
    BY <2>11 DEF ChangeAgent, Registry!List, Registry!Next
  <2> QED
    BY <2>2, <2>3, <2>5, <2>6, <2>7, <2>8, <2>9, <2>10, <2>11
    DEF Next, Sync, Purge, Threads, World
<1> QED
  BY <1>1, <1>2, TypeCorrect, PurgeInvariant, SnapshotInvariant, OrphanInvariant,
     StandInvariant, PTL
  DEF Spec, AppliesInOneStep, Registry!Spec

(* What a registry does gives, of a database and Headscale that do it,     *)
(* that containers go after their machines, that a snapshot is stored      *)
(* whole, and that machines are deleted for what is to go only: the three  *)
(* properties ask of EnvironmentSync what ContainerRegistry promises       *)
(* (EnvironmentSyncService.sync).                                          *)
THEOREM RegistryPromises ==
  []TypeOK /\ AppliesInOneStep => PurgedNodesGone /\ SnapshotStoredWhole /\ DeletedForAnOrphan
<1>1. [Registry!Next]_(Registry!registryVars) =>
        [\A c \in containers \ containers' : \A n \in Nodes :
           BelongsTo(n, c) => machine'[n] # "live"]_vars
  BY DEF Registry!Next, Registry!List, Registry!Apply, Registry!Delete, Registry!Join,
         Registry!Record, Registry!Connect, Registry!Settle, Registry!Owned,
         Registry!registryVars, BelongsTo
<1>2. [Registry!Next]_(Registry!registryVars) =>
        [<<containers, home>>' # <<containers, home>> =>
           /\ containers' = agent.has
           /\ \A t \in Tokens : agent.home[t] # None => home'[t] = agent.home[t]]_vars
  BY DEF Registry!Next, Registry!List, Registry!Apply, Registry!Delete, Registry!Join,
         Registry!Record, Registry!Connect, Registry!Settle, Registry!registryVars
<1>3. TypeOK /\ [Registry!Next]_(Registry!registryVars) =>
        [\A n \in Nodes :
           machine[n] = "live" /\ machine'[n] # "live" => Condemned(n)]_vars
  <2> SUFFICES ASSUME TypeOK, Registry!Next \/ UNCHANGED Registry!registryVars,
                      NEW n \in Nodes, machine[n] = "live", machine'[n] # "live"
               PROVE  Condemned(n)
    OBVIOUS
  <2>1. PICK m \in Nodes : Registry!Delete(m) \/ Registry!Join(m)
    BY DEF Registry!Next, Registry!List, Registry!Apply, Registry!Record, Registry!Connect,
           Registry!Settle, Registry!registryVars
  <2>2. Registry!Delete(n)
    BY <2>1 DEF TypeOK, Registry!Delete, Registry!Join
  <2> QED
    BY <2>2 DEF Registry!Delete, Registry!Owned, BelongsTo, NamedAfter, Condemned
<1> QED
  BY <1>1, <1>2, <1>3, PTL DEF AppliesInOneStep, Registry!Spec, PurgedNodesGone,
                               SnapshotStoredWhole, DeletedForAnOrphan

=============================================================================
