--------------------------- MODULE ContainerRegistry ---------------------------
(***************************************************************************)
(* What applying the snapshots of an agent comes to, without transactions, *)
(* order or failures: a snapshot is one step, which takes the machines of  *)
(* what it no longer lists to be gone already, and leaves no token,        *)
(* machine or connection referring to what is not there.                   *)
(***************************************************************************)
CONSTANTS Containers, Tokens, Nodes, Conns, None, Unrecorded,
          Free,   \* a connection that is not there
          After   \* <<n, c>>: the machine n is called after the container c

VARIABLES
  listed,      \* what the agent lists: containers, and the container of each token
  containers,  \* containers that are known
  home,        \* the container of each token, None if the token is not known
  row,         \* the container recorded for each machine, if any
  conn,        \* connections: container, token, machine
  machine      \* machines: new, live or gone

registryVars == <<listed, containers, home, row, conn, machine>>

Init ==
  /\ containers = {}
  /\ home = [t \in Tokens |-> None]
  /\ row = [n \in Nodes |-> Unrecorded]
  /\ conn = [k \in Conns |-> Free]
  /\ machine = [n \in Nodes |-> "new"]

Owned(n, c) == row[n] = c \/ \E k \in Conns : conn[k].container = c /\ conn[k].node = n
WithNode(r, n) == [r EXCEPT !.node = n]

-----------------------------------------------------------------------------
List == UNCHANGED <<containers, home, row, conn, machine>>

Apply ==
  /\ containers' = listed.has
  /\ \A t \in Tokens : /\ home'[t] \in containers' \cup {None}
                       /\ listed.home[t] # None => home'[t] = listed.home[t]
  /\ \A n \in Nodes :
       /\ row'[n] \in containers' \cup {None, Unrecorded}
       /\ row'[n] # row[n] =>
            row[n] = Unrecorded \/ (row'[n] = Unrecorded /\ machine[n] = "gone")
  /\ \A c \in containers \ containers', n \in Nodes : Owned(n, c) => machine[n] # "live"
  /\ \A k \in Conns :
       IF conn[k].container \in containers'
       THEN /\ conn'[k] \in {conn[k], WithNode(conn[k], None)}
            /\ home'[conn[k].token] # None
       ELSE conn'[k] = Free
  /\ UNCHANGED <<listed, machine>>

Delete(n) ==
  /\ machine[n] = "live"
  /\ \E c \in containers \ listed.has : Owned(n, c) \/ <<n, c>> \in After
  /\ machine' = [machine EXCEPT ![n] = "gone"]
  /\ UNCHANGED <<listed, containers, home, row, conn>>

Join(n) ==
  /\ machine[n] = "new"
  /\ machine' = [machine EXCEPT ![n] = "live"]
  /\ UNCHANGED <<listed, containers, home, row, conn>>

Record(first) ==
  /\ machine[first] = "live"
  /\ \A n \in Nodes :
       row'[n] # row[n] => machine[n] = "live" /\ row[n] = Unrecorded /\ row'[n] = None
  /\ \A k \in Conns :
       conn'[k] # conn[k] => conn[k].node = None /\ conn'[k] = WithNode(conn[k], first)
  /\ UNCHANGED <<listed, containers, home, machine>>

Connect(k, c, t) ==
  /\ conn[k] = Free /\ c \in containers /\ home[t] \in containers
  /\ conn' = [conn EXCEPT ![k] = [container |-> c, token |-> t,
                                 node |-> None, pending |-> TRUE]]
  /\ UNCHANGED <<listed, containers, home, row, machine>>

Settle(k) ==
  /\ conn[k].pending
  /\ conn' = [conn EXCEPT ![k].pending = FALSE]
  /\ UNCHANGED <<listed, containers, home, row, machine>>

Next ==
  \/ List \/ Apply
  \/ \E n \in Nodes : Delete(n) \/ Join(n) \/ Record(n)
  \/ \E k \in Conns : Settle(k) \/ \E c \in Containers, t \in Tokens : Connect(k, c, t)

Spec == Init /\ [][Next]_registryVars
=============================================================================
