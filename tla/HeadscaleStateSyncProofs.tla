----------------------- MODULE HeadscaleStateSyncProofs -----------------------
(***************************************************************************)
(* What holds of the rounds of the state sync for every set of machines,   *)
(* environments and connections.                                           *)
(***************************************************************************)
EXTENDS HeadscaleStateSync, TLAPS

-----------------------------------------------------------------------------
(* The state between two rounds.                                           *)
LEMMA NoRoundTyped ==
  /\ NoRound \in RoundState /\ NoRound.pc = "idle" /\ NoRound.todo = {}
  /\ \A k \in Conns : NoRound.to[k] = None
BY DEF NoRound, RoundState, Report, Table, Nobody, Unbound

(* A machine that is looked at is stored in a row of the table.            *)
LEMMA StoreTyped ==
  ASSUME TypeOK, NEW n \in Nodes, NEW r \in Nodes, NEW write \in BOOLEAN,
         round.pc = "storing", n \in round.todo, Store(n, r, write)
  PROVE  /\ TypeOK'
         /\ round'.pc = "storing" /\ round'.list = round.list
         /\ round'.todo = round.todo \ {n}
         /\ round'.to = Bind(n, r)
         /\ round'.row = IF write THEN [round.row EXCEPT ![r] = round.list[n]]
                         ELSE round.row
         /\ ~write => round'.deltas = round.deltas
         /\ UNCHANGED <<row, conn, worldVars, history>>
<1> USE NoneAssumption, OwnerAssumption DEF worldVars, history
<1>1. Bind(n, r) \in [Conns -> Nodes \cup {None}]
  BY DEF Bind, TypeOK, RoundState
<1>2. round.row \in [Nodes -> Statuses \cup {"absent", "wiped"}]
      /\ round.list \in [Nodes -> Statuses \cup {"absent"}]
  BY DEF TypeOK, RoundState, Report, Table
<1>3. [round.row EXCEPT ![r] = round.list[n]] \in Table
  BY <1>2 DEF Table
<1>4. round.deltas \cup ({EnvOf[n]} \ {None}) \in SUBSET Envs
  BY DEF TypeOK, RoundState
<1>5. /\ round'.pc = "storing" /\ round'.list = round.list
      /\ round'.todo = round.todo \ {n}
      /\ round'.to = Bind(n, r)
      /\ round'.row = IF write THEN [round.row EXCEPT ![r] = round.list[n]]
                      ELSE round.row
      /\ ~write => round'.deltas = round.deltas
      /\ round' \in RoundState
  BY <1>1, <1>3, <1>4 DEF Store, TypeOK, RoundState
<1>6. \A k \in Conns : conn[k].at = "free" => round'.to[k] = None
  BY <1>5 DEF Bind, TypeOK
<1> QED
  BY <1>5, <1>6 DEF Store, TypeOK

(* A row that is purged is bound no more; other bindings stay.             *)
LEMMA PurgeConn ==
  ASSUME TypeOK, NEW n \in Nodes, NEW kept \in BOOLEAN, Purge(n, kept)
  PROVE  /\ conn' \in [Conns -> ConnState]
         /\ \A k \in Conns :
              /\ conn'[k].at = conn[k].at
              /\ \/ conn'[k].to = conn[k].to
                 \/ conn[k].to = n /\ conn'[k].to = None /\ row'[n] = "absent"
<1>1. CASE kept
  BY <1>1 DEF Purge, TypeOK
<1>2. CASE ~kept
  <2>1. conn' = [k \in Conns |-> IF conn[k].to = n THEN [conn[k] EXCEPT !.to = None]
                                ELSE conn[k]]
    BY <1>2 DEF Purge
  <2>2. \A k \in Conns : conn[k] \in ConnState
    BY DEF TypeOK
  <2>3. row'[n] = "absent"
    BY <1>2 DEF Purge, TypeOK, Table
  <2>4. \A k \in Conns :
          /\ conn'[k] \in ConnState
          /\ conn'[k].at = conn[k].at
          /\ \/ conn'[k].to = conn[k].to
             \/ conn[k].to = n /\ conn'[k].to = None
    <3> SUFFICES ASSUME NEW k \in Conns
                 PROVE  /\ conn'[k] \in ConnState
                        /\ conn'[k].at = conn[k].at
                        /\ \/ conn'[k].to = conn[k].to
                           \/ conn[k].to = n /\ conn'[k].to = None
      OBVIOUS
    <3>1. CASE conn[k].to = n
      <4>1. conn'[k] = [conn[k] EXCEPT !.to = None]
        BY <2>1, <3>1
      <4> QED
        BY <2>2, <3>1, <4>1 DEF ConnState
    <3>2. CASE conn[k].to # n
      BY <2>1, <2>2, <3>2
    <3> QED
      BY <3>1, <3>2
  <2> QED
    BY <2>1, <2>3, <2>4
<1> QED
  BY <1>1, <1>2

(* The machine's own row, or one with its machine key.                     *)
LEMMA MatchesTyped == \A n \in Nodes : Matches(n) \subseteq Nodes
BY DEF Matches

-----------------------------------------------------------------------------
(* The variables keep their types; nothing is left to store when a round   *)
(* has been committed (HeadscaleStateSyncService.sync).                    *)
THEOREM TypeCorrect == Spec => []TypeOK
<1> USE NoneAssumption
<1>1. Init => TypeOK
  <2> SUFFICES ASSUME Init PROVE TypeOK
    OBVIOUS
  <2>1. Nobody \in Report /\ Nobody \in Table
    BY DEF Nobody, Report, Table
  <2>2. /\ conn \in [Conns -> ConnState]
        /\ \A k \in Conns : conn[k].to = None
    BY DEF Init, ConnState
  <2>3. link \in SUBSET Envs
    BY DEF Init
  <2> QED
    BY <2>1, <2>2, <2>3, NoRoundTyped DEF Init, TypeOK
<1>2. TypeOK /\ [Next]_vars => TypeOK'
  <2> SUFFICES ASSUME TypeOK, [Next]_vars PROVE TypeOK'
    OBVIOUS
  <2> USE DEF worldVars, history
  <2>1. CASE ListNodes
    BY <2>1 DEF ListNodes, TypeOK, RoundState, Unbound
  <2>2. ASSUME NEW n \in Nodes, UpdateNode(n) PROVE TypeOK'
    <3>1. PICK r \in Matches(n) : Store(n, r, Changed(r, n))
      BY <2>2 DEF UpdateNode
    <3>2. Changed(r, n) \in BOOLEAN /\ r \in Nodes
      BY MatchesTyped DEF Changed
    <3> QED
      BY <2>2, <3>1, <3>2, StoreTyped DEF UpdateNode
  <2>3. ASSUME NEW n \in Nodes, CreateNode(n) PROVE TypeOK'
    BY <2>3, StoreTyped DEF CreateNode
  <2>4. ASSUME NEW n \in Nodes, SkipNode(n) PROVE TypeOK'
    BY <2>4 DEF SkipNode, TypeOK, RoundState
  <2>5. CASE Commit
    <3>1. /\ round \in RoundState /\ conn \in [Conns -> ConnState]
          /\ \A k \in Conns : conn[k].at = "free" =>
                               conn[k].to = None /\ round.to[k] = None
      BY DEF TypeOK
    <3>2. \A k \in Conns : round.to[k] \in Nodes \cup {None} /\ conn[k] \in ConnState
      BY <3>1 DEF RoundState
    <3>3. \A k \in Conns : [conn[k] EXCEPT !.to = round.to[k]] \in ConnState
      BY <3>2 DEF ConnState
    <3>4. conn' = [k \in Conns |-> IF round.to[k] = None THEN conn[k]
                                   ELSE [conn[k] EXCEPT !.to = round.to[k]]]
      BY <2>5 DEF Commit
    <3>5. \A k \in Conns : conn'[k] \in ConnState
      BY <3>2, <3>3, <3>4
    <3>6. conn' \in [Conns -> ConnState]
      BY <3>4, <3>5
    <3>7. \A k \in Conns : conn'[k].at = "free" => conn'[k].to = None
      <4> SUFFICES ASSUME NEW k \in Conns, conn'[k].at = "free"
                   PROVE  conn'[k].to = None
        OBVIOUS
      <4>1. CASE round.to[k] = None
        BY <3>1, <3>4, <4>1
      <4>2. CASE round.to[k] # None
        <5>1. conn'[k] = [conn[k] EXCEPT !.to = round.to[k]]
          BY <3>4, <4>2
        <5>2. conn'[k].at = conn[k].at
          BY <3>2, <5>1 DEF ConnState
        <5> QED
          BY <3>1, <4>2, <5>2
      <4> QED
        BY <4>1, <4>2
    <3>8. /\ round' \in RoundState /\ round'.pc = "sending" /\ round'.todo = {}
          /\ \A k \in Conns : round'.to[k] = None
      BY <2>5, <3>1, NoRoundTyped DEF Commit, RoundState
    <3>9. /\ row' \in Table /\ seen' \in Report /\ touched' \in BOOLEAN
          /\ UNCHANGED worldVars
      BY <2>5, <3>1 DEF Commit, RoundState
    <3> QED
      BY <3>6, <3>7, <3>8, <3>9 DEF TypeOK
  <2>6. CASE RoundFails
    BY <2>6, NoRoundTyped DEF RoundFails, TypeOK
  <2>7. CASE Restart
    BY <2>7, NoRoundTyped DEF Restart, TypeOK
  <2>8. ASSUME NEW e \in Envs, SendDelta(e) PROVE TypeOK'
    BY <2>8 DEF SendDelta, TypeOK, RoundState
  <2>9. ASSUME NEW e \in Envs, SendFails(e) PROVE TypeOK'
    BY <2>9, NoRoundTyped DEF SendFails, TypeOK
  <2>10. CASE EndRound
    BY <2>10, NoRoundTyped DEF EndRound, TypeOK
  <2>11. ASSUME NEW k \in Conns, NewConnection(k) \/ Settle(k) PROVE TypeOK'
    BY <2>11 DEF NewConnection, Settle, TypeOK, ConnState
  <2>12. ASSUME NEW n \in Nodes, NEW s \in Statuses \cup {"absent"},
                ChangeMachine(n, s)
         PROVE  TypeOK'
    BY <2>12 DEF ChangeMachine, TypeOK, Report
  <2>13. CASE ChangeHealth
    BY <2>13 DEF ChangeHealth, TypeOK
  <2>14. ASSUME NEW e \in Envs, ChangeLink(e) PROVE TypeOK'
    BY <2>14 DEF ChangeLink, TypeOK
  <2>15. ASSUME NEW n \in Nodes, Register(n) PROVE TypeOK'
    BY <2>15 DEF Register, TypeOK, Table
  <2>16. ASSUME NEW n \in Nodes, NEW kept \in BOOLEAN, Purge(n, kept) PROVE TypeOK'
    <3>1. machine' \in Report /\ row' \in Table /\ touched' \in BOOLEAN
      BY <2>16 DEF Purge, TypeOK, Report, Table
    <3>2. /\ conn' \in [Conns -> ConnState]
          /\ \A k \in Conns : conn'[k].at = "free" =>
                               conn'[k].to = None /\ round.to[k] = None
      BY <2>16, PurgeConn DEF TypeOK
    <3> QED
      BY <2>16, <3>1, <3>2 DEF Purge, TypeOK
  <2>17. CASE UNCHANGED vars
    BY <2>17 DEF vars, TypeOK
  <2> QED
    BY <2>1, <2>2, <2>3, <2>4, <2>5, <2>6, <2>7, <2>8, <2>9, <2>10, <2>11,
       <2>12, <2>13, <2>14, <2>15, <2>16, <2>17
    DEF Next, Progress, Visit, Snapshot, World
<1> QED
  BY <1>1, <1>2, PTL DEF Spec

-----------------------------------------------------------------------------
(* The binding of connections: a round only holds a binding for a          *)
(* connection that has none.                                               *)
BindingInv == \A k \in Conns : round.to[k] # None => conn[k].to = None

LEMMA BindingInvariant == Spec => []BindingInv
<1> USE NoneAssumption
<1>1. Init => BindingInv
  BY NoRoundTyped DEF Init, BindingInv
<1>2. TypeOK /\ BindingInv /\ [Next]_vars => BindingInv'
  <2> SUFFICES ASSUME TypeOK, BindingInv, [Next]_vars PROVE BindingInv'
    OBVIOUS
  <2> USE DEF worldVars, history
  <2>1. CASE ListNodes
    BY <2>1 DEF ListNodes, BindingInv, Unbound
  <2>2. ASSUME NEW n \in Nodes, NEW r \in Nodes, NEW write \in BOOLEAN,
               round.pc = "storing", n \in round.todo, Store(n, r, write)
        PROVE  BindingInv'
    <3>1. round'.to = Bind(n, r) /\ conn' = conn
      <4>1. round'.to = Bind(n, r)
        BY <2>2 DEF Store, TypeOK, RoundState
      <4>2. conn' = conn
        BY <2>2 DEF Store
      <4> QED
        BY <4>1, <4>2
    <3>2. \A k \in Conns :
            round'.to[k] = IF /\ conn[k].at = "pending" /\ For[k] = EnvOf[n]
                              /\ conn[k].to = None /\ round.to[k] = None
                           THEN r ELSE round.to[k]
      BY <3>1 DEF Bind
    <3> QED
      BY <3>1, <3>2 DEF BindingInv
  <2>3. ASSUME NEW n \in Nodes, UpdateNode(n) PROVE BindingInv'
    <3>1. PICK r \in Matches(n) : Store(n, r, Changed(r, n))
      BY <2>3 DEF UpdateNode
    <3>2. Changed(r, n) \in BOOLEAN /\ r \in Nodes
      BY MatchesTyped DEF Changed
    <3> QED
      BY <2>2, <2>3, <3>1, <3>2 DEF UpdateNode
  <2>4. ASSUME NEW n \in Nodes, CreateNode(n) PROVE BindingInv'
    BY <2>2, <2>4 DEF CreateNode
  <2>5. ASSUME NEW n \in Nodes, SkipNode(n) PROVE BindingInv'
    BY <2>5 DEF SkipNode, BindingInv, TypeOK, RoundState
  <2>6. CASE round' = NoRound \/ Commit
    <3>1. \A k \in Conns : round'.to[k] = None
      BY <2>6, NoRoundTyped DEF Commit, RoundState
    <3> QED
      BY <3>1 DEF BindingInv
  <2>7. ASSUME NEW e \in Envs, SendDelta(e) PROVE BindingInv'
    BY <2>7 DEF SendDelta, BindingInv, TypeOK, RoundState
  <2>8. ASSUME NEW k \in Conns, NewConnection(k) \/ Settle(k) PROVE BindingInv'
    BY <2>8 DEF NewConnection, Settle, BindingInv, TypeOK, ConnState
  <2>9. ASSUME NEW n \in Nodes, NEW kept \in BOOLEAN, Purge(n, kept)
        PROVE  BindingInv'
    <3>1. round' = round
      BY <2>9 DEF Purge
    <3> QED
      BY <2>9, <3>1, PurgeConn DEF BindingInv
  <2>10. CASE World \/ (\E n \in Nodes : Register(n)) \/ UNCHANGED vars
    BY <2>10 DEF World, ChangeMachine, ChangeHealth, ChangeLink, Register, vars,
                 BindingInv
  <2> QED
    BY <2>1, <2>3, <2>4, <2>5, <2>6, <2>7, <2>8, <2>9, <2>10
    DEF Snapshot, Next, Progress, Visit, RoundFails, Restart, EndRound, SendFails
<1> QED
  BY <1>1, <1>2, TypeCorrect, PTL DEF Spec

(* A connection that is bound to a machine is bound to no other as long as *)
(* that machine has a row: no round and no thread binds it again           *)
(* (HeadscaleStateSyncService.sync, "Bind any PENDING connection").        *)
THEOREM BindingIsKept == Spec => BindingKept
<1> USE NoneAssumption
<1>1. TypeOK /\ BindingInv /\ [Next]_vars =>
        [\A k \in Conns :
           conn[k].to # None /\ conn'[k].to # conn[k].to =>
             conn'[k].to = None /\ row'[conn[k].to] = "absent"]_vars
  <2> SUFFICES ASSUME TypeOK, BindingInv, Next, NEW k \in Conns,
                      conn[k].to # None, conn'[k].to # conn[k].to
               PROVE  conn'[k].to = None /\ row'[conn[k].to] = "absent"
    OBVIOUS
  <2> USE DEF worldVars, history
  <2>1. CASE Commit
    BY <2>1 DEF Commit, BindingInv
  <2>2. ASSUME NEW j \in Conns, NewConnection(j) \/ Settle(j)
        PROVE  FALSE
    BY <2>2 DEF NewConnection, Settle, TypeOK, ConnState
  <2>3. CASE UNCHANGED conn
    BY <2>3
  <2>4. ASSUME NEW n \in Nodes, NEW kept \in BOOLEAN, Purge(n, kept)
        PROVE  conn'[k].to = None /\ row'[conn[k].to] = "absent"
    BY <2>4, PurgeConn
  <2> QED
    BY <2>1, <2>2, <2>3, <2>4
    DEF Next, Progress, Visit, Snapshot, Register, World, ListNodes, UpdateNode, CreateNode, SkipNode,
        Store, RoundFails, Restart, SendDelta, SendFails, EndRound, ChangeMachine,
        ChangeHealth, ChangeLink
<1> QED
  BY <1>1, TypeCorrect, BindingInvariant, PTL DEF Spec, BindingKept

(* A round goes from storing to sending by its commit only.                *)
LEMMA SentByCommit ==
  ASSUME TypeOK, Next, round.pc = "storing", round'.pc = "sending"
  PROVE  Commit
<1>1. ~ \E n \in Nodes : Visit(n)
  <2> SUFFICES ASSUME NEW n \in Nodes, Visit(n) PROVE FALSE
    OBVIOUS
  <2>1. ~SkipNode(n)
    BY DEF SkipNode, TypeOK, RoundState
  <2>2. \A r \in Nodes, write \in BOOLEAN : ~Store(n, r, write)
    BY DEF Store, TypeOK, RoundState
  <2> QED
    BY <2>1, <2>2, MatchesTyped DEF Visit, UpdateNode, CreateNode, Changed
<1>2. round' # NoRound /\ round' # round
  BY NoRoundTyped
<1> QED
  BY <1>1, <1>2
  DEF Next, Progress, Snapshot, Register, Purge, World, ListNodes, RoundFails, Restart, SendDelta,
      SendFails, EndRound, NewConnection, Settle, ChangeMachine, ChangeHealth,
      ChangeLink

-----------------------------------------------------------------------------
(* Rounds over an unchanged list.                                          *)

(* The row of a machine that has been stored as a list says.               *)
Agrees(rows, list, n) ==
  list[n] # "absent" => rows[n] = list[n] \/ (rows[n] = "absent" /\ EnvOf[n] = None)

(* Unless it has been touched since, the table agrees with the last list   *)
(* that was committed; the round's                                         *)
(* view of it agrees with the round's list where that has been stored, and *)
(* is the table elsewhere; a list like the last one has changed nothing.   *)
QuietInv ==
  /\ ~touched => \A n \in Nodes : Agrees(row, seen, n)
  /\ round.pc = "storing" =>
       /\ \A n \in Nodes :
            /\ n \in round.todo => round.list[n] # "absent" /\ round.row[n] = row[n]
            /\ n \notin round.todo => Agrees(round.row, round.list, n)
       /\ round.list = seen /\ ~touched => round.row = row /\ round.deltas = {}

(* One machine more has been stored: in its own row, for lack of another   *)
(* with its machine key, and as it was if the list is the last one.        *)
LEMMA QuietStore ==
  ASSUME TypeOK, QuietInv, NEW n \in Nodes, NEW write \in BOOLEAN,
         round.pc = "storing", n \in round.todo, Store(n, n, write),
         ~write => round.row[n] = round.list[n],
         round.list = seen /\ ~touched => ~write
  PROVE  QuietInv'
<1>1. /\ round'.pc = "storing" /\ round'.list = round.list
      /\ round'.todo = round.todo \ {n}
      /\ round'.row = IF write THEN [round.row EXCEPT ![n] = round.list[n]]
                      ELSE round.row
      /\ ~write => round'.deltas = round.deltas
      /\ row' = row /\ seen' = seen /\ touched' = touched
  BY StoreTyped DEF history
<1>2. round.row \in [Nodes -> Statuses \cup {"absent", "wiped"}]
  BY DEF TypeOK, RoundState, Table
<1>3. round'.row[n] = round.list[n]
  BY <1>1, <1>2
<1>4. \A m \in Nodes : m # n => round'.row[m] = round.row[m]
  BY <1>1, <1>2
<1>5. (~touched => \A m \in Nodes : Agrees(row, seen, m))'
  BY <1>1 DEF QuietInv, Agrees
<1>6. ASSUME NEW m \in Nodes
      PROVE  /\ m \in round'.todo => round'.list[m] # "absent" /\ round'.row[m] = row'[m]
             /\ m \notin round'.todo => Agrees(round'.row, round'.list, m)
  <2>1. CASE m = n
    BY <1>1, <1>3, <2>1 DEF Agrees
  <2>2. CASE m # n
    BY <1>1, <1>4, <2>2 DEF QuietInv, Agrees
  <2> QED
    BY <2>1, <2>2
<1>7. round'.list = seen' /\ ~touched' => round'.row = row' /\ round'.deltas = {}
  BY <1>1 DEF QuietInv
<1> QED
  BY <1>5, <1>6, <1>7 DEF QuietInv

LEMMA QuietInvariant ==
  ASSUME \A a, b \in Nodes : Key[a] = Key[b] => a = b
  PROVE  Spec => []QuietInv
<1> USE NoneAssumption
<1>1. Init => QuietInv
  BY NoRoundTyped DEF Init, QuietInv, Agrees, Nobody
<1>2. TypeOK /\ QuietInv /\ [Next]_vars => QuietInv'
  <2> SUFFICES ASSUME TypeOK, QuietInv, [Next]_vars PROVE QuietInv'
    OBVIOUS
  <2> USE DEF worldVars, history
  <2>1. CASE ListNodes
    <3>1. /\ round'.pc = "storing" /\ round'.list = machine /\ round'.row = row
          /\ round'.todo = {n \in Nodes : machine[n] # "absent"}
          /\ round'.deltas = {} /\ row' = row /\ UNCHANGED history
      BY <2>1 DEF ListNodes
    <3> QED
      BY <3>1 DEF QuietInv, Agrees
  <2>2. ASSUME NEW n \in Nodes, UpdateNode(n) PROVE QuietInv'
    <3>1. PICK r \in Matches(n) : Store(n, r, Changed(r, n))
      BY <2>2 DEF UpdateNode
    <3>2. r = n /\ round.row[n] # "absent"
      BY <3>1 DEF Matches, Statuses
    <3>3. round.pc = "storing" /\ n \in round.todo
      BY <2>2 DEF UpdateNode
    <3>4. Changed(n, n) \in BOOLEAN /\ (~Changed(n, n) => round.row[n] = round.list[n])
      BY DEF Changed
    <3>5. round.list = seen /\ ~touched => ~Changed(n, n)
      BY <3>2, <3>3 DEF QuietInv, Agrees, Changed
    <3> QED
      BY <3>1, <3>2, <3>3, <3>4, <3>5, QuietStore
  <2>3. ASSUME NEW n \in Nodes, CreateNode(n) PROVE QuietInv'
    <3>1. round.pc = "storing" /\ n \in round.todo /\ Store(n, n, TRUE)
      BY <2>3 DEF CreateNode
    <3>2. round.row[n] = "absent" /\ EnvOf[n] # None
      BY <2>3 DEF CreateNode, Matches
    <3>3. round.list # seen \/ touched
      BY <3>1, <3>2 DEF QuietInv, Agrees
    <3> QED
      BY <3>1, <3>3, QuietStore
  <2>4. ASSUME NEW n \in Nodes, SkipNode(n) PROVE QuietInv'
    <3>1. /\ round.pc = "storing" /\ n \in round.todo
          /\ round.row[n] = "absent" /\ EnvOf[n] = None
      BY <2>4 DEF SkipNode, Matches
    <3>2. /\ round'.pc = round.pc /\ round'.list = round.list
          /\ round'.row = round.row /\ round'.deltas = round.deltas
          /\ round'.todo = round.todo \ {n} /\ row' = row /\ UNCHANGED history
      BY <2>4 DEF SkipNode, TypeOK, RoundState
    <3> QED
      BY <3>1, <3>2 DEF QuietInv, Agrees
  <2>5. CASE Commit
    <3>1. /\ round.pc = "storing" /\ round.todo = {}
          /\ row' = round.row /\ seen' = round.list /\ round'.pc = "sending"
      BY <2>5, NoRoundTyped DEF Commit, RoundState
    <3> QED
      BY <3>1 DEF QuietInv, Agrees
  <2>6. CASE round' = NoRound /\ UNCHANGED <<row, history>>
    BY <2>6, NoRoundTyped DEF QuietInv, Agrees
  <2>7. ASSUME NEW e \in Envs, SendDelta(e) PROVE QuietInv'
    <3>1. round'.pc = "sending" /\ row' = row /\ UNCHANGED history
      BY <2>7 DEF SendDelta, TypeOK, RoundState
    <3> QED
      BY <3>1 DEF QuietInv, Agrees
  <2>8. CASE UNCHANGED <<row, round, history>>
    BY <2>8 DEF QuietInv, Agrees
  <2>9. CASE round.pc # "storing" /\ touched' = TRUE /\ round' = round
    BY <2>9 DEF QuietInv
  <2> QED
    BY <2>1, <2>2, <2>3, <2>4, <2>5, <2>6, <2>7, <2>8, <2>9
    DEF Snapshot, Register, Purge, Next, Progress, Visit, World, RoundFails, Restart, SendFails, EndRound,
        NewConnection, Settle, ChangeMachine, ChangeHealth, ChangeLink, vars
<1> QED
  BY <1>1, <1>2, TypeCorrect, PTL DEF Spec

(* If no machine has joined twice, a round over the list of the last       *)
(* committed round, with no snapshot's write since, writes no row and has  *)
(* nothing to send, whatever has failed in between                         *)
(* (HeadscaleStateSyncService.sync).                                       *)
THEOREM UnchangedIsQuiet ==
  ASSUME \A a, b \in Nodes : Key[a] = Key[b] => a = b
  PROVE  Spec => QuietWhenUnchanged
<1>1. TypeOK /\ QuietInv /\ [Next]_vars =>
        [round.pc = "storing" /\ round'.pc = "sending"
           /\ round.list = seen /\ ~touched =>
             row' = row /\ round'.deltas = {}]_vars
  <2> SUFFICES ASSUME TypeOK, QuietInv, Next, round.pc = "storing",
                      round'.pc = "sending", round.list = seen, ~touched
               PROVE  row' = row /\ round'.deltas = {}
    OBVIOUS
  <2>1. Commit
    BY SentByCommit
  <2>2. row' = round.row /\ round'.deltas = round.deltas
    BY <2>1, NoRoundTyped DEF Commit, RoundState
  <2> QED
    BY <2>2 DEF QuietInv
<1> QED
  BY <1>1, TypeCorrect, QuietInvariant, PTL DEF Spec, QuietWhenUnchanged

-----------------------------------------------------------------------------
(* What a round has done so far.                                           *)

(* The round's view of the table is what is expected where the list has    *)
(* been gone through, and the table elsewhere; nothing else comes between. *)
(* The environments to tell are those of the rows where the two differ.    *)
ExactInv ==
  round.pc = "storing" =>
    /\ \A n \in Nodes :
         /\ n \in round.todo => round.list[n] # "absent" /\ round.row[n] = row[n]
         /\ n \notin round.todo => round.row[n] = Expected(n)
    /\ round.deltas = {EnvOf[n] : n \in {m \in Nodes : round.row[m] # row[m]}} \ {None}

(* A machine that is looked at is stored in its own row, for lack of any   *)
(* other with its machine key: if that differs from the list, and from the *)
(* table therefore, its environment is noted.                              *)
LEMMA ExactStore ==
  ASSUME TypeOK, ExactInv, NEW n \in Nodes, NEW write \in BOOLEAN,
         round.pc = "storing", n \in round.todo, Store(n, n, write),
         write <=> round.row[n] # round.list[n],
         row[n] # "absent" \/ EnvOf[n] # None
  PROVE  ExactInv'
<1>1. /\ round'.list = round.list /\ round'.todo = round.todo \ {n}
      /\ round'.row = IF write THEN [round.row EXCEPT ![n] = round.list[n]]
                      ELSE round.row
      /\ row' = row
  BY StoreTyped DEF history
<1>2. round.row \in [Nodes -> Statuses \cup {"absent", "wiped"}]
  BY DEF TypeOK, RoundState, Table
<1>3. round'.deltas = IF write THEN round.deltas \cup ({EnvOf[n]} \ {None}) ELSE round.deltas
  BY DEF Store, TypeOK, RoundState
<1>4. /\ round.list[n] # "absent" /\ round.row[n] = row[n]
      /\ round'.row[n] = round.list[n]
  BY <1>1, <1>2 DEF ExactInv
<1>5. \A m \in Nodes : m # n => round'.row[m] = round.row[m]
  BY <1>1, <1>2
<1>6. \A m \in Nodes : Expected(m)' = Expected(m)
  BY <1>1 DEF Expected
<1>7. ASSUME NEW m \in Nodes
      PROVE  /\ m \in round'.todo => round'.list[m] # "absent" /\ round'.row[m] = row'[m]
             /\ m \notin round'.todo => round'.row[m] = Expected(m)'
  <2>1. CASE m = n
    BY <1>1, <1>4, <1>6, <2>1 DEF Expected
  <2>2. CASE m # n
    BY <1>1, <1>5, <1>6, <2>2 DEF ExactInv
  <2> QED
    BY <2>1, <2>2
<1>8. {m \in Nodes : round'.row[m] # row'[m]} =
        IF write THEN {m \in Nodes : round.row[m] # row[m]} \cup {n}
        ELSE {m \in Nodes : round.row[m] # row[m]}
  BY <1>1, <1>4, <1>5
<1>9. round'.deltas = {EnvOf[m] : m \in {k \in Nodes : round'.row[k] # row'[k]}} \ {None}
  <2>1. round.deltas = {EnvOf[m] : m \in {k \in Nodes : round.row[k] # row[k]}} \ {None}
    BY DEF ExactInv
  <2> QED
    BY <1>3, <1>8, <2>1
<1> QED
  BY <1>7, <1>9 DEF ExactInv

(* The invariant holds if no machine has joined twice.                     *)
LEMMA ExactInvariant ==
  ASSUME \A a, b \in Nodes : Key[a] = Key[b] => a = b
  PROVE  Spec => []ExactInv
<1> USE NoneAssumption
<1>1. Init => ExactInv
  BY NoRoundTyped DEF Init, ExactInv
<1>2. TypeOK /\ ExactInv /\ [Next]_vars => ExactInv'
  <2> SUFFICES ASSUME TypeOK, ExactInv, [Next]_vars PROVE ExactInv'
    OBVIOUS
  <2> USE DEF worldVars, history
  <2>1. CASE ListNodes
    <3>1. /\ round'.pc = "storing" /\ round'.row = row /\ row' = row
          /\ round'.todo = {n \in Nodes : round'.list[n] # "absent"}
          /\ round'.deltas = {}
      BY <2>1 DEF ListNodes
    <3>2. {m \in Nodes : round'.row[m] # row'[m]} = {}
      BY <3>1
    <3>3. \A n \in Nodes : n \notin round'.todo => Expected(n)' = row[n]
      BY <3>1 DEF Expected
    <3> QED
      BY <3>1, <3>2, <3>3 DEF ExactInv
  <2>2. ASSUME NEW n \in Nodes, UpdateNode(n) PROVE ExactInv'
    <3>1. PICK r \in Matches(n) : Store(n, r, Changed(r, n))
      BY <2>2 DEF UpdateNode
    <3>2. r = n /\ round.row[n] # "absent"
      BY <3>1 DEF Matches, Statuses
    <3>3. round.pc = "storing" /\ n \in round.todo
      BY <2>2 DEF UpdateNode
    <3>4. Changed(n, n) \in BOOLEAN /\ (Changed(n, n) <=> round.row[n] # round.list[n])
      BY DEF Changed
    <3>5. row[n] # "absent"
      BY <3>2, <3>3 DEF ExactInv
    <3> QED
      BY <3>1, <3>2, <3>3, <3>4, <3>5, ExactStore
  <2>3. ASSUME NEW n \in Nodes, CreateNode(n) PROVE ExactInv'
    <3>1. round.pc = "storing" /\ n \in round.todo /\ Store(n, n, TRUE) /\ EnvOf[n] # None
      BY <2>3 DEF CreateNode
    <3>2. round.row[n] = "absent"
      BY <2>3 DEF CreateNode, Matches
    <3>3. round.list[n] # round.row[n]
      BY <3>1, <3>2 DEF ExactInv
    <3> QED
      BY <3>1, <3>3, ExactStore
  <2>4. ASSUME NEW n \in Nodes, SkipNode(n) PROVE ExactInv'
    <3>1. /\ round.pc = "storing" /\ n \in round.todo
          /\ round.row[n] = "absent" /\ EnvOf[n] = None
      BY <2>4 DEF SkipNode, Matches
    <3>2. /\ round'.pc = round.pc /\ round'.list = round.list
          /\ round'.row = round.row /\ round'.deltas = round.deltas
          /\ round'.todo = round.todo \ {n} /\ row' = row
      BY <2>4 DEF SkipNode, TypeOK, RoundState
    <3>3. \A m \in Nodes : Expected(m)' = Expected(m)
      BY <3>2 DEF Expected
    <3>4. round.row[n] = Expected(n)
      BY <3>1 DEF ExactInv, Expected
    <3> QED
      BY <3>1, <3>2, <3>3, <3>4 DEF ExactInv
  <2>5. CASE round'.pc # "storing"
    BY <2>5 DEF ExactInv
  <2>6. CASE UNCHANGED <<row, round>>
    BY <2>6 DEF ExactInv, Expected
  <2>7. CASE Commit \/ round' = NoRound
    BY <2>5, <2>7, NoRoundTyped DEF Commit, RoundState
  <2>8. ASSUME NEW e \in Envs, SendDelta(e) PROVE ExactInv'
    BY <2>5, <2>8 DEF SendDelta, TypeOK, RoundState
  <2>9. CASE Snapshot
    BY <2>5, <2>9 DEF Snapshot, Register, Purge
  <2> QED
    BY <2>1, <2>2, <2>3, <2>4, <2>6, <2>7, <2>8, <2>9
    DEF Next, Progress, Visit, World, RoundFails, Restart, SendFails, EndRound,
        NewConnection, Settle, ChangeMachine, ChangeHealth, ChangeLink, vars
<1> QED
  BY <1>1, <1>2, TypeCorrect, PTL DEF Spec

(* If no machine has joined twice, a round commits its list, whatever the  *)
(* order it goes through it, and notes the environments of exactly the     *)
(* rows that it changes (HeadscaleStateSyncService.sync).                  *)
THEOREM CommitIsExact ==
  ASSUME \A a, b \in Nodes : Key[a] = Key[b] => a = b
  PROVE  Spec => CommitsAreExact
<1>1. ASSUME TypeOK, ExactInv, Next, round.pc = "storing", round'.pc = "sending"
      PROVE  /\ \A n \in Nodes : row'[n] = Expected(n)
             /\ round'.deltas =
                  {EnvOf[n] : n \in {m \in Nodes : row'[m] # row[m]}} \ {None}
  <2>1. Commit
    BY <1>1, SentByCommit
  <2>2. row' = round.row /\ round'.deltas = round.deltas /\ round.todo = {}
    BY <2>1, NoRoundTyped DEF Commit, RoundState
  <2> QED
    BY <1>1, <2>2 DEF ExactInv
<1>2. TypeOK /\ ExactInv /\ [Next]_vars =>
        [round.pc = "storing" /\ round'.pc = "sending" =>
           /\ \A n \in Nodes : row'[n] = Expected(n)
           /\ round'.deltas =
                {EnvOf[n] : n \in {m \in Nodes : row'[m] # row[m]}} \ {None}]_vars
  BY <1>1
<1> QED
  BY <1>2, TypeCorrect, ExactInvariant, PTL DEF Spec, CommitsAreExact
=============================================================================
