---------------------- MODULE NetworkEndpointSyncProofs ----------------------
(***************************************************************************)
(* What holds of the endpoints for every set of environments, containers,  *)
(* names and ports.                                                        *)
(***************************************************************************)
EXTENDS NetworkEndpointSync, TLAPS

(* The containers of a snapshot that are done already have, between them,  *)
(* the names that they report.                                             *)
Served ==
  tx.env # None =>
    /\ tx.todo \subseteq Listed(tx.env)
    /\ \A c \in Listed(tx.env) \ tx.todo : \E d \in Listed(tx.env) \ tx.todo :
         tx.rows[d].name = report[c].name /\ report[d].name = report[c].name

IInv == TypeOK /\ NamesUnique /\ Served

-----------------------------------------------------------------------------
(* No row, and no transaction.                                             *)
LEMMA NothingTyped ==
  /\ NoPorts \in [Ports -> Nat]
  /\ NoRow.name = None /\ NoRow.ports = NoPorts
  /\ NoTx \in TxState /\ NoTx.env = None
  /\ NoTx.rows = [c \in Containers |-> NoRow]
BY DEF NoPorts, NoRow, NoTx, TxState

(* A row has a name, which no missing row has.                             *)
LEMMA RowNamed == \A r \in Row : r.name \in Names /\ r.name # None /\ r # NoRow
BY NoneAssumption, NothingTyped DEF Row

(* The ports of a row are counted in whole numbers.                        *)
LEMMA PortsCounted ==
  ASSUME NEW now \in [Ports -> Nat], NEW before \in [Ports -> Nat], NEW ports
  PROVE  SyncPorts(now, before, ports) \in [Ports -> Nat]
<1> SUFFICES ASSUME NEW p \in Ports
             PROVE  SyncPorts(now, before, ports)[p] \in Nat
  BY DEF SyncPorts
<1>1. now[p] \in Nat /\ before[p] \in Nat
  OBVIOUS
<1>2. now[p] + 1 \in Nat /\ (before[p] # 0 => before[p] - 1 \in Nat)
  BY <1>1
<1> QED
  BY <1>1, <1>2 DEF SyncPorts

(* A container that reports something has a report with a name.            *)
LEMMA ReportNamed ==
  ASSUME TypeOK, NEW e \in Envs, NEW c \in Listed(e)
  PROVE  /\ c \in Containers /\ report[c] \in Report(c)
         /\ report[c].name \in Names /\ report[c].ip \in {c, None}
BY DEF TypeOK, Listed, Report

(* Whatever row the endpoint is made from, it becomes one of that name.    *)
LEMMA UpdatedRow ==
  ASSUME TypeOK, NEW e \in Envs, NEW c \in Listed(e),
         NEW r \in Row \cup {NoRow}, NEW before \in [Ports -> Nat]
  PROVE  Updated(r, before, c) \in Row /\ Updated(r, before, c).name = report[c].name
<1>1. r.ports \in [Ports -> Nat] /\ r.ip \in Containers \cup {None}
  BY NothingTyped DEF Row, NoRow
<1>2. SyncPorts(r.ports, before, report[c].ports) \in [Ports -> Nat]
  BY <1>1, PortsCounted
<1> QED
  BY <1>1, <1>2, ReportNamed DEF Updated, Row

-----------------------------------------------------------------------------
(* The step that all three ways to store an endpoint share: c's row becomes *)
(* one of the name it reports, and those that had the name are gone.       *)
LEMMA WriteKeeps ==
  ASSUME IInv, tx.env # None, NEW c \in tx.todo,
         NEW r \in Row, r.name = report[c].name,
         NEW before \in [Ports -> Nat], NEW gone \in SUBSET (Containers \ {c}),
         \A d \in Conflicts(c) : d \in gone,
         \A d \in gone : tx.rows[d].name = report[c].name,
         Write(c, r, before, gone), UNCHANGED <<owner, report, rows>>
  PROVE  IInv'
<1> DEFINE e == tx.env
<1>1. e \in Envs /\ tx.todo \subseteq Listed(e) /\ c \in Listed(e) /\ c \in Containers
  BY ReportNamed DEF IInv, TypeOK, TxState, Served
<1>2. /\ tx'.env = e /\ tx'.todo = tx.todo \ {c}
      /\ tx'.rows = [d \in Containers |-> IF d = c THEN r
                                          ELSE IF d \in gone THEN NoRow ELSE tx.rows[d]]
      /\ tx'.before = [d \in Containers |-> IF d = c THEN before
                                            ELSE IF d \in gone THEN NoPorts
                                            ELSE tx.before[d]]
      /\ tx' \in [env : {e}, todo : {tx'.todo}, rows : {tx'.rows}, before : {tx'.before}]
  BY DEF Write, IInv, TypeOK, TxState
<1>3. TypeOK'
  <2>1. tx'.rows \in [Containers -> Row \cup {NoRow}]
    BY <1>2 DEF IInv, TypeOK, TxState
  <2>2. tx'.before \in [Containers -> [Ports -> Nat]]
    BY <1>2, NothingTyped DEF IInv, TypeOK, TxState
  <2>3. tx' \in TxState
    BY <1>1, <1>2, <2>1, <2>2 DEF IInv, TypeOK, TxState
  <2> QED
    BY <2>3 DEF IInv, TypeOK
<1>4. NamesUnique'
  <2>1. ASSUME NEW a \in Containers, NEW b \in Containers,
               tx'.rows[a].name = tx'.rows[b].name, tx'.rows[a] # NoRow
        PROVE  a = b
    <3>1. tx'.rows[a].name # None /\ tx'.rows[b] # NoRow
      BY <1>3, <2>1, RowNamed, NothingTyped DEF TypeOK, TxState
    <3>2. ASSUME NEW d \in Containers \ {c}, tx'.rows[d] # NoRow
          PROVE  tx'.rows[d] = tx.rows[d] /\ tx'.rows[d].name # r.name
      BY <1>2, <3>2 DEF Conflicts
    <3>3. CASE a = c \/ b = c
      BY <1>1, <1>2, <2>1, <3>1, <3>2, <3>3
    <3>4. CASE a # c /\ b # c
      BY <2>1, <3>1, <3>2, <3>4 DEF IInv, NamesUnique, OneEndpointPerName
    <3> QED
      BY <3>3, <3>4
  <2> QED
    BY <2>1 DEF IInv, NamesUnique, OneEndpointPerName
<1>5. Served'
  <2>1. Listed(tx.env)' = Listed(tx.env)
    BY <1>2 DEF Listed
  <2>2. ASSUME NEW a \in Listed(e) \ tx'.todo
        PROVE  \E d \in Listed(e) \ tx'.todo :
                 tx'.rows[d].name = report[a].name /\ report[d].name = report[a].name
    <3>1. CASE report[a].name = report[c].name
      BY <1>1, <1>2, <3>1
    <3>2. CASE report[a].name # report[c].name
      <4>1. a \in Listed(e) \ tx.todo
        BY <1>2, <2>2, <3>2
      <4>2. PICK d \in Listed(e) \ tx.todo :
              tx.rows[d].name = report[a].name /\ report[d].name = report[a].name
        BY <4>1 DEF IInv, Served
      <4>3. d \in Containers /\ d # c /\ d \notin gone
        BY <3>2, <4>2 DEF Listed
      <4> QED
        BY <1>2, <4>2, <4>3
    <3> QED
      BY <3>1, <3>2
  <2> QED
    BY <1>1, <1>2, <2>1, <2>2 DEF Served
<1> QED
  BY <1>3, <1>4, <1>5 DEF IInv

(* A transaction that ends leaves nothing behind but the table.            *)
LEMMA EndKeeps ==
  ASSUME IInv, tx' = NoTx, rows' \in {rows, tx.rows}, UNCHANGED <<owner, report>>
  PROVE  IInv'
<1>1. TypeOK'
  BY NothingTyped DEF IInv, TypeOK, TxState
<1>2. NamesUnique'
  BY NothingTyped DEF IInv, NamesUnique, OneEndpointPerName
<1> QED
  BY <1>1, <1>2, NothingTyped DEF IInv, Served

(* The invariant is inductive.                                             *)
LEMMA Inductive == Spec => []IInv
<1>1. Init => IInv
  BY NothingTyped DEF Init, IInv, TypeOK, NamesUnique, OneEndpointPerName, Served
<1>2. IInv /\ [Next]_vars => IInv'
  <2> SUFFICES ASSUME IInv, [Next]_vars PROVE IInv'
    OBVIOUS
  <2>0. /\ tx \in TxState /\ tx.env \in Envs \cup {None}
        /\ tx.rows \in [Containers -> Row \cup {NoRow}]
        /\ tx.before \in [Containers -> [Ports -> Nat]]
        /\ tx.todo \subseteq Containers
    BY DEF IInv, TypeOK, TxState
  <2>1. ASSUME NEW e \in Envs, SyncBegin(e) PROVE IInv'
    <3>1. Kept(e) \in [Containers -> Row \cup {NoRow}]
      BY DEF Kept, IInv, TypeOK
    <3>2. [c \in Containers |-> Kept(e)[c].ports] \in [Containers -> [Ports -> Nat]]
      BY <3>1, NothingTyped DEF Row
    <3>3. Listed(e) \subseteq Containers /\ Listed(e)' = Listed(e) /\ e # None
      BY <2>1, NoneAssumption DEF Listed, SyncBegin
    <3>4. /\ tx'.env = e /\ tx'.todo = Listed(e) /\ tx'.rows = Kept(e)
          /\ tx' \in TxState
      BY <2>1, <3>1, <3>2, <3>3 DEF SyncBegin, TxState
    <3>5. TypeOK'
      BY <2>1, <3>4 DEF SyncBegin, IInv, TypeOK
    <3>6. OneEndpointPerName(Kept(e))
      BY RowNamed, NothingTyped
      DEF Kept, IInv, TypeOK, NamesUnique, OneEndpointPerName
    <3>7. NamesUnique'
      BY <2>1, <3>4, <3>6 DEF SyncBegin, IInv, NamesUnique, OneEndpointPerName
    <3>8. Served'
      BY <3>3, <3>4 DEF Served
    <3> QED
      BY <3>5, <3>7, <3>8 DEF IInv
  <2>2. ASSUME NEW e \in Envs, NEW c \in Containers, tx.env = e, UpdateEndpoint(c)
        PROVE IInv'
    <3>1. e # None /\ c \in tx.todo /\ c \in Listed(e)
      BY <2>2, NoneAssumption DEF UpdateEndpoint, IInv, Served
    <3>2. /\ Updated(tx.rows[c], tx.before[c], c) \in Row
          /\ Updated(tx.rows[c], tx.before[c], c).name = report[c].name
      BY <2>0, <3>1, UpdatedRow DEF IInv
    <3>3. tx.before[c] \in [Ports -> Nat] /\ Conflicts(c) \in SUBSET (Containers \ {c})
      BY <2>0 DEF Conflicts
    <3>4. \A d \in Conflicts(c) : tx.rows[d].name = report[c].name
      BY DEF Conflicts
    <3>5. /\ Write(c, Updated(tx.rows[c], tx.before[c], c), tx.before[c], Conflicts(c))
          /\ UNCHANGED <<owner, report, rows>>
      BY <2>2 DEF UpdateEndpoint
    <3> QED
      BY <2>2, <3>1, <3>2, <3>3, <3>4, <3>5, WriteKeeps
  <2>3. ASSUME NEW e \in Envs, NEW c \in Containers, tx.env = e, ReassignEndpoint(c)
        PROVE IInv'
    <3>1. PICK d \in Conflicts(c) :
            Write(c, Updated(tx.rows[d], tx.before[d], c), tx.before[d], {d})
      BY <2>3 DEF ReassignEndpoint
    <3>2. e # None /\ c \in tx.todo /\ c \in Listed(e)
      BY <2>3, NoneAssumption DEF ReassignEndpoint, IInv, Served
    <3>3. d \in Containers \ {c} /\ tx.rows[d].name = report[c].name
      BY DEF Conflicts
    <3>4. /\ Updated(tx.rows[d], tx.before[d], c) \in Row
          /\ Updated(tx.rows[d], tx.before[d], c).name = report[c].name
      BY <2>0, <3>2, <3>3, UpdatedRow DEF IInv
    <3>5. \A a \in Conflicts(c) : a \in {d}
      <4>1. report[c].name # None
        BY <3>2, ReportNamed, NoneAssumption DEF IInv
      <4>2. tx.rows[d] # NoRow
        BY <3>3, <4>1, NothingTyped
      <4> QED
        BY <3>3, <4>2 DEF Conflicts, IInv, NamesUnique, OneEndpointPerName
    <3>6. UNCHANGED <<owner, report, rows>> /\ tx.before[d] \in [Ports -> Nat]
      BY <2>0, <2>3, <3>3 DEF ReassignEndpoint
    <3> QED
      BY <2>3, <3>1, <3>2, <3>3, <3>4, <3>5, <3>6, WriteKeeps
  <2>4. ASSUME NEW e \in Envs, NEW c \in Containers, tx.env = e, CreateEndpoint(c)
        PROVE IInv'
    <3>1. e # None /\ c \in tx.todo /\ c \in Listed(e)
      BY <2>4, NoneAssumption DEF CreateEndpoint, IInv, Served
    <3>2. /\ Updated(NoRow, NoPorts, c) \in Row
          /\ Updated(NoRow, NoPorts, c).name = report[c].name
      BY <3>1, UpdatedRow, NothingTyped DEF IInv
    <3>3. /\ Write(c, Updated(NoRow, NoPorts, c), NoPorts, {})
          /\ UNCHANGED <<owner, report, rows>> /\ Conflicts(c) = {}
      BY <2>4 DEF CreateEndpoint
    <3> QED
      BY <2>4, <3>1, <3>2, <3>3, NothingTyped, WriteKeeps
  <2>5. CASE Commit
    BY <2>5, EndKeeps DEF Commit
  <2>6. CASE Rollback
    BY <2>6, EndKeeps DEF Rollback
  <2>7. ASSUME NEW c \in Containers, NEW r \in Report(c) \cup {NotListed},
               ChangeReport(c, r)
        PROVE IInv'
    <3>1. TypeOK'
      BY <2>7 DEF ChangeReport, IInv, TypeOK
    <3>2. NamesUnique'
      BY <2>7 DEF ChangeReport, IInv, NamesUnique, OneEndpointPerName
    <3> QED
      BY <2>7, <3>1, <3>2 DEF ChangeReport, IInv, Served
  <2>8. CASE UNCHANGED vars
    BY <2>8 DEF vars, IInv, TypeOK, NamesUnique, OneEndpointPerName, Served, Listed
  <2> QED
    BY <2>1, <2>2, <2>3, <2>4, <2>5, <2>6, <2>7, <2>8 DEF Next, Sync, Store
<1> QED
  BY <1>1, <1>2, PTL DEF Spec

-----------------------------------------------------------------------------
(* The variables keep their types: no endpoint is ever left with fewer     *)
(* rows for a port than none.                                              *)
THEOREM TypeCorrect == Spec => []TypeOK
BY Inductive, PTL DEF IInv

(* Two endpoints never have one name, in the table or on the way to it, so *)
(* the unique constraint on dns_name refuses no snapshot.                  *)
THEOREM NamesStayUnique == Spec => []NamesUnique
BY Inductive, PTL DEF IInv

(* A snapshot that is stored leaves each name it asks for with one of its  *)
(* containers that asks for it.                                            *)
THEOREM NamesAreServed == Spec => NamesServed
<1>1. IInv /\ [Next]_vars =>
        [\A e \in Envs : tx.env = e /\ Commit =>
           \A c \in Listed(e) : \E d \in Listed(e) :
             rows'[d].name = report[c].name /\ report[d].name = report[c].name]_vars
  <2> SUFFICES ASSUME IInv, NEW e \in Envs, tx.env = e, Commit, NEW c \in Listed(e)
               PROVE  \E d \in Listed(e) :
                        rows'[d].name = report[c].name /\ report[d].name = report[c].name
    OBVIOUS
  <2> QED
    BY NoneAssumption DEF IInv, Served, Commit
<1> QED
  BY <1>1, Inductive, PTL DEF Spec, NamesServed

-----------------------------------------------------------------------------
(* How far a transaction has come: what it has gone through is served as   *)
(* reported or has lost its name to another, what is not listed is gone,   *)
(* and endpoints of other environments are as in the table but for names   *)
(* that are taken.                                                         *)
TakenNames(e) == {report[c].name : c \in Listed(e)}
Tracks(e, c) ==
  /\ c \in Listed(e) \ tx.todo =>
       \/ tx.rows[c].name = None
       \/ /\ tx.rows[c].name = report[c].name
          /\ report[c].ip \in {None, tx.rows[c].ip}
  /\ owner[c] = e /\ c \notin Listed(e) => tx.rows[c].name = None
  /\ owner[c] # e =>
       \/ tx.rows[c] = rows[c]
       \/ tx.rows[c].name = None /\ rows[c].name \in TakenNames(e)
TrackInv == \A e \in Envs : tx.env = e => \A c \in Containers : Tracks(e, c)

LEMMA WriteTracks ==
  ASSUME IInv, TrackInv, NEW e \in Envs, tx.env = e, NEW c \in tx.todo,
         NEW r, r.name = report[c].name, report[c].ip \in {None, r.ip},
         NEW before, NEW gone \in SUBSET (Containers \ {c}),
         \A d \in gone : tx.rows[d].name = report[c].name,
         Write(c, r, before, gone), UNCHANGED <<owner, report, rows>>
  PROVE  TrackInv'
<1>1. e # None /\ c \in Listed(e) /\ c \in Containers /\ owner[c] = e
  BY NoneAssumption DEF IInv, Served, Listed
<1>2. /\ tx'.env = e /\ tx'.todo = tx.todo \ {c}
      /\ tx'.rows = [d \in Containers |-> IF d = c THEN r
                                          ELSE IF d \in gone THEN NoRow ELSE tx.rows[d]]
  BY DEF Write, IInv, TypeOK, TxState
<1>3. Listed(e)' = Listed(e) /\ TakenNames(e)' = TakenNames(e)
  BY DEF Listed, TakenNames
<1>4. report[c].name \in TakenNames(e)
  BY <1>1 DEF TakenNames
<1>5. ASSUME NEW d \in Containers
      PROVE  Tracks(e, d)'
  <2>1. Tracks(e, d)
    BY DEF TrackInv
  <2>2. CASE d = c
    BY <1>1, <1>2, <1>3, <2>2 DEF Tracks
  <2>3. CASE d # c /\ d \in gone
    <3>1. tx'.rows[d] = NoRow /\ tx'.rows[d].name = None
      BY <1>2, <2>3, NothingTyped
    <3>2. owner[d] # e => rows[d].name \in TakenNames(e)
      BY <1>4, <2>1, <2>3 DEF Tracks
    <3> QED
      BY <1>3, <3>1, <3>2 DEF Tracks
  <2>4. CASE d # c /\ d \notin gone
    BY <1>2, <1>3, <2>1, <2>4 DEF Tracks
  <2> QED
    BY <2>2, <2>3, <2>4
<1> QED
  BY <1>2, <1>5 DEF TrackInv

(* Without a transaction there is nothing to keep track of.                *)
LEMMA EndTracks ==
  ASSUME tx' = NoTx
  PROVE  TrackInv'
BY NothingTyped, NoneAssumption DEF TrackInv

(* An endpoint has the address that its container reports, if any.         *)
LEMMA UpdatedAddress ==
  ASSUME NEW r, NEW before, NEW c
  PROVE  report[c].ip \in {None, Updated(r, before, c).ip}
BY DEF Updated

LEMMA TrackStep == IInv /\ TrackInv /\ [Next]_vars => TrackInv'
<1> SUFFICES ASSUME IInv, TrackInv, [Next]_vars PROVE TrackInv'
  OBVIOUS
<1>0. /\ tx.rows \in [Containers -> Row \cup {NoRow}]
      /\ tx.before \in [Containers -> [Ports -> Nat]]
  BY DEF IInv, TypeOK, TxState
<1>1. ASSUME NEW e \in Envs, SyncBegin(e) PROVE TrackInv'
  <2>1. tx'.env = e /\ tx'.todo = Listed(e) /\ tx'.rows = Kept(e)
    BY <1>1 DEF SyncBegin
  <2>2. Listed(e)' = Listed(e) /\ UNCHANGED <<owner, report, rows>>
    BY <1>1 DEF SyncBegin, Listed
  <2>3. ASSUME NEW c \in Containers PROVE Tracks(e, c)'
    BY <2>1, <2>2, NothingTyped DEF Tracks, Kept
  <2> QED
    BY <2>1, <2>3 DEF TrackInv
<1>2. ASSUME NEW e \in Envs, NEW c \in Containers, tx.env = e, Store(c)
      PROVE TrackInv'
  <2>1. c \in tx.todo /\ c \in Listed(e) /\ UNCHANGED <<owner, report, rows>>
    BY <1>2, NoneAssumption
    DEF Store, UpdateEndpoint, ReassignEndpoint, CreateEndpoint, IInv, Served
  <2>2. Conflicts(c) \subseteq Containers \ {c}
    BY DEF Conflicts
  <2>3. \A d \in Conflicts(c) : tx.rows[d].name = report[c].name
    BY DEF Conflicts
  <2>4. CASE UpdateEndpoint(c)
    <3>1. Updated(tx.rows[c], tx.before[c], c).name = report[c].name
      BY DEF Updated
    <3>2. Write(c, Updated(tx.rows[c], tx.before[c], c), tx.before[c], Conflicts(c))
      BY <2>4 DEF UpdateEndpoint
    <3> QED
      BY <1>2, <2>1, <2>2, <2>3, <3>1, <3>2, UpdatedAddress, WriteTracks
  <2>5. CASE ReassignEndpoint(c)
    <3>1. PICK d \in Conflicts(c) :
            Write(c, Updated(tx.rows[d], tx.before[d], c), tx.before[d], {d})
      BY <2>5 DEF ReassignEndpoint
    <3>2. Updated(tx.rows[d], tx.before[d], c).name = report[c].name
      BY DEF Updated
    <3>3. {d} \in SUBSET (Containers \ {c}) /\ \A a \in {d} : tx.rows[a].name = report[c].name
      BY <2>2, <2>3
    <3> QED
      BY <1>2, <2>1, <3>1, <3>2, <3>3, UpdatedAddress, WriteTracks
  <2>6. CASE CreateEndpoint(c)
    <3>1. Updated(NoRow, NoPorts, c).name = report[c].name
      BY DEF Updated
    <3>2. Write(c, Updated(NoRow, NoPorts, c), NoPorts, {})
      BY <2>6 DEF CreateEndpoint
    <3>3. \A a \in {} : tx.rows[a].name = report[c].name
      OBVIOUS
    <3> QED
      BY <1>2, <2>1, <3>1, <3>2, <3>3, UpdatedAddress, WriteTracks
  <2> QED
    BY <1>2, <2>4, <2>5, <2>6 DEF Store
<1>3. CASE Commit \/ Rollback
  BY <1>3, EndTracks DEF Commit, Rollback
<1>4. ASSUME NEW c \in Containers, NEW r \in Report(c) \cup {NotListed},
             ChangeReport(c, r)
      PROVE TrackInv'
  BY <1>4, NoneAssumption DEF ChangeReport, TrackInv
<1>5. CASE UNCHANGED vars
  BY <1>5 DEF vars, TrackInv, Tracks, Listed, TakenNames
<1> QED
  BY <1>1, <1>2, <1>3, <1>4, <1>5 DEF Next, Sync

LEMMA TrackInvariant == Spec => []TrackInv
<1>1. Init => TrackInv
  BY NothingTyped, NoneAssumption DEF Init, TrackInv
<1> QED
  BY <1>1, TrackStep, Inductive, PTL DEF Spec

(* As long as a snapshot's names are apart: no row has more of a port than *)
(* one, or than some row of the table; and what the session has loaded of  *)
(* an endpoint it has not gone through yet is what it has.                 *)
Within(n, p) == n <= 1 \/ \E d \in Containers : n <= rows[d].ports[p]
PortsInv ==
  \A e \in Envs : tx.env = e /\ NamesApart(e) =>
    \A c \in Containers :
      /\ \A p \in Ports : Within(tx.rows[c].ports[p], p)
      /\ c \notin Listed(e) \ tx.todo => tx.before[c] = tx.rows[c].ports

(* Synchronised by what it has, an endpoint gets no port twice.            *)
LEMMA PortsWithin ==
  ASSUME TypeOK, NEW now \in [Ports -> Nat], NEW ports,
         \A p \in Ports : Within(now[p], p)
  PROVE  \A p \in Ports : Within(SyncPorts(now, now, ports)[p], p)
<1> SUFFICES ASSUME NEW p \in Ports
             PROVE  Within(SyncPorts(now, now, ports)[p], p)
  OBVIOUS
<1>1. now[p] \in Nat /\ \A d \in Containers : rows[d].ports[p] \in Nat
  BY NothingTyped DEF TypeOK, Row
<1>2. SyncPorts(now, now, ports)[p] \in
        IF now[p] = 0 THEN {0, 1} ELSE {now[p], now[p] - 1}
  BY <1>1 DEF SyncPorts
<1>3. CASE now[p] = 0
  BY <1>2, <1>3 DEF Within
<1>4. ASSUME NEW n \in Nat, n <= now[p] PROVE Within(n, p)
  BY <1>1, <1>4 DEF Within
<1> QED
  BY <1>1, <1>2, <1>3, <1>4

(* An endpoint that is written with ports within the bounds keeps them.    *)
LEMMA WriteWithin ==
  ASSUME IInv, PortsInv, NEW e \in Envs, tx.env = e, NEW c \in tx.todo,
         NEW r, NamesApart(e) => \A p \in Ports : Within(r.ports[p], p),
         NEW before, NEW gone, Write(c, r, before, gone),
         UNCHANGED <<owner, report, rows>>
  PROVE  PortsInv'
<1>1. e # None /\ c \in Listed(e) /\ c \in Containers
  BY NoneAssumption DEF IInv, Served, Listed
<1>2. /\ tx'.env = e /\ tx'.todo = tx.todo \ {c}
      /\ tx'.rows = [d \in Containers |-> IF d = c THEN r
                                          ELSE IF d \in gone THEN NoRow ELSE tx.rows[d]]
      /\ tx'.before = [d \in Containers |-> IF d = c THEN before
                                            ELSE IF d \in gone THEN NoPorts
                                            ELSE tx.before[d]]
  BY DEF Write, IInv, TypeOK, TxState
<1>3. Listed(e)' = Listed(e) /\ NamesApart(e)' = NamesApart(e)
  BY DEF Listed, NamesApart
<1>4. \A n, p : Within(n, p)' = Within(n, p)
  BY DEF Within
<1>5. ASSUME NamesApart(e), NEW d \in Containers
      PROVE  /\ \A p \in Ports : Within(tx'.rows[d].ports[p], p)
             /\ d \notin Listed(e) \ tx'.todo => tx'.before[d] = tx'.rows[d].ports
  <2>1. CASE d = c
    BY <1>1, <1>2, <1>5, <2>1
  <2>2. CASE d # c /\ d \in gone
    <3>1. tx'.rows[d].ports = NoPorts /\ tx'.before[d] = NoPorts
      BY <1>2, <2>2, NothingTyped
    <3>2. \A p \in Ports : NoPorts[p] = 0
      BY DEF NoPorts
    <3> QED
      BY <3>1, <3>2 DEF Within
  <2>3. CASE d # c /\ d \notin gone
    BY <1>2, <1>5, <2>3 DEF PortsInv
  <2> QED
    BY <2>1, <2>2, <2>3
<1> QED
  BY <1>2, <1>3, <1>4, <1>5 DEF PortsInv

(* An endpoint whose name c asks for has not been gone through, so what    *)
(* was loaded of its ports is what it has.                                 *)
LEMMA ConflictNotDone ==
  ASSUME IInv, TrackInv, PortsInv, NEW e \in Envs, tx.env = e, NamesApart(e),
         NEW c \in tx.todo, NEW d \in Conflicts(c)
  PROVE  tx.before[d] = tx.rows[d].ports
<1>1. e # None /\ c \in Listed(e) /\ d \in Containers \ {c}
  BY NoneAssumption DEF IInv, Served, Conflicts
<1>2. report[c].name # None /\ tx.rows[d].name = report[c].name
  BY <1>1, ReportNamed, NoneAssumption DEF IInv, Conflicts
<1>3. ASSUME d \in Listed(e) \ tx.todo PROVE FALSE
  <2>1. tx.rows[d].name = report[d].name
    BY <1>1, <1>2, <1>3 DEF TrackInv, Tracks
  <2> QED
    BY <1>1, <1>2, <1>3, <2>1 DEF NamesApart
<1> QED
  BY <1>1, <1>3 DEF PortsInv

LEMMA PortsStep == IInv /\ TrackInv /\ PortsInv /\ [Next]_vars => PortsInv'
<1> SUFFICES ASSUME IInv, TrackInv, PortsInv, [Next]_vars PROVE PortsInv'
  OBVIOUS
<1>0. /\ tx.rows \in [Containers -> Row \cup {NoRow}]
      /\ \A c \in Containers : tx.rows[c].ports \in [Ports -> Nat]
  BY NothingTyped DEF IInv, TypeOK, TxState, Row
<1>1. ASSUME NEW e \in Envs, SyncBegin(e) PROVE PortsInv'
  <2>1. /\ tx'.env = e /\ tx'.todo = Listed(e) /\ tx'.rows = Kept(e)
        /\ tx'.before = [c \in Containers |-> Kept(e)[c].ports]
    BY <1>1 DEF SyncBegin
  <2>2. UNCHANGED <<owner, report, rows>>
    BY <1>1 DEF SyncBegin
  <2>3. ASSUME NEW c \in Containers, NEW p \in Ports
        PROVE  Within(Kept(e)[c].ports[p], p)
    <3>1. rows[c].ports[p] \in Nat
      BY NothingTyped DEF IInv, TypeOK, Row
    <3>2. Kept(e)[c] = rows[c] \/ Kept(e)[c].ports[p] = 0
      BY NothingTyped DEF Kept, NoPorts
    <3> QED
      BY <3>1, <3>2 DEF Within
  <2> QED
    BY <2>1, <2>2, <2>3 DEF PortsInv, Within
<1>2. ASSUME NEW e \in Envs, NEW c \in Containers, tx.env = e, Store(c)
      PROVE PortsInv'
  <2>1. c \in tx.todo /\ UNCHANGED <<owner, report, rows>>
    BY <1>2 DEF Store, UpdateEndpoint, ReassignEndpoint, CreateEndpoint
  <2>2. ASSUME NEW d \in Containers, NamesApart(e), tx.before[d] = tx.rows[d].ports
        PROVE  \A p \in Ports :
                 Within(Updated(tx.rows[d], tx.before[d], c).ports[p], p)
    <3>1. \A p \in Ports : Within(tx.rows[d].ports[p], p)
      BY <1>2, <2>2 DEF PortsInv
    <3> QED
      BY <1>0, <2>2, <3>1, PortsWithin DEF Updated, IInv
  <2>3. CASE UpdateEndpoint(c)
    <3>1. NamesApart(e) => tx.before[c] = tx.rows[c].ports
      BY <1>2, <2>1 DEF PortsInv
    <3>2. Write(c, Updated(tx.rows[c], tx.before[c], c), tx.before[c], Conflicts(c))
      BY <2>3 DEF UpdateEndpoint
    <3> QED
      BY <1>2, <2>1, <2>2, <3>1, <3>2, WriteWithin
  <2>4. CASE ReassignEndpoint(c)
    <3>1. PICK d \in Conflicts(c) :
            Write(c, Updated(tx.rows[d], tx.before[d], c), tx.before[d], {d})
      BY <2>4 DEF ReassignEndpoint
    <3>2. d \in Containers /\ (NamesApart(e) => tx.before[d] = tx.rows[d].ports)
      BY <1>2, <2>1, ConflictNotDone DEF Conflicts
    <3> QED
      BY <1>2, <2>1, <2>2, <3>1, <3>2, WriteWithin
  <2>5. CASE CreateEndpoint(c)
    <3>1. Write(c, Updated(NoRow, NoPorts, c), NoPorts, {})
      BY <2>5 DEF CreateEndpoint
    <3>2. \A p \in Ports : Within(NoPorts[p], p)
      BY DEF NoPorts, Within
    <3>3. \A p \in Ports : Within(Updated(NoRow, NoPorts, c).ports[p], p)
      BY <3>2, PortsWithin, NothingTyped DEF Updated, IInv
    <3> QED
      BY <1>2, <2>1, <3>1, <3>3, WriteWithin
  <2> QED
    BY <1>2, <2>3, <2>4, <2>5 DEF Store
<1>3. CASE Commit \/ Rollback
  BY <1>3, NothingTyped, NoneAssumption DEF Commit, Rollback, PortsInv
<1>4. ASSUME NEW c \in Containers, NEW r \in Report(c) \cup {NotListed},
             ChangeReport(c, r)
      PROVE PortsInv'
  BY <1>4, NoneAssumption DEF ChangeReport, PortsInv
<1>5. CASE UNCHANGED vars
  BY <1>5 DEF vars, PortsInv, Within, NamesApart, Listed
<1> QED
  BY <1>1, <1>2, <1>3, <1>4, <1>5 DEF Next, Sync

(* Only a snapshot two of whose containers share a name lists a port more  *)
(* often than it was (NetworkEndpointRepository.sync_ports).               *)
THEOREM PortsAreNotDoubled == Spec => DoubledByNamesakesOnly
<1>1. Init => PortsInv
  BY NothingTyped, NoneAssumption DEF Init, PortsInv
<1>2. PortsInv /\ [Next]_vars =>
        [\A e \in Envs : tx.env = e /\ Commit /\ NamesApart(e) =>
           \A c \in Containers, p \in Ports :
             \/ rows'[c].ports[p] <= 1
             \/ \E d \in Containers : rows'[c].ports[p] <= rows[d].ports[p]]_vars
  <2> SUFFICES ASSUME PortsInv, NEW e \in Envs, tx.env = e, Commit, NamesApart(e),
                      NEW c \in Containers, NEW p \in Ports
               PROVE  Within(rows'[c].ports[p], p)
    BY DEF Within
  <2> QED
    BY DEF PortsInv, Commit
<1> QED
  BY <1>1, <1>2, PortsStep, Inductive, TrackInvariant, PTL
  DEF Spec, DoubledByNamesakesOnly

(* The table and the reports as the directory sees them.                   *)
LEMMA DirectoryView ==
  ASSUME TypeOK, NEW e \in Envs
  PROVE  Directory!Listed(e) = Listed(e) /\ Directory!Taken(e) = TakenNames(e)
<1>1. \A c \in Containers : report[c].name = None <=> report[c] = NotListed
  BY NoneAssumption DEF TypeOK, Report, NotListed
<1>2. Directory!Listed(e) = Listed(e)
  BY <1>1 DEF Directory!Listed, Listed
<1> QED
  BY <1>2 DEF Directory!Taken, TakenNames, Listed

(* The commit of a transaction is the directory's snapshot.                *)
LEMMA CommitIsSnapshot ==
  ASSUME IInv, TrackInv, NEW e \in Envs, tx.env = e, Commit
  PROVE  Directory!Snapshot(e)
<1>1. /\ Directory!Listed(e) = Listed(e) /\ Directory!Taken(e) = TakenNames(e)
      /\ Listed(e) \subseteq Containers
  BY DirectoryView DEF IInv, Listed
<1>2. e # None /\ tx.todo = {} /\ rows' = tx.rows /\ UNCHANGED <<owner, report>>
  BY NoneAssumption DEF Commit
<1>3. /\ tx.rows \in [Containers -> Row \cup {NoRow}]
      /\ rows \in [Containers -> Row \cup {NoRow}]
  BY DEF IInv, TypeOK, TxState
<1>4. ASSUME NEW c \in Listed(e)
      PROVE  rows'[c].name = None \/ Directory!Serves(c)
  <2>1. Tracks(e, c) /\ c \in Containers
    BY <1>1 DEF TrackInv
  <2> QED
    BY <1>2, <2>1 DEF Tracks, Directory!Serves
<1>5. ASSUME NEW c \in Listed(e)
      PROVE  \E d \in Listed(e) : report[d].name = report[c].name /\ Directory!Serves(d)
  <2>1. PICK d \in Listed(e) :
          tx.rows[d].name = report[c].name /\ report[d].name = report[c].name
    BY <1>2 DEF IInv, Served
  <2>2. report[c].name # None
    BY ReportNamed, NoneAssumption DEF IInv
  <2> QED
    BY <1>2, <1>4, <2>1, <2>2
<1>6. ASSUME NEW c \in Containers, c \notin Listed(e), owner[c] = e
      PROVE  rows'[c].name = None
  BY <1>2, <1>6 DEF TrackInv, Tracks
<1>7. ASSUME NEW c \in Containers, owner[c] # e, rows[c].name \in TakenNames(e)
      PROVE  rows'[c].name = None
  <2>1. PICK a \in Listed(e) : rows[c].name = report[a].name
    BY <1>7 DEF TakenNames
  <2>2. PICK d \in Listed(e) : tx.rows[d].name = rows[c].name
    BY <1>2, <2>1 DEF IInv, Served
  <2>3. d \in Containers /\ d # c
    BY <1>1, <1>7, <2>2 DEF Listed
  <2>4. ASSUME tx.rows[c] = rows[c] PROVE tx.rows[c].name = None
    <3>1. CASE tx.rows[c] = NoRow
      BY <3>1, NothingTyped
    <3>2. CASE tx.rows[c] # NoRow
      BY <2>2, <2>3, <2>4, <3>2 DEF IInv, NamesUnique, OneEndpointPerName
    <3> QED
      BY <3>1, <3>2
  <2> QED
    BY <1>2, <1>7, <2>4 DEF TrackInv, Tracks
<1>8. ASSUME NEW c \in Containers, owner[c] # e, rows[c].name \notin TakenNames(e)
      PROVE  rows'[c] = rows[c]
  BY <1>2, <1>8 DEF TrackInv, Tracks
<1>9. ASSUME NEW c \in Containers, NEW d \in Containers, rows'[c].name = rows'[d].name
      PROVE  c = d \/ rows'[c].name = None
  BY <1>2, <1>9, NothingTyped DEF IInv, NamesUnique, OneEndpointPerName
<1>10. ASSUME NEW c \in Containers \ Listed(e)
       PROVE  IF owner[c] = e THEN rows'[c].name = None ELSE Directory!Untouched(e, c)
  BY <1>1, <1>6, <1>7, <1>8 DEF Directory!Untouched
<1> QED
  BY <1>1, <1>2, <1>4, <1>5, <1>9, <1>10 DEF Directory!Snapshot

(* NetworkEndpointSync implements EndpointDirectory: whatever the order in *)
(* which a snapshot's containers take names from each other and from       *)
(* others, its storing is one step that gives exactly the names asked for  *)
(* (NetworkEndpointSyncService.sync_container_endpoint).                   *)
THEOREM ImplementsDirectory == Spec => SnapshotIsOneStep
<1>1. Init => Directory!Init
  BY DEF Init, Directory!Init, NoRow
<1>2. IInv /\ TrackInv /\ [Next]_vars => [Directory!Next]_(Directory!directoryVars)
  <2> SUFFICES ASSUME IInv, TrackInv, [Next]_vars
               PROVE  Directory!Next \/ UNCHANGED Directory!directoryVars
    OBVIOUS
  <2>1. ASSUME NEW e \in Envs, SyncBegin(e) PROVE Directory!Ask
    BY <2>1 DEF SyncBegin, Directory!Ask
  <2>2. ASSUME NEW e \in Envs, tx.env = e, NEW c \in Containers, Store(c)
        PROVE  Directory!Ask
    BY <2>2 DEF Store, UpdateEndpoint, ReassignEndpoint, CreateEndpoint, Directory!Ask
  <2>3. CASE Rollback \/ UNCHANGED vars
    BY <2>3 DEF Rollback, vars, Directory!Ask, Directory!Next
  <2>4. ASSUME NEW c \in Containers, NEW r, ChangeReport(c, r) PROVE Directory!Ask
    BY <2>4 DEF ChangeReport, Directory!Ask
  <2> QED
    BY <2>1, <2>2, <2>3, <2>4, CommitIsSnapshot DEF Next, Sync, Directory!Next
<1> QED
  BY <1>1, <1>2, Inductive, TrackInvariant, PTL DEF Spec, SnapshotIsOneStep, Directory!Spec

=============================================================================
