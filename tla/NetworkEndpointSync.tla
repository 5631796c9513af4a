-------------------------- MODULE NetworkEndpointSync --------------------------
(***************************************************************************)
(* The names under which containers are reached.  Every container of a     *)
(* snapshot gets one endpoint: its host name, address and ports, which the *)
(* catalogue hands to clients.  A host name is unique over all             *)
(* environments, and a container that reports one that is taken takes it.  *)
(*                                                                         *)
(* A snapshot goes through its containers one by one in one transaction,   *)
(* which the event loop runs without a pause and a failure rolls back.     *)
(* Nothing else writes the tables.                                         *)
(***************************************************************************)
EXTENDS Naturals

CONSTANTS
  Envs,
  Containers,  \* the containers of all environments
  Names,       \* host names, as sanitize_hostname leaves them
  Ports        \* ports with their protocols

CONSTANT None
ASSUME NoneAssumption == None \notin Envs \cup Containers \cup Names

VARIABLES
  owner,   \* owner[c]: the environment of c; fixed
  report,  \* report[c]: what c's agent reports of it, NotListed if nothing
  rows,    \* network_endpoints, by published_container_id
  tx       \* the transaction that stores a snapshot

vars == <<owner, report, rows, tx>>

(* An address is identified with the container whose machine has it.       *)
Report(c) == [name : Names, ip : {c, None}, ports : SUBSET Ports]
NotListed == [name |-> None, ip |-> None, ports |-> {}]

(* ports[p]: how many rows of network_endpoint_ports there are for p.      *)
Row == [name : Names, ip : Containers \cup {None}, ports : [Ports -> Nat]]
NoPorts == [p \in Ports |-> 0]
NoRow == [name |-> None, ip |-> None, ports |-> NoPorts]

(* env: whose snapshot, None if no transaction is under way; todo: its     *)
(* containers still to come; rows: the transaction's view of the table;    *)
(* before[c]: the ports of c's row as the session first loaded them.       *)
TxState == [env : Envs \cup {None}, todo : SUBSET Containers,
            rows : [Containers -> Row \cup {NoRow}],
            before : [Containers -> [Ports -> Nat]]]
NoTx == [env |-> None, todo |-> {},
         rows |-> [c \in Containers |-> NoRow],
         before |-> [c \in Containers |-> NoPorts]]

TypeOK ==
  /\ owner \in [Containers -> Envs]
  /\ DOMAIN report = Containers
  /\ \A c \in Containers : report[c] \in Report(c) \cup {NotListed}
  /\ rows \in [Containers -> Row \cup {NoRow}]
  /\ tx \in TxState

Init ==
  /\ owner \in [Containers -> Envs]
  /\ report = [c \in Containers |-> NotListed]
  /\ rows = [c \in Containers |-> NoRow]
  /\ tx = NoTx

-----------------------------------------------------------------------------
(* The transaction *)

Listed(e) == {c \in Containers : owner[c] = e /\ report[c] # NotListed}

(* Mutated form: what is not in this snapshot is purged, whoever's it is.  *)
KeptOfListed(e) ==
  [c \in Containers |-> IF c \notin Listed(e) THEN NoRow ELSE rows[c]]

(* What the snapshot no longer lists is purged first, endpoints and all.   *)
Kept(e) ==
  [c \in Containers |-> IF owner[c] = e /\ c \notin Listed(e) THEN NoRow ELSE rows[c]]

SyncBegin(e) ==
  /\ tx.env = None
  /\ tx' = [env |-> e, todo |-> Listed(e), rows |-> Kept(e),
            before |-> [c \in Containers |-> Kept(e)[c].ports]]
  /\ UNCHANGED <<owner, report, rows>>

(* Mutated form: what is loaded is taken for what is there.                *)
SyncPortsByLoaded(now, before, ports) ==
  [p \in Ports |-> IF p \in ports /\ before[p] = 0 THEN now[p] + 1 ELSE now[p]]

(* Mutated form: every delete takes a row.                                 *)
SyncPortsDeletingAgain(now, before, ports) ==
  [p \in Ports |->
     IF before[p] = 0
     THEN IF p \in ports THEN now[p] + 1 ELSE now[p]
     ELSE IF p \in ports THEN now[p] ELSE now[p] - 1]

(* Mutated form: a port that is wanted is added, whether it is there.      *)
SyncPortsAddingAgain(now, before, ports) ==
  [p \in Ports |->
     IF p \in ports THEN now[p] + 1
     ELSE IF before[p] = 0 THEN now[p] ELSE before[p] - 1]

(* sync_ports goes by the collection of the endpoint, which is loaded once *)
(* in a session and does not change with the rows: a row it has is deleted *)
(* if it is not wanted (one of several; again, if done already, to no      *)
(* effect), and a port it does not have is added.                          *)
SyncPorts(now, before, ports) ==
  [p \in Ports |->
     IF before[p] = 0
     THEN IF p \in ports THEN now[p] + 1 ELSE now[p]
     ELSE IF p \in ports THEN now[p] ELSE before[p] - 1]

(* The endpoint r, with the ports it was loaded with, as c reports it.     *)
Updated(r, before, c) ==
  [name |-> report[c].name,
   ip |-> IF report[c].ip # None THEN report[c].ip ELSE r.ip,
   ports |-> SyncPorts(r.ports, before, report[c].ports)]

Holds(c) == tx.rows[c] # NoRow
Conflicts(c) == {d \in Containers \ {c} : tx.rows[d].name = report[c].name}

(* c's row is set to r, loaded with before; those of gone are no more.     *)
Write(c, r, before, gone) ==
  tx' = [tx EXCEPT
    !.todo = @ \ {c},
    !.rows = [d \in Containers |-> IF d = c THEN r
                                   ELSE IF d \in gone THEN NoRow ELSE @[d]],
    !.before = [d \in Containers |-> IF d = c THEN before
                                     ELSE IF d \in gone THEN NoPorts ELSE @[d]]]

(* Mutated forms: the other endpoint of the name stays; the endpoint keeps *)
(* the name it was made with.                                              *)
UpdateEndpointOnly(c) ==
  /\ c \in tx.todo /\ Holds(c)
  /\ Write(c, Updated(tx.rows[c], tx.before[c], c), tx.before[c], {})
  /\ UNCHANGED <<owner, report, rows>>

UpdateEndpointKeepingName(c) ==
  /\ c \in tx.todo /\ Holds(c)
  /\ Write(c, [Updated(tx.rows[c], tx.before[c], c) EXCEPT !.name = tx.rows[c].name],
           tx.before[c], Conflicts(c))
  /\ UNCHANGED <<owner, report, rows>>

(* c has an endpoint: another one of its name is deleted.                  *)
UpdateEndpoint(c) ==
  /\ c \in tx.todo /\ Holds(c)
  /\ Write(c, Updated(tx.rows[c], tx.before[c], c), tx.before[c], Conflicts(c))
  /\ UNCHANGED <<owner, report, rows>>

(* Mutated form: the name is left to who has it.                           *)
ReassignEndpointRefused(c) ==
  /\ c \in tx.todo /\ ~Holds(c) /\ Conflicts(c) # {}
  /\ tx' = [tx EXCEPT !.todo = @ \ {c}]
  /\ UNCHANGED <<owner, report, rows>>

(* c has none, and its name is another's: the endpoint becomes c's, with   *)
(* the address it has, if c reports none.                                  *)
ReassignEndpoint(c) ==
  /\ c \in tx.todo /\ ~Holds(c)
  /\ \E d \in Conflicts(c) :
       Write(c, Updated(tx.rows[d], tx.before[d], c), tx.before[d], {d})
  /\ UNCHANGED <<owner, report, rows>>

CreateEndpoint(c) ==
  /\ c \in tx.todo /\ ~Holds(c) /\ Conflicts(c) = {}
  /\ Write(c, Updated(NoRow, NoPorts, c), NoPorts, {})
  /\ UNCHANGED <<owner, report, rows>>

Commit ==
  /\ tx.env # None /\ tx.todo = {}
  /\ rows' = tx.rows
  /\ tx' = NoTx
  /\ UNCHANGED <<owner, report>>

(* Some other part of the snapshot fails, or the process dies.             *)
Rollback ==
  /\ tx.env # None
  /\ tx' = NoTx
  /\ UNCHANGED <<owner, report, rows>>

(* The agents.  Not while a snapshot is stored: it is as old as its call.  *)
ChangeReport(c, r) ==
  /\ tx.env = None
  /\ report' = [report EXCEPT ![c] = r]
  /\ UNCHANGED <<owner, rows, tx>>

-----------------------------------------------------------------------------
Store(c) == UpdateEndpoint(c) \/ ReassignEndpoint(c) \/ CreateEndpoint(c)

Sync(e) ==
  \/ SyncBegin(e)
  \/ tx.env = e /\ (Commit \/ \E c \in Containers : Store(c))

Next ==
  \/ \E e \in Envs : Sync(e)
  \/ Rollback
  \/ \E c \in Containers : \E r \in Report(c) \cup {NotListed} : ChangeReport(c, r)

Spec == Init /\ [][Next]_vars

(* A transaction runs on, and every agent has snapshots stored again and   *)
(* again: it sends one for every change, and for every new socket.         *)
FairSpec ==
  /\ Spec
  /\ \A e \in Envs :
       /\ WF_vars(tx.env = e /\ (Commit \/ \E c \in Containers : Store(c)))
       /\ SF_vars(SyncBegin(e))

-----------------------------------------------------------------------------
(* Properties *)

(* What the catalogue shows of c's endpoint: a port once for each row.     *)
Item(c) == [fqdn |-> rows[c].name, ip |-> rows[c].ip, ports |-> rows[c].ports]
Catalogue(e) == {Item(c) : c \in {d \in Containers : owner[d] = e /\ rows[d] # NoRow}}

(* The unique constraint on dns_name is never hit, in whatever order the   *)
(* containers of a snapshot take names from each other and from those of   *)
(* other environments: no snapshot is refused for its names.               *)
OneEndpointPerName(t) ==
  \A c, d \in Containers : t[c].name = t[d].name /\ t[c] # NoRow => c = d
NamesUnique == OneEndpointPerName(rows) /\ OneEndpointPerName(tx.rows)

(* When a snapshot is stored, every name it asks for is an endpoint of one *)
(* of its containers that asks for it.                                     *)
NamesServed ==
  [][\A e \in Envs : tx.env = e /\ Commit =>
       \A c \in Listed(e) : \E d \in Listed(e) :
         rows'[d].name = report[c].name /\ report[d].name = report[c].name]_vars

(* One port is listed twice when two containers of a snapshot share a name *)
(* (the second adds what the first has added), and stays so as long as it  *)
(* is wanted.  Nothing else does that: a snapshot whose names are apart    *)
(* leaves no port with more rows than one, or than some endpoint had of it *)
(* before, whatever endpoints go from one container to another.            *)
NamesApart(e) ==
  \A c, d \in Listed(e) : report[c].name = report[d].name => c = d
DoubledByNamesakesOnly ==
  [][\A e \in Envs : tx.env = e /\ Commit /\ NamesApart(e) =>
       \A c \in Containers, p \in Ports :
         \/ rows'[c].ports[p] <= 1
         \/ \E d \in Containers : rows'[c].ports[p] <= rows[d].ports[p]]_vars

Directory == INSTANCE EndpointDirectory WITH
  wanted <- [c \in Containers |-> [name |-> report[c].name, ip |-> report[c].ip]],
  entry <- [c \in Containers |-> [name |-> rows[c].name, ip |-> rows[c].ip]]

(* A snapshot is one step: all names it asks for and no others change      *)
(* hands, and endpoints of other environments keep what they have but for  *)
(* the names that are taken from them, in whatever order the containers    *)
(* are gone through and take names from each other.                        *)
SnapshotIsOneStep == Directory!Spec

(* In the end snapshots no longer fail (one that changes nothing looks the *)
(* same either way); c's report no longer changes.                         *)
FailuresEnd == <>[][Rollback => Commit]_vars
ReportEnds(c) == <>[][report'[c] = report[c]]_vars

(* A report that stays, of a name that no other container reports, is in   *)
(* the end what the catalogue shows for good: the name and, if it has one, *)
(* the address, every port of it and no other, whatever others that shared *)
(* the name for a while have left in the endpoint.  A port they doubled is *)
(* listed twice for good, and one who reports no address keeps theirs.     *)
Alone(c) ==
  /\ report[c] # NotListed
  /\ \A d \in Containers \ {c} : report[d].name # report[c].name
Shown(c) ==
  \E i \in Catalogue(owner[c]) :
    /\ i.fqdn = report[c].name
    /\ \A p \in Ports : i.ports[p] > 0 <=> p \in report[c].ports
    /\ report[c].ip \in {i.ip, None}
CatalogueSettles ==
  FailuresEnd => \A c \in Containers :
    ReportEnds(c) /\ <>[]Alone(c) => <>[]Shown(c)

(* Containers that share a name for good take it from each other for good: *)
(* with one of them in each environment, the endpoint is each one's again  *)
(* and again.                                                              *)
AloneHere(c) ==
  /\ report[c] # NotListed
  /\ \A d \in Containers \ {c} :
       owner[d] = owner[c] => report[d].name # report[c].name
NameRegained ==
  FailuresEnd => \A c \in Containers :
    ReportEnds(c) /\ <>[]AloneHere(c) => []<>(rows[c].name = report[c].name)

=============================================================================
