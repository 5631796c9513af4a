-------------------------- MODULE HeadscaleStateSync --------------------------
(***************************************************************************)
(* The background loop that copies what Headscale says of its machines to  *)
(* the table headscale_nodes, binds pending connections to machines, and   *)
(* tells the agents what has changed.                                      *)
(*                                                                         *)
(* A round lists the machines in one call, goes through the list, commits, *)
(* and then sends one event to each environment with changes.  Up to the   *)
(* commit the event loop does nothing else; client threads and the world   *)
(* go on.  Each send gives the event loop away.  Between the rounds the    *)
(* snapshots of the agents write to the same table (EnvironmentSync).      *)
(***************************************************************************)
EXTENDS Naturals, FiniteSets

CONSTANTS
  Nodes,  \* identities that Headscale gives machines (bound)
  Envs,   \* environments with a Headscale user
  Conns,  \* row identities of connections (bound)
  EnvOf,  \* EnvOf[n]: whose user n joined as; None for a user not known here
  Key,    \* Key[n]: the machine key; the same for two identities of a machine
  For     \* For[k]: the environment of the container that k connects to

CONSTANT None
ASSUME NoneAssumption == None \notin Nodes \cup Envs
ASSUME OwnerAssumption ==
  /\ EnvOf \in [Nodes -> Envs \cup {None}]
  /\ For \in [Conns -> Envs]
ASSUME KeyAssumption == DOMAIN Key = Nodes

VARIABLES
  machine,  \* Headscale: what it says of each identity, "absent" if nothing
  up,       \* Headscale answers
  row,      \* headscale_nodes, by headscale_node_id
  conn,     \* connections: the machine each is bound to
  link,     \* environments with an entry in active_connections
  round,    \* the round under way
  seen,     \* history: the list that the last committed round went by
  touched   \* history: a snapshot has written to the table since then

worldVars == <<machine, up, link>>
history == <<seen, touched>>
vars == <<machine, up, row, conn, link, round, history>>

Statuses == {"online", "offline"}
Report == [Nodes -> Statuses \cup {"absent"}]

(* What a snapshot leaves of a row is offline, with neither address nor    *)
(* keys.                                                                   *)
Table == [Nodes -> Statuses \cup {"absent", "wiped"}]

(* A connection that is not there, or pending, or no longer pending; to    *)
(* is the row it is bound to.                                              *)
ConnState == [at : {"free", "pending", "settled"}, to : Nodes \cup {None}]

(* list: the answer of Headscale; todo: the machines of it still to come;  *)
(* row, to: the transaction's view of the table, and the bindings it makes; *)
(* deltas: the environments to tell.                                       *)
RoundState == [pc : {"idle", "storing", "sending"}, list : Report,
               todo : SUBSET Nodes, row : Table,
               to : [Conns -> Nodes \cup {None}], deltas : SUBSET Envs]
Nobody == [n \in Nodes |-> "absent"]
Unbound == [k \in Conns |-> None]
NoRound == [pc |-> "idle", list |-> Nobody, todo |-> {}, row |-> Nobody,
            to |-> Unbound, deltas |-> {}]

TypeOK ==
  /\ machine \in Report
  /\ up \in BOOLEAN
  /\ row \in Table
  /\ conn \in [Conns -> ConnState]
  /\ link \in SUBSET Envs
  /\ round \in RoundState
  /\ seen \in Report
  /\ touched \in BOOLEAN
  /\ round.pc # "storing" => round.todo = {}
  /\ \A k \in Conns : conn[k].at = "free" =>
                        conn[k].to = None /\ round.to[k] = None

Init ==
  /\ machine = Nobody
  /\ up = TRUE
  /\ row = Nobody
  /\ conn = [k \in Conns |-> [at |-> "free", to |-> None]]
  /\ link = {}
  /\ round = NoRound
  /\ seen = Nobody
  /\ touched = FALSE

-----------------------------------------------------------------------------
(* A round *)

(* A call that fails ends the round: nothing is marked offline.            *)
ListNodes ==
  /\ round.pc = "idle" /\ up
  /\ round' = [pc |-> "storing", list |-> machine,
               todo |-> {n \in Nodes : machine[n] # "absent"},
               row |-> row, to |-> Unbound, deltas |-> {}]
  /\ UNCHANGED <<row, conn, worldVars, history>>

(* The row that stands for n: the one with its identity; else any that has *)
(* its machine key since before the round or was made in it (a row that    *)
(* gets its key back in the round is not found by it); else none.          *)
Matches(n) ==
  IF round.row[n] # "absent" THEN {n}
  ELSE {r \in Nodes : round.row[r] # "absent" /\ row[r] # "wiped" /\ Key[r] = Key[n]}

(* Mutated forms: every row counts as changed (timestamps with and without *)
(* a zone are compared); only machines that are online are looked at.      *)
ChangedAlways(r, n) == round.list[n] \in Statuses

ChangedOnline(r, n) ==
  round.row[r] # round.list[n] /\ round.list[n] = "online"

(* Some attribute that is compared differs.                                *)
Changed(r, n) == round.row[r] # round.list[n]

(* Mutated form: a connection is bound again in every round.               *)
BindAgain(n, r) ==
  [k \in Conns |->
     IF conn[k].at = "pending" /\ For[k] = EnvOf[n] THEN r ELSE round.to[k]]

(* The pending connections of the environment that are bound to no machine *)
(* are bound to the one that is looked at, whichever it is.                *)
Bind(n, r) ==
  [k \in Conns |->
     IF /\ conn[k].at = "pending" /\ For[k] = EnvOf[n]
        /\ conn[k].to = None /\ round.to[k] = None
     THEN r ELSE round.to[k]]

(* Mutated form: only the machine that was stored last is told of.         *)
StoreToldLast(n, r, write) ==
  /\ round' = [round EXCEPT
       !.todo = @ \ {n},
       !.row = IF write THEN [@ EXCEPT ![r] = round.list[n]] ELSE @,
       !.to = Bind(n, r),
       !.deltas = IF write THEN {EnvOf[n]} \ {None} ELSE {}]
  /\ UNCHANGED <<row, conn, worldVars, history>>

(* n is stored in the row r, which keeps its identity.                     *)
Store(n, r, write) ==
  /\ round' = [round EXCEPT
       !.todo = @ \ {n},
       !.row = IF write THEN [@ EXCEPT ![r] = round.list[n]] ELSE @,
       !.to = Bind(n, r),
       !.deltas = IF write THEN @ \cup ({EnvOf[n]} \ {None}) ELSE @]
  /\ UNCHANGED <<row, conn, worldVars, history>>

UpdateNode(n) ==
  /\ round.pc = "storing" /\ n \in round.todo
  /\ \E r \in Matches(n) : Store(n, r, Changed(r, n))

CreateNode(n) ==
  /\ round.pc = "storing" /\ n \in round.todo
  /\ Matches(n) = {} /\ EnvOf[n] # None
  /\ Store(n, n, TRUE)

SkipNode(n) ==
  /\ round.pc = "storing" /\ n \in round.todo
  /\ Matches(n) = {} /\ EnvOf[n] = None
  /\ round' = [round EXCEPT !.todo = @ \ {n}]
  /\ UNCHANGED <<row, conn, worldVars, history>>

(* Mutated form: the commit comes after each machine.                      *)
CommitEach ==
  /\ round.pc = "storing"
  /\ row' = round.row /\ seen' = round.list /\ touched' = FALSE
  /\ round' = [round EXCEPT !.pc = "sending"]
  /\ UNCHANGED <<conn, worldVars>>

Commit ==
  /\ round.pc = "storing" /\ round.todo = {}
  /\ row' = round.row
  /\ conn' = [k \in Conns |-> IF round.to[k] = None THEN conn[k]
                              ELSE [conn[k] EXCEPT !.to = round.to[k]]]
  /\ seen' = round.list /\ touched' = FALSE
  /\ round' = [NoRound EXCEPT !.pc = "sending", !.deltas = round.deltas]
  /\ UNCHANGED worldVars

(* An exception before the commit ends the round; the loop starts another. *)
RoundFails ==
  /\ round.pc = "storing"
  /\ round' = NoRound
  /\ UNCHANGED <<row, conn, worldVars, history>>

(* The process dies, and its sockets with it.                              *)
Restart ==
  /\ round' = NoRound
  /\ link' = {}
  /\ UNCHANGED <<machine, up, row, conn, history>>

(* One environment after the other; those without a socket are left out.   *)
SendDelta(e) ==
  /\ round.pc = "sending" /\ e \in round.deltas
  /\ round' = [round EXCEPT !.deltas = @ \ {e}]
  /\ UNCHANGED <<row, conn, worldVars, history>>

(* The exception of a send ends the round as well.                         *)
SendFails(e) ==
  /\ round.pc = "sending" /\ e \in round.deltas \cap link
  /\ round' = NoRound
  /\ UNCHANGED <<row, conn, worldVars, history>>

EndRound ==
  /\ round.pc = "sending" /\ round.deltas = {}
  /\ round' = NoRound
  /\ UNCHANGED <<row, conn, worldVars, history>>

-----------------------------------------------------------------------------
(* Snapshots, threads and the world *)

(* A snapshot that reports a working container writes what it found at     *)
(* Headscale, but for the status, the address and the keys.                *)
Register(n) ==
  /\ round.pc # "storing" /\ up
  /\ machine[n] # "absent" /\ EnvOf[n] # None
  /\ row' = [row EXCEPT ![n] = "wiped"]
  /\ touched' = TRUE
  /\ UNCHANGED <<conn, worldVars, round, seen>>

(* One that lists a container no more deletes its machines, and the rows   *)
(* unless it is rolled back; a row that goes is bound no more.             *)
Purge(n, kept) ==
  /\ round.pc # "storing" /\ up /\ row[n] # "absent"
  /\ machine' = [machine EXCEPT ![n] = "absent"]
  /\ IF kept THEN UNCHANGED <<row, conn, touched>>
     ELSE /\ row' = [row EXCEPT ![n] = "absent"]
          /\ conn' = [k \in Conns |-> IF conn[k].to = n
                                      THEN [conn[k] EXCEPT !.to = None]
                                      ELSE conn[k]]
          /\ touched' = TRUE
  /\ UNCHANGED <<up, link, round, seen>>

NewConnection(k) ==
  /\ conn[k].at = "free"
  /\ conn' = [conn EXCEPT ![k].at = "pending"]
  /\ UNCHANGED <<row, worldVars, round, history>>

(* Confirmed or expired.                                                   *)
Settle(k) ==
  /\ conn[k].at = "pending"
  /\ conn' = [conn EXCEPT ![k].at = "settled"]
  /\ UNCHANGED <<row, worldVars, round, history>>

(* A machine joins, is removed, comes or goes.                             *)
ChangeMachine(n, s) ==
  /\ machine' = [machine EXCEPT ![n] = s]
  /\ UNCHANGED <<up, row, conn, link, round, history>>

ChangeHealth ==
  /\ up' = ~up
  /\ UNCHANGED <<machine, row, conn, link, round, history>>

ChangeLink(e) ==
  /\ link' = IF e \in link THEN link \ {e} ELSE link \cup {e}
  /\ UNCHANGED <<machine, up, row, conn, round, history>>

-----------------------------------------------------------------------------
Visit(n) == UpdateNode(n) \/ CreateNode(n) \/ SkipNode(n)
Progress ==
  \/ ListNodes \/ Commit \/ EndRound
  \/ \E n \in Nodes : Visit(n)
  \/ \E e \in Envs : SendDelta(e)

Snapshot == \E n \in Nodes : Register(n) \/ \E kept \in BOOLEAN : Purge(n, kept)

World ==
  \/ \E n \in Nodes, s \in Statuses \cup {"absent"} : ChangeMachine(n, s)
  \/ ChangeHealth
  \/ \E e \in Envs : ChangeLink(e)

Next ==
  \/ Progress \/ RoundFails \/ Restart \/ Snapshot \/ World
  \/ \E e \in Envs : SendFails(e)
  \/ \E k \in Conns : NewConnection(k) \/ Settle(k)

Spec == Init /\ [][Next]_vars

(* The loop runs on (main.py:34-44).                                       *)
FairSpec == Spec /\ WF_vars(Progress)

-----------------------------------------------------------------------------
(* Properties *)

(* A round that finds what the last one found writes no row and sends no   *)
(* event, whatever failed in between, unless a snapshot has written to the *)
(* table (test_headscale_state_sync.py:80, test_sync_no_changes_idempotency). *)
QuietWhenUnchanged ==
  [][round.pc = "storing" /\ round'.pc = "sending"
       /\ round.list = seen /\ ~touched =>
         row' = row /\ round'.deltas = {}]_vars

(* What a round makes of the row of n: a machine that is not listed keeps  *)
(* its row, and one of a user that is not known gets none.                 *)
Expected(n) ==
  IF round.list[n] = "absent" \/ (row[n] = "absent" /\ EnvOf[n] = None)
  THEN row[n] ELSE round.list[n]

(* In whatever order a round goes through its list, what it commits is     *)
(* that list and no more, and the environments that it has noted to tell   *)
(* by then are exactly those of the rows that its commit has changed, if   *)
(* no machine has joined twice.  Those noted are not all told: a send that *)
(* fails loses the rest (HeadscaleStateSyncService, environment_deltas).   *)
CommitsAreExact ==
  [][round.pc = "storing" /\ round'.pc = "sending" =>
       /\ \A n \in Nodes : row'[n] = Expected(n)
       /\ round'.deltas = {EnvOf[n] : n \in {m \in Nodes : row'[m] # row[m]}} \ {None}]_vars

(* What Headscale says of a machine of a known user for good is what the   *)
(* table says of it again and again, whatever snapshots write to it, if    *)
(* Headscale is up and rounds are no longer cut short before their commit. *)
StatusRecorded ==
  \A n \in Nodes, s \in Statuses :
    EnvOf[n] # None /\ <>[](up /\ machine[n] = s) /\ <>[][~RoundFails /\ ~Restart]_vars
      => []<>(row[n] = s)

(* A connection that is bound stays bound to the same machine as long as   *)
(* that machine has a row.                                                 *)
BindingKept ==
  [][\A k \in Conns :
       conn[k].to # None /\ conn'[k].to # conn[k].to =>
         conn'[k].to = None /\ row'[conn[k].to] = "absent"]_vars

=============================================================================
