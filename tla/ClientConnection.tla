-------------------------- MODULE ClientConnection --------------------------
(***************************************************************************)
(* The life of a client connection: POST /client/connect authorises an     *)
(* access token and creates a PENDING connection, POST /client/confirm     *)
(* makes it CONNECTED, a background loop makes overdue ones EXPIRED.       *)
(*                                                                         *)
(* The endpoints are plain functions that run in the threads of a pool, so *)
(* several are in flight at once, each in a database session of its own:   *)
(* what a session has read is kept in the actor's record, what it changes  *)
(* is visible to the others only at its commit, and an UPDATE names only   *)
(* the row's id, so it overwrites whatever was committed in between.       *)
(*                                                                         *)
(* One published container and its tokens are modelled; the rows of        *)
(* different containers never meet in this code.                           *)
(***************************************************************************)
EXTENDS Naturals, FiniteSets

CONSTANTS
  Workers,   \* the threads that serve requests
  Tokens,    \* the container's access tokens
  Conns,     \* row identities of the connections table (bounds their number)
  Keys,      \* row identities of the headscale_preauth_keys table (bound)
  ConnTTL,   \* five minutes: time a client has to confirm
  KeyTTL,    \* one hour: life of a preauth key made for a client
  MaxTime    \* bound of the clock

ASSUME TimeAssumption ==
  /\ ConnTTL \in Nat \ {0}
  /\ KeyTTL \in Nat \ {0}
  /\ MaxTime \in Nat

(* No key, no connection, no token, no worker. *)
CONSTANT None
ASSUME NoneAssumption == None \notin Workers \cup Tokens \cup Conns \cup Keys

VARIABLES
  clock,      \* the server's time
  active,     \* active[t]: the token's row says active and is not past its date
  reachable,  \* environment online, container running, node installed and online
  present,    \* the container's row, and with it its tokens' rows, exist
  conn,       \* the connections table
  keyExp,     \* the headscale_preauth_keys table: expiration, 0 for no row
  worker,     \* what each thread is doing
  overdue     \* what the cleanup loop selected and has not written yet

vars == <<clock, active, reachable, present, conn, keyExp, worker, overdue>>

Row(status, t, k, exp, w) ==
  [status |-> status, token |-> t, key |-> k, expires |-> exp, by |-> w]

(* "absent" and "deleted" stand for no row; by is a history field: the     *)
(* thread whose request inserted the row.                                  *)
Statuses == {"absent", "PENDING", "CONNECTED", "EXPIRED", "deleted"}
ConnRow == [status : Statuses, token : Tokens \cup {None},
            key : Keys \cup {None}, expires : Nat, by : Workers \cup {None}]

Request(pc, t, cs, k, exp) ==
  [pc |-> pc, token |-> t, held |-> cs, key |-> k, keyExpires |-> exp]

Idle == Request("idle", None, {}, None, 0)

(* held: the connections the thread's session loaded as PENDING and will   *)
(* overwrite at its next commit.                                           *)
WorkerState == [pc : {"idle", "listed", "keying", "keyed", "confirming"},
                token : Tokens \cup {None}, held : SUBSET Conns,
                key : Keys \cup {None}, keyExpires : Nat]

TypeOK ==
  /\ clock \in 0..MaxTime
  /\ active \in [Tokens -> BOOLEAN]
  /\ reachable \in BOOLEAN
  /\ present \in BOOLEAN
  /\ conn \in [Conns -> ConnRow]
  /\ keyExp \in [Keys -> Nat]
  /\ worker \in [Workers -> WorkerState]
  /\ \A w \in Workers : worker[w].pc = "keyed" => worker[w].key \in Keys
  /\ overdue \in SUBSET Conns

Init ==
  /\ clock = 0
  /\ active = [t \in Tokens |-> TRUE]
  /\ reachable = TRUE
  /\ present = TRUE
  /\ conn = [c \in Conns |-> Row("absent", None, None, 0, None)]
  /\ keyExp = [k \in Keys |-> 0]
  /\ worker = [w \in Workers |-> Idle]
  /\ overdue = {}

-----------------------------------------------------------------------------
(* The tables *)

Earlier(x, y) == IF x < y THEN x ELSE y

Exists(c) == conn[c].status \notin {"absent", "deleted"}
Pending(t) == {c \in Conns : conn[c].status = "PENDING" /\ conn[c].token = t}
PastDeadline(c) == conn[c].expires <= clock

(* An UPDATE that matches no row makes the session's commit fail. *)
Updatable(cs) == \A c \in cs : Exists(c)
WithStatus(cs, status) ==
  [c \in Conns |-> IF c \in cs THEN [conn[c] EXCEPT !.status = status]
                               ELSE conn[c]]

(* What the authorisation service requires of the token and of the path to *)
(* the container, checked on the rows as they are when the request loads   *)
(* them.                                                                   *)
Authorized(t) == present /\ active[t] /\ reachable

-----------------------------------------------------------------------------
(* POST /client/connect *)

(* Mutated forms: only the path to the container is checked, not the       *)
(* token's own state; earlier requests of the token are not looked for.    *)
ConnectBeginByPath(w, t) ==
  /\ worker[w].pc = "idle"
  /\ present /\ reachable
  /\ worker' = [worker EXCEPT ![w] = Request("listed", t, Pending(t), None, 0)]
  /\ UNCHANGED <<clock, active, reachable, present, conn, keyExp, overdue>>

ConnectBeginForgetting(w, t) ==
  /\ worker[w].pc = "idle"
  /\ Authorized(t)
  /\ worker' = [worker EXCEPT ![w] = Request("listed", t, {}, None, 0)]
  /\ UNCHANGED <<clock, active, reachable, present, conn, keyExp, overdue>>

(* The context is resolved and authorised, and the token's PENDING         *)
(* connections are loaded and marked EXPIRED in the session only.  A       *)
(* request that is refused changes nothing.                                *)
ConnectBegin(w, t) ==
  /\ worker[w].pc = "idle"
  /\ Authorized(t)
  /\ worker' = [worker EXCEPT ![w] = Request("listed", t, Pending(t), None, 0)]
  /\ UNCHANGED <<clock, active, reachable, present, conn, keyExp, overdue>>

(* ensure_environment_user: the first time, the environment's Headscale     *)
(* user is recorded and the session committed, EXPIRED marks and all.      *)
CreateUser(w) ==
  /\ worker[w].pc = "listed"
  /\ Updatable(worker[w].held)
  /\ conn' = WithStatus(worker[w].held, "EXPIRED")
  /\ worker' = [worker EXCEPT ![w].held = {}]
  /\ UNCHANGED <<clock, active, reachable, present, keyExp, overdue>>

(* The environment's Headscale user has been verified; the key's           *)
(* expiration is computed and the key is requested from Headscale.         *)
RequestKey(w) ==
  /\ worker[w].pc = "listed"
  /\ worker' = [worker EXCEPT ![w].pc = "keying",
                              ![w].keyExpires = clock + KeyTTL]
  /\ UNCHANGED <<clock, active, reachable, present, conn, keyExp, overdue>>

(* Headscale has answered: the key is inserted and the session committed,  *)
(* and with the key the EXPIRED marks made before the request.             *)
CommitKey(w) ==
  /\ worker[w].pc = "keying"
  /\ present
  /\ Updatable(worker[w].held)
  /\ \E k \in Keys :
       /\ keyExp[k] = 0
       /\ keyExp' = [keyExp EXCEPT ![k] = worker[w].keyExpires]
       /\ worker' = [worker EXCEPT ![w].pc = "keyed", ![w].key = k,
                                   ![w].held = {}]
  /\ conn' = WithStatus(worker[w].held, "EXPIRED")
  /\ UNCHANGED <<clock, active, reachable, present, overdue>>

(* A mutated form: the key's own expiration is ignored.                    *)
DeadlineIgnoringKey(k) == clock + ConnTTL

(* The deadline of a connection made with key k. *)
Deadline(k) == Earlier(keyExp[k], clock + ConnTTL)

(* The PENDING connection is inserted and committed; its public id and the *)
(* key go to the client.  MaxTime bounds the deadlines handed out.         *)
CommitConnection(w) ==
  /\ worker[w].pc = "keyed"
  /\ present
  /\ clock + ConnTTL <= MaxTime
  /\ \E c \in Conns :
       /\ conn[c].status = "absent"
       /\ conn' = [conn EXCEPT ![c] =
            Row("PENDING", worker[w].token, worker[w].key,
                Deadline(worker[w].key), w)]
  /\ worker' = [worker EXCEPT ![w] = Idle]
  /\ UNCHANGED <<clock, active, reachable, present, keyExp, overdue>>

(* An exception (Headscale does not answer, a row is gone, the database    *)
(* refuses) or the end of the process: the session is closed and what it   *)
(* had not committed is lost.                                              *)
Abort(w) ==
  /\ worker[w].pc # "idle"
  /\ worker' = [worker EXCEPT ![w] = Idle]
  /\ UNCHANGED <<clock, active, reachable, present, conn, keyExp, overdue>>

-----------------------------------------------------------------------------
(* POST /client/confirm *)

(* A mutated form: the deadline is left to the cleanup loop.               *)
ConfirmBeginLate(w, c) ==
  /\ worker[w].pc = "idle"
  /\ conn[c].status = "PENDING"
  /\ worker' = [worker EXCEPT ![w] = Request("confirming", None, {c}, None, 0)]
  /\ UNCHANGED <<clock, active, reachable, present, conn, keyExp, overdue>>

(* The connection is loaded and found PENDING and in time.  In every other *)
(* case the answer is given from what was read and nothing changes.        *)
ConfirmBegin(w, c) ==
  /\ worker[w].pc = "idle"
  /\ conn[c].status = "PENDING"
  /\ ~PastDeadline(c)
  /\ worker' = [worker EXCEPT ![w] = Request("confirming", None, {c}, None, 0)]
  /\ UNCHANGED <<clock, active, reachable, present, conn, keyExp, overdue>>

ConfirmCommit(w) ==
  /\ worker[w].pc = "confirming"
  /\ Updatable(worker[w].held)
  /\ conn' = WithStatus(worker[w].held, "CONNECTED")
  /\ worker' = [worker EXCEPT ![w] = Idle]
  /\ UNCHANGED <<clock, active, reachable, present, keyExp, overdue>>

-----------------------------------------------------------------------------
(* The cleanup loop: one session that selects and then writes. *)

(* A mutated form: every overdue row is selected, whatever its status.     *)
CleanupSelectAnyStatus ==
  /\ overdue = {}
  /\ overdue' = {c \in Conns : Exists(c) /\ PastDeadline(c)}
  /\ overdue' # {}
  /\ UNCHANGED <<clock, active, reachable, present, conn, keyExp, worker>>

CleanupSelect ==
  /\ overdue = {}
  /\ overdue' = {c \in Conns : conn[c].status = "PENDING" /\ PastDeadline(c)}
  /\ overdue' # {}
  /\ UNCHANGED <<clock, active, reachable, present, conn, keyExp, worker>>

(* Mutated forms: the status column is a plain string and is given a value *)
(* outside the enumeration; the session is closed without a commit.        *)
CleanupCommitOffEnum ==
  /\ overdue # {}
  /\ Updatable(overdue)
  /\ conn' = WithStatus(overdue, "TIMED_OUT")
  /\ overdue' = {}
  /\ UNCHANGED <<clock, active, reachable, present, keyExp, worker>>

CleanupCommitLost ==
  /\ overdue # {}
  /\ Updatable(overdue)
  /\ overdue' = {}
  /\ UNCHANGED <<clock, active, reachable, present, conn, keyExp, worker>>

CleanupCommit ==
  /\ overdue # {}
  /\ Updatable(overdue)
  /\ conn' = WithStatus(overdue, "EXPIRED")
  /\ overdue' = {}
  /\ UNCHANGED <<clock, active, reachable, present, keyExp, worker>>

(* The loop logs the exception and tries again at its next turn; a restart *)
(* of the process runs the cleanup anew.                                   *)
CleanupAbort ==
  /\ overdue # {}
  /\ overdue' = {}
  /\ UNCHANGED <<clock, active, reachable, present, conn, keyExp, worker>>

-----------------------------------------------------------------------------
(* What the rest of the service does to these tables *)

(* A snapshot of the agent's database switches a token on or off. *)
SyncToken(t) ==
  /\ present
  /\ active' = [active EXCEPT ![t] = ~active[t]]
  /\ UNCHANGED <<clock, reachable, present, conn, keyExp, worker, overdue>>

(* The agent's socket, a snapshot or the state sync moves the environment, *)
(* the container or its node between usable and not.                       *)
ChangeReachability ==
  /\ reachable' = ~reachable
  /\ UNCHANGED <<clock, active, present, conn, keyExp, worker, overdue>>

(* A snapshot no longer has the container: its row is deleted, and its     *)
(* tokens, connections and keys with it, in one transaction.               *)
RemoveContainer ==
  /\ present
  /\ present' = FALSE
  /\ conn' = WithStatus({c \in Conns : Exists(c)}, "deleted")
  /\ keyExp' = [k \in Keys |-> 0]
  /\ UNCHANGED <<clock, active, reachable, worker, overdue>>

Tick ==
  /\ clock < MaxTime
  /\ clock' = clock + 1
  /\ UNCHANGED <<active, reachable, present, conn, keyExp, worker, overdue>>

-----------------------------------------------------------------------------
Connect(w) ==
  \/ \E t \in Tokens : ConnectBegin(w, t)
  \/ CreateUser(w)
  \/ RequestKey(w)
  \/ CommitKey(w)
  \/ CommitConnection(w)
  \/ Abort(w)

Confirm(w) ==
  \/ \E c \in Conns : ConfirmBegin(w, c)
  \/ ConfirmCommit(w)

Cleanup == CleanupSelect \/ CleanupCommit \/ CleanupAbort

Environment ==
  \/ \E t \in Tokens : SyncToken(t)
  \/ ChangeReachability
  \/ RemoveContainer
  \/ Tick

Next ==
  \/ \E w \in Workers : Connect(w) \/ Confirm(w)
  \/ Cleanup
  \/ Environment

Spec == Init /\ [][Next]_vars

(* The cleanup loop comes round every 180 seconds for as long as the       *)
(* process lives and catches every exception, and time passes.  That some  *)
(* turn's commit succeeds is strong fairness: a turn whose commit fails    *)
(* has to select again.                                                    *)
FairSpec ==
  /\ Spec
  /\ WF_vars(Tick)
  /\ WF_vars(CleanupSelect)
  /\ SF_vars(CleanupCommit)

-----------------------------------------------------------------------------
(* Properties *)

(* Two PENDING connections of a token were never made by the same thread:  *)
(* each new request expires what the thread's own earlier requests left,   *)
(* so however requests interleave a token has at most one connection to    *)
(* confirm per thread of the pool.                                         *)
OnePendingPerWorker ==
  \A c, d \in Conns :
    /\ c # d
    /\ conn[c].status = "PENDING" /\ conn[d].status = "PENDING"
    /\ conn[c].token = conn[d].token
    => conn[c].by # conn[d].by

(* What connection_provision_service and docs/ANALISE_TECNICA say of       *)
(* PENDING: a new request for a token invalidates the token's earlier      *)
(* PENDING connections, so there is never more than one.  This holds for   *)
(* one thread; two do not see each other's.                                *)
AtMostOnePending ==
  \A t \in Tokens : \A c, d \in Pending(t) : c = d

(* Every connection carries a brand new key: no two clients are ever       *)
(* handed the same single-use key.                                         *)
KeysNotShared ==
  \A c, d \in Conns : c # d /\ Exists(c) /\ Exists(d)
                      => conn[c].key # conn[d].key

(* A client is never given a deadline that its key does not live to see,   *)
(* however long Headscale took between the two computations.               *)
DeadlineWithinKey ==
  \A c \in Conns : Exists(c) => conn[c].expires <= keyExp[conn[c].key]

(* The sessions that read c as PENDING and may still write it.             *)
Unsettled(c) == c \in overdue \/ \E w \in Workers : c \in worker[w].held

Settled(c) == conn[c].status \in {"CONNECTED", "EXPIRED"} /\ ~Unsettled(c)

(* A connection that has left PENDING changes status again only by a       *)
(* session that was already in flight when it left: with none, its status  *)
(* is final, and no later session takes it up again.                       *)
SettledIsFinal ==
  [][\A c \in Conns : Settled(c) =>
       \/ conn'[c].status = "deleted"
       \/ conn'[c].status = conn[c].status /\ Settled(c)']_vars

(* The requests in flight on behalf of token t.                            *)
InFlight(t) == \E w \in Workers : worker[w].token = t

(* Once the requests that were in flight when a token was switched off, or *)
(* its container became unreachable, are done, and for as long as it stays *)
(* so, no request of the token gets anywhere and no connection appears.    *)
RefusedTokenStaysQuiet ==
  [][\A t \in Tokens : ~Authorized(t) /\ ~InFlight(t) =>
       /\ ~InFlight(t)'
       /\ \A c \in Conns : conn'[c].token = t => conn[c].token = t]_vars

(* The verdicts that sessions which have read c are about to write.        *)
Verdicts(c) ==
  {v \in {"CONNECTED", "EXPIRED"} :
     \/ v = "EXPIRED" /\ c \in overdue
     \/ \E w \in Workers :
          /\ c \in worker[w].held
          /\ v = IF worker[w].pc = "confirming" THEN "CONNECTED" ELSE "EXPIRED"}

Life == INSTANCE ConnectionLifecycle WITH
  now <- clock,
  asking <- {t \in Tokens : InFlight(t)},
  state <- [c \in Conns |-> conn[c].status],
  token <- [c \in Conns |-> conn[c].token],
  due <- [c \in Conns |-> conn[c].expires],
  verdicts <- [c \in Conns |-> Verdicts(c)]

(* A connection becomes CONNECTED only by a confirmation that found it     *)
(* PENDING and in time, and EXPIRED only by its deadline or by another     *)
(* request of its token, whichever sessions overwrite each other.          *)
LivesByTheRules == Life!Spec

(* No connection waits for its client for ever: confirmed, expired or      *)
(* deleted with its container, it leaves PENDING.                          *)
PendingResolved ==
  \A c \in Conns : conn[c].status = "PENDING" ~> conn[c].status # "PENDING"

=============================================================================
