----------------------- MODULE ClientConnectionProofs -----------------------
(***************************************************************************)
(* Machine-checked proofs about ClientConnection, for any number of        *)
(* threads, tokens, connections and keys and any lives of keys and         *)
(* deadlines.                                                              *)
(***************************************************************************)
EXTENDS ClientConnection, TLAPS

(***************************************************************************)
(* Types                                                                   *)
(***************************************************************************)

(* The types of the threads' records survive replacing one by a record     *)
(* that has a key if it is keyed.                                          *)
WorkersOK(ws) ==
  /\ ws \in [Workers -> WorkerState]
  /\ \A w \in Workers : ws[w].pc = "keyed" => ws[w].key \in Keys

LEMMA ReplaceWorker ==
  ASSUME WorkersOK(worker), NEW w \in Workers, NEW r \in WorkerState,
         r.pc = "keyed" => r.key \in Keys,
         worker' = [worker EXCEPT ![w] = r]
  PROVE  WorkersOK(worker')
  BY DEF WorkersOK

LEMMA IdleType == Idle \in WorkerState /\ Idle.pc = "idle"
  BY DEF Idle, Request, WorkerState

(* The rows an UPDATE of the status leaves are of their type.              *)
LEMMA WithStatusType ==
  ASSUME conn \in [Conns -> ConnRow], NEW cs, NEW status \in Statuses
  PROVE  WithStatus(cs, status) \in [Conns -> ConnRow]
  BY DEF WithStatus, ConnRow

(* The variables are always of their types, and a thread that is about to  *)
(* insert a connection has a key to give to its client.                    *)
THEOREM TypeCorrect == Spec => []TypeOK
<1>1. Init => TypeOK
  BY TimeAssumption DEF Init, TypeOK, ConnRow, Row, Statuses, WorkerState,
     Idle, Request
<1>2. TypeOK /\ [Next]_vars => TypeOK'
  <2> SUFFICES ASSUME TypeOK, [Next]_vars PROVE TypeOK'
    OBVIOUS
  <2>0. WorkersOK(worker)
    BY DEF TypeOK, WorkersOK
  <2> SUFFICES /\ clock' \in 0..MaxTime
               /\ active' \in [Tokens -> BOOLEAN]
               /\ reachable' \in BOOLEAN
               /\ present' \in BOOLEAN
               /\ conn' \in [Conns -> ConnRow]
               /\ keyExp' \in [Keys -> Nat]
               /\ WorkersOK(worker')
               /\ overdue' \in SUBSET Conns
    BY DEF TypeOK, WorkersOK
  <2>1. ASSUME NEW w \in Workers, NEW t \in Tokens, ConnectBegin(w, t)
        PROVE  WorkersOK(worker')
    <3> DEFINE r == Request("listed", t, Pending(t), None, 0)
    <3>1. r \in WorkerState /\ r.pc # "keyed"
      BY DEF Request, WorkerState, Pending
    <3>2. worker' = [worker EXCEPT ![w] = r]
      BY <2>1 DEF ConnectBegin
    <3> HIDE DEF r
    <3>3. QED
      BY <2>0, <3>1, <3>2, ReplaceWorker
  <2>2. ASSUME NEW w \in Workers, RequestKey(w)
        PROVE  WorkersOK(worker')
    <3>1. clock + KeyTTL \in Nat /\ worker[w] \in WorkerState
      BY TimeAssumption DEF TypeOK
    <3> DEFINE r == [worker[w] EXCEPT !.pc = "keying",
                                      !.keyExpires = clock + KeyTTL]
    <3>2. r \in WorkerState /\ r.pc # "keyed"
      BY <3>1 DEF WorkerState
    <3>3. worker' = [worker EXCEPT ![w] = r]
      BY <2>2 DEF RequestKey
    <3> HIDE DEF r
    <3>4. QED
      BY <2>0, <3>2, <3>3, ReplaceWorker
  <2>3. ASSUME NEW w \in Workers, CommitKey(w)
        PROVE  WorkersOK(worker') /\ keyExp' \in [Keys -> Nat]
    <3>1. PICK k \in Keys :
            /\ keyExp' = [keyExp EXCEPT ![k] = worker[w].keyExpires]
            /\ worker' = [worker EXCEPT ![w].pc = "keyed", ![w].key = k,
                                        ![w].held = {}]
      BY <2>3 DEF CommitKey
    <3>2. worker[w] \in WorkerState
      BY DEF TypeOK
    <3> DEFINE r == [worker[w] EXCEPT !.pc = "keyed", !.key = k, !.held = {}]
    <3>3. r \in WorkerState /\ r.key \in Keys
      BY <3>2 DEF WorkerState
    <3>4. worker' = [worker EXCEPT ![w] = r]
      BY <3>1
    <3>5. keyExp' \in [Keys -> Nat]
      BY <3>1, <3>2 DEF WorkerState, TypeOK
    <3> HIDE DEF r
    <3>6. QED
      BY <2>0, <3>3, <3>4, <3>5, ReplaceWorker
  <2>4. ASSUME NEW w \in Workers, CommitConnection(w)
        PROVE  conn' \in [Conns -> ConnRow]
    <3>1. PICK c \in Conns :
            conn' = [conn EXCEPT ![c] =
                       Row("PENDING", worker[w].token, worker[w].key,
                           Deadline(worker[w].key), w)]
      BY <2>4 DEF CommitConnection
    <3>2. worker[w] \in WorkerState /\ worker[w].key \in Keys
      BY <2>4 DEF CommitConnection, TypeOK
    <3>3. Deadline(worker[w].key) \in Nat
      BY <3>2, TimeAssumption DEF Deadline, Earlier, TypeOK
    <3>4. Row("PENDING", worker[w].token, worker[w].key,
              Deadline(worker[w].key), w) \in ConnRow
      BY <3>2, <3>3 DEF Row, ConnRow, Statuses, WorkerState
    <3>5. QED
      BY <3>1, <3>4 DEF TypeOK
  <2>5. ASSUME NEW w \in Workers, worker' = [worker EXCEPT ![w] = Idle]
        PROVE  WorkersOK(worker')
    BY <2>0, <2>5, IdleType, ReplaceWorker
  <2>6. ASSUME NEW w \in Workers, NEW c \in Conns, ConfirmBegin(w, c)
        PROVE  WorkersOK(worker')
    <3> DEFINE r == Request("confirming", None, {c}, None, 0)
    <3>1. r \in WorkerState /\ r.pc # "keyed"
      BY DEF Request, WorkerState
    <3>2. worker' = [worker EXCEPT ![w] = r]
      BY <2>6 DEF ConfirmBegin
    <3> HIDE DEF r
    <3>3. QED
      BY <2>0, <3>1, <3>2, ReplaceWorker
  <2>6a. ASSUME NEW w \in Workers, CreateUser(w)
        PROVE  WorkersOK(worker')
    <3> DEFINE r == [worker[w] EXCEPT !.held = {}]
    <3>1. worker[w] \in WorkerState /\ worker[w].pc = "listed"
      BY <2>6a DEF CreateUser, TypeOK
    <3>2. r \in WorkerState /\ r.pc # "keyed"
      BY <3>1 DEF WorkerState
    <3>3. worker' = [worker EXCEPT ![w] = r]
      BY <2>6a DEF CreateUser
    <3> HIDE DEF r
    <3>4. QED
      BY <2>0, <3>2, <3>3, ReplaceWorker
  <2>7. ASSUME NEW cs, NEW status \in {"CONNECTED", "EXPIRED", "deleted"},
               conn' = WithStatus(cs, status)
        PROVE  conn' \in [Conns -> ConnRow]
    BY <2>7, WithStatusType DEF TypeOK, Statuses
  <2>8. ASSUME NEW w \in Workers, Connect(w) \/ Confirm(w)
        PROVE  TypeOK'
    <3>1. CASE \E t \in Tokens : ConnectBegin(w, t)
      BY <3>1, <2>1 DEF ConnectBegin, TypeOK, WorkersOK
    <3>2. CASE RequestKey(w)
      BY <3>2, <2>2 DEF RequestKey, TypeOK, WorkersOK
    <3>3. CASE CommitKey(w)
      BY <3>3, <2>3, <2>7 DEF CommitKey, TypeOK, WorkersOK
    <3>4. CASE CommitConnection(w)
      BY <3>4, <2>4, <2>5 DEF CommitConnection, TypeOK, WorkersOK
    <3>5. CASE Abort(w)
      BY <3>5, <2>5 DEF Abort, TypeOK, WorkersOK
    <3>6. CASE \E c \in Conns : ConfirmBegin(w, c)
      BY <3>6, <2>6 DEF ConfirmBegin, TypeOK, WorkersOK
    <3>7. CASE ConfirmCommit(w)
      BY <3>7, <2>5, <2>7 DEF ConfirmCommit, TypeOK, WorkersOK
    <3>8. CASE CreateUser(w)
      BY <3>8, <2>6a, <2>7 DEF CreateUser, TypeOK, WorkersOK
    <3>9. QED
      BY <2>8, <3>1, <3>2, <3>3, <3>4, <3>5, <3>6, <3>7, <3>8
         DEF Connect, Confirm
  <2>9. CASE Cleanup
    <3>1. CASE CleanupSelect
      BY <2>0, <3>1 DEF CleanupSelect, TypeOK, WorkersOK
    <3>2. CASE CleanupCommit
      BY <2>0, <3>2, <2>7 DEF CleanupCommit, TypeOK, WorkersOK
    <3>3. CASE CleanupAbort
      BY <2>0, <3>3 DEF CleanupAbort, TypeOK, WorkersOK
    <3>4. QED
      BY <2>9, <3>1, <3>2, <3>3 DEF Cleanup
  <2>10. CASE Environment
    <3>1. ASSUME NEW t \in Tokens, SyncToken(t)
          PROVE  TypeOK'
      BY <3>1 DEF SyncToken, TypeOK
    <3>2. CASE ChangeReachability
      BY <3>2 DEF ChangeReachability, TypeOK, WorkersOK
    <3>3. CASE RemoveContainer
      BY <3>3, <2>7 DEF RemoveContainer, TypeOK, WorkersOK
    <3>4. CASE Tick
      BY <3>4, TimeAssumption DEF Tick, TypeOK, WorkersOK
    <3>5. QED
      BY <2>10, <3>1, <3>2, <3>3, <3>4 DEF Environment, TypeOK, WorkersOK
  <2>11. CASE UNCHANGED vars
    BY <2>0, <2>11 DEF vars, TypeOK, WorkersOK
  <2>12. QED
    BY <2>8, <2>9, <2>10, <2>11 DEF Next, TypeOK, WorkersOK
<1>3. QED
  BY <1>1, <1>2, PTL DEF Spec

(***************************************************************************)
(* The inductive invariants                                                *)
(***************************************************************************)

IsPending(c) == conn[c].status = "PENDING"

(* Before its commit a request holds every PENDING connection that its own *)
(* thread made for the token; after it there is none, so that the one it   *)
(* inserts is alone.                                                       *)
PendingInv ==
  /\ \A c \in Conns : IsPending(c) => conn[c].by \in Workers
  /\ OnePendingPerWorker
  /\ \A w \in Workers, c \in Conns :
       /\ worker[w].pc \in {"listed", "keying"}
       /\ IsPending(c) /\ conn[c].token = worker[w].token /\ conn[c].by = w
       => c \in worker[w].held
  /\ \A w \in Workers, c \in Conns :
       /\ worker[w].pc = "keyed"
       /\ IsPending(c) /\ conn[c].token = worker[w].token
       => conn[c].by # w

(* A key in the hands of a thread is in the table, is on no connection and *)
(* in no other thread's hands.                                             *)
KeyInv ==
  /\ \A c \in Conns : Exists(c) =>
       /\ present
       /\ conn[c].key \in Keys
       /\ keyExp[conn[c].key] > 0
       /\ conn[c].expires <= keyExp[conn[c].key]
  /\ KeysNotShared
  /\ \A w \in Workers : worker[w].pc = "keying" => worker[w].keyExpires > 0
  /\ present => \A w \in Workers : worker[w].pc = "keyed" =>
       /\ keyExp[worker[w].key] > 0
       /\ \A c \in Conns : Exists(c) => conn[c].key # worker[w].key
       /\ \A v \in Workers : v # w /\ worker[v].pc = "keyed"
                            => worker[v].key # worker[w].key

(***************************************************************************)
(* Steps that insert no connection                                         *)
(***************************************************************************)

(* The row keeps all but its status, and is not revived.                   *)
Kept(c) ==
  /\ conn'[c].token = conn[c].token
  /\ conn'[c].key = conn[c].key
  /\ conn'[c].expires = conn[c].expires
  /\ conn'[c].by = conn[c].by
  /\ Exists(c)' => Exists(c)
  /\ IsPending(c)' => IsPending(c)

LEMMA WithStatusKeeps ==
  ASSUME TypeOK, NEW cs, NEW status \in {"CONNECTED", "EXPIRED", "deleted"},
         status = "deleted" \/ Updatable(cs),
         conn' = WithStatus(cs, status),
         NEW c \in Conns
  PROVE  Kept(c)
<1>1. CASE c \in cs
  <2>1. conn'[c] = [conn[c] EXCEPT !.status = status]
    BY <1>1 DEF WithStatus
  <2>2. conn[c] \in ConnRow
    BY DEF TypeOK
  <2>3. status = "deleted" \/ Exists(c)
    BY <1>1 DEF Updatable
  <2>4. QED
    BY <2>1, <2>2, <2>3 DEF Kept, Exists, IsPending, ConnRow
<1>2. CASE c \notin cs
  BY <1>2 DEF WithStatus, Kept, Exists, IsPending
<1>3. QED
  BY <1>1, <1>2

LEMMA UnchangedKeeps ==
  ASSUME UNCHANGED conn, NEW c \in Conns
  PROVE  Kept(c)
  BY DEF Kept, Exists, IsPending

(* Every step but the insertion of a connection keeps the rows.            *)
LEMMA OtherStepsKeep ==
  ASSUME TypeOK, [Next]_vars, ~ \E w \in Workers : CommitConnection(w),
         NEW c \in Conns
  PROVE  Kept(c)
<1> USE WithStatusKeeps, UnchangedKeeps
<1>1. CASE \E w \in Workers : Connect(w) \/ Confirm(w)
  BY <1>1 DEF Connect, Confirm, ConnectBegin, CreateUser, RequestKey,
     CommitKey, Abort, ConfirmBegin, ConfirmCommit
<1>2. CASE Cleanup
  BY <1>2 DEF Cleanup, CleanupSelect, CleanupCommit, CleanupAbort
<1>3. CASE Environment
  BY <1>3 DEF Environment, SyncToken, ChangeReachability, RemoveContainer,
     Tick
<1>4. CASE UNCHANGED vars
  BY <1>4 DEF vars
<1>5. QED
  BY <1>1, <1>2, <1>3, <1>4 DEF Next

(* The rows after the insertion of a connection by w.                      *)
LEMMA Insertion ==
  ASSUME TypeOK, NEW w \in Workers, CommitConnection(w)
  PROVE  \E c \in Conns :
           /\ ~Exists(c) /\ ~IsPending(c)
           /\ conn'[c].status = "PENDING"
           /\ conn'[c].token = worker[w].token
           /\ conn'[c].key = worker[w].key
           /\ conn'[c].expires = Deadline(worker[w].key)
           /\ conn'[c].by = w
           /\ \A d \in Conns : d # c => conn'[d] = conn[d]
<1>1. PICK c \in Conns :
        /\ conn[c].status = "absent"
        /\ conn' = [conn EXCEPT ![c] =
                      Row("PENDING", worker[w].token, worker[w].key,
                          Deadline(worker[w].key), w)]
  BY DEF CommitConnection
<1>2. conn'[c] = Row("PENDING", worker[w].token, worker[w].key,
                     Deadline(worker[w].key), w)
  BY <1>1 DEF TypeOK
<1>3. \A d \in Conns : d # c => conn'[d] = conn[d]
  BY <1>1 DEF TypeOK
<1>4. QED
  BY <1>1, <1>2, <1>3 DEF Row, Exists, IsPending

(***************************************************************************)
(* One PENDING connection for a token and a thread                         *)
(***************************************************************************)

(* The invariant survives a step after which the threads still in a        *)
(* request hold all they held.                                             *)
LEMMA PendingKept ==
  ASSUME PendingInv, \A c \in Conns : Kept(c),
         \A w \in Workers : \/ worker'[w] = worker[w]
                            \/ worker'[w].pc \in {"idle", "confirming"}
  PROVE  PendingInv'
  BY DEF PendingInv, OnePendingPerWorker, IsPending, Kept

LEMMA PendingStep == TypeOK /\ PendingInv /\ [Next]_vars => PendingInv'
<1> SUFFICES ASSUME TypeOK, PendingInv, [Next]_vars PROVE PendingInv'
  OBVIOUS
<1>1. worker \in [Workers -> WorkerState] /\ conn \in [Conns -> ConnRow]
  BY DEF TypeOK
<1>2. ASSUME NEW w \in Workers, CommitConnection(w)
      PROVE  PendingInv'
  <2>1. PICK c \in Conns :
           /\ ~Exists(c) /\ ~IsPending(c)
           /\ conn'[c].status = "PENDING"
           /\ conn'[c].token = worker[w].token
           /\ conn'[c].key = worker[w].key
           /\ conn'[c].expires = Deadline(worker[w].key)
           /\ conn'[c].by = w
           /\ \A d \in Conns : d # c => conn'[d] = conn[d]
    BY <1>2, Insertion
  <2>2. /\ worker[w].pc = "keyed"
        /\ worker'[w].pc = "idle"
        /\ \A v \in Workers : v # w => worker'[v] = worker[v]
    BY <1>1, <1>2 DEF CommitConnection, Idle, Request
  <2>3. \A d \in Conns : d # c /\ IsPending(d)
           /\ conn[d].token = worker[w].token => conn[d].by # w
    BY <2>2 DEF PendingInv
  <2>4. OnePendingPerWorker'
    BY <2>1, <2>3 DEF PendingInv, OnePendingPerWorker, IsPending
  <2>5. QED
    BY <2>1, <2>2, <2>4 DEF PendingInv, IsPending
<1>3. CASE ~ \E w \in Workers : CommitConnection(w)
  <2>1. \A c \in Conns : Kept(c)
    BY <1>3, OtherStepsKeep
  <2>2. ASSUME NEW w \in Workers, NEW t \in Tokens, ConnectBegin(w, t)
        PROVE  PendingInv'
    <3>1. /\ worker'[w].token = t /\ worker'[w].held = Pending(t)
          /\ worker'[w].pc = "listed"
          /\ \A v \in Workers : v # w => worker'[v] = worker[v]
          /\ conn' = conn
      BY <1>1, <2>2 DEF ConnectBegin, Request
    <3>2. QED
      BY <3>1 DEF PendingInv, OnePendingPerWorker, IsPending, Pending
  <2>3. ASSUME NEW w \in Workers, RequestKey(w)
        PROVE  PendingInv'
    <3>1. /\ worker[w].pc = "listed" /\ worker'[w].pc = "keying"
          /\ worker'[w].token = worker[w].token
          /\ worker'[w].held = worker[w].held
          /\ \A v \in Workers : v # w => worker'[v] = worker[v]
          /\ conn' = conn
      BY <1>1, <2>3 DEF RequestKey, WorkerState
    <3>2. QED
      BY <3>1 DEF PendingInv, OnePendingPerWorker, IsPending
  <2>4. ASSUME NEW w \in Workers, CommitKey(w)
        PROVE  PendingInv'
    <3>1. /\ worker[w].pc = "keying" /\ worker'[w].pc = "keyed"
          /\ worker'[w].token = worker[w].token
          /\ \A v \in Workers : v # w => worker'[v] = worker[v]
          /\ conn' = WithStatus(worker[w].held, "EXPIRED")
      BY <1>1, <2>4 DEF CommitKey, WorkerState
    <3>2. \A c \in Conns : c \in worker[w].held => ~IsPending(c)'
      BY <1>1, <3>1 DEF WithStatus, IsPending, ConnRow
    <3>3. QED
      BY <2>1, <3>1, <3>2 DEF PendingInv, OnePendingPerWorker, IsPending, Kept
  <2>4a. ASSUME NEW w \in Workers, CreateUser(w)
         PROVE  PendingInv'
    <3>1. /\ worker[w].pc = "listed" /\ worker'[w].pc = "listed"
          /\ worker'[w].token = worker[w].token
          /\ \A v \in Workers : v # w => worker'[v] = worker[v]
          /\ conn' = WithStatus(worker[w].held, "EXPIRED")
      BY <1>1, <2>4a DEF CreateUser, WorkerState
    <3>2. \A c \in Conns : c \in worker[w].held => ~IsPending(c)'
      BY <1>1, <3>1 DEF WithStatus, IsPending, ConnRow
    <3>3. QED
      BY <2>1, <3>1, <3>2 DEF PendingInv, OnePendingPerWorker, IsPending, Kept
  <2>5. CASE \A w \in Workers : \/ worker'[w] = worker[w]
                                \/ worker'[w].pc \in {"idle", "confirming"}
    BY <2>1, <2>5, PendingKept
  <2>6. CASE \E w \in Workers : Connect(w) \/ Confirm(w)
    <3>1. ASSUME NEW w \in Workers,
                 Abort(w) \/ Confirm(w)
          PROVE  PendingInv'
      <4>1. /\ worker'[w].pc \in {"idle", "confirming"}
            /\ \A v \in Workers : v # w => worker'[v] = worker[v]
        BY <1>1, <3>1 DEF Abort, Confirm, ConfirmBegin, ConfirmCommit, Idle,
           Request
      <4>2. QED
        BY <4>1, <2>5
    <3>2. QED
      BY <1>3, <2>2, <2>3, <2>4, <2>4a, <2>6, <3>1 DEF Connect
  <2>7. CASE Cleanup \/ Environment \/ UNCHANGED vars
    <3>1. worker' = worker
      BY <2>7 DEF Cleanup, CleanupSelect, CleanupCommit, CleanupAbort,
         Environment, SyncToken, ChangeReachability, RemoveContainer, Tick,
         vars
    <3>2. QED
      BY <2>5, <3>1
  <2>8. QED
    BY <2>6, <2>7 DEF Next
<1>4. QED
  BY <1>2, <1>3

LEMMA PendingInvariant == Spec => []PendingInv
<1>1. Init => PendingInv
  BY DEF Init, PendingInv, OnePendingPerWorker, IsPending, Row, Idle, Request
<1>2. QED
  BY <1>1, PendingStep, TypeCorrect, PTL DEF Spec

(* However requests interleave, a token never has two PENDING connections  *)
(* made by the same thread.                                                *)
THEOREM OnePendingForEachWorker == Spec => []OnePendingPerWorker
<1>1. PendingInv => OnePendingPerWorker
  BY DEF PendingInv
<1>2. QED
  BY <1>1, PendingInvariant, PTL

(* If requests are served one at a time, the documentation's "the earlier  *)
(* connection is invalidated" holds: a token has at most one PENDING       *)
(* connection.                                                             *)
THEOREM OneWorkerOnePending ==
  ASSUME \A v, w \in Workers : v = w
  PROVE  Spec => []AtMostOnePending
<1>1. PendingInv => AtMostOnePending
  BY DEF PendingInv, OnePendingPerWorker, AtMostOnePending, Pending, IsPending
<1>2. QED
  BY <1>1, PendingInvariant, PTL

(***************************************************************************)
(* Keys and deadlines                                                      *)
(***************************************************************************)

(* The invariant survives a step that leaves the keys alone and after      *)
(* which no thread asks for, or holds, a key it did not before.            *)
LEMMA KeyKept ==
  ASSUME TypeOK, KeyInv, \A c \in Conns : Kept(c), present' = present,
         keyExp' = keyExp,
         \A w \in Workers : \/ worker'[w] = worker[w]
                            \/ worker'[w].pc \notin {"keying", "keyed"}
  PROVE  KeyInv'
  BY DEF KeyInv, KeysNotShared, Kept

LEMMA KeyStep == TypeOK /\ KeyInv /\ [Next]_vars => KeyInv'
<1> SUFFICES ASSUME TypeOK, KeyInv, [Next]_vars PROVE KeyInv'
  OBVIOUS
<1>1. /\ worker \in [Workers -> WorkerState]
      /\ conn \in [Conns -> ConnRow]
      /\ keyExp \in [Keys -> Nat]
      /\ \A w \in Workers : worker[w].pc = "keyed" => worker[w].key \in Keys
  BY DEF TypeOK
<1>2. ASSUME NEW w \in Workers, CommitConnection(w)
      PROVE  KeyInv'
  <2>1. PICK c \in Conns :
           /\ ~Exists(c) /\ ~IsPending(c)
           /\ conn'[c].status = "PENDING"
           /\ conn'[c].token = worker[w].token
           /\ conn'[c].key = worker[w].key
           /\ conn'[c].expires = Deadline(worker[w].key)
           /\ conn'[c].by = w
           /\ \A d \in Conns : d # c => conn'[d] = conn[d]
    BY <1>2, Insertion
  <2>2. /\ worker[w].pc = "keyed"
        /\ worker'[w].pc = "idle"
        /\ \A v \in Workers : v # w => worker'[v] = worker[v]
        /\ present /\ present' /\ keyExp' = keyExp
    BY <1>1, <1>2 DEF CommitConnection, Idle, Request
  <2>3. /\ worker[w].key \in Keys
        /\ keyExp[worker[w].key] > 0
        /\ \A d \in Conns : Exists(d) => conn[d].key # worker[w].key
        /\ \A v \in Workers : v # w /\ worker[v].pc = "keyed"
                             => worker[v].key # worker[w].key
    BY <1>1, <2>2 DEF KeyInv
  <2>4. conn'[c].expires <= keyExp[worker[w].key]
    BY <1>1, <2>1, <2>3, TimeAssumption DEF Deadline, Earlier, TypeOK
  <2>5. /\ \A d \in Conns : Exists(d)' => d = c \/ Exists(d)
        /\ KeysNotShared'
    BY <2>1, <2>3 DEF KeyInv, KeysNotShared, Exists
  <2>6. \A d \in Conns : Exists(d)' =>
          /\ conn'[d].key \in Keys
          /\ keyExp[conn'[d].key] > 0
          /\ conn'[d].expires <= keyExp[conn'[d].key]
    BY <2>1, <2>3, <2>4, <2>5 DEF KeyInv
  <2>7. \A v \in Workers : worker'[v].pc = "keyed" =>
          /\ worker[v].pc = "keyed" /\ v # w /\ worker'[v] = worker[v]
          /\ \A d \in Conns : Exists(d)' => conn'[d].key # worker[v].key
    BY <2>1, <2>2, <2>3, <2>5 DEF KeyInv
  <2>8. QED
    BY <2>2, <2>5, <2>6, <2>7 DEF KeyInv
<1>3. CASE ~ \E w \in Workers : CommitConnection(w)
  <2>1. \A c \in Conns : Kept(c)
    BY <1>3, OtherStepsKeep
  <2>2. ASSUME NEW w \in Workers, RequestKey(w)
        PROVE  KeyInv'
    <3>1. clock + KeyTTL > 0
      BY TimeAssumption DEF TypeOK
    <3>2. /\ worker'[w].pc = "keying"
          /\ worker'[w].keyExpires = clock + KeyTTL
          /\ \A v \in Workers : v # w => worker'[v] = worker[v]
          /\ UNCHANGED <<conn, keyExp, present>>
      BY <1>1, <2>2 DEF RequestKey, WorkerState
    <3>3. QED
      BY <3>1, <3>2 DEF KeyInv, KeysNotShared, Exists
  <2>3. ASSUME NEW w \in Workers, CommitKey(w)
        PROVE  KeyInv'
    <3>1. PICK k \in Keys :
            /\ keyExp[k] = 0
            /\ keyExp' = [keyExp EXCEPT ![k] = worker[w].keyExpires]
            /\ worker' = [worker EXCEPT ![w].pc = "keyed", ![w].key = k,
                                        ![w].held = {}]
      BY <2>3 DEF CommitKey
    <3>2. /\ worker'[w].pc = "keyed" /\ worker'[w].key = k
          /\ \A v \in Workers : v # w => worker'[v] = worker[v]
      BY <1>1, <3>1 DEF WorkerState
    <3>3. worker[w].keyExpires > 0 /\ present /\ present' = present
      BY <2>3 DEF CommitKey, KeyInv
    <3>4. keyExp'[k] > 0 /\ \A j \in Keys : j # k => keyExp'[j] = keyExp[j]
      BY <1>1, <3>1, <3>3
    <3>5. \A c \in Conns : Exists(c) => conn[c].key # k
      BY <3>1 DEF KeyInv
    <3>6. \A v \in Workers : worker[v].pc = "keyed" => worker[v].key # k
      BY <3>1, <3>3 DEF KeyInv
    <3>7. KeysNotShared'
      BY <2>1 DEF KeyInv, KeysNotShared, Kept
    <3>8. \A c \in Conns : Exists(c)' =>
            /\ conn'[c].key \in Keys
            /\ conn'[c].key # k
            /\ keyExp'[conn'[c].key] > 0
            /\ conn'[c].expires <= keyExp'[conn'[c].key]
      BY <2>1, <3>4, <3>5 DEF KeyInv, Kept
    <3>9. \A v \in Workers : v # w /\ worker'[v].pc = "keyed" =>
            /\ worker'[v].key # k
            /\ keyExp'[worker'[v].key] > 0
            /\ \A c \in Conns : Exists(c)' => conn'[c].key # worker'[v].key
            /\ \A u \in Workers : u # v /\ worker'[u].pc = "keyed"
                                 => worker'[u].key # worker'[v].key
      BY <1>1, <2>1, <3>2, <3>3, <3>4, <3>6 DEF KeyInv, Kept
    <3>10. QED
      BY <3>2, <3>3, <3>4, <3>6, <3>7, <3>8, <3>9 DEF KeyInv
  <2>4. CASE RemoveContainer
    <3>1. \A c \in Conns : ~Exists(c)'
      BY <1>1, <2>4 DEF RemoveContainer, WithStatus, Exists, ConnRow
    <3>2. worker' = worker /\ ~present'
      BY <2>4 DEF RemoveContainer
    <3>3. QED
      BY <3>1, <3>2 DEF KeyInv, KeysNotShared
  <2>5. CASE /\ \A w \in Workers : \/ worker'[w] = worker[w]
                                   \/ worker'[w].pc \notin {"keying", "keyed"}
             /\ UNCHANGED <<present, keyExp>>
    BY <2>1, <2>5, KeyKept
  <2>6. ASSUME NEW w \in Workers,
               \/ \E t \in Tokens : ConnectBegin(w, t)
               \/ CreateUser(w) \/ Abort(w) \/ Confirm(w)
        PROVE  KeyInv'
    <3>1. /\ worker'[w].pc \notin {"keying", "keyed"}
          /\ \A v \in Workers : v # w => worker'[v] = worker[v]
          /\ UNCHANGED <<present, keyExp>>
      BY <1>1, <2>6 DEF ConnectBegin, CreateUser, Abort, Confirm,
         ConfirmBegin, ConfirmCommit, WorkerState, Idle, Request
    <3>2. QED
      BY <3>1, <2>5
  <2>7. CASE Cleanup \/ (Environment /\ ~RemoveContainer) \/ UNCHANGED vars
    <3>1. UNCHANGED <<worker, present, keyExp>>
      BY <2>7 DEF Cleanup, CleanupSelect, CleanupCommit, CleanupAbort,
         Environment, SyncToken, ChangeReachability, Tick, vars
    <3>2. QED
      BY <2>5, <3>1
  <2>8. QED
    BY <1>3, <2>2, <2>3, <2>4, <2>6, <2>7 DEF Next, Connect
<1>4. QED
  BY <1>2, <1>3

LEMMA KeyInvariant == Spec => []KeyInv
<1>1. Init => KeyInv
  BY DEF Init, KeyInv, KeysNotShared, Exists, Row, Idle, Request
<1>2. QED
  BY <1>1, KeyStep, TypeCorrect, PTL DEF Spec

(* No two clients are ever handed the same key.                            *)
THEOREM KeysAreNotShared == Spec => []KeysNotShared
<1>1. KeyInv => KeysNotShared
  BY DEF KeyInv
<1>2. QED
  BY <1>1, KeyInvariant, PTL

(* A client's key lives at least until the client's deadline.              *)
THEOREM KeyOutlivesDeadline == Spec => []DeadlineWithinKey
<1>1. KeyInv => DeadlineWithinKey
  BY DEF KeyInv, DeadlineWithinKey
<1>2. QED
  BY <1>1, KeyInvariant, PTL

(***************************************************************************)
(* What a step may not do                                                  *)
(***************************************************************************)

(* What the sessions of the next state hold they held before, or have just *)
(* read as PENDING.                                                        *)
LEMMA HeldWasRead ==
  ASSUME TypeOK, [Next]_vars, NEW c \in Conns, Unsettled(c)'
  PROVE  Unsettled(c) \/ IsPending(c)
<1>1. worker \in [Workers -> WorkerState]
  BY DEF TypeOK
<1>2. ASSUME NEW w \in Workers, Connect(w) \/ Confirm(w)
      PROVE  Unsettled(c) \/ IsPending(c)
  <2>1. /\ \A v \in Workers : v # w => worker'[v] = worker[v]
        /\ overdue' = overdue
    BY <1>1, <1>2 DEF Connect, Confirm, ConnectBegin, CreateUser, RequestKey,
       CommitKey, CommitConnection, Abort, ConfirmBegin, ConfirmCommit
  <2>2. \A d \in worker'[w].held : d \in worker[w].held \/ IsPending(d)
    <3>1. ASSUME NEW t \in Tokens, ConnectBegin(w, t)
          PROVE  \A d \in worker'[w].held : IsPending(d)
      BY <1>1, <3>1 DEF ConnectBegin, Request, Pending, IsPending
    <3>2. ASSUME NEW d \in Conns, ConfirmBegin(w, d)
          PROVE  \A e \in worker'[w].held : IsPending(e)
      BY <1>1, <3>2 DEF ConfirmBegin, Request, IsPending
    <3>3. CASE RequestKey(w)
      BY <1>1, <3>3 DEF RequestKey, WorkerState
    <3>4. CASE CommitKey(w)
      BY <1>1, <3>4 DEF CommitKey, WorkerState
    <3>5. CASE CommitConnection(w) \/ Abort(w) \/ ConfirmCommit(w)
      BY <1>1, <3>5 DEF CommitConnection, Abort, ConfirmCommit, Idle, Request
    <3>6. CASE CreateUser(w)
      BY <1>1, <3>6 DEF CreateUser, WorkerState
    <3>7. QED
      BY <1>2, <3>1, <3>2, <3>3, <3>4, <3>5, <3>6 DEF Connect, Confirm
  <2>3. QED
    BY <2>1, <2>2 DEF Unsettled
<1>3. CASE Cleanup
  BY <1>3 DEF Cleanup, CleanupSelect, CleanupCommit, CleanupAbort, Unsettled,
     IsPending
<1>4. CASE Environment \/ UNCHANGED vars
  BY <1>4 DEF Environment, SyncToken, ChangeReachability, RemoveContainer,
     Tick, vars, Unsettled
<1>5. QED
  BY <1>2, <1>3, <1>4 DEF Next

(* A status changes only by the commit of a session that holds the row, by *)
(* the insertion of an absent row, or with the container.                  *)
LEMMA OnlyHoldersWrite ==
  ASSUME TypeOK, [Next]_vars, NEW c \in Conns,
         conn[c].status \in {"CONNECTED", "EXPIRED"}, ~Unsettled(c)
  PROVE  conn'[c].status \in {conn[c].status, "deleted"}
<1>1. conn \in [Conns -> ConnRow] /\ Exists(c)
  BY DEF TypeOK, Exists
<1>2. ASSUME NEW cs, NEW status, c \notin cs, conn' = WithStatus(cs, status)
      PROVE  conn'[c] = conn[c]
  BY <1>2 DEF WithStatus
<1>3. ASSUME NEW w \in Workers, CommitConnection(w)
      PROVE  conn'[c] = conn[c]
  BY <1>1, <1>3, Insertion
<1>4. ASSUME NEW w \in Workers, Connect(w) \/ Confirm(w)
      PROVE  conn'[c] = conn[c]
  BY <1>2, <1>3, <1>4 DEF Connect, Confirm, ConnectBegin, CreateUser,
     RequestKey, CommitKey, Abort, ConfirmBegin, ConfirmCommit, Unsettled
<1>5. CASE Cleanup
  BY <1>2, <1>5 DEF Cleanup, CleanupSelect, CleanupCommit, CleanupAbort,
     Unsettled
<1>6. CASE RemoveContainer
  BY <1>1, <1>6 DEF RemoveContainer, WithStatus, ConnRow
<1>7. CASE (Environment /\ ~RemoveContainer) \/ UNCHANGED vars
  BY <1>7 DEF Environment, SyncToken, ChangeReachability, Tick, vars
<1>8. QED
  BY <1>4, <1>5, <1>6, <1>7 DEF Next

(* Once no session is left that read it as PENDING, the status of a        *)
(* confirmed or expired connection is final until the row is deleted.      *)
THEOREM SettledStaysSettled == Spec => SettledIsFinal
<1> DEFINE Step == \A c \in Conns : Settled(c) =>
                     \/ conn'[c].status = "deleted"
                     \/ conn'[c].status = conn[c].status /\ Settled(c)'
<1>1. TypeOK /\ [Next]_vars => Step
  <2> SUFFICES ASSUME TypeOK, [Next]_vars, NEW c \in Conns, Settled(c),
                      conn'[c].status # "deleted"
               PROVE  conn'[c].status = conn[c].status /\ Settled(c)'
    OBVIOUS
  <2>1. conn[c].status \in {"CONNECTED", "EXPIRED"} /\ ~Unsettled(c)
    BY DEF Settled
  <2>2. conn'[c].status = conn[c].status
    BY <2>1, OnlyHoldersWrite
  <2>3. ~Unsettled(c)'
    BY <2>1, HeldWasRead DEF IsPending
  <2>4. QED
    BY <2>1, <2>2, <2>3 DEF Settled
<1>2. TypeOK /\ [Next]_vars => [Step]_vars
  BY <1>1
<1>3. QED
  BY <1>2, TypeCorrect, PTL DEF Spec, SettledIsFinal

(* Once a token is refused and its requests in flight are done, no request *)
(* of it is under way and it gets no new connection.                       *)
THEOREM RefusedTokenGetsNothing == Spec => RefusedTokenStaysQuiet
<1> DEFINE Step == \A t \in Tokens : ~Authorized(t) /\ ~InFlight(t) =>
                     /\ ~InFlight(t)'
                     /\ \A c \in Conns : conn'[c].token = t => conn[c].token = t
<1>1. TypeOK /\ [Next]_vars => Step
  <2> SUFFICES ASSUME TypeOK, [Next]_vars,
                      NEW t \in Tokens, ~Authorized(t), ~InFlight(t)
               PROVE  /\ ~InFlight(t)'
                      /\ \A c \in Conns :
                           conn'[c].token = t => conn[c].token = t
    OBVIOUS
  <2>1. ASSUME NEW c \in Conns, conn'[c].token = t
        PROVE  conn[c].token = t
    <3>1. ASSUME NEW w \in Workers, CommitConnection(w)
          PROVE  conn[c].token = t
      BY <2>1, <3>1, Insertion DEF InFlight
    <3>2. CASE ~ \E w \in Workers : CommitConnection(w)
      BY <2>1, <3>2, OtherStepsKeep DEF Kept
    <3> QED
      BY <3>1, <3>2
  <2>2. ASSUME NEW w \in Workers PROVE worker'[w].token # t
    <3>1. worker[w].token # t /\ worker \in [Workers -> WorkerState]
      BY DEF InFlight, TypeOK
    <3>2. ASSUME NEW v \in Workers, Connect(v) PROVE worker'[w].token # t
      <4>1. ASSUME NEW u \in Tokens, ConnectBegin(v, u)
            PROVE  worker'[w].token # t
        <5>1. u # t
          BY <4>1 DEF ConnectBegin
        <5> QED
          BY <3>1, <4>1, <5>1 DEF ConnectBegin, Request
      <4>2. CASE CreateUser(v) \/ RequestKey(v)
        BY <3>1, <4>2 DEF CreateUser, RequestKey, WorkerState
      <4>3. CASE CommitKey(v)
        BY <3>1, <4>3 DEF CommitKey, WorkerState
      <4>4. CASE CommitConnection(v) \/ Abort(v)
        BY <3>1, <4>4, NoneAssumption DEF CommitConnection, Abort, Idle, Request
      <4> QED
        BY <3>2, <4>1, <4>2, <4>3, <4>4 DEF Connect
    <3>3. ASSUME NEW v \in Workers, Confirm(v) PROVE worker'[w].token # t
      BY <3>1, <3>3, NoneAssumption
      DEF Confirm, ConfirmBegin, ConfirmCommit, Idle, Request
    <3>4. CASE Cleanup \/ Environment \/ UNCHANGED vars
      BY <3>1, <3>4
      DEF Cleanup, CleanupSelect, CleanupCommit, CleanupAbort, Environment,
          SyncToken, ChangeReachability, RemoveContainer, Tick, vars
    <3> QED
      BY <3>2, <3>3, <3>4 DEF Next
  <2> QED
    BY <2>1, <2>2 DEF InFlight
<1>2. TypeOK /\ [Next]_vars => [Step]_vars
  BY <1>1
<1>3. QED
  BY <1>2, TypeCorrect, PTL DEF Spec, RefusedTokenStaysQuiet

(***************************************************************************)
(* The life of a connection: ClientConnection implements                   *)
(* ConnectionLifecycle                                                     *)
(***************************************************************************)

(* Nothing is held that was not inserted yet, a request is some token's,   *)
(* and rows are deleted with their container only.                         *)
LifeInv ==
  /\ \A c \in Conns : Unsettled(c) => conn[c].status # "absent"
  /\ \A w \in Workers : worker[w].pc \in {"listed", "keying", "keyed"}
                       => worker[w].token \in Tokens
  /\ \A c \in Conns : conn[c].status = "deleted" => ~present

(* A row does what the life cycle allows.                                  *)
Lawful(c) == Life!Offered(c) \/ Life!Judged(c) \/ Life!Waits(c) \/ Life!Removed(c)

(* What a session holds it keeps, for the same verdict, or lets go.        *)
HeldLess ==
  /\ overdue' \subseteq overdue
  /\ \A w \in Workers :
       \/ worker'[w].held = {}
       \/ /\ worker'[w].held \subseteq worker[w].held
          /\ worker'[w].pc = "confirming" <=> worker[w].pc = "confirming"

LEMMA VerdictsShrink ==
  ASSUME HeldLess, NEW c \in Conns
  PROVE  Verdicts(c)' \subseteq Verdicts(c)
<1> SUFFICES ASSUME NEW v \in Verdicts(c)' PROVE v \in Verdicts(c)
  OBVIOUS
<1>1. CASE v = "EXPIRED" /\ c \in overdue'
  BY <1>1 DEF HeldLess, Verdicts
<1>2. ASSUME NEW w \in Workers, c \in worker'[w].held,
             v = IF worker'[w].pc = "confirming" THEN "CONNECTED" ELSE "EXPIRED"
      PROVE  v \in Verdicts(c)
  <2>1. c \in worker[w].held
    BY <1>2 DEF HeldLess
  <2>2. v = IF worker[w].pc = "confirming" THEN "CONNECTED" ELSE "EXPIRED"
    BY <1>2 DEF HeldLess
  <2> QED
    BY <2>1, <2>2 DEF Verdicts
<1> QED
  BY <1>1, <1>2 DEF Verdicts

(* Rows that stay as they are wait, when no verdict is begun.              *)
LEMMA UntouchedWaits ==
  ASSUME HeldLess, NEW c \in Conns, conn'[c] = conn[c]
  PROVE  Lawful(c)
BY VerdictsShrink DEF Lawful, Life!Waits, Life!SameOffer

(* A commit of what was held writes verdicts that were under way.          *)
LEMMA WrittenIsJudged ==
  ASSUME TypeOK, HeldLess, NEW cs, NEW v \in {"CONNECTED", "EXPIRED"},
         Updatable(cs), conn' = WithStatus(cs, v),
         \A d \in Conns : d \in cs => v \in Verdicts(d),
         NEW c \in Conns
  PROVE  Lawful(c)
<1>1. CASE c \in cs
  <2>1. conn'[c] = [conn[c] EXCEPT !.status = v] /\ conn[c] \in ConnRow
    BY <1>1 DEF WithStatus, TypeOK
  <2>2. /\ conn'[c].status = v
        /\ conn'[c].token = conn[c].token /\ conn'[c].expires = conn[c].expires
    BY <2>1 DEF ConnRow
  <2>3. Exists(c) /\ Verdicts(c)' \subseteq Verdicts(c) /\ v \in Verdicts(c)
    BY <1>1, VerdictsShrink DEF Updatable
  <2> QED
    BY <2>2, <2>3 DEF Lawful, Life!Judged, Life!There, Life!SameOffer, Exists
<1>2. CASE c \notin cs
  BY <1>2, UntouchedWaits DEF WithStatus
<1> QED
  BY <1>1, <1>2

(* A verdict that a step begins is justified.                              *)
LEMMA BegunWaits ==
  ASSUME TypeOK, UNCHANGED <<clock, conn>>, NEW c \in Conns,
         \A v \in Verdicts(c)' \ Verdicts(c) : Life!Justified(c, v)
  PROVE  Lawful(c)
BY DEF Lawful, Life!Waits, Life!SameOffer

LEMMA SessionsAreLawful ==
  ASSUME TypeOK, LifeInv, NEW w \in Workers, Connect(w) \/ Confirm(w),
         NEW c \in Conns
  PROVE  Lawful(c)
<1>1. /\ worker \in [Workers -> WorkerState] /\ worker[w] \in WorkerState
      /\ conn \in [Conns -> ConnRow] /\ conn[c] \in ConnRow
  BY DEF TypeOK
<1>2. ASSUME NEW r, worker' = [worker EXCEPT ![w] = r], overdue' = overdue
      PROVE  worker'[w] = r /\ \A v \in Workers : v # w => worker'[v] = worker[v]
  BY <1>1, <1>2
<1>3. ASSUME worker' = [worker EXCEPT ![w] = Idle], overdue' = overdue
      PROVE  HeldLess
  BY <1>2, <1>3 DEF HeldLess, Idle, Request
<1>4. ASSUME NEW t \in Tokens, ConnectBegin(w, t)
      PROVE  Lawful(c)
  <2>1. /\ worker' = [worker EXCEPT ![w] = Request("listed", t, Pending(t), None, 0)]
        /\ overdue' = overdue /\ UNCHANGED <<clock, conn>>
    BY <1>4 DEF ConnectBegin
  <2>2. /\ worker'[w].pc = "listed" /\ worker'[w].token = t
        /\ worker'[w].held = Pending(t)
        /\ \A v \in Workers : v # w => worker'[v] = worker[v]
    BY <1>2, <2>1 DEF Request
  <2>3. InFlight(t)'
    BY <2>2 DEF InFlight
  <2>4. ASSUME NEW v \in Verdicts(c)', v \notin Verdicts(c)
        PROVE  Life!Justified(c, v)
    <3>1. v = "EXPIRED" /\ c \in Pending(t)
      BY <2>1, <2>2, <2>4 DEF Verdicts
    <3>2. conn[c].status = "PENDING" /\ conn[c].token = t
      BY <3>1 DEF Pending
    <3> QED
      BY <2>3, <3>1, <3>2 DEF Life!Justified
  <2> QED
    BY <2>1, <2>4, BegunWaits
<1>5. CASE CreateUser(w)
  <2>1. /\ worker'[w].held = {}
        /\ \A v \in Workers : v # w => worker'[v] = worker[v]
        /\ overdue' = overdue
    BY <1>1, <1>5 DEF CreateUser, WorkerState
  <2>2. HeldLess
    BY <2>1 DEF HeldLess
  <2>3. \A d \in Conns : d \in worker[w].held => "EXPIRED" \in Verdicts(d)
    BY <1>5 DEF CreateUser, Verdicts
  <2> QED
    BY <1>5, <2>2, <2>3, WrittenIsJudged DEF CreateUser
<1>6. CASE RequestKey(w)
  <2>1. /\ worker'[w].held = worker[w].held
        /\ worker'[w].pc = "keying" /\ worker[w].pc = "listed"
        /\ \A v \in Workers : v # w => worker'[v] = worker[v]
        /\ overdue' = overdue /\ conn' = conn
    BY <1>1, <1>6 DEF RequestKey, WorkerState
  <2> QED
    BY <2>1, UntouchedWaits DEF HeldLess
<1>7. CASE CommitKey(w)
  <2>1. PICK k \in Keys :
          worker' = [worker EXCEPT ![w].pc = "keyed", ![w].key = k, ![w].held = {}]
    BY <1>7 DEF CommitKey
  <2>2. /\ worker'[w].held = {}
        /\ \A v \in Workers : v # w => worker'[v] = worker[v]
        /\ overdue' = overdue
    BY <1>1, <1>7, <2>1 DEF CommitKey, WorkerState
  <2>3. HeldLess
    BY <2>2 DEF HeldLess
  <2>4. \A d \in Conns : d \in worker[w].held => "EXPIRED" \in Verdicts(d)
    BY <1>7 DEF CommitKey, Verdicts
  <2> QED
    BY <1>7, <2>3, <2>4, WrittenIsJudged DEF CommitKey
<1>8. CASE CommitConnection(w)
  <2>1. PICK d \in Conns :
          /\ conn[d].status = "absent"
          /\ conn' = [conn EXCEPT ![d] =
                        Row("PENDING", worker[w].token, worker[w].key,
                            Deadline(worker[w].key), w)]
    BY <1>8 DEF CommitConnection
  <2>2. HeldLess
    BY <1>3, <1>8 DEF CommitConnection
  <2>3. CASE c # d
    BY <1>1, <2>1, <2>2, <2>3, UntouchedWaits
  <2>4. CASE c = d
    <3>1. conn'[c].status = "PENDING" /\ conn'[c].token = worker[w].token
      BY <1>1, <2>1, <2>4 DEF Row
    <3>2. worker[w].token \in {t \in Tokens : InFlight(t)}
      BY <1>8 DEF CommitConnection, LifeInv, InFlight
    <3>3. \A e \in Conns : conn[e].status # "deleted"
      BY <1>8 DEF CommitConnection, LifeInv
    <3>4. ~Unsettled(c)
      BY <2>1, <2>4 DEF LifeInv
    <3>5. Verdicts(c) = {}
      BY <3>4 DEF Unsettled, Verdicts
    <3>6. Verdicts(c)' = {}
      BY <2>2, <3>5, VerdictsShrink
    <3> QED
      BY <2>1, <2>4, <3>1, <3>2, <3>3, <3>6 DEF Lawful, Life!Offered
  <2> QED
    BY <2>3, <2>4
<1>9. CASE Abort(w)
  BY <1>3, <1>9, UntouchedWaits DEF Abort
<1>10. ASSUME NEW d \in Conns, ConfirmBegin(w, d)
       PROVE  Lawful(c)
  <2>1. /\ worker' = [worker EXCEPT ![w] = Request("confirming", None, {d}, None, 0)]
        /\ overdue' = overdue /\ UNCHANGED <<clock, conn>>
    BY <1>10 DEF ConfirmBegin
  <2>2. /\ worker'[w].pc = "confirming" /\ worker'[w].held = {d}
        /\ \A v \in Workers : v # w => worker'[v] = worker[v]
    BY <1>2, <2>1 DEF Request
  <2>3. ASSUME NEW v \in Verdicts(c)', v \notin Verdicts(c)
        PROVE  Life!Justified(c, v)
    <3>1. v = "CONNECTED" /\ c = d
      BY <2>1, <2>2, <2>3 DEF Verdicts
    <3>2. conn[c].status = "PENDING" /\ clock < conn[c].expires
      BY <1>1, <1>10, <3>1 DEF ConfirmBegin, PastDeadline, TypeOK, ConnRow
    <3> QED
      BY <3>1, <3>2 DEF Life!Justified
  <2> QED
    BY <2>1, <2>3, BegunWaits
<1>11. CASE ConfirmCommit(w)
  <2>1. HeldLess
    BY <1>3, <1>11 DEF ConfirmCommit
  <2>2. \A d \in Conns : d \in worker[w].held => "CONNECTED" \in Verdicts(d)
    BY <1>11 DEF ConfirmCommit, Verdicts
  <2> QED
    BY <1>11, <2>1, <2>2, WrittenIsJudged DEF ConfirmCommit
<1> QED
  BY <1>4, <1>5, <1>6, <1>7, <1>8, <1>9, <1>10, <1>11 DEF Connect, Confirm

LEMMA OthersAreLawful ==
  ASSUME TypeOK, Cleanup \/ Environment \/ UNCHANGED vars, NEW c \in Conns
  PROVE  Lawful(c)
<1>1. conn \in [Conns -> ConnRow] /\ conn[c] \in ConnRow
  BY DEF TypeOK
<1>2. ASSUME UNCHANGED worker, overdue' \subseteq overdue
      PROVE  HeldLess
  BY <1>2 DEF HeldLess
<1>3. CASE CleanupSelect
  <2>1. UNCHANGED <<clock, conn, worker>> /\ overdue = {}
    BY <1>3 DEF CleanupSelect
  <2>2. ASSUME NEW v \in Verdicts(c)', v \notin Verdicts(c)
        PROVE  Life!Justified(c, v)
    <3>1. v = "EXPIRED" /\ c \in overdue'
      BY <2>1, <2>2 DEF Verdicts
    <3>2. conn[c].status = "PENDING" /\ conn[c].expires <= clock
      BY <1>3, <3>1 DEF CleanupSelect, PastDeadline
    <3> QED
      BY <3>1, <3>2 DEF Life!Justified
  <2> QED
    BY <2>1, <2>2, BegunWaits
<1>4. CASE CleanupCommit
  <2>1. HeldLess
    BY <1>2, <1>4 DEF CleanupCommit
  <2>2. \A d \in Conns : d \in overdue => "EXPIRED" \in Verdicts(d)
    BY DEF Verdicts
  <2> QED
    BY <1>4, <2>1, <2>2, WrittenIsJudged DEF CleanupCommit
<1>5. CASE RemoveContainer
  <2>1. /\ conn' = WithStatus({d \in Conns : Exists(d)}, "deleted")
        /\ UNCHANGED <<worker, overdue>>
    BY <1>5 DEF RemoveContainer
  <2>2. ASSUME NEW d \in Conns
        PROVE  conn'[d].status \in {"absent", "deleted"}
    <3>1. conn[d] \in ConnRow
      BY DEF TypeOK
    <3> QED
      BY <2>1, <3>1 DEF WithStatus, Exists, ConnRow
  <2>3. CASE Exists(c)
    <3>1. conn'[c].status = "deleted"
      BY <1>1, <2>1, <2>3 DEF WithStatus, ConnRow
    <3>2. Life!There(c) /\ \A d \in Conns : ~Life!There(d)'
      BY <2>2, <2>3 DEF Exists, Life!There
    <3> QED
      BY <3>1, <3>2 DEF Lawful, Life!Removed
  <2>4. CASE ~Exists(c)
    <3>1. conn'[c] = conn[c]
      BY <2>1, <2>4 DEF WithStatus
    <3> QED
      BY <1>2, <2>1, <3>1, UntouchedWaits
  <2> QED
    BY <2>3, <2>4
<1>6. CASE CleanupAbort \/ (Environment /\ ~RemoveContainer) \/ UNCHANGED vars
  <2>1. UNCHANGED <<conn, worker>> /\ overdue' \subseteq overdue
    BY <1>6 DEF CleanupAbort, Environment, SyncToken, ChangeReachability, Tick, vars
  <2> QED
    BY <1>2, <2>1, UntouchedWaits
<1> QED
  BY <1>3, <1>4, <1>5, <1>6 DEF Cleanup

LEMMA LifeStep == TypeOK /\ LifeInv /\ [Next]_vars => LifeInv'
<1> SUFFICES ASSUME TypeOK, LifeInv, [Next]_vars PROVE LifeInv'
  OBVIOUS
<1>1. /\ worker \in [Workers -> WorkerState]
      /\ conn \in [Conns -> ConnRow]
  BY DEF TypeOK
<1>2. ASSUME NEW c \in Conns, Unsettled(c)'
      PROVE  conn'[c].status # "absent"
  <2>1. conn[c].status # "absent"
    BY <1>2, HeldWasRead DEF IsPending, LifeInv
  <2>2. ASSUME NEW w \in Workers, CommitConnection(w)
        PROVE  conn'[c] = conn[c]
    BY <1>1, <2>1, <2>2 DEF CommitConnection
  <2>3. ASSUME NEW cs, NEW v \in {"CONNECTED", "EXPIRED", "deleted"},
               conn' = WithStatus(cs, v)
        PROVE  conn'[c].status # "absent"
    BY <1>1, <2>1, <2>3 DEF WithStatus, ConnRow
  <2>4. CASE \E w \in Workers : Connect(w) \/ Confirm(w)
    BY <2>1, <2>2, <2>3, <2>4
    DEF Connect, Confirm, ConnectBegin, CreateUser, RequestKey, CommitKey, Abort,
        ConfirmBegin, ConfirmCommit
  <2>5. CASE Cleanup
    BY <2>1, <2>3, <2>5 DEF Cleanup, CleanupSelect, CleanupCommit, CleanupAbort
  <2>6. CASE Environment
    BY <2>1, <2>3, <2>6 DEF Environment, SyncToken, ChangeReachability, RemoveContainer, Tick
  <2> QED
    BY <2>1, <2>4, <2>5, <2>6 DEF Next, vars
<1>3. ASSUME NEW w \in Workers, worker'[w].pc \in {"listed", "keying", "keyed"}
      PROVE  worker'[w].token \in Tokens
  <2>1. ASSUME NEW v \in Workers, NEW t \in Tokens, ConnectBegin(v, t)
        PROVE  worker'[w].token \in Tokens
    BY <1>1, <1>3, <2>1 DEF ConnectBegin, Request, LifeInv
  <2>2. ASSUME NEW v \in Workers, CreateUser(v) \/ RequestKey(v)
        PROVE  worker'[w].token \in Tokens
    BY <1>1, <1>3, <2>2 DEF CreateUser, RequestKey, WorkerState, LifeInv
  <2>3. ASSUME NEW v \in Workers, CommitKey(v)
        PROVE  worker'[w].token \in Tokens
    BY <1>1, <1>3, <2>3 DEF CommitKey, WorkerState, LifeInv
  <2>4. ASSUME NEW v \in Workers,
               CommitConnection(v) \/ Abort(v) \/ ConfirmCommit(v)
        PROVE  worker'[w].token \in Tokens
    BY <1>1, <1>3, <2>4 DEF CommitConnection, Abort, ConfirmCommit, Idle, Request, LifeInv
  <2>5. ASSUME NEW v \in Workers, NEW c \in Conns, ConfirmBegin(v, c)
        PROVE  worker'[w].token \in Tokens
    BY <1>1, <1>3, <2>5 DEF ConfirmBegin, Request, LifeInv
  <2>6. CASE Cleanup \/ Environment \/ UNCHANGED vars
    BY <1>3, <2>6
    DEF Cleanup, CleanupSelect, CleanupCommit, CleanupAbort, Environment, SyncToken,
        ChangeReachability, RemoveContainer, Tick, vars, LifeInv
  <2> QED
    BY <2>1, <2>2, <2>3, <2>4, <2>5, <2>6 DEF Next, Connect, Confirm
<1>4. ASSUME NEW c \in Conns, conn'[c].status = "deleted"
      PROVE  ~present'
  <2>1. CASE RemoveContainer
    BY <2>1 DEF RemoveContainer
  <2>2. CASE ~RemoveContainer
    <3>1. present' = present
      BY <2>2 DEF Next, Connect, Confirm, ConnectBegin, CreateUser, RequestKey, CommitKey,
         CommitConnection, Abort, ConfirmBegin, ConfirmCommit, Cleanup, CleanupSelect,
         CleanupCommit, CleanupAbort, Environment, SyncToken, ChangeReachability, Tick, vars
    <3>2. ASSUME NEW cs, NEW v \in {"CONNECTED", "EXPIRED"}, conn' = WithStatus(cs, v)
          PROVE  conn[c].status = "deleted"
      BY <1>1, <1>4, <3>2 DEF WithStatus, ConnRow
    <3>3. ASSUME NEW w \in Workers, CommitConnection(w)
          PROVE  conn[c].status = "deleted"
      <4>1. PICK d \in Conns :
               /\ conn'[d].status = "PENDING"
               /\ \A e \in Conns : e # d => conn'[e] = conn[e]
        BY <3>3, Insertion
      <4> QED
        BY <1>4, <4>1
    <3>4. conn[c].status = "deleted"
      <4>1. CASE \E w \in Workers : Connect(w) \/ Confirm(w)
        BY <1>4, <3>2, <3>3, <4>1
        DEF Connect, Confirm, ConnectBegin, CreateUser, RequestKey, CommitKey, Abort,
            ConfirmBegin, ConfirmCommit
      <4>2. CASE Cleanup
        BY <1>4, <3>2, <4>2 DEF Cleanup, CleanupSelect, CleanupCommit, CleanupAbort
      <4>3. CASE Environment \/ UNCHANGED vars
        BY <1>4, <2>2, <4>3 DEF Environment, SyncToken, ChangeReachability, Tick, vars
      <4> QED
        BY <4>1, <4>2, <4>3 DEF Next
    <3> QED
      BY <3>1, <3>4 DEF LifeInv
  <2> QED
    BY <2>1, <2>2
<1> QED
  BY <1>2, <1>3, <1>4 DEF LifeInv

(* ClientConnection implements ConnectionLifecycle: however sessions       *)
(* overwrite each other, a connection becomes CONNECTED by a confirmation  *)
(* that was in time and EXPIRED by its deadline or a new request of its    *)
(* token only (connection_provision_service, connection_cleanup_service).  *)
THEOREM ImplementsLifecycle == Spec => LivesByTheRules
<1>1. Init => LifeInv /\ Life!Init
  <2>1. ASSUME Init PROVE \A c \in Conns : Verdicts(c) = {} /\ ~Unsettled(c)
    BY <2>1 DEF Init, Verdicts, Unsettled, Idle, Request
  <2> QED
    BY <2>1 DEF Init, LifeInv, Life!Init, Row, Idle, Request
<1>2. TypeOK /\ LifeInv /\ [Next]_vars => [Life!Next]_(Life!lifeVars)
  <2> SUFFICES ASSUME TypeOK, LifeInv, [Next]_vars PROVE Life!Next
    OBVIOUS
  <2>1. clock <= clock'
    <3>1. clock' \in {clock, clock + 1}
      BY DEF Next, Connect, Confirm, ConnectBegin, CreateUser, RequestKey, CommitKey,
         CommitConnection, Abort, ConfirmBegin, ConfirmCommit, Cleanup, CleanupSelect,
         CleanupCommit, CleanupAbort, Environment, SyncToken, ChangeReachability,
         RemoveContainer, Tick, vars
    <3> QED
      BY <3>1 DEF TypeOK
  <2>2. \A c \in Conns : Lawful(c)
    BY SessionsAreLawful, OthersAreLawful DEF Next
  <2> QED
    BY <2>1, <2>2 DEF Life!Next, Lawful
<1> QED
  BY <1>1, <1>2, LifeStep, TypeCorrect, PTL DEF Spec, LivesByTheRules, Life!Spec

(* A life by the rules is one in which what is settled stays settled: to   *)
(* judge takes a verdict under way, and only what is waiting gets a new    *)
(* one (connection_provision_service, connection_cleanup_service).         *)
THEOREM RulesSettle == LivesByTheRules => SettledIsFinal
<1>1. ASSUME [Life!Next]_(Life!lifeVars), NEW c \in Conns, Settled(c)
      PROVE  \/ conn'[c].status = "deleted"
             \/ conn'[c].status = conn[c].status /\ Settled(c)'
  <2>1. Verdicts(c) = {} /\ conn[c].status \in {"CONNECTED", "EXPIRED"}
    BY <1>1 DEF Settled, Unsettled, Verdicts
  <2>2. CASE UNCHANGED Life!lifeVars
    <3>1. Verdicts(c)' = Verdicts(c) /\ conn'[c].status = conn[c].status
      BY <2>2 DEF Life!lifeVars
    <3> QED
      BY <2>1, <3>1 DEF Settled, Unsettled, Verdicts
  <2>3. CASE Life!Next
    <3>1. \/ conn'[c].status = "deleted"
          \/ conn'[c].status = conn[c].status /\ Verdicts(c)' = {}
      BY <2>1, <2>3 DEF Life!Next, Life!Offered, Life!Judged, Life!Waits, Life!Removed,
                        Life!Justified
    <3> QED
      BY <2>1, <3>1 DEF Settled, Unsettled, Verdicts
  <2> QED
    BY <1>1, <2>2, <2>3
<1>2. [Life!Next]_(Life!lifeVars) =>
        [\A c \in Conns : Settled(c) =>
           \/ conn'[c].status = "deleted"
           \/ conn'[c].status = conn[c].status /\ Settled(c)']_vars
  BY <1>1
<1> QED
  BY <1>2, PTL DEF LivesByTheRules, Life!Spec, SettledIsFinal

=============================================================================
