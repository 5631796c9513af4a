------------------------- MODULE EnvironmentLifecycle -------------------------
(***************************************************************************)
(* The environments of one owner and their users at Headscale.             *)
(*                                                                         *)
(* An environment gets a user at Headscale, env_<id>, when a key is needed *)
(* in it, and the user's id is recorded in headscale_users.  Deleting the  *)
(* environment deletes the user there, then its row, then the environment. *)
(* Requests run in threads and provisioning on the event loop, each in a   *)
(* session of its own: all are workers here, that call Headscale and       *)
(* commit in between each other.                                           *)
(***************************************************************************)
EXTENDS Naturals

CONSTANTS
  Workers,  \* threads, and the event loop
  Envs,     \* row identities of environments (bounds their number)
  Used,     \* those in which keys are made (bounds the requests)
  Names     \* spellings of one name, that differ in case

ASSUME UsedAssumption == Used \subseteq Envs

CONSTANT None
ASSUME NoneAssumption == None \notin Workers \cup Envs \cup Names

VARIABLES
  env,      \* environments: each one's state and name
  user,     \* Headscale: the environments that have a user
  row,      \* headscale_users: whether it has the id of that user
  conns,    \* environments with a connection, which refers to a key of row
  worker,   \* what each worker is doing
  by,       \* history: who created the environment
  touched,  \* history: its user may have been deleted since it was created
  excused   \* history: a call failed, or a deletion met another request

history == <<by, touched, excused>>
vars == <<env, user, row, conns, worker, history>>

(* An id is "stale" when the user it was given to is no longer there.      *)
Ids == {"none", "current", "stale"}

Ensuring == {"verifying", "recreating", "reinserting", "looking", "adopting",
             "creating", "inserting", "vainly", "keying", "keyed"}
Deleting == {"removing", "unrecording", "dropping"}

(* id: what the worker has read, or been told, of the user.                *)
WorkerState ==
  [pc : {"idle", "naming"} \cup Ensuring \cup Deleting, env : Envs \cup {None},
   name : Names \cup {None}, id : Ids]
Idle == [pc |-> "idle", env |-> None, name |-> None, id |-> "none"]
At(pc, e, id) == [pc |-> pc, env |-> e, name |-> None, id |-> id]

EnvState == [at : {"absent", "present", "deleted"}, name : Names \cup {None}]

TypeOK ==
  /\ env \in [Envs -> EnvState]
  /\ user \in SUBSET Envs
  /\ row \in [Envs -> Ids]
  /\ conns \in SUBSET Envs
  /\ worker \in [Workers -> WorkerState]
  /\ \A w \in Workers : worker[w].env # None <=> worker[w].pc \in Ensuring \cup Deleting
  /\ by \in [Envs -> Workers \cup {None}]
  /\ touched \in SUBSET Envs
  /\ excused \in SUBSET Envs
  /\ \A e \in conns : row[e] # "none"

Init ==
  /\ env = [e \in Envs |-> [at |-> "absent", name |-> None]]
  /\ user = {}
  /\ row = [e \in Envs |-> "none"]
  /\ conns = {}
  /\ worker = [w \in Workers |-> Idle]
  /\ by = [e \in Envs |-> None]
  /\ touched = {}
  /\ excused = {}

-----------------------------------------------------------------------------
(* Helpers *)

Present(e) == env[e].at = "present"
Busy(e, pcs) == \E w \in Workers : worker[w].env = e /\ worker[w].pc \in pcs
Is(w, e, pc) == worker[w].pc = pc /\ worker[w].env = e

Go(w, x) == worker' = [worker EXCEPT ![w] = x]
Aged(id) == IF id = "current" THEN "stale" ELSE id

(* e's user is deleted at Headscale, and w goes on at x.                   *)
UserGone(e, w, x) ==
  /\ user' = user \ {e}
  /\ row' = [row EXCEPT ![e] = Aged(@)]
  /\ worker' = [v \in Workers |->
       IF v = w THEN x
       ELSE IF worker[v].env = e THEN [worker[v] EXCEPT !.id = Aged(@)] ELSE worker[v]]

-----------------------------------------------------------------------------
(* EnvironmentService.create *)

(* Mutated form: names are compared as they are spelled.                   *)
CreateBeginAsSpelled(w, n) ==
  /\ worker[w] = Idle
  /\ ~\E e \in Envs : Present(e) /\ env[e].name = n
  /\ Go(w, [Idle EXCEPT !.pc = "naming", !.name = n])
  /\ UNCHANGED <<env, user, row, conns, history>>

(* The name is looked up without regard to case; one that is there is      *)
(* refused.                                                                *)
CreateBegin(w, n) ==
  /\ worker[w] = Idle
  /\ ~\E e \in Envs : Present(e)
  /\ Go(w, [Idle EXCEPT !.pc = "naming", !.name = n])
  /\ UNCHANGED <<env, user, row, conns, history>>

(* The constraint on the table compares spellings.                         *)
CreateInsert(w) ==
  /\ worker[w].pc = "naming"
  /\ Go(w, Idle)
  /\ \/ /\ \E e \in Envs : Present(e) /\ env[e].name = worker[w].name
        /\ UNCHANGED <<env, by>>
     \/ /\ ~\E e \in Envs : Present(e) /\ env[e].name = worker[w].name
        /\ \E e \in Envs :
             /\ env[e].at = "absent"
             /\ env' = [env EXCEPT ![e] = [at |-> "present", name |-> worker[w].name]]
             /\ by' = [by EXCEPT ![e] = w]
  /\ UNCHANGED <<user, row, conns, touched, excused>>

-----------------------------------------------------------------------------
(* ensure_environment_user, and the key that is made with its result *)

EnsureBegin(w, e) ==
  /\ worker[w] = Idle /\ Present(e) /\ e \in Used
  /\ Go(w, At(IF row[e] # "none" THEN "verifying" ELSE "looking", e, row[e]))
  /\ excused' = IF Busy(e, Deleting) THEN excused \cup {e} ELSE excused
  /\ UNCHANGED <<env, user, row, conns, by, touched>>

(* A recorded user is looked for by its name, whatever its id.             *)
Verify(w, e) ==
  /\ Is(w, e, "verifying")
  /\ Go(w, At(IF e \in user THEN "keying" ELSE "recreating", e, worker[w].id))
  /\ UNCHANGED <<env, user, row, conns, history>>

(* Mutated form: a user that is there already is not taken over.           *)
LookUpOnly(w, e) ==
  /\ Is(w, e, "looking")
  /\ Go(w, At("creating", e, "none"))
  /\ UNCHANGED <<env, user, row, conns, history>>

(* Mutated form: a user that is missing is recorded before it is made.     *)
LookUpRecording(w, e) ==
  /\ Is(w, e, "looking")
  /\ Go(w, At(IF e \in user THEN "adopting" ELSE "inserting", e, "current"))
  /\ UNCHANGED <<env, user, row, conns, history>>

LookUp(w, e) ==
  /\ Is(w, e, "looking")
  /\ Go(w, IF e \in user THEN At("adopting", e, "current") ELSE At("creating", e, "none"))
  /\ UNCHANGED <<env, user, row, conns, history>>

(* The user is created, or refused because its name is taken.              *)
Posting == {"creating", "recreating", "vainly"}
CreateUser(w, e) ==
  /\ worker[w].env = e /\ worker[w].pc \in Posting
  /\ user' = user \cup {e}
  /\ Go(w, CASE e \in user -> Idle
             [] e \notin user /\ worker[w].pc = "creating" -> At("inserting", e, "current")
             [] e \notin user /\ worker[w].pc = "recreating" -> At("reinserting", e, "current")
             [] e \notin user /\ worker[w].pc = "vainly" -> Idle)
  /\ UNCHANGED <<env, row, conns, history>>

(* The row is inserted, if its environment is there and has none.  A user  *)
(* that was found and could not be recorded is created all the same, in a  *)
(* session that can store nothing more; one created for a row that was     *)
(* missed at Headscale is never recorded, as that row is in the way, and   *)
(* were it not, the row that was read is gone.                             *)
InsertRow(w, e) ==
  /\ worker[w].env = e /\ worker[w].pc \in {"adopting", "inserting", "reinserting"}
  /\ LET fits == Present(e) /\ row[e] = "none" IN
     /\ row' = IF fits THEN [row EXCEPT ![e] = worker[w].id] ELSE row
     /\ Go(w, IF fits /\ worker[w].pc # "reinserting" THEN At("keying", e, worker[w].id)
              ELSE IF ~fits /\ worker[w].pc = "adopting" THEN At("vainly", e, "none")
              ELSE Idle)
  /\ UNCHANGED <<env, user, conns, history>>

(* A key is asked for by the user's id as it is recorded.                  *)
MakeKey(w, e) ==
  /\ Is(w, e, "keying")
  /\ Go(w, IF worker[w].id = "current" THEN At("keyed", e, "current") ELSE Idle)
  /\ UNCHANGED <<env, user, row, conns, history>>

(* It is stored, with or without a connection, if its user's row is there. *)
StoreKey(w, e) ==
  /\ Is(w, e, "keyed")
  /\ conns' \in IF row[e] # "none" THEN {conns, conns \cup {e}} ELSE {conns}
  /\ Go(w, Idle)
  /\ UNCHANGED <<env, user, row, history>>

-----------------------------------------------------------------------------
(* EnvironmentService.delete and unregister_agent *)

(* Mutated form: the environment is deleted here only.                     *)
DeleteBeginHere(w, e) ==
  /\ worker[w] = Idle /\ Present(e)
  /\ Go(w, At("dropping", e, "none"))
  /\ touched' = touched \cup {e}
  /\ excused' = IF Busy(e, Ensuring) THEN excused \cup {e} ELSE excused
  /\ UNCHANGED <<env, user, row, conns, by>>

DeleteBegin(w, e) ==
  /\ worker[w] = Idle /\ Present(e)
  /\ Go(w, At(IF row[e] # "none" THEN "removing" ELSE "dropping", e, "none"))
  /\ touched' = touched \cup {e}
  /\ excused' = IF Busy(e, Ensuring) THEN excused \cup {e} ELSE excused
  /\ UNCHANGED <<env, user, row, conns, by>>

(* Mutated form: the deletion ends with the exception.                     *)
RemoveUserOrEnd(w, e) ==
  /\ Is(w, e, "removing")
  /\ \/ e \in user /\ UserGone(e, w, At("unrecording", e, "none"))
     \/ e \notin user /\ Go(w, Idle) /\ UNCHANGED <<user, row>>
  /\ UNCHANGED <<env, conns, history>>

(* The user is deleted at Headscale; if it is not there the exception is   *)
(* logged, and the row left to the environment's deletion.                 *)
RemoveUser(w, e) ==
  /\ Is(w, e, "removing")
  /\ \/ e \in user /\ UserGone(e, w, At("unrecording", e, "none"))
     \/ e \notin user /\ Go(w, At("dropping", e, "none")) /\ UNCHANGED <<user, row>>
  /\ UNCHANGED <<env, conns, history>>

(* Mutated form: connections do not stand in the way, and stay.            *)
UnrecordUserAnyhow(w, e) ==
  /\ Is(w, e, "unrecording")
  /\ row' = [row EXCEPT ![e] = "none"]
  /\ Go(w, At("dropping", e, "none"))
  /\ UNCHANGED <<env, user, conns, history>>

(* Its row is deleted, with its keys.  A connection that refers to one of  *)
(* them has the database refuse it: that is logged too, but the session    *)
(* can then not delete the environment either, and the request fails.      *)
UnrecordUser(w, e) ==
  /\ Is(w, e, "unrecording")
  /\ \/ /\ e \notin conns
        /\ row' = [row EXCEPT ![e] = "none"]
        /\ Go(w, At("dropping", e, "none"))
     \/ /\ e \in conns
        /\ Go(w, Idle)
        /\ UNCHANGED row
  /\ UNCHANGED <<env, user, conns, history>>

(* The environment is deleted with everything in it.                       *)
Drop(w, e) ==
  /\ Is(w, e, "dropping")
  /\ env' = [env EXCEPT ![e].at = "deleted"]
  /\ row' = [row EXCEPT ![e] = "none"]
  /\ conns' = conns \ {e}
  /\ Go(w, Idle)
  /\ UNCHANGED <<user, history>>

-----------------------------------------------------------------------------
(* Failures and the world *)

Failed(e) == excused' = excused \cup {e} /\ UNCHANGED <<by, touched>>

(* A call that would have succeeded does not, or its answer is lost and    *)
(* the request sent again, which is then refused.                          *)
ReadFails(w, e) ==
  /\ e \in user
  /\ \/ Is(w, e, "verifying") /\ Go(w, At("recreating", e, worker[w].id))
     \/ Is(w, e, "looking") /\ Go(w, At("creating", e, "none"))
  /\ Failed(e)
  /\ UNCHANGED <<env, user, row, conns>>

CreateUserFails(w, e) ==
  /\ worker[w].env = e /\ worker[w].pc \in Posting /\ e \notin user
  /\ user' \in {user, user \cup {e}}
  /\ Go(w, Idle)
  /\ Failed(e)
  /\ UNCHANGED <<env, row, conns>>

RemoveUserFails(w, e) ==
  /\ Is(w, e, "removing") /\ e \in user
  /\ \/ UserGone(e, w, At("dropping", e, "none"))
     \/ Go(w, At("dropping", e, "none")) /\ UNCHANGED <<user, row>>
  /\ Failed(e)
  /\ UNCHANGED <<env, conns>>

(* The request is over in the middle: the database refuses, Headscale does *)
(* not make the key, or the process dies.                                  *)
Ends(w, e) ==
  /\ worker[w].env = e
  /\ Go(w, Idle)
  /\ Failed(e)
  /\ UNCHANGED <<env, user, row, conns>>

(* A user is deleted at Headscale by someone else.                         *)
RemoveOutside(e) ==
  /\ e \in user
  /\ UserGone(e, None, Idle)
  /\ touched' = touched \cup {e}
  /\ UNCHANGED <<env, conns, by, excused>>

(* The containers with connections are purged.                             *)
PurgeConnections(e) ==
  /\ e \in conns
  /\ conns' = conns \ {e}
  /\ UNCHANGED <<env, user, row, worker, history>>

-----------------------------------------------------------------------------
Proceed(w) ==
  \/ CreateInsert(w)
  \/ \E e \in Envs :
       \/ Verify(w, e) \/ LookUp(w, e) \/ CreateUser(w, e) \/ InsertRow(w, e)
       \/ MakeKey(w, e) \/ StoreKey(w, e)
       \/ RemoveUser(w, e) \/ UnrecordUser(w, e) \/ Drop(w, e)

Failure(w, e) ==
  ReadFails(w, e) \/ CreateUserFails(w, e) \/ RemoveUserFails(w, e) \/ Ends(w, e)

Next ==
  \/ \E w \in Workers :
       \/ Proceed(w)
       \/ \E n \in Names : CreateBegin(w, n)
       \/ \E e \in Envs : EnsureBegin(w, e) \/ DeleteBegin(w, e) \/ Failure(w, e)
  \/ \E e \in Envs : RemoveOutside(e) \/ PurgeConnections(e)

Spec == Init /\ [][Next]_vars

(* A request that has begun goes on: every call has a timeout.             *)
FairSpec == Spec /\ \A w \in Workers : WF_vars(Proceed(w))

-----------------------------------------------------------------------------
(* Properties *)

(* Two environments whose names differ in case only are the work of two    *)
(* workers, whose requests overlapped; one worker's are told of the other  *)
(* (test_create_environment_duplicate_name_fails).                         *)
NamesApart ==
  \A e, f \in Envs : Present(e) /\ Present(f) /\ e # f =>
    by[e] # by[f] /\ env[e].name # env[f].name

(* The recorded id is that of the user at Headscale as long as no deletion *)
(* was begun and nobody else deleted the user, whichever answers were lost *)
(* and however requests overlapped when the user was created.              *)
RecordAgrees ==
  \A e \in Envs \ touched : row[e] # "none" => e \in user /\ row[e] = "current"

(* A deleted environment leaves no user at Headscale, unless a call failed *)
(* or some request for a key ran into a deletion.                          *)
NoUserLeft ==
  \A e \in Envs \ excused : env[e].at = "deleted" => e \notin user

(* In the end no call fails (one that ends like a call that was refused    *)
(* does not count).                                                        *)
FailuresEnd ==
  <>[][\A w \in Workers, e \in Envs : Failure(w, e) => Proceed(w)]_vars

(* An environment that is asked to be deleted again and again is deleted,  *)
(* whatever is left of its user here or at Headscale, once no keys are     *)
(* made in it.                                                             *)
DeletedInTheEnd ==
  FailuresEnd => \A e \in Envs :
    []<>Busy(e, Deleting) /\ <>[]~Busy(e, Ensuring) => <>(env[e].at = "deleted")

(* In an environment whose user nobody has deleted requests for keys go    *)
(* on to be served: a user whose creation got no answer, or whose row went *)
(* to another request, is found again.                                     *)
KeysFlow ==
  FailuresEnd => \A e \in Envs :
    []<>Busy(e, Ensuring) /\ []~(e \in touched) => []<>Busy(e, {"keyed"})

=============================================================================
