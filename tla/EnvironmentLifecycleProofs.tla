---------------------- MODULE EnvironmentLifecycleProofs ----------------------
(***************************************************************************)
(* What holds of environments and their users for every number of          *)
(* environments, spellings and workers.                                    *)
(***************************************************************************)
EXTENDS EnvironmentLifecycle, TLAPS

(* Nobody works on an environment that was never there.                    *)
WorkedOn == \A w \in Workers, e \in Envs : worker[w].env = e => env[e].at # "absent"
Typed == TypeOK /\ WorkedOn

(* A worker that is about to create an environment has created none that   *)
(* is there.                                                               *)
NamersHaveNone ==
  \A w \in Workers : worker[w].pc = "naming" =>
    \A e \in Envs : Present(e) => by[e] # w
Named == NamersHaveNone /\ NamesApart

(* What is about to be recorded is the user that is there.                 *)
DeletersTouch ==
  \A w \in Workers, e \in Envs :
    worker[w].env = e /\ worker[w].pc \in Deleting => e \in touched
RecordersAgree ==
  \A w \in Workers, e \in Envs \ touched :
    worker[w].env = e /\ worker[w].pc \in {"adopting", "inserting", "reinserting"} =>
      e \in user /\ worker[w].id = "current"
Recorded == DeletersTouch /\ RecordersAgree /\ RecordAgrees

(* The environments that nothing went wrong in: requests for keys and      *)
(* deletions do not meet, no deletion goes on with the user there, and a   *)
(* user without a row is about to get one.                                 *)
UserHeld(e) ==
  /\ ~(Busy(e, Ensuring) /\ Busy(e, Deleting))
  /\ Busy(e, Ensuring) => Present(e)
  /\ Busy(e, {"unrecording", "dropping"}) => e \notin user
  /\ Busy(e, {"verifying", "recreating", "reinserting", "vainly"}) => row[e] # "none"
  /\ e \in user /\ row[e] = "none" => Busy(e, {"inserting"})
  /\ env[e].at = "deleted" => e \notin user
Held == \A e \in Envs \ excused : UserHeld(e)

(* What is about to be recorded is an id.                                  *)
Known ==
  \A w \in Workers :
    worker[w].pc \in {"adopting", "inserting"} => worker[w].id # "none"

-----------------------------------------------------------------------------
(* Helpers give workers what they may be doing.                            *)
LEMMA WorkerStates ==
  /\ Idle \in WorkerState /\ Idle.pc = "idle" /\ Idle.env = None /\ Idle.id = "none"
  /\ \A n \in Names : LET x == [Idle EXCEPT !.pc = "naming", !.name = n] IN
       x \in WorkerState /\ x.pc = "naming" /\ x.env = None
  /\ \A pc \in Ensuring \cup Deleting, e \in Envs, id \in Ids :
       /\ At(pc, e, id) \in WorkerState
       /\ At(pc, e, id).pc = pc /\ At(pc, e, id).env = e /\ At(pc, e, id).id = id
  /\ \A x \in WorkerState : LET y == [x EXCEPT !.id = Aged(@)] IN
       y \in WorkerState /\ y.pc = x.pc /\ y.env = x.env /\ y.id = Aged(x.id)
BY DEF Idle, At, Aged, Ids, WorkerState

-----------------------------------------------------------------------------
(* What a worker goes on with has to fit what it works on.                 *)
Fits(x) ==
  /\ x \in WorkerState
  /\ x.env # None <=> x.pc \in Ensuring \cup Deleting
  /\ x.env # None => env[x.env].at # "absent"

LEMMA IdleFits == Fits(Idle)
BY NoneAssumption DEF Fits, Idle, WorkerState, Ids, Ensuring, Deleting

LEMMA AtFits ==
  ASSUME NEW pc \in Ensuring \cup Deleting, NEW e \in Envs, NEW id \in Ids,
         env[e].at # "absent"
  PROVE  Fits(At(pc, e, id))
BY NoneAssumption DEF Fits, At, WorkerState

(* A worker goes on, and nothing else of what it works on changes but the  *)
(* tables.                                                                 *)
LEMMA GoTyped ==
  ASSUME Typed, NEW w \in Workers, NEW x, Fits(x), Go(w, x),
         env' \in [Envs -> EnvState],
         \A e \in Envs : env[e].at # "absent" => env'[e].at # "absent",
         user' \in SUBSET Envs, row' \in [Envs -> Ids], conns' \in SUBSET Envs,
         \A e \in conns' : row'[e] # "none",
         by' \in [Envs -> Workers \cup {None}],
         touched' \in SUBSET Envs, excused' \in SUBSET Envs
  PROVE  Typed'
<1>1. worker' \in [Workers -> WorkerState]
  BY DEF Go, Fits, Typed, TypeOK
<1>2. \A v \in Workers : worker'[v] = IF v = w THEN x ELSE worker[v]
  BY DEF Go, Typed, TypeOK
<1>3. \A v \in Workers : worker'[v].env # None <=> worker'[v].pc \in Ensuring \cup Deleting
  BY <1>2 DEF Fits, Typed, TypeOK
<1>4. WorkedOn'
  BY <1>2, NoneAssumption DEF Fits, Typed, WorkedOn
<1> QED
  BY <1>1, <1>3, <1>4 DEF Typed, TypeOK

(* A user is deleted at Headscale.                                         *)
LEMMA GoneTyped ==
  ASSUME Typed, NEW e \in Envs, NEW w, NEW x, Fits(x), UserGone(e, w, x),
         UNCHANGED <<env, conns, by>>,
         touched' \in SUBSET Envs, excused' \in SUBSET Envs
  PROVE  Typed'
<1>1. \A id \in Ids : Aged(id) \in Ids /\ (Aged(id) = "none" <=> id = "none")
  BY DEF Aged, Ids
<1>2. /\ row' \in [Envs -> Ids] /\ user' \in SUBSET Envs
      /\ \A f \in Envs : row[f] # "none" => row'[f] # "none"
  BY <1>1 DEF UserGone, Typed, TypeOK
<1>3. ASSUME NEW v \in Workers
      PROVE  /\ worker'[v] = x
                \/ worker'[v] = worker[v]
                \/ worker'[v] = [worker[v] EXCEPT !.id = Aged(@)]
             /\ worker'[v] \in WorkerState
             /\ worker'[v].env # None <=> worker'[v].pc \in Ensuring \cup Deleting
             /\ worker'[v].env # None => env[worker'[v].env].at # "absent"
  <2>1. /\ worker[v] \in WorkerState
        /\ worker[v].env # None <=> worker[v].pc \in Ensuring \cup Deleting
        /\ worker[v].env # None => env[worker[v].env].at # "absent"
    <3>1. worker[v].env \in Envs \cup {None}
      BY DEF Typed, TypeOK, WorkerState
    <3> QED
      BY <3>1 DEF Typed, TypeOK, WorkedOn
  <2>2. \/ worker'[v] = x
        \/ worker'[v] = worker[v]
        \/ worker'[v] = [worker[v] EXCEPT !.id = Aged(@)]
    BY DEF UserGone
  <2>3. LET y == [worker[v] EXCEPT !.id = Aged(@)] IN
          y \in WorkerState /\ y.pc = worker[v].pc /\ y.env = worker[v].env
    BY <2>1, WorkerStates
  <2> QED
    BY <2>1, <2>2, <2>3 DEF Fits
<1>4. worker' \in [Workers -> WorkerState]
  BY <1>3 DEF UserGone
<1> QED
  BY <1>2, <1>3, <1>4, NoneAssumption DEF Typed, TypeOK, WorkedOn

-----------------------------------------------------------------------------
(* Who moves, and where to.                                                *)
LEMMA Moved ==
  ASSUME Typed, NEW w \in Workers, NEW x, Go(w, x)
  PROVE  worker'[w] = x /\ \A v \in Workers \ {w} : worker'[v] = worker[v]
BY DEF Typed, TypeOK, Go

LEMMA GoneMoved ==
  ASSUME Typed, NEW e \in Envs, NEW w, NEW x, UserGone(e, w, x)
  PROVE  /\ user' = user \ {e}
         /\ \A f \in Envs : /\ f # e => row'[f] = row[f]
                            /\ row'[f] = "none" <=> row[f] = "none"
         /\ \A v \in Workers :
              /\ v = w => worker'[v] = x
              /\ v # w => /\ worker'[v].pc = worker[v].pc
                          /\ worker'[v].env = worker[v].env
                          /\ worker'[v].env # e => worker'[v] = worker[v]
<1>1. \A v \in Workers : v # w =>
        worker'[v] = worker[v]
          \/ (worker[v].env = e /\ worker'[v] = [worker[v] EXCEPT !.id = Aged(@)])
  BY DEF UserGone
<1>2. \A v \in Workers : worker[v] \in WorkerState
  BY DEF Typed, TypeOK
<1>3. \A f \in Envs : row'[f] = row[f] \/ (f = e /\ row'[f] = Aged(row[f]))
  BY DEF UserGone, Typed, TypeOK
<1>4. \A f \in Envs : row'[f] = "none" <=> row[f] = "none"
  BY <1>3 DEF Aged
<1>5. \A v \in Workers : v # w => /\ worker'[v].pc = worker[v].pc
                                  /\ worker'[v].env = worker[v].env
                                  /\ worker'[v].env # e => worker'[v] = worker[v]
  <2> SUFFICES ASSUME NEW v \in Workers, v # w,
                      worker[v].env = e, worker'[v] = [worker[v] EXCEPT !.id = Aged(@)]
               PROVE  worker'[v].pc = worker[v].pc /\ worker'[v].env = worker[v].env
    BY <1>1
  <2> QED
    BY <1>2 DEF WorkerState
<1>6. user' = user \ {e} /\ \A v \in Workers : v = w => worker'[v] = x
  BY DEF UserGone
<1> QED
  BY <1>3, <1>4, <1>5, <1>6

(* Every step leaves every worker with something it may be doing.          *)
LEMMA KeepsTypes ==
  ASSUME Typed, [Next]_vars
  PROVE  Typed'
<1>1. ASSUME NEW w \in Workers, NEW n \in Names, CreateBegin(w, n) PROVE Typed'
  BY <1>1, NoneAssumption DEF CreateBegin, Typed, TypeOK, WorkedOn,
    WorkerState, EnvState, Ids, Ensuring, Deleting, history, Go, At, Idle,
    Present
<1>2. ASSUME NEW w \in Workers, CreateInsert(w) PROVE Typed'
  <2>1. /\ Go(w, Idle) /\ UNCHANGED <<user, row, conns, touched, excused>>
    BY <1>2 DEF CreateInsert
  <2>2. CASE UNCHANGED <<env, by>>
    BY <2>1, <2>2, IdleFits, GoTyped DEF Typed, TypeOK
  <2>3. ASSUME NEW f \in Envs,
               env' = [env EXCEPT ![f] = [at |-> "present", name |-> worker[w].name]],
               by' = [by EXCEPT ![f] = w]
        PROVE  Typed'
    <3>1. worker[w].name \in Names \cup {None}
      BY DEF Typed, TypeOK, WorkerState
    <3> QED
      BY <2>1, <2>3, <3>1, IdleFits, GoTyped DEF Typed, TypeOK, EnvState
  <2> QED
    BY <1>2, <2>2, <2>3 DEF CreateInsert
<1>3. ASSUME NEW w \in Workers, NEW e \in Envs, EnsureBegin(w, e) PROVE Typed'
  BY <1>3, NoneAssumption DEF EnsureBegin, Busy, Typed, TypeOK, WorkedOn,
    WorkerState, EnvState, Ids, Ensuring, Deleting, history, Go, At, Idle,
    Present
<1>4. ASSUME NEW w \in Workers, NEW e \in Envs, Verify(w, e) PROVE Typed'
  BY <1>4, NoneAssumption DEF Verify, Is, Typed, TypeOK, WorkedOn,
    WorkerState, EnvState, Ids, Ensuring, Deleting, history, Go, At, Idle,
    Present
<1>5. ASSUME NEW w \in Workers, NEW e \in Envs, LookUp(w, e) PROVE Typed'
  BY <1>5, NoneAssumption DEF LookUp, Is, Typed, TypeOK, WorkedOn,
    WorkerState, EnvState, Ids, Ensuring, Deleting, history, Go, At, Idle,
    Present
<1>6. ASSUME NEW w \in Workers, NEW e \in Envs, CreateUser(w, e) PROVE Typed'
  <2>1. /\ UNCHANGED <<env, row, conns, by, touched, excused>>
        /\ user' \in SUBSET Envs
    BY <1>6 DEF CreateUser, history, Typed, TypeOK
  <2>2. env[e].at # "absent"
    BY <1>6 DEF CreateUser, Typed, WorkedOn
  <2>3. PICK x \in {Idle, At("inserting", e, "current"), At("reinserting", e, "current")} :
          Go(w, x)
    BY <1>6 DEF CreateUser, Posting
  <2>4. Fits(x)
    BY <2>2, IdleFits, AtFits DEF Ids, Ensuring
  <2> QED
    BY <2>1, <2>3, <2>4, GoTyped DEF Typed, TypeOK
<1>7. ASSUME NEW w \in Workers, NEW e \in Envs, InsertRow(w, e) PROVE Typed'
  BY <1>7, NoneAssumption DEF InsertRow, Typed, TypeOK, WorkedOn,
    WorkerState, EnvState, Ids, Ensuring, Deleting, history, Go, At, Idle,
    Present
<1>8. ASSUME NEW w \in Workers, NEW e \in Envs, MakeKey(w, e) PROVE Typed'
  BY <1>8, NoneAssumption DEF MakeKey, Is, Typed, TypeOK, WorkedOn,
    WorkerState, EnvState, Ids, Ensuring, Deleting, history, Go, At, Idle,
    Present
<1>9. ASSUME NEW w \in Workers, NEW e \in Envs, StoreKey(w, e) PROVE Typed'
  <2>1. Go(w, Idle) /\ UNCHANGED <<env, user, row, by, touched, excused>>
    BY <1>9 DEF StoreKey, history
  <2>2. conns' \in SUBSET Envs /\ \A f \in conns' : row[f] # "none"
    <3>1. conns' = conns \/ (conns' = conns \cup {e} /\ row[e] # "none")
      BY <1>9 DEF StoreKey
    <3> QED
      BY <3>1 DEF Typed, TypeOK
  <2> QED
    BY <2>1, <2>2, IdleFits, GoTyped DEF Typed, TypeOK
<1>10. ASSUME NEW w \in Workers, NEW e \in Envs, DeleteBegin(w, e) PROVE Typed'
  BY <1>10, NoneAssumption DEF DeleteBegin, Busy, Typed, TypeOK, WorkedOn,
    WorkerState, EnvState, Ids, Ensuring, Deleting, history, Go, At, Idle,
    Present
<1>11. ASSUME NEW w \in Workers, NEW e \in Envs, RemoveUser(w, e) PROVE Typed'
  <2>1. UNCHANGED <<env, conns, by, touched, excused>> /\ Is(w, e, "removing")
    BY <1>11 DEF RemoveUser, history
  <2>2. env[e].at # "absent"
    BY <2>1 DEF Is, Typed, WorkedOn
  <2>3. \A pc \in Deleting : Fits(At(pc, e, "none"))
    BY <2>2, AtFits DEF Ids
  <2>4. CASE UserGone(e, w, At("unrecording", e, "none"))
    BY <2>1, <2>3, <2>4, GoneTyped DEF Typed, TypeOK, Deleting
  <2>5. CASE Go(w, At("dropping", e, "none")) /\ UNCHANGED <<user, row>>
    BY <2>1, <2>3, <2>5, GoTyped DEF Typed, TypeOK, Deleting
  <2> QED
    BY <1>11, <2>4, <2>5 DEF RemoveUser
<1>12. ASSUME NEW w \in Workers, NEW e \in Envs, UnrecordUser(w, e) PROVE Typed'
  <2>1. UNCHANGED <<env, user, conns, by, touched, excused>> /\ Is(w, e, "unrecording")
    BY <1>12 DEF UnrecordUser, history
  <2>2. Fits(At("dropping", e, "none"))
    BY <2>1, AtFits DEF Is, Typed, WorkedOn, Ids, Deleting
  <2>3. CASE /\ e \notin conns /\ row' = [row EXCEPT ![e] = "none"]
             /\ Go(w, At("dropping", e, "none"))
    <3>1. row' \in [Envs -> Ids] /\ \A f \in conns : row'[f] # "none"
      BY <2>3 DEF Typed, TypeOK, Ids
    <3> QED
      BY <2>1, <2>2, <2>3, <3>1, GoTyped DEF Typed, TypeOK
  <2>4. CASE Go(w, Idle) /\ UNCHANGED row
    BY <2>1, <2>4, IdleFits, GoTyped DEF Typed, TypeOK
  <2> QED
    BY <1>12, <2>3, <2>4 DEF UnrecordUser
<1>13. ASSUME NEW w \in Workers, NEW e \in Envs, Drop(w, e) PROVE Typed'
  <2>1. /\ Go(w, Idle) /\ UNCHANGED <<user, by, touched, excused>>
        /\ env' = [env EXCEPT ![e].at = "deleted"]
        /\ row' = [row EXCEPT ![e] = "none"] /\ conns' = conns \ {e}
    BY <1>13 DEF Drop, history
  <2>2. /\ env' \in [Envs -> EnvState]
        /\ \A f \in Envs : env[f].at # "absent" => env'[f].at # "absent"
    BY <2>1 DEF Typed, TypeOK, EnvState
  <2>3. row' \in [Envs -> Ids] /\ \A f \in conns' : row'[f] # "none"
    BY <2>1 DEF Typed, TypeOK, Ids
  <2> QED
    BY <2>1, <2>2, <2>3, IdleFits, GoTyped DEF Typed, TypeOK
<1>14. ASSUME NEW w \in Workers, NEW e \in Envs, ReadFails(w, e) PROVE Typed'
  <2>1. /\ UNCHANGED <<env, user, row, conns, by, touched>>
        /\ excused' \in SUBSET Envs
        /\ Is(w, e, "verifying") \/ Is(w, e, "looking")
    BY <1>14 DEF ReadFails, Failed, Typed, TypeOK
  <2>2. \A pc \in Ensuring, id \in Ids : Fits(At(pc, e, id))
    BY <2>1, AtFits DEF Is, Typed, WorkedOn
  <2>3. worker[w].id \in Ids /\ "none" \in Ids
    BY DEF Typed, TypeOK, WorkerState, Ids
  <2>4. PICK pc \in Ensuring, id \in Ids : Go(w, At(pc, e, id))
    BY <1>14, <2>3 DEF ReadFails, Ensuring
  <2> QED
    BY <2>1, <2>2, <2>4, GoTyped DEF Typed, TypeOK
<1>15. ASSUME NEW w \in Workers, NEW e \in Envs, CreateUserFails(w, e) PROVE Typed'
  BY <1>15, NoneAssumption DEF CreateUserFails, Posting, Failed, Typed,
    TypeOK, WorkedOn, WorkerState, EnvState, Ids, Ensuring, Deleting,
    history, Go, At, Idle, Present
<1>16. ASSUME NEW w \in Workers, NEW e \in Envs, RemoveUserFails(w, e) PROVE Typed'
  <2>1. /\ UNCHANGED <<env, conns, by, touched>> /\ Is(w, e, "removing")
        /\ touched' \in SUBSET Envs /\ excused' \in SUBSET Envs
    BY <1>16 DEF RemoveUserFails, Failed, Typed, TypeOK
  <2>2. env[e].at # "absent"
    BY <2>1 DEF Is, Typed, WorkedOn
  <2>3. \A pc \in Deleting : Fits(At(pc, e, "none"))
    BY <2>2, AtFits DEF Ids
  <2>4. CASE UserGone(e, w, At("dropping", e, "none"))
    BY <2>1, <2>3, <2>4, GoneTyped DEF Typed, TypeOK, Deleting
  <2>5. CASE Go(w, At("dropping", e, "none")) /\ UNCHANGED <<user, row>>
    BY <2>1, <2>3, <2>5, GoTyped DEF Typed, TypeOK, Deleting
  <2> QED
    BY <1>16, <2>4, <2>5 DEF RemoveUserFails
<1>17. ASSUME NEW w \in Workers, NEW e \in Envs, Ends(w, e) PROVE Typed'
  BY <1>17, NoneAssumption DEF Ends, Failed, Typed, TypeOK, WorkedOn,
    WorkerState, EnvState, Ids, Ensuring, Deleting, history, Go, At, Idle,
    Present
<1>18. ASSUME NEW e \in Envs, RemoveOutside(e) PROVE Typed'
  BY <1>18, IdleFits, GoneTyped DEF RemoveOutside, Typed, TypeOK
<1>19. ASSUME NEW e \in Envs, PurgeConnections(e) PROVE Typed'
  BY <1>19, NoneAssumption DEF PurgeConnections, Typed, TypeOK, WorkedOn,
    WorkerState, EnvState, Ids, Ensuring, Deleting, history, Go, At, Idle,
    Present
<1>20. CASE UNCHANGED vars
  BY <1>20, NoneAssumption DEF vars, Typed, TypeOK, WorkedOn, WorkerState,
    EnvState, Ids, Ensuring, Deleting, history, Go, At, Idle, Present
<1> QED
  BY <1>1, <1>2, <1>3, <1>4, <1>5, <1>6, <1>7, <1>8, <1>9, <1>10,
     <1>11, <1>12, <1>13, <1>14, <1>15, <1>16, <1>17, <1>18, <1>19,
     <1>20
  DEF Next, Proceed, Failure

(* Only the insertion of an environment matters: its worker has none yet.   *)
LEMMA KeepsNames ==
  ASSUME Typed, Named, [Next]_vars
  PROVE  Named'
<1>1. ASSUME NEW w \in Workers, NEW n \in Names, CreateBegin(w, n) PROVE Named'
  BY <1>1, NoneAssumption DEF CreateBegin, Typed, Named, NamersHaveNone,
    NamesApart, EnvState, TypeOK, WorkerState, Go, At, Idle, Present,
    history
<1>2. ASSUME NEW w \in Workers, CreateInsert(w) PROVE Named'
  <2>1. /\ worker'[w] = Idle /\ \A v \in Workers \ {w} : worker'[v] = worker[v]
        /\ worker[w].pc = "naming"
    BY <1>2, Moved DEF CreateInsert
  <2>2. CASE UNCHANGED <<env, by>>
    BY <2>1, <2>2 DEF Idle, Named, NamersHaveNone, NamesApart, Present
  <2>3. ASSUME NEW e \in Envs, env[e].at = "absent",
               ~\E f \in Envs : Present(f) /\ env[f].name = worker[w].name,
               env' = [env EXCEPT ![e] = [at |-> "present", name |-> worker[w].name]],
               by' = [by EXCEPT ![e] = w]
        PROVE  Named'
    <3>1. /\ env'[e].name = worker[w].name /\ by'[e] = w
          /\ \A f \in Envs \ {e} : env'[f] = env[f] /\ by'[f] = by[f]
      BY <2>3 DEF Typed, TypeOK
    <3>2. NamersHaveNone'
      BY <2>1, <3>1 DEF Idle, Named, NamersHaveNone, NamesApart, Present
    <3>3. NamesApart'
      BY <2>1, <2>3, <3>1 DEF Named, NamersHaveNone, NamesApart, Present
    <3> QED
      BY <3>2, <3>3 DEF Named
  <2> QED
    BY <1>2, <2>2, <2>3 DEF CreateInsert
<1>3. ASSUME NEW w \in Workers, NEW e \in Envs, EnsureBegin(w, e) PROVE Named'
  BY <1>3, NoneAssumption DEF EnsureBegin, Busy, Typed, Named,
    NamersHaveNone, NamesApart, EnvState, TypeOK, WorkerState, Go, At,
    Idle, Present, history
<1>4. ASSUME NEW w \in Workers, NEW e \in Envs, Verify(w, e) PROVE Named'
  BY <1>4, NoneAssumption DEF Verify, Is, Typed, Named, NamersHaveNone,
    NamesApart, EnvState, TypeOK, WorkerState, Go, At, Idle, Present,
    history
<1>5. ASSUME NEW w \in Workers, NEW e \in Envs, LookUp(w, e) PROVE Named'
  BY <1>5, NoneAssumption DEF LookUp, Is, Typed, Named, NamersHaveNone,
    NamesApart, EnvState, TypeOK, WorkerState, Go, At, Idle, Present,
    history
<1>6. ASSUME NEW w \in Workers, NEW e \in Envs, CreateUser(w, e) PROVE Named'
  BY <1>6, NoneAssumption DEF CreateUser, Posting, Typed, Named,
    NamersHaveNone, NamesApart, EnvState, TypeOK, WorkerState, Go, At,
    Idle, Present, history
<1>7. ASSUME NEW w \in Workers, NEW e \in Envs, InsertRow(w, e) PROVE Named'
  BY <1>7, NoneAssumption DEF InsertRow, Typed, Named, NamersHaveNone,
    NamesApart, EnvState, TypeOK, WorkerState, Go, At, Idle, Present,
    history
<1>8. ASSUME NEW w \in Workers, NEW e \in Envs, MakeKey(w, e) PROVE Named'
  BY <1>8, NoneAssumption DEF MakeKey, Is, Typed, Named, NamersHaveNone,
    NamesApart, EnvState, TypeOK, WorkerState, Go, At, Idle, Present,
    history
<1>9. ASSUME NEW w \in Workers, NEW e \in Envs, StoreKey(w, e) PROVE Named'
  BY <1>9, NoneAssumption DEF StoreKey, Is, Typed, Named, NamersHaveNone,
    NamesApart, EnvState, TypeOK, WorkerState, Go, At, Idle, Present,
    history
<1>10. ASSUME NEW w \in Workers, NEW e \in Envs, DeleteBegin(w, e) PROVE Named'
  BY <1>10, NoneAssumption DEF DeleteBegin, Busy, Typed, Named,
    NamersHaveNone, NamesApart, EnvState, TypeOK, WorkerState, Go, At,
    Idle, Present, history
<1>11. ASSUME NEW w \in Workers, NEW e \in Envs, RemoveUser(w, e) PROVE Named'
  <2>1. UNCHANGED <<env, by>>
    BY <1>11 DEF RemoveUser, Failed, history
  <2>2. \A v \in Workers : worker'[v].pc = worker[v].pc \/ worker'[v].pc \in Deleting
    <3>1. CASE \E pc \in Deleting : UserGone(e, w, At(pc, e, "none"))
      BY <3>1, GoneMoved DEF At
    <3>2. CASE Go(w, At("dropping", e, "none"))
      BY <3>2, Moved DEF At, Deleting
    <3> QED
      BY <1>11, <3>1, <3>2 DEF RemoveUser, Deleting
  <2> QED
    BY <2>1, <2>2 DEF Deleting, Named, NamersHaveNone, NamesApart, Present
<1>12. ASSUME NEW w \in Workers, NEW e \in Envs, UnrecordUser(w, e) PROVE Named'
  BY <1>12, NoneAssumption DEF UnrecordUser, Is, Typed, Named,
    NamersHaveNone, NamesApart, EnvState, TypeOK, WorkerState, Go, At,
    Idle, Present, history
<1>13. ASSUME NEW w \in Workers, NEW e \in Envs, Drop(w, e) PROVE Named'
  BY <1>13, NoneAssumption DEF Drop, Is, Typed, Named, NamersHaveNone,
    NamesApart, EnvState, TypeOK, WorkerState, Go, At, Idle, Present,
    history
<1>14. ASSUME NEW w \in Workers, NEW e \in Envs, ReadFails(w, e) PROVE Named'
  <2>1. UNCHANGED <<env, by>> /\ worker'[w].pc # "naming"
    BY <1>14, Moved DEF ReadFails, Failed, At
  <2>2. \A v \in Workers \ {w} : worker'[v] = worker[v]
    BY <1>14, Moved DEF ReadFails
  <2> QED
    BY <2>1, <2>2 DEF Named, NamersHaveNone, NamesApart, Present
<1>15. ASSUME NEW w \in Workers, NEW e \in Envs, CreateUserFails(w, e) PROVE Named'
  BY <1>15, NoneAssumption DEF CreateUserFails, Posting, Failed, Typed,
    Named, NamersHaveNone, NamesApart, EnvState, TypeOK, WorkerState, Go,
    At, Idle, Present, history
<1>16. ASSUME NEW w \in Workers, NEW e \in Envs, RemoveUserFails(w, e) PROVE Named'
  <2>1. UNCHANGED <<env, by>>
    BY <1>16 DEF RemoveUserFails, Failed, history
  <2>2. \A v \in Workers : worker'[v].pc = worker[v].pc \/ worker'[v].pc \in Deleting
    <3>1. CASE \E pc \in Deleting : UserGone(e, w, At(pc, e, "none"))
      BY <3>1, GoneMoved DEF At
    <3>2. CASE Go(w, At("dropping", e, "none"))
      BY <3>2, Moved DEF At, Deleting
    <3> QED
      BY <1>16, <3>1, <3>2 DEF RemoveUserFails, Deleting
  <2> QED
    BY <2>1, <2>2 DEF Deleting, Named, NamersHaveNone, NamesApart, Present
<1>17. ASSUME NEW w \in Workers, NEW e \in Envs, Ends(w, e) PROVE Named'
  BY <1>17, NoneAssumption DEF Ends, Failed, Typed, Named, NamersHaveNone,
    NamesApart, EnvState, TypeOK, WorkerState, Go, At, Idle, Present,
    history
<1>18. ASSUME NEW e \in Envs, RemoveOutside(e) PROVE Named'
  BY <1>18, NoneAssumption DEF RemoveOutside, UserGone, Aged, Typed,
    Named, NamersHaveNone, NamesApart, EnvState, TypeOK, WorkerState, Go,
    At, Idle, Present, history
<1>19. ASSUME NEW e \in Envs, PurgeConnections(e) PROVE Named'
  BY <1>19, NoneAssumption DEF PurgeConnections, Typed, Named,
    NamersHaveNone, NamesApart, EnvState, TypeOK, WorkerState, Go, At,
    Idle, Present, history
<1>20. CASE UNCHANGED vars
  BY <1>20, NoneAssumption DEF vars, Typed, Named, NamersHaveNone,
    NamesApart, EnvState, TypeOK, WorkerState, Go, At, Idle, Present,
    history
<1> QED
  BY <1>1, <1>2, <1>3, <1>4, <1>5, <1>6, <1>7, <1>8, <1>9, <1>10,
     <1>11, <1>12, <1>13, <1>14, <1>15, <1>16, <1>17, <1>18, <1>19,
     <1>20
  DEF Next, Proceed, Failure

(* What is found or created is recorded as it is, unless a deletion is on.  *)
LEMMA KeepsRecords ==
  ASSUME Typed, Recorded, [Next]_vars
  PROVE  Recorded'
<1>1. ASSUME NEW w \in Workers, NEW n \in Names, CreateBegin(w, n) PROVE Recorded'
  BY <1>1, NoneAssumption DEF CreateBegin, Typed, Recorded, DeletersTouch,
    RecordersAgree, RecordAgrees, Ids, Ensuring, Deleting, TypeOK,
    WorkerState, Go, At, Idle, Present, history
<1>2. ASSUME NEW w \in Workers, CreateInsert(w) PROVE Recorded'
  BY <1>2, NoneAssumption DEF CreateInsert, Typed, Recorded,
    DeletersTouch, RecordersAgree, RecordAgrees, Ids, Ensuring, Deleting,
    TypeOK, WorkerState, Go, At, Idle, Present, history
<1>3. ASSUME NEW w \in Workers, NEW e \in Envs, EnsureBegin(w, e) PROVE Recorded'
  BY <1>3, NoneAssumption DEF EnsureBegin, Busy, Typed, Recorded,
    DeletersTouch, RecordersAgree, RecordAgrees, Ids, Ensuring, Deleting,
    TypeOK, WorkerState, Go, At, Idle, Present, history
<1>4. ASSUME NEW w \in Workers, NEW e \in Envs, Verify(w, e) PROVE Recorded'
  BY <1>4, NoneAssumption DEF Verify, Is, Typed, Recorded, DeletersTouch,
    RecordersAgree, RecordAgrees, Ids, Ensuring, Deleting, TypeOK,
    WorkerState, Go, At, Idle, Present, history
<1>5. ASSUME NEW w \in Workers, NEW e \in Envs, LookUp(w, e) PROVE Recorded'
  BY <1>5, NoneAssumption DEF LookUp, Is, Typed, Recorded, DeletersTouch,
    RecordersAgree, RecordAgrees, Ids, Ensuring, Deleting, TypeOK,
    WorkerState, Go, At, Idle, Present, history
<1>6. ASSUME NEW w \in Workers, NEW e \in Envs, CreateUser(w, e) PROVE Recorded'
  BY <1>6, NoneAssumption DEF CreateUser, Posting, Typed, Recorded,
    DeletersTouch, RecordersAgree, RecordAgrees, Ids, Ensuring, Deleting,
    TypeOK, WorkerState, Go, At, Idle, Present, history
<1>7. ASSUME NEW w \in Workers, NEW e \in Envs, InsertRow(w, e) PROVE Recorded'
  BY <1>7, NoneAssumption DEF InsertRow, Typed, Recorded, DeletersTouch,
    RecordersAgree, RecordAgrees, Ids, Ensuring, Deleting, TypeOK,
    WorkerState, Go, At, Idle, Present, history
<1>8. ASSUME NEW w \in Workers, NEW e \in Envs, MakeKey(w, e) PROVE Recorded'
  BY <1>8, NoneAssumption DEF MakeKey, Is, Typed, Recorded, DeletersTouch,
    RecordersAgree, RecordAgrees, Ids, Ensuring, Deleting, TypeOK,
    WorkerState, Go, At, Idle, Present, history
<1>9. ASSUME NEW w \in Workers, NEW e \in Envs, StoreKey(w, e) PROVE Recorded'
  BY <1>9, NoneAssumption DEF StoreKey, Is, Typed, Recorded,
    DeletersTouch, RecordersAgree, RecordAgrees, Ids, Ensuring, Deleting,
    TypeOK, WorkerState, Go, At, Idle, Present, history
<1>10. ASSUME NEW w \in Workers, NEW e \in Envs, DeleteBegin(w, e) PROVE Recorded'
  BY <1>10, NoneAssumption DEF DeleteBegin, Busy, Typed, Recorded,
    DeletersTouch, RecordersAgree, RecordAgrees, Ids, Ensuring, Deleting,
    TypeOK, WorkerState, Go, At, Idle, Present, history
<1>11. ASSUME NEW w \in Workers, NEW e \in Envs, RemoveUser(w, e) PROVE Recorded'
  <2>1. e \in touched'
    BY <1>11 DEF RemoveUser, Is, Recorded, DeletersTouch, Deleting, history
  <2>2. touched \subseteq touched'
    BY <1>11 DEF RemoveUser, history
  <2>3. ASSUME NEW pc \in Deleting, UserGone(e, w, At(pc, e, "none"))
        PROVE  Recorded'
    BY <2>1, <2>2, <2>3, GoneMoved DEF At, Deleting, Recorded, DeletersTouch, RecordersAgree, RecordAgrees
  <2>4. ASSUME Go(w, At("dropping", e, "none")), UNCHANGED <<user, row>>
        PROVE  Recorded'
    BY <2>1, <2>2, <2>4, Moved DEF At, Deleting, Recorded, DeletersTouch, RecordersAgree, RecordAgrees
  <2> QED
    BY <1>11, <2>3, <2>4 DEF RemoveUser, Deleting
<1>12. ASSUME NEW w \in Workers, NEW e \in Envs, UnrecordUser(w, e) PROVE Recorded'
  <2>1. /\ e \in touched /\ UNCHANGED <<user, touched>>
        /\ \A f \in Envs \ {e} : row'[f] = row[f]
    BY <1>12 DEF UnrecordUser, Is, Deleting, Recorded, DeletersTouch, history, Typed, TypeOK
  <2>2. /\ worker'[w].env = e \/ worker'[w] = Idle
        /\ \A v \in Workers \ {w} : worker'[v] = worker[v]
    BY <1>12, Moved DEF UnrecordUser, At
  <2> QED
    BY <2>1, <2>2 DEF Idle, Deleting, Recorded, DeletersTouch, RecordersAgree, RecordAgrees
<1>13. ASSUME NEW w \in Workers, NEW e \in Envs, Drop(w, e) PROVE Recorded'
  BY <1>13, NoneAssumption DEF Drop, Is, Typed, Recorded, DeletersTouch,
    RecordersAgree, RecordAgrees, Ids, Ensuring, Deleting, TypeOK,
    WorkerState, Go, At, Idle, Present, history
<1>14. ASSUME NEW w \in Workers, NEW e \in Envs, ReadFails(w, e) PROVE Recorded'
  <2>1. /\ worker'[w].pc \in {"recreating", "creating"}
        /\ \A v \in Workers \ {w} : worker'[v] = worker[v]
    BY <1>14, Moved DEF ReadFails, At
  <2>2. UNCHANGED <<user, row, touched>>
    BY <1>14 DEF ReadFails, Failed
  <2> QED
    BY <2>1, <2>2 DEF Deleting, Recorded, DeletersTouch, RecordersAgree, RecordAgrees
<1>15. ASSUME NEW w \in Workers, NEW e \in Envs, CreateUserFails(w, e) PROVE Recorded'
  BY <1>15, NoneAssumption DEF CreateUserFails, Posting, Failed, Typed,
    Recorded, DeletersTouch, RecordersAgree, RecordAgrees, Ids, Ensuring,
    Deleting, TypeOK, WorkerState, Go, At, Idle, Present, history
<1>16. ASSUME NEW w \in Workers, NEW e \in Envs, RemoveUserFails(w, e) PROVE Recorded'
  <2>1. e \in touched'
    BY <1>16 DEF RemoveUserFails, Is, Failed, Recorded, DeletersTouch, Deleting, history
  <2>2. touched \subseteq touched'
    BY <1>16 DEF RemoveUserFails, Failed, history
  <2>3. ASSUME NEW pc \in Deleting, UserGone(e, w, At(pc, e, "none"))
        PROVE  Recorded'
    BY <2>1, <2>2, <2>3, GoneMoved DEF At, Deleting, Recorded, DeletersTouch, RecordersAgree, RecordAgrees
  <2>4. ASSUME Go(w, At("dropping", e, "none")), UNCHANGED <<user, row>>
        PROVE  Recorded'
    BY <2>1, <2>2, <2>4, Moved DEF At, Deleting, Recorded, DeletersTouch, RecordersAgree, RecordAgrees
  <2> QED
    BY <1>16, <2>3, <2>4 DEF RemoveUserFails, Deleting
<1>17. ASSUME NEW w \in Workers, NEW e \in Envs, Ends(w, e) PROVE Recorded'
  BY <1>17, NoneAssumption DEF Ends, Failed, Typed, Recorded,
    DeletersTouch, RecordersAgree, RecordAgrees, Ids, Ensuring, Deleting,
    TypeOK, WorkerState, Go, At, Idle, Present, history
<1>18. ASSUME NEW e \in Envs, RemoveOutside(e) PROVE Recorded'
  <2>1. e \in touched' /\ touched \subseteq touched' /\ UserGone(e, None, Idle)
    BY <1>18 DEF RemoveOutside
  <2> QED
    BY <2>1, GoneMoved, NoneAssumption DEF Recorded, DeletersTouch, RecordersAgree, RecordAgrees
<1>19. ASSUME NEW e \in Envs, PurgeConnections(e) PROVE Recorded'
  BY <1>19, NoneAssumption DEF PurgeConnections, Typed, Recorded,
    DeletersTouch, RecordersAgree, RecordAgrees, Ids, Ensuring, Deleting,
    TypeOK, WorkerState, Go, At, Idle, Present, history
<1>20. CASE UNCHANGED vars
  BY <1>20, NoneAssumption DEF vars, Typed, Recorded, DeletersTouch,
    RecordersAgree, RecordAgrees, Ids, Ensuring, Deleting, TypeOK,
    WorkerState, Go, At, Idle, Present, history
<1> QED
  BY <1>1, <1>2, <1>3, <1>4, <1>5, <1>6, <1>7, <1>8, <1>9, <1>10,
     <1>11, <1>12, <1>13, <1>14, <1>15, <1>16, <1>17, <1>18, <1>19,
     <1>20
  DEF Next, Proceed, Failure

-----------------------------------------------------------------------------
(* What is done on one environment leaves the others as they were.         *)
SameFor(f) ==
  /\ env'[f].at = env[f].at /\ (f \in user' <=> f \in user)
  /\ row'[f] = "none" <=> row[f] = "none"
  /\ \A v \in Workers :
       /\ worker'[v].env = f <=> worker[v].env = f
       /\ worker[v].env = f => worker'[v].pc = worker[v].pc

LEMMA SameHeld ==
  ASSUME NEW f \in Envs, UserHeld(f), SameFor(f)
  PROVE  UserHeld(f)'
BY DEF UserHeld, SameFor, Busy, Present

(* A worker on e goes on, or a user of e is deleted.                       *)
LEMMA GoSame ==
  ASSUME Typed, NEW w \in Workers, NEW e \in Envs, NEW x, Go(w, x),
         worker[w].env \in {e, None}, x.env \in {e, None},
         NEW f \in Envs \ {e},
         env'[f].at = env[f].at, f \in user' <=> f \in user, row'[f] = row[f]
  PROVE  SameFor(f)
BY Moved, NoneAssumption DEF SameFor

LEMMA GoneSame ==
  ASSUME Typed, NEW e \in Envs, NEW w \in Workers \cup {None}, NEW x, UserGone(e, w, x),
         w # None => worker[w].env = e /\ x.env \in {e, None}, env' = env,
         NEW f \in Envs \ {e}
  PROVE  SameFor(f)
BY GoneMoved, NoneAssumption DEF SameFor

(* So e alone has to be looked at.                                         *)
LEMMA OthersHeld ==
  ASSUME Typed, Held, NEW e \in Envs, excused \subseteq excused',
         \A f \in Envs \ {e} : SameFor(f), e \notin excused' => UserHeld(e)'
  PROVE  Held'
BY SameHeld DEF Held

(* An id is recorded only when it was told.                                *)
LEMMA GoKnown ==
  ASSUME Typed, Known, NEW w \in Workers, NEW x, Go(w, x),
         x.pc \in {"adopting", "inserting"} => x.id # "none"
  PROVE  Known'
BY Moved DEF Known

LEMMA GoneKnown ==
  ASSUME Typed, Known, NEW e \in Envs, NEW w, NEW x, UserGone(e, w, x),
         x.pc \notin {"adopting", "inserting"}
  PROVE  Known'
<1>1. ASSUME NEW v \in Workers, v # w
      PROVE  /\ worker'[v].pc = worker[v].pc
             /\ worker[v].id # "none" => worker'[v].id # "none"
  <2>1. worker[v] \in WorkerState /\ worker[v].id \in Ids
    BY DEF Typed, TypeOK, WorkerState
  <2>2. \/ worker'[v] = worker[v]
        \/ worker'[v] = [worker[v] EXCEPT !.id = Aged(@)]
    BY <1>1 DEF UserGone
  <2>3. worker[v].id # "none" => Aged(worker[v].id) # "none"
    BY DEF Aged
  <2> QED
    BY <2>1, <2>2, <2>3, WorkerStates
<1> QED
  BY <1>1, GoneMoved DEF Known

LEMMA KeepsKnown ==
  ASSUME Typed, Known, [Next]_vars
  PROVE  Known'
<1>1. ASSUME NEW w \in Workers, NEW n \in Names, CreateBegin(w, n) PROVE Known'
  BY <1>1, GoKnown, WorkerStates DEF CreateBegin
<1>2. ASSUME NEW w \in Workers, CreateInsert(w) PROVE Known'
  BY <1>2, GoKnown, WorkerStates DEF CreateInsert
<1>3. ASSUME NEW w \in Workers, NEW e \in Envs,
             \/ EnsureBegin(w, e) \/ Verify(w, e) \/ LookUp(w, e)
             \/ CreateUser(w, e) \/ MakeKey(w, e) \/ StoreKey(w, e)
      PROVE  Known'
  BY <1>3, GoKnown
  DEF EnsureBegin, Verify, LookUp, CreateUser, Posting, MakeKey, StoreKey, Is, At, Idle
<1>4. ASSUME NEW w \in Workers, NEW e \in Envs, InsertRow(w, e) PROVE Known'
  BY <1>4, GoKnown DEF InsertRow, At, Idle
<1>5. ASSUME NEW w \in Workers, NEW e \in Envs,
             DeleteBegin(w, e) \/ UnrecordUser(w, e) \/ Drop(w, e)
      PROVE  Known'
  BY <1>5, GoKnown DEF DeleteBegin, UnrecordUser, Drop, At, Idle
<1>6. ASSUME NEW w \in Workers, NEW e \in Envs,
             RemoveUser(w, e) \/ RemoveUserFails(w, e)
      PROVE  Known'
  BY <1>6, GoKnown, GoneKnown DEF RemoveUser, RemoveUserFails, At
<1>7. ASSUME NEW w \in Workers, NEW e \in Envs,
             ReadFails(w, e) \/ CreateUserFails(w, e) \/ Ends(w, e)
      PROVE  Known'
  BY <1>7, GoKnown DEF ReadFails, CreateUserFails, Ends, At, Idle
<1>8. ASSUME NEW e \in Envs, RemoveOutside(e) PROVE Known'
  BY <1>8, GoneKnown, WorkerStates DEF RemoveOutside
<1>9. CASE (\E e \in Envs : PurgeConnections(e)) \/ UNCHANGED vars
  BY <1>9 DEF PurgeConnections, vars, Known
<1> QED
  BY <1>1, <1>2, <1>3, <1>4, <1>5, <1>6, <1>7, <1>8, <1>9
  DEF Next, Proceed, Failure

LEMMA IdleParts == Idle.pc = "idle" /\ Idle.env = None
BY DEF Idle

(* A worker on e goes on with a request for a key.                         *)
Backed == {"verifying", "recreating", "reinserting", "vainly"}
LEMMA EnsuringHeld ==
  ASSUME Typed, NEW w \in Workers, NEW e \in Envs, UserHeld(e), NEW x, Go(w, x),
         worker[w].env = e, worker[w].pc \in Ensuring, env' = env,
         x = Idle \/ (x.env = e /\ x.pc \in Ensuring),
         x.pc \in Backed => row'[e] # "none",
         row[e] # "none" => row'[e] # "none",
         e \in user' /\ row'[e] = "none" =>
           x.pc = "inserting" \/ (e \in user /\ worker[w].pc # "inserting")
  PROVE  UserHeld(e)'
<1>1. /\ worker'[w] = x /\ \A v \in Workers \ {w} : worker'[v] = worker[v]
      /\ Idle.env # e /\ Idle.pc = "idle"
  BY Moved, IdleParts, NoneAssumption
<1>2. ~Busy(e, Deleting) /\ Present(e)
  BY DEF UserHeld, Busy
<1>3. ~Busy(e, Deleting)' /\ Present(e)'
  BY <1>1, <1>2 DEF Busy, Present, Ensuring, Deleting
<1>4. Busy(e, Backed)' => row'[e] # "none"
  BY <1>1 DEF Busy, UserHeld, Backed
<1>5. Busy(e, {"inserting"}) =>
        Busy(e, {"inserting"})' \/ worker[w].pc = "inserting"
  BY <1>1 DEF Busy
<1>6. x.pc = "inserting" => Busy(e, {"inserting"})'
  BY <1>1 DEF Busy
<1>7. e \in user' /\ row'[e] = "none" => Busy(e, {"inserting"})'
  BY <1>5, <1>6 DEF UserHeld
<1>8. ~Busy(e, {"unrecording", "dropping"})'
  BY <1>3 DEF Busy, Deleting
<1> QED
  BY <1>3, <1>4, <1>7, <1>8 DEF UserHeld, Present, Backed

(* A worker on e goes on with a deletion.                                  *)
LEMMA DeletingHeld ==
  ASSUME Typed, NEW w \in Workers, NEW e \in Envs, UserHeld(e), NEW x, Go(w, x),
         worker[w].env = e, worker[w].pc \in Deleting, user' = user,
         x = Idle \/ (x.env = e /\ x.pc \in Deleting),
         x.pc \in {"unrecording", "dropping"} => e \notin user,
         row'[e] = "none" => row[e] = "none" \/ e \notin user,
         env'[e].at = "deleted" => env[e].at = "deleted" \/ e \notin user
  PROVE  UserHeld(e)'
<1>1. /\ worker'[w] = x /\ \A v \in Workers \ {w} : worker'[v] = worker[v]
      /\ Idle.env # e /\ Idle.pc = "idle"
  BY Moved, IdleParts, NoneAssumption
<1>2. ~Busy(e, Ensuring)
  BY DEF UserHeld, Busy
<1>3. ~Busy(e, Ensuring)'
  BY <1>1, <1>2 DEF Busy, Ensuring, Deleting
<1>4. Busy(e, {"unrecording", "dropping"})' => e \notin user
  BY <1>1 DEF Busy, UserHeld
<1>5. ~Busy(e, Backed)' /\ ~Busy(e, {"inserting"})
  BY <1>2, <1>3 DEF Busy, Ensuring, Backed
<1>6. e \in user => row[e] # "none"
  BY <1>5 DEF UserHeld
<1> QED
  BY <1>3, <1>4, <1>5, <1>6 DEF UserHeld, Backed

(* Requests for keys make the user only where no deletion is on, and there *)
(* its row follows or is there; a deletion goes on when the user is gone.  *)
LEMMA KeepsHeld ==
  ASSUME Typed, Held, Known, [Next]_vars
  PROVE  Held'
<1>1. ASSUME NEW w \in Workers, NEW n \in Names, CreateBegin(w, n) PROVE Held'
  <2>1. PICK x : x.env = None /\ Go(w, x)
    BY <1>1, WorkerStates DEF CreateBegin
  <2>2. /\ worker[w].env = None /\ worker'[w].env = None
        /\ \A v \in Workers \ {w} : worker'[v] = worker[v]
    BY <1>1, <2>1, Moved, IdleParts DEF CreateBegin
  <2>3. \A f \in Envs : SameFor(f)
    BY <1>1, <2>2, NoneAssumption DEF CreateBegin, SameFor
  <2> QED
    BY <1>1, <2>3, SameHeld DEF CreateBegin, Held, history
<1>2. ASSUME NEW w \in Workers, CreateInsert(w) PROVE Held'
  <2>1. /\ worker[w].env = None /\ worker'[w].env = None
        /\ \A v \in Workers \ {w} : worker'[v] = worker[v]
    BY <1>2, Moved DEF CreateInsert, Idle, Typed, TypeOK, Ensuring, Deleting
  <2>2. \A f \in Envs :
          env'[f].at = env[f].at \/ (env[f].at = "absent" /\ env'[f].at = "present")
    <3>1. CASE UNCHANGED <<env, by>>
      BY <3>1
    <3>2. ASSUME NEW e \in Envs, env[e].at = "absent",
                 env' = [env EXCEPT ![e] = [at |-> "present", name |-> worker[w].name]]
          PROVE  \A f \in Envs : env'[f].at = env[f].at
                   \/ (env[f].at = "absent" /\ env'[f].at = "present")
      BY <3>2 DEF Typed, TypeOK, EnvState
    <3> QED
      BY <1>2, <3>1, <3>2 DEF CreateInsert
  <2>3. UNCHANGED <<user, row, excused>>
    BY <1>2 DEF CreateInsert
  <2> QED
    BY <2>1, <2>2, <2>3, NoneAssumption DEF Held, UserHeld, Busy, Present
<1>3. ASSUME NEW w \in Workers, NEW e \in Envs, EnsureBegin(w, e) PROVE Held'
  <2>1. \A f \in Envs \ {e} : SameFor(f)
    BY <1>3, GoSame
    DEF EnsureBegin, At, Idle, Typed, TypeOK
  <2>2. e \notin excused' => UserHeld(e)'
    BY <1>3, Moved, NoneAssumption
    DEF EnsureBegin, At, Idle, Typed, TypeOK, Held, UserHeld, Busy, Present,
        Ensuring, Deleting
  <2> QED
    BY <1>3, <2>1, <2>2, OthersHeld DEF EnsureBegin, history
<1>4. ASSUME NEW w \in Workers, NEW e \in Envs, Verify(w, e) PROVE Held'
  <2>1. \A f \in Envs \ {e} : SameFor(f)
    BY <1>4, GoSame
    DEF Verify, Is, At, Idle, Typed, TypeOK
  <2>2. e \notin excused' => UserHeld(e)'
    BY <1>4, EnsuringHeld
    DEF Verify, Is, At, Idle, Backed, Ensuring, Held, UserHeld, Busy, history
  <2> QED
    BY <1>4, <2>1, <2>2, OthersHeld DEF Verify, history
<1>5. ASSUME NEW w \in Workers, NEW e \in Envs, LookUp(w, e) PROVE Held'
  <2>1. \A f \in Envs \ {e} : SameFor(f)
    BY <1>5, GoSame
    DEF LookUp, Is, At, Idle, Typed, TypeOK
  <2>2. e \notin excused' => UserHeld(e)'
    BY <1>5, EnsuringHeld
    DEF LookUp, Is, At, Idle, Backed, Ensuring, Held, UserHeld, Busy, history
  <2> QED
    BY <1>5, <2>1, <2>2, OthersHeld DEF LookUp, history
<1>6. ASSUME NEW w \in Workers, NEW e \in Envs, CreateUser(w, e) PROVE Held'
  <2>1. \A f \in Envs \ {e} : SameFor(f)
    BY <1>6, GoSame
    DEF CreateUser, Posting, At, Idle, Typed, TypeOK
  <2>2. e \notin excused' => UserHeld(e)'
    <3> SUFFICES ASSUME e \notin excused' PROVE UserHeld(e)'
      OBVIOUS
    <3>1. /\ UserHeld(e) /\ worker[w].env = e /\ worker[w].pc \in Posting
          /\ worker[w].pc \in Ensuring
      BY <1>6 DEF CreateUser, Posting, Held, history, Ensuring
    <3>2. Present(e) /\ (worker[w].pc \in Backed => row[e] # "none")
      BY <3>1 DEF UserHeld, Busy, Backed
    <3>3. user' = user \cup {e} /\ UNCHANGED <<env, row>>
      BY <1>6 DEF CreateUser
    <3>4. CASE Go(w, Idle) /\ (e \in user \/ worker[w].pc \in Backed)
      BY <3>1, <3>2, <3>3, <3>4, EnsuringHeld, IdleParts DEF Posting, Backed
    <3>5. CASE Go(w, At("inserting", e, "current"))
      BY <3>1, <3>2, <3>3, <3>5, EnsuringHeld DEF At, Ensuring, Backed
    <3>6. CASE Go(w, At("reinserting", e, "current")) /\ worker[w].pc \in Backed
      BY <3>1, <3>2, <3>3, <3>6, EnsuringHeld DEF At, Ensuring, Backed
    <3> QED
      BY <1>6, <3>4, <3>5, <3>6 DEF CreateUser, Posting, Backed
  <2> QED
    BY <1>6, <2>1, <2>2, OthersHeld DEF CreateUser, history
<1>7. ASSUME NEW w \in Workers, NEW e \in Envs, InsertRow(w, e) PROVE Held'
  <2>1. \A f \in Envs \ {e} : SameFor(f)
    BY <1>7, GoSame
    DEF InsertRow, At, Idle, Typed, TypeOK
  <2>2. e \notin excused' => UserHeld(e)'
    <3> SUFFICES ASSUME e \notin excused' PROVE UserHeld(e)'
      OBVIOUS
    <3>1. /\ UserHeld(e) /\ worker[w].env = e /\ worker[w].pc \in {"adopting", "inserting", "reinserting"}
          /\ worker[w].pc \in Ensuring
      BY <1>7 DEF InsertRow, Held, history, Ensuring
    <3>2. Present(e) /\ (worker[w].pc \in Backed => row[e] # "none")
      BY <3>1 DEF UserHeld, Busy, Backed
    <3>3. UNCHANGED <<env, user>>
      BY <1>7 DEF InsertRow
    <3>4. row'[e] # "none"
      <4>1. CASE row[e] = "none"
        <5>1. worker[w].id # "none" /\ row' = [row EXCEPT ![e] = worker[w].id]
          BY <1>7, <3>1, <3>2, <4>1 DEF InsertRow, Known, Backed
        <5> QED
          BY <5>1 DEF Typed, TypeOK
      <4>2. CASE row[e] # "none"
        BY <1>7, <4>2 DEF InsertRow
      <4> QED
        BY <4>1, <4>2
    <3>5. PICK x : Go(w, x) /\ (x = Idle \/ (x.env = e /\ x.pc \in Ensuring))
      BY <1>7 DEF InsertRow, At, Ensuring
    <3> QED
      BY <3>1, <3>3, <3>4, <3>5, EnsuringHeld
  <2> QED
    BY <1>7, <2>1, <2>2, OthersHeld DEF InsertRow, history
<1>8. ASSUME NEW w \in Workers, NEW e \in Envs, MakeKey(w, e) PROVE Held'
  <2>1. \A f \in Envs \ {e} : SameFor(f)
    BY <1>8, GoSame
    DEF MakeKey, Is, At, Idle, Typed, TypeOK
  <2>2. e \notin excused' => UserHeld(e)'
    <3> SUFFICES ASSUME e \notin excused' PROVE UserHeld(e)'
      OBVIOUS
    <3>1. /\ UserHeld(e) /\ worker[w].env = e /\ worker[w].pc = "keying"
          /\ worker[w].pc \in Ensuring
      BY <1>8 DEF MakeKey, Is, Held, history, Ensuring
    <3>2. Present(e) /\ (worker[w].pc \in Backed => row[e] # "none")
      BY <3>1 DEF UserHeld, Busy, Backed
    <3>3. UNCHANGED <<env, user, row>>
      BY <1>8 DEF MakeKey
    <3>4. CASE Go(w, Idle)
      BY <3>1, <3>3, <3>4, EnsuringHeld DEF Idle, Backed
    <3>5. CASE Go(w, At("keyed", e, "current"))
      BY <3>1, <3>3, <3>5, EnsuringHeld DEF At, Ensuring, Backed
    <3> QED
      BY <1>8, <3>4, <3>5 DEF MakeKey
  <2> QED
    BY <1>8, <2>1, <2>2, OthersHeld DEF MakeKey, history
<1>9. ASSUME NEW w \in Workers, NEW e \in Envs, StoreKey(w, e) PROVE Held'
  <2>1. \A f \in Envs \ {e} : SameFor(f)
    BY <1>9, GoSame
    DEF StoreKey, Is, At, Idle, Typed, TypeOK
  <2>2. e \notin excused' => UserHeld(e)'
    <3> SUFFICES ASSUME e \notin excused' PROVE UserHeld(e)'
      OBVIOUS
    <3>1. /\ UserHeld(e) /\ worker[w].env = e /\ worker[w].pc = "keyed"
          /\ worker[w].pc \in Ensuring
      BY <1>9 DEF StoreKey, Is, Held, history, Ensuring
    <3>2. Present(e) /\ (worker[w].pc \in Backed => row[e] # "none")
      BY <3>1 DEF UserHeld, Busy, Backed
    <3>3. UNCHANGED <<env, user, row>>
      BY <1>9 DEF StoreKey
    <3>4. CASE Go(w, Idle)
      BY <3>1, <3>3, <3>4, EnsuringHeld DEF Idle, Backed
    <3>5. CASE Go(w, At("keyed", e, "current"))
      BY <3>1, <3>3, <3>5, EnsuringHeld DEF At, Ensuring, Backed
    <3> QED
      BY <1>9, <3>4, <3>5 DEF StoreKey
  <2> QED
    BY <1>9, <2>1, <2>2, OthersHeld DEF StoreKey, history
<1>10. ASSUME NEW w \in Workers, NEW e \in Envs, DeleteBegin(w, e) PROVE Held'
  <2>1. \A f \in Envs \ {e} : SameFor(f)
    BY <1>10, GoSame
    DEF DeleteBegin, At, Idle, Typed, TypeOK
  <2>2. e \notin excused' => UserHeld(e)'
    BY <1>10, Moved, NoneAssumption
    DEF DeleteBegin, At, Idle, Typed, TypeOK, Held, UserHeld, Busy, Present,
        Ensuring, Deleting
  <2> QED
    BY <1>10, <2>1, <2>2, OthersHeld DEF DeleteBegin, history
<1>11. ASSUME NEW w \in Workers, NEW e \in Envs, RemoveUser(w, e) PROVE Held'
  <2>1. \A f \in Envs \ {e} : SameFor(f)
    BY <1>11, GoSame, GoneSame
    DEF RemoveUser, Is, At, Idle, Typed, TypeOK
  <2>2. e \notin excused' => UserHeld(e)'
    <3> SUFFICES ASSUME e \notin excused' PROVE UserHeld(e)'
      OBVIOUS
    <3>1. UserHeld(e) /\ worker[w].env = e /\ worker[w].pc = "removing" /\ env' = env
      BY <1>11 DEF RemoveUser, Is, Held, history
    <3>2. CASE UserGone(e, w, At("unrecording", e, "none"))
      <4>1. ~Busy(e, Ensuring)
        BY <3>1 DEF UserHeld, Busy, Deleting
      <4>2. e \notin user' /\ ~Busy(e, Ensuring)'
        BY <3>2, <4>1, GoneMoved DEF Busy, At, Ensuring
      <4> QED
        BY <3>1, <4>2 DEF UserHeld, Busy, Ensuring
    <3>3. CASE e \notin user /\ Go(w, At("dropping", e, "none")) /\ UNCHANGED <<user, row>>
      BY <3>1, <3>3, DeletingHeld DEF At, Deleting
    <3> QED
      BY <1>11, <3>2, <3>3 DEF RemoveUser
  <2> QED
    BY <1>11, <2>1, <2>2, OthersHeld DEF RemoveUser, history
<1>12. ASSUME NEW w \in Workers, NEW e \in Envs, UnrecordUser(w, e) PROVE Held'
  <2>1. \A f \in Envs \ {e} : SameFor(f)
    BY <1>12, GoSame
    DEF UnrecordUser, Is, At, Idle, Typed, TypeOK
  <2>2. e \notin excused' => UserHeld(e)'
    <3> SUFFICES ASSUME e \notin excused' PROVE UserHeld(e)'
      OBVIOUS
    <3>1. UserHeld(e) /\ worker[w].env = e /\ worker[w].pc = "unrecording" /\ user' = user
      BY <1>12 DEF UnrecordUser, Is, Held, history
    <3>2. e \notin user /\ worker[w].pc \in Deleting
      BY <3>1 DEF UserHeld, Busy, Deleting
    <3>3. env' = env
      BY <1>12 DEF UnrecordUser
    <3>4. CASE Go(w, Idle)
      BY <3>1, <3>2, <3>3, <3>4, DeletingHeld, IdleParts
    <3>5. CASE Go(w, At("dropping", e, "none"))
      BY <3>1, <3>2, <3>3, <3>5, DeletingHeld DEF At, Deleting
    <3> QED
      BY <1>12, <3>4, <3>5 DEF UnrecordUser
  <2> QED
    BY <1>12, <2>1, <2>2, OthersHeld DEF UnrecordUser, history
<1>13. ASSUME NEW w \in Workers, NEW e \in Envs, Drop(w, e) PROVE Held'
  <2>1. \A f \in Envs \ {e} : SameFor(f)
    BY <1>13, GoSame
    DEF Drop, Is, At, Idle, Typed, TypeOK
  <2>2. e \notin excused' => UserHeld(e)'
    <3> SUFFICES ASSUME e \notin excused' PROVE UserHeld(e)'
      OBVIOUS
    <3>1. UserHeld(e) /\ worker[w].env = e /\ worker[w].pc = "dropping" /\ user' = user
      BY <1>13 DEF Drop, Is, Held, history
    <3>2. e \notin user /\ worker[w].pc \in Deleting
      BY <3>1 DEF UserHeld, Busy, Deleting
    <3>3. Go(w, Idle)
      BY <1>13 DEF Drop
    <3> QED
      BY <3>1, <3>2, <3>3, DeletingHeld, IdleParts
  <2> QED
    BY <1>13, <2>1, <2>2, OthersHeld DEF Drop, history
<1>14. ASSUME NEW w \in Workers, NEW e \in Envs, ReadFails(w, e) PROVE Held'
  <2>1. \A f \in Envs \ {e} : SameFor(f)
    BY <1>14, GoSame
    DEF ReadFails, Is, At, Idle, Typed, TypeOK
  <2>2. e \notin excused' => UserHeld(e)'
    BY <1>14 DEF ReadFails, Failed
  <2> QED
    BY <1>14, <2>1, <2>2, OthersHeld DEF ReadFails, Failed
<1>15. ASSUME NEW w \in Workers, NEW e \in Envs, CreateUserFails(w, e) PROVE Held'
  <2>1. \A f \in Envs \ {e} : SameFor(f)
    BY <1>15, GoSame
    DEF CreateUserFails, Posting, At, Idle, Typed, TypeOK
  <2>2. e \notin excused' => UserHeld(e)'
    BY <1>15 DEF CreateUserFails, Failed
  <2> QED
    BY <1>15, <2>1, <2>2, OthersHeld DEF CreateUserFails, Failed
<1>16. ASSUME NEW w \in Workers, NEW e \in Envs, RemoveUserFails(w, e) PROVE Held'
  <2>1. \A f \in Envs \ {e} : SameFor(f)
    BY <1>16, GoSame, GoneSame
    DEF RemoveUserFails, Is, At, Idle, Typed, TypeOK
  <2>2. e \notin excused' => UserHeld(e)'
    BY <1>16 DEF RemoveUserFails, Failed
  <2> QED
    BY <1>16, <2>1, <2>2, OthersHeld DEF RemoveUserFails, Failed
<1>17. ASSUME NEW w \in Workers, NEW e \in Envs, Ends(w, e) PROVE Held'
  <2>1. \A f \in Envs \ {e} : SameFor(f)
    BY <1>17, GoSame
    DEF Ends, At, Idle, Typed, TypeOK
  <2>2. e \notin excused' => UserHeld(e)'
    BY <1>17 DEF Ends, Failed
  <2> QED
    BY <1>17, <2>1, <2>2, OthersHeld DEF Ends, Failed
<1>18. ASSUME NEW e \in Envs, RemoveOutside(e) PROVE Held'
  <2>1. \A f \in Envs \ {e} : SameFor(f)
    BY <1>18, GoneSame DEF RemoveOutside
  <2>2. e \notin excused' => UserHeld(e)'
    BY <1>18, GoneMoved, NoneAssumption
    DEF RemoveOutside, Held, UserHeld, Busy, Present
  <2> QED
    BY <1>18, <2>1, <2>2, OthersHeld DEF RemoveOutside
<1>19. ASSUME NEW e \in Envs, PurgeConnections(e) PROVE Held'
  BY <1>19 DEF PurgeConnections, Held, UserHeld, Busy, Present, history
<1>20. CASE UNCHANGED vars
  BY <1>20 DEF vars, Held, UserHeld, Busy, Present, history
<1> QED
  BY <1>1, <1>2, <1>3, <1>4, <1>5, <1>6, <1>7, <1>8, <1>9, <1>10,
     <1>11, <1>12, <1>13, <1>14, <1>15, <1>16, <1>17, <1>18, <1>19, <1>20
  DEF Next, Proceed, Failure

-----------------------------------------------------------------------------
(* The start, with no environment and nobody at work.                      *)
LEMMA Initially == Init => Typed /\ Named /\ Recorded /\ Held /\ Known
<1> SUFFICES ASSUME Init PROVE Typed /\ Named /\ Recorded /\ Held /\ Known
  OBVIOUS
<1>1. Typed
  BY IdleFits, NoneAssumption
  DEF Init, Idle, Ids, EnvState, WorkerState, Ensuring, Deleting, Typed, TypeOK, WorkedOn
<1>2. Named
  BY DEF Init, Idle, Present, Named, NamersHaveNone, NamesApart
<1>3. Recorded
  BY NoneAssumption DEF Init, Idle, Recorded, DeletersTouch, RecordersAgree, RecordAgrees
<1>4. Held /\ Known
  BY NoneAssumption DEF Init, Idle, Held, UserHeld, Busy, Known
<1> QED
  BY <1>1, <1>2, <1>3, <1>4

(* Every request is doing one of the things the code does, on one          *)
(* environment, and no connection is without the row that its key is of.   *)
THEOREM TypeCorrect == Spec => []TypeOK
<1>1. Init => Typed
  BY Initially
<1>2. Typed /\ [Next]_vars => Typed'
  BY KeepsTypes
<1>3. Typed => TypeOK
  BY DEF Typed
<1> QED
  BY <1>1, <1>2, <1>3, PTL DEF Spec

(* Two environments whose names differ in case only are the work of two    *)
(* workers, whose requests overlapped.                                     *)
THEOREM NamesStayApart == Spec => []NamesApart
<1>1. Init => Typed /\ Named
  BY Initially
<1>2. Typed /\ Named /\ [Next]_vars => (Typed /\ Named)'
  BY KeepsTypes, KeepsNames
<1>3. Named => NamesApart
  BY DEF Named
<1> QED
  BY <1>1, <1>2, <1>3, PTL DEF Spec

(* The recorded id is that of the user at Headscale, however requests      *)
(* overlap and whatever answer is lost, until a deletion is begun or       *)
(* somebody else deletes the user.                                         *)
THEOREM RecordsAgree == Spec => []RecordAgrees
<1>1. Init => Typed /\ Recorded
  BY Initially
<1>2. Typed /\ Recorded /\ [Next]_vars => (Typed /\ Recorded)'
  BY KeepsTypes, KeepsRecords
<1>3. Recorded => RecordAgrees
  BY DEF Recorded
<1> QED
  BY <1>1, <1>2, <1>3, PTL DEF Spec

(* A deleted environment leaves no user at Headscale, unless a call failed *)
(* or some request for a key ran into a deletion.                          *)
THEOREM DeletionLeavesNoUser == Spec => []NoUserLeft
<1>1. Init => Typed /\ Held /\ Known
  BY Initially
<1>2. Typed /\ Held /\ Known /\ [Next]_vars => (Typed /\ Held /\ Known)'
  BY KeepsTypes, KeepsHeld, KeepsKnown
<1>3. Held => NoUserLeft
  BY DEF Held, UserHeld, NoUserLeft
<1> QED
  BY <1>1, <1>2, <1>3, PTL DEF Spec

=============================================================================
