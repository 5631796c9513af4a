--------------------------- MODULE EndpointDirectory ---------------------------
(***************************************************************************)
(* What the storing of endpoints comes to, without its order: a snapshot   *)
(* is one step, after which each name that its containers ask for is       *)
(* served by one of them that asks for it, and nothing else has changed.   *)
(***************************************************************************)
CONSTANTS Envs, Containers, None

VARIABLES
  owner,   \* owner[c]: the environment of c
  wanted,  \* wanted[c]: the name and address c asks for; the name None, if c is not listed
  entry    \* entry[c]: the name and address c is served under; None, if under none

directoryVars == <<owner, wanted, entry>>

Init == entry = [c \in Containers |-> [name |-> None, ip |-> None]]

Listed(e) == {c \in Containers : owner[c] = e /\ wanted[c].name # None}
Taken(e) == {wanted[c].name : c \in Listed(e)}

(* Among those that ask for one name any may get it.                       *)
Serves(c) ==
  /\ entry'[c].name = wanted[c].name
  /\ wanted[c].ip \in {None, entry'[c].ip}

(* Of those of other environments nothing is touched but the names taken.  *)
Untouched(e, c) ==
  IF entry[c].name \in Taken(e) THEN entry'[c].name = None ELSE entry'[c] = entry[c]

Snapshot(e) ==
  /\ \A c \in Listed(e) :
       \E d \in Listed(e) : wanted[d].name = wanted[c].name /\ Serves(d)
  /\ \A c \in Listed(e) : entry'[c].name = None \/ Serves(c)
  /\ \A c \in Containers \ Listed(e) :
       IF owner[c] = e THEN entry'[c].name = None ELSE Untouched(e, c)
  /\ \A c, d \in Containers : entry'[c].name = entry'[d].name => c = d \/ entry'[c].name = None
  /\ UNCHANGED <<owner, wanted>>

Ask == UNCHANGED <<owner, entry>>

Next == Ask \/ \E e \in Envs : Snapshot(e)

Spec == Init /\ [][Next]_directoryVars
=============================================================================
