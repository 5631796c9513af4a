------------------------- MODULE ConnectionLifecycle -------------------------
(***************************************************************************)
(* What becomes of a connection that a client asked for, whatever threads, *)
(* sessions and keys it takes: it is offered once, to a token that is      *)
(* asking, and every verdict on it (confirmed, expired) has been begun     *)
(* while it was waiting and with good reason.  Verdicts take time; of      *)
(* several that are under way at once the one written last stands.         *)
(***************************************************************************)
EXTENDS Naturals

CONSTANT Conns

VARIABLES
  now,
  asking,   \* the tokens with a request for a connection under way
  state,    \* state[c]: PENDING, CONNECTED or EXPIRED; "absent" before, "deleted" after
  token,    \* token[c]: whom c was offered to
  due,      \* due[c]: when the time to confirm is over
  verdicts  \* verdicts[c]: those that are under way

lifeVars == <<now, asking, state, token, due, verdicts>>

Init ==
  /\ state = [c \in Conns |-> "absent"]
  /\ verdicts = [c \in Conns |-> {}]

There(c) == state[c] \notin {"absent", "deleted"}
SameOffer(c) == token'[c] = token[c] /\ due'[c] = due[c]

(* Only what is waiting is judged.  It is confirmed before its time is     *)
(* over; it expires after that, or when its token asks again.              *)
Justified(c, v) ==
  /\ state[c] = "PENDING"
  /\ \/ v = "CONNECTED" /\ now < due[c]
     \/ v = "EXPIRED" /\ (due[c] <= now \/ token[c] \in asking')

Offered(c) ==
  /\ \A d \in Conns : state[d] # "deleted"
  /\ state[c] = "absent" /\ state'[c] = "PENDING"
  /\ token'[c] \in asking
  /\ verdicts'[c] = {}

Judged(c) ==
  /\ There(c) /\ state'[c] \in verdicts[c]
  /\ verdicts'[c] \subseteq verdicts[c]
  /\ SameOffer(c)

Waits(c) ==
  /\ state'[c] = state[c]
  /\ \A v \in verdicts'[c] \ verdicts[c] : Justified(c, v)
  /\ SameOffer(c)

(* All connections end with the container.                                 *)
Removed(c) ==
  /\ There(c) /\ state'[c] = "deleted"
  /\ \A d \in Conns : ~There(d)'

Next ==
  /\ now <= now'
  /\ \A c \in Conns : Offered(c) \/ Judged(c) \/ Waits(c) \/ Removed(c)

Spec == Init /\ [][Next]_lifeVars
=============================================================================
