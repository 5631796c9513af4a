------------------------------ MODULE AgentCopy ------------------------------
(***************************************************************************)
(* What the synchronisation promises an agent, whatever messages, tasks    *)
(* and transactions it is made of: over each channel a copy of the agent's *)
(* state is kept, that is late but never goes back, and that catches up    *)
(* with every change that was acknowledged unless the channel breaks.      *)
(***************************************************************************)
EXTENDS Naturals

CONSTANT Channels

VARIABLES
  source,  \* the agent's state, counted by its changes
  acked,   \* acked[c]: the last change acknowledged over c
  copy,    \* copy[c]: the last state stored from c
  broken   \* broken[c]: nothing is promised over c

copyVars == <<source, acked, copy>>

Init ==
  /\ source = 0
  /\ acked = [c \in Channels |-> 0]
  /\ copy = [c \in Channels |-> 0]

Change ==
  /\ source' = source + 1
  /\ UNCHANGED <<acked, copy>>

(* A change that was made is acknowledged, and none before an earlier one. *)
Acknowledge(c) ==
  /\ \E v \in acked[c]..source : acked' = [acked EXCEPT ![c] = v]
  /\ UNCHANGED <<source, copy>>

(* A state that was reached is stored, and none after a later one.         *)
Store(c) ==
  /\ \E v \in copy[c]..source : copy' = [copy EXCEPT ![c] = v]
  /\ UNCHANGED <<source, acked>>

Next == Change \/ \E c \in Channels : Acknowledge(c) \/ Store(c)

Spec == Init /\ [][Next]_copyVars

(* A copy that is behind what was acknowledged catches up. *)
CatchUp(c) ==
  /\ ~broken[c] /\ copy[c] < acked[c]
  /\ Store(c) /\ copy'[c] >= acked[c]

FairSpec == Spec /\ \A c \in Channels : WF_copyVars(CatchUp(c))
=============================================================================
