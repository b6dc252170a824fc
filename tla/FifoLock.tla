------------------------------ MODULE FifoLock ------------------------------
(***************************************************************************)
(* What the keyed mutex promises to whoever calls it, with no promise      *)
(* chain in sight: a lock per key, taken in the order it was asked for.    *)
(* ahead[j] is the set of acquisitions that j still has to wait for.       *)
(***************************************************************************)
EXTENDS Naturals

CONSTANTS
  Jobs,     \* the acquisitions
  Keys      \* what is locked

VARIABLES
  phase,    \* what each acquisition does
  key,      \* the key it asks for
  ahead     \* those asked for earlier, for the same key, not yet released

lockVars == <<phase, key, ahead>>

Asked(j) == phase[j] \in {"waiting", "holding", "abandoned"}

Init ==
  /\ phase = [j \in Jobs |-> "idle"]
  /\ key \in [Jobs -> Keys]
  /\ ahead = [j \in Jobs |-> {}]

Ask(j) ==
  /\ phase[j] = "idle"
  /\ phase' = [phase EXCEPT ![j] = "waiting"]
  /\ ahead' = [ahead EXCEPT ![j] = {i \in Jobs : Asked(i) /\ key[i] = key[j]}]
  /\ UNCHANGED key

Take(j) ==
  /\ phase[j] = "waiting"
  /\ ahead[j] = {}
  /\ phase' = [phase EXCEPT ![j] = "holding"]
  /\ UNCHANGED <<key, ahead>>

Leave(j) ==
  /\ phase[j] = "holding"
  /\ phase' = [phase EXCEPT ![j] = "released"]
  /\ ahead' = [i \in Jobs |-> ahead[i] \ {j}]
  /\ UNCHANGED key

(* The holder never gives the lock back.                                   *)
Keep(j) ==
  /\ phase[j] = "holding"
  /\ phase' = [phase EXCEPT ![j] = "abandoned"]
  /\ UNCHANGED <<key, ahead>>

Next == \E j \in Jobs : Ask(j) \/ Take(j) \/ Leave(j) \/ Keep(j)

SafeSpec == Init /\ [][Next]_lockVars

Spec == SafeSpec /\ \A j \in Jobs : WF_lockVars(Take(j))
=============================================================================
