------------------------------ MODULE KeyMutex ------------------------------
(***************************************************************************)
(* The keyed mutex of services/utils/mutex/key-mutex.ts.  It is a chain of *)
(* promises: _lock[key] is the promise of the last acquisition of the key  *)
(* (or undefined), an acquisition waits for the promise that stood there   *)
(* when it arrived, puts its own in its place, and its release function    *)
(* resolves that promise and clears the entry if nobody came after it.     *)
(*                                                                         *)
(* An acquisition is one call of acquireQueued, and it names the promise   *)
(* that the call creates.  JavaScript runs one callback at a time, so each *)
(* of the steps below is atomic; what interleaves is the callbacks.        *)
(***************************************************************************)
EXTENDS Naturals

CONSTANTS
  Jobs,     \* the acquisitions, one call of acquireQueued each
  Keys,     \* the keys: the addresses that sign transactions
  NoJob     \* the undefined of _lock[key] and of a chain's first element

ASSUME NoJobAssumption == NoJob \notin Jobs

VARIABLES
  lock,     \* _lock: key -> the acquisition whose promise is stored, or NoJob
  phase,    \* what each acquisition does
  key,      \* the key it asked for
  prev,     \* the promise it waits for: Promise.resolve(_lock[key])
  ticket,   \* history: its place in the order of arrival
  clock     \* history: the next ticket

vars == <<lock, phase, key, prev, ticket, clock>>

Phases == {"idle", "waiting", "holding", "abandoned", "released"}

TypeOK ==
  /\ lock \in [Keys -> Jobs \cup {NoJob}]
  /\ phase \in [Jobs -> Phases]
  /\ key \in [Jobs -> Keys]
  /\ prev \in [Jobs -> Jobs \cup {NoJob}]
  /\ ticket \in [Jobs -> Nat]
  /\ clock \in Nat

Init ==
  /\ lock = [k \in Keys |-> NoJob]
  /\ phase = [j \in Jobs |-> "idle"]
  /\ key \in [Jobs -> Keys]
  /\ prev = [j \in Jobs |-> NoJob]
  /\ ticket = [j \in Jobs |-> 0]
  /\ clock = 0

(***************************************************************************)
(* isLocked: a promise is stored for the key.                              *)
(***************************************************************************)
IsLocked(k) == lock[k] # NoJob

(***************************************************************************)
(* Mutant of acquireQueued: one's own promise is stored before the stored  *)
(* one is read.                                                            *)
(***************************************************************************)
AcquireSwapped(j) ==
  /\ phase[j] = "idle"
  /\ prev' = [prev EXCEPT ![j] = j]
  /\ lock' = [lock EXCEPT ![key[j]] = j]
  /\ phase' = [phase EXCEPT ![j] = "waiting"]
  /\ ticket' = [ticket EXCEPT ![j] = clock]
  /\ clock' = clock + 1
  /\ UNCHANGED key

(***************************************************************************)
(* acquireQueued(key): remember the stored promise, store one's own.       *)
(***************************************************************************)
AcquireQueued(j) ==
  /\ phase[j] = "idle"
  /\ prev' = [prev EXCEPT ![j] = lock[key[j]]]
  /\ lock' = [lock EXCEPT ![key[j]] = j]
  /\ phase' = [phase EXCEPT ![j] = "waiting"]
  /\ ticket' = [ticket EXCEPT ![j] = clock]
  /\ clock' = clock + 1
  /\ UNCHANGED key

(***************************************************************************)
(* Mutant of the grant: it waits for the previous acquisition to be        *)
(* granted, not for its release.                                           *)
(***************************************************************************)
GrantEarly(j) ==
  /\ phase[j] = "waiting"
  /\ prev[j] # NoJob => phase[prev[j]] # "waiting"
  /\ phase' = [phase EXCEPT ![j] = "holding"]
  /\ UNCHANGED <<lock, key, prev, ticket, clock>>

(***************************************************************************)
(* The then() of acquireQueued: the promise waited for is resolved, which  *)
(* its release function did, and the caller gets its own release function. *)
(***************************************************************************)
Grant(j) ==
  /\ phase[j] = "waiting"
  /\ prev[j] # NoJob => phase[prev[j]] = "released"
  /\ phase' = [phase EXCEPT ![j] = "holding"]
  /\ UNCHANGED <<lock, key, prev, ticket, clock>>

(***************************************************************************)
(* Mutants of the release function: it clears the entry of a later         *)
(* acquisition too; it never clears; it deletes the key.                   *)
(***************************************************************************)
ClearedAlways(j) == [lock EXCEPT ![key[j]] = NoJob]

ClearedNever(j) == lock

DeletedKey(j) == [k \in Keys \ {key[j]} |-> lock[k]]

(***************************************************************************)
(* The entry is cleared only if nobody arrived after j.                    *)
(***************************************************************************)
ClearedLock(j) ==
  IF lock[key[j]] = j THEN [lock EXCEPT ![key[j]] = NoJob] ELSE lock

Release(j) ==
  /\ phase[j] = "holding"
  /\ lock' = ClearedLock(j)
  /\ phase' = [phase EXCEPT ![j] = "released"]
  /\ UNCHANGED <<key, prev, ticket, clock>>

(***************************************************************************)
(* A holder that throws before it calls its release function, which the    *)
(* only user of the class does when a transaction fails.                   *)
(***************************************************************************)
Abandon(j) ==
  /\ phase[j] = "holding"
  /\ phase' = [phase EXCEPT ![j] = "abandoned"]
  /\ UNCHANGED <<lock, key, prev, ticket, clock>>

Next == \E j \in Jobs : AcquireQueued(j) \/ Grant(j) \/ Release(j) \/ Abandon(j)

(***************************************************************************)
(* A resolved promise runs its callbacks: the event loop grants.  Whether  *)
(* a holder ever releases is its own business, so Release has no fairness: *)
(* the liveness below says what follows if it ends one way or the other.   *)
(***************************************************************************)
Spec == Init /\ [][Next]_vars /\ \A j \in Jobs : WF_vars(Grant(j))

-----------------------------------------------------------------------------

(***************************************************************************)
(* i and j asked for the same key, i first.                                *)
(***************************************************************************)
Before(i, j) ==
  /\ phase[i] # "idle" /\ phase[j] # "idle"
  /\ key[i] = key[j]
  /\ ticket[i] < ticket[j]

Owns(j) == phase[j] \in {"holding", "abandoned"}

Pending(j) == phase[j] \in {"waiting", "holding", "abandoned"}

(***************************************************************************)
(* At most one acquisition of a key is between its grant and its release   *)
(* (an abandoned one owns the key for ever): acquireQueued, _acquire.      *)
(***************************************************************************)
MutualExclusion ==
  \A i, j \in Jobs : Owns(i) /\ Owns(j) /\ key[i] = key[j] => i = j

(***************************************************************************)
(* Acquisitions of a key are granted in the order acquireQueued was        *)
(* called: whoever was granted finds all earlier ones released.            *)
(***************************************************************************)
GrantedInOrder ==
  \A i, j \in Jobs :
    Before(i, j) /\ phase[j] \notin {"idle", "waiting"} => phase[i] = "released"

(***************************************************************************)
(* isLocked tells the truth: the key is free exactly when every            *)
(* acquisition that was asked for has been released, so that clearing the  *)
(* entry never lets a newcomer overtake one that still waits.              *)
(***************************************************************************)
UnlockedMeansReleased ==
  \A k \in Keys :
    IsLocked(k) <=> \E j \in Jobs : key[j] = k /\ Pending(j)

(***************************************************************************)
(* Nobody starves: an acquisition is granted unless an earlier one of the  *)
(* same key stays between its grant and its release for ever.              *)
(***************************************************************************)
NoStarvation ==
  \A j \in Jobs :
    []<>(\A i \in Jobs : Before(i, j) => ~Owns(i))
      => [](phase[j] = "waiting" => <>(phase[j] # "waiting"))

(***************************************************************************)
(* The promise chain implements the lock of FifoLock: acquireQueued hands  *)
(* out each key to one holder at a time, in the order of the calls, and    *)
(* hands it out whenever nobody is ahead.                                  *)
(***************************************************************************)
Ahead == [j \in Jobs |-> {i \in Jobs : Before(i, j) /\ phase[i] # "released"}]

Lock == INSTANCE FifoLock WITH ahead <- Ahead

ImplementsFifoLock == Lock!Spec

(***************************************************************************)
(* The invariant that the properties follow from: the acquisitions of a    *)
(* key that are not released form one chain through prev, in the order of  *)
(* arrival, which ends at lock[key].                                       *)
(***************************************************************************)
TicketsInv ==
  /\ \A j \in Jobs : phase[j] # "idle" => ticket[j] < clock
  /\ \A i, j \in Jobs :
       phase[i] # "idle" /\ phase[j] # "idle" /\ ticket[i] = ticket[j] => i = j

TailInv ==
  \A k \in Keys :
    /\ lock[k] = NoJob =>
         \A j \in Jobs : key[j] = k => ~Pending(j)
    /\ lock[k] # NoJob =>
         /\ key[lock[k]] = k
         /\ Pending(lock[k])
         /\ \A j \in Jobs :
              key[j] = k /\ phase[j] # "idle" /\ j # lock[k] => Before(j, lock[k])

ChainInv ==
  \A j \in Jobs : phase[j] # "idle" =>
    /\ prev[j] = NoJob => \A i \in Jobs : Before(i, j) => phase[i] = "released"
    /\ prev[j] # NoJob =>
         /\ Before(prev[j], j)
         /\ \A i \in Jobs : Before(i, j) /\ i # prev[j] => Before(i, prev[j])

IInv == TypeOK /\ TicketsInv /\ TailInv /\ ChainInv /\ GrantedInOrder
=============================================================================
