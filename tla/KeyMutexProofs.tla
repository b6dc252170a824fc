-------------------------- MODULE KeyMutexProofs --------------------------
(***************************************************************************)
(* What the keyed mutex guarantees for any number of acquisitions and      *)
(* keys.  The invariant is IInv of KeyMutex: the acquisitions of a key     *)
(* that are not released form one chain of promises, in order of arrival,  *)
(* that ends at lock[key].                                                 *)
(***************************************************************************)
EXTENDS KeyMutex, TLAPS

(***************************************************************************)
(* Each variable stays in its type: acquireQueued, _acquire and the        *)
(* release function it returns.                                            *)
(***************************************************************************)
LEMMA TypeStep == TypeOK /\ [Next]_vars => TypeOK'
<1> SUFFICES ASSUME TypeOK, [Next]_vars PROVE TypeOK'
  OBVIOUS
<1> USE DEF TypeOK, Phases
<1>1. ASSUME NEW j \in Jobs, AcquireQueued(j) PROVE TypeOK'
  <2>1. lock[key[j]] \in Jobs \cup {NoJob}
    OBVIOUS
  <2> QED BY <1>1, <2>1 DEF AcquireQueued
<1>2. ASSUME NEW j \in Jobs, Grant(j) PROVE TypeOK'
  BY <1>2 DEF Grant
<1>3. ASSUME NEW j \in Jobs, Release(j) PROVE TypeOK'
  BY <1>3 DEF Release, ClearedLock
<1>4. ASSUME NEW j \in Jobs, Abandon(j) PROVE TypeOK'
  BY <1>4 DEF Abandon
<1>5. CASE UNCHANGED vars
  BY <1>5 DEF vars
<1> QED BY <1>1, <1>2, <1>3, <1>4, <1>5 DEF Next

(***************************************************************************)
(* Every variable keeps its type in every behaviour of the mutex.          *)
(***************************************************************************)
THEOREM TypeCorrect == Spec => []TypeOK
<1>1. Init => TypeOK
  BY DEF Init, TypeOK, Phases
<1> QED BY <1>1, TypeStep, PTL DEF Spec

-----------------------------------------------------------------------------

(***************************************************************************)
(* The chain of promises holds before the first acquireQueued.             *)
(***************************************************************************)
LEMMA ChainInit == Init => IInv
<1> SUFFICES ASSUME Init PROVE IInv
  OBVIOUS
<1>1. TypeOK
  BY DEF Init, TypeOK, Phases
<1>2. \A j \in Jobs : phase[j] = "idle"
  BY DEF Init
<1>3. TicketsInv /\ ChainInv /\ GrantedInOrder
  BY <1>2 DEF TicketsInv, ChainInv, GrantedInOrder, Before
<1>4. TailInv
  BY <1>2 DEF Init, TailInv, Pending
<1> QED BY <1>1, <1>3, <1>4 DEF IInv

(***************************************************************************)
(* acquireQueued appends to the chain of its key.                          *)
(***************************************************************************)
LEMMA AcquireStep ==
  ASSUME IInv, NEW j \in Jobs, AcquireQueued(j), TypeOK'
  PROVE  IInv'
<1> USE NoJobAssumption
<1>1. /\ phase[j] = "idle" /\ phase'[j] = "waiting"
      /\ \A i \in Jobs : i # j => phase'[i] = phase[i]
      /\ \A i \in Jobs : i # j => ticket'[i] = ticket[i]
      /\ \A i \in Jobs : i # j => prev'[i] = prev[i]
      /\ ticket'[j] = clock /\ clock' = clock + 1 /\ key' = key
      /\ prev'[j] = lock[key[j]]
  BY DEF AcquireQueued, IInv, TypeOK
<1>2. \A i \in Jobs : ticket[i] \in Nat /\ key[i] \in Keys /\ ticket'[i] \in Nat
  BY DEF IInv, TypeOK
<1>3. clock \in Nat
  BY DEF IInv, TypeOK
<1>4. \A i \in Jobs : phase[i] # "idle" => ticket[i] < clock
  BY DEF IInv, TicketsInv
<1>5. \A i \in Jobs : Before(i, j)' <=> i # j /\ phase[i] # "idle" /\ key[i] = key[j]
  BY <1>1, <1>2, <1>3, <1>4 DEF Before
<1>6. \A i \in Jobs : ~Before(j, i)'
  BY <1>1, <1>2, <1>3, <1>4 DEF Before
<1>7. \A i, h \in Jobs : i # j /\ h # j => (Before(i, h)' <=> Before(i, h))
  BY <1>1 DEF Before
<1>8. /\ lock'[key[j]] = j
      /\ \A k \in Keys : k # key[j] => lock'[k] = lock[k]
  BY <1>2 DEF AcquireQueued, IInv, TypeOK
<1>9. TicketsInv'
  <2>1. \A i, h \in Jobs :
          phase[i] # "idle" /\ phase[h] # "idle" /\ ticket[i] = ticket[h] => i = h
    BY DEF IInv, TicketsInv
  <2> QED BY <1>1, <1>2, <1>3, <1>4, <2>1 DEF TicketsInv
<1>10. TailInv'
  <2> SUFFICES ASSUME NEW k \in Keys
               PROVE  /\ lock'[k] = NoJob =>
                           \A i \in Jobs : key'[i] = k => ~Pending(i)'
                      /\ lock'[k] # NoJob =>
                           /\ key'[lock'[k]] = k
                           /\ Pending(lock[k])'
                           /\ \A i \in Jobs :
                                key'[i] = k /\ phase'[i] # "idle" /\ i # lock'[k]
                                  => Before(i, lock[k])'
    BY DEF TailInv
  <2>1. CASE k = key[j]
    BY <2>1, <1>1, <1>5, <1>8 DEF Pending
  <2>2. CASE k # key[j]
    <3>1. /\ lock[k] = NoJob => \A i \in Jobs : key[i] = k => ~Pending(i)
          /\ lock[k] # NoJob =>
               /\ key[lock[k]] = k
               /\ Pending(lock[k])
               /\ \A i \in Jobs :
                    key[i] = k /\ phase[i] # "idle" /\ i # lock[k] => Before(i, lock[k])
      BY DEF IInv, TailInv
    <3>2. lock'[k] = lock[k] /\ lock[k] \in Jobs \cup {NoJob}
      BY <2>2, <1>8 DEF IInv, TypeOK
    <3>3. \A i \in Jobs : key[i] = k => i # j
      BY <2>2
    <3> QED BY <3>1, <3>2, <3>3, <1>1, <1>7 DEF Pending
  <2> QED BY <2>1, <2>2
<1>11. ChainInv'
  <2> SUFFICES ASSUME NEW h \in Jobs, phase'[h] # "idle"
               PROVE  /\ prev'[h] = NoJob =>
                           \A i \in Jobs : Before(i, h)' => phase'[i] = "released"
                      /\ prev'[h] # NoJob =>
                           /\ Before(prev[h], h)'
                           /\ \A i \in Jobs :
                                Before(i, h)' /\ i # prev'[h] => Before(i, prev[h])'
    BY DEF ChainInv
  <2>1. CASE h = j
    <3>1. /\ lock[key[j]] = NoJob => \A i \in Jobs : key[i] = key[j] => ~Pending(i)
          /\ lock[key[j]] # NoJob =>
               /\ key[lock[key[j]]] = key[j]
               /\ Pending(lock[key[j]])
               /\ \A i \in Jobs :
                    key[i] = key[j] /\ phase[i] # "idle" /\ i # lock[key[j]]
                      => Before(i, lock[key[j]])
      BY <1>2 DEF IInv, TailInv
    <3>2. lock[key[j]] \in Jobs \cup {NoJob} /\ \A i \in Jobs : phase[i] \in Phases
      BY <1>2 DEF IInv, TypeOK
    <3>3. CASE lock[key[j]] = NoJob
      BY <2>1, <3>1, <3>2, <3>3, <1>1, <1>5 DEF Pending, Phases
    <3>4. CASE lock[key[j]] # NoJob
      <4>1. lock[key[j]] \in Jobs /\ lock[key[j]] # j
        BY <3>1, <3>2, <3>4, <1>1 DEF Pending
      <4>2. \A i \in Jobs : Before(i, j)' /\ i # lock[key[j]] => i # j /\ Before(i, lock[key[j]])
        BY <1>5, <3>1, <3>4
      <4>3. \A i \in Jobs : Before(i, j)' /\ i # prev'[j] => Before(i, prev[j])'
        <5> DEFINE p == lock[key[j]]
        <5>1. \A i \in Jobs : i # j => (Before(i, p) <=>
                /\ phase'[i] # "idle" /\ phase'[p] # "idle"
                /\ key'[i] = key'[p] /\ ticket'[i] < ticket'[p])
          BY <4>1, <1>1 DEF Before
        <5> QED BY <5>1, <4>2, <1>1 DEF Before
      <4>4. Before(prev[j], j)'
        BY <4>1, <3>1, <3>4, <1>1, <1>2, <1>4 DEF Pending, Before
      <4> QED BY <2>1, <3>4, <4>3, <4>4, <1>1
    <3> QED BY <3>3, <3>4
  <2>2. CASE h # j
    <3>1. /\ prev[h] = NoJob => \A i \in Jobs : Before(i, h) => phase[i] = "released"
          /\ prev[h] # NoJob =>
               /\ Before(prev[h], h)
               /\ \A i \in Jobs : Before(i, h) /\ i # prev[h] => Before(i, prev[h])
      BY <2>2, <1>1 DEF IInv, ChainInv
    <3>2. prev[h] \in Jobs \cup {NoJob} /\ prev'[h] = prev[h]
      BY <2>2, <1>1 DEF IInv, TypeOK
    <3>3. prev[h] # NoJob => prev[h] # j
      BY <3>1, <1>1 DEF Before
    <3> QED BY <3>1, <3>2, <3>3, <2>2, <1>1, <1>6, <1>7 DEF Before
  <2> QED BY <2>1, <2>2
<1>12. GrantedInOrder'
  <2>1. \A i, h \in Jobs :
          Before(i, h) /\ phase[h] \notin {"idle", "waiting"} => phase[i] = "released"
    BY DEF IInv, GrantedInOrder
  <2> QED BY <2>1, <1>1, <1>6, <1>7 DEF GrantedInOrder
<1> QED BY <1>9, <1>10, <1>11, <1>12 DEF IInv

(***************************************************************************)
(* A step that leaves the chain alone, and neither starts nor ends an      *)
(* acquisition, keeps its shape.                                           *)
(***************************************************************************)
LEMMA SameChain ==
  ASSUME IInv, TypeOK', UNCHANGED <<lock, key, prev, ticket, clock>>,
         \A i \in Jobs : phase'[i] = "idle" <=> phase[i] = "idle",
         \A i \in Jobs : Pending(i)' <=> Pending(i),
         \A i \in Jobs : phase'[i] = "released" <=> phase[i] = "released"
  PROVE  TicketsInv' /\ TailInv' /\ ChainInv' /\ (\A i, h \in Jobs : Before(i, h)' <=> Before(i, h))
<1>1. \A i, h \in Jobs : Before(i, h)' <=> Before(i, h)
  BY DEF Before
<1>2. TicketsInv'
  BY DEF IInv, TicketsInv
<1>3. TailInv'
  BY <1>1, NoJobAssumption DEF IInv, TailInv, TypeOK
<1>4. ChainInv'
  BY <1>1, NoJobAssumption DEF IInv, ChainInv, TypeOK
<1> QED BY <1>1, <1>2, <1>3, <1>4

(***************************************************************************)
(* The promise that an acquisition waits for is resolved only when all     *)
(* those before it are.                                                    *)
(***************************************************************************)
LEMMA GrantStep ==
  ASSUME IInv, NEW j \in Jobs, Grant(j), TypeOK'
  PROVE  IInv'
<1>1. /\ phase[j] = "waiting" /\ phase'[j] = "holding"
      /\ \A i \in Jobs : i # j => phase'[i] = phase[i]
      /\ UNCHANGED <<lock, key, prev, ticket, clock>>
  BY DEF Grant, IInv, TypeOK
<1>2. TicketsInv' /\ TailInv' /\ ChainInv' /\ (\A i, h \in Jobs : Before(i, h)' <=> Before(i, h))
  BY <1>1, SameChain DEF Pending
<1>3. \A i \in Jobs : Before(i, j) => phase[i] = "released"
  <2> SUFFICES ASSUME NEW i \in Jobs, Before(i, j) PROVE phase[i] = "released"
    OBVIOUS
  <2>1. /\ prev[j] = NoJob => phase[i] = "released"
        /\ prev[j] # NoJob => i = prev[j] \/ Before(i, prev[j])
    BY <1>1 DEF IInv, ChainInv
  <2>2. prev[j] # NoJob => phase[prev[j]] = "released" /\ prev[j] \in Jobs
    BY DEF Grant, IInv, TypeOK
  <2>3. prev[j] # NoJob /\ Before(i, prev[j]) => phase[i] = "released"
    BY <2>2 DEF IInv, GrantedInOrder
  <2> QED BY <2>1, <2>2, <2>3
<1>4. GrantedInOrder'
  <2>1. \A i, h \in Jobs :
          Before(i, h) /\ phase[h] \notin {"idle", "waiting"} => phase[i] = "released"
    BY DEF IInv, GrantedInOrder
  <2>2. ~Before(j, j)
    BY DEF Before, IInv, TypeOK
  <2>3. \A i \in Jobs : phase[i] = "released" => phase'[i] = "released"
    BY <1>1
  <2> QED BY <2>1, <2>2, <2>3, <1>1, <1>2, <1>3 DEF GrantedInOrder
<1> QED BY <1>2, <1>4 DEF IInv

(***************************************************************************)
(* A release clears the key only when the whole chain is released.         *)
(***************************************************************************)
LEMMA ReleaseStep ==
  ASSUME IInv, NEW j \in Jobs, Release(j), TypeOK'
  PROVE  IInv'
<1> USE NoJobAssumption
<1>1. /\ phase[j] = "holding" /\ phase'[j] = "released"
      /\ \A i \in Jobs : i # j => phase'[i] = phase[i]
      /\ UNCHANGED <<key, prev, ticket, clock>>
  BY DEF Release, IInv, TypeOK
<1>2. /\ \A k \in Keys : k # key[j] => lock'[k] = lock[k]
      /\ lock[key[j]] = j => lock'[key[j]] = NoJob
      /\ lock[key[j]] # j => lock'[key[j]] = lock[key[j]]
  BY DEF Release, ClearedLock, IInv, TypeOK
<1>3. \A i, h \in Jobs : Before(i, h)' <=> Before(i, h)
  BY <1>1 DEF Before
<1>4. TicketsInv'
  BY <1>1 DEF IInv, TicketsInv
<1>5. ChainInv'
  <2>1. \A h \in Jobs : phase[h] # "idle" =>
          /\ prev[h] = NoJob => \A i \in Jobs : Before(i, h) => phase[i] = "released"
          /\ prev[h] # NoJob =>
               /\ Before(prev[h], h)
               /\ \A i \in Jobs : Before(i, h) /\ i # prev[h] => Before(i, prev[h])
    BY DEF IInv, ChainInv
  <2>2. \A h \in Jobs : prev[h] \in Jobs \cup {NoJob}
    BY DEF IInv, TypeOK
  <2> QED BY <2>1, <2>2, <1>1, <1>3 DEF ChainInv
<1>6. GrantedInOrder'
  BY <1>1, <1>3 DEF IInv, GrantedInOrder
<1>7. TailInv'
  <2> SUFFICES ASSUME NEW k \in Keys
               PROVE  /\ lock'[k] = NoJob =>
                           \A i \in Jobs : key'[i] = k => ~Pending(i)'
                      /\ lock'[k] # NoJob =>
                           /\ key'[lock'[k]] = k
                           /\ Pending(lock[k])'
                           /\ \A i \in Jobs :
                                key'[i] = k /\ phase'[i] # "idle" /\ i # lock'[k]
                                  => Before(i, lock[k])'
    BY DEF TailInv
  <2>1. /\ lock[k] = NoJob => \A i \in Jobs : key[i] = k => ~Pending(i)
        /\ lock[k] # NoJob =>
             /\ key[lock[k]] = k
             /\ Pending(lock[k])
             /\ \A i \in Jobs :
                  key[i] = k /\ phase[i] # "idle" /\ i # lock[k] => Before(i, lock[k])
    BY DEF IInv, TailInv
  <2>2. lock[k] \in Jobs \cup {NoJob} /\ key[j] \in Keys
    BY DEF IInv, TypeOK
  <2>3. CASE k = key[j] /\ lock[k] = j
    <3>1. \A i \in Jobs : key[i] = k /\ phase[i] # "idle" => phase'[i] = "released"
      BY <2>1, <2>2, <2>3, <1>1 DEF IInv, GrantedInOrder
    <3> QED BY <3>1, <2>3, <1>1, <1>2 DEF Pending
  <2>4. CASE k # key[j] \/ lock[k] # j
    <3>1. lock'[k] = lock[k]
      BY <2>4, <1>2
    <3>2. lock[k] # j
      BY <2>1, <2>4, NoJobAssumption
    <3> QED BY <3>1, <3>2, <2>1, <2>2, <1>1, <1>3 DEF Pending
  <2> QED BY <2>3, <2>4
<1> QED BY <1>4, <1>5, <1>6, <1>7 DEF IInv

(***************************************************************************)
(* A holder that never releases its key leaves the chain as it is.         *)
(***************************************************************************)
LEMMA AbandonStep ==
  ASSUME IInv, NEW j \in Jobs, Abandon(j), TypeOK'
  PROVE  IInv'
<1>1. /\ phase[j] = "holding" /\ phase'[j] = "abandoned"
      /\ \A i \in Jobs : i # j => phase'[i] = phase[i]
      /\ UNCHANGED <<lock, key, prev, ticket, clock>>
  BY DEF Abandon, IInv, TypeOK
<1>2. TicketsInv' /\ TailInv' /\ ChainInv' /\ (\A i, h \in Jobs : Before(i, h)' <=> Before(i, h))
  BY <1>1, SameChain DEF Pending
<1>3. GrantedInOrder'
  BY <1>1, <1>2 DEF IInv, GrantedInOrder
<1> QED BY <1>2, <1>3 DEF IInv

(***************************************************************************)
(* The chain of promises survives every step.                              *)
(***************************************************************************)
LEMMA ChainStep == IInv /\ [Next]_vars => IInv'
<1> SUFFICES ASSUME IInv, [Next]_vars PROVE IInv'
  OBVIOUS
<1>1. TypeOK'
  BY TypeStep DEF IInv
<1>2. ASSUME NEW j \in Jobs, AcquireQueued(j) PROVE IInv'
  BY <1>1, <1>2, AcquireStep
<1>3. ASSUME NEW j \in Jobs, Grant(j) PROVE IInv'
  BY <1>1, <1>3, GrantStep
<1>4. ASSUME NEW j \in Jobs, Release(j) PROVE IInv'
  BY <1>1, <1>4, ReleaseStep
<1>5. ASSUME NEW j \in Jobs, Abandon(j) PROVE IInv'
  BY <1>1, <1>5, AbandonStep
<1>6. CASE UNCHANGED vars
  BY <1>6 DEF vars, IInv, TypeOK, TicketsInv, TailInv, ChainInv, GrantedInOrder, Before, Pending
<1> QED BY <1>2, <1>3, <1>4, <1>5, <1>6 DEF Next

(***************************************************************************)
(* The acquisitions of a key form one chain in every behaviour.            *)
(***************************************************************************)
THEOREM ChainInvariant == Spec => []IInv
BY ChainInit, ChainStep, PTL DEF Spec

(***************************************************************************)
(* The invariant separates two holders of one key: one of them came first. *)
(***************************************************************************)
LEMMA ChainExcludes == IInv => MutualExclusion
<1> SUFFICES ASSUME IInv, NEW i \in Jobs, NEW j \in Jobs,
                    Owns(i), Owns(j), key[i] = key[j], i # j
             PROVE  FALSE
  BY DEF MutualExclusion
<1>1. ticket[i] # ticket[j] /\ ticket[i] \in Nat /\ ticket[j] \in Nat
  BY DEF IInv, TicketsInv, TypeOK, Owns
<1>2. Before(i, j) \/ Before(j, i)
  BY <1>1 DEF Before, Owns
<1> QED BY <1>2 DEF IInv, GrantedInOrder, Owns

(***************************************************************************)
(* At most one acquisition of a key is between its grant and its release:  *)
(* two transactions of one sender are never in the mutex together.         *)
(***************************************************************************)
THEOREM MutualExclusionHolds == Spec => []MutualExclusion
BY ChainInvariant, ChainExcludes, PTL

(***************************************************************************)
(* Acquisitions of a key are granted in the order of the acquireQueued     *)
(* calls.                                                                  *)
(***************************************************************************)
THEOREM OrderHolds == Spec => []GrantedInOrder
<1>1. IInv => GrantedInOrder
  BY DEF IInv
<1> QED BY <1>1, ChainInvariant, PTL

(***************************************************************************)
(* isLocked is true of exactly the keys that somebody holds or waits for.  *)
(***************************************************************************)
THEOREM UnlockedHolds == Spec => []UnlockedMeansReleased
<1>1. IInv => UnlockedMeansReleased
  <2> SUFFICES ASSUME IInv, NEW k \in Keys
               PROVE  IsLocked(k) <=> \E j \in Jobs : key[j] = k /\ Pending(j)
    BY DEF UnlockedMeansReleased
  <2>1. CASE lock[k] = NoJob
    BY <2>1 DEF IInv, TailInv, IsLocked
  <2>2. CASE lock[k] # NoJob
    BY <2>2 DEF IInv, TailInv, IsLocked, TypeOK
  <2> QED BY <2>1, <2>2
<1> QED BY <1>1, ChainInvariant, PTL

-----------------------------------------------------------------------------

(***************************************************************************)
(* Every step of the promise chain is a step of FifoLock: a grant finds    *)
(* nobody ahead, a release takes the holder out of everybody's way.        *)
(***************************************************************************)
LEMMA FifoStep ==
  ASSUME IInv, IInv', [Next]_vars
  PROVE  [Lock!Next]_(Lock!lockVars)
<1> USE DEF Ahead
<1>1. ASSUME NEW j \in Jobs, AcquireQueued(j) PROVE Lock!Ask(j)
  <2>1. /\ phase[j] = "idle" /\ phase'[j] = "waiting" /\ key' = key
        /\ ticket'[j] = clock
        /\ \A i \in Jobs : i # j => phase'[i] = phase[i] /\ ticket'[i] = ticket[i]
    BY <1>1 DEF AcquireQueued, IInv, TypeOK
  <2>2. \A i \in Jobs : phase[i] # "idle" => ticket[i] < clock
    BY DEF IInv, TicketsInv
  <2>3. clock \in Nat /\ \A i \in Jobs : ticket[i] \in Nat /\ phase[i] \in Phases
    BY DEF IInv, TypeOK
  <2>4. \A i \in Jobs :
          Before(i, j)' /\ phase'[i] # "released" <=> Pending(i) /\ key[i] = key[j]
    BY <2>1, <2>2, <2>3 DEF Before, Pending, Phases
  <2>5. \A h \in Jobs : h # j =>
          \A i \in Jobs : Before(i, h)' /\ phase'[i] # "released"
                           <=> Before(i, h) /\ phase[i] # "released"
    BY <2>1, <2>2, <2>3 DEF Before
  <2>6. Ahead'[j] = {i \in Jobs : Pending(i) /\ key[i] = key[j]}
    BY <2>4
  <2>7. \A h \in Jobs : h # j => Ahead'[h] = Ahead[h]
    BY <2>5
  <2>8. Ahead' = [Ahead EXCEPT ![j] = {i \in Jobs : Pending(i) /\ key[i] = key[j]}]
    BY <2>6, <2>7
  <2> QED BY <1>1, <2>8 DEF AcquireQueued, Lock!Ask, Lock!Asked, Pending
<1>2. ASSUME NEW j \in Jobs, Grant(j) PROVE Lock!Take(j)
  <2>1. phase'[j] = "holding" /\ \A i \in Jobs : i # j => phase'[i] = phase[i]
    BY <1>2 DEF Grant, IInv, TypeOK
  <2>2. \A i, h \in Jobs : Before(i, h)' <=> Before(i, h)
    BY <1>2, <2>1 DEF Grant, Before
  <2>3. \A i \in Jobs : phase'[i] = "released" <=> phase[i] = "released"
    BY <1>2, <2>1 DEF Grant
  <2>4. Ahead' = Ahead
    BY <2>2, <2>3
  <2>5. Ahead[j] = {}
    <3>1. \A i \in Jobs : Before(i, j)' => phase'[i] = "released"
      BY <2>1 DEF IInv, GrantedInOrder
    <3> QED BY <3>1, <2>2, <2>3
  <2> QED BY <1>2, <2>4, <2>5 DEF Grant, Lock!Take
<1>3. ASSUME NEW j \in Jobs, Release(j) PROVE Lock!Leave(j)
  <2>1. /\ phase[j] = "holding" /\ phase'[j] = "released"
        /\ \A i \in Jobs : i # j => phase'[i] = phase[i]
    BY <1>3 DEF Release, IInv, TypeOK
  <2>2. \A i, h \in Jobs : Before(i, h)' <=> Before(i, h)
    BY <1>3, <2>1 DEF Release, Before
  <2>3. \A h \in Jobs : Ahead'[h] = Ahead[h] \ {j}
    BY <2>1, <2>2
  <2>4. Ahead' = [h \in Jobs |-> Ahead[h] \ {j}]
    BY <2>3
  <2> QED BY <1>3, <2>4 DEF Release, Lock!Leave
<1>4. ASSUME NEW j \in Jobs, Abandon(j) PROVE Lock!Keep(j)
  <2>1. /\ phase[j] = "holding" /\ phase'[j] = "abandoned"
        /\ \A i \in Jobs : i # j => phase'[i] = phase[i]
    BY <1>4 DEF Abandon, IInv, TypeOK
  <2>2. \A i, h \in Jobs : Before(i, h)' <=> Before(i, h)
    BY <1>4, <2>1 DEF Abandon, Before
  <2>3. \A i \in Jobs : phase'[i] = "released" <=> phase[i] = "released"
    BY <2>1
  <2>4. Ahead' = Ahead
    BY <2>2, <2>3
  <2> QED BY <1>4, <2>4 DEF Abandon, Lock!Keep
<1>5. CASE UNCHANGED vars
  BY <1>5 DEF vars, Lock!lockVars, Before
<1> QED BY <1>1, <1>2, <1>3, <1>4, <1>5 DEF Next, Lock!Next

(***************************************************************************)
(* The promise chain implements the first-come, first-served lock; that it *)
(* also grants what FifoLock must grant is checked by TLC.                 *)
(***************************************************************************)
THEOREM ImplementsFifoSafety == Spec => Lock!SafeSpec
<1>1. Init => Lock!Init
  BY DEF Init, Lock!Init, Ahead, Before
<1>2. IInv /\ IInv' /\ [Next]_vars => [Lock!Next]_(Lock!lockVars)
  BY FifoStep
<1> QED BY <1>1, <1>2, ChainInvariant, PTL DEF Spec, Lock!SafeSpec
===========================================================================
