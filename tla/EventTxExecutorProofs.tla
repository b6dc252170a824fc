------------------------ MODULE EventTxExecutorProofs ------------------------
(***************************************************************************)
(* The safety properties of EventTxExecutor, for every set of events,      *)
(* calls and senders, hooks that run one after the other or in parallel,   *)
(* and any bound on the failures.                                          *)
(***************************************************************************)
EXTENDS EventTxExecutor, WellFoundedInduction, TLAPS

(***************************************************************************)
(* What a call that was not made yet has left: nothing.                    *)
(***************************************************************************)
Unmade(c) == c[2] > made[EventOf(c)]

FreshOK == \A c \in Calls : Unmade(c) =>
  /\ promise[c] = "none"
  /\ c \notin rootEvents
  /\ sent[c] = 0
  /\ \A s \in Senders : step[c][s] = "off"
  /\ \A d \in Calls, s \in Senders : c \notin work[d][s]

(***************************************************************************)
(* A worker executes calls of its sender, and at least one until it is off.*)
(***************************************************************************)
WorkOK == \A c \in Calls, s \in Senders :
  /\ \A r \in work[c][s] : Sender(r) = s
  /\ step[c][s] # "off" => work[c][s] # {}

(***************************************************************************)
(* The lock is held from before the transaction is sent until it is        *)
(* confirmed, and for ever if it fails.                                    *)
(***************************************************************************)
LockOK == \A c \in Calls, s \in Senders :
  step[c][s] \in {"confirming", "thrown"} => Holds(c, s)

(***************************************************************************)
(* A registered call is not resolved, and a hook that makes a further call *)
(* has an answer to all before.                                            *)
(***************************************************************************)
AnswerOK == \A c \in Calls :
  /\ c \in rootEvents => promise[c] \in {"pending", "rejected"}
  /\ c[2] < made[EventOf(c)] => promise[c] # "pending"

(***************************************************************************)
(* Hooks one after the other: what has started had its turn; and while     *)
(* every receipt could be stored, a registered call whose sender has not   *)
(* failed is the one its running hook awaits, and the worker of such a     *)
(* sender executes its caller's own call, once.                            *)
(***************************************************************************)
TurnOK == ~parallel => \A e \in Events : hook[e] # "waiting" => Turn(e)

AwaitedOK == ~parallel /\ ~StoreFailed => \A r \in rootEvents : ~Failed(Sender(r)) =>
  /\ hook[EventOf(r)] = "running"
  /\ made[EventOf(r)] = r[2]
  /\ promise[r] = "pending"

OwnOK == ~parallel /\ ~StoreFailed => \A c \in Calls, s \in Senders :
  ~Failed(s) => work[c][s] \subseteq {c}

SentOK == ~parallel /\ ~StoreFailed => \A c \in Calls :
  /\ sent[c] <= 1
  /\ step[c][Sender(c)] = "queued" /\ ~Failed(Sender(c)) /\ c \in work[c][Sender(c)]
       => sent[c] = 0

(***************************************************************************)
(* The inductive invariants: of the calls and their locks, and of hooks    *)
(* that run one after the other.                                           *)
(***************************************************************************)
CallInv == TypeOK /\ FreshOK /\ WorkOK /\ LockOK /\ AnswerOK
SequentialInv == TurnOK /\ AwaitedOK /\ OwnOK /\ SentOK

-----------------------------------------------------------------------------
(* The operators.                                                          *)

(***************************************************************************)
(* A call has an event, a number from 1 on, and a sender.                  *)
(***************************************************************************)
LEMMA CallFacts == \A c \in Calls :
  /\ EventOf(c) \in Events
  /\ c[2] \in Nat \ {0}
  /\ c[2] <= Len(CallsBy[EventOf(c)])
  /\ c = <<EventOf(c), c[2]>>
  /\ Sender(c) \in Senders
BY CallsAssumption DEF Calls, EventOf, Sender

(***************************************************************************)
(* The calls of an event are those that its hook makes.                    *)
(***************************************************************************)
LEMMA CallOf == \A e \in Events : \A n \in 1 .. Len(CallsBy[e]) :
  /\ <<e, n>> \in Calls
  /\ EventOf(<<e, n>>) = e
  /\ <<e, n>>[2] = n
BY DEF Calls, EventOf

(***************************************************************************)
(* A nonempty set of numbers has a least element.                          *)
(***************************************************************************)
LEMMA LeastNumber ==
  ASSUME NEW T \in SUBSET Nat, T # {}
  PROVE  \E m \in T : \A n \in T : m <= n
<1>1. PICK m \in T : \A n \in T : <<n, m>> \notin OpToRel(<, Nat)
  BY NatLessThanWellFounded, WFMin
<1>2. \A n \in T : ~(n < m)
  BY <1>1 DEF OpToRel
<1> QED BY <1>2

(***************************************************************************)
(* The loop over a sender's calls picks one of them.                       *)
(***************************************************************************)
LEMMA CurrentOK ==
  ASSUME TypeOK, NEW c \in Calls, NEW s \in Senders, work[c][s] # {}
  PROVE  Current(c, s) \in work[c][s] /\ Current(c, s) \in Calls
<1> DEFINE T == {arrival[r] : r \in work[c][s]}
<1>1. work[c][s] \subseteq Calls /\ \A r \in Calls : arrival[r] \in Nat
  BY DEF TypeOK
<1>2. T \in SUBSET Nat /\ T # {}
  BY <1>1
<1> HIDE DEF T
<1>3. PICK m \in T : \A n \in T : m <= n
  BY <1>2, LeastNumber
<1>4. \E r \in work[c][s] : \A q \in work[c][s] : arrival[r] <= arrival[q]
  BY <1>3 DEF T
<1> QED BY <1>1, <1>4 DEF Current

(***************************************************************************)
(* The call that a hook makes is a call, and the first unmade of its event.*)
(***************************************************************************)
LEMMA CallingOK ==
  ASSUME TypeOK, NEW e \in Events, NEW c, Calling(e, c)
  PROVE  /\ c \in Calls /\ EventOf(c) = e /\ c[2] = made[e] + 1
         /\ Unmade(c)
<1>1. made[e] \in Nat /\ made[e] + 1 \in 1 .. Len(CallsBy[e])
  BY CallsAssumption DEF TypeOK, Calling
<1>2. c = <<e, made[e] + 1>>
  BY DEF Calling
<1> QED BY <1>1, <1>2, CallOf DEF Unmade

-----------------------------------------------------------------------------
(* The calls and their locks.                                              *)

(***************************************************************************)
(* Nothing is made, registered or sent before the first hook.              *)
(***************************************************************************)
LEMMA CallInit == Init => CallInv
<1> SUFFICES ASSUME Init PROVE CallInv
  OBVIOUS
<1>1. TypeOK
  BY CallsAssumption DEF Init, TypeOK, Steps
<1>2. FreshOK
  BY DEF Init, FreshOK
<1>3. WorkOK
  BY DEF Init, WorkOK
<1>4. LockOK
  BY DEF Init, LockOK
<1>5. AnswerOK
  BY DEF Init, AnswerOK
<1> QED BY <1>1, <1>2, <1>3, <1>4, <1>5 DEF CallInv

(***************************************************************************)
(* Every step keeps the types; a release is of a lock that is held.        *)
(***************************************************************************)
LEMMA TypeStep == CallInv /\ [Next]_vars => TypeOK'
<1> SUFFICES ASSUME CallInv, [Next]_vars PROVE TypeOK'
  OBVIOUS
<1>t. TypeOK
  BY DEF CallInv
<1> USE DEF TypeOK, Steps, registry, workers
<1>1. ASSUME NEW e \in Events, StartHook(e) PROVE TypeOK'
  BY <1>1, <1>t DEF StartHook
<1>2. ASSUME NEW e \in Events, EndHook(e) PROVE TypeOK'
  BY <1>2, <1>t DEF EndHook
<1>3. ASSUME NEW e \in Events, NEW c \in Calls, ExecuteSingle(e, c) PROVE TypeOK'
  <2>1. \A s \in Senders : work'[c][s] \subseteq Calls
    BY <1>3, <1>t DEF ExecuteSingle, Registered, BySender
  <2>2. work' \in [Calls -> [Senders -> SUBSET Calls]]
    BY <1>3, <1>t DEF ExecuteSingle, Registered, BySender
  <2>3. queue' \in [Senders -> Seq(Calls)]
    BY <1>3, <1>t DEF ExecuteSingle, Asks
  <2>4. step' \in [Calls -> [Senders -> Steps]]
    BY <1>3, <1>t DEF ExecuteSingle
  <2>5. /\ made' \in [Events -> Nat] /\ rootEvents' \subseteq Calls
        /\ added' \in Nat /\ arrival' \in [Calls -> Nat]
        /\ promise' \in [Calls -> {"none", "pending", "resolved", "rejected"}]
    BY <1>3, <1>t DEF ExecuteSingle, Registered
  <2> QED BY <1>3, <1>t, <2>2, <2>3, <2>4, <2>5 DEF ExecuteSingle
<1>4. ASSUME NEW e \in Events, NEW c \in Calls, AddThrows(e, c) PROVE TypeOK'
  BY <1>4, <1>t DEF AddThrows
<1>5. ASSUME NEW c \in Calls, NEW s \in Senders, Send(c, s) PROVE TypeOK'
  <2>1. Current(c, s) \in Calls
    BY <1>5, CurrentOK DEF CallInv, WorkOK, Send
  <2> QED BY <1>5, <1>t, <2>1 DEF Send
<1>6. ASSUME NEW c \in Calls, NEW s \in Senders, Confirm(c, s) PROVE TypeOK'
  <2>1. queue[s] # <<>>
    BY <1>6 DEF CallInv, LockOK, Holds, Confirm
  <2>2. queue[s] \in Seq(Calls) /\ Tail(queue[s]) \in Seq(Calls)
    BY <1>t, <2>1
  <2>3. queue' \in [Senders -> Seq(Calls)]
    BY <1>6, <1>t, <2>2 DEF Confirm
  <2>4. step' \in [Calls -> [Senders -> Steps]]
    BY <1>6, <1>t DEF Confirm
  <2> QED BY <1>6, <1>t, <2>3, <2>4 DEF Confirm
<1>7. ASSUME NEW c \in Calls, NEW s \in Senders, Store(c, s) PROVE TypeOK'
  <2>1. Current(c, s) \in Calls
    BY <1>7, CurrentOK DEF CallInv, WorkOK, Store
  <2>2. /\ promise' \in [Calls -> {"none", "pending", "resolved", "rejected"}]
        /\ rootEvents' \subseteq Calls /\ stored' \subseteq Calls
    BY <1>7, <1>t, <2>1 DEF Store, Resolve, Unregister
  <2>3. work' \in [Calls -> [Senders -> SUBSET Calls]]
    BY <1>7, <1>t DEF Store
  <2>4. queue' \in [Senders -> Seq(Calls)]
    BY <1>7, <1>t DEF Store
  <2>5. step' \in [Calls -> [Senders -> Steps]]
    BY <1>7, <1>t DEF Store
  <2> QED BY <1>7, <1>t, <2>2, <2>3, <2>4, <2>5 DEF Store
<1>8. ASSUME NEW c \in Calls, NEW s \in Senders, Throw(c, s) \/ StoreFails(c, s)
      PROVE  TypeOK'
  <2>1. fails' \in 0 .. MaxFails
    BY <1>8, <1>t, CallsAssumption DEF Throw, StoreFails
  <2>2. PICK to \in {"thrown", "unstored"} : step' = [step EXCEPT ![c][s] = to]
    BY <1>8 DEF Throw, StoreFails
  <2>3. step' \in [Calls -> [Senders -> Steps]]
    BY <1>t, <2>2
  <2>4. promise' \in [Calls -> {"none", "pending", "resolved", "rejected"}]
    BY <1>8, <1>t DEF Throw, StoreFails, Rejected
  <2> QED BY <1>8, <1>t, <2>1, <2>3, <2>4 DEF Throw, StoreFails
<1>9. CASE UNCHANGED vars
  BY <1>9, <1>t DEF vars
<1> QED
  BY <1>1, <1>2, <1>3, <1>4, <1>5, <1>6, <1>7, <1>8, <1>9 DEF Next, HookStep, WorkerStep

(***************************************************************************)
(* A call that is not made keeps nothing: ExecuteSingle makes the first    *)
(* unmade call of its event, and workers touch what was registered.        *)
(***************************************************************************)
LEMMA FreshStep == CallInv /\ [Next]_vars => FreshOK'
<1> SUFFICES ASSUME CallInv, [Next]_vars PROVE FreshOK'
  OBVIOUS
<1>t. TypeOK /\ FreshOK /\ WorkOK
  BY DEF CallInv
<1> USE DEF FreshOK, Unmade, registry, workers
<1>1. ASSUME NEW e \in Events, StartHook(e) PROVE FreshOK'
  BY <1>1, <1>t DEF StartHook
<1>2. ASSUME NEW e \in Events, EndHook(e) PROVE FreshOK'
  BY <1>2, <1>t DEF EndHook
<1>3. ASSUME NEW e \in Events, NEW c \in Calls, ExecuteSingle(e, c) PROVE FreshOK'
  <2>1. EventOf(c) = e /\ c[2] = made[e] + 1 /\ made[e] \in Nat
    BY <1>3, <1>t, CallingOK DEF ExecuteSingle, TypeOK
  <2> SUFFICES ASSUME NEW d \in Calls, Unmade(d)'
               PROVE  /\ promise'[d] = "none"
                      /\ d \notin rootEvents'
                      /\ sent'[d] = 0
                      /\ \A s \in Senders : step'[d][s] = "off"
                      /\ \A b \in Calls, s \in Senders : d \notin work'[b][s]
    OBVIOUS
  <2>2. d # c /\ Unmade(d)
    BY <1>3, <1>t, <2>1, CallFacts DEF ExecuteSingle, TypeOK
  <2>3. d \notin rootEvents /\ d \notin Registered(c)
    BY <2>2, <1>t DEF Registered
  <2>4. promise'[d] = promise[d] /\ sent'[d] = sent[d] /\ step'[d] = step[d]
    BY <1>3, <1>t, <2>2 DEF ExecuteSingle, TypeOK
  <2>5. ASSUME NEW b \in Calls, NEW s \in Senders PROVE d \notin work'[b][s]
    BY <1>3, <1>t, <2>2, <2>3 DEF ExecuteSingle, BySender, TypeOK
  <2> QED BY <1>3, <1>t, <2>2, <2>3, <2>4, <2>5 DEF ExecuteSingle
<1>4. ASSUME NEW e \in Events, NEW c \in Calls, AddThrows(e, c) PROVE FreshOK'
  <2>1. EventOf(c) = e /\ c[2] = made[e] + 1 /\ made[e] \in Nat
    BY <1>4, <1>t, CallingOK DEF AddThrows, TypeOK
  <2>2. \A d \in Calls : Unmade(d)' => d # c /\ Unmade(d)
    BY <1>4, <1>t, <2>1, CallFacts DEF AddThrows, TypeOK
  <2> QED BY <1>4, <1>t, <2>2 DEF AddThrows, TypeOK
<1>5. ASSUME NEW c \in Calls, NEW s \in Senders, WorkerStep(c, s) \/ Throw(c, s) \/ StoreFails(c, s)
      PROVE  FreshOK'
  <2>1. step[c][s] # "off"
    BY <1>5 DEF WorkerStep, Send, Confirm, Store, Throw, StoreFails
  <2>2. Current(c, s) \in work[c][s] /\ Current(c, s) \in Calls
    BY <1>t, <2>1, CurrentOK DEF WorkOK
  <2>3. ~Unmade(c) /\ ~Unmade(Current(c, s)) /\ made' = made
    BY <1>5, <1>t, <2>1, <2>2 DEF WorkerStep, Send, Confirm, Store, Throw, StoreFails
  <2>4. ASSUME NEW d \in Calls, Unmade(d) PROVE promise'[d] = promise[d] /\ sent'[d] = sent[d]
    BY <1>5, <1>t, <2>3, <2>4
      DEF WorkerStep, Send, Confirm, Store, Throw, StoreFails, Resolve, Rejected, TypeOK
  <2>5. ASSUME NEW d \in Calls, Unmade(d) PROVE step'[d] = step[d]
    BY <1>5, <1>t, <2>3, <2>5 DEF WorkerStep, Send, Confirm, Store, Throw, StoreFails, TypeOK
  <2>6. rootEvents' \subseteq rootEvents
    BY <1>5 DEF WorkerStep, Send, Confirm, Store, Throw, StoreFails, Unregister
  <2>7. ASSUME NEW b \in Calls, NEW q \in Senders PROVE work'[b][q] \subseteq work[b][q]
    <3>1. CASE Store(c, s)
      <4>1. work' = [work EXCEPT ![c][s] = work[c][s] \ {Current(c, s)}]
        BY <3>1 DEF Store
      <4> QED BY <1>t, <4>1 DEF TypeOK
    <3>2. CASE work' = work
      BY <3>2
    <3> QED BY <1>5, <3>1, <3>2 DEF WorkerStep, Send, Confirm, Throw, StoreFails
  <2> QED BY <1>t, <2>3, <2>4, <2>5, <2>6, <2>7
<1>6. CASE UNCHANGED vars
  BY <1>6, <1>t DEF vars
<1> QED BY <1>1, <1>2, <1>3, <1>4, <1>5, <1>6 DEF Next, HookStep

(***************************************************************************)
(* BySender groups by sender, and a worker that has executed everything    *)
(* ends.                                                                   *)
(***************************************************************************)
LEMMA WorkStep == CallInv /\ [Next]_vars => WorkOK'
<1> SUFFICES ASSUME CallInv, [Next]_vars PROVE WorkOK'
  OBVIOUS
<1>t. TypeOK /\ WorkOK
  BY DEF CallInv
<1> USE DEF WorkOK, registry, workers
<1>1. ASSUME NEW e \in Events, StartHook(e) \/ EndHook(e) PROVE WorkOK'
  BY <1>1, <1>t DEF StartHook, EndHook
<1>2. ASSUME NEW e \in Events, NEW c \in Calls, ExecuteSingle(e, c) PROVE WorkOK'
  <2>1. \A s \in Senders : \A r \in work'[c][s] : Sender(r) = s
    BY <1>2, <1>t DEF ExecuteSingle, BySender, TypeOK
  <2>2. \A s \in Senders : step'[c][s] # "off" => work'[c][s] # {}
    BY <1>2, <1>t DEF ExecuteSingle, TypeOK
  <2>3. \A d \in Calls : d # c => work'[d] = work[d] /\ step'[d] = step[d]
    BY <1>2, <1>t DEF ExecuteSingle, TypeOK
  <2> QED BY <1>t, <2>1, <2>2, <2>3
<1>3. ASSUME NEW e \in Events, NEW c \in Calls, AddThrows(e, c) PROVE WorkOK'
  BY <1>3, <1>t DEF AddThrows
<1>4. ASSUME NEW c \in Calls, NEW s \in Senders,
             Send(c, s) \/ Confirm(c, s) \/ Throw(c, s) \/ StoreFails(c, s)
      PROVE  WorkOK'
  <2>1. step[c][s] # "off" /\ work' = work
    BY <1>4 DEF Send, Confirm, Throw, StoreFails
  <2>2. \A d \in Calls, q \in Senders : <<d, q>> # <<c, s>> => step'[d][q] = step[d][q]
    BY <1>4, <1>t DEF Send, Confirm, Throw, StoreFails, TypeOK
  <2> QED BY <1>t, <2>1, <2>2
<1>5. ASSUME NEW c \in Calls, NEW s \in Senders, Store(c, s) PROVE WorkOK'
  BY <1>5, <1>t DEF Store, TypeOK
<1>6. CASE UNCHANGED vars
  BY <1>6, <1>t DEF vars
<1> QED BY <1>1, <1>2, <1>3, <1>4, <1>5, <1>6 DEF Next, HookStep, WorkerStep

(***************************************************************************)
(* The mutex grants the lock of a sender to the first that asked, and only *)
(* the confirmation releases it.                                           *)
(***************************************************************************)
LEMMA LockStep == CallInv /\ [Next]_vars => LockOK'
<1> SUFFICES ASSUME CallInv, [Next]_vars PROVE LockOK'
  OBVIOUS
<1>t. TypeOK /\ LockOK
  BY DEF CallInv
<1> USE DEF LockOK, Holds, registry, workers
<1>1. ASSUME NEW e \in Events, StartHook(e) \/ EndHook(e) PROVE LockOK'
  BY <1>1, <1>t DEF StartHook, EndHook
<1>2. ASSUME NEW e \in Events, NEW c \in Calls, ExecuteSingle(e, c) PROVE LockOK'
  <2> SUFFICES ASSUME NEW d \in Calls, NEW s \in Senders,
                      step'[d][s] \in {"confirming", "thrown"}
               PROVE  queue'[s] # <<>> /\ Head(queue'[s]) = d
    OBVIOUS
  <2>1. d # c /\ step'[d][s] = step[d][s]
    BY <1>2, <1>t DEF ExecuteSingle, TypeOK
  <2>2. queue[s] \in Seq(Calls) /\ queue[s] # <<>> /\ Head(queue[s]) = d
    BY <1>t, <2>1 DEF TypeOK
  <2>3. queue'[s] = queue[s] \/ queue'[s] = Append(queue[s], c)
    BY <1>2, <1>t DEF ExecuteSingle, Asks, TypeOK
  <2> QED BY <2>2, <2>3
<1>3. ASSUME NEW e \in Events, NEW c \in Calls, AddThrows(e, c) PROVE LockOK'
  BY <1>3, <1>t DEF AddThrows
<1>4. ASSUME NEW c \in Calls, NEW s \in Senders, Send(c, s) \/ Throw(c, s) PROVE LockOK'
  <2>1. Holds(c, s) /\ queue' = queue
    BY <1>4, <1>t DEF Send, Throw
  <2>2. \A d \in Calls, q \in Senders : <<d, q>> # <<c, s>> => step'[d][q] = step[d][q]
    BY <1>4, <1>t DEF Send, Throw, TypeOK
  <2> QED BY <1>t, <2>1, <2>2
<1>5. ASSUME NEW c \in Calls, NEW s \in Senders, Confirm(c, s) PROVE LockOK'
  <2> SUFFICES ASSUME NEW d \in Calls, NEW q \in Senders,
                      step'[d][q] \in {"confirming", "thrown"}
               PROVE  queue'[q] # <<>> /\ Head(queue'[q]) = d
    OBVIOUS
  <2>1. <<d, q>> # <<c, s>> /\ step[d][q] = step'[d][q]
    BY <1>5, <1>t DEF Confirm, TypeOK
  <2>2. Holds(c, s) /\ Holds(d, q)
    BY <1>5, <1>t, <2>1 DEF Confirm
  <2>3. q # s
    BY <2>1, <2>2
  <2> QED BY <1>5, <1>t, <2>2, <2>3 DEF Confirm, TypeOK
<1>6. ASSUME NEW c \in Calls, NEW s \in Senders, Store(c, s) PROVE LockOK'
  <2> SUFFICES ASSUME NEW d \in Calls, NEW q \in Senders,
                      step'[d][q] \in {"confirming", "thrown"}
               PROVE  queue'[q] # <<>> /\ Head(queue'[q]) = d
    OBVIOUS
  <2>1. step[d][q] = step'[d][q]
    BY <1>6, <1>t DEF Store, TypeOK
  <2>2. queue[q] \in Seq(Calls) /\ queue[q] # <<>> /\ Head(queue[q]) = d
    BY <1>t, <2>1 DEF TypeOK
  <2>3. queue'[q] = queue[q] \/ queue'[q] = Append(queue[q], c)
    BY <1>6, <1>t DEF Store, TypeOK
  <2> QED BY <2>2, <2>3
<1>7. ASSUME NEW c \in Calls, NEW s \in Senders, StoreFails(c, s) PROVE LockOK'
  BY <1>7, <1>t DEF StoreFails, TypeOK
<1>8. CASE UNCHANGED vars
  BY <1>8, <1>t DEF vars
<1> QED BY <1>1, <1>2, <1>3, <1>4, <1>5, <1>6, <1>7, <1>8 DEF Next, HookStep, WorkerStep

(***************************************************************************)
(* A call is unregistered with its answer, and its hook awaits the answer. *)
(***************************************************************************)
LEMMA AnswerStep == CallInv /\ [Next]_vars => AnswerOK'
<1> SUFFICES ASSUME CallInv, [Next]_vars PROVE AnswerOK'
  OBVIOUS
<1>t. TypeOK /\ FreshOK /\ WorkOK /\ AnswerOK
  BY DEF CallInv
<1> USE DEF AnswerOK, registry, workers
<1>1. ASSUME NEW e \in Events, StartHook(e) \/ EndHook(e) PROVE AnswerOK'
  BY <1>1, <1>t DEF StartHook, EndHook
<1>2. ASSUME NEW e \in Events, NEW c \in Calls, ExecuteSingle(e, c) \/ AddThrows(e, c)
      PROVE  AnswerOK'
  <2>1. /\ Calling(e, c) /\ made' = [made EXCEPT ![e] = @ + 1]
        /\ rootEvents' \subseteq rootEvents \cup {c}
    BY <1>2 DEF ExecuteSingle, AddThrows, Registered
  <2>2. EventOf(c) = e /\ c[2] = made[e] + 1 /\ made[e] \in Nat /\ Unmade(c)
    BY <1>t, <2>1, CallingOK DEF TypeOK
  <2>3. promise'[c] \in {"pending", "rejected"}
    BY <1>2, <1>t DEF ExecuteSingle, AddThrows, TypeOK
  <2>4. \A d \in Calls : d # c => promise'[d] = promise[d]
    BY <1>2, <1>t DEF ExecuteSingle, AddThrows, TypeOK
  <2>5. made'[e] = made[e] + 1 /\ \A d \in Events : d # e => made'[d] = made[d]
    BY <1>t, <2>1 DEF TypeOK
  <2>6. ASSUME NEW d \in Calls, d[2] < made'[EventOf(d)] PROVE promise'[d] # "pending"
    <3>1. d # c
      BY <2>2, <2>5, <2>6
    <3>2. CASE d[2] < made[EventOf(d)]
      BY <1>t, <2>4, <3>1, <3>2
    <3>3. CASE EventOf(d) = e /\ d[2] = made[e]
      <4>1. d = <<e, made[e]>> /\ made[e] > 0
        BY <2>2, <3>3, CallFacts
      <4>2. promise[d] # "pending"
        BY <2>1, <4>1 DEF Calling, Awaiting
      <4> QED BY <2>4, <3>1, <4>2
    <3> QED BY <2>2, <2>5, <2>6, <3>2, <3>3, CallFacts
  <2>7. \A d \in Calls : d \in rootEvents' => promise'[d] \in {"pending", "rejected"}
    BY <1>t, <2>1, <2>3, <2>4
  <2> QED BY <2>6, <2>7
<1>3. ASSUME NEW c \in Calls, NEW s \in Senders, Send(c, s) \/ Confirm(c, s) PROVE AnswerOK'
  BY <1>3, <1>t DEF Send, Confirm
<1>4. ASSUME NEW c \in Calls, NEW s \in Senders, Store(c, s) PROVE AnswerOK'
  <2>1. Current(c, s) \in Calls
    BY <1>4, <1>t, CurrentOK DEF WorkOK, Store
  <2>2. \A d \in Calls : d # Current(c, s) => promise'[d] = promise[d]
    BY <1>4, <1>t, <2>1 DEF Store, Resolve, TypeOK
  <2>3. promise'[Current(c, s)] # "pending"
    BY <1>4, <1>t, <2>1 DEF Store, Resolve, TypeOK
  <2>4. rootEvents' \subseteq rootEvents /\ Current(c, s) \notin rootEvents' /\ made' = made
    BY <1>4 DEF Store, Unregister
  <2> QED BY <1>t, <2>2, <2>3, <2>4
<1>5. ASSUME NEW c \in Calls, NEW s \in Senders, Throw(c, s) \/ StoreFails(c, s)
      PROVE  AnswerOK'
  BY <1>5, <1>t DEF Throw, StoreFails, Rejected, TypeOK
<1>6. CASE UNCHANGED vars
  BY <1>6, <1>t DEF vars
<1> QED BY <1>1, <1>2, <1>3, <1>4, <1>5, <1>6 DEF Next, HookStep, WorkerStep

(***************************************************************************)
(* The calls and their locks, in every reachable state.                    *)
(***************************************************************************)
LEMMA CallInvariant == Spec => []CallInv
<1>1. CallInv /\ [Next]_vars => CallInv'
  BY TypeStep, FreshStep, WorkStep, LockStep, AnswerStep DEF CallInv
<1> QED BY <1>1, CallInit, PTL DEF Spec

(***************************************************************************)
(* Every variable of the executor and of the hooks keeps its type: who     *)
(* releases the lock of a sender holds it, and a worker has a call.        *)
(***************************************************************************)
THEOREM TypeCorrect == Spec => []TypeOK
BY CallInvariant, PTL DEF CallInv

(***************************************************************************)
(* A sender has one unconfirmed transaction at a time, whatever hooks run, *)
(* in parallel or not, and whoever executes whose call.                    *)
(***************************************************************************)
THEOREM OneInFlight == Spec => []OneInFlightPerSender
<1>1. CallInv => OneInFlightPerSender
  BY DEF CallInv, LockOK, Holds, OneInFlightPerSender, InFlight
<1> QED BY <1>1, CallInvariant, PTL

(***************************************************************************)
(* A call is resolved with its receipt stored, in storeEventTransactionData*)
(***************************************************************************)
THEOREM ResolvedIsStored == Spec => []StoredBeforeResolved
<1>1. Init => StoredBeforeResolved
  BY DEF Init, StoredBeforeResolved
<1>2. CallInv /\ StoredBeforeResolved /\ [Next]_vars => StoredBeforeResolved'
  <2> SUFFICES ASSUME CallInv, StoredBeforeResolved, [Next]_vars,
                      NEW d \in Calls, promise'[d] = "resolved"
               PROVE  d \in stored'
    BY DEF StoredBeforeResolved
  <2>t. TypeOK
    BY DEF CallInv
  <2>1. stored \subseteq stored'
    BY DEF Next, HookStep, WorkerStep, StartHook, EndHook, ExecuteSingle, AddThrows, Send,
           Confirm, Store, Throw, StoreFails, vars
  <2>2. CASE promise[d] = "resolved"
    BY <2>1, <2>2 DEF StoredBeforeResolved
  <2>3. CASE promise[d] # "resolved"
    <3>1. PICK c \in Calls, s \in Senders : Store(c, s)
      BY <2>t, <2>3 DEF Next, HookStep, WorkerStep, StartHook, EndHook, ExecuteSingle, AddThrows,
             Send, Confirm, Throw, StoreFails, Rejected, vars, TypeOK
    <3>2. d = Current(c, s)
      BY <2>t, <2>3, <3>1 DEF Store, Resolve, TypeOK
    <3> QED BY <3>1, <3>2 DEF Store
  <2> QED BY <2>2, <2>3
<1> QED BY <1>1, <1>2, CallInvariant, PTL DEF Spec

(***************************************************************************)
(* add throws only at a hook that went on after a failed call: what is     *)
(* registered is awaited or has failed.                                    *)
(***************************************************************************)
THEOREM BlockedAfterFailure == Spec => BlockedOnlyAfterFailure
<1> DEFINE After ==
      \A c \in Calls : AddThrows(EventOf(c), c)
        => \E n \in 1 .. made[EventOf(c)] : promise[<<EventOf(c), n>>] = "rejected"
<1>1. CallInv => After
  <2> SUFFICES ASSUME CallInv, NEW c \in Calls, AddThrows(EventOf(c), c)
               PROVE  \E n \in 1 .. made[EventOf(c)] : promise[<<EventOf(c), n>>] = "rejected"
    OBVIOUS
  <2>t. TypeOK /\ FreshOK /\ AnswerOK
    BY DEF CallInv
  <2>1. PICK r \in rootEvents : EventOf(r) = EventOf(c)
    BY DEF AddThrows, Blocked
  <2>2. r \in Calls /\ r = <<EventOf(c), r[2]>> /\ r[2] \in Nat \ {0}
    BY <2>t, <2>1, CallFacts DEF TypeOK
  <2>3. made[EventOf(c)] \in Nat /\ r[2] <= made[EventOf(c)]
    BY <2>t, <2>1, <2>2, CallFacts DEF TypeOK, FreshOK, Unmade
  <2>4. promise[r] # "pending"
    <3>1. CASE r[2] < made[EventOf(c)]
      BY <2>t, <2>1, <2>2, <3>1 DEF AnswerOK
    <3>2. CASE r[2] = made[EventOf(c)]
      BY <2>2, <2>3, <3>2 DEF AddThrows, Calling, Awaiting
    <3> QED BY <2>2, <2>3, <3>1, <3>2
  <2>5. promise[r] = "rejected"
    BY <2>t, <2>1, <2>2, <2>4 DEF AnswerOK
  <2> QED BY <2>2, <2>3, <2>5
<1>2. CallInv => [After]_vars
  BY <1>1
<1> QED BY <1>2, CallInvariant, PTL DEF BlockedOnlyAfterFailure

-----------------------------------------------------------------------------
(* Hooks one after the other.                                              *)

LEMMA SequentialInit == Init => SequentialInv
BY DEF Init, SequentialInv, TurnOK, AwaitedOK, OwnOK, SentOK

(***************************************************************************)
(* Hooks that run one after the other: _executeSync runs one at a time,    *)
(* and onFail runs after all of them.                                      *)
(***************************************************************************)
LEMMA OneRunning ==
  ASSUME TurnOK, ~parallel,
         NEW e \in Events, hook[e] = "running", NEW f \in Events, hook[f] = "running"
  PROVE  e = f
<1>1. Turn(e) /\ Turn(f)
  BY DEF TurnOK
<1>2. ASSUME NEW a \in Events, hook[a] = "running", NEW b \in Events, hook[b] = "running",
             NEW i \in InOrder(a), \A k \in 1 .. i - 1 : hook[Order[k]] = "done"
      PROVE  ~ (\E j \in InOrder(b) : j < i)
  BY <1>2, CallsAssumption DEF InOrder
<1>3. ASSUME NEW a \in Events, hook[a] = "running", NEW i \in InOrder(a),
             \A k \in 1 .. i - 1 : hook[Order[k]] = "done",
             NEW k \in 1 .. Len(Order), hook[Order[k]] = "failed"
      PROVE  Order[k] = OnFail
  <2>1. Len(Order) \in Nat /\ Order[k] \in Events /\ i \in 1 .. Len(Order) /\ Order[i] = a
    BY CallsAssumption DEF InOrder
  <2>2. Turn(Order[k])
    BY <1>3, <2>1 DEF TurnOK
  <2>3. ~ \E j \in InOrder(Order[k]) : \A l \in 1 .. j - 1 : hook[Order[l]] = "done"
    <3> SUFFICES ASSUME NEW j \in InOrder(Order[k]),
                        \A l \in 1 .. j - 1 : hook[Order[l]] = "done"
                 PROVE  FALSE
      OBVIOUS
    <3>1. j \in 1 .. Len(Order) /\ Order[j] = Order[k]
      BY DEF InOrder
    <3>2. j # i /\ ~(i < j) /\ ~(j < i)
      BY <1>3, <2>1, <3>1
    <3> QED BY <2>1, <3>1, <3>2
  <2> QED BY <2>2, <2>3 DEF Turn
<1>4. CASE /\ \E i \in InOrder(e) : \A k \in 1 .. i - 1 : hook[Order[k]] = "done"
           /\ \E i \in InOrder(f) : \A k \in 1 .. i - 1 : hook[Order[k]] = "done"
  <2>1. PICK i \in InOrder(e) : \A k \in 1 .. i - 1 : hook[Order[k]] = "done"
    BY <1>4
  <2>2. PICK j \in InOrder(f) : \A k \in 1 .. j - 1 : hook[Order[k]] = "done"
    BY <1>4
  <2>3. ~(j < i) /\ ~(i < j)
    BY <1>2, <2>1, <2>2
  <2> QED BY <2>3, CallsAssumption DEF InOrder
<1>5. ASSUME NEW a \in Events, hook[a] = "running", NEW b \in Events, hook[b] = "running",
             \E i \in InOrder(a) : \A k \in 1 .. i - 1 : hook[Order[k]] = "done",
             b = OnFail, \E k \in 1 .. Len(Order) : hook[Order[k]] = "failed"
      PROVE  FALSE
  <2>1. PICK i \in InOrder(a) : \A k \in 1 .. i - 1 : hook[Order[k]] = "done"
    BY <1>5
  <2>2. PICK k \in 1 .. Len(Order) : hook[Order[k]] = "failed"
    BY <1>5
  <2>3. Order[k] = OnFail
    BY <1>3, <1>5, <2>1, <2>2
  <2> QED BY <1>5, <2>2, <2>3
<1> QED BY <1>1, <1>4, <1>5 DEF Turn

(***************************************************************************)
(* Having had one's turn is stable: a hook ends once.                      *)
(***************************************************************************)
LEMMA TurnStep == CallInv /\ TurnOK /\ [Next]_vars => TurnOK'
<1> SUFFICES ASSUME CallInv, TurnOK, [Next]_vars, ~parallel',
                    NEW e \in Events, hook'[e] # "waiting"
             PROVE  Turn(e)'
  BY DEF TurnOK
<1>t. TypeOK /\ ~parallel
  BY DEF CallInv, Next, HookStep, WorkerStep, StartHook, EndHook, ExecuteSingle, AddThrows,
         Send, Confirm, Store, Throw, StoreFails, vars
<1>1. Turn(e)
  BY <1>t DEF TurnOK, Next, HookStep, WorkerStep, StartHook, EndHook, ExecuteSingle, AddThrows,
         Send, Confirm, Store, Throw, StoreFails, vars, TypeOK
<1>2. ASSUME NEW f \in Events
      PROVE  hook[f] \in {"done", "failed"} => hook'[f] = hook[f]
  BY <1>t DEF Next, HookStep, WorkerStep, StartHook, EndHook, ExecuteSingle, AddThrows,
         Send, Confirm, Store, Throw, StoreFails, vars, TypeOK
<1>3. \A i \in 1 .. Len(Order) : Order[i] \in Events
  BY CallsAssumption
<1>4. \A i \in InOrder(e) : \A j \in 1 .. i - 1 : j \in 1 .. Len(Order)
  BY CallsAssumption DEF InOrder
<1>5. ASSUME NEW j \in 1 .. Len(Order)
      PROVE  hook[Order[j]] \in {"done", "failed"} => hook'[Order[j]] = hook[Order[j]]
  BY <1>2, <1>3
<1>6. CASE \E i \in InOrder(e) : \A j \in 1 .. i - 1 : hook[Order[j]] = "done"
  <2>1. PICK i \in InOrder(e) : \A j \in 1 .. i - 1 : hook[Order[j]] = "done"
    BY <1>6
  <2>2. \A j \in 1 .. i - 1 : hook'[Order[j]] = "done"
    BY <1>4, <1>5, <2>1
  <2> QED BY <2>2 DEF Turn, InOrder
<1>7. CASE e = OnFail /\ \E i \in 1 .. Len(Order) : hook[Order[i]] = "failed"
  BY <1>5, <1>7 DEF Turn
<1> QED BY <1>t, <1>1, <1>6, <1>7 DEF Turn

(***************************************************************************)
(* A failed worker stays, and keeps its sender's lock: whoever holds the   *)
(* lock of a sender and did not fail has a sender that did not fail.       *)
(***************************************************************************)
LEMMA FailedStable ==
  ASSUME CallInv, [Next]_vars, NEW s \in Senders, Failed(s)
  PROVE  Failed(s)'
<1>t. TypeOK /\ FreshOK
  BY DEF CallInv
<1>1. PICK d \in Calls : step[d][s] = "thrown"
  BY DEF Failed
<1>2. step'[d][s] = "thrown"
  <2>1. ASSUME NEW e \in Events, NEW c \in Calls, ExecuteSingle(e, c)
        PROVE  step'[d][s] = step[d][s]
    <3>1. Unmade(c)
      BY <1>t, <2>1, CallingOK DEF ExecuteSingle
    <3>2. d # c
      BY <1>1, <1>t, <3>1 DEF FreshOK
    <3> QED BY <1>t, <2>1, <3>2 DEF ExecuteSingle, TypeOK
  <2>2. ASSUME NEW c \in Calls, NEW q \in Senders,
               Send(c, q) \/ Confirm(c, q) \/ Store(c, q) \/ Throw(c, q) \/ StoreFails(c, q)
        PROVE  step'[d][s] = "thrown"
    <3>1. PICK to : step' = [step EXCEPT ![c][q] = to] /\ (to = "thrown" \/ step[c][q] # "thrown")
      BY <2>2 DEF Send, Confirm, Store, Throw, StoreFails
    <3> QED BY <1>1, <1>t, <3>1 DEF TypeOK
  <2> QED BY <1>1, <2>1, <2>2
        DEF Next, HookStep, WorkerStep, StartHook, EndHook, AddThrows, vars, workers
<1> QED BY <1>2 DEF Failed

LEMMA HolderNotFailed ==
  ASSUME CallInv, NEW c \in Calls, NEW s \in Senders, Holds(c, s), step[c][s] # "thrown"
  PROVE  ~Failed(s)
BY DEF CallInv, LockOK, Holds, Failed

(***************************************************************************)
(* A receipt that could not be stored stays so: if there is none after a   *)
(* step, there was none before and the step is not such a failure.         *)
(***************************************************************************)
LEMMA NoStoreFailure ==
  ASSUME CallInv, [Next]_vars, ~StoreFailed'
  PROVE  ~StoreFailed /\ \A c \in Calls, s \in Senders : ~StoreFails(c, s)
<1>t. TypeOK /\ FreshOK
  BY DEF CallInv
<1>1. ASSUME NEW c \in Calls, NEW s \in Senders, StoreFails(c, s) PROVE FALSE
  BY <1>1, <1>t DEF StoreFails, StoreFailed, TypeOK
<1>2. ASSUME NEW d \in Calls, NEW s \in Senders, step[d][s] = "unstored" PROVE FALSE
  <2>1. ASSUME NEW e \in Events, NEW c \in Calls, ExecuteSingle(e, c)
        PROVE  step'[d][s] = step[d][s]
    <3>1. Unmade(c)
      BY <1>t, <2>1, CallingOK DEF ExecuteSingle
    <3>2. d # c
      BY <1>2, <1>t, <3>1 DEF FreshOK
    <3> QED BY <1>t, <2>1, <3>2 DEF ExecuteSingle, TypeOK
  <2>2. ASSUME NEW c \in Calls, NEW q \in Senders,
               Send(c, q) \/ Confirm(c, q) \/ Store(c, q) \/ Throw(c, q)
        PROVE  step'[d][s] = "unstored"
    <3>1. PICK to : step' = [step EXCEPT ![c][q] = to] /\ step[c][q] # "unstored"
      BY <2>2 DEF Send, Confirm, Store, Throw
    <3> QED BY <1>2, <1>t, <3>1 DEF TypeOK
  <2>3. step'[d][s] = "unstored"
    BY <1>1, <1>2, <2>1, <2>2
       DEF Next, HookStep, WorkerStep, StartHook, EndHook, AddThrows, vars, workers
  <2> QED BY <2>3 DEF StoreFailed
<1> QED BY <1>1, <1>2 DEF StoreFailed

(***************************************************************************)
(* The call that a worker executes next is its caller's own, if the hooks  *)
(* run one after the other and its sender has not failed.                  *)
(***************************************************************************)
LEMMA CurrentIsOwn ==
  ASSUME CallInv, OwnOK, ~parallel, ~StoreFailed, NEW c \in Calls, NEW s \in Senders,
         work[c][s] # {}, ~Failed(s)
  PROVE  Current(c, s) = c /\ work[c][s] = {c} /\ Sender(c) = s
BY CurrentOK DEF CallInv, OwnOK, WorkOK

(***************************************************************************)
(* While a hook awaits its call no other hook runs, so that no other call  *)
(* is registered; a failure takes the call's sender with it.               *)
(***************************************************************************)
LEMMA AwaitedStep == CallInv /\ SequentialInv /\ [Next]_vars => AwaitedOK'
<1> SUFFICES ASSUME CallInv, SequentialInv, [Next]_vars, ~parallel', ~StoreFailed',
                    NEW r \in rootEvents', ~Failed(Sender(r))'
             PROVE  /\ hook'[EventOf(r)] = "running"
                    /\ made'[EventOf(r)] = r[2]
                    /\ promise'[r] = "pending"
  BY DEF AwaitedOK
<1>t. TypeOK /\ WorkOK /\ TypeOK' /\ TurnOK /\ AwaitedOK /\ OwnOK
  BY TypeStep DEF CallInv, SequentialInv
<1>s. ~StoreFailed /\ \A c \in Calls, s \in Senders : ~StoreFails(c, s)
  BY NoStoreFailure
<1>p. ~parallel /\ parallel' = parallel /\ ~StoreFailed
  BY <1>s DEF Next, HookStep, WorkerStep, StartHook, EndHook, ExecuteSingle, AddThrows,
         Send, Confirm, Store, Throw, StoreFails, vars
<1>r. r \in Calls /\ EventOf(r) \in Events /\ r[2] \in Nat \ {0} /\ r = <<EventOf(r), r[2]>>
      /\ Sender(r) \in Senders
  BY <1>t, CallFacts DEF TypeOK
<1>f. ~Failed(Sender(r))
  BY <1>r, FailedStable
<1>o. r \in rootEvents =>
        /\ hook[EventOf(r)] = "running" /\ made[EventOf(r)] = r[2] /\ promise[r] = "pending"
        /\ Awaiting(EventOf(r))
  BY <1>t, <1>p, <1>r, <1>f DEF AwaitedOK, Awaiting
<1> USE DEF registry, workers
<1>1. ASSUME NEW e \in Events, StartHook(e) PROVE r \in rootEvents /\ hook'[EventOf(r)] = "running"
                                                  /\ made' = made /\ promise' = promise
  BY <1>1, <1>o, <1>r, <1>t DEF StartHook, TypeOK
<1>2. ASSUME NEW e \in Events, EndHook(e) PROVE r \in rootEvents /\ hook'[EventOf(r)] = "running"
                                                /\ made' = made /\ promise' = promise
  <2>1. r \in rootEvents /\ EventOf(r) # e
    BY <1>2, <1>o DEF EndHook
  <2> QED BY <1>2, <1>o, <1>r, <1>t, <2>1 DEF EndHook, TypeOK
<1>3. ASSUME NEW e \in Events, NEW c \in Calls, ExecuteSingle(e, c)
      PROVE  hook'[EventOf(r)] = "running" /\ made'[EventOf(r)] = r[2] /\ promise'[r] = "pending"
  <2>1. EventOf(c) = e /\ c[2] = made[e] + 1 /\ hook[e] = "running"
    BY <1>3, <1>t, CallingOK DEF ExecuteSingle, Calling
  <2>2. r \notin rootEvents
    <3>1. SUFFICES ASSUME r \in rootEvents PROVE FALSE
      OBVIOUS
    <3>2. EventOf(r) = e
      BY <1>o, <1>p, <1>r, <1>t, <2>1, <3>1, OneRunning
    <3> QED BY <1>3, <3>1, <3>2 DEF ExecuteSingle, Blocked
  <2>3. r = c
    BY <1>3, <2>2 DEF ExecuteSingle, Registered
  <2> QED BY <1>3, <1>t, <2>1, <2>3 DEF ExecuteSingle, TypeOK
<1>4. ASSUME NEW e \in Events, NEW c \in Calls, AddThrows(e, c)
      PROVE  hook'[EventOf(r)] = "running" /\ made'[EventOf(r)] = r[2] /\ promise'[r] = "pending"
  <2>1. EventOf(c) = e /\ ~Awaiting(e)
    BY <1>4, <1>t, CallingOK DEF AddThrows, Calling
  <2>2. r \in rootEvents /\ EventOf(r) # e /\ r # c
    BY <1>4, <1>o, <2>1 DEF AddThrows
  <2> QED BY <1>4, <1>o, <1>r, <1>t, <2>2 DEF AddThrows, TypeOK
<1>5. ASSUME NEW c \in Calls, NEW s \in Senders, Send(c, s) \/ Confirm(c, s)
      PROVE  r \in rootEvents /\ hook' = hook /\ made' = made /\ promise' = promise
  BY <1>5 DEF Send, Confirm
<1>6. ASSUME NEW c \in Calls, NEW s \in Senders, Store(c, s)
      PROVE  r \in rootEvents /\ hook' = hook /\ made' = made /\ promise'[r] = promise[r]
  <2>1. r \in rootEvents /\ r # Current(c, s)
    BY <1>6 DEF Store, Unregister
  <2>2. Current(c, s) \in Calls
    BY <1>6, <1>t, CurrentOK DEF WorkOK, Store
  <2> QED BY <1>6, <1>r, <1>t, <2>1, <2>2 DEF Store, Resolve, TypeOK
<1>7. ASSUME NEW c \in Calls, NEW s \in Senders, Throw(c, s)
      PROVE  r \in rootEvents /\ hook' = hook /\ made' = made /\ promise'[r] = promise[r]
  <2>1. Holds(c, s) /\ step[c][s] # "thrown" /\ step[c][s] # "off"
    BY <1>7 DEF Throw, CallInv, LockOK
  <2>2. Sender(c) = s
    BY <1>p, <1>t, <2>1, HolderNotFailed, CurrentIsOwn DEF WorkOK
  <2>3. Failed(s)'
    BY <1>7, <1>t DEF Throw, Failed, TypeOK
  <2>4. r # c
    BY <2>2, <2>3
  <2> QED BY <1>7, <1>r, <1>t, <2>4 DEF Throw, Rejected, TypeOK
<1>8. CASE UNCHANGED vars
  BY <1>8, <1>o DEF vars
<1> QED
  BY <1>o, <1>s, <1>1, <1>2, <1>3, <1>4, <1>5, <1>6, <1>7, <1>8 DEF Next, HookStep, WorkerStep

(***************************************************************************)
(* What executeAll finds registered, for a sender that has not failed, is  *)
(* its caller's call alone.                                                *)
(***************************************************************************)
LEMMA OwnStep == CallInv /\ SequentialInv /\ [Next]_vars => OwnOK'
<1> SUFFICES ASSUME CallInv, SequentialInv, [Next]_vars, ~parallel', ~StoreFailed',
                    NEW d \in Calls, NEW q \in Senders, ~Failed(q)'
             PROVE  work'[d][q] \subseteq {d}
  BY DEF OwnOK
<1>t. TypeOK /\ TurnOK /\ AwaitedOK /\ OwnOK
  BY DEF CallInv, SequentialInv
<1>s. ~StoreFailed /\ \A c \in Calls, s \in Senders : ~StoreFails(c, s)
  BY NoStoreFailure
<1>p. ~parallel /\ parallel' = parallel /\ ~StoreFailed
  BY <1>s DEF Next, HookStep, WorkerStep, StartHook, EndHook, ExecuteSingle, AddThrows,
         Send, Confirm, Store, Throw, StoreFails, vars
<1>f. ~Failed(q)
  BY FailedStable
<1>o. work[d][q] \subseteq {d}
  BY <1>f, <1>p, <1>t DEF OwnOK
<1>1. ASSUME NEW e \in Events, NEW c \in Calls, ExecuteSingle(e, c)
      PROVE  work'[d][q] \subseteq {d}
  <2>1. CASE d # c
    BY <1>1, <1>o, <1>t, <2>1 DEF ExecuteSingle, TypeOK
  <2>2. CASE d = c
    <3>1. EventOf(c) = e /\ hook[e] = "running"
      BY <1>1, <1>t, CallingOK DEF ExecuteSingle, Calling
    <3>2. work'[c][q] = {r \in rootEvents \cup {c} : Sender(r) = q}
      BY <1>1, <1>t DEF ExecuteSingle, BySender, Registered, TypeOK
    <3>3. ASSUME NEW r \in rootEvents, Sender(r) = q PROVE FALSE
      <4>1. hook[EventOf(r)] = "running" /\ EventOf(r) \in Events
        BY <1>f, <1>p, <1>t, <3>3, CallFacts DEF AwaitedOK, TypeOK
      <4>2. EventOf(r) = e
        BY <1>p, <1>t, <3>1, <4>1, OneRunning
      <4> QED BY <1>1, <4>2 DEF ExecuteSingle, Blocked
    <3> QED BY <2>2, <3>2, <3>3
  <2> QED BY <2>1, <2>2
<1>2. ASSUME NEW c \in Calls, NEW s \in Senders, Store(c, s)
      PROVE  work'[d][q] \subseteq work[d][q]
  <2>1. work' = [work EXCEPT ![c][s] = work[c][s] \ {Current(c, s)}]
    BY <1>2 DEF Store
  <2> QED BY <1>t, <2>1 DEF TypeOK
<1>3. CASE work' = work
  BY <1>3, <1>o
<1> QED BY <1>o, <1>s, <1>1, <1>2, <1>3 DEF Next, HookStep, WorkerStep, StartHook, EndHook, AddThrows,
         Send, Confirm, Throw, vars, workers

(***************************************************************************)
(* The worker of a call's own sender sends it, once: it has nothing else   *)
(* to execute, and no other worker that can get the lock has the call.     *)
(***************************************************************************)
LEMMA SentStep == CallInv /\ SequentialInv /\ [Next]_vars => SentOK'
<1> SUFFICES ASSUME CallInv, SequentialInv, [Next]_vars, ~parallel', ~StoreFailed', NEW d \in Calls
             PROVE  /\ sent'[d] <= 1
                    /\ (/\ step'[d][Sender(d)] = "queued" /\ ~Failed(Sender(d))'
                        /\ d \in work'[d][Sender(d)]) => sent'[d] = 0
  BY DEF SentOK
<1>t. TypeOK /\ FreshOK /\ WorkOK /\ OwnOK /\ SentOK
  BY DEF CallInv, SequentialInv
<1>s. ~StoreFailed /\ \A c \in Calls, s \in Senders : ~StoreFails(c, s)
  BY NoStoreFailure
<1>p. ~parallel /\ parallel' = parallel /\ ~StoreFailed
  BY <1>s DEF Next, HookStep, WorkerStep, StartHook, EndHook, ExecuteSingle, AddThrows,
         Send, Confirm, Store, Throw, StoreFails, vars
<1>d. Sender(d) \in Senders
  BY CallFacts
<1>f. ~Failed(Sender(d))' => ~Failed(Sender(d))
  BY <1>d, FailedStable
<1>o. /\ sent[d] <= 1
      /\ step[d][Sender(d)] = "queued" /\ ~Failed(Sender(d)) /\ d \in work[d][Sender(d)]
           => sent[d] = 0
  BY <1>p, <1>t DEF SentOK
<1>1. ASSUME NEW e \in Events, NEW c \in Calls, ExecuteSingle(e, c)
      PROVE  sent' = sent /\ (sent[d] = 0 \/ (work'[d] = work[d] /\ step'[d] = step[d]))
  <2>1. Unmade(c)
    BY <1>1, <1>t, CallingOK DEF ExecuteSingle
  <2> QED BY <1>1, <1>t, <2>1 DEF ExecuteSingle, FreshOK, TypeOK
<1>2. ASSUME NEW c \in Calls, NEW s \in Senders, Send(c, s)
      PROVE  \/ sent'[d] = 0 + 1 /\ step'[d][Sender(d)] # "queued"
             \/ sent'[d] = sent[d] /\ step'[d] = step[d] /\ work' = work
  <2>1. ~Failed(s) /\ work[c][s] # {}
    BY <1>2, <1>t, HolderNotFailed DEF Send, WorkOK
  <2>2. Current(c, s) = c /\ c \in work[c][s] /\ Sender(c) = s
    BY <1>p, <1>t, <2>1, CurrentIsOwn
  <2>3. sent[c] = 0 /\ sent' = [sent EXCEPT ![c] = sent[c] + 1]
    <3>1. sent[c] = 0
      BY <1>2, <1>p, <1>t, <2>1, <2>2 DEF Send, SentOK
    <3>2. sent' = [sent EXCEPT ![Current(c, s)] = sent[Current(c, s)] + 1]
      BY <1>2 DEF Send
    <3> QED BY <2>2, <3>1, <3>2
  <2>4. CASE d = c
    <3>1. sent'[d] = 0 + 1
      BY <1>t, <2>3, <2>4 DEF TypeOK
    <3>2. step'[d][Sender(d)] = "confirming"
      BY <1>2, <1>d, <1>t, <2>2, <2>4 DEF Send, TypeOK
    <3> QED BY <3>1, <3>2
  <2>5. CASE d # c
    <3>1. sent'[d] = sent[d]
      BY <1>t, <2>3, <2>5 DEF TypeOK
    <3>2. step'[d] = step[d] /\ work' = work
      BY <1>2, <1>t, <2>5 DEF Send, TypeOK
    <3> QED BY <3>1, <3>2
  <2> QED BY <2>4, <2>5
<1>3. ASSUME NEW c \in Calls, NEW s \in Senders, Confirm(c, s) \/ Throw(c, s)
      PROVE  /\ sent' = sent /\ work' = work
             /\ step'[d][Sender(d)] = "queued" => step[d][Sender(d)] = "queued"
  <2>1. PICK to \in {"storing", "thrown"} : step' = [step EXCEPT ![c][s] = to]
    BY <1>3 DEF Confirm, Throw
  <2>2. step'[d][Sender(d)] = "queued" => step[d][Sender(d)] = "queued"
    BY <1>d, <1>t, <2>1 DEF TypeOK
  <2> QED BY <1>3, <2>2 DEF Confirm, Throw
<1>4. ASSUME NEW c \in Calls, NEW s \in Senders, Store(c, s)
      PROVE  /\ sent' = sent
             /\ (/\ step'[d][Sender(d)] = "queued" /\ ~Failed(Sender(d))
                 /\ d \in work'[d][Sender(d)])
                  => step[d][Sender(d)] = "queued" /\ d \in work[d][Sender(d)]
  <2>1. /\ sent' = sent /\ step[c][s] = "storing"
        /\ work' = [work EXCEPT ![c][s] = work[c][s] \ {Current(c, s)}]
    BY <1>4 DEF Store
  <2>2. CASE c = d /\ s = Sender(d) /\ ~Failed(s)
    <3>1. Current(c, s) = c /\ work[c][s] = {c}
      BY <1>p, <1>t, <2>1, <2>2, CurrentIsOwn DEF WorkOK
    <3>2. work'[d][Sender(d)] = {}
      BY <1>t, <2>1, <2>2, <3>1 DEF TypeOK
    <3> QED BY <2>1, <3>2
  <2>3. CASE ~(c = d /\ s = Sender(d))
    <3>1. PICK to : step' = [step EXCEPT ![c][s] = to]
      BY <1>4 DEF Store
    <3>2. step'[d][Sender(d)] = step[d][Sender(d)] /\ work'[d][Sender(d)] = work[d][Sender(d)]
      BY <1>d, <1>t, <2>1, <2>3, <3>1 DEF TypeOK
    <3> QED BY <2>1, <3>2
  <2> QED BY <2>1, <2>2, <2>3
<1>5. CASE UNCHANGED <<sent, work, step>>
  BY <1>5, <1>f, <1>o DEF Failed
<1>6. sent[d] \in Nat
  BY <1>t DEF TypeOK
<1> QED
  BY <1>f, <1>o, <1>s, <1>1, <1>2, <1>3, <1>4, <1>5, <1>6
  DEF Next, HookStep, WorkerStep, StartHook, EndHook, AddThrows, vars, workers

(***************************************************************************)
(* Hooks that run one after the other, in every reachable state.           *)
(***************************************************************************)
LEMMA SequentialInvariant == Spec => []SequentialInv
<1>1. CallInv /\ SequentialInv /\ [Next]_vars => SequentialInv'
  BY TurnStep, AwaitedStep, OwnStep, SentStep DEF SequentialInv
<1> QED BY <1>1, SequentialInit, CallInvariant, PTL DEF Spec

(***************************************************************************)
(* A contract call of a hook is sent at most once when hooks run one after *)
(* the other and every receipt could be stored, although each executeAll   *)
(* executes all that is registered.                                        *)
(***************************************************************************)
THEOREM SentOnce == Spec => []SequentialSentOnce
<1>1. SequentialInv => SequentialSentOnce
  BY DEF SequentialInv, SentOK, SequentialSentOnce
<1> QED BY <1>1, SequentialInvariant, PTL
=============================================================================
