--------------------------- MODULE EventTxExecutor ---------------------------
(***************************************************************************)
(* How the contract calls of event hooks are executed: EventTxExecutor in  *)
(* services/ethereum/transactions/event-executor.ts, driven by the hooks   *)
(* that TxExecutor starts, one after the other or (parallelize) all those  *)
(* of a batch at once.                                                     *)
(*                                                                         *)
(* A call registers itself under the name of its event, and executes what  *)
(* is registered: everything, its own call and those of other events, by   *)
(* one worker per sender.  A worker holds the sender's lock from before it *)
(* sends a transaction until that is confirmed.  The lock is the one that  *)
(* FifoLock describes and KeyMutex implements: a queue per sender, whose   *)
(* first element holds it.                                                 *)
(***************************************************************************)
EXTENDS Naturals, Sequences

CONSTANTS
  Events,     \* the events of the module that make calls
  Senders,    \* the accounts that sign
  Order,      \* the events whose hooks the run executes, in order
  OnFail,     \* the event of the onFail hook
  CallsBy,    \* event -> the senders of the calls that its hook makes, in order
  Catching,   \* the events whose hook catches the error of a call and goes on
  MaxFails    \* bound: transactions and stores that fail

ASSUME CallsAssumption ==
  /\ Order \in Seq(Events) /\ OnFail \in Events
  /\ CallsBy \in [Events -> Seq(Senders)]
  /\ Catching \subseteq Events
  /\ MaxFails \in Nat

Calls == UNION {{<<e, n>> : n \in 1 .. Len(CallsBy[e])} : e \in Events}

EventOf(c) == c[1]
Sender(c) == CallsBy[c[1]][c[2]]

VARIABLES
  parallel,     \* the PARALLELIZE of the session
  hook,         \* what the hook of each event does
  made,         \* how many calls each hook has made
  promise,      \* what executeSingle returned to each call
  rootEvents,   \* _rootEvents: the registered calls
  added,        \* how many calls have been registered
  arrival,      \* call -> its place in the order of insertion of _rootEvents
  work,         \* caller -> sender -> what the worker has yet to execute
  step,         \* caller -> sender -> where the worker is with the first of it
  queue,        \* the mutex: sender -> the callers whose worker asked for it
  sent,         \* how often each call was sent as a transaction
  stored,       \* the calls whose receipt is in the state file
  fails

workers == <<work, step, queue>>
registry == <<rootEvents, added, arrival>>
vars == <<parallel, hook, made, promise, registry, workers, sent, stored, fails>>

Steps == {"off", "queued", "confirming", "storing", "thrown", "unstored"}

TypeOK ==
  /\ parallel \in BOOLEAN
  /\ hook \in [Events -> {"waiting", "running", "done", "failed"}]
  /\ made \in [Events -> Nat]
  /\ promise \in [Calls -> {"none", "pending", "resolved", "rejected"}]
  /\ rootEvents \subseteq Calls /\ added \in Nat /\ arrival \in [Calls -> Nat]
  /\ work \in [Calls -> [Senders -> SUBSET Calls]]
  /\ step \in [Calls -> [Senders -> Steps]]
  /\ queue \in [Senders -> Seq(Calls)]
  /\ sent \in [Calls -> Nat] /\ stored \subseteq Calls
  /\ fails \in 0 .. MaxFails

Init ==
  /\ parallel \in BOOLEAN
  /\ hook = [e \in Events |-> "waiting"]
  /\ made = [e \in Events |-> 0]
  /\ promise = [c \in Calls |-> "none"]
  /\ rootEvents = {} /\ added = 0 /\ arrival = [c \in Calls |-> 0]
  /\ work = [c \in Calls |-> [s \in Senders |-> {}]]
  /\ step = [c \in Calls |-> [s \in Senders |-> "off"]]
  /\ queue = [s \in Senders |-> <<>>]
  /\ sent = [c \in Calls |-> 0] /\ stored = {}
  /\ fails = 0

-----------------------------------------------------------------------------
(* The hooks.                                                              *)

InOrder(e) == {i \in 1 .. Len(Order) : Order[i] = e}

(***************************************************************************)
(* _executeSync starts a hook when the ones before it are done, and        *)
(* _executeEvents starts the hooks of a batch together.  onFail is started *)
(* by the catch of deploy(), which an error reaches only from _executeSync.*)
(***************************************************************************)
Turn(e) ==
  \/ \E i \in InOrder(e) : parallel \/ \A j \in 1 .. i - 1 : hook[Order[j]] = "done"
  \/ e = OnFail /\ ~parallel /\ \E i \in 1 .. Len(Order) : hook[Order[i]] = "failed"

StartHook(e) ==
  /\ hook[e] = "waiting"
  /\ Turn(e)
  /\ hook' = [hook EXCEPT ![e] = "running"]
  /\ UNCHANGED <<parallel, made, promise, registry, workers, sent, stored, fails>>

(***************************************************************************)
(* A hook awaits one call after the other.                                 *)
(***************************************************************************)
Awaiting(e) == made[e] > 0 /\ promise[<<e, made[e]>>] = "pending"
Threw(e) == made[e] > 0 /\ promise[<<e, made[e]>>] = "rejected" /\ e \notin Catching
Calling(e, c) ==
  /\ hook[e] = "running"
  /\ ~Awaiting(e) /\ ~Threw(e)
  /\ made[e] < Len(CallsBy[e])
  /\ c = <<e, made[e] + 1>>

Blocked(e) == \E r \in rootEvents : EventOf(r) = e

(***************************************************************************)
(* add and executeSingle, then executeAll: all that is registered is       *)
(* grouped by sender, and the worker of each sender asks for its lock.     *)
(* Nothing is awaited before that, so it is one step.  What is registered  *)
(* is enumerated in the order of insertion, here by a number.              *)
(***************************************************************************)
Registered(c) == rootEvents \cup {c}

BySender(calls) == [s \in Senders |-> {c \in calls : Sender(c) = s}]

(* Mutant of the request for the locks: under the sender, not the event.   *)
AsksBySender(lists, c) ==
  [s \in Senders |-> IF lists[s] = {} THEN queue[s] ELSE Append(queue[s], <<s, c[2]>>)]

Asks(lists, c) == [s \in Senders |-> IF lists[s] = {} THEN queue[s] ELSE Append(queue[s], c)]

ExecuteSingle(e, c) ==
  /\ Calling(e, c)
  /\ ~Blocked(e)
  /\ made' = [made EXCEPT ![e] = @ + 1]
  /\ rootEvents' = Registered(c)
  /\ added' = added + 1
  /\ arrival' = [arrival EXCEPT ![c] = added']
  /\ promise' = [promise EXCEPT ![c] = "pending"]
  /\ work' = [work EXCEPT ![c] = BySender(Registered(c))]
  /\ queue' = Asks(work'[c], c)
  /\ step' = [step EXCEPT ![c] =
       [s \in Senders |-> IF work'[c][s] = {} THEN "off" ELSE "queued"]]
  /\ UNCHANGED <<parallel, hook, sent, stored, fails>>

(***************************************************************************)
(* add throws if a call of the event is still registered.                  *)
(***************************************************************************)
AddThrows(e, c) ==
  /\ Calling(e, c)
  /\ Blocked(e)
  /\ made' = [made EXCEPT ![e] = @ + 1]
  /\ promise' = [promise EXCEPT ![c] = "rejected"]
  /\ UNCHANGED <<parallel, hook, registry, workers, sent, stored, fails>>

EndHook(e) ==
  /\ hook[e] = "running"
  /\ ~Awaiting(e)
  /\ Threw(e) \/ made[e] = Len(CallsBy[e])
  /\ hook' = [hook EXCEPT ![e] = IF Threw(e) THEN "failed" ELSE "done"]
  /\ UNCHANGED <<parallel, made, promise, registry, workers, sent, stored, fails>>

-----------------------------------------------------------------------------
(* The worker that caller c started for sender s.                          *)

Current(c, s) == CHOOSE r \in work[c][s] : \A q \in work[c][s] : arrival[r] <= arrival[q]

(***************************************************************************)
(* The promise of an executed call is resolved, and its event, whatever is *)
(* registered for it by now, unregistered.                                 *)
(***************************************************************************)
Resolve(r) == [promise EXCEPT ![r] = IF @ = "pending" THEN "resolved" ELSE @]

(* Mutant of the end of a call: its event stays registered.                *)
UnregisterNone(e) == rootEvents

Unregister(e) == {r \in rootEvents : EventOf(r) # e}

(***************************************************************************)
(* The lock is granted and the function is called: it sends a transaction  *)
(* and stores the input.                                                   *)
(***************************************************************************)
Holds(c, s) == queue[s] # <<>> /\ Head(queue[s]) = c

(* Mutant of the worker: it calls the function before it has the lock.     *)
SendUnlocked(c, s) ==
  /\ step[c][s] = "queued"
  /\ sent' = [sent EXCEPT ![Current(c, s)] = @ + 1]
  /\ step' = [step EXCEPT ![c][s] = "confirming"]
  /\ UNCHANGED <<parallel, hook, made, promise, registry, work, queue, stored, fails>>

Send(c, s) ==
  /\ step[c][s] = "queued"
  /\ Holds(c, s)
  /\ sent' = [sent EXCEPT ![Current(c, s)] = @ + 1]
  /\ step' = [step EXCEPT ![c][s] = "confirming"]
  /\ UNCHANGED <<parallel, hook, made, promise, registry, work, queue, stored, fails>>

(***************************************************************************)
(* Mutants of the confirmation: the lock is not released; the promise is   *)
(* resolved before the receipt is stored.                                  *)
(***************************************************************************)
ConfirmKeepsLock(c, s) ==
  /\ step[c][s] = "confirming"
  /\ step' = [step EXCEPT ![c][s] = "storing"]
  /\ UNCHANGED <<parallel, hook, made, promise, registry, work, queue, sent, stored, fails>>

ConfirmResolves(c, s) ==
  /\ step[c][s] = "confirming"
  /\ queue' = [queue EXCEPT ![s] = Tail(@)]
  /\ step' = [step EXCEPT ![c][s] = "storing"]
  /\ promise' = Resolve(Current(c, s))
  /\ UNCHANGED <<parallel, hook, made, registry, work, sent, stored, fails>>

(***************************************************************************)
(* The confirmations have arrived and the lock is released.                *)
(***************************************************************************)
Confirm(c, s) ==
  /\ step[c][s] = "confirming"
  /\ queue' = [queue EXCEPT ![s] = Tail(@)]
  /\ step' = [step EXCEPT ![c][s] = "storing"]
  /\ UNCHANGED <<parallel, hook, made, promise, registry, work, sent, stored, fails>>

(***************************************************************************)
(* The function throws, or the transaction fails: nothing is released and  *)
(* nothing is unregistered; executeAll and the caller's promise reject.    *)
(***************************************************************************)
Rejected(c) == [promise EXCEPT ![c] = IF @ = "pending" THEN "rejected" ELSE @]

(* Mutant of the failure: the lock is released, and nothing unregistered.  *)
ThrowReleases(c, s) ==
  /\ (step[c][s] = "queued" /\ Holds(c, s)) \/ step[c][s] = "confirming"
  /\ fails < MaxFails /\ fails' = fails + 1
  /\ step' = [step EXCEPT ![c][s] = "thrown"]
  /\ queue' = [queue EXCEPT ![s] = Tail(@)]
  /\ promise' = Rejected(c)
  /\ UNCHANGED <<parallel, hook, made, registry, work, sent, stored>>

Throw(c, s) ==
  /\ (step[c][s] = "queued" /\ Holds(c, s)) \/ step[c][s] = "confirming"
  /\ fails < MaxFails /\ fails' = fails + 1
  /\ step' = [step EXCEPT ![c][s] = "thrown"]
  /\ promise' = Rejected(c)
  /\ UNCHANGED <<parallel, hook, made, registry, work, queue, sent, stored>>

(***************************************************************************)
(* The receipt is stored, the executed call answered and unregistered;     *)
(* then the worker asks for the lock again if there is more to execute.    *)
(***************************************************************************)
Store(c, s) ==
  LET r == Current(c, s)
      rest == work[c][s] \ {r} IN
  /\ step[c][s] = "storing"
  /\ stored' = stored \cup {r}
  /\ promise' = Resolve(r)
  /\ rootEvents' = Unregister(EventOf(r))
  /\ work' = [work EXCEPT ![c][s] = rest]
  /\ queue' = [queue EXCEPT ![s] = IF rest = {} THEN @ ELSE Append(@, c)]
  /\ step' = [step EXCEPT ![c][s] = IF rest = {} THEN "off" ELSE "queued"]
  /\ UNCHANGED <<parallel, hook, made, added, arrival, sent, fails>>

(***************************************************************************)
(* The store of the receipt throws: the lock is free, but the call is not  *)
(* unregistered, and a later executeAll sends it again.                    *)
(***************************************************************************)
StoreFails(c, s) ==
  /\ step[c][s] = "storing"
  /\ fails < MaxFails /\ fails' = fails + 1
  /\ step' = [step EXCEPT ![c][s] = "unstored"]
  /\ promise' = Rejected(c)
  /\ UNCHANGED <<parallel, hook, made, registry, work, queue, sent, stored>>

-----------------------------------------------------------------------------

HookStep(e) ==
  \/ StartHook(e) \/ EndHook(e)
  \/ \E c \in Calls : ExecuteSingle(e, c) \/ AddThrows(e, c)

WorkerStep(c, s) == Send(c, s) \/ Confirm(c, s) \/ Store(c, s)

Next ==
  \/ \E e \in Events : HookStep(e)
  \/ \E c \in Calls, s \in Senders : WorkerStep(c, s) \/ Throw(c, s) \/ StoreFails(c, s)

(***************************************************************************)
(* Hooks run on and the node answers; a failure is never forced.           *)
(***************************************************************************)
Spec ==
  /\ Init /\ [][Next]_vars
  /\ \A e \in Events : WF_vars(HookStep(e))
  /\ \A c \in Calls, s \in Senders : WF_vars(WorkerStep(c, s))

-----------------------------------------------------------------------------
(* Properties.                                                             *)

InFlight(c, s) == step[c][s] = "confirming"

(***************************************************************************)
(* A sender has one unconfirmed transaction at a time, whoever executes    *)
(* whose call, and after a failure none: acquireQueued around func and     *)
(* wait in _executeSenderContractFunctions.                                *)
(***************************************************************************)
OneInFlightPerSender ==
  \A c, d \in Calls, s \in Senders :
    InFlight(c, s) /\ step[d][s] \in {"confirming", "thrown"} => c = d

(***************************************************************************)
(* With hooks executed one after the other a call is sent at most once,    *)
(* although every executeAll executes all that is registered, and a failed *)
(* call stays registered: a failed transaction keeps its sender's lock.    *)
(* The one exception is a receipt that could not be stored.  The lock is   *)
(* released before the store (lines 129-135) and the call stays registered:*)
(* a later hook (that of onFail, or the next after one that caught the     *)
(* error) sends it again, and with it what it finds registered.            *)
(***************************************************************************)
StoreFailed == \E c \in Calls, s \in Senders : step[c][s] = "unstored"

SequentialSentOnce == ~parallel /\ ~StoreFailed => \A c \in Calls : sent[c] <= 1

(***************************************************************************)
(* A hook goes on after a call only when the receipt is in the state file, *)
(* so that a crash in the hook's next step does not lose it.               *)
(***************************************************************************)
StoredBeforeResolved == \A c \in Calls : promise[c] = "resolved" => c \in stored

(***************************************************************************)
(* "Execution is still blocked" is an answer only to a hook that went on   *)
(* after a call of its own had failed.                                     *)
(***************************************************************************)
BlockedOnlyAfterFailure ==
  [][\A c \in Calls :
       AddThrows(EventOf(c), c)
         => \E n \in 1 .. made[EventOf(c)] : promise[<<EventOf(c), n>>] = "rejected"]_vars

(***************************************************************************)
(* Every call is answered, unless a transaction of its sender has failed   *)
(* (which keeps the sender's lock for ever).                               *)
(***************************************************************************)
Failed(s) == \E c \in Calls : step[c][s] = "thrown"

AnsweredUnlessSenderFailed ==
  \A c \in Calls : promise[c] = "pending" ~> promise[c] # "pending" \/ Failed(Sender(c))

(***************************************************************************)
(* If the execution of a hook fails, the onFail hook is run to its end, as *)
(* the documentation of the module events says.                            *)
(***************************************************************************)
OnFailRuns ==
  \A e \in Events \ {OnFail} :
    hook[e] = "failed" /\ ~parallel ~> hook[OnFail] \in {"done", "failed"}
=============================================================================
