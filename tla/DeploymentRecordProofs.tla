----------------------- MODULE DeploymentRecordProofs -----------------------
(***************************************************************************)
(* What a run may rely on in the records it finds, for any module and any  *)
(* number of crashes, failures and changes: success is complete, the       *)
(* receipts of a hook replace its calls, and the summary complains only of *)
(* receipts that were lost.                                                *)
(***************************************************************************)
EXTENDS DeploymentProofs, NaturalsInduction

(***************************************************************************)
(* The receipt of a creation names a contract created for that binding:    *)
(* the recorded one, and the one whose confirmation is awaited.            *)
(***************************************************************************)
CreatedFor(n, b) == n \in 1 .. Len(created) /\ created[n].name = b

CreatedInv ==
  /\ \A b \in Bindings :
       file.binding[b].output # None => CreatedFor(file.binding[b].output, b)
  /\ \A b \in Bindings : At(b) /\ pc = "deploySent" => CreatedFor(Len(created), b)
  /\ \A b \in Bindings : At(b) /\ pc = "deployMined" => mem.binding[b].output # None

(***************************************************************************)
(* What the walk has passed is deployed, left out or executed; so is       *)
(* everything when the run has succeeded.                                  *)
(***************************************************************************)
PassedInv ==
  status = "running" => \A i \in 1 .. pos - 1 :
    /\ Order[i] \in Bindings \ skip => mem.binding[Order[i]].address # None
    /\ Order[i] \in Events => mem.event[Order[i]].executed

DoneInv ==
  status = "done" =>
    /\ \A b \in Bindings \ skip : file.binding[b].address # None
    /\ \A e \in Events : file.event[e].executed

SuccessInv == CreatedInv /\ PassedInv /\ DoneInv

(***************************************************************************)
(* The calls of a hook's script to a contract that come before the k-th.   *)
(***************************************************************************)
CallsBefore(e, k, b) == {i \in 1 .. k - 1 : Script[e][i] = b}

(***************************************************************************)
(* A receipt in the record of an event belongs to a call of its hook to    *)
(* that contract, and the record has more receipts than the script has     *)
(* calls to the contract before that one.                                  *)
(***************************************************************************)
ReceiptOf(chain, e, b, r, n) ==
  /\ r \in 1 .. Len(chain)
  /\ chain[r].event = e
  /\ chain[r].index \in 1 .. Len(Script[e])
  /\ Script[e][chain[r].index] = b
  /\ Cardinality(CallsBefore(e, chain[r].index, b)) < n

RecordOK(chain, e, outputs) ==
  \A b \in Bindings : \A j \in 1 .. Len(outputs[b]) :
    ReceiptOf(chain, e, b, outputs[b][j], Len(outputs[b]))

ReceiptsOK ==
  \A e \in Events : /\ RecordOK(calls, e, file.event[e].outputs)
                    /\ RecordOK(calls, e, mem.event[e].outputs)

(***************************************************************************)
(* While a hook runs, each call it has made to a contract has a receipt    *)
(* in the record, a new one or one that was stored again.                  *)
(***************************************************************************)
InHook(e) == At(e) /\ pc \in {"hook", "callSent", "callStored"}

HookOK ==
  \A e \in Events : InHook(e) =>
    /\ call \in Nat \ {0}
    /\ \A b \in Bindings :
         Cardinality(CallsBefore(e, call, b)) <= Len(file.event[e].outputs[b])

(***************************************************************************)
(* The call that is being waited for is the last one on the chain.         *)
(***************************************************************************)
SentOK ==
  \A e \in Events : At(e) /\ pc \in {"callSent", "callStored"} =>
    /\ Len(calls) # 0
    /\ calls[Len(calls)].event = e /\ calls[Len(calls)].index = call

RecordInv == ReceiptsOK /\ HookOK /\ SentOK

(***************************************************************************)
(* An event has stored no more inputs than it has calls on the chain, and  *)
(* one fewer while a call has been sent and not been stored.               *)
(***************************************************************************)
Sent(e) == {r \in 1 .. Len(calls) : calls[r].event = e}

InputsOK ==
  /\ \A e \in Events : /\ file.event[e].inputs <= Cardinality(Sent(e))
                       /\ mem.event[e].inputs <= Cardinality(Sent(e))
  /\ \A e \in Events : At(e) /\ pc = "callSent" => file.event[e].inputs < Cardinality(Sent(e))

(***************************************************************************)
(* An event that this run finished is executed, so that its hook is not    *)
(* entered again, and a module hook has an empty record.                   *)
(***************************************************************************)
FinishedOK ==
  /\ status = "running" => \A e \in finished :
       /\ mem.event[e].executed
       /\ e \in ModuleHooks => file.event[e].inputs = 0
  /\ \A e \in Events : InHook(e) => ~mem.event[e].executed

SummaryInv == InputsOK /\ FinishedOK

-----------------------------------------------------------------------------
(* What a step changes.                                                    *)

(***************************************************************************)
(* A step of a contract leaves the events, the other contracts and every   *)
(* address alone, and goes on only when the contract is deployed or left   *)
(* out.                                                                    *)
(***************************************************************************)
LEMMA BindingChanges ==
  ASSUME TypeOK, StoreInv, CreatedInv, NEW b \in Bindings, BindingStep(b)
  PROVE  /\ mem'.event = mem.event /\ file'.event = file.event
         /\ \A a \in Bindings \ {b} : mem'.binding[a] = mem.binding[a]
         /\ mem.binding[b].address # None => mem'.binding[b].address # None
         /\ UNCHANGED <<skip, calls, finished, progress, call>>
         /\ status' \in {"running", "failing", "stopped"}
         /\ \/ pos' = pos
            \/ pos' = pos + 1 /\ (b \notin skip => mem'.binding[b].address # None)
         /\ status' = "running" => pc' \in {"next", "deploySent", "deployMined"}
<1>0. mem \in State /\ file \in State /\ mem.binding[b] \in BindingRecord
  BY DEF TypeOK, State, BindingRecord
<1>1. CASE SkipBinding(b)
  BY <1>1 DEF SkipBinding, Advance, At, env
<1>2. CASE ArgumentFails(b) \/ DeployFails(b)
  BY <1>2 DEF ArgumentFails, DeployFails, Fail
<1>3. CASE DeploySend(b)
  <2>1. file' = file
    BY <1>0, <1>3 DEF DeploySend, ToDeploy, At, StoreInv, MemoryIsFile, State
  <2> QED BY <1>3, <2>1 DEF DeploySend, ToDeploy, At
<1>4. CASE DeployMined(b)
  <2>1. /\ mem'.event = mem.event /\ file'.event = file.event
        /\ \A a \in Bindings \ {b} : mem'.binding[a] = mem.binding[a]
    BY <1>0, <1>4 DEF DeployMined, State
  <2>2. mem.binding[b].address = None
    BY <1>4 DEF DeployMined, StoreInv, AddressInv
  <2> QED BY <1>4, <2>1, <2>2 DEF DeployMined, At, env
<1>5. CASE DeployConfirmed(b)
  <2> DEFINE r == [mem.binding[b] EXCEPT !.address = mem.binding[b].output]
  <2>1. mem' = [mem EXCEPT !.binding[b] = r]
    BY <1>5 DEF DeployConfirmed
  <2>2. r.address # None
    BY <1>0, <1>5 DEF DeployConfirmed, CreatedInv, BindingRecord
  <2> HIDE DEF r
  <2>3. /\ mem'.event = mem.event /\ file'.event = file.event
        /\ \A a \in Bindings \ {b} : mem'.binding[a] = mem.binding[a]
        /\ mem'.binding[b] = r
    BY <1>0, <1>5, <2>1 DEF DeployConfirmed, State
  <2> QED BY <1>5, <2>2, <2>3 DEF DeployConfirmed, Advance, At, env
<1> QED BY <1>1, <1>2, <1>3, <1>4, <1>5 DEF BindingStep

(***************************************************************************)
(* A step of an event leaves the contracts alone, takes back no execution, *)
(* and goes on only when the event is executed.                            *)
(***************************************************************************)
LEMMA EventChanges ==
  ASSUME TypeOK, StoreInv, NEW e \in Events, EventStep(e)
  PROVE  /\ mem'.binding = mem.binding /\ file'.binding = file.binding
         /\ \A f \in Events \ {e} : mem'.event[f] = mem.event[f]
         /\ \A f \in Events \ {e} : file'.event[f] = file.event[f]
         /\ mem.event[e].executed => mem'.event[e].executed
         /\ UNCHANGED <<skip, created>>
         /\ status' \in {"running", "failing", "stopped"}
         /\ pos' = pos \/ (pos' = pos + 1 /\ mem'.event[e].executed)
         /\ status' = "running" => pc' \in {"next", "hook", "callSent", "callStored"}
<1>0. mem \in State /\ file \in State /\ file.event[e] \in EventRecord
  BY DEF TypeOK, State
<1>1. CASE SkipEvent(e)
  <2>1. file' = file
    BY <1>1, SkipStores
  <2> QED BY <1>1, <2>1 DEF SkipEvent, Advance, At, env
<1>2. CASE EnterHook(e)
  BY <1>2 DEF EnterHook, At, env
<1>3. CASE DependencyMissing(e) \/ HookFails(e)
  BY <1>3 DEF DependencyMissing, HookFails, Fail
<1>4. CASE FinishHook(e)
  <2>1. file' = mem' /\ file'.binding = file.binding /\ file.binding = mem.binding
    BY <1>4, FinishStores DEF FinishHook, At, StoreInv, MemoryIsFile
  <2>2. FinishedEvent(e).executed
    BY <1>0 DEF FinishedEvent, BlankEvent, EventRecord
  <2>3. /\ \A f \in Events \ {e} : mem'.event[f] = mem.event[f]
        /\ mem'.event[e] = FinishedEvent(e)
    BY <1>0, <1>4 DEF FinishHook, State
  <2>4. \A f \in Events \ {e} : file.event[f] = mem.event[f]
    BY <1>4, OneElement DEF FinishHook, At, StoreInv, MemoryIsFile
  <2> QED BY <1>4, <2>1, <2>2, <2>3, <2>4 DEF FinishHook, Advance, At, env
<1>5. ASSUME NEW b \in Bindings, ReplayCall(e, b) \/ StoreReceipt(e, b)
      PROVE  /\ file'.binding = file.binding
             /\ \A f \in Events \ {e} : file'.event[f] = file.event[f]
  BY <1>0, <1>5 DEF ReplayCall, StoreReceipt, StoreOutput, State
<1>6. ASSUME NEW b \in Bindings, StoreInput(e, b)
      PROVE  /\ file'.binding = file.binding
             /\ \A f \in Events \ {e} : file'.event[f] = file.event[f]
  BY <1>0, <1>6 DEF StoreInput, State
<1>7. ASSUME NEW b \in Bindings, ReplayCall(e, b) \/ StoreReceipt(e, b) \/ StoreInput(e, b)
      PROVE  /\ UNCHANGED <<mem, status, skip, pos, created>>
             /\ status = "running" /\ pc' \in {"hook", "callStored"}
  BY <1>7 DEF ReplayCall, StoreReceipt, StoreInput, Calling, At, env
<1>8. ASSUME NEW b \in Bindings, SendCall(e, b)
      PROVE  /\ UNCHANGED <<mem, file, status, skip, pos, created>>
             /\ status = "running" /\ pc' = "callSent"
  BY <1>8 DEF SendCall, Calling, At
<1>9. ASSUME NEW b \in Bindings, CallUndeployed(e, b)
      PROVE  /\ UNCHANGED <<mem, file, skip, pos, created>>
             /\ status' \in {"failing", "stopped"}
  BY <1>9 DEF CallUndeployed, Fail
<1> QED BY <1>1, <1>2, <1>3, <1>4, <1>5, <1>6, <1>7, <1>8, <1>9 DEF EventStep

(***************************************************************************)
(* The steps of the walk are of the element that it has come to.           *)
(***************************************************************************)
LEMMA StepsAt ==
  /\ \A b \in Bindings : BindingStep(b) => At(b)
  /\ \A e \in Events : EventStep(e) => At(e)
BY DEF BindingStep, SkipBinding, ArgumentFails, DeploySend, DeployMined, DeployConfirmed,
       DeployFails, ToDeploy, EventStep, SkipEvent, EnterHook, DependencyMissing, HookFails,
       FinishHook, ReplayCall, SendCall, StoreInput, StoreReceipt, CallUndeployed, Calling

-----------------------------------------------------------------------------
(* Success is complete.                                                    *)

(***************************************************************************)
(* Contracts stay on the chain: a step that changes no record of one, and  *)
(* waits for none that it did not wait for before, keeps CreatedInv.       *)
(***************************************************************************)
LEMMA CreatedKept ==
  ASSUME CreatedInv, file'.binding = file.binding, created' = created,
         \A b \in Bindings : At(b)' => pc' \notin {"deploySent", "deployMined"}
  PROVE  CreatedInv'
BY DEF CreatedInv, CreatedFor

LEMMA BindingCreated ==
  ASSUME TypeOK, StoreInv, CreatedInv, NEW b \in Bindings, BindingStep(b)
  PROVE  CreatedInv'
<1>0. /\ mem \in State /\ file \in State /\ mem.binding[b] \in BindingRecord
      /\ Len(created) \in Nat
  BY DEF TypeOK, State, BindingRecord
<1>1. CASE SkipBinding(b)
  BY <1>1, CreatedKept DEF SkipBinding, Advance, env
<1>2. CASE ArgumentFails(b) \/ DeployFails(b)
  BY <1>2, CreatedKept DEF ArgumentFails, DeployFails, Fail, At
<1>3. CASE DeploySend(b)
  <2>1. file' = file
    BY <1>0, <1>3 DEF DeploySend, ToDeploy, At, StoreInv, MemoryIsFile, State
  <2>2. /\ Len(created') = Len(created) + 1
        /\ created'[Len(created) + 1].name = b
        /\ \A n \in 1 .. Len(created) : created'[n] = created[n]
    BY <1>3 DEF DeploySend, TypeOK, Contract
  <2>3. \A n, a : CreatedFor(n, a) => CreatedFor(n, a)'
    BY <1>0, <2>2 DEF CreatedFor
  <2>4. CreatedFor(Len(created), b)'
    BY <1>0, <2>2 DEF CreatedFor
  <2>5. pc' = "deploySent" /\ \A a \in Bindings : At(a)' => a = b
    BY <1>3, OneElement DEF DeploySend, ToDeploy, At, Element
  <2> QED BY <2>1, <2>3, <2>4, <2>5 DEF CreatedInv
<1>4. CASE DeployMined(b)
  <2> DEFINE r == [mem.binding[b] EXCEPT !.output = Len(created)]
  <2>1. r.output = Len(created) /\ CreatedFor(Len(created), b)
    BY <1>0, <1>4 DEF DeployMined, CreatedInv, BindingRecord
  <2>2. mem' = [mem EXCEPT !.binding[b] = r] /\ file' = [file EXCEPT !.binding[b] = r]
    BY <1>0, <1>4 DEF DeployMined, State
  <2> HIDE DEF r
  <2>3. /\ \A a \in Bindings \ {b} : file'.binding[a] = file.binding[a]
        /\ file'.binding[b] = r /\ mem'.binding[b] = r
    BY <1>0, <2>2 DEF State
  <2>4. created' = created /\ pc' = "deployMined"
    BY <1>4 DEF DeployMined, env
  <2>5. Len(created) # 0 /\ \A a \in Bindings : At(a)' => a = b
    BY <1>4, <2>1, OneElement DEF DeployMined, At, Element, CreatedFor
  <2> QED BY <2>1, <2>3, <2>4, <2>5 DEF CreatedInv, CreatedFor, None
<1>5. CASE DeployConfirmed(b)
  <2> DEFINE r == [mem.binding[b] EXCEPT !.address = mem.binding[b].output]
  <2>1. r.output = file.binding[b].output
    BY <1>0, <1>5 DEF DeployConfirmed, At, StoreInv, MemoryIsFile, BindingRecord
  <2>2. file' = [file EXCEPT !.binding[b] = r]
    BY <1>0, <1>5 DEF DeployConfirmed, State
  <2> HIDE DEF r
  <2>3. \A a \in Bindings : file'.binding[a].output = file.binding[a].output
    BY <1>0, <2>1, <2>2 DEF State
  <2>4. created' = created /\ pc' = "next"
    BY <1>5 DEF DeployConfirmed, Advance, env
  <2> QED BY <2>3, <2>4 DEF CreatedInv, CreatedFor
<1> QED BY <1>1, <1>2, <1>3, <1>4, <1>5 DEF BindingStep

(***************************************************************************)
(* Resolving blanks a record or keeps the receipt of its creation, and an  *)
(* address that it keeps is that of the file.                              *)
(***************************************************************************)
LEMMA StartCreated ==
  ASSUME TypeOK, CreatedInv, NEW changed \in SUBSET Bindings, NEW config \in SUBSET Bindings,
         StartRun(changed, config)
  PROVE  CreatedInv'
<1>1. file' = Resolved(Undeployed \cup changed) /\ pc' = "next" /\ created' = created
  BY DEF StartRun
<1>2. ASSUME NEW b \in Bindings
      PROVE  file'.binding[b].output \in {None, file.binding[b].output}
  <2>1. file.binding[b] \in BindingRecord
    BY DEF TypeOK, State, BindingRecord
  <2>2. [file.binding[b] EXCEPT !.address = None].output = file.binding[b].output
    BY <2>1 DEF BindingRecord
  <2> QED BY <1>1, <2>2 DEF Resolved, BlankBinding
<1> QED BY <1>1, <1>2 DEF CreatedInv, CreatedFor

LEMMA CreatedStep == TypeOK /\ StoreInv /\ CreatedInv /\ [Next]_vars => CreatedInv'
<1> SUFFICES ASSUME TypeOK, StoreInv, CreatedInv, [Next]_vars PROVE CreatedInv'
  OBVIOUS
<1>1. CASE Rerun
  BY <1>1, StartCreated DEF Rerun
<1>2. ASSUME NEW b \in Bindings, BindingStep(b) PROVE CreatedInv'
  BY <1>2, BindingCreated
<1>3. ASSUME NEW e \in Events, EventStep(e) PROVE CreatedInv'
  BY <1>3, EventChanges, CreatedKept DEF At
<1>4. CASE Summary \/ Crash
  BY <1>4, CreatedKept DEF Summary, Crash, At, env
<1>5. CASE FailHook
  <2>1. file'.binding = file.binding
    BY <1>5 DEF FailHook, StoreInv, MemoryIsFile
  <2> QED BY <1>5, <2>1, CreatedKept DEF FailHook, At, env
<1>6. CASE UNCHANGED vars
  BY <1>6 DEF vars, env, CreatedInv, CreatedFor, At, Element
<1> QED BY <1>1, <1>2, <1>3, <1>4, <1>5, <1>6 DEF Next

(***************************************************************************)
(* The walk: what it has passed stays so, and the element that it passes   *)
(* now is deployed, left out or executed.                                  *)
(***************************************************************************)
LEMMA WalkOn ==
  ASSUME TypeOK, PassedInv, NEW x, At(x), skip' = skip,
         \A b \in Bindings : mem.binding[b].address # None => mem'.binding[b].address # None,
         \A e \in Events : mem.event[e].executed => mem'.event[e].executed,
         \/ pos' = pos
         \/ /\ pos' = pos + 1
            /\ x \in Bindings \ skip => mem'.binding[x].address # None
            /\ x \in Events => mem'.event[x].executed
  PROVE  PassedInv'
<1>1. Order[pos] = x /\ pos \in Nat
  BY DEF At, Element, TypeOK
<1>2. \A i \in 1 .. pos' - 1 : i \in 1 .. pos - 1 \/ (i = pos /\ pos' = pos + 1)
  <2>1. pos \in Nat /\ (pos' = pos \/ pos' = pos + 1)
    BY <1>1
  <2> QED BY <2>1
<1>3. status = "running"
  BY DEF At
<1> QED BY <1>1, <1>2, <1>3 DEF PassedInv

LEMMA PassedStep ==
  TypeOK /\ StoreInv /\ CreatedInv /\ PassedInv /\ [Next]_vars => PassedInv'
<1> SUFFICES ASSUME TypeOK, StoreInv, CreatedInv, PassedInv, [Next]_vars PROVE PassedInv'
  OBVIOUS
<1>1. CASE Rerun
  BY <1>1 DEF Rerun, StartRun, PassedInv
<1>2. ASSUME NEW b \in Bindings, BindingStep(b) PROVE PassedInv'
  <2>1. At(b) /\ b \notin Events
    BY <1>2, StepsAt, ModuleAssumption
  <2> QED BY <1>2, <2>1, BindingChanges, WalkOn
<1>3. ASSUME NEW e \in Events, EventStep(e) PROVE PassedInv'
  <2>1. At(e) /\ e \notin Bindings
    BY <1>3, StepsAt, ModuleAssumption
  <2> QED BY <1>3, <2>1, EventChanges, WalkOn
<1>4. CASE Summary \/ FailHook \/ Crash
  BY <1>4 DEF Summary, FailHook, Crash, PassedInv
<1>5. CASE UNCHANGED vars
  BY <1>5 DEF vars, env, PassedInv
<1> QED BY <1>1, <1>2, <1>3, <1>4, <1>5 DEF Next

(***************************************************************************)
(* At the end of the order the walk has passed everything.                 *)
(***************************************************************************)
LEMMA DoneStep ==
  TypeOK /\ StoreInv /\ CreatedInv /\ PassedInv /\ DoneInv /\ [Next]_vars => DoneInv'
<1> SUFFICES ASSUME TypeOK, StoreInv, CreatedInv, PassedInv, DoneInv, [Next]_vars,
                    status' = "done"
             PROVE  DoneInv'
  BY DEF DoneInv
<1>1. CASE Summary
  <2>1. pos - 1 = Len(Order) /\ status = "running"
    BY <1>1, ModuleAssumption DEF Summary, TypeOK
  <2>2. \A x \in Bindings \cup Events : \E i \in 1 .. Len(Order) : Order[i] = x
    BY OrderAssumption, ModuleAssumption DEF Range
  <2>3. /\ \A b \in Bindings \ skip : mem.binding[b].address # None
        /\ \A e \in Events : mem.event[e].executed
    BY <2>1, <2>2 DEF PassedInv
  <2>4. file' = file /\ skip' = skip
    BY <1>1 DEF Summary
  <2> QED BY <2>1, <2>3, <2>4 DEF StoreInv, MemoryIsFile, DoneInv
<1>2. ~Rerun /\ ~FailHook /\ ~Crash
  BY DEF Rerun, StartRun, FailHook, Crash
<1>3. /\ \A b \in Bindings : ~BindingStep(b)
      /\ \A e \in Events : ~EventStep(e)
  BY BindingChanges, EventChanges
<1>4. CASE UNCHANGED vars
  BY <1>4 DEF vars, DoneInv
<1> QED BY <1>1, <1>2, <1>3, <1>4 DEF Next

(***************************************************************************)
(* What a run has passed is done, with contracts that were created for it  *)
(* (SuccessInv is inductive with StoreInv): the walk of _executeSync skips *)
(* nothing.                                                                *)
(***************************************************************************)
THEOREM SuccessfulRuns == Spec => []SuccessInv
<1>1. Init => SuccessInv
  BY DEF Init, SuccessInv, CreatedInv, PassedInv, DoneInv, At, BlankState, BlankBinding
<1>2. TypeOK /\ StoreInv /\ SuccessInv /\ [Next]_vars => SuccessInv'
  BY CreatedStep, PassedStep, DoneStep DEF SuccessInv
<1> QED BY <1>1, <1>2, TypeCorrect, StoresAgree, PTL DEF Spec

(***************************************************************************)
(* When deploy() succeeds, every contract that the module config does not  *)
(* leave out has the address of a contract created for it, and every event *)
(* is executed, whatever crashes, failures and changes there were before.  *)
(***************************************************************************)
THEOREM CompleteSuccess == Spec => []SuccessIsComplete
<1>1. StoreInv /\ SuccessInv => SuccessIsComplete
  BY DEF StoreInv, AddressInv, SuccessInv, CreatedInv, CreatedFor, DoneInv, SuccessIsComplete
<1> QED BY <1>1, StoresAgree, SuccessfulRuns, PTL

-----------------------------------------------------------------------------
(* The receipts of a hook replace its calls.                               *)

(***************************************************************************)
(* Counting the calls of a script: none before the first, and one more     *)
(* after a call to the contract.                                           *)
(***************************************************************************)
LEMMA BeforeFirst ==
  ASSUME NEW e, NEW b
  PROVE  Cardinality(CallsBefore(e, 1, b)) = 0
BY FS_EmptySet DEF CallsBefore

LEMMA BeforeCount ==
  ASSUME NEW e, NEW b, NEW k \in Nat
  PROVE  IsFiniteSet(CallsBefore(e, k, b)) /\ Cardinality(CallsBefore(e, k, b)) \in Nat
<1>1. IsFiniteSet(1 .. k - 1)
  BY FS_Interval
<1>2. CallsBefore(e, k, b) \in SUBSET (1 .. k - 1)
  BY DEF CallsBefore
<1>3. IsFiniteSet(CallsBefore(e, k, b))
  BY <1>1, <1>2, FS_Subset
<1> QED BY <1>3, FS_CardinalityType

LEMMA BeforeNext ==
  ASSUME NEW e, NEW b, NEW k \in Nat \ {0}
  PROVE  Cardinality(CallsBefore(e, k + 1, b)) =
           IF Script[e][k] = b THEN Cardinality(CallsBefore(e, k, b)) + 1
                               ELSE Cardinality(CallsBefore(e, k, b))
<1>1. 1 .. (k + 1) - 1 = (1 .. k - 1) \cup {k}
  OBVIOUS
<1>2. CallsBefore(e, k + 1, b) =
        IF Script[e][k] = b THEN CallsBefore(e, k, b) \cup {k} ELSE CallsBefore(e, k, b)
  BY <1>1 DEF CallsBefore
<1>3. k \notin CallsBefore(e, k, b)
  BY DEF CallsBefore
<1>4. IsFiniteSet(CallsBefore(e, k, b))
  BY BeforeCount
<1> QED BY <1>2, <1>3, <1>4, FS_AddElement

LEMMA CallsTyped ==
  ASSUME TypeOK
  PROVE  \A n \in 1 .. Len(calls) : calls[n].event \in Events /\ calls[n].index \in Nat
<1> DEFINE Call == [event : Events, index : Nat, to : Nat]
<1>1. calls \in Seq(Call)
  BY DEF TypeOK
<1> HIDE DEF Call
<1>2. \A n \in 1 .. Len(calls) : calls[n] \in Call
  BY <1>1
<1> QED BY <1>2 DEF Call

(***************************************************************************)
(* Records stay right while the chain grows; an empty one is right.        *)
(***************************************************************************)
Chain == Seq([event : Events, index : Nat, to : Nat])

Extends(longer, chain) ==
  Len(chain) <= Len(longer) /\ \A r \in 1 .. Len(chain) : longer[r] = chain[r]

LEMMA RecordStays ==
  ASSUME NEW chain \in Chain, NEW longer \in Chain, Extends(longer, chain),
         NEW e, NEW outputs, RecordOK(chain, e, outputs)
  PROVE  RecordOK(longer, e, outputs)
<1>1. Len(chain) \in Nat /\ Len(longer) \in Nat
  BY DEF Chain
<1>2. ASSUME NEW b, NEW r, NEW n, ReceiptOf(chain, e, b, r, n)
      PROVE  ReceiptOf(longer, e, b, r, n)
  <2>1. r \in 1 .. Len(longer) /\ longer[r] = chain[r]
    BY <1>1, <1>2 DEF ReceiptOf, Extends
  <2> QED BY <1>2, <2>1 DEF ReceiptOf
<1> QED BY <1>2 DEF RecordOK

LEMMA BlankOK == \A chain, e : RecordOK(chain, e, BlankEvent.outputs)
BY DEF RecordOK, BlankEvent

LEMMA CallsGrow ==
  ASSUME TypeOK, [Next]_vars
  PROVE  calls \in Chain /\ calls' \in Chain /\ Extends(calls', calls)
<1>1. calls \in Chain
  BY DEF TypeOK, Chain
<1>2. ASSUME NEW e \in Events, NEW b \in Bindings, SendCall(e, b)
      PROVE  calls' \in Chain /\ Extends(calls', calls)
  <2>1. mem.binding[b].address \in Nat /\ call \in Nat
    BY DEF TypeOK, State
  <2>2. calls' = Append(calls, [event |-> e, index |-> call, to |-> mem.binding[b].address])
    BY <1>2 DEF SendCall
  <2> QED BY <1>1, <2>1, <2>2 DEF Chain, Extends
<1>3. CASE UNCHANGED calls
  BY <1>1, <1>3 DEF Chain, Extends
<1>4. \A b \in Bindings : BindingStep(b) => UNCHANGED calls
  BY DEF BindingStep, SkipBinding, ArgumentFails, DeploySend, DeployMined, DeployConfirmed,
         DeployFails, Fail, env
<1>5. \A e \in Events :
        EventStep(e) => UNCHANGED calls \/ \E b \in Bindings : SendCall(e, b)
  BY DEF EventStep, SkipEvent, EnterHook, DependencyMissing, HookFails, FinishHook,
         ReplayCall, StoreInput, StoreReceipt, CallUndeployed, Fail, env
<1>6. Rerun \/ Summary \/ FailHook \/ Crash \/ UNCHANGED vars => UNCHANGED calls
  BY DEF Rerun, StartRun, Summary, FailHook, Crash, vars, env
<1> QED BY <1>1, <1>2, <1>3, <1>4, <1>5, <1>6 DEF Next

(***************************************************************************)
(* A stored receipt, a new one or one found in the record, is the receipt  *)
(* of a call of the script before the record's new length.                 *)
(***************************************************************************)
LEMMA OutputOK ==
  ASSUME NEW e \in Events, NEW record \in EventRecord, NEW chain, NEW b \in Bindings,
         NEW r \in Nat,
         RecordOK(chain, e, record.outputs),
         ReceiptOf(chain, e, b, r, Len(record.outputs[b]) + 1),
         \A n \in 1 .. Len(chain) : chain[n].index \in Nat
  PROVE  RecordOK(chain, e, [record.outputs EXCEPT ![b] = Append(@, r)])
<1> DEFINE old == record.outputs[b]
           new == [record.outputs EXCEPT ![b] = Append(@, r)]
<1>1. record.outputs \in [Bindings -> Seq(Nat)] /\ old \in Seq(Nat)
  BY DEF EventRecord
<1>2. \A a \in Bindings : new[a] = IF a = b THEN Append(old, r) ELSE record.outputs[a]
  BY <1>1
<1>3. /\ Len(Append(old, r)) = Len(old) + 1 /\ Len(old) \in Nat
      /\ Append(old, r)[Len(old) + 1] = r
      /\ \A j \in 1 .. Len(old) : Append(old, r)[j] = old[j]
  BY <1>1
<1>4. ASSUME NEW j \in 1 .. Len(old) + 1
      PROVE  ReceiptOf(chain, e, b, Append(old, r)[j], Len(old) + 1)
  <2>1. CASE j = Len(old) + 1
    BY <1>3, <2>1
  <2>2. CASE j \in 1 .. Len(old)
    <3>1. ReceiptOf(chain, e, b, old[j], Len(old))
      BY <2>2 DEF RecordOK
    <3>2. Cardinality(CallsBefore(e, chain[old[j]].index, b)) \in Nat
      BY <3>1, BeforeCount DEF ReceiptOf
    <3>3. ReceiptOf(chain, e, b, old[j], Len(old) + 1)
      BY <1>3, <3>1, <3>2 DEF ReceiptOf
    <3> QED BY <1>3, <2>2, <3>3
  <2> QED BY <1>3, <2>1, <2>2
<1> HIDE DEF old, new
<1>5. \A a \in Bindings : \A j \in 1 .. Len(new[a]) : ReceiptOf(chain, e, a, new[a][j], Len(new[a]))
  <2> SUFFICES ASSUME NEW a \in Bindings, NEW j \in 1 .. Len(new[a])
               PROVE  ReceiptOf(chain, e, a, new[a][j], Len(new[a]))
    OBVIOUS
  <2>1. CASE a = b
    BY <1>2, <1>3, <1>4, <2>1
  <2>2. CASE a # b
    BY <1>2, <2>2 DEF RecordOK
  <2> QED BY <2>1, <2>2
<1> QED BY <1>5 DEF RecordOK, new

LEMMA ReplayedOK ==
  ASSUME TypeOK, RecordInv, NEW e \in Events, NEW b \in Bindings, ReplayCall(e, b)
  PROVE  LET record == file.event[e].outputs[b] IN
         ReceiptOf(calls, e, b, record[progress[b] + 1], Len(record) + 1)
<1> DEFINE record == file.event[e].outputs[b]
<1>1. file.event[e] \in EventRecord
  BY DEF TypeOK, State
<1>2. record \in Seq(Nat) /\ progress[b] \in Nat
  BY <1>1 DEF EventRecord, TypeOK
<1>3. progress[b] + 1 \in 1 .. Len(record)
  <2>1. progress[b] < Len(record)
    BY DEF ReplayCall, Recorded
  <2> HIDE DEF record
  <2>2. Len(record) \in Nat
    BY <1>2
  <2> QED BY <1>2, <2>1, <2>2
<1>4. ReceiptOf(calls, e, b, record[progress[b] + 1], Len(record))
  BY <1>3 DEF RecordInv, ReceiptsOK, RecordOK
<1> HIDE DEF record
<1>5. Cardinality(CallsBefore(e, calls[record[progress[b] + 1]].index, b)) \in Nat
  BY <1>4, BeforeCount DEF ReceiptOf
<1>6. Len(record) \in Nat
  BY <1>2
<1>7. ReceiptOf(calls, e, b, record[progress[b] + 1], Len(record) + 1)
  BY <1>4, <1>5, <1>6 DEF ReceiptOf
<1> QED BY <1>7 DEF record

LEMMA ReceivedOK ==
  ASSUME TypeOK, RecordInv, NEW e \in Events, NEW b \in Bindings, StoreReceipt(e, b)
  PROVE  ReceiptOf(calls, e, b, Len(calls), Len(file.event[e].outputs[b]) + 1)
<1>1. InHook(e) /\ At(e) /\ pc = "callStored"
  BY DEF StoreReceipt, Calling, InHook
<1>2. /\ Len(calls) # 0
      /\ calls[Len(calls)].event = e /\ calls[Len(calls)].index = call
      /\ call \in Nat \ {0}
      /\ Cardinality(CallsBefore(e, call, b)) <= Len(file.event[e].outputs[b])
  BY <1>1 DEF RecordInv, HookOK, SentOK
<1>3. call <= Len(Script[e]) /\ Script[e][call] = b
  BY DEF StoreReceipt, Calling
<1>4. Len(file.event[e].outputs[b]) \in Nat /\ Len(Script[e]) \in Nat /\ Len(calls) \in Nat
  BY ModuleAssumption DEF TypeOK, State, EventRecord
<1>5. Cardinality(CallsBefore(e, call, b)) \in Nat
  BY <1>2, BeforeCount
<1> QED BY <1>2, <1>3, <1>4, <1>5 DEF ReceiptOf

(***************************************************************************)
(* The record of an event after a step is one that it had, in the file or  *)
(* in the memory, or empty, or the file's with a stored receipt or input.  *)
(***************************************************************************)
SameRecord(r, q) == r.inputs = q.inputs /\ r.outputs = q.outputs

Storing(f, b, r) ==
  \/ ReplayCall(f, b) /\ r = file.event[f].outputs[b][progress[b] + 1]
  \/ StoreReceipt(f, b) /\ r = Len(calls)

LEMMA RecordChange ==
  ASSUME TypeOK, StoreInv, [Next]_vars, NEW f \in Events
  PROVE  LET old == {BlankEvent, mem.event[f], file.event[f]} IN
         /\ \E q \in old : SameRecord(mem'.event[f], q)
         /\ \/ \E q \in old : SameRecord(file'.event[f], q)
            \/ \E b \in Bindings, r \in Nat :
                 /\ Storing(f, b, r)
                 /\ file'.event[f].inputs = file.event[f].inputs
                 /\ file'.event[f].outputs
                      = [file.event[f].outputs EXCEPT ![b] = Append(@, r)]
            \/ \E b \in Bindings :
                 /\ StoreInput(f, b)
                 /\ file'.event[f].inputs = file.event[f].inputs + 1
                 /\ file'.event[f].outputs = file.event[f].outputs
<1>0. mem \in State /\ file \in State /\ file.event[f] \in EventRecord
  BY DEF TypeOK, State
<1>1. CASE Rerun
  <2>1. PICK S : file' = Resolved(S) /\ mem' = Resolved(S)
    BY <1>1 DEF Rerun, StartRun
  <2>2. mem'.event[f] \in {BlankEvent, file.event[f]} /\ file'.event[f] = mem'.event[f]
    BY <2>1 DEF Resolved, InvalidatedEvent
  <2> QED BY <2>2 DEF SameRecord
<1>2. ASSUME NEW b \in Bindings, BindingStep(b)
      PROVE  mem'.event = mem.event /\ file'.event = file.event
  <2>1. CASE DeployMined(b) \/ DeployConfirmed(b) \/ DeploySend(b)
    BY <1>0, <2>1 DEF DeployMined, DeployConfirmed, DeploySend, State
  <2>2. CASE SkipBinding(b) \/ ArgumentFails(b) \/ DeployFails(b)
    BY <2>2 DEF SkipBinding, ArgumentFails, DeployFails, Fail
  <2> QED BY <1>2, <2>1, <2>2 DEF BindingStep
<1>3. ASSUME NEW e \in Events \ {f}, EventStep(e)
      PROVE  mem'.event[f] = mem.event[f] /\ file'.event[f] = file.event[f]
  BY <1>3, EventChanges
<1>4. CASE EventStep(f)
  <2>1. CASE SkipEvent(f)
    BY <2>1, SkipStores DEF SkipEvent, SameRecord
  <2>2. CASE EnterHook(f) \/ DependencyMissing(f) \/ HookFails(f)
    BY <2>2 DEF EnterHook, DependencyMissing, HookFails, Fail, SameRecord
  <2>3. CASE FinishHook(f)
    <3>1. file' = mem' /\ mem'.event[f] = FinishedEvent(f)
      BY <1>0, <2>3, FinishStores DEF FinishHook, State
    <3>2. \E q \in {BlankEvent, file.event[f]} : SameRecord(FinishedEvent(f), q)
      BY <1>0 DEF FinishedEvent, BlankEvent, EventRecord, SameRecord
    <3> QED BY <3>1, <3>2
  <2>4. ASSUME NEW b \in Bindings, NEW r \in Nat, file' = StoreOutput(f, b, r)
        PROVE  /\ file'.event[f].inputs = file.event[f].inputs
               /\ file'.event[f].outputs = [file.event[f].outputs EXCEPT ![b] = Append(@, r)]
    BY <1>0, <2>4 DEF StoreOutput, State, EventRecord
  <2>5. ASSUME NEW b \in Bindings, ReplayCall(f, b) \/ StoreReceipt(f, b)
        PROVE  \E r \in Nat :
                 /\ Storing(f, b, r) /\ UNCHANGED mem
                 /\ file'.event[f].inputs = file.event[f].inputs
                 /\ file'.event[f].outputs
                      = [file.event[f].outputs EXCEPT ![b] = Append(@, r)]
    <3>1. CASE ReplayCall(f, b)
      <4> DEFINE r == file.event[f].outputs[b][progress[b] + 1]
      <4>1. r \in Nat
        BY <3>1, ReplayTyped
      <4>2. file' = StoreOutput(f, b, r) /\ UNCHANGED mem /\ Storing(f, b, r)
        BY <3>1 DEF ReplayCall, Storing
      <4> HIDE DEF r
      <4> QED BY <4>1, <4>2, <2>4
    <3>2. CASE StoreReceipt(f, b)
      <4>1. Len(calls) \in Nat
        BY DEF TypeOK
      <4>2. file' = StoreOutput(f, b, Len(calls)) /\ UNCHANGED mem /\ Storing(f, b, Len(calls))
        BY <3>2 DEF StoreReceipt, Storing
      <4> QED BY <4>1, <4>2, <2>4
    <3> QED BY <2>5, <3>1, <3>2
  <2>6. ASSUME NEW b \in Bindings, StoreInput(f, b)
        PROVE  /\ UNCHANGED mem
               /\ file'.event[f].inputs = file.event[f].inputs + 1
               /\ file'.event[f].outputs = file.event[f].outputs
    BY <1>0, <2>6 DEF StoreInput, State, EventRecord
  <2>7. ASSUME NEW b \in Bindings, SendCall(f, b) \/ CallUndeployed(f, b)
        PROVE  UNCHANGED <<mem, file>>
    BY <2>7 DEF SendCall, CallUndeployed, Fail
  <2>8. CASE UNCHANGED <<mem, file>>
    BY <2>8 DEF SameRecord
  <2>9. CASE \E b \in Bindings : ReplayCall(f, b) \/ StoreReceipt(f, b)
    BY <2>5, <2>9 DEF SameRecord
  <2>10. CASE \E b \in Bindings : StoreInput(f, b)
    BY <2>6, <2>10 DEF SameRecord
  <2> QED BY <1>4, <2>1, <2>2, <2>3, <2>7, <2>8, <2>9, <2>10 DEF EventStep
<1>5. CASE mem'.event[f] \in {mem.event[f], file.event[f]}
           /\ file'.event[f] \in {mem.event[f], file.event[f]}
  BY <1>5 DEF SameRecord
<1>6. CASE Summary \/ FailHook \/ Crash \/ UNCHANGED vars
  BY <1>5, <1>6 DEF Summary, FailHook, Crash, vars
<1>7. CASE \E b \in Bindings : BindingStep(b)
  BY <1>2, <1>5, <1>7
<1>8. CASE \E e \in Events : EventStep(e)
  BY <1>3, <1>4, <1>5, <1>8
<1> QED BY <1>1, <1>6, <1>7, <1>8 DEF Next

LEMMA ReceiptsStep == TypeOK /\ StoreInv /\ RecordInv /\ [Next]_vars => ReceiptsOK'
<1> SUFFICES ASSUME TypeOK, StoreInv, RecordInv, [Next]_vars, NEW f \in Events
             PROVE  /\ RecordOK(calls', f, file'.event[f].outputs)
                    /\ RecordOK(calls', f, mem'.event[f].outputs)
  BY DEF ReceiptsOK
<1>1. calls \in Chain /\ calls' \in Chain /\ Extends(calls', calls)
  BY CallsGrow
<1>2. \A outputs : RecordOK(calls, f, outputs) => RecordOK(calls', f, outputs)
  BY <1>1, RecordStays
<1>3. \A q \in {BlankEvent, mem.event[f], file.event[f]} : RecordOK(calls, f, q.outputs)
  BY BlankOK DEF RecordInv, ReceiptsOK
<1>4. ASSUME NEW b \in Bindings, NEW r \in Nat, Storing(f, b, r)
      PROVE  RecordOK(calls, f, [file.event[f].outputs EXCEPT ![b] = Append(@, r)])
  <2>1. file.event[f] \in EventRecord
    BY DEF TypeOK, State
  <2>2. ReceiptOf(calls, f, b, r, Len(file.event[f].outputs[b]) + 1)
    BY <1>4, ReplayedOK, ReceivedOK DEF Storing
  <2>3. \A n \in 1 .. Len(calls) : calls[n].index \in Nat
    BY CallsTyped
  <2> QED BY <1>3, <2>1, <2>2, <2>3, OutputOK
<1> QED BY <1>2, <1>3, <1>4, RecordChange DEF SameRecord

(***************************************************************************)
(* Only the steps of an event leave the run in its hook.                   *)
(***************************************************************************)
LEMMA HookEntered ==
  ASSUME TypeOK, StoreInv, CreatedInv, [Next]_vars, NEW e \in Events, InHook(e)'
  PROVE  \/ EnterHook(e)
         \/ \E b \in Bindings :
              ReplayCall(e, b) \/ SendCall(e, b) \/ StoreInput(e, b) \/ StoreReceipt(e, b)
         \/ UNCHANGED vars
<1>1. status' = "running" /\ pc' \in {"hook", "callSent", "callStored"} /\ Element(e)'
  BY DEF InHook, At
<1>2. ~Rerun /\ ~Summary /\ ~FailHook /\ ~Crash
  BY <1>1 DEF Rerun, StartRun, Summary, FailHook, Crash
<1>3. \A b \in Bindings : ~BindingStep(b)
  BY <1>1, BindingChanges
<1>4. ASSUME NEW f \in Events, EventStep(f)
      PROVE  \/ EnterHook(e)
             \/ \E b \in Bindings :
                  ReplayCall(e, b) \/ SendCall(e, b) \/ StoreInput(e, b) \/ StoreReceipt(e, b)
  <2>1. ~SkipEvent(f) /\ ~FinishHook(f)
    BY <1>1 DEF SkipEvent, FinishHook, Advance
  <2>2. /\ ~DependencyMissing(f) /\ ~HookFails(f)
        /\ \A b \in Bindings : ~CallUndeployed(f, b)
    BY <1>1 DEF DependencyMissing, HookFails, CallUndeployed, Fail
  <2>3. \/ EnterHook(f)
        \/ \E b \in Bindings :
             ReplayCall(f, b) \/ SendCall(f, b) \/ StoreInput(f, b) \/ StoreReceipt(f, b)
    BY <1>4, <2>1, <2>2 DEF EventStep
  <2>4. pos' = pos /\ Element(f)
    BY <2>3, <1>4, StepsAt DEF EnterHook, ReplayCall, SendCall, StoreInput, StoreReceipt, At
  <2>5. e = f
    BY <1>1, <2>4 DEF Element
  <2> QED BY <2>3, <2>5
<1> QED BY <1>2, <1>3, <1>4 DEF Next

LEMMA CallCounted ==
  ASSUME TypeOK, HookOK, NEW e \in Events, NEW b \in Bindings, NEW r \in Nat, InHook(e),
         Script[e][call] = b, call' = call + 1,
         file'.event[e].outputs = [file.event[e].outputs EXCEPT ![b] = Append(@, r)]
  PROVE  /\ call' \in Nat \ {0}
         /\ \A a \in Bindings :
              Cardinality(CallsBefore(e, call', a)) <= Len(file'.event[e].outputs[a])
<1>1. call \in Nat \ {0}
  BY DEF HookOK
<1>2. \A a \in Bindings : Cardinality(CallsBefore(e, call, a)) <= Len(file.event[e].outputs[a])
  BY DEF HookOK
<1>3. file.event[e] \in EventRecord
  BY DEF TypeOK, State
<1>4. file.event[e].outputs \in [Bindings -> Seq(Nat)]
  BY <1>3 DEF EventRecord
<1>5. \A a \in Bindings : Len(file.event[e].outputs[a]) \in Nat
  BY <1>4
<1>6. \A a \in Bindings : Len(file'.event[e].outputs[a]) =
        IF a = b THEN Len(file.event[e].outputs[a]) + 1 ELSE Len(file.event[e].outputs[a])
  <2>1. file'.event[e].outputs[b] = Append(file.event[e].outputs[b], r)
    BY <1>4
  <2>2. \A a \in Bindings : a # b => file'.event[e].outputs[a] = file.event[e].outputs[a]
    BY <1>4
  <2>3. Len(file'.event[e].outputs[b]) = Len(file.event[e].outputs[b]) + 1
    BY <1>4, <2>1
  <2> QED BY <2>2, <2>3
<1>7. \A a \in Bindings : Cardinality(CallsBefore(e, call, a)) \in Nat
  BY <1>1, BeforeCount
<1>8. \A a \in Bindings : Cardinality(CallsBefore(e, call', a)) =
        IF a = b THEN Cardinality(CallsBefore(e, call, a)) + 1
                 ELSE Cardinality(CallsBefore(e, call, a))
  BY <1>1, BeforeNext
<1> QED BY <1>1, <1>2, <1>5, <1>6, <1>7, <1>8

LEMMA HookStep ==
  TypeOK /\ StoreInv /\ CreatedInv /\ RecordInv /\ [Next]_vars => HookOK'
<1> SUFFICES ASSUME TypeOK, StoreInv, CreatedInv, RecordInv, [Next]_vars,
                    NEW e \in Events, InHook(e)'
             PROVE  /\ call' \in Nat \ {0}
                    /\ \A a \in Bindings :
                         Cardinality(CallsBefore(e, call', a)) <= Len(file'.event[e].outputs[a])
  BY DEF HookOK, CallsBefore
<1>0. HookOK /\ file \in State /\ file.event[e] \in EventRecord
  BY DEF RecordInv, TypeOK, State
<1>1. CASE EnterHook(e)
  <2>1. call' = 1 /\ file' = file
    BY <1>1 DEF EnterHook
  <2>2. \A a \in Bindings : Len(file.event[e].outputs[a]) \in Nat
    BY <1>0 DEF EventRecord
  <2> QED BY <2>1, <2>2, BeforeFirst
<1>2. ASSUME NEW b \in Bindings, ReplayCall(e, b) \/ StoreReceipt(e, b)
      PROVE  /\ call' \in Nat \ {0}
             /\ \A a \in Bindings :
                  Cardinality(CallsBefore(e, call', a)) <= Len(file'.event[e].outputs[a])
  <2> DEFINE r == IF ReplayCall(e, b) THEN file.event[e].outputs[b][progress[b] + 1]
                                      ELSE Len(calls)
  <2>1. r \in Nat
    BY <1>2, ReplayTyped DEF TypeOK
  <2>2. file' = StoreOutput(e, b, r)
    BY <1>2 DEF ReplayCall, StoreReceipt
  <2> HIDE DEF r
  <2>3. file'.event[e].outputs = [file.event[e].outputs EXCEPT ![b] = Append(@, r)]
    BY <1>0, <2>2 DEF StoreOutput, State, EventRecord
  <2>4. InHook(e) /\ Script[e][call] = b /\ call' = call + 1
    BY <1>2 DEF ReplayCall, StoreReceipt, Calling, InHook
  <2> QED BY <1>0, <2>1, <2>3, <2>4, CallCounted
<1>3. ASSUME NEW b \in Bindings, SendCall(e, b) \/ StoreInput(e, b)
      PROVE  /\ call' \in Nat \ {0}
             /\ \A a \in Bindings :
                  Cardinality(CallsBefore(e, call', a)) <= Len(file'.event[e].outputs[a])
  <2>1. file'.event[e].outputs = file.event[e].outputs
    <3>1. CASE SendCall(e, b)
      BY <3>1 DEF SendCall
    <3>2. CASE StoreInput(e, b)
      BY <1>0, <3>2 DEF StoreInput, State, EventRecord
    <3> QED BY <1>3, <3>1, <3>2
  <2>2. InHook(e) /\ call' = call
    BY <1>3 DEF SendCall, StoreInput, Calling, InHook
  <2> QED BY <1>0, <2>1, <2>2 DEF HookOK
<1>4. CASE UNCHANGED vars
  <2>1. InHook(e) /\ call' = call /\ file' = file
    BY <1>4 DEF vars, InHook, At, Element
  <2> QED BY <1>0, <2>1 DEF HookOK
<1> QED BY <1>1, <1>2, <1>3, <1>4, HookEntered

LEMMA SentStep ==
  TypeOK /\ StoreInv /\ CreatedInv /\ RecordInv /\ [Next]_vars => SentOK'
<1> SUFFICES ASSUME TypeOK, StoreInv, CreatedInv, RecordInv, [Next]_vars,
                    NEW e \in Events, At(e)', pc' \in {"callSent", "callStored"}
             PROVE  /\ Len(calls') # 0
                    /\ calls'[Len(calls')].event = e /\ calls'[Len(calls')].index = call'
  BY DEF SentOK
<1>1. InHook(e)'
  BY DEF InHook
<1>2. ASSUME NEW b \in Bindings, SendCall(e, b)
      PROVE  /\ Len(calls') # 0
             /\ calls'[Len(calls')].event = e /\ calls'[Len(calls')].index = call'
  <2> DEFINE c == [event |-> e, index |-> call, to |-> mem.binding[b].address]
  <2>1. calls' = Append(calls, c) /\ call' = call
    BY <1>2 DEF SendCall
  <2>2. c.event = e /\ c.index = call
    OBVIOUS
  <2> HIDE DEF c
  <2>3. Len(calls') = Len(calls) + 1 /\ Len(calls) \in Nat /\ calls'[Len(calls) + 1] = c
    BY <2>1 DEF TypeOK
  <2> QED BY <2>1, <2>2, <2>3
<1>3. ASSUME NEW b \in Bindings, StoreInput(e, b)
      PROVE  /\ Len(calls') # 0
             /\ calls'[Len(calls')].event = e /\ calls'[Len(calls')].index = call'
  <2>1. At(e) /\ pc = "callSent" /\ UNCHANGED <<calls, call>>
    BY <1>3 DEF StoreInput, Calling, env
  <2> QED BY <2>1 DEF RecordInv, SentOK
<1>4. CASE UNCHANGED vars
  <2>1. At(e) /\ pc \in {"callSent", "callStored"} /\ UNCHANGED <<calls, call>>
    BY <1>4 DEF vars, env, At, Element
  <2> QED BY <2>1 DEF RecordInv, SentOK
<1>5. /\ ~EnterHook(e)
      /\ \A b \in Bindings : ~ReplayCall(e, b) /\ ~StoreReceipt(e, b)
  BY DEF EnterHook, ReplayCall, StoreReceipt
<1> QED BY <1>1, <1>2, <1>3, <1>4, <1>5, HookEntered

(***************************************************************************)
(* In every reachable state the record of an event holds receipts of its   *)
(* own calls, and enough of them for the calls that its hook has made.     *)
(***************************************************************************)
THEOREM RecordsCorrect == Spec => []RecordInv
<1>1. Init => RecordInv
  <2> SUFFICES ASSUME Init PROVE RecordInv
    OBVIOUS
  <2>1. \A e \in Events : file.event[e] = BlankEvent /\ mem.event[e] = BlankEvent
    BY DEF Init, BlankState
  <2>2. ReceiptsOK
    BY <2>1, BlankOK DEF ReceiptsOK
  <2> QED BY <2>2 DEF Init, RecordInv, HookOK, SentOK, InHook, At
<1>2. SuccessInv => CreatedInv
  BY DEF SuccessInv
<1>3. TypeOK /\ StoreInv /\ CreatedInv /\ RecordInv /\ [Next]_vars => RecordInv'
  BY ReceiptsStep, HookStep, SentStep DEF RecordInv
<1> QED BY <1>1, <1>2, <1>3, TypeCorrect, StoresAgree, SuccessfulRuns, PTL DEF Spec

(***************************************************************************)
(* A call whose receipt is recorded is not sent again, as long as the      *)
(* counter that the contract's other events share is the event's own.      *)
(***************************************************************************)
THEOREM CallsNotResent == Spec => RecordedCallNotResent
<1> DEFINE Fresh == \A e \in Events, b \in Bindings :
                      SendCall(e, b) /\ OwnProgress(e, b)
                        => \A r \in ReceiptsOf(e) : calls[r].index # call
<1>1. TypeOK /\ RecordInv => Fresh
  <2> SUFFICES ASSUME TypeOK, RecordInv, NEW e \in Events, NEW b \in Bindings,
                      SendCall(e, b), OwnProgress(e, b),
                      NEW r \in ReceiptsOf(e), calls[r].index = call
               PROVE  FALSE
    OBVIOUS
  <2>1. PICK a \in Bindings : \E j \in 1 .. Len(file.event[e].outputs[a]) :
                                r = file.event[e].outputs[a][j]
    BY DEF ReceiptsOf
  <2>2. ReceiptOf(calls, e, a, r, Len(file.event[e].outputs[a]))
    BY <2>1 DEF RecordInv, ReceiptsOK, RecordOK
  <2>3. Script[e][call] = a /\ Cardinality(CallsBefore(e, call, a)) < Len(file.event[e].outputs[a])
    BY <2>2 DEF ReceiptOf
  <2>4. a = b
    BY <2>3 DEF SendCall, Calling
  <2>5. progress[b] = Cardinality(CallsBefore(e, call, b)) /\ progress[b] \in Nat
    BY DEF OwnProgress, CallsBefore, TypeOK
  <2>6. ~(Len(file.event[e].outputs[b]) > progress[b])
    BY DEF SendCall, Recorded
  <2> QED BY <2>3, <2>4, <2>5, <2>6
<1>2. TypeOK /\ RecordInv /\ [Next]_vars => [Fresh]_vars
  BY <1>1
<1> HIDE DEF Fresh
<1>3. Spec => [][Fresh]_vars
  BY <1>2, TypeCorrect, RecordsCorrect, PTL DEF Spec
<1> QED BY <1>3 DEF Fresh, RecordedCallNotResent

-----------------------------------------------------------------------------
(* The summary complains only of receipts that were lost.                  *)

(***************************************************************************)
(* A set of numbers with 0 and every successor has them all: the least     *)
(* number that is missing would be one or the other.                       *)
(***************************************************************************)
LEMMA AllNumbers ==
  ASSUME NEW P \in SUBSET Nat, 0 \in P, \A n \in P : n + 1 \in P
  PROVE  P = Nat
<1> SUFFICES ASSUME Nat \ P # {} PROVE FALSE
  OBVIOUS
<1>1. PICK m \in Nat \ P : \A n \in Nat \ P : <<n, m>> \notin OpToRel(<, Nat)
  BY NatLessThanWellFounded, WFMin
<1>2. \A n \in Nat \ P : ~(n < m)
  BY <1>1 DEF OpToRel
<1>3. m # 0 /\ m - 1 \in Nat /\ m - 1 < m
  OBVIOUS
<1>4. m - 1 \in P
  BY <1>2, <1>3
<1>5. (m - 1) + 1 \in P
  BY <1>4
<1> QED BY <1>3, <1>5

(***************************************************************************)
(* The sum of a function over a finite set: the function that the fold     *)
(* defines by recursion on the subsets exists.                             *)
(***************************************************************************)
Adding(f, g, s) == IF s = {} THEN 0 ELSE LET x == CHOOSE x \in s : TRUE IN f[x] + g[s \ {x}]

LEMMA Chosen == \A s : s # {} => (CHOOSE x \in s : TRUE) \in s
OBVIOUS

LEMMA Smaller ==
  ASSUME NEW S, IsFiniteSet(S), NEW s \in SUBSET S, s # {}, NEW n \in Nat,
         Cardinality(s) <= n + 1
  PROVE  LET x == CHOOSE x \in s : TRUE IN
         x \in s /\ s \ {x} \in SUBSET S /\ Cardinality(s \ {x}) <= n
<1> DEFINE x == CHOOSE x \in s : TRUE
<1>1. x \in s
  BY Chosen
<1> HIDE DEF x
<1>2. IsFiniteSet(s)
  BY FS_Subset
<1>3. Cardinality(s) \in Nat /\ Cardinality(s \ {x}) = Cardinality(s) - 1
  BY <1>1, <1>2, FS_CardinalityType, FS_RemoveElement
<1>4. Cardinality(s \ {x}) <= n
  BY <1>3
<1> QED BY <1>1, <1>4 DEF x

LEMMA SumDefined ==
  ASSUME NEW S, IsFiniteSet(S), NEW f \in [S -> Nat]
  PROVE  \E V : \E g \in [SUBSET S -> V] : \A s \in SUBSET S : g[s] = Adding(f, g, s)
<1> DEFINE Sums(g, n) == \A s \in SUBSET S : Cardinality(s) <= n => g[s] = Adding(f, g, s)
           P == {n \in Nat : \E g : Sums(g, n)}
<1>1. 0 \in P
  <2> DEFINE g == [s \in SUBSET S |-> 0]
  <2>1. ASSUME NEW s \in SUBSET S, Cardinality(s) <= 0 PROVE g[s] = Adding(f, g, s)
    <3>1. IsFiniteSet(s) /\ Cardinality(s) \in Nat
      BY FS_Subset, FS_CardinalityType
    <3>2. s = {}
      BY <2>1, <3>1, FS_EmptySet
    <3> QED BY <3>2 DEF Adding
  <2> QED BY <2>1
<1>2. ASSUME NEW n \in P PROVE n + 1 \in P
  <2>1. PICK g : Sums(g, n)
    OBVIOUS
  <2> DEFINE h == [s \in SUBSET S |-> Adding(f, g, s)]
  <2>2. ASSUME NEW s \in SUBSET S, Cardinality(s) <= n + 1 PROVE h[s] = Adding(f, h, s)
    <3>1. CASE s = {}
      BY <3>1 DEF Adding
    <3>2. CASE s # {}
      <4> DEFINE x == CHOOSE x \in s : TRUE
      <4>1. s \ {x} \in SUBSET S /\ Cardinality(s \ {x}) <= n
        BY <2>2, <3>2, Smaller
      <4>2. h[s \ {x}] = g[s \ {x}]
        BY <2>1, <4>1
      <4>3. Adding(f, h, s) = f[x] + h[s \ {x}] /\ Adding(f, g, s) = f[x] + g[s \ {x}]
        BY <3>2 DEF Adding
      <4> QED BY <4>2, <4>3
    <3> QED BY <3>1, <3>2
  <2>3. Sums(h, n + 1)
    BY <2>2
  <2>4. n + 1 \in Nat
    OBVIOUS
  <2> HIDE DEF h, Sums
  <2> QED BY <2>3, <2>4
<1>3. P = Nat
  <2> HIDE DEF P
  <2>1. P \in SUBSET Nat
    BY DEF P
  <2> QED BY <1>1, <1>2, <2>1, AllNumbers
<1>4. Cardinality(S) \in Nat
  BY FS_CardinalityType
<1>5. PICK g : Sums(g, Cardinality(S))
  BY <1>3, <1>4
<1>6. \A s \in SUBSET S : Cardinality(s) <= Cardinality(S)
  BY FS_Subset
<1> DEFINE h == [s \in SUBSET S |-> Adding(f, g, s)]
<1>7. \A s \in SUBSET S : h[s] = g[s]
  BY <1>5, <1>6
<1>8. ASSUME NEW s \in SUBSET S PROVE Adding(f, h, s) = Adding(f, g, s)
  <2> DEFINE x == CHOOSE x \in s : TRUE
  <2>1. h[s \ {x}] = g[s \ {x}]
    BY <1>7
  <2>2. s # {} => Adding(f, h, s) = f[x] + h[s \ {x}] /\ Adding(f, g, s) = f[x] + g[s \ {x}]
    BY DEF Adding
  <2>3. s = {} => Adding(f, h, s) = 0 /\ Adding(f, g, s) = 0
    BY DEF Adding
  <2> HIDE DEF h, x
  <2> QED BY <2>1, <2>2, <2>3
<1>9. \A s \in SUBSET S : h[s] = Adding(f, h, s)
  BY <1>8
<1>10. h \in [SUBSET S -> {h[s] : s \in SUBSET S}]
  OBVIOUS
<1> HIDE DEF h
<1> QED BY <1>9, <1>10

(***************************************************************************)
(* Numbers that bound the sizes of finite sets bound the size of the union *)
(* with their sum.                                                         *)
(***************************************************************************)
LEMMA SumBounds ==
  ASSUME NEW S, IsFiniteSet(S), NEW f \in [S -> Nat], NEW R,
         \A x \in S : IsFiniteSet(R[x]) /\ Cardinality(R[x]) <= f[x],
         NEW g, \A s \in SUBSET S : g[s] = Adding(f, g, s),
         NEW all, \A y : y \in all <=> \E x \in S : y \in R[x]
  PROVE  g[S] \in Nat /\ IsFiniteSet(all) /\ Cardinality(all) <= g[S]
<1> DEFINE U(s) == UNION {R[x] : x \in s}
           Bound(s) == IsFiniteSet(U(s)) /\ g[s] \in Nat /\ Cardinality(U(s)) <= g[s]
           P == {n \in Nat : \A s \in SUBSET S : Cardinality(s) <= n => Bound(s)}
<1>1. Bound({})
  <2>1. U({}) = {} /\ g[{}] = 0
    BY DEF Adding
  <2>2. IsFiniteSet({}) /\ Cardinality({}) = 0
    BY FS_EmptySet
  <2>3. IsFiniteSet(U({})) /\ Cardinality(U({})) = 0 /\ g[{}] = 0
    BY <2>1, <2>2
  <2> HIDE DEF U
  <2> QED BY <2>3
<1>2. 0 \in P
  <2>1. ASSUME NEW s \in SUBSET S, Cardinality(s) <= 0 PROVE s = {}
    <3>1. IsFiniteSet(s) /\ Cardinality(s) \in Nat
      BY FS_Subset, FS_CardinalityType
    <3> QED BY <2>1, <3>1, FS_EmptySet
  <2> HIDE DEF Bound
  <2> QED BY <1>1, <2>1
<1>3. ASSUME NEW n \in P PROVE n + 1 \in P
  <2>1. ASSUME NEW s \in SUBSET S, Cardinality(s) <= n + 1, s # {} PROVE Bound(s)
    <3> DEFINE x == CHOOSE x \in s : TRUE
               t == s \ {x}
    <3>1. x \in s /\ t \in SUBSET S /\ Cardinality(t) <= n
      BY <2>1, Smaller
    <3>2. g[s] = f[x] + g[t]
      BY <2>1 DEF Adding
    <3> HIDE DEF x
    <3>3. U(s) = R[x] \cup U(t)
      BY <3>1
    <3> HIDE DEF t, U
    <3>4. IsFiniteSet(U(t)) /\ g[t] \in Nat /\ Cardinality(U(t)) <= g[t]
      BY <3>1
    <3>5. IsFiniteSet(R[x]) /\ Cardinality(R[x]) <= f[x] /\ f[x] \in Nat
      BY <3>1
    <3>6. /\ IsFiniteSet(R[x] \cup U(t))
          /\ Cardinality(R[x] \cup U(t))
               = Cardinality(R[x]) + Cardinality(U(t)) - Cardinality(R[x] \cap U(t))
      <4>1. IsFiniteSet(R[x]) /\ IsFiniteSet(U(t))
        BY <3>4, <3>5
      <4> QED BY <4>1, FS_Union
    <3>7. /\ Cardinality(R[x]) \in Nat /\ Cardinality(U(t)) \in Nat
          /\ Cardinality(R[x] \cap U(t)) \in Nat
      BY <3>4, <3>5, FS_CardinalityType, FS_Intersection
    <3>8. Cardinality(U(s)) <= g[s] /\ g[s] \in Nat
      BY <3>2, <3>3, <3>4, <3>5, <3>6, <3>7
    <3> QED BY <3>3, <3>6, <3>8
  <2>2. n + 1 \in Nat
    OBVIOUS
  <2> HIDE DEF Bound
  <2> QED BY <1>1, <2>1, <2>2
<1>4. P = Nat
  <2> HIDE DEF P
  <2>1. P \in SUBSET Nat
    BY DEF P
  <2> QED BY <1>2, <1>3, <2>1, AllNumbers
<1>5. Cardinality(S) \in Nat
  BY FS_CardinalityType
<1>6. Cardinality(S) \in P
  BY <1>4, <1>5
<1>7. Bound(S)
  <2> HIDE DEF Bound
  <2> QED BY <1>5, <1>6
<1>8. U(S) = all
  OBVIOUS
<1> HIDE DEF U
<1> QED BY <1>7, <1>8

LEMMA OutputsSum ==
  ASSUME NEW e \in Events, file.event[e] \in EventRecord, NEW f \in [Bindings -> Nat],
         f = [b \in Bindings |-> Len(file.event[e].outputs[b])]
  PROVE  \E g : /\ \A s \in SUBSET Bindings : g[s] = Adding(f, g, s)
                /\ Outputs(e) = g[Bindings]
<1> DEFINE sum == CHOOSE g : g = [s \in SUBSET Bindings |-> Adding(f, g, s)]
<1>1. Outputs(e) = sum[Bindings]
  BY DEF Outputs, FoldFunction, FoldFunctionOnSet, MapThenFoldSet, Adding
<1>2. \E g : g = [s \in SUBSET Bindings |-> Adding(f, g, s)]
  <2> HIDE DEF sum
  <2>1. IsFiniteSet(Bindings)
    BY ModuleAssumption
  <2>2. PICK V : \E g \in [SUBSET Bindings -> V] :
                   \A s \in SUBSET Bindings : g[s] = Adding(f, g, s)
    BY <2>1, SumDefined, ZenonT(60)
  <2> PICK g \in [SUBSET Bindings -> V] : \A s \in SUBSET Bindings : g[s] = Adding(f, g, s)
    BY <2>2
  <2>3. g = [s \in SUBSET Bindings |-> Adding(f, g, s)]
    OBVIOUS
  <2> QED BY <2>3
<1>3. sum = [s \in SUBSET Bindings |-> Adding(f, sum, s)]
  BY <1>2
<1>4. \A s \in SUBSET Bindings : sum[s] = Adding(f, sum, s)
  BY <1>3
<1> HIDE DEF sum
<1> QED BY <1>1, <1>4

(***************************************************************************)
(* An event has no more different receipts than outputs.                   *)
(***************************************************************************)
LEMMA ReceiptsCounted ==
  ASSUME TypeOK, NEW e \in Events
  PROVE  /\ Outputs(e) \in Nat
         /\ IsFiniteSet(ReceiptsOf(e))
         /\ Cardinality(ReceiptsOf(e)) <= Outputs(e)
<1> DEFINE f == [b \in Bindings |-> Len(file.event[e].outputs[b])]
           R == [b \in Bindings |->
                   {file.event[e].outputs[b][i] : i \in 1 .. Len(file.event[e].outputs[b])}]
<1>1. file.event[e] \in EventRecord
  BY DEF TypeOK, State
<1>2. \A b \in Bindings : file.event[e].outputs[b] \in Seq(Nat)
  BY <1>1 DEF EventRecord
<1>3. f \in [Bindings -> Nat]
  BY <1>2
<1>4. ASSUME NEW b \in Bindings
      PROVE  IsFiniteSet(R[b]) /\ Cardinality(R[b]) <= f[b]
  <2> DEFINE s == file.event[e].outputs[b]
             T == {s[i] : i \in 1 .. Len(s)}
  <2>1. s \in Seq(Nat)
    BY <1>2
  <2> HIDE DEF s
  <2>2. Len(s) \in Nat /\ s \in [1 .. Len(s) -> Nat]
    BY <2>1
  <2>3. s \in Surjection(1 .. Len(s), T)
    BY <2>2 DEF Surjection
  <2>4. IsFiniteSet(1 .. Len(s)) /\ Cardinality(1 .. Len(s)) = Len(s)
    <3>1. \A n \in Nat : n \in Int /\ 1 \in Int /\ (IF 1 > n THEN 0 ELSE n - 1 + 1) = n
      OBVIOUS
    <3> QED BY <2>2, <3>1, FS_Interval
  <2>5. IsFiniteSet(T) /\ Cardinality(T) <= Len(s)
    <3> HIDE DEF T
    <3> QED BY <2>3, <2>4, FS_Surjection
  <2> QED BY <2>5 DEF s
<1>5. PICK g : /\ \A s \in SUBSET Bindings : g[s] = Adding(f, g, s)
               /\ Outputs(e) = g[Bindings]
  BY <1>1, <1>3, OutputsSum
<1>6. IsFiniteSet(Bindings)
  BY ModuleAssumption
<1>7. \A r : r \in ReceiptsOf(e) <=> \E b \in Bindings : r \in R[b]
  BY DEF ReceiptsOf
<1> HIDE DEF f, R
<1> QED BY <1>3, <1>4, <1>5, <1>6, <1>7, SumBounds

(***************************************************************************)
(* The calls of an event on the chain: there are only ever more.           *)
(***************************************************************************)
LEMMA SentGrows ==
  ASSUME TypeOK, [Next]_vars, NEW e \in Events
  PROVE  /\ Cardinality(Sent(e)) \in Nat /\ Cardinality(Sent(e)') \in Nat
         /\ Cardinality(Sent(e)) <= Cardinality(Sent(e)')
<1>1. calls \in Chain /\ calls' \in Chain /\ Extends(calls', calls)
  BY CallsGrow
<1>2. Len(calls) \in Nat /\ Len(calls') \in Nat
  BY <1>1 DEF Chain
<1>3. IsFiniteSet(1 .. Len(calls')) /\ Sent(e)' \in SUBSET (1 .. Len(calls'))
  BY <1>2, FS_Interval DEF Sent
<1>4. IsFiniteSet(Sent(e)')
  BY <1>3, FS_Subset
<1>5. Sent(e) \in SUBSET (Sent(e)')
  BY <1>1, <1>2 DEF Sent, Extends
<1>6. IsFiniteSet(Sent(e)) /\ Cardinality(Sent(e)) <= Cardinality(Sent(e)')
  BY <1>4, <1>5, FS_Subset
<1> QED BY <1>4, <1>6, FS_CardinalityType

LEMMA SentCall ==
  ASSUME TypeOK, NEW e \in Events, NEW b \in Bindings, SendCall(e, b)
  PROVE  Cardinality(Sent(e)') = Cardinality(Sent(e)) + 1
<1> DEFINE c == [event |-> e, index |-> call, to |-> mem.binding[b].address]
<1>1. calls' = Append(calls, c) /\ c.event = e
  BY DEF SendCall
<1> HIDE DEF c
<1>2. /\ Len(calls) \in Nat /\ Len(calls') = Len(calls) + 1
      /\ calls'[Len(calls) + 1] = c
      /\ \A r \in 1 .. Len(calls) : calls'[r] = calls[r]
  BY <1>1 DEF TypeOK
<1>3. Sent(e)' = Sent(e) \cup {Len(calls) + 1} /\ Len(calls) + 1 \notin Sent(e)
  BY <1>1, <1>2 DEF Sent
<1>4. IsFiniteSet(1 .. Len(calls)) /\ Sent(e) \in SUBSET (1 .. Len(calls))
  BY <1>2, FS_Interval DEF Sent
<1>5. IsFiniteSet(Sent(e))
  BY <1>4, FS_Subset
<1> QED BY <1>3, <1>5, FS_AddElement

(***************************************************************************)
(* An input is stored once for a call on the chain.                        *)
(***************************************************************************)
LEMMA InputsStep ==
  TypeOK /\ StoreInv /\ CreatedInv /\ InputsOK /\ [Next]_vars => InputsOK'
<1> SUFFICES ASSUME TypeOK, StoreInv, CreatedInv, InputsOK, [Next]_vars, NEW f \in Events
             PROVE  /\ file'.event[f].inputs <= Cardinality(Sent(f)')
                    /\ mem'.event[f].inputs <= Cardinality(Sent(f)')
                    /\ At(f)' /\ pc' = "callSent" => file'.event[f].inputs < Cardinality(Sent(f)')
  BY DEF InputsOK
<1> DEFINE old == {BlankEvent, mem.event[f], file.event[f]}
<1>0. file.event[f] \in EventRecord /\ mem.event[f] \in EventRecord
  BY DEF TypeOK, State
<1>1. /\ Cardinality(Sent(f)) \in Nat /\ Cardinality(Sent(f)') \in Nat
      /\ Cardinality(Sent(f)) <= Cardinality(Sent(f)')
  BY SentGrows
<1>2. \A q \in old : q.inputs \in Nat /\ q.inputs <= Cardinality(Sent(f))
  BY <1>0, <1>1 DEF InputsOK, BlankEvent, EventRecord
<1>3. \A q \in old : q.inputs <= Cardinality(Sent(f)')
  BY <1>1, <1>2
<1>4. ASSUME NEW b \in Bindings, StoreInput(f, b)
      PROVE  /\ file.event[f].inputs + 1 <= Cardinality(Sent(f)')
             /\ pc' # "callSent"
  <2>1. file.event[f].inputs < Cardinality(Sent(f))
    BY <1>4 DEF StoreInput, Calling, InputsOK
  <2> QED BY <1>1, <1>2, <1>4, <2>1 DEF StoreInput
<1>5. mem'.event[f].inputs <= Cardinality(Sent(f)')
  BY <1>3, RecordChange DEF SameRecord
<1>6. file'.event[f].inputs <= Cardinality(Sent(f)')
  BY <1>3, <1>4, RecordChange DEF SameRecord
<1>7. ASSUME At(f)', pc' = "callSent"
      PROVE  file'.event[f].inputs < Cardinality(Sent(f)')
  <2>1. InHook(f)'
    BY <1>7 DEF InHook
  <2>2. ASSUME NEW b \in Bindings, SendCall(f, b)
        PROVE  file'.event[f].inputs < Cardinality(Sent(f)')
    <3>1. file' = file
      BY <2>2 DEF SendCall
    <3>2. Cardinality(Sent(f)') = Cardinality(Sent(f)) + 1
      BY <2>2, SentCall
    <3> QED BY <1>1, <1>2, <3>1, <3>2
  <2>3. CASE UNCHANGED vars
    <3>1. At(f) /\ pc = "callSent" /\ UNCHANGED <<file, calls>>
      BY <1>7, <2>3 DEF vars, env, At, Element
    <3> QED BY <3>1 DEF InputsOK, Sent
  <2>4. /\ ~EnterHook(f)
        /\ \A b \in Bindings : ~ReplayCall(f, b) /\ ~StoreInput(f, b) /\ ~StoreReceipt(f, b)
    BY <1>7 DEF EnterHook, ReplayCall, StoreInput, StoreReceipt
  <2> QED BY <2>1, <2>2, <2>3, <2>4, HookEntered
<1> QED BY <1>5, <1>6, <1>7

(***************************************************************************)
(* A finished event stays executed, and the empty record of a module hook  *)
(* empty, until the run ends: its hook is not entered again.               *)
(***************************************************************************)
LEMMA FinishedStep ==
  TypeOK /\ StoreInv /\ CreatedInv /\ FinishedOK /\ [Next]_vars => FinishedOK'
<1> SUFFICES ASSUME TypeOK, StoreInv, CreatedInv, FinishedOK, [Next]_vars PROVE FinishedOK'
  OBVIOUS
<1>1. ASSUME NEW e \in Events, InHook(e)' PROVE ~mem'.event[e].executed
  <2>1. CASE EnterHook(e)
    BY <2>1 DEF EnterHook
  <2>2. ASSUME NEW b \in Bindings,
               ReplayCall(e, b) \/ SendCall(e, b) \/ StoreInput(e, b) \/ StoreReceipt(e, b)
        PROVE  ~mem'.event[e].executed
    <3>1. InHook(e) /\ mem' = mem
      BY <2>2 DEF ReplayCall, SendCall, StoreInput, StoreReceipt, Calling, InHook
    <3> QED BY <3>1 DEF FinishedOK
  <2>3. CASE UNCHANGED vars
    <3>1. InHook(e) /\ mem' = mem
      BY <1>1, <2>3 DEF vars, InHook, At, Element
    <3> QED BY <3>1 DEF FinishedOK
  <2> QED BY <1>1, <2>1, <2>2, <2>3, HookEntered
<1> DEFINE Good(e) == mem.event[e].executed /\ (e \in ModuleHooks => file.event[e].inputs = 0)
<1>2. ASSUME status' = "running", NEW e \in finished' PROVE Good(e)'
  <2>0. /\ mem \in State /\ file \in State
        /\ finished \subseteq Events
    BY DEF TypeOK
  <2>1. CASE Rerun
    BY <1>2, <2>1 DEF Rerun, StartRun
  <2>2. ASSUME NEW b \in Bindings, BindingStep(b) PROVE Good(e)'
    <3>1. status = "running" /\ finished' = finished
      BY <2>2, StepsAt, BindingChanges DEF At
    <3>2. mem'.event = mem.event /\ file'.event = file.event
      BY <2>2, BindingChanges
    <3> QED BY <1>2, <3>1, <3>2 DEF FinishedOK
  <2>3. ASSUME NEW f \in Events, FinishHook(f) PROVE Good(e)'
    <3>1. status = "running" /\ finished' = finished \cup {f}
      BY <2>3 DEF FinishHook, At
    <3>2. mem' = [mem EXCEPT !.event[f] = FinishedEvent(f)] /\ file' = mem'
      BY <2>3, FinishStores DEF FinishHook
    <3>3. CASE e = f
      <4>1. mem'.event[f] = FinishedEvent(f) /\ file'.event[f] = FinishedEvent(f)
        BY <2>0, <3>2 DEF State
      <4>2. file.event[f] \in EventRecord
        BY <2>0 DEF State
      <4>3. FinishedEvent(f).executed
        BY <4>2 DEF FinishedEvent, BlankEvent, EventRecord
      <4>4. f \in ModuleHooks => FinishedEvent(f).inputs = 0
        BY DEF FinishedEvent, BlankEvent
      <4> QED BY <3>3, <4>1, <4>3, <4>4
    <3>4. CASE e # f
      <4>1. EventStep(f)
        BY <2>3 DEF EventStep
      <4>2. mem'.event[e] = mem.event[e] /\ file'.event[e] = file.event[e]
        BY <1>2, <2>0, <3>1, <3>4, <4>1, EventChanges
      <4>3. Good(e)
        BY <1>2, <3>1, <3>4 DEF FinishedOK
      <4> QED BY <4>2, <4>3
    <3> QED BY <3>3, <3>4
  <2>4. ASSUME NEW f \in Events, EventStep(f), ~FinishHook(f) PROVE Good(e)'
    <3>1. status = "running" /\ finished' = finished /\ mem' = mem
      BY <2>4, StepsAt DEF EventStep, SkipEvent, EnterHook, DependencyMissing, HookFails,
         ReplayCall, SendCall, StoreInput, StoreReceipt, CallUndeployed, Fail, At
    <3>2. Good(e) /\ e \in Events
      BY <1>2, <2>0, <3>1 DEF FinishedOK
    <3>3. CASE e # f
      BY <2>4, <3>1, <3>2, <3>3, EventChanges
    <3>4. CASE e = f
      <4>1. ~InHook(f)
        BY <3>2, <3>4 DEF FinishedOK
      <4>2. \A b \in Bindings : ~ReplayCall(f, b) /\ ~StoreInput(f, b) /\ ~StoreReceipt(f, b)
        BY <4>1 DEF ReplayCall, StoreInput, StoreReceipt, Calling, InHook
      <4>3. file' = file
        BY <2>4, <4>2, SkipStores DEF EventStep, EnterHook, DependencyMissing, HookFails,
           SendCall, CallUndeployed, Fail
      <4> QED BY <3>1, <3>2, <4>3
    <3> QED BY <3>3, <3>4
  <2>5. ~Summary /\ ~FailHook /\ ~Crash
    BY <1>2 DEF Summary, FailHook, Crash
  <2>6. CASE UNCHANGED vars
    BY <1>2, <2>6 DEF vars, FinishedOK
  <2>7. CASE \E f \in Events : EventStep(f)
    BY <2>3, <2>4, <2>7
  <2> QED BY <2>1, <2>2, <2>5, <2>6, <2>7 DEF Next
<1> QED BY <1>1, <1>2 DEF FinishedOK

(***************************************************************************)
(* An event has recorded no more inputs than calls of its own were sent,   *)
(* and one that this run has finished is not entered again (SummaryInv is  *)
(* inductive with the invariants above).                                   *)
(***************************************************************************)
THEOREM SummariesCorrect == Spec => []SummaryInv
<1>1. Init => SummaryInv
  <2> SUFFICES ASSUME Init PROVE SummaryInv
    OBVIOUS
  <2>1. \A e \in Events : file.event[e].inputs = 0 /\ mem.event[e].inputs = 0
    BY DEF Init, BlankState, BlankEvent
  <2>2. \A e \in Events : Sent(e) = {}
    BY DEF Init, Sent
  <2>3. \A e \in Events : Cardinality(Sent(e)) = 0
    BY <2>2, FS_EmptySet
  <2>4. status = "idle"
    BY DEF Init
  <2>5. InputsOK
    BY <2>1, <2>3, <2>4 DEF InputsOK, At
  <2>6. FinishedOK
    BY <2>4 DEF FinishedOK, InHook, At
  <2> QED BY <2>5, <2>6 DEF SummaryInv
<1>2. SuccessInv => CreatedInv
  BY DEF SuccessInv
<1>3. TypeOK /\ StoreInv /\ CreatedInv /\ SummaryInv /\ [Next]_vars => SummaryInv'
  BY InputsStep, FinishedStep DEF SummaryInv
<1> QED BY <1>1, <1>2, <1>3, TypeCorrect, StoresAgree, SuccessfulRuns, PTL DEF Spec

(***************************************************************************)
(* A run that executed everything and is still reported as a failure has   *)
(* sent a call whose receipt is not in the record: as long as the record   *)
(* has the receipts of all calls, it has an output for every input.        *)
(***************************************************************************)
THEOREM SummaryIsRight == Spec => SummaryFailsOnlyAfterLoss
<1> DEFINE Lost == \E r \in 1 .. Len(calls) :
                     /\ calls[r].event \in finished \ ModuleHooks
                     /\ r \notin ReceiptsOf(calls[r].event)
<1>1. TypeOK /\ SummaryInv => (Summary /\ status' = "stopped" => Lost)
  <2> SUFFICES ASSUME TypeOK, SummaryInv, Summary, status' = "stopped", ~Lost PROVE FALSE
    OBVIOUS
  <2>1. PICK e \in finished : ~(file.event[e].inputs <= Outputs(e))
    BY DEF Summary, Summarised
  <2>2. /\ e \in Events /\ file.event[e] \in EventRecord
        /\ Len(calls) \in Nat
    BY DEF TypeOK, State
  <2>3. Outputs(e) \in Nat /\ IsFiniteSet(ReceiptsOf(e)) /\ Cardinality(ReceiptsOf(e)) <= Outputs(e)
    BY <2>2, ReceiptsCounted
  <2>4. file.event[e].inputs \in Nat
    BY <2>2 DEF EventRecord
  <2>5. CASE e \in ModuleHooks
    <3>1. file.event[e].inputs = 0
      BY <2>5 DEF SummaryInv, FinishedOK, Summary
    <3> QED BY <2>1, <2>3, <3>1
  <2>6. CASE e \notin ModuleHooks
    <3>1. Sent(e) \in SUBSET ReceiptsOf(e)
      BY <2>6 DEF Sent
    <3>2. IsFiniteSet(Sent(e)) /\ Cardinality(Sent(e)) <= Cardinality(ReceiptsOf(e))
      BY <2>3, <3>1, FS_Subset
    <3>3. Cardinality(Sent(e)) \in Nat /\ Cardinality(ReceiptsOf(e)) \in Nat
      BY <2>3, <3>2, FS_CardinalityType
    <3>4. file.event[e].inputs <= Cardinality(Sent(e))
      BY <2>2 DEF SummaryInv, InputsOK
    <3> QED BY <2>1, <2>3, <2>4, <3>2, <3>3, <3>4
  <2> QED BY <2>5, <2>6
<1>2. TypeOK /\ SummaryInv /\ [Next]_vars => [Summary /\ status' = "stopped" => Lost]_vars
  BY <1>1
<1> HIDE DEF Lost
<1>3. Spec => [][Summary /\ status' = "stopped" => Lost]_vars
  BY <1>2, TypeCorrect, SummariesCorrect, PTL DEF Spec
<1> QED BY <1>3 DEF Lost, SummaryFailsOnlyAfterLoss

=============================================================================
