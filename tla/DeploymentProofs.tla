-------------------------- MODULE DeploymentProofs --------------------------
(***************************************************************************)
(* What holds of a deployment for any module: any contracts, events,       *)
(* order, arguments, hooks, and any number of crashes, failures and        *)
(* changes.                                                                *)
(***************************************************************************)
EXTENDS Deployment, FiniteSetTheorems, TLAPS

(***************************************************************************)
(* The types of a binding's record and of an event's are kept by every     *)
(* way a step builds one.                                                  *)
(***************************************************************************)
BindingRecord == [address : Nat, output : Nat]

LEMMA BlankTyped == BlankState \in State
BY DEF BlankState, BlankBinding, BlankEvent, State, EventRecord, None

LEMMA ResolvedTyped ==
  ASSUME file \in State, NEW redeploy \in SUBSET Bindings
  PROVE  Resolved(redeploy) \in State
<1> DEFINE gone == Ancestors(redeploy)
           one(b) == IF b \in redeploy THEN BlankBinding
                     ELSE IF b \in gone THEN [file.binding[b] EXCEPT !.address = None]
                     ELSE file.binding[b]
<1>1. ASSUME NEW b \in Bindings PROVE one(b) \in BindingRecord
  <2>1. file.binding[b] \in BindingRecord
    BY DEF State, BindingRecord
  <2>2. [file.binding[b] EXCEPT !.address = None] \in BindingRecord
    BY <2>1 DEF BindingRecord, None
  <2>3. BlankBinding \in BindingRecord
    BY DEF BlankBinding, BindingRecord, None
  <2> QED BY <2>1, <2>2, <2>3
<1>2. ASSUME NEW e \in Events PROVE InvalidatedEvent(e, gone) \in EventRecord
  BY DEF State, InvalidatedEvent, BlankEvent, EventRecord
<1>3. [b \in Bindings |-> one(b)] \in [Bindings -> BindingRecord]
  BY <1>1
<1>4. [e \in Events |-> InvalidatedEvent(e, gone)] \in [Events -> EventRecord]
  BY <1>2
<1>5. Resolved(redeploy) =
        [binding |-> [b \in Bindings |-> one(b)],
         event |-> [e \in Events |-> InvalidatedEvent(e, gone)]]
  BY DEF Resolved
<1> HIDE DEF one, gone
<1> QED BY <1>3, <1>4, <1>5 DEF State, BindingRecord

LEMMA StartTyped ==
  ASSUME TypeOK, NEW changed \in SUBSET Bindings, NEW config \in SUBSET Bindings,
         StartRun(changed, config)
  PROVE  TypeOK'
<1>1. mem' \in State
  <2>1. Undeployed \cup changed \in SUBSET Bindings
    BY DEF Undeployed
  <2> QED BY <2>1, ResolvedTyped DEF StartRun, TypeOK
<1>2. changes' \in 0 .. MaxChanges
  <2>1. IsFiniteSet(changed \cup config)
    BY FS_Subset, ModuleAssumption
  <2>2. Cardinality(changed \cup config) \in Nat
    BY <2>1, FS_CardinalityType
  <2> QED BY <2>2, ModuleAssumption DEF StartRun, TypeOK
<1>3. file' \in State /\ progress' \in [Bindings -> Nat]
  BY <1>1 DEF StartRun
<1>4. pos' \in 1 .. Len(Order) + 1
  BY ModuleAssumption DEF StartRun
<1> QED BY <1>1, <1>2, <1>3, <1>4 DEF StartRun, TypeOK

LEMMA FailTyped ==
  ASSUME TypeOK, Fail, stops' \in 0 .. MaxStops
  PROVE  TypeOK'
BY ModuleAssumption DEF TypeOK, Fail

LEMMA StopTyped == TypeOK /\ Stop => stops' \in 0 .. MaxStops
BY ModuleAssumption DEF TypeOK, Stop

LEMMA AdvanceTyped ==
  ASSUME TypeOK, NEW x, At(x), Advance
  PROVE  pos' \in 1 .. Len(Order) + 1 /\ pc' = "next"
BY ModuleAssumption DEF TypeOK, Advance, At, Element

(***************************************************************************)
(* The records that storing an input, a receipt or an address leaves.      *)
(***************************************************************************)
LEMMA InputTyped ==
  ASSUME NEW r \in EventRecord
  PROVE  [r EXCEPT !.inputs = @ + 1] \in EventRecord
<1>1. r.inputs + 1 \in Nat
  BY DEF EventRecord
<1> QED BY <1>1 DEF EventRecord

LEMMA OutputTyped ==
  ASSUME NEW r \in EventRecord, NEW b \in Bindings, NEW n \in Nat
  PROVE  [r EXCEPT !.outputs[b] = Append(@, n)] \in EventRecord
<1>1. r.outputs \in [Bindings -> Seq(Nat)]
  BY DEF EventRecord
<1>2. Append(r.outputs[b], n) \in Seq(Nat)
  BY <1>1
<1>3. [r.outputs EXCEPT ![b] = Append(@, n)] \in [Bindings -> Seq(Nat)]
  BY <1>1, <1>2
<1>4. [r EXCEPT !.outputs = [r.outputs EXCEPT ![b] = Append(@, n)]] \in EventRecord
  BY <1>3 DEF EventRecord
<1>5. [r EXCEPT !.outputs[b] = Append(@, n)]
        = [r EXCEPT !.outputs = [r.outputs EXCEPT ![b] = Append(@, n)]]
  OBVIOUS
<1> QED BY <1>4, <1>5

LEMMA ElementTyped ==
  ASSUME NEW s \in Seq(Nat), NEW n \in Nat, Len(s) > n
  PROVE  s[n + 1] \in Nat
<1>1. n + 1 \in 1 .. Len(s)
  OBVIOUS
<1> QED BY <1>1

LEMMA AddressTyped ==
  ASSUME NEW r \in BindingRecord, NEW n \in Nat
  PROVE  /\ [r EXCEPT !.output = n] \in BindingRecord
         /\ [r EXCEPT !.address = n] \in BindingRecord
BY DEF BindingRecord

(***************************************************************************)
(* The states that the stores of a step leave.                             *)
(***************************************************************************)
LEMMA StoreBindingTyped ==
  ASSUME NEW s \in State, NEW b \in Bindings, NEW r \in BindingRecord
  PROVE  [s EXCEPT !.binding[b] = r] \in State
BY DEF State, BindingRecord

LEMMA StoreEventTyped ==
  ASSUME NEW s \in State, NEW e \in Events, NEW r \in EventRecord
  PROVE  [s EXCEPT !.event[e] = r] \in State
BY DEF State

LEMMA StoreOutputTyped ==
  ASSUME file \in State, NEW e \in Events, NEW b \in Bindings, NEW r \in Nat
  PROVE  StoreOutput(e, b, r) \in State
<1> DEFINE record == [file.event[e] EXCEPT !.outputs[b] = Append(@, r)]
<1>1. file.event[e] \in EventRecord
  BY DEF State
<1>2. record \in EventRecord
  BY <1>1, OutputTyped
<1>3. StoreOutput(e, b, r) = [file EXCEPT !.event[e] = record]
  BY DEF StoreOutput
<1> HIDE DEF record
<1> QED BY <1>2, <1>3, StoreEventTyped

LEMMA FinishedTyped ==
  ASSUME file \in State, NEW e \in Events
  PROVE  FinishedEvent(e) \in EventRecord
<1>1. file.event[e] \in EventRecord
  BY DEF State
<1>2. BlankEvent \in EventRecord
  BY DEF BlankEvent, EventRecord
<1> QED BY <1>1, <1>2 DEF FinishedEvent, EventRecord

(***************************************************************************)
(* The steps that deploy a contract.                                       *)
(***************************************************************************)
LEMMA BindingTyped ==
  ASSUME TypeOK, NEW b \in Bindings, BindingStep(b)
  PROVE  TypeOK'
<1>0. mem \in State /\ file \in State /\ mem.binding[b] \in BindingRecord
  BY DEF TypeOK, State, BindingRecord
<1>1. CASE SkipBinding(b)
  BY <1>1, AdvanceTyped DEF SkipBinding, TypeOK, env
<1>2. CASE ArgumentFails(b)
  BY <1>2, FailTyped DEF ArgumentFails, TypeOK
<1>3. CASE DeploySend(b)
  <2>1. file' \in State
    BY <1>0, <1>3, StoreBindingTyped DEF DeploySend
  <2>2. Contract(b) \in [name : Bindings, args : [Bindings -> Nat]]
    BY <1>0 DEF Contract, None, State
  <2> QED BY <1>3, <2>1, <2>2 DEF DeploySend, TypeOK
<1>4. CASE DeployMined(b)
  <2>1. [mem.binding[b] EXCEPT !.output = Len(created)] \in BindingRecord
    <3>1. Len(created) \in Nat
      BY DEF TypeOK
    <3> QED BY <1>0, <3>1, AddressTyped
  <2>2. mem' = [mem EXCEPT !.binding[b] = [mem.binding[b] EXCEPT !.output = Len(created)]]
    BY <1>4 DEF DeployMined
  <2>3. mem' \in State
    BY <1>0, <2>1, <2>2, StoreBindingTyped
  <2>4. mem'.binding[b] \in BindingRecord
    BY <2>3 DEF State, BindingRecord
  <2>5. file' \in State
    BY <1>0, <1>4, <2>4, StoreBindingTyped DEF DeployMined
  <2> QED BY <1>4, <2>3, <2>5 DEF DeployMined, TypeOK, env
<1>5. CASE DeployConfirmed(b)
  <2> DEFINE r == [mem.binding[b] EXCEPT !.address = mem.binding[b].output]
  <2>1. r \in BindingRecord
    BY <1>0 DEF BindingRecord
  <2>2. mem' = [mem EXCEPT !.binding[b] = r]
    BY <1>5 DEF DeployConfirmed
  <2>3. mem' \in State
    BY <1>0, <2>1, <2>2, StoreBindingTyped
  <2>4. mem'.binding[b] \in BindingRecord
    BY <2>3 DEF State, BindingRecord
  <2>5. file' \in State
    BY <1>0, <1>5, <2>4, StoreBindingTyped DEF DeployConfirmed
  <2>6. pos' \in 1 .. Len(Order) + 1 /\ pc' = "next"
    BY <1>5, AdvanceTyped DEF DeployConfirmed
  <2> QED BY <1>5, <2>3, <2>5, <2>6 DEF DeployConfirmed, TypeOK, env
<1>6. CASE DeployFails(b)
  BY <1>6, StopTyped, FailTyped DEF DeployFails
<1> QED BY <1>1, <1>2, <1>3, <1>4, <1>5, <1>6 DEF BindingStep

(***************************************************************************)
(* A recorded receipt that is returned again is one of the record.         *)
(***************************************************************************)
LEMMA ReplayTyped ==
  ASSUME TypeOK, NEW e \in Events, NEW b \in Bindings, ReplayCall(e, b)
  PROVE  file.event[e].outputs[b][progress[b] + 1] \in Nat
<1>1. file.event[e] \in EventRecord
  BY DEF TypeOK, State
<1>2. file.event[e].outputs[b] \in Seq(Nat)
  BY <1>1 DEF EventRecord
<1>3. progress[b] \in Nat
  BY DEF TypeOK
<1>4. Len(file.event[e].outputs[b]) > progress[b]
  BY DEF ReplayCall, Recorded
<1> QED BY <1>2, <1>3, <1>4, ElementTyped

(***************************************************************************)
(* Storing the bindings that an event depends on changes nothing in a file *)
(* whose bindings are the memory's.                                        *)
(***************************************************************************)
LEMMA DepsStoredTyped ==
  ASSUME NEW s \in State, mem \in State, NEW e \in Events
  PROVE  DepsStored(e, s) \in State
<1> DEFINE stored == [b \in Bindings |-> IF b \in Deps[e] THEN mem.binding[b] ELSE s.binding[b]]
<1>1. stored \in [Bindings -> BindingRecord]
  BY DEF State, BindingRecord
<1>2. DepsStored(e, s) = [s EXCEPT !.binding = stored]
  BY DEF DepsStored
<1> HIDE DEF stored
<1> QED BY <1>1, <1>2 DEF State, BindingRecord

LEMMA DepsStoredSame ==
  ASSUME NEW s \in State, s.binding = mem.binding, NEW e \in Events
  PROVE  DepsStored(e, s) = s
<1> DEFINE stored == [b \in Bindings |-> IF b \in Deps[e] THEN mem.binding[b] ELSE s.binding[b]]
<1>1. stored = s.binding
  BY DEF State
<1>2. DepsStored(e, s) = [s EXCEPT !.binding = stored]
  BY DEF DepsStored
<1> HIDE DEF stored
<1> QED BY <1>1, <1>2 DEF State

(***************************************************************************)
(* The steps of an event.                                                  *)
(***************************************************************************)
LEMMA EventTyped ==
  ASSUME TypeOK, NEW e \in Events, EventStep(e)
  PROVE  TypeOK'
<1>0. mem \in State /\ file \in State /\ file.event[e] \in EventRecord
  BY DEF TypeOK, State
<1>1. CASE SkipEvent(e)
  <2>1. file' \in State
    BY <1>0, <1>1, DepsStoredTyped DEF SkipEvent
  <2>2. pos' \in 1 .. Len(Order) + 1 /\ pc' = "next"
    BY <1>1, AdvanceTyped DEF SkipEvent
  <2> QED BY <1>1, <2>1, <2>2 DEF SkipEvent, TypeOK, env
<1>2. CASE EnterHook(e)
  BY <1>2 DEF EnterHook, TypeOK, env
<1>3. CASE DependencyMissing(e)
  BY <1>3, FailTyped DEF DependencyMissing, TypeOK
<1>4. CASE HookFails(e)
  BY <1>4, StopTyped, FailTyped DEF HookFails
<1>5. CASE FinishHook(e)
  <2>1. mem' \in State
    BY <1>0, <1>5, FinishedTyped, StoreEventTyped DEF FinishHook
  <2>2. pos' \in 1 .. Len(Order) + 1 /\ pc' = "next"
    BY <1>5, AdvanceTyped DEF FinishHook
  <2>3. file' \in State
    BY <1>0, <1>5, <2>1, DepsStoredTyped DEF FinishHook
  <2> QED BY <1>5, <2>1, <2>2, <2>3 DEF FinishHook, TypeOK, env
<1>6. ASSUME NEW b \in Bindings, ReplayCall(e, b) PROVE TypeOK'
  <2>1. file.event[e].outputs[b][progress[b] + 1] \in Nat
    BY <1>6, ReplayTyped
  <2>2. file' \in State
    BY <1>0, <1>6, <2>1, StoreOutputTyped DEF ReplayCall
  <2> QED BY <1>6, <2>2 DEF ReplayCall, TypeOK, env
<1>7. ASSUME NEW b \in Bindings, SendCall(e, b) PROVE TypeOK'
  <2>1. mem.binding[b].address \in Nat
    BY <1>0 DEF State
  <2>2. calls' \in Seq([event : Events, index : Nat, to : Nat])
    BY <1>7, <2>1 DEF SendCall, TypeOK
  <2> QED BY <1>7, <2>2 DEF SendCall, TypeOK
<1>8. ASSUME NEW b \in Bindings, StoreInput(e, b) PROVE TypeOK'
  <2>1. [file.event[e] EXCEPT !.inputs = @ + 1] \in EventRecord
    BY <1>0, InputTyped
  <2>2. file' = [file EXCEPT !.event[e] = [file.event[e] EXCEPT !.inputs = @ + 1]]
    BY <1>8 DEF StoreInput
  <2>3. file' \in State
    BY <1>0, <2>1, <2>2, StoreEventTyped
  <2> QED BY <1>8, <2>3 DEF StoreInput, TypeOK, env
<1>9. ASSUME NEW b \in Bindings, StoreReceipt(e, b) PROVE TypeOK'
  <2>1. file' \in State
    BY <1>0, <1>9, StoreOutputTyped DEF StoreReceipt, TypeOK
  <2> QED BY <1>9, <2>1 DEF StoreReceipt, TypeOK, env
<1>10. ASSUME NEW b \in Bindings, CallUndeployed(e, b) PROVE TypeOK'
  BY <1>10, FailTyped DEF CallUndeployed, TypeOK
<1> QED BY <1>1, <1>2, <1>3, <1>4, <1>5, <1>6, <1>7, <1>8, <1>9, <1>10 DEF EventStep

(***************************************************************************)
(* The state file, the memory of a run and the chain keep their types,     *)
(* whatever the module and the failures.                                   *)
(***************************************************************************)
THEOREM TypeCorrect == Spec => []TypeOK
<1>1. Init => TypeOK
  BY BlankTyped, ModuleAssumption DEF Init, TypeOK
<1>2. TypeOK /\ [Next]_vars => TypeOK'
  <2> SUFFICES ASSUME TypeOK, [Next]_vars PROVE TypeOK'
    OBVIOUS
  <2>1. CASE Rerun
    BY <2>1, StartTyped DEF Rerun
  <2>2. ASSUME NEW b \in Bindings, BindingStep(b) PROVE TypeOK'
    BY <2>2, BindingTyped
  <2>3. ASSUME NEW e \in Events, EventStep(e) PROVE TypeOK'
    BY <2>3, EventTyped
  <2>4. CASE Summary
    BY <2>4 DEF Summary, TypeOK, env
  <2>5. CASE FailHook
    BY <2>5 DEF FailHook, TypeOK, env
  <2>6. CASE Crash
    BY <2>6, StopTyped DEF Crash, TypeOK
  <2>7. CASE UNCHANGED vars
    BY <2>7 DEF vars, env, TypeOK
  <2> QED BY <2>1, <2>2, <2>3, <2>4, <2>5, <2>6, <2>7 DEF Next
<1> QED BY <1>1, <1>2, PTL DEF Spec

(***************************************************************************)
(* The elements of the order are distinct kinds: no step of a contract is  *)
(* a step of an event.                                                     *)
(***************************************************************************)
LEMMA OneElement ==
  /\ \A b \in Bindings, e \in Events : ~(Element(b) /\ Element(e))
  /\ \A x, y : Element(x) /\ Element(y) => x = y
BY ModuleAssumption DEF Element

(***************************************************************************)
(* A run that fails stores nothing: what it knew of the file stays so.     *)
(***************************************************************************)
LEMMA FailStores ==
  ASSUME StoreInv, Fail, status = "running"
  PROVE  StoreInv'
BY DEF StoreInv, MemoryIsFile, AddressInv, Fail, At, Element

(***************************************************************************)
(* A run starts with the file equal to the memory.  Where an address       *)
(* survives, so does the receipt that it came from.                        *)
(***************************************************************************)
LEMMA StartStores ==
  ASSUME TypeOK, StoreInv, NEW changed \in SUBSET Bindings, NEW config \in SUBSET Bindings,
         StartRun(changed, config)
  PROVE  StoreInv'
<1>1. file' = Resolved(Undeployed \cup changed) /\ mem' = file' /\ pc' = "next"
  BY DEF StartRun
<1>2. MemoryIsFile'
  BY <1>1 DEF MemoryIsFile
<1>3. ASSUME NEW b \in Bindings, file'.binding[b].address # None
      PROVE  file'.binding[b].output = file'.binding[b].address
  <2>1. file.binding[b] \in BindingRecord
    BY DEF TypeOK, State, BindingRecord
  <2>2. [file.binding[b] EXCEPT !.address = None].address = None
    BY <2>1 DEF BindingRecord
  <2>3. file'.binding[b] = file.binding[b]
    BY <1>1, <1>3, <2>2 DEF Resolved, BlankBinding
  <2> QED BY <1>3, <2>3 DEF StoreInv, AddressInv
<1> QED BY <1>1, <1>2, <1>3 DEF StoreInv, AddressInv

LEMMA BindingStores ==
  ASSUME TypeOK, StoreInv, NEW b \in Bindings, BindingStep(b)
  PROVE  StoreInv'
<1>0. mem \in State /\ file \in State /\ mem.binding[b] \in BindingRecord
  BY DEF TypeOK, State, BindingRecord
<1>1. CASE SkipBinding(b)
  <2>1. file.event = mem.event
    BY <1>0, <1>1 DEF SkipBinding, At, StoreInv, MemoryIsFile, State
  <2> QED BY <1>1, <2>1 DEF SkipBinding, Advance, At, StoreInv, MemoryIsFile, AddressInv
<1>2. CASE ArgumentFails(b)
  BY <1>2, FailStores DEF ArgumentFails, ToDeploy, At
<1>3. CASE DeploySend(b)
  <2>1. file' = file
    BY <1>0, <1>3 DEF DeploySend, ToDeploy, At, StoreInv, MemoryIsFile, State
  <2>2. \A a \in Bindings : Element(a) => a = b
    BY <1>3, OneElement DEF DeploySend, ToDeploy, At
  <2>3. mem.binding[b].address = None
    BY <1>3 DEF DeploySend, ToDeploy
  <2>4. \A e \in Events : file.event[e] = mem.event[e]
    BY <1>3 DEF DeploySend, ToDeploy, At, StoreInv, MemoryIsFile
  <2>5. MemoryIsFile'
    BY <1>3, <2>1, <2>4 DEF DeploySend, ToDeploy, At, StoreInv, MemoryIsFile
  <2>6. AddressInv'
    BY <1>3, <2>1, <2>2, <2>3 DEF DeploySend, At, Element, StoreInv, AddressInv
  <2> QED BY <2>5, <2>6 DEF StoreInv
<1>4. CASE DeployMined(b)
  <2> DEFINE r == [mem.binding[b] EXCEPT !.output = Len(created)]
  <2>1. mem' = [mem EXCEPT !.binding[b] = r] /\ file' = [file EXCEPT !.binding[b] = r]
    BY <1>0, <1>4 DEF DeployMined, State
  <2>2. r.address = None
    BY <1>0, <1>4 DEF DeployMined, StoreInv, AddressInv, BindingRecord
  <2> HIDE DEF r
  <2>3. \A a \in Bindings :
          /\ file'.binding[a] = IF a = b THEN r ELSE file.binding[a]
          /\ mem'.binding[a] = IF a = b THEN r ELSE mem.binding[a]
    BY <1>0, <2>1 DEF State
  <2>4. file'.event = file.event /\ mem'.event = mem.event /\ file'.binding = mem'.binding
    <3>1. file.binding = mem.binding
      BY <1>4 DEF DeployMined, At, StoreInv, MemoryIsFile
    <3> QED BY <1>0, <2>1, <3>1 DEF State
  <2>5. \A e \in Events : file.event[e] = mem.event[e]
    BY <1>4 DEF DeployMined, At, StoreInv, MemoryIsFile
  <2>6. \A a \in Bindings : Element(a) => a = b
    BY <1>4, OneElement DEF DeployMined, At
  <2>7. MemoryIsFile'
    BY <2>4, <2>5 DEF MemoryIsFile
  <2>8. AddressInv'
    BY <1>4, <2>2, <2>3, <2>6 DEF DeployMined, At, Element, StoreInv, AddressInv
  <2> QED BY <2>7, <2>8 DEF StoreInv
<1>5. CASE DeployConfirmed(b)
  <2> DEFINE r == [mem.binding[b] EXCEPT !.address = mem.binding[b].output]
  <2>1. mem' = [mem EXCEPT !.binding[b] = r] /\ file' = [file EXCEPT !.binding[b] = r]
    BY <1>0, <1>5 DEF DeployConfirmed, State
  <2>2. r.output = r.address
    BY <1>0 DEF BindingRecord
  <2> HIDE DEF r
  <2>3. \A a \in Bindings : file'.binding[a] = IF a = b THEN r ELSE file.binding[a]
    BY <1>0, <2>1 DEF State
  <2>4. file'.event = file.event /\ mem'.event = mem.event /\ file'.binding = mem'.binding
    <3>1. file.binding = mem.binding
      BY <1>5 DEF DeployConfirmed, At, StoreInv, MemoryIsFile
    <3> QED BY <1>0, <2>1, <3>1 DEF State
  <2>5. \A e \in Events : file.event[e] = mem.event[e]
    BY <1>5 DEF DeployConfirmed, At, StoreInv, MemoryIsFile
  <2>6. MemoryIsFile'
    BY <2>4, <2>5 DEF MemoryIsFile
  <2>7. AddressInv'
    BY <1>5, <2>2, <2>3 DEF DeployConfirmed, Advance, StoreInv, AddressInv
  <2> QED BY <2>6, <2>7 DEF StoreInv
<1>6. CASE DeployFails(b)
  BY <1>6, FailStores DEF DeployFails, ToDeploy, At
<1> QED BY <1>1, <1>2, <1>3, <1>4, <1>5, <1>6 DEF BindingStep

(***************************************************************************)
(* While a hook runs, only the record of its event changes in the file,    *)
(* and not whether it is executed.                                         *)
(***************************************************************************)
LEMMA HookStores ==
  ASSUME TypeOK, StoreInv, NEW e \in Events, At(e),
         NEW r \in EventRecord, r.executed = file.event[e].executed,
         file' = [file EXCEPT !.event[e] = r],
         UNCHANGED <<mem, status, pos>>,
         pc \in {"hook", "callSent", "callStored"},
         pc' \in {"hook", "callSent", "callStored"}
  PROVE  StoreInv'
<1>1. file \in State
  BY DEF TypeOK
<1>2. file'.binding = file.binding
  BY <1>1 DEF State
<1>3. \A f \in Events : file'.event[f] = IF f = e THEN r ELSE file.event[f]
  BY <1>1 DEF State
<1>4. MemoryIsFile'
  <2>1. file'.binding = mem'.binding
    BY <1>2 DEF StoreInv, MemoryIsFile, At
  <2>2. \A f \in Events : file'.event[f].executed = mem'.event[f].executed
    BY <1>3 DEF StoreInv, MemoryIsFile, At
  <2>3. \A f \in Events : file'.event[f] # mem'.event[f] => Element(f)'
    BY <1>3 DEF StoreInv, MemoryIsFile, At, Element
  <2> QED BY <2>1, <2>2, <2>3 DEF MemoryIsFile
<1>5. AddressInv'
  BY <1>2 DEF StoreInv, AddressInv
<1> QED BY <1>4, <1>5 DEF StoreInv

LEMMA OutputStores ==
  ASSUME TypeOK, StoreInv, NEW e \in Events, NEW b \in Bindings, NEW n \in Nat,
         At(e), file' = StoreOutput(e, b, n),
         UNCHANGED <<mem, status, pos>>,
         pc \in {"hook", "callSent", "callStored"},
         pc' \in {"hook", "callSent", "callStored"}
  PROVE  StoreInv'
<1> DEFINE r == [file.event[e] EXCEPT !.outputs[b] = Append(@, n)]
<1>1. file.event[e] \in EventRecord
  BY DEF TypeOK, State
<1>2. r \in EventRecord
  BY <1>1, OutputTyped
<1>3. r.executed = file.event[e].executed
  BY <1>1 DEF EventRecord
<1>4. file' = [file EXCEPT !.event[e] = r]
  BY DEF StoreOutput
<1> HIDE DEF r
<1> QED BY <1>2, <1>3, <1>4, HookStores

(***************************************************************************)
(* What the two steps that store the dependencies of an event leave in the *)
(* file.                                                                   *)
(***************************************************************************)
LEMMA SkipStores ==
  ASSUME TypeOK, StoreInv, NEW e \in Events, SkipEvent(e)
  PROVE  file' = file
<1>1. file \in State /\ file.binding = mem.binding
  BY DEF TypeOK, SkipEvent, At, StoreInv, MemoryIsFile
<1> QED BY <1>1, DepsStoredSame DEF SkipEvent

LEMMA FinishStores ==
  ASSUME TypeOK, StoreInv, NEW e \in Events, FinishHook(e)
  PROVE  file' = mem' /\ file'.binding = file.binding
<1>1. file \in State /\ mem \in State /\ file.binding = mem.binding
  BY DEF TypeOK, FinishHook, At, StoreInv, MemoryIsFile
<1>2. mem' \in State /\ mem'.binding = mem.binding
  BY <1>1, FinishedTyped, StoreEventTyped DEF FinishHook, State
<1>3. file' = mem'
  BY <1>2, DepsStoredSame DEF FinishHook
<1> QED BY <1>1, <1>2, <1>3

LEMMA EventStores ==
  ASSUME TypeOK, StoreInv, NEW e \in Events, EventStep(e)
  PROVE  StoreInv'
<1>0. mem \in State /\ file \in State /\ file.event[e] \in EventRecord
  BY DEF TypeOK, State
<1>1. CASE SkipEvent(e)
  <2>1. file.event = mem.event
    BY <1>0, <1>1 DEF SkipEvent, At, StoreInv, MemoryIsFile, State
  <2>2. file' = file
    BY <1>1, SkipStores
  <2> QED BY <1>1, <2>1, <2>2 DEF SkipEvent, Advance, At, StoreInv, MemoryIsFile, AddressInv
<1>2. CASE EnterHook(e)
  BY <1>2 DEF EnterHook, At, Element, StoreInv, MemoryIsFile, AddressInv
<1>3. CASE DependencyMissing(e)
  BY <1>3, FailStores DEF DependencyMissing, At
<1>4. CASE HookFails(e)
  BY <1>4, FailStores DEF HookFails, At
<1>5. CASE FinishHook(e)
  <2>1. file'.binding = file.binding /\ mem' = file'
    BY <1>5, FinishStores
  <2>2. pc' = "next"
    BY <1>5 DEF FinishHook, Advance
  <2> QED BY <2>1, <2>2 DEF StoreInv, MemoryIsFile, AddressInv
<1>6. ASSUME NEW b \in Bindings, ReplayCall(e, b) PROVE StoreInv'
  <2>1. file.event[e].outputs[b][progress[b] + 1] \in Nat
    BY <1>6, ReplayTyped
  <2> QED BY <1>6, <2>1, OutputStores DEF ReplayCall, Calling
<1>7. ASSUME NEW b \in Bindings, SendCall(e, b) PROVE StoreInv'
  BY <1>7 DEF SendCall, Calling, At, Element, StoreInv, MemoryIsFile, AddressInv
<1>8. ASSUME NEW b \in Bindings, StoreInput(e, b) PROVE StoreInv'
  <2> DEFINE r == [file.event[e] EXCEPT !.inputs = @ + 1]
  <2>1. r \in EventRecord
    BY <1>0, InputTyped
  <2>2. r.executed = file.event[e].executed
    BY <1>0 DEF EventRecord
  <2>3. file' = [file EXCEPT !.event[e] = r]
    BY <1>8 DEF StoreInput
  <2> HIDE DEF r
  <2> QED BY <1>8, <2>1, <2>2, <2>3, HookStores DEF StoreInput, Calling
<1>9. ASSUME NEW b \in Bindings, StoreReceipt(e, b) PROVE StoreInv'
  <2>1. Len(calls) \in Nat
    BY DEF TypeOK
  <2> QED BY <1>9, <2>1, OutputStores DEF StoreReceipt, Calling
<1>10. ASSUME NEW b \in Bindings, CallUndeployed(e, b) PROVE StoreInv'
  BY <1>10, FailStores DEF CallUndeployed, Calling, At
<1> QED BY <1>1, <1>2, <1>3, <1>4, <1>5, <1>6, <1>7, <1>8, <1>9, <1>10 DEF EventStep

LEMMA StoreStep == TypeOK /\ StoreInv /\ [Next]_vars => StoreInv'
<1> SUFFICES ASSUME TypeOK, StoreInv, [Next]_vars PROVE StoreInv'
  OBVIOUS
<1>1. CASE Rerun
  BY <1>1, StartStores DEF Rerun
<1>2. ASSUME NEW b \in Bindings, BindingStep(b) PROVE StoreInv'
  BY <1>2, BindingStores
<1>3. ASSUME NEW e \in Events, EventStep(e) PROVE StoreInv'
  BY <1>3, EventStores
<1>4. CASE Summary
  BY <1>4 DEF Summary, StoreInv, MemoryIsFile, AddressInv, At
<1>5. CASE FailHook
  <2>1. file'.binding = file.binding
    BY <1>5 DEF FailHook, StoreInv, MemoryIsFile
  <2> QED BY <1>5, <2>1 DEF FailHook, StoreInv, MemoryIsFile, AddressInv, At
<1>6. CASE Crash
  BY <1>6 DEF Crash, StoreInv, MemoryIsFile, AddressInv, At
<1>7. CASE UNCHANGED vars
  BY <1>7 DEF vars, env, StoreInv, MemoryIsFile, AddressInv, At, Element
<1> QED BY <1>1, <1>2, <1>3, <1>4, <1>5, <1>6, <1>7 DEF Next

(***************************************************************************)
(* In every reachable state of every deployment the file and the memory    *)
(* agree on what is deployed and executed, so that none of the stores of   *)
(* the whole in-memory state takes anything of it back.                    *)
(***************************************************************************)
THEOREM StoresAgree == Spec => []StoreInv
<1>1. Init => StoreInv
  BY DEF Init, StoreInv, MemoryIsFile, AddressInv, At, BlankState, BlankBinding
<1> QED BY <1>1, TypeCorrect, StoreStep, PTL DEF Spec

(***************************************************************************)
(* The first part: what finishCurrentEvent stores takes nothing back but   *)
(* receipts of the running event.                                          *)
(***************************************************************************)
THEOREM MemoryCorrect == Spec => []MemoryIsFile
<1>1. StoreInv => MemoryIsFile
  BY DEF StoreInv
<1> QED BY <1>1, StoresAgree, PTL

(***************************************************************************)
(* The second part: an address in the file is that of the stored receipt,  *)
(* and a contract that is being deployed has none.                         *)
(***************************************************************************)
THEOREM AddressCorrect == Spec => []AddressInv
<1>1. StoreInv => AddressInv
  BY DEF StoreInv
<1> QED BY <1>1, StoresAgree, PTL

(***************************************************************************)
(* The contracts that a run redeploys are the ones whose record it blanks. *)
(* An invalidated one keeps the receipt of its creation.                   *)
(***************************************************************************)
LEMMA RedeployedIsBlank ==
  ASSUME TypeOK, StoreInv, NEW changed \in SUBSET Bindings, NEW config \in SUBSET Bindings,
         StartRun(changed, config)
  PROVE  Redeployed' = Ancestors(Undeployed \cup changed)
<1> DEFINE r == Undeployed \cup changed
<1>1. mem' = Resolved(r)
  BY DEF StartRun
<1>2. ASSUME NEW b \in r PROVE mem'.binding[b] = BlankBinding
  BY <1>1 DEF Resolved, Undeployed
<1>3. ASSUME NEW b \in Bindings \ r PROVE mem'.binding[b] # BlankBinding
  <2>1. file.binding[b] \in BindingRecord /\ file.binding[b].address # None
    BY DEF TypeOK, State, BindingRecord, Undeployed
  <2>2. file.binding[b].output # None
    BY <2>1 DEF StoreInv, AddressInv
  <2>3. [file.binding[b] EXCEPT !.address = None].output = file.binding[b].output
    BY <2>1 DEF BindingRecord
  <2>4. mem'.binding[b].output = file.binding[b].output
    BY <1>1, <2>3 DEF Resolved
  <2> QED BY <2>2, <2>4 DEF BlankBinding
<1>4. {b \in Bindings : mem'.binding[b] = BlankBinding} = r
  BY <1>2, <1>3 DEF Undeployed
<1> HIDE DEF r
<1> QED BY <1>4 DEF Redeployed, Ancestors, Closed, r

LEMMA StartKeeps ==
  ASSUME TypeOK, StoreInv, NEW changed \in SUBSET Bindings, NEW config \in SUBSET Bindings,
         StartRun(changed, config)
  PROVE  Kept
<1> DEFINE r == Undeployed \cup changed
           gone == Ancestors(r)
<1>1. file' = Resolved(r) /\ Redeployed' = gone /\ Starting
  BY RedeployedIsBlank DEF StartRun, Starting
<1>2. r \subseteq gone
  BY DEF Ancestors, Undeployed
<1>3. ASSUME NEW b \in Bindings \ gone PROVE file'.binding[b] = file.binding[b]
  BY <1>1, <1>2 DEF Resolved
<1>4. ASSUME NEW e \in Events, Deps[e] \cap gone = {} PROVE file'.event[e] = file.event[e]
  BY <1>1, <1>4 DEF Resolved, InvalidatedEvent
<1> HIDE DEF r, gone
<1> QED BY <1>1, <1>3, <1>4 DEF Kept

LEMMA BindingKeeps ==
  ASSUME TypeOK, StoreInv, NEW b \in Bindings, BindingStep(b)
  PROVE  Kept
<1>0. mem \in State /\ file \in State /\ mem.binding[b] \in BindingRecord
  BY DEF TypeOK, State, BindingRecord
<1>1. CASE SkipBinding(b) \/ ArgumentFails(b) \/ DeployFails(b)
  BY <1>1 DEF SkipBinding, ArgumentFails, DeployFails, Fail, Kept
<1>2. CASE DeploySend(b)
  <2>1. file' = file
    BY <1>0, <1>2 DEF DeploySend, ToDeploy, At, StoreInv, MemoryIsFile, State
  <2> QED BY <2>1 DEF Kept
<1>3. CASE DeployMined(b) \/ DeployConfirmed(b)
  <2>1. file'.event = file.event
    BY <1>0, <1>3 DEF DeployMined, DeployConfirmed, State
  <2>2. \A a \in Bindings : a # b => file'.binding[a] = file.binding[a]
    BY <1>0, <1>3 DEF DeployMined, DeployConfirmed, State
  <2>3. file.binding[b].address = None
    BY <1>3 DEF DeployMined, DeployConfirmed, At, StoreInv, MemoryIsFile, AddressInv
  <2> QED BY <2>1, <2>2, <2>3 DEF Kept
<1> QED BY <1>1, <1>2, <1>3 DEF BindingStep

LEMMA EventKeeps ==
  ASSUME TypeOK, StoreInv, NEW e \in Events, EventStep(e)
  PROVE  Kept
<1>0. mem \in State /\ file \in State /\ file.event[e] \in EventRecord
  BY DEF TypeOK, State
<1>1. CASE UNCHANGED file
  BY <1>1 DEF Kept
<1>2. CASE FinishHook(e)
  <2>1. \A f \in Events : file.event[f].executed = mem.event[f].executed
    BY <1>2 DEF FinishHook, At, StoreInv, MemoryIsFile
  <2>2. file' = mem' /\ file'.binding = file.binding
    BY <1>2, FinishStores
  <2>3. \A f \in Events : f # e => mem'.event[f] = mem.event[f]
    BY <1>0, <1>2 DEF FinishHook, State
  <2>4. mem'.event[e].executed
    <3>1. FinishedEvent(e).executed
      BY <1>0 DEF FinishedEvent, BlankEvent, EventRecord
    <3> QED BY <1>0, <1>2, <3>1 DEF FinishHook, State
  <2> QED BY <2>1, <2>2, <2>3, <2>4 DEF Kept
<1>3. ASSUME NEW b \in Bindings, NEW n, file' = StoreOutput(e, b, n) PROVE Kept
  <2>1. file'.binding = file.binding
    BY <1>0, <1>3 DEF StoreOutput, State
  <2>2. \A f \in Events : file'.event[f].executed = file.event[f].executed
    BY <1>0, <1>3 DEF StoreOutput, State, EventRecord
  <2> QED BY <2>1, <2>2 DEF Kept
<1>4. ASSUME NEW b \in Bindings, StoreInput(e, b) PROVE Kept
  <2>1. file'.binding = file.binding
    BY <1>0, <1>4 DEF StoreInput, State
  <2>2. \A f \in Events : file'.event[f].executed = file.event[f].executed
    BY <1>0, <1>4 DEF StoreInput, State, EventRecord
  <2> QED BY <2>1, <2>2 DEF Kept
<1>5. SkipEvent(e) => UNCHANGED file
  BY SkipStores
<1>6. \/ UNCHANGED file
      \/ FinishHook(e)
      \/ \E b \in Bindings : \/ \E n : file' = StoreOutput(e, b, n)
                            \/ StoreInput(e, b)
  BY <1>5 DEF EventStep, EnterHook, DependencyMissing, HookFails, ReplayCall, SendCall,
              StoreReceipt, CallUndeployed, Fail
<1> QED BY <1>1, <1>2, <1>3, <1>4, <1>6

(***************************************************************************)
(* No step takes back the address of a deployed contract or the execution  *)
(* of an event, except the start of a run that redeploys the contract, or  *)
(* one of those that the event depends on, or invalidates it for one that  *)
(* is built from it.                                                       *)
(***************************************************************************)
THEOREM NothingIsRolledBack == Spec => NothingRolledBack
<1>1. TypeOK /\ StoreInv /\ [Next]_vars => [Kept]_vars
  <2> SUFFICES ASSUME TypeOK, StoreInv, Next PROVE Kept
    BY DEF Kept
  <2>1. CASE Rerun
    BY <2>1, StartKeeps DEF Rerun
  <2>2. ASSUME NEW b \in Bindings, BindingStep(b) PROVE Kept
    BY <2>2, BindingKeeps
  <2>3. ASSUME NEW e \in Events, EventStep(e) PROVE Kept
    BY <2>3, EventKeeps
  <2>4. CASE Summary \/ Crash
    BY <2>4 DEF Summary, Crash, Kept
  <2>5. CASE FailHook
    BY <2>5 DEF FailHook, StoreInv, MemoryIsFile, Kept
  <2> QED BY <2>1, <2>2, <2>3, <2>4, <2>5 DEF Next
<1> QED BY <1>1, TypeCorrect, StoresAgree, PTL DEF Spec, NothingRolledBack
=============================================================================
