----------------------------- MODULE Deployment -----------------------------
(***************************************************************************)
(* One module deployed sequentially (no parallelization), with a state     *)
(* file, and deployed again after a crash, a failure or a change of the    *)
(* sources: IgnitionCore.deploy, ModuleResolver.resolve,                   *)
(* EthTxGenerator.initTx, TxExecutor._executeSync, the event hooks of      *)
(* EventHandler, the contract function wrapper of ContractInstance, and    *)
(* the stores of ModuleStateRepo.                                          *)
(*                                                                         *)
(* The program runs one callback at a time, so a step goes from one await  *)
(* that can be interrupted or can fail to the next.                        *)
(***************************************************************************)
EXTENDS Naturals, Sequences, FiniteSets, Functions

CONSTANTS
  Bindings,     \* the contracts and libraries of the module
  Events,       \* the contract events and module events
  Order,        \* what _resolveContractsAndEvents returns: the elements, in order
  Args,         \* binding -> the bindings among its constructor arguments
  Deps,         \* event -> the bindings it depends on (its eventsDeps owners)
  AfterDeploy,  \* the events whose dependencies must be deployed
  ModuleHooks,  \* onSuccess and onCompletion: finishCurrentModuleEvent
  Script,       \* event -> the contracts whose functions its hook calls
  OnFail,       \* whether the module has an onFail hook (that calls nothing)
  MaxStops,     \* bound: crashes and failures
  MaxChanges    \* bound: what the user changes between runs

ASSUME ModuleAssumption ==
  /\ IsFiniteSet(Bindings)
  /\ Args \in [Bindings -> SUBSET Bindings]
  /\ Deps \in [Events -> SUBSET Bindings]
  /\ Script \in [Events -> Seq(Bindings)]
  /\ Order \in Seq(Bindings \cup Events)
  /\ Bindings \cap Events = {}
  /\ AfterDeploy \subseteq Events /\ ModuleHooks \subseteq Events
  /\ OnFail \in BOOLEAN
  /\ MaxStops \in Nat /\ MaxChanges \in Nat

(***************************************************************************)
(* The order leaves out nothing of the module (NothingDropped of           *)
(* ModuleBuild); an event that has no place in it, the hook of a group of  *)
(* no contracts, is not among Events.                                      *)
(***************************************************************************)
ASSUME OrderAssumption == Bindings \cup Events \subseteq Range(Order)

VARIABLES
  file,       \* the state file, what is durable; blank if there is none
  mem,        \* moduleState, the in-memory state of a run
  progress,   \* contractTxProgress of each binding, in memory
  status,     \* of the deploy() call
  skip,       \* moduleConfig of the run: the contracts with deploy: false
  pos,        \* the element of Order being executed
  pc,         \* where in that element
  call,       \* the call of the hook's script that comes next
  finished,   \* the events that this run finished
  created,    \* the chain: contracts, an address is an index
  calls,      \* the chain: contract calls, a receipt is an index
  stops, changes  \* how often the bounded things happened

env == <<created, calls, stops, changes>>
vars == <<file, mem, progress, status, skip, pos, pc, call, finished, env>>

None == 0     \* undefined, of an address or a receipt

(***************************************************************************)
(* StatefulEvent: executed and txData, the inputs only counted because     *)
(* nothing but the summary looks at them.                                  *)
(***************************************************************************)
BlankEvent == [executed |-> FALSE, inputs |-> 0, outputs |-> [b \in Bindings |-> <<>>]]

(***************************************************************************)
(* ContractBinding: deployMetaData.contractAddress and the address in      *)
(* txData.output.                                                          *)
(***************************************************************************)
BlankBinding == [address |-> None, output |-> None]

BlankState ==
  [binding |-> [b \in Bindings |-> BlankBinding], event |-> [e \in Events |-> BlankEvent]]

EventRecord ==
  [executed : BOOLEAN, inputs : Nat, outputs : [Bindings -> Seq(Nat)]]
State ==
  [binding : [Bindings -> [address : Nat, output : Nat]], event : [Events -> EventRecord]]

TypeOK ==
  /\ file \in State /\ mem \in State
  /\ progress \in [Bindings -> Nat]
  /\ status \in {"idle", "running", "failing", "stopped", "done"}
  /\ pos \in 1 .. Len(Order) + 1
  /\ pc \in {"next", "deploySent", "deployMined", "hook", "callSent", "callStored"}
  /\ call \in Nat
  /\ skip \subseteq Bindings /\ finished \subseteq Events
  /\ created \in Seq([name : Bindings, args : [Bindings -> Nat]])
  /\ calls \in Seq([event : Events, index : Nat, to : Nat])
  /\ stops \in 0 .. MaxStops /\ changes \in 0 .. MaxChanges

Init ==
  /\ file = BlankState /\ mem = BlankState
  /\ progress = [b \in Bindings |-> 0]
  /\ status = "idle" /\ skip = {}
  /\ pos = 1 /\ pc = "next" /\ call = 1
  /\ finished = {}
  /\ created = <<>> /\ calls = <<>>
  /\ stops = 0 /\ changes = 0

-----------------------------------------------------------------------------
(* Starting a run: resolve, initTx and the first store.                    *)

(***************************************************************************)
(* The bindings that a set of bindings is built from, and the set itself:  *)
(* what the recursion over the arguments visits.                           *)
(***************************************************************************)
Closed(T) == \A b \in T : Args[b] \subseteq T

Ancestors(S) ==
  {b \in Bindings : \A T \in SUBSET Bindings : S \subseteq T /\ Closed(T) => b \in T}

(***************************************************************************)
(* resolve: what is to be deployed, redeploy, loses its address, and so do *)
(* all the contracts that it is built from (_invalidateStateElement-       *)
(* Dependant); the executed events of any of them are to run again, with   *)
(* an empty record (_invalidateBindingEventsDependant).  An event that     *)
(* was not executed keeps its record.                                      *)
(***************************************************************************)
InvalidatedEvent(e, gone) ==
  IF file.event[e].executed /\ Deps[e] \cap gone # {} THEN BlankEvent ELSE file.event[e]

Resolved(redeploy) ==
  LET gone == Ancestors(redeploy) IN
  [binding |-> [b \in Bindings |->
     IF b \in redeploy THEN BlankBinding
     ELSE IF b \in gone THEN [file.binding[b] EXCEPT !.address = None]
     ELSE file.binding[b]],
   event |-> [e \in Events |-> InvalidatedEvent(e, gone)]]

Undeployed == {b \in Bindings : file.binding[b].address = None}

(***************************************************************************)
(* deploy() in a new process: the in-memory progress starts from zero, and *)
(* execute stores everything before it begins.  changed are the contracts  *)
(* whose bytecode is not the recorded one (or that shouldRedeploy wants).  *)
(***************************************************************************)
StartRun(changed, config) ==
  /\ status \in {"idle", "stopped", "done"}
  /\ changed \cap Undeployed = {}
  /\ mem' = Resolved(Undeployed \cup changed)
  /\ file' = mem'
  /\ progress' = [b \in Bindings |-> 0]
  /\ status' = "running" /\ skip' = config
  /\ pos' = 1 /\ pc' = "next" /\ call' = 1
  /\ finished' = {}
  /\ changes' = changes + Cardinality(changed \cup config)
  /\ changes' <= MaxChanges
  /\ UNCHANGED <<created, calls, stops>>

-----------------------------------------------------------------------------
(* Walking over the elements: _executeSync.                                *)

Element(x) == pos <= Len(Order) /\ Order[pos] = x

At(x) == status = "running" /\ Element(x)

(* Mutant of the walk: it passes over an element.                          *)
AdvanceTwice == pos' = pos + 2 /\ pc' = "next"

Advance == pos' = pos + 1 /\ pc' = "next"

(***************************************************************************)
(* The error of a run goes to the catch of deploy(), where the onFail hook *)
(* is executed.                                                            *)
(***************************************************************************)
Fail ==
  /\ status' = IF OnFail THEN "failing" ELSE "stopped"
  /\ UNCHANGED <<file, mem, progress, skip, pos, pc, call, finished, created, calls, changes>>

(***************************************************************************)
(* A failure that may happen again and again is bounded, one that follows  *)
(* from the state is not.                                                  *)
(***************************************************************************)
Stop == stops < MaxStops /\ stops' = stops + 1

(***************************************************************************)
(* Mutant of the skipping: the module config is not looked at.             *)
(***************************************************************************)
SkipDeployed(b) ==
  /\ At(b) /\ pc = "next"
  /\ mem.binding[b].address # None
  /\ Advance
  /\ UNCHANGED <<file, mem, progress, status, skip, call, finished, env>>

(***************************************************************************)
(* A contract with an address, or that the module config excludes, is      *)
(* skipped.                                                                *)
(***************************************************************************)
SkipBinding(b) ==
  /\ At(b) /\ pc = "next"
  /\ mem.binding[b].address # None \/ b \in skip
  /\ Advance
  /\ UNCHANGED <<file, mem, progress, status, skip, call, finished, env>>

(***************************************************************************)
(* _executeSingleBinding: an argument without an address is an error; then *)
(* the creation is signed and sent, and the binding stored.                *)
(***************************************************************************)
ToDeploy(b) == At(b) /\ mem.binding[b].address = None /\ b \notin skip

ArgumentMissing(b) == \E a \in Args[b] : mem.binding[a].address = None

ArgumentFails(b) ==
  /\ ToDeploy(b) /\ pc = "next"
  /\ ArgumentMissing(b)
  /\ Fail /\ UNCHANGED stops

Contract(b) ==
  [name |-> b,
   args |-> [a \in Bindings |-> IF a \in Args[b] THEN mem.binding[a].address ELSE None]]

DeploySend(b) ==
  /\ ToDeploy(b) /\ pc = "next"
  /\ ~ArgumentMissing(b)
  /\ created' = Append(created, Contract(b))
  /\ file' = [file EXCEPT !.binding[b] = mem.binding[b]]
  /\ pc' = "deploySent"
  /\ UNCHANGED <<mem, progress, status, skip, pos, call, finished, calls, stops, changes>>

(***************************************************************************)
(* Mutant of the first confirmation: the address is known already.         *)
(***************************************************************************)
DeployMinedAddress(b) ==
  /\ At(b) /\ pc = "deploySent"
  /\ mem' = [mem EXCEPT !.binding[b] = [address |-> Len(created), output |-> Len(created)]]
  /\ file' = [file EXCEPT !.binding[b] = mem'.binding[b]]
  /\ pc' = "deployMined"
  /\ UNCHANGED <<progress, status, skip, pos, call, finished, env>>

(***************************************************************************)
(* wait(1): the receipt is stored, the address is not yet in               *)
(* deployMetaData.                                                         *)
(***************************************************************************)
DeployMined(b) ==
  /\ At(b) /\ pc = "deploySent"
  /\ mem' = [mem EXCEPT !.binding[b].output = Len(created)]
  /\ file' = [file EXCEPT !.binding[b] = mem'.binding[b]]
  /\ pc' = "deployMined"
  /\ UNCHANGED <<progress, status, skip, pos, call, finished, env>>

(***************************************************************************)
(* Mutant of the last confirmation: the binding is not stored.             *)
(***************************************************************************)
DeployConfirmedUnstored(b) ==
  /\ At(b) /\ pc = "deployMined"
  /\ mem' = [mem EXCEPT !.binding[b].address = mem.binding[b].output]
  /\ Advance
  /\ UNCHANGED <<file, progress, status, skip, call, finished, env>>

(***************************************************************************)
(* wait(blockConfirmation): the address of the receipt becomes the         *)
(* address of the contract.                                                *)
(***************************************************************************)
DeployConfirmed(b) ==
  /\ At(b) /\ pc = "deployMined"
  /\ mem' = [mem EXCEPT !.binding[b].address = mem.binding[b].output]
  /\ file' = [file EXCEPT !.binding[b] = mem'.binding[b]]
  /\ Advance
  /\ UNCHANGED <<progress, status, skip, call, finished, env>>

DeployFails(b) ==
  /\ ToDeploy(b) /\ ~ArgumentMissing(b)
  /\ Fail /\ Stop

-----------------------------------------------------------------------------
(* Event hooks and their contract calls.                                   *)

(***************************************************************************)
(* When _executeEvent is through with an event, executed or skipped, it    *)
(* stores the bindings that the event depends on.                          *)
(***************************************************************************)
DepsStored(e, s) ==
  [s EXCEPT !.binding =
     [b \in Bindings |-> IF b \in Deps[e] THEN mem.binding[b] ELSE s.binding[b]]]

(***************************************************************************)
(* _handleDeployedBindingsEvents: every dependency must have an address.   *)
(***************************************************************************)
Ready(e) == e \in AfterDeploy => \A b \in Deps[e] : mem.binding[b].address # None

(* Mutant of the skipping: an event that is not ready is skipped too.      *)
SkipUnready(e) ==
  /\ At(e) /\ pc = "next"
  /\ mem.event[e].executed \/ ~Ready(e)
  /\ Advance
  /\ file' = DepsStored(e, file)
  /\ UNCHANGED <<mem, progress, status, skip, call, finished, env>>

SkipEvent(e) ==
  /\ At(e) /\ pc = "next"
  /\ mem.event[e].executed
  /\ Advance
  /\ file' = DepsStored(e, file)
  /\ UNCHANGED <<mem, progress, status, skip, call, finished, env>>

EnterHook(e) ==
  /\ At(e) /\ pc = "next"
  /\ ~mem.event[e].executed
  /\ Ready(e)
  /\ pc' = "hook" /\ call' = 1
  /\ UNCHANGED <<file, mem, progress, status, skip, pos, finished, env>>

DependencyMissing(e) ==
  /\ At(e) /\ pc = "next"
  /\ ~mem.event[e].executed
  /\ ~Ready(e)
  /\ Fail /\ UNCHANGED stops

Calling(e, b) ==
  /\ At(e)
  /\ call <= Len(Script[e])
  /\ Script[e][call] = b

StoreOutput(e, b, receipt) ==
  [file EXCEPT !.event[e].outputs[b] = Append(@, receipt)]

(***************************************************************************)
(* Mutant of the wrapper: off by one, the last receipt is not found.       *)
(***************************************************************************)
RecordedBefore(e, b) == Len(file.event[e].outputs[b]) > progress[b] + 1

(***************************************************************************)
(* The wrapper finds more receipts in the record than the binding has made *)
(* progress: it returns the next one and sends nothing.  The executor      *)
(* stores what it got, a replayed receipt like a new one.                  *)
(***************************************************************************)
Recorded(e, b) == Len(file.event[e].outputs[b]) > progress[b]

ReplayCall(e, b) ==
  /\ Calling(e, b) /\ pc = "hook"
  /\ mem.binding[b].address # None
  /\ Recorded(e, b)
  /\ progress' = [progress EXCEPT ![b] = @ + 1]
  /\ file' = StoreOutput(e, b, file.event[e].outputs[b][progress[b] + 1])
  /\ call' = call + 1
  /\ UNCHANGED <<mem, status, skip, pos, pc, finished, env>>

SendCall(e, b) ==
  /\ Calling(e, b) /\ pc = "hook"
  /\ ~Recorded(e, b)
  /\ mem.binding[b].address # None
  /\ calls' = Append(calls, [event |-> e, index |-> call, to |-> mem.binding[b].address])
  /\ pc' = "callSent"
  /\ UNCHANGED <<file, mem, progress, status, skip, pos, call, finished, created, stops, changes>>

StoreInput(e, b) ==
  /\ Calling(e, b) /\ pc = "callSent"
  /\ file' = [file EXCEPT !.event[e].inputs = @ + 1]
  /\ progress' = [progress EXCEPT ![b] = @ + 1]
  /\ pc' = "callStored"
  /\ UNCHANGED <<mem, status, skip, pos, call, finished, env>>

StoreReceipt(e, b) ==
  /\ Calling(e, b) /\ pc = "callStored"
  /\ file' = StoreOutput(e, b, Len(calls))
  /\ call' = call + 1
  /\ pc' = "hook"
  /\ UNCHANGED <<mem, progress, status, skip, pos, finished, env>>

(***************************************************************************)
(* deployed() throws for a contract that has no address.                   *)
(***************************************************************************)
CallUndeployed(e, b) ==
  /\ Calling(e, b) /\ pc = "hook"
  /\ mem.binding[b].address = None
  /\ Fail /\ UNCHANGED stops

(***************************************************************************)
(* The transaction cannot be sent, or is reverted, or the hook throws, or  *)
(* a store of its input or its receipt.                                    *)
(***************************************************************************)
HookFails(e) ==
  /\ At(e) /\ pc \in {"hook", "callSent", "callStored"}
  /\ Fail /\ Stop

(***************************************************************************)
(* finishCurrentEvent takes the record of the event from the file, marks   *)
(* it executed, puts it into the in-memory state and stores all of that.   *)
(* finishCurrentModuleEvent does the same with an empty record.            *)
(***************************************************************************)
FinishedEvent(e) ==
  [(IF e \in ModuleHooks THEN BlankEvent ELSE file.event[e]) EXCEPT !.executed = TRUE]

(* Mutant of the finish: the file is stored, the memory not brought along. *)
FinishHookFileOnly(e) ==
  /\ At(e) /\ pc = "hook"
  /\ call > Len(Script[e])
  /\ file' = [mem EXCEPT !.event[e] = FinishedEvent(e)]
  /\ finished' = finished \cup {e}
  /\ Advance
  /\ UNCHANGED <<mem, progress, status, skip, call, env>>

FinishHook(e) ==
  /\ At(e) /\ pc = "hook"
  /\ call > Len(Script[e])
  /\ mem' = [mem EXCEPT !.event[e] = FinishedEvent(e)]
  /\ file' = DepsStored(e, mem')
  /\ finished' = finished \cup {e}
  /\ Advance
  /\ UNCHANGED <<progress, status, skip, call, env>>

-----------------------------------------------------------------------------
(* The end of a run.                                                       *)

(***************************************************************************)
(* showSummary pairs every input of an event that this run finished with   *)
(* an output, and throws on an input that has none.                        *)
(***************************************************************************)
Outputs(e) ==
  FoldFunction(LAMBDA n, m : n + m, 0, [b \in Bindings |-> Len(file.event[e].outputs[b])])

(* Mutant of the summary: it wants one output more than inputs.            *)
SummarisedStrictly == \A e \in finished : file.event[e].inputs < Outputs(e)

Summarised == \A e \in finished : file.event[e].inputs <= Outputs(e)

Summary ==
  /\ status = "running" /\ pos > Len(Order)
  /\ status' = IF Summarised THEN "done" ELSE "stopped"
  /\ UNCHANGED <<file, mem, progress, skip, pos, pc, call, finished, env>>

(***************************************************************************)
(* executeModuleEvents for onFail: finishing the hook stores the whole     *)
(* in-memory state.                                                        *)
(***************************************************************************)
FailHook ==
  /\ status = "failing"
  /\ file' = mem
  /\ status' = "stopped"
  /\ UNCHANGED <<mem, progress, skip, pos, pc, call, finished, env>>

Crash ==
  /\ status \in {"running", "failing"}
  /\ status' = "stopped"
  /\ Stop
  /\ UNCHANGED <<file, mem, progress, skip, pos, pc, call, finished, created, calls, changes>>

-----------------------------------------------------------------------------

BindingStep(b) ==
  \/ SkipBinding(b) \/ ArgumentFails(b)
  \/ DeploySend(b) \/ DeployMined(b) \/ DeployConfirmed(b) \/ DeployFails(b)

EventStep(e) ==
  \/ SkipEvent(e) \/ EnterHook(e) \/ DependencyMissing(e)
  \/ HookFails(e) \/ FinishHook(e)
  \/ \E b \in Bindings :
       \/ ReplayCall(e, b) \/ SendCall(e, b) \/ StoreInput(e, b) \/ StoreReceipt(e, b)
       \/ CallUndeployed(e, b)

Rerun == \E changed, config \in SUBSET Bindings : StartRun(changed, config)

Next ==
  \/ Rerun
  \/ \E b \in Bindings : BindingStep(b)
  \/ \E e \in Events : EventStep(e)
  \/ Summary \/ FailHook \/ Crash

(***************************************************************************)
(* The process makes progress while it is not stopped (each await is a     *)
(* node answering or a promise resolving), and the user runs the command   *)
(* again, with nothing changed, until it reports success.                  *)
(***************************************************************************)
Process ==
  \/ \E b \in Bindings : BindingStep(b)
  \/ \E e \in Events : EventStep(e)
  \/ Summary \/ FailHook

Again == status # "done" /\ StartRun({}, {})

Spec == Init /\ [][Next]_vars /\ WF_vars(Process) /\ WF_vars(Again)

-----------------------------------------------------------------------------
(* Properties.                                                             *)

(***************************************************************************)
(* finishCurrentEvent and the onFail hook store the whole in-memory state  *)
(* over the file.  That takes back no address and no executed event: the   *)
(* memory lags the file only in the receipts of the event whose hook is    *)
(* running, or was when the run failed.                                    *)
(***************************************************************************)
MemoryIsFile ==
  status \in {"running", "failing"} =>
    /\ file.binding = mem.binding
    /\ \A e \in Events : file.event[e].executed = mem.event[e].executed
    /\ \A e \in Events : file.event[e] # mem.event[e]
         => Element(e) /\ pc \in {"hook", "callSent", "callStored"}

(***************************************************************************)
(* What keeps an address: it is the one in the receipt of the creation, so *)
(* that a contract loses it without its receipt only by being invalidated; *)
(* and a contract that is being deployed has none.                         *)
(***************************************************************************)
AddressInv ==
  /\ \A b \in Bindings :
       file.binding[b].address # None => file.binding[b].output = file.binding[b].address
  /\ \A b \in Bindings :
       At(b) /\ pc \in {"deploySent", "deployMined"} => mem.binding[b].address = None

StoreInv == MemoryIsFile /\ AddressInv

(***************************************************************************)
(* The events that a run starts over are those of contracts it redeploys,  *)
(* or of what these are built from.                                        *)
(***************************************************************************)
Redeployed == Ancestors({b \in Bindings : mem.binding[b] = BlankBinding})

Starting == status # "running" /\ status' = "running"

(***************************************************************************)
(* The file never takes back an address or an executed event, except when  *)
(* a run starts that redeploys the contract: storeSingleBinding,           *)
(* storeEventTransactionData, finishCurrentEvent, and resolve.             *)
(***************************************************************************)
Kept ==
  /\ \A b \in Bindings :
       file.binding[b].address \notin {None, file'.binding[b].address}
         => Starting /\ b \in Redeployed'
  /\ \A e \in Events :
       file.event[e].executed /\ ~file'.event[e].executed
         => Starting /\ Deps[e] \cap Redeployed' # {}

NothingRolledBack == [][Kept]_vars

(***************************************************************************)
(* The receipts of an event's calls are in the file.                       *)
(***************************************************************************)
ReceiptsOf(e) ==
  UNION {{file.event[e].outputs[b][i] : i \in 1 .. Len(file.event[e].outputs[b])} : b \in Bindings}

(***************************************************************************)
(* In this run no earlier event has called the contract: its progress is   *)
(* the event's own.                                                        *)
(***************************************************************************)
OwnProgress(e, b) == progress[b] = Cardinality({i \in 1 .. call - 1 : Script[e][i] = b})

(***************************************************************************)
(* A call whose receipt is recorded is not sent again, as the wrapper of   *)
(* ContractInstance is documented to do, as long as the counter that it    *)
(* shares with the other events of the contract is the event's own.        *)
(***************************************************************************)
RecordedCallNotResent ==
  [][\A e \in Events, b \in Bindings :
       SendCall(e, b) /\ OwnProgress(e, b)
         => \A r \in ReceiptsOf(e) : calls[r].index # call]_vars

(***************************************************************************)
(* A deployment that executed everything is reported as a failure only if  *)
(* some call was sent whose receipt is not recorded (showSummary).  The    *)
(* calls of the module hooks, which have no record, are no excuse.         *)
(***************************************************************************)
SummaryFailsOnlyAfterLoss ==
  [][Summary /\ status' = "stopped"
       => \E r \in 1 .. Len(calls) :
            /\ calls[r].event \in finished \ ModuleHooks
            /\ r \notin ReceiptsOf(calls[r].event)]_vars

(***************************************************************************)
(* Success means that everything is deployed and every event executed, the *)
(* module config's exceptions aside (_executeSync, the summary).           *)
(***************************************************************************)
SuccessIsComplete ==
  status = "done" =>
    /\ \A b \in Bindings \ skip :
         /\ file.binding[b].address # None
         /\ created[file.binding[b].address].name = b
    /\ \A e \in Events : file.event[e].executed

(***************************************************************************)
(* Retried until it succeeds, a deployment succeeds: no state that a crash *)
(* or a failure leaves behind makes every later run fail.                  *)
(***************************************************************************)
Completes == []<>(status = "done")

(***************************************************************************)
(* What the documentation says and the code does not do.                   *)
(*                                                                         *)
(* An executed event means that all the contract functions of its hook     *)
(* were sent (docs/concepts/module_state_file).                            *)
(***************************************************************************)
ExecutedMeansSent ==
  \A e \in Events : file.event[e].executed =>
    \A i \in 1 .. Len(Script[e]) :
      \E r \in 1 .. Len(calls) : calls[r].event = e /\ calls[r].index = i

(***************************************************************************)
(* A recorded receipt stays recorded until a run starts the event over:    *)
(* what a rerun relies on not to send a transaction twice.                 *)
(***************************************************************************)
ReceiptsKept ==
  [][\A e \in Events \ ModuleHooks : ~Starting => ReceiptsOf(e) \subseteq ReceiptsOf(e)']_vars

(***************************************************************************)
(* A run that is started again with nothing changed skips what is deployed *)
(* already (docs/usage/deploy-module.md), so that nothing is started from  *)
(* scratch because something went wrong (README.md).  In resolve, what is  *)
(* left to deploy is a contract to be redeployed, and takes what it is     *)
(* built from with it.                                                     *)
(***************************************************************************)
DeployedSkipped ==
  [][Starting /\ changes' = changes =>
       \A b \in Bindings : file.binding[b].address \in {None, file'.binding[b].address}]_vars
===========================================================================
