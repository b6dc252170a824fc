------------------------- MODULE ParallelDeployment -------------------------
(***************************************************************************)
(* TxExecutor with parallelize: _executeBatches and _executeEvents, the    *)
(* hooks of a batch running at once over one state file.                   *)
(*                                                                         *)
(* The program runs one callback at a time.  A store reads the state file, *)
(* awaits the lock of the file and writes all of it, without waiting for   *)
(* the node in between: what comes from the node (a response, a receipt)   *)
(* finds no store half done, but the hooks that are running may all be     *)
(* within a store.  Writes happen in the order of their stores (Mutex).    *)
(***************************************************************************)
EXTENDS Naturals, Sequences, Functions

CONSTANTS
  Contracts, Events,
  Batches,      \* what _executeParallel makes of the module: lists of names
  Args,         \* contract -> the contracts among its constructor arguments
  Deps,         \* event -> the contracts it depends on
  EarlyHooks,   \* the events that run before the deployment of their contracts
  Calls,        \* event -> how many functions its hook calls, of a contract of its own
  MaxStops      \* bound: crashes and failures

ASSUME ParallelAssumption ==
  /\ Args \in [Contracts -> SUBSET Contracts] /\ Deps \in [Events -> SUBSET Contracts]
  /\ Batches \in Seq(Seq(Contracts \cup Events))
  /\ EarlyHooks \subseteq Events /\ Calls \in [Events -> Nat] /\ MaxStops \in Nat

\* What ModuleBuild checks of the batches that the batcher makes of a module
\* whose libraries have no arguments (BatchesAreComplete and
\* BatchesRespectDependencies): each element is in one, after its dependencies.
Before(n) == UNION {Range(Batches[m]) : m \in 1 .. n - 1}

ASSUME BatchesAssumption ==
  /\ \A x \in Contracts \cup Events : \E n \in 1 .. Len(Batches) : x \in Range(Batches[n])
  /\ \A n \in 1 .. Len(Batches) :
       /\ \A c \in Range(Batches[n]) \cap Contracts : Args[c] \subseteq Before(n)
       /\ \A e \in (Range(Batches[n]) \cap Events) \ EarlyHooks : Deps[e] \subseteq Before(n)

VARIABLES
  file,     \* the state file
  mem,      \* moduleState of the run
  status,   \* of execute(): "idle", "running", "error", "stopped" or "done"
  batch,    \* the index of the batch
  stage,    \* where in _executeBatches: "send", "wait", "hooks"
  sent,     \* the contracts of the batch that were sent (promiseTxReceipt)
  hook,     \* where each hook of the batch is
  call,     \* how many calls it has made
  stored,   \* the contracts it depends on that it has stored
  writes,   \* the stores that have read the file and not written it, in order
  stops,
  \* what the properties look back at:
  overlapped,  \* some store of this run began before another had ended
  disturbed    \* hooks during which another one finished or stores overlapped

control == <<status, batch, stage, sent>>
past == <<overlapped, disturbed>>
vars == <<file, mem, control, hook, call, stored, writes, stops, past>>

BlankEvent == [executed |-> FALSE, inputs |-> 0, outputs |-> <<>>]
Blank == [address |-> [c \in Contracts |-> FALSE], event |-> [e \in Events |-> BlankEvent]]

Init ==
  /\ file = Blank /\ mem = Blank
  /\ status = "idle" /\ batch = 1 /\ stage = "send" /\ sent = {}
  /\ hook = [e \in Events |-> "idle"] /\ call = [e \in Events |-> 0]
  /\ stored = [e \in Events |-> {}] /\ writes = <<>>
  /\ stops = 0
  /\ overlapped = FALSE /\ disturbed = {}

-----------------------------------------------------------------------------
\* resolve, as in Deployment: a contract without an address is deployed, and
\* with it what it is built from; their executed events start over.
Closed(S) == \A c \in S : Args[c] \subseteq S
Ancestors(S) == {c \in Contracts : \A T \in SUBSET Contracts : S \subseteq T /\ Closed(T) => c \in T}

Resolved ==
  LET gone == Ancestors({c \in Contracts : ~file.address[c]}) IN
  [address |-> [c \in Contracts |-> c \notin gone],
   event |-> [e \in Events |-> IF file.event[e].executed /\ Deps[e] \cap gone # {} THEN BlankEvent
                                                                                 ELSE file.event[e]]]

\* A new process: execute() stores everything before it begins.
StartRun ==
  /\ status \in {"idle", "error", "stopped"}
  /\ mem' = Resolved /\ file' = mem'
  /\ status' = "running" /\ batch' = 1 /\ stage' = "send" /\ sent' = {}
  /\ hook' = [e \in Events |-> "idle"] /\ call' = [e \in Events |-> 0]
  /\ stored' = [e \in Events |-> {}] /\ writes' = <<>>
  /\ overlapped' = FALSE /\ disturbed' = {}
  /\ UNCHANGED stops

InBatch(names) == Range(Batches[batch]) \cap names
In(s) == status = "running" /\ batch <= Len(Batches) /\ stage = s
Quiet == writes = <<>>
Stop == stops < MaxStops /\ stops' = stops + 1

Error(how) ==
  /\ status' = how
  /\ UNCHANGED <<file, mem, batch, stage, sent, hook, call, stored, writes, past>>

-----------------------------------------------------------------------------
\* _executeSingleBinding for the contracts of the batch, one after the other.
ToSend(i) ==
  /\ In("send") /\ Batches[batch][i] \in Contracts
  /\ ~mem.address[Batches[batch][i]] /\ Batches[batch][i] \notin sent
  /\ \A j \in 1 .. i - 1 : LET c == Batches[batch][j] IN c \in Contracts => mem.address[c] \/ c \in sent

Send(i) ==
  LET c == Batches[batch][i] IN
  /\ ToSend(i)
  /\ \A a \in Args[c] : mem.address[a]
  /\ sent' = sent \cup {c}
  /\ UNCHANGED <<file, mem, status, batch, stage, hook, call, stored, writes, stops, past>>

\* "No contract address in dependency tree"
ArgumentMissing(i) ==
  /\ ToSend(i) /\ \E a \in Args[Batches[batch][i]] : ~mem.address[a]
  /\ Error("missing") /\ UNCHANGED stops

SendFails(i) == ToSend(i) /\ Stop /\ Error("error")

AllSent == \A c \in InBatch(Contracts) : mem.address[c] \/ c \in sent

WaitSent ==
  /\ In("send") /\ AllSent
  /\ stage' = "wait"
  /\ UNCHANGED <<file, mem, status, batch, sent, hook, call, stored, writes, stops, past>>

MinedIfSent ==  \* Mutant of Mined: a batch of hooks waits for a receipt too
  /\ In("wait") /\ sent # {}
  /\ stage' = "hooks"
  /\ hook' = [e \in Events |-> IF e \in InBatch(Events) THEN "start" ELSE hook[e]]
  /\ UNCHANGED <<file, mem, status, batch, sent, call, stored, writes, stops, past>>

\* Promise.all of the receipts; then _executeEvents starts every hook.
Mined ==
  /\ In("wait")
  /\ stage' = "hooks"
  /\ hook' = [e \in Events |-> IF e \in InBatch(Events) THEN "start" ELSE hook[e]]
  /\ UNCHANGED <<file, mem, status, batch, sent, call, stored, writes, stops, past>>

\* A creation that is reverted loses the receipts of the whole batch.
Reverted == In("wait") /\ sent # {} /\ Stop /\ Error("error")

-----------------------------------------------------------------------------
(***************************************************************************)
(* The stores of the hooks.  Each has read the file when it begins; what   *)
(* it writes is settled then, and the hook goes on when it is written.     *)
(***************************************************************************)
At(e, where) == In("hooks") /\ hook[e] = where

Begin(e, state, next) ==
  /\ writes' = Append(writes, [state |-> state, hook |-> e, next |-> next])
  /\ hook' = [hook EXCEPT ![e] = "storing"]
  /\ overlapped' = (overlapped \/ ~Quiet)
  /\ UNCHANGED <<control, stops>>

Disturbs(others) == disturbed' = IF Quiet THEN disturbed \cup others ELSE Events

Write ==
  /\ In("hooks") /\ ~Quiet
  /\ file' = Head(writes).state
  /\ writes' = Tail(writes)
  /\ hook' = [hook EXCEPT ![Head(writes).hook] = Head(writes).next]
  /\ UNCHANGED <<mem, control, call, stored, stops, past>>

\* The handler: an executed hook is skipped, the dependencies are checked.
StartHook(e) ==
  /\ At(e, "start")
  /\ hook' = [hook EXCEPT ![e] =
       IF mem.event[e].executed THEN "finished"
       ELSE IF e \notin EarlyHooks /\ \E c \in Deps[e] : ~mem.address[c] THEN "missing" ELSE "body"]
  /\ disturbed' = IF Quiet THEN disturbed \ {e} ELSE disturbed
  /\ UNCHANGED <<file, mem, control, call, stored, writes, stops, overlapped>>

AddInput(s, e) == [s EXCEPT !.event[e].inputs = @ + 1]
AddOutput(s, e, k) == [s EXCEPT !.event[e].outputs = Append(@, k)]
CallingPast(e) == At(e, "body") /\ call[e] <= Calls[e]  \* Mutant of Calling: one call too many
Calling(e) == At(e, "body") /\ call[e] < Calls[e]
Recorded(e) == Len(file.event[e].outputs) > call[e]

\* A call with a recorded receipt: the wrapper returns that, which the
\* executor stores again.
ReplayCall(e) ==
  /\ Calling(e) /\ Recorded(e)
  /\ call' = [call EXCEPT ![e] = @ + 1]
  /\ Begin(e, AddOutput(file, e, file.event[e].outputs[call[e] + 1]), "body")
  /\ Disturbs({}) /\ UNCHANGED <<file, mem, stored>>

SendCallFromMemory(e) ==  \* Mutant of SendCall: the record is added to the state in memory
  /\ Calling(e) /\ ~Recorded(e) /\ Quiet
  /\ Begin(e, AddInput(mem, e), "sent")
  /\ Disturbs({}) /\ UNCHANGED <<file, mem, call, stored>>

\* The node has answered that the call was sent, and the input is stored.
SendCall(e) ==
  /\ Calling(e) /\ ~Recorded(e) /\ Quiet
  /\ Begin(e, AddInput(file, e), "sent")
  /\ Disturbs({}) /\ UNCHANGED <<file, mem, call, stored>>

Receipt(e) ==
  /\ At(e, "sent") /\ Quiet
  /\ call' = [call EXCEPT ![e] = @ + 1]
  /\ Begin(e, AddOutput(file, e, call[e] + 1), "body")
  /\ Disturbs({}) /\ UNCHANGED <<file, mem, stored>>

\* A hook that throws, or whose call fails: the promise of _executeEvents is
\* not rejected, so that the batch waits for ever.
HookFails(e) ==
  /\ At(e, "body") \/ At(e, "sent")
  /\ Stop
  /\ hook' = [hook EXCEPT ![e] = "failed"]
  /\ UNCHANGED <<file, mem, control, call, stored, writes, past>>

FinishHookInFile(e) ==  \* Mutant of FinishHook: the state in memory is not brought along
  /\ At(e, "body") /\ call[e] = Calls[e]
  /\ Begin(e, [mem EXCEPT !.event[e] = [file.event[e] EXCEPT !.executed = TRUE]], "finished")
  /\ Disturbs(Events \ {e}) /\ UNCHANGED <<file, mem, call, stored>>

\* finishCurrentEvent: takes the record from the file and stores the state in
\* memory, over what other hooks have recorded.
FinishHook(e) ==
  /\ At(e, "body") /\ call[e] = Calls[e]
  /\ mem' = [mem EXCEPT !.event[e] = [file.event[e] EXCEPT !.executed = TRUE]]
  /\ Begin(e, mem', "finished")
  /\ Disturbs(Events \ {e}) /\ UNCHANGED <<file, call, stored>>

\* storeSingleBinding of each dependency, after the hook or instead of it.
StoreDep(e, c) ==
  /\ At(e, "finished") /\ c \in Deps[e] \ stored[e]
  /\ stored' = [stored EXCEPT ![e] = @ \cup {c}]
  /\ Begin(e, [file EXCEPT !.address[c] = mem.address[c]], "finished")
  /\ Disturbs({}) /\ UNCHANGED <<file, mem, call>>

HookOver(e) ==
  /\ At(e, "finished") /\ Deps[e] \subseteq stored[e]
  /\ hook' = [hook EXCEPT ![e] = "over"]
  /\ UNCHANGED <<file, mem, control, call, stored, writes, stops, past>>

-----------------------------------------------------------------------------
BatchOver == In("hooks") /\ \A e \in InBatch(Events) : hook[e] = "over"

\* The next contract of the batch whose receipt has not been looked at.
ToStore(i) ==
  /\ BatchOver /\ Batches[batch][i] \in sent
  /\ \A j \in 1 .. i - 1 : Batches[batch][j] \notin sent
  /\ sent' = sent \ {Batches[batch][i]}
  /\ UNCHANGED <<status, batch, stage, hook, call, stored, writes, stops, past>>

Deployed(s, c) == [s EXCEPT !.address[c] = TRUE]

StoreContractInMemory(i) ==  \* Mutant of StoreContract: storeSingleBinding is forgotten
  ToStore(i) /\ mem' = Deployed(mem, Batches[batch][i]) /\ file' = file

StoreContractInFile(i) ==    \* Mutant of StoreContract: contractAddress is not set
  ToStore(i) /\ mem' = mem /\ file' = Deployed(file, Batches[batch][i])

\* The address of a receipt, once all hooks of the batch are through.
StoreContract(i) ==
  ToStore(i) /\ mem' = Deployed(mem, Batches[batch][i]) /\ file' = Deployed(file, Batches[batch][i])

NextBatch ==
  /\ BatchOver /\ sent = {}
  /\ batch' = batch + 1 /\ stage' = "send"
  /\ status' = IF batch = Len(Batches) THEN "done" ELSE "running"
  /\ UNCHANGED <<file, mem, sent, hook, call, stored, writes, stops, past>>

Crash ==
  /\ status = "running" /\ Stop
  /\ Error("stopped")

HookStep(e) ==
  \/ StartHook(e) \/ ReplayCall(e) \/ SendCall(e) \/ Receipt(e) \/ FinishHook(e)
  \/ (\E c \in Contracts : StoreDep(e, c)) \/ HookOver(e)

Process ==
  \/ \E i \in 1 .. Len(Batches[batch]) : Send(i) \/ ArgumentMissing(i) \/ StoreContract(i)
  \/ WaitSent \/ Mined \/ Write \/ NextBatch
  \/ \E e \in Events : HookStep(e)

Next ==
  \/ StartRun
  \/ status = "running" /\ Process
  \/ status = "running" /\ \E i \in 1 .. Len(Batches[batch]) : SendFails(i)
  \/ Reverted \/ (\E e \in Events : HookFails(e)) \/ Crash

\* The process makes progress: the node answers, promises resolve.
Spec == Init /\ [][Next]_vars /\ WF_vars(status = "running" /\ Process)

-----------------------------------------------------------------------------
EventRecord == [executed : BOOLEAN, inputs : Nat, outputs : Seq(Nat)]
State == [address : [Contracts -> BOOLEAN], event : [Events -> EventRecord]]
Places == {"idle", "start", "body", "sent", "storing", "finished", "over", "failed", "missing"}
Stored == [state : State, hook : Events, next : Places]

TypeOK ==
  /\ file \in State /\ mem \in State
  /\ status \in {"idle", "running", "error", "missing", "stopped", "done"}
  /\ batch \in 1 .. Len(Batches) + 1 /\ stage \in {"send", "wait", "hooks"}
  /\ sent \subseteq Contracts /\ overlapped \in BOOLEAN /\ disturbed \subseteq Events
  /\ hook \in [Events -> Places]
  /\ call \in [Events -> Nat] /\ (\A e \in Events : call[e] <= Calls[e])
  /\ stored \in [Events -> SUBSET Contracts] /\ stops \in 0 .. MaxStops
  /\ writes \in Seq(Stored)

\* The batches are such that no contract and no hook of a batch, whatever
\* failed before, misses the address of a contract that it needs.
DependenciesReady == status # "missing" /\ \A e \in Events : hook[e] # "missing"

\* What has an address before a batch begins keeps it, in the file: stores of
\* concurrent hooks, though they write all of it, take back no contract.
EarlierBatchesStored ==
  status = "running" =>
    \A n \in 1 .. batch - 1 : \A c \in Range(Batches[n]) \cap Contracts : file.address[c]

\* A deployment that ends has recorded every hook as executed, unless stores
\* overlapped: one that had read the file before a hook finished then writes
\* what it has read.
CompleteUnlessOverlapped ==
  status = "done" =>
    /\ \A c \in Contracts : file.address[c]
    /\ ~overlapped => \A e \in Events : file.event[e].executed

\* The calls of a hook are in the file as it goes on, unless another hook has
\* finished, which stores the state in memory over them, or stores overlapped.
RecordedUnlessDisturbed ==
  \A e \in Events :
    hook[e] \in {"body", "sent"} /\ e \notin disturbed =>
      /\ Len(file.event[e].outputs) >= call[e]
      /\ hook[e] = "sent" => file.event[e].inputs > 0

\* A run ends, unless a hook fails, which leaves execute() waiting for ever.
EndsUnlessHookFails ==
  status = "running" ~> (status # "running" \/ \E e \in Events : hook[e] = "failed")
=============================================================================
