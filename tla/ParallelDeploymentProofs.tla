------------------------ MODULE ParallelDeploymentProofs ------------------------
(***************************************************************************)
(* The safety properties of a parallel deployment, for every module whose  *)
(* batches hold each element after its dependencies, any number of calls   *)
(* of its hooks, and any number of crashes and failures.                   *)
(***************************************************************************)
EXTENDS ParallelDeployment, TLAPS

Pending(i) == writes[i].hook

(***************************************************************************)
(* A hook is over, or not begun, or at work in the batch that is executed. *)
(***************************************************************************)
HooksOK ==
  \A e \in Events :
    \/ hook[e] \in {"idle", "over"}
    \/ stage = "hooks" /\ batch <= Len(Batches) /\ e \in InBatch(Events)

(***************************************************************************)
(* Each store that has read the file is of a hook of its own, which waits  *)
(* for it; and stores of one run are several only if they overlapped.      *)
(***************************************************************************)
WritesOK ==
  /\ \A i \in 1 .. Len(writes) :
       /\ hook[Pending(i)] = "storing"
       /\ writes[i].next \in {"body", "sent", "finished"}
  /\ \A i, j \in 1 .. Len(writes) : Pending(i) = Pending(j) => i = j
  /\ Len(writes) >= 2 => overlapped /\ disturbed = Events

(***************************************************************************)
(* The calls of a hook are counted from none, and those sent not yet.      *)
(***************************************************************************)
CallsOK ==
  \A e \in Events :
    /\ call[e] <= Calls[e]
    /\ hook[e] = "sent" => call[e] < Calls[e]
    /\ \A i \in 1 .. Len(writes) : Pending(i) = e /\ writes[i].next = "sent" => call[e] < Calls[e]
    /\ hook[e] = "idle" => call[e] = 0
    /\ hook[e] = "start" => call[e] = 0 \/ mem.event[e].executed

(***************************************************************************)
(* The file, the memory and every store on its way agree on the addresses; *)
(* a batch that is over left none of its contracts without one.            *)
(***************************************************************************)
AddressesOK ==
  /\ file.address = mem.address
  /\ \A i \in 1 .. Len(writes) : writes[i].state.address = mem.address

BatchesOK ==
  /\ \A n \in 1 .. batch - 1 : \A c \in Range(Batches[n]) \cap Contracts : mem.address[c]
  /\ stage # "send" /\ batch <= Len(Batches) => AllSent
  /\ status = "done" => batch = Len(Batches) + 1

(***************************************************************************)
(* A hook that is finished, or of an earlier batch, is executed in memory, *)
(* and the file, or the only store on its way, has all that the memory has *)
(* as executed.                                                            *)
(***************************************************************************)
Through(e) ==
  \/ hook[e] \in {"finished", "over"}
  \/ \E i \in 1 .. Len(writes) : Pending(i) = e /\ writes[i].next = "finished"
  \/ \E n \in 1 .. batch - 1 : e \in Range(Batches[n])

ExecutedOK ==
  /\ \A e \in Events : Through(e) => mem.event[e].executed
  /\ ~overlapped => \A e \in Events : mem.event[e].executed =>
       IF Quiet THEN file.event[e].executed ELSE writes[1].state.event[e].executed

(***************************************************************************)
(* What a hook that is not disturbed has recorded: in the file, and in the *)
(* store on its way.                                                       *)
(***************************************************************************)
Enough(s, e, n, where) ==
  /\ Len(s.event[e].outputs) >= n
  /\ where = "sent" => s.event[e].inputs > 0

RecordsOK ==
  \A e \in Events : e \notin disturbed =>
    /\ hook[e] \in {"body", "sent"} =>
         /\ Enough(file, e, call[e], hook[e])
         /\ ~Quiet => Enough(writes[1].state, e, call[e], hook[e])
    /\ ~Quiet /\ Pending(1) = e /\ writes[1].next \in {"body", "sent"}
         => Enough(writes[1].state, e, call[e], writes[1].next)

(***************************************************************************)
(* The inductive invariant, and that of a module whose batches come after  *)
(* their dependencies.                                                     *)
(***************************************************************************)
StoreInv ==
  TypeOK /\ HooksOK /\ WritesOK /\ CallsOK /\ AddressesOK /\ BatchesOK /\ ExecutedOK /\ RecordsOK

-----------------------------------------------------------------------------
(* The states that are stored.                                             *)

(***************************************************************************)
(* The records that an input, a receipt and the end of a hook leave, and a *)
(* state with the record of one event replaced.                            *)
(***************************************************************************)
LEMMA RecordFacts ==
  ASSUME NEW r \in EventRecord, NEW k \in Nat
  PROVE  /\ [r EXCEPT !.inputs = @ + 1] \in EventRecord
         /\ [r EXCEPT !.inputs = @ + 1].executed = r.executed
         /\ [r EXCEPT !.inputs = @ + 1].outputs = r.outputs
         /\ [r EXCEPT !.inputs = @ + 1].inputs > 0
         /\ [r EXCEPT !.outputs = Append(@, k)] \in EventRecord
         /\ [r EXCEPT !.outputs = Append(@, k)].executed = r.executed
         /\ Len([r EXCEPT !.outputs = Append(@, k)].outputs) = Len(r.outputs) + 1
         /\ [r EXCEPT !.executed = TRUE] \in EventRecord
         /\ [r EXCEPT !.executed = TRUE].executed = TRUE
         /\ [r EXCEPT !.executed = TRUE].outputs = r.outputs
<1>1. r.inputs \in Nat /\ r.inputs + 1 \in Nat /\ r.inputs + 1 > 0
  BY DEF EventRecord
<1>2. /\ r.outputs \in Seq(Nat) /\ Append(r.outputs, k) \in Seq(Nat)
      /\ Len(Append(r.outputs, k)) = Len(r.outputs) + 1
  BY DEF EventRecord
<1>3. /\ [r EXCEPT !.inputs = @ + 1] \in EventRecord
      /\ [r EXCEPT !.inputs = @ + 1].executed = r.executed
      /\ [r EXCEPT !.inputs = @ + 1].outputs = r.outputs
      /\ [r EXCEPT !.inputs = @ + 1].inputs = r.inputs + 1
  BY <1>1 DEF EventRecord
<1>4. /\ [r EXCEPT !.outputs = Append(@, k)] \in EventRecord
      /\ [r EXCEPT !.outputs = Append(@, k)].executed = r.executed
      /\ [r EXCEPT !.outputs = Append(@, k)].outputs = Append(r.outputs, k)
  BY <1>2 DEF EventRecord
<1>5. /\ [r EXCEPT !.executed = TRUE] \in EventRecord
      /\ [r EXCEPT !.executed = TRUE].executed = TRUE
      /\ [r EXCEPT !.executed = TRUE].outputs = r.outputs
  BY DEF EventRecord
<1> QED BY <1>1, <1>2, <1>3, <1>4, <1>5

LEMMA ReplacedFacts ==
  ASSUME NEW s \in State, NEW e \in Events, NEW r \in EventRecord
  PROVE  /\ [s EXCEPT !.event[e] = r] \in State
         /\ [s EXCEPT !.event[e] = r].address = s.address
         /\ [s EXCEPT !.event[e] = r].event[e] = r
         /\ \A d \in Events : d # e => [s EXCEPT !.event[e] = r].event[d] = s.event[d]
BY DEF State

(***************************************************************************)
(* Recording the input of a call changes the record of its hook alone.     *)
(***************************************************************************)
LEMMA InputFacts ==
  ASSUME NEW s \in State, NEW e \in Events
  PROVE  /\ AddInput(s, e) \in State
         /\ AddInput(s, e).address = s.address
         /\ \A d \in Events : d # e => AddInput(s, e).event[d] = s.event[d]
         /\ AddInput(s, e).event[e].executed = s.event[e].executed
         /\ AddInput(s, e).event[e].outputs = s.event[e].outputs
         /\ AddInput(s, e).event[e].inputs > 0
<1> DEFINE record == [s.event[e] EXCEPT !.inputs = @ + 1]
<1>1. s.event[e] \in EventRecord
  BY DEF State
<1>2. /\ record \in EventRecord /\ record.executed = s.event[e].executed
      /\ record.outputs = s.event[e].outputs /\ record.inputs > 0
  BY <1>1, RecordFacts
<1>3. AddInput(s, e) = [s EXCEPT !.event[e] = record]
  BY DEF AddInput
<1> HIDE DEF record
<1> QED BY <1>2, <1>3, ReplacedFacts

(***************************************************************************)
(* So does recording its receipt, which is appended.                       *)
(***************************************************************************)
LEMMA OutputFacts ==
  ASSUME NEW s \in State, NEW e \in Events, NEW k \in Nat
  PROVE  /\ AddOutput(s, e, k) \in State
         /\ AddOutput(s, e, k).address = s.address
         /\ \A d \in Events : d # e => AddOutput(s, e, k).event[d] = s.event[d]
         /\ AddOutput(s, e, k).event[e].executed = s.event[e].executed
         /\ Len(AddOutput(s, e, k).event[e].outputs) = Len(s.event[e].outputs) + 1
<1> DEFINE record == [s.event[e] EXCEPT !.outputs = Append(@, k)]
<1>1. s.event[e] \in EventRecord
  BY DEF State
<1>2. /\ record \in EventRecord /\ record.executed = s.event[e].executed
      /\ Len(record.outputs) = Len(s.event[e].outputs) + 1
  BY <1>1, RecordFacts
<1>3. AddOutput(s, e, k) = [s EXCEPT !.event[e] = record]
  BY DEF AddOutput
<1> HIDE DEF record
<1> QED BY <1>2, <1>3, ReplacedFacts

(***************************************************************************)
(* A state with other addresses has the same records.                      *)
(***************************************************************************)
LEMMA AddressFacts ==
  ASSUME NEW s \in State, NEW a \in [Contracts -> BOOLEAN]
  PROVE  /\ [s EXCEPT !.address = a] \in State
         /\ [s EXCEPT !.address = a].address = a
         /\ [s EXCEPT !.address = a].event = s.event
BY DEF State

(***************************************************************************)
(* A resolved state is one, in which what has an address had it before,    *)
(* and a hook that was executed and is not has no record.                  *)
(***************************************************************************)
LEMMA ResolvedFacts == file \in State => Resolved \in State
BY DEF State, EventRecord, Resolved, BlankEvent

-----------------------------------------------------------------------------
(* The beginning of a store.                                               *)

(***************************************************************************)
(* What the five actions that begin a store have in common: the state that *)
(* will be written takes no address and, unless it disturbs them, no       *)
(* record of others away.                                                  *)
(***************************************************************************)
Stores(e, s, next) ==
  /\ Begin(e, s, next)
  /\ hook[e] \in {"body", "sent", "finished"}
  /\ next \in {"body", "sent", "finished"}
  /\ s \in State /\ mem' \in State /\ file' = file
  /\ s.address = mem.address /\ mem'.address = mem.address
  /\ \A d \in Events : mem.event[d].executed => mem'.event[d].executed
  /\ next = "finished" => mem'.event[e].executed
  /\ Quiet /\ ~overlapped => \A d \in Events : mem'.event[d].executed => s.event[d].executed
  /\ disturbed' \subseteq Events /\ disturbed \subseteq disturbed' /\ (~Quiet => disturbed' = Events)
  /\ \A d \in Events : d # e /\ d \notin disturbed' => s.event[d] = file.event[d]
  /\ call' \in [Events -> Nat] /\ call'[e] <= Calls[e] /\ (next = "sent" => call'[e] < Calls[e])
  /\ \A d \in Events : d # e => call'[d] = call[d]
  /\ stored' \in [Events -> SUBSET Contracts]
  /\ e \notin disturbed' /\ next \in {"body", "sent"} =>
       /\ Len(s.event[e].outputs) >= call'[e]
       /\ next = "sent" => s.event[e].inputs > 0

(***************************************************************************)
(* A replayed call, a call that is sent, a receipt, the end of a hook and  *)
(* the address of a dependency are stored like that.                       *)
(***************************************************************************)
LEMMA Storing ==
  ASSUME StoreInv, NEW e \in Events,
         ReplayCall(e) \/ SendCall(e) \/ Receipt(e) \/ FinishHook(e)
         \/ \E c \in Contracts : StoreDep(e, c)
  PROVE  \E s \in State, next \in {"body", "sent", "finished"} : Stores(e, s, next)
<1>t. TypeOK /\ CallsOK /\ AddressesOK /\ ExecutedOK /\ RecordsOK
  BY DEF StoreInv
<1>c. /\ call \in [Events -> Nat] /\ call[e] \in Nat /\ Calls[e] \in Nat /\ call[e] <= Calls[e]
      /\ file \in State /\ mem \in State /\ disturbed \subseteq Events
      /\ file.address = mem.address /\ stored \in [Events -> SUBSET Contracts]
  BY <1>t, ParallelAssumption DEF TypeOK, AddressesOK
<1>x. Quiet /\ ~overlapped => \A d \in Events : mem.event[d].executed => file.event[d].executed
  BY <1>t DEF ExecutedOK
<1>r. e \notin disturbed /\ hook[e] \in {"body", "sent"} => Len(file.event[e].outputs) >= call[e]
  BY <1>t DEF RecordsOK, Enough
<1>d. Disturbs({}) => /\ disturbed' \subseteq Events /\ disturbed \subseteq disturbed'
                      /\ ~Quiet => disturbed' = Events
  BY <1>c DEF Disturbs
<1>1. CASE ReplayCall(e)
  <2> DEFINE s == AddOutput(file, e, file.event[e].outputs[call[e] + 1])
  <2>1. /\ Begin(e, s, "body") /\ hook[e] = "body" /\ call[e] < Calls[e]
        /\ call' = [call EXCEPT ![e] = @ + 1] /\ Disturbs({}) /\ file' = file /\ mem' = mem /\ stored' = stored
    BY <1>1 DEF ReplayCall, Calling, At
  <2>2. file.event[e].outputs[call[e] + 1] \in Nat /\ Len(file.event[e].outputs) \in Nat
        /\ Len(file.event[e].outputs) > call[e]
    BY <1>1, <1>c DEF ReplayCall, Recorded, State, EventRecord
  <2>3. /\ s \in State /\ s.address = file.address
        /\ \A d \in Events : d # e => s.event[d] = file.event[d]
        /\ s.event[e].executed = file.event[e].executed
        /\ Len(s.event[e].outputs) = Len(file.event[e].outputs) + 1
    BY <1>c, <2>2, OutputFacts
  <2>4. Len(s.event[e].outputs) >= call[e] + 1
    <3> HIDE DEF s
    <3>1. \A m, n, k \in Nat : m = n + 1 /\ n > k => m >= k + 1
      OBVIOUS
    <3>2. Len(s.event[e].outputs) \in Nat
      BY <2>2, <2>3
    <3> QED BY <1>c, <2>2, <2>3, <3>1, <3>2
  <2>5. call' \in [Events -> Nat] /\ call'[e] = call[e] + 1 /\ call'[e] <= Calls[e]
        /\ \A d \in Events : d # e => call'[d] = call[d]
    BY <1>c, <2>1
  <2> HIDE DEF s
  <2>6. Stores(e, s, "body")
    BY <1>c, <1>x, <1>d, <2>1, <2>3, <2>4, <2>5 DEF Stores
  <2> QED BY <2>3, <2>6
<1>2. CASE SendCall(e)
  <2> DEFINE s == AddInput(file, e)
  <2>1. /\ Begin(e, s, "sent") /\ hook[e] = "body" /\ call[e] < Calls[e]
        /\ call' = call /\ Disturbs({}) /\ file' = file /\ mem' = mem /\ stored' = stored
    BY <1>2 DEF SendCall, Calling, At
  <2>2. /\ s \in State /\ s.address = file.address
        /\ \A d \in Events : d # e => s.event[d] = file.event[d]
        /\ s.event[e].executed = file.event[e].executed
        /\ s.event[e].outputs = file.event[e].outputs
        /\ s.event[e].inputs > 0
    BY <1>c, InputFacts
  <2> HIDE DEF s
  <2>3. e \notin disturbed' => Len(s.event[e].outputs) >= call[e]
    BY <1>d, <1>r, <2>1, <2>2
  <2>4. Stores(e, s, "sent")
    BY <1>c, <1>x, <1>d, <2>1, <2>2, <2>3 DEF Stores
  <2> QED BY <2>2, <2>4
<1>3. CASE Receipt(e)
  <2> DEFINE s == AddOutput(file, e, call[e] + 1)
  <2>0. call[e] + 1 \in Nat
    BY <1>c
  <2>1. /\ Begin(e, s, "body") /\ hook[e] = "sent" /\ call[e] < Calls[e]
        /\ call' = [call EXCEPT ![e] = @ + 1] /\ Disturbs({}) /\ file' = file /\ mem' = mem /\ stored' = stored
    BY <1>3, <1>t DEF Receipt, At, CallsOK
  <2>2. /\ s \in State /\ s.address = file.address
        /\ \A d \in Events : d # e => s.event[d] = file.event[d]
        /\ s.event[e].executed = file.event[e].executed
        /\ Len(s.event[e].outputs) = Len(file.event[e].outputs) + 1
    BY <1>c, <2>0, OutputFacts
  <2>3. call' \in [Events -> Nat] /\ call'[e] = call[e] + 1 /\ call'[e] <= Calls[e]
        /\ \A d \in Events : d # e => call'[d] = call[d]
    BY <1>c, <2>1
  <2> HIDE DEF s
  <2>4. Len(file.event[e].outputs) \in Nat
    BY <1>c DEF State, EventRecord
  <2>5. e \notin disturbed' => Len(s.event[e].outputs) >= call'[e]
    BY <1>c, <1>d, <1>r, <2>1, <2>2, <2>3, <2>4
  <2>6. Stores(e, s, "body")
    BY <1>c, <1>x, <1>d, <2>1, <2>2, <2>3, <2>5 DEF Stores
  <2> QED BY <2>2, <2>6
<1>4. CASE FinishHook(e)
  <2> DEFINE record == [file.event[e] EXCEPT !.executed = TRUE]
  <2>1. /\ Begin(e, mem', "finished") /\ hook[e] = "body" /\ Disturbs(Events \ {e})
        /\ mem' = [mem EXCEPT !.event[e] = record]
        /\ file' = file /\ call' = call /\ stored' = stored
    BY <1>4 DEF FinishHook, At
  <2>2. /\ mem' \in State /\ mem'.address = mem.address
        /\ \A d \in Events : d # e => mem'.event[d] = mem.event[d]
        /\ mem'.event[e].executed = TRUE
    <3>1. file.event[e] \in EventRecord
      BY <1>c DEF State
    <3>2. record \in EventRecord /\ record.executed = TRUE
      BY <3>1, RecordFacts
    <3> HIDE DEF record
    <3> QED BY <1>c, <2>1, <3>2, ReplacedFacts
  <2>3. /\ disturbed' \subseteq Events /\ disturbed \subseteq disturbed'
        /\ ~Quiet => disturbed' = Events
        /\ \A d \in Events : d # e => d \in disturbed'
    BY <1>c, <2>1 DEF Disturbs
  <2>4. Stores(e, mem', "finished")
    BY <1>c, <2>1, <2>2, <2>3 DEF Stores
  <2> QED BY <2>2, <2>4
<1>5. ASSUME NEW c \in Contracts, StoreDep(e, c)
      PROVE  \E s \in State, next \in {"body", "sent", "finished"} : Stores(e, s, next)
  <2> DEFINE s == [file EXCEPT !.address[c] = mem.address[c]]
  <2>1. /\ Begin(e, s, "finished") /\ hook[e] = "finished" /\ Disturbs({})
        /\ file' = file /\ mem' = mem /\ call' = call
    BY <1>5 DEF StoreDep, At
  <2>2. s \in State /\ s.address = mem.address /\ s.event = file.event
    <3>1. s = [file EXCEPT !.address = [file.address EXCEPT ![c] = mem.address[c]]]
      OBVIOUS
    <3>2. mem.address \in [Contracts -> BOOLEAN]
      BY <1>c DEF State
    <3>3. [file.address EXCEPT ![c] = mem.address[c]] = mem.address
      BY <1>c, <3>2
    <3> QED BY <1>c, <3>1, <3>2, <3>3, AddressFacts
  <2> HIDE DEF s
  <2>3. mem.event[e].executed
    BY <1>t, <2>1 DEF ExecutedOK, Through
  <2>4. stored' \in [Events -> SUBSET Contracts]
    BY <1>c, <1>5 DEF StoreDep
  <2>5. Stores(e, s, "finished")
    BY <1>c, <1>x, <1>d, <2>1, <2>2, <2>3, <2>4 DEF Stores
  <2> QED BY <2>2, <2>5
<1> QED BY <1>1, <1>2, <1>3, <1>4, <1>5

-----------------------------------------------------------------------------
(* The steps.                                                              *)

(***************************************************************************)
(* What sends, waits, errors and crashes have in common: they leave the    *)
(* states, the hooks and the stores alone.                                 *)
(***************************************************************************)
Passing ==
  /\ UNCHANGED <<file, mem, batch, hook, call, stored, writes, past>>
  /\ sent \subseteq sent' /\ sent' \subseteq Contracts
  /\ stage' = stage \/ (stage = "send" /\ AllSent /\ stage' = "wait")
  /\ status' = status \/ status' \in {"error", "missing", "stopped"}
  /\ stops' \in 0 .. MaxStops

StoreNext == \E i \in 1 .. Len(Batches[batch]) : StoreContract(i)

(***************************************************************************)
(* The names in a batch.                                                   *)
(***************************************************************************)
LEMMA BatchFacts ==
  /\ \A n \in 1 .. Len(Batches) : Batches[n] \in Seq(Contracts \cup Events)
  /\ \A n \in 1 .. Len(Batches) : Range(Batches[n]) = {Batches[n][i] : i \in 1 .. Len(Batches[n])}
<1>1. \A n \in 1 .. Len(Batches) : Batches[n] \in Seq(Contracts \cup Events)
  BY ParallelAssumption
<1>2. \A n \in 1 .. Len(Batches) : DOMAIN Batches[n] = 1 .. Len(Batches[n])
  BY <1>1
<1> QED BY <1>1, <1>2 DEF Range

(***************************************************************************)
(* Every step is one of ten.                                               *)
(***************************************************************************)
LEMMA StepCases ==
  ASSUME StoreInv, [Next]_vars
  PROVE  \/ StartRun \/ Passing \/ Mined \/ Write \/ StoreNext \/ NextBatch
         \/ \E e \in Events : HookFails(e) \/ StartHook(e) \/ HookOver(e)
         \/ \E e \in Events, s \in State, next \in {"body", "sent", "finished"} :
              Stores(e, s, next)
<1>t. TypeOK
  BY DEF StoreInv
<1>s. stops \in 0 .. MaxStops /\ (Stop => stops' \in 0 .. MaxStops) /\ sent \subseteq Contracts
  BY <1>t, ParallelAssumption DEF TypeOK, Stop
<1>1. ASSUME Process PROVE \/ Passing \/ Mined \/ Write \/ StoreNext \/ NextBatch
                           \/ \E e \in Events : StartHook(e) \/ HookOver(e)
                           \/ \E e \in Events, s \in State, next \in {"body", "sent", "finished"} :
                                Stores(e, s, next)
  <2>1. ASSUME NEW i \in 1 .. Len(Batches[batch]), Send(i) \/ ArgumentMissing(i) PROVE Passing
    BY <1>s, <2>1 DEF Passing, Send, ArgumentMissing, ToSend, Error, past
  <2>2. CASE WaitSent
    BY <1>s, <2>2 DEF Passing, WaitSent, In, past
  <2>3. ASSUME NEW e \in Events, HookStep(e)
        PROVE  \/ StartHook(e) \/ HookOver(e)
               \/ \E s \in State, next \in {"body", "sent", "finished"} : Stores(e, s, next)
    BY <2>3, Storing DEF HookStep
  <2>4. ASSUME NEW i \in 1 .. Len(Batches[batch]), StoreContract(i) PROVE StoreNext
    BY <2>4 DEF StoreNext
  <2> QED BY <1>1, <2>1, <2>2, <2>3, <2>4 DEF Process
<1>2. ASSUME NEW i \in 1 .. Len(Batches[batch]), SendFails(i) PROVE Passing
  BY <1>2, <1>s DEF Passing, SendFails, Error, past
<1>3. CASE Reverted
  BY <1>3, <1>s DEF Passing, Reverted, Error, past
<1>4. CASE Crash
  BY <1>4, <1>s DEF Passing, Crash, Error, past
<1>5. CASE UNCHANGED vars
  BY <1>5, <1>s DEF Passing, vars, control
<1> QED BY <1>1, <1>2, <1>3, <1>4, <1>5 DEF Next

(***************************************************************************)
(* One contract of those sent is deployed, in memory and in the file.      *)
(***************************************************************************)
LEMMA DeployedFacts ==
  ASSUME NEW s \in State, NEW c \in Contracts
  PROVE  /\ Deployed(s, c) \in State
         /\ Deployed(s, c).event = s.event
         /\ Deployed(s, c).address = [s.address EXCEPT ![c] = TRUE]
<1> DEFINE a == [s.address EXCEPT ![c] = TRUE]
<1>1. s.address \in [Contracts -> BOOLEAN]
  BY DEF State
<1>2. Deployed(s, c) = [s EXCEPT !.address = a]
  BY DEF Deployed
<1>3. a \in [Contracts -> BOOLEAN]
  BY <1>1
<1> HIDE DEF a
<1>4. Deployed(s, c) \in State /\ Deployed(s, c).event = s.event /\ Deployed(s, c).address = a
  BY <1>2, <1>3, AddressFacts
<1> QED BY <1>4 DEF a

LEMMA StoreFacts ==
  ASSUME TypeOK, StoreNext
  PROVE  \E c \in sent :
           /\ BatchOver /\ sent' = sent \ {c} /\ c \in Contracts
           /\ mem' \in State /\ mem'.event = mem.event
           /\ file' \in State /\ file'.event = file.event
           /\ mem'.address = [mem.address EXCEPT ![c] = TRUE]
           /\ file'.address = [file.address EXCEPT ![c] = TRUE]
           /\ UNCHANGED <<status, batch, stage, hook, call, stored, writes, stops, past>>
<1>1. PICK i \in 1 .. Len(Batches[batch]) : StoreContract(i)
  BY DEF StoreNext
<1> DEFINE c == Batches[batch][i]
<1>2. /\ BatchOver /\ c \in sent /\ sent' = sent \ {c}
      /\ mem' = Deployed(mem, c) /\ file' = Deployed(file, c)
      /\ UNCHANGED <<status, batch, stage, hook, call, stored, writes, stops, past>>
  BY <1>1 DEF StoreContract, ToStore
<1> HIDE DEF c
<1>3. c \in Contracts /\ mem \in State /\ file \in State
  BY <1>2 DEF TypeOK
<1> QED BY <1>2, <1>3, DeployedFacts

(***************************************************************************)
(* The first of the stores on their way, those behind it, and one more.    *)
(***************************************************************************)
LEMMA WriteFacts ==
  ASSUME TypeOK
  PROVE  /\ Len(writes) \in Nat /\ (Quiet <=> Len(writes) = 0)
         /\ \A i \in 1 .. Len(writes) :
              /\ writes[i].state \in State /\ Pending(i) \in Events /\ writes[i].next \in Places
         /\ ~Quiet => /\ 1 \in 1 .. Len(writes) /\ Head(writes) = writes[1]
                      /\ Tail(writes) \in Seq(Stored)
                      /\ Len(Tail(writes)) = Len(writes) - 1
                      /\ \A i \in 1 .. Len(Tail(writes)) :
                           i + 1 \in 1 .. Len(writes) /\ Tail(writes)[i] = writes[i + 1]
<1>1. writes \in Seq(Stored)
  BY DEF TypeOK
<1>2. \A w \in Stored : w.state \in State /\ w.hook \in Events /\ w.next \in Places
  BY DEF Stored
<1>3. Len(writes) \in Nat /\ (Quiet <=> Len(writes) = 0)
      /\ \A i \in 1 .. Len(writes) : writes[i] \in Stored
  BY <1>1 DEF Quiet
<1>4. ~Quiet => /\ 1 \in 1 .. Len(writes) /\ Head(writes) = writes[1]
                /\ Tail(writes) \in Seq(Stored) /\ Len(Tail(writes)) = Len(writes) - 1
                /\ \A i \in 1 .. Len(Tail(writes)) :
                     i + 1 \in 1 .. Len(writes) /\ Tail(writes)[i] = writes[i + 1]
  BY <1>1 DEF Quiet
<1> QED BY <1>2, <1>3, <1>4 DEF Pending

LEMMA StoresFacts ==
  ASSUME TypeOK, NEW e \in Events, NEW s \in State,
         NEW next \in {"body", "sent", "finished"}, Stores(e, s, next)
  PROVE  /\ writes' \in Seq(Stored)
         /\ Len(writes') = Len(writes) + 1 /\ Len(writes) \in Nat
         /\ \A i \in 1 .. Len(writes) : writes'[i] = writes[i]
         /\ writes'[Len(writes) + 1].state = s
         /\ writes'[Len(writes) + 1].hook = e
         /\ writes'[Len(writes) + 1].next = next
         /\ \A i \in 1 .. Len(writes') : i \in 1 .. Len(writes) \/ i = Len(writes) + 1
         /\ hook' = [hook EXCEPT ![e] = "storing"] /\ hook[e] \in {"body", "sent", "finished"}
<1> DEFINE w == [state |-> s, hook |-> e, next |-> next]
<1>1. writes \in Seq(Stored) /\ next \in Places
  BY DEF TypeOK, Places
<1>2. w \in Stored
  BY <1>1 DEF Stored
<1>3. writes' = Append(writes, w) /\ w.state = s /\ w.hook = e /\ w.next = next
  BY DEF Stores, Begin
<1> HIDE DEF w
<1>4. /\ writes' \in Seq(Stored)
      /\ Len(writes') = Len(writes) + 1 /\ Len(writes) \in Nat
      /\ \A i \in 1 .. Len(writes) : writes'[i] = writes[i]
      /\ writes'[Len(writes) + 1] = w
  BY <1>1, <1>2, <1>3
<1>5. hook' = [hook EXCEPT ![e] = "storing"] /\ hook[e] \in {"body", "sent", "finished"}
  BY DEF Stores, Begin
<1>6. \A i \in 1 .. Len(writes') : i \in 1 .. Len(writes) \/ i = Len(writes) + 1
  BY <1>4
<1> QED BY <1>3, <1>4, <1>5, <1>6

LEMMA StoreInit == Init => StoreInv
<1> SUFFICES ASSUME Init PROVE StoreInv
  OBVIOUS
<1>1. Blank \in State
  BY DEF Blank, BlankEvent, State, EventRecord
<1>2. TypeOK
  <2>1. 1 \in 1 .. Len(Batches) + 1 /\ 0 \in 0 .. MaxStops /\ \A e \in Events : 0 <= Calls[e]
    BY ParallelAssumption
  <2>2. <<>> \in Seq(Stored)
    OBVIOUS
  <2> QED BY <1>1, <2>1, <2>2 DEF Init, TypeOK, Places
<1>3. HooksOK /\ WritesOK /\ AddressesOK /\ RecordsOK
  BY DEF Init, HooksOK, WritesOK, AddressesOK, RecordsOK, Quiet
<1>4. CallsOK
  BY ParallelAssumption DEF Init, CallsOK
<1>5. BatchesOK
  BY DEF Init, BatchesOK
<1>6. ExecutedOK
  BY DEF Init, ExecutedOK, Through, Quiet, Blank, BlankEvent
<1> QED BY <1>2, <1>3, <1>4, <1>5, <1>6 DEF StoreInv

(***************************************************************************)
(* Every step keeps the types.                                             *)
(***************************************************************************)
LEMMA TypeStep == StoreInv /\ [Next]_vars => TypeOK'
<1> SUFFICES ASSUME StoreInv, [Next]_vars PROVE TypeOK'
  OBVIOUS
<1>t. TypeOK /\ CallsOK
  BY DEF StoreInv
<1> USE DEF TypeOK, past
<1>1. CASE StartRun
  <2>1. 1 \in 1 .. Len(Batches) + 1 /\ \A e \in Events : 0 <= Calls[e]
    BY ParallelAssumption
  <2>2. <<>> \in Seq(Stored)
    OBVIOUS
  <2> QED BY <1>1, <1>t, <2>1, <2>2, ResolvedFacts DEF StartRun, Places
<1>2. CASE Passing
  BY <1>2, <1>t DEF Passing
<1>3. CASE Mined
  BY <1>3, <1>t DEF Mined, In, Places
<1>4. CASE Write
  <2>1. Head(writes).state \in State /\ Head(writes).hook \in Events /\ Head(writes).next \in Places
        /\ Tail(writes) \in Seq(Stored)
    BY <1>4, <1>t, WriteFacts DEF Write, Pending
  <2> QED BY <1>4, <1>t, <2>1 DEF Write, control
<1>5. CASE StoreNext
  BY <1>5, <1>t, StoreFacts
<1>9. CASE NextBatch
  <2>1. batch' \in 1 .. Len(Batches) + 1
    BY <1>9, <1>t, ParallelAssumption DEF BatchOver, In, NextBatch
  <2> QED BY <1>9, <1>t, <2>1 DEF NextBatch
<1>10. ASSUME NEW e \in Events, HookOver(e) PROVE TypeOK'
  BY <1>10, <1>t DEF HookOver, control, Places
<1>6. ASSUME NEW e \in Events, HookFails(e) PROVE TypeOK'
  BY <1>6, <1>t, ParallelAssumption DEF HookFails, Stop, control, Places
<1>7. ASSUME NEW e \in Events, StartHook(e) PROVE TypeOK'
  BY <1>7, <1>t DEF StartHook, control, Places
<1>8. ASSUME NEW e \in Events, NEW s \in State, NEW next \in {"body", "sent", "finished"},
             Stores(e, s, next)
      PROVE  TypeOK'
  <2>1. /\ file' \in State /\ mem' \in State /\ writes' \in Seq(Stored)
        /\ call' \in [Events -> Nat]
    BY <1>8, <1>t, StoresFacts DEF Stores
  <2>2. \A d \in Events : call'[d] <= Calls[d]
    BY <1>8, <1>t DEF Stores
  <2> QED BY <1>8, <1>t, <2>1, <2>2 DEF Stores, Begin, control, Places
<1> QED BY StepCases, <1>1, <1>2, <1>3, <1>4, <1>5, <1>6, <1>7, <1>8, <1>9, <1>10

(***************************************************************************)
(* A hook works in the batch that is executed, and is over with it.        *)
(***************************************************************************)
LEMMA HooksStep == StoreInv /\ [Next]_vars => HooksOK'
<1> SUFFICES ASSUME StoreInv, [Next]_vars PROVE HooksOK'
  OBVIOUS
<1>t. TypeOK /\ HooksOK
  BY DEF StoreInv
<1> USE DEF HooksOK, InBatch
<1>1. CASE StartRun
  BY <1>1 DEF StartRun
<1>2. CASE Passing
  BY <1>2, <1>t DEF Passing
<1>3. CASE Mined
  BY <1>3, <1>t DEF Mined, In
<1>4. CASE Write
  <2>1. Head(writes).hook \in Events /\ hook[Head(writes).hook] = "storing"
    BY <1>4, <1>t, WriteFacts DEF Write, Pending, StoreInv, WritesOK
  <2> QED BY <1>4, <1>t, <2>1 DEF Write, In, control, TypeOK
<1>5. CASE StoreNext
  BY <1>5, <1>t, StoreFacts
<1>8. CASE NextBatch
  BY <1>8, <1>t DEF BatchOver, NextBatch
<1>6. ASSUME NEW e \in Events, HookFails(e) \/ StartHook(e) \/ HookOver(e) PROVE HooksOK'
  BY <1>6, <1>t DEF HookFails, StartHook, HookOver, At, In, control, TypeOK
<1>7. ASSUME NEW e \in Events, NEW s \in State, NEW next \in {"body", "sent", "finished"},
             Stores(e, s, next)
      PROVE  HooksOK'
  <2>1. hook' = [hook EXCEPT ![e] = "storing"] /\ hook[e] \in {"body", "sent", "finished"}
        /\ batch' = batch /\ stage' = stage
    BY <1>7 DEF Stores, Begin, control
  <2> QED BY <1>t, <2>1 DEF TypeOK
<1> QED BY StepCases, <1>1, <1>2, <1>3, <1>4, <1>5, <1>6, <1>7, <1>8

(***************************************************************************)
(* A hook begins a store only while it awaits none, so that the stores on  *)
(* their way are of different hooks.                                       *)
(***************************************************************************)
LEMMA WritesStep == StoreInv /\ [Next]_vars => WritesOK'
<1> SUFFICES ASSUME StoreInv, [Next]_vars PROVE WritesOK'
  OBVIOUS
<1>t. TypeOK /\ WritesOK
  BY DEF StoreInv
<1> USE DEF WritesOK, Pending
<1>1. CASE StartRun
  BY <1>1 DEF StartRun
<1>2. CASE Passing
  BY <1>2, <1>t DEF Passing, past
<1>3. CASE Mined
  <2>1. \A e \in Events : hook[e] = "storing" => hook'[e] = "storing"
    BY <1>3, <1>t DEF Mined, In, StoreInv, HooksOK
  <2>2. \A i \in 1 .. Len(writes) : writes[i].hook \in Events
    BY <1>t, WriteFacts
  <2> QED BY <1>3, <1>t, <2>1, <2>2 DEF Mined, past
<1>4. CASE Write
  <2>1. /\ ~Quiet /\ writes' = Tail(writes) /\ overlapped' = overlapped /\ disturbed' = disturbed
        /\ hook' = [hook EXCEPT ![Head(writes).hook] = Head(writes).next]
    BY <1>4 DEF Write, past
  <2>2. /\ Len(writes) \in Nat /\ Len(writes') = Len(writes) - 1 /\ 1 \in 1 .. Len(writes)
        /\ Head(writes) = writes[1]
        /\ \A i \in 1 .. Len(writes') : i \in Nat /\ i + 1 \in 1 .. Len(writes) /\ writes'[i] = writes[i + 1]
    BY <1>t, <2>1, WriteFacts
  <2>3. ASSUME NEW i \in 1 .. Len(writes')
        PROVE  hook'[writes'[i].hook] = "storing" /\ writes'[i].next \in {"body", "sent", "finished"}
    <3>1. writes[i + 1].hook # writes[1].hook /\ i + 1 \in 1 .. Len(writes) /\ writes'[i] = writes[i + 1]
      BY <1>t, <2>2
    <3>2. hook'[writes'[i].hook] = hook[writes[i + 1].hook]
      BY <1>t, <2>1, <2>2, <3>1 DEF TypeOK
    <3> QED BY <1>t, <3>1, <3>2
  <2>4. \A i, j \in 1 .. Len(writes') : writes'[i].hook = writes'[j].hook => i = j
    BY <1>t, <2>2
  <2>5. Len(writes') >= 2 => overlapped' /\ disturbed' = Events
    BY <1>t, <2>1, <2>2
  <2> QED BY <2>3, <2>4, <2>5
<1>5. CASE StoreNext
  BY <1>5, <1>t, StoreFacts DEF past
<1>8. CASE NextBatch
  BY <1>8, <1>t DEF NextBatch, past
<1>6. ASSUME NEW e \in Events, HookFails(e) \/ StartHook(e) \/ HookOver(e) PROVE WritesOK'
  <2>1. hook[e] # "storing" /\ writes' = writes /\ overlapped' = overlapped
        /\ \A d \in Events : d # e => hook'[d] = hook[d]
    BY <1>6, <1>t DEF HookFails, StartHook, HookOver, At, past, TypeOK
  <2>2. \A i \in 1 .. Len(writes) : writes[i].hook \in Events
    BY <1>t, WriteFacts
  <2>3. Len(writes) >= 2 => disturbed' = disturbed
    <3>1. Len(writes) >= 2 => ~Quiet
      BY <1>t, WriteFacts
    <3>2. ~Quiet => disturbed' = disturbed
      BY <1>6 DEF HookFails, StartHook, HookOver, past
    <3> QED BY <3>1, <3>2
  <2> QED BY <1>t, <2>1, <2>2, <2>3
<1>7. ASSUME NEW e \in Events, NEW s \in State, NEW next \in {"body", "sent", "finished"},
             Stores(e, s, next)
      PROVE  WritesOK'
  <2> DEFINE n == Len(writes) + 1
  <2>1. /\ Len(writes') = n /\ Len(writes) \in Nat
        /\ \A i \in 1 .. Len(writes) : writes'[i] = writes[i]
        /\ writes'[n].hook = e /\ writes'[n].next = next
        /\ \A i \in 1 .. Len(writes') : i \in 1 .. Len(writes) \/ i = n
        /\ hook' = [hook EXCEPT ![e] = "storing"] /\ hook[e] # "storing"
    BY <1>7, <1>t, StoresFacts
  <2>2. \A i \in 1 .. Len(writes) : writes[i].hook \in Events /\ writes[i].hook # e
    BY <1>t, <2>1, WriteFacts
  <2>3. /\ hook'[e] = "storing"
        /\ \A d \in Events : d # e => hook'[d] = hook[d]
    BY <1>t, <2>1 DEF TypeOK
  <2>4. Len(writes') >= 2 => overlapped' /\ disturbed' = Events
    <3>1. Len(writes') >= 2 => ~Quiet
      BY <1>t, <2>1, WriteFacts
    <3>2. ~Quiet => overlapped'
      BY <1>7 DEF Stores, Begin
    <3>3. ~Quiet => disturbed' = Events
      BY <1>7 DEF Stores
    <3> QED BY <3>1, <3>2, <3>3
  <2> HIDE DEF n
  <2>5. \A i \in 1 .. Len(writes') :
          hook'[writes'[i].hook] = "storing" /\ writes'[i].next \in {"body", "sent", "finished"}
    BY <1>t, <2>1, <2>2, <2>3
  <2>6. \A i, j \in 1 .. Len(writes') : writes'[i].hook = writes'[j].hook => i = j
    BY <1>t, <2>1, <2>2
  <2> QED BY <2>4, <2>5, <2>6
<1> QED BY StepCases, <1>1, <1>2, <1>3, <1>4, <1>5, <1>6, <1>7, <1>8

(***************************************************************************)
(* Neither a call nor its receipt is counted twice.                        *)
(***************************************************************************)
LEMMA CallsStep == StoreInv /\ [Next]_vars => CallsOK'
<1> SUFFICES ASSUME StoreInv, [Next]_vars PROVE CallsOK'
  OBVIOUS
<1>t. TypeOK /\ HooksOK /\ WritesOK /\ CallsOK /\ ExecutedOK
  BY DEF StoreInv
<1> USE DEF CallsOK, Pending
<1>1. CASE StartRun
  BY <1>1, ParallelAssumption DEF StartRun
<1>2. CASE Passing
  BY <1>2, <1>t DEF Passing
<1>3. CASE Mined
  <2>1. \A e \in Events : hook[e] \in {"idle", "over"}
    BY <1>3, <1>t DEF Mined, In, HooksOK
  <2>2. \A e \in Events : call[e] = 0 \/ mem.event[e].executed
    BY <1>t, <2>1 DEF ExecutedOK, Through
  <2> QED BY <1>3, <1>t, <2>1, <2>2 DEF Mined
<1>4. CASE Write
  <2>1. /\ ~Quiet /\ writes' = Tail(writes) /\ call' = call /\ mem' = mem
        /\ hook' = [hook EXCEPT ![writes[1].hook] = writes[1].next]
    BY <1>4, <1>t, WriteFacts DEF Write
  <2>2. /\ 1 \in 1 .. Len(writes) /\ writes[1].hook \in Events
        /\ writes[1].next \in {"body", "sent", "finished"}
        /\ \A i \in 1 .. Len(writes') : i + 1 \in 1 .. Len(writes) /\ writes'[i] = writes[i + 1]
    BY <1>t, <2>1, WriteFacts DEF WritesOK
  <2> QED BY <1>t, <2>1, <2>2 DEF TypeOK
<1>5. CASE StoreNext
  <2>1. mem'.event = mem.event /\ UNCHANGED <<hook, call, writes>>
    BY <1>5, <1>t, StoreFacts
  <2> QED BY <1>t, <2>1
<1>9. CASE NextBatch
  BY <1>9, <1>t DEF NextBatch
<1>6. ASSUME NEW e \in Events, HookFails(e) \/ HookOver(e) PROVE CallsOK'
  BY <1>6, <1>t DEF HookFails, HookOver, TypeOK
<1>7. ASSUME NEW e \in Events, StartHook(e) PROVE CallsOK'
  BY <1>7, <1>t DEF StartHook, At, TypeOK
<1>8. ASSUME NEW e \in Events, NEW s \in State, NEW next \in {"body", "sent", "finished"},
             Stores(e, s, next)
      PROVE  CallsOK'
  <2> DEFINE n == Len(writes) + 1
  <2>1. /\ \A i \in 1 .. Len(writes) : writes'[i] = writes[i]
        /\ writes'[n].hook = e /\ writes'[n].next = next
        /\ \A i \in 1 .. Len(writes') : i \in 1 .. Len(writes) \/ i = n
        /\ hook' = [hook EXCEPT ![e] = "storing"] /\ hook[e] # "storing"
    BY <1>8, <1>t, StoresFacts
  <2>2. /\ call'[e] <= Calls[e] /\ (next = "sent" => call'[e] < Calls[e])
        /\ \A d \in Events : d # e => call'[d] = call[d]
        /\ \A d \in Events : mem.event[d].executed => mem'.event[d].executed
    BY <1>8 DEF Stores
  <2>3. \A i \in 1 .. Len(writes) : writes[i].hook # e
    BY <1>t, <2>1 DEF WritesOK
  <2>4. hook'[e] = "storing" /\ \A d \in Events : d # e => hook'[d] = hook[d]
    BY <1>t, <2>1 DEF TypeOK
  <2> HIDE DEF n
  <2> QED BY <1>t, <2>1, <2>2, <2>3, <2>4
<1> QED BY StepCases, <1>1, <1>2, <1>3, <1>4, <1>5, <1>6, <1>7, <1>8, <1>9

(***************************************************************************)
(* The stores of hooks leave the addresses; what changes them, the end of  *)
(* a batch, finds no store on its way.                                     *)
(***************************************************************************)
LEMMA OverIsQuiet == StoreInv /\ BatchOver => Quiet
<1> SUFFICES ASSUME StoreInv, BatchOver, ~Quiet PROVE FALSE
  OBVIOUS
<1>1. TypeOK /\ WritesOK /\ HooksOK
  BY DEF StoreInv
<1>2. Pending(1) \in Events /\ hook[Pending(1)] = "storing"
  BY <1>1, WriteFacts DEF WritesOK
<1> QED BY <1>1, <1>2 DEF HooksOK, BatchOver

LEMMA AddressesStep == StoreInv /\ [Next]_vars => AddressesOK'
<1> SUFFICES ASSUME StoreInv, [Next]_vars PROVE AddressesOK'
  OBVIOUS
<1>t. TypeOK /\ AddressesOK
  BY DEF StoreInv
<1> USE DEF AddressesOK
<1>1. CASE StartRun
  BY <1>1 DEF StartRun
<1>2. CASE Passing
  BY <1>2, <1>t DEF Passing
<1>3. CASE Mined
  BY <1>3, <1>t DEF Mined
<1>4. CASE Write
  <2>1. ~Quiet /\ writes' = Tail(writes) /\ mem' = mem /\ file' = writes[1].state
    BY <1>4, <1>t, WriteFacts DEF Write
  <2>2. /\ 1 \in 1 .. Len(writes)
        /\ \A i \in 1 .. Len(writes') : i + 1 \in 1 .. Len(writes) /\ writes'[i] = writes[i + 1]
    BY <1>t, <2>1, WriteFacts
  <2> QED BY <1>t, <2>1, <2>2
<1>5. CASE StoreNext
  <2>1. Quiet
    BY <1>5, <1>t, StoreFacts, OverIsQuiet
  <2>2. mem'.address = file'.address /\ writes' = writes
    BY <1>5, <1>t, StoreFacts
  <2> QED BY <2>1, <2>2 DEF Quiet
<1>8. CASE NextBatch
  BY <1>8, <1>t DEF NextBatch
<1>6. ASSUME NEW e \in Events, HookFails(e) \/ StartHook(e) \/ HookOver(e) PROVE AddressesOK'
  BY <1>6, <1>t DEF HookFails, StartHook, HookOver
<1>7. ASSUME NEW e \in Events, NEW s \in State, NEW next \in {"body", "sent", "finished"},
             Stores(e, s, next)
      PROVE  AddressesOK'
  <2>1. /\ \A i \in 1 .. Len(writes) : writes'[i] = writes[i]
        /\ writes'[Len(writes) + 1].state = s
        /\ \A i \in 1 .. Len(writes') : i \in 1 .. Len(writes) \/ i = Len(writes) + 1
    BY <1>7, <1>t, StoresFacts
  <2>2. s.address = mem.address /\ mem'.address = mem.address /\ file' = file
    BY <1>7 DEF Stores
  <2> QED BY <1>t, <2>1, <2>2
<1> QED BY StepCases, <1>1, <1>2, <1>3, <1>4, <1>5, <1>6, <1>7, <1>8

(***************************************************************************)
(* A batch begins when the one before has stored its addresses, and ends   *)
(* when all of its contracts were sent.                                    *)
(***************************************************************************)
LEMMA BatchesStep == StoreInv /\ [Next]_vars => BatchesOK'
<1> SUFFICES ASSUME StoreInv, [Next]_vars PROVE BatchesOK'
  OBVIOUS
<1>t. TypeOK /\ BatchesOK
  BY DEF StoreInv
<1> USE DEF BatchesOK, AllSent, InBatch
<1>1. CASE StartRun
  BY <1>1 DEF StartRun
<1>2. CASE Passing
  BY <1>2, <1>t DEF Passing
<1>3. CASE Mined
  BY <1>3, <1>t DEF Mined, In
<1>4. CASE Write
  BY <1>4, <1>t DEF Write, control
<1>5. CASE StoreNext
  <2>1. PICK c \in sent : /\ sent' = sent \ {c} /\ c \in Contracts
                         /\ mem'.address = [mem.address EXCEPT ![c] = TRUE]
                         /\ UNCHANGED <<status, batch, stage>>
    BY <1>5, <1>t, StoreFacts
  <2>2. mem.address \in [Contracts -> BOOLEAN]
    BY <1>t DEF TypeOK, State
  <2>3. \A d \in Contracts : /\ mem.address[d] => mem'.address[d]
                            /\ d \in sent => mem'.address[d] \/ d \in sent'
    BY <2>1, <2>2
  <2>4. \A n \in 1 .. batch' - 1 : \A d \in Range(Batches[n]) \cap Contracts : mem'.address[d]
    BY <1>t, <2>1, <2>3
  <2> QED BY <1>t, <2>1, <2>3, <2>4
<1>8. CASE NextBatch
  <2>1. /\ mem' = mem /\ batch' = batch + 1 /\ stage' = "send" /\ batch <= Len(Batches) /\ sent = {}
        /\ stage = "hooks" /\ status' = IF batch = Len(Batches) THEN "done" ELSE "running"
    BY <1>8 DEF NextBatch, BatchOver, In
  <2>2. batch \in Nat /\ \A n \in 1 .. batch' - 1 : n \in 1 .. batch - 1 \/ n = batch
    BY <1>t, <2>1, ParallelAssumption DEF TypeOK
  <2>3. \A n \in 1 .. batch' - 1 : \A c \in Range(Batches[n]) \cap Contracts : mem'.address[c]
    BY <1>t, <2>1, <2>2
  <2> QED BY <2>1, <2>2, <2>3
<1>6. ASSUME NEW e \in Events, HookFails(e) \/ StartHook(e) \/ HookOver(e) PROVE BatchesOK'
  BY <1>6, <1>t DEF HookFails, StartHook, HookOver, control
<1>7. ASSUME NEW e \in Events, NEW s \in State, NEW next \in {"body", "sent", "finished"},
             Stores(e, s, next)
      PROVE  BatchesOK'
  BY <1>7, <1>t DEF Stores, Begin, control
<1> QED BY StepCases, <1>1, <1>2, <1>3, <1>4, <1>5, <1>6, <1>7, <1>8

(***************************************************************************)
(* A finished hook is executed in memory, and in what will be the file.    *)
(***************************************************************************)
LEMMA ExecutedStep == StoreInv /\ [Next]_vars => ExecutedOK'
<1> SUFFICES ASSUME StoreInv, [Next]_vars PROVE ExecutedOK'
  OBVIOUS
<1>t. TypeOK /\ ExecutedOK /\ WritesOK
  BY DEF StoreInv
<1> DEFINE InFile == ~overlapped => \A e \in Events : mem.event[e].executed =>
             IF Quiet THEN file.event[e].executed ELSE writes[1].state.event[e].executed
           InMemory == \A e \in Events : Through(e) => mem.event[e].executed
<1>u. InFile /\ InMemory
  BY <1>t DEF ExecutedOK
<1>v. InFile' /\ InMemory' => ExecutedOK'
  BY DEF ExecutedOK
<1> USE DEF Pending
<1>1. CASE StartRun
  <2>1. \A e \in Events : ~Through(e)'
    BY <1>1 DEF StartRun, Through
  <2> QED BY <1>1, <1>v, <2>1 DEF StartRun, Quiet
<1>2. CASE Passing
  BY <1>2, <1>u, <1>v DEF Passing, past, Through, Quiet
<1>3. CASE Mined
  BY <1>3, <1>u, <1>v DEF Mined, past, Through, Quiet
<1>4. CASE Write
  <2>1. /\ ~Quiet /\ writes' = Tail(writes) /\ mem' = mem /\ file' = writes[1].state
        /\ hook' = [hook EXCEPT ![writes[1].hook] = writes[1].next]
        /\ batch' = batch /\ overlapped' = overlapped
    BY <1>4, <1>t, WriteFacts DEF Write, control, past
  <2>2. /\ 1 \in 1 .. Len(writes) /\ writes[1].hook \in Events /\ Len(writes) \in Nat
        /\ Len(writes') = Len(writes) - 1
        /\ \A i \in 1 .. Len(writes') : i + 1 \in 1 .. Len(writes) /\ writes'[i] = writes[i + 1]
    BY <1>t, <2>1, WriteFacts
  <2>3. \A e \in Events : Through(e)' => Through(e)
    <3> SUFFICES ASSUME NEW e \in Events, Through(e)' PROVE Through(e)
      OBVIOUS
    <3>1. hook'[e] \in {"finished", "over"} =>
            hook[e] \in {"finished", "over"} \/ (writes[1].hook = e /\ writes[1].next = "finished")
      <4>1. writes[1].next \in {"body", "sent", "finished"}
        BY <1>t, <2>2 DEF WritesOK
      <4> QED BY <1>t, <2>1, <2>2, <4>1 DEF TypeOK
    <3>2. \A i \in 1 .. Len(writes') : writes'[i].hook = e /\ writes'[i].next = "finished"
            => \E j \in 1 .. Len(writes) : writes[j].hook = e /\ writes[j].next = "finished"
      BY <2>2
    <3> QED BY <2>1, <2>2, <3>1, <3>2 DEF Through
  <2>4. InMemory'
    BY <1>u, <2>1, <2>3
  <2>5. ASSUME ~overlapped PROVE Quiet'
    <3>1. Len(writes') = 0
      BY <1>t, <2>2, <2>5 DEF WritesOK
    <3>2. writes' \in Seq(Stored)
      BY <1>t, <2>1, WriteFacts
    <3> QED BY <3>1, <3>2 DEF Quiet
  <2>6. InFile'
    BY <1>u, <2>1, <2>5
  <2> QED BY <1>v, <2>4, <2>6
<1>5. CASE StoreNext
  <2>1. /\ mem'.event = mem.event /\ file'.event = file.event
        /\ UNCHANGED <<batch, hook, writes, overlapped>>
    BY <1>5, <1>t, StoreFacts DEF past
  <2>2. \A e \in Events : Through(e)' => Through(e)
    BY <2>1 DEF Through
  <2> QED BY <1>u, <1>v, <2>1, <2>2 DEF Quiet
<1>9. CASE NextBatch
  <2>1. /\ batch' = batch + 1 /\ hook' = hook /\ mem' = mem /\ file' = file
        /\ writes' = writes /\ overlapped' = overlapped /\ batch <= Len(Batches)
        /\ \A e \in InBatch(Events) : hook[e] = "over"
    BY <1>9 DEF NextBatch, past, BatchOver, In
  <2>2. batch \in Nat /\ \A n \in 1 .. batch' - 1 : n \in 1 .. batch - 1 \/ n = batch
    BY <1>t, <2>1, ParallelAssumption DEF TypeOK
  <2>3. \A e \in Events : Through(e)' => Through(e)
    BY <2>1, <2>2 DEF Through, InBatch
  <2> QED BY <1>u, <1>v, <2>1, <2>3 DEF Quiet
<1>6. ASSUME NEW e \in Events, HookFails(e) \/ HookOver(e) PROVE ExecutedOK'
  <2>1. \A d \in Events : Through(d)' => Through(d)
    BY <1>6, <1>t DEF HookFails, HookOver, At, Through, control, TypeOK
  <2> QED BY <1>6, <1>u, <1>v, <2>1 DEF HookFails, HookOver, past, Quiet
<1>7. ASSUME NEW e \in Events, StartHook(e) PROVE ExecutedOK'
  <2>1. \A d \in Events : Through(d)' => Through(d) \/ mem.event[d].executed
    BY <1>7, <1>t DEF StartHook, Through, control, TypeOK
  <2> QED BY <1>7, <1>u, <1>v, <2>1 DEF StartHook, Quiet
<1>8. ASSUME NEW e \in Events, NEW s \in State, NEW next \in {"body", "sent", "finished"},
             Stores(e, s, next)
      PROVE  ExecutedOK'
  <2> DEFINE n == Len(writes) + 1
  <2>1. /\ Len(writes') = n /\ Len(writes) \in Nat
        /\ \A i \in 1 .. Len(writes) : writes'[i] = writes[i]
        /\ writes'[n].hook = e /\ writes'[n].next = next /\ writes'[n].state = s
        /\ \A i \in 1 .. Len(writes') : i \in 1 .. Len(writes) \/ i = n
        /\ hook' = [hook EXCEPT ![e] = "storing"]
    BY <1>8, <1>t, StoresFacts
  <2>2. /\ next = "finished" => mem'.event[e].executed
        /\ \A d \in Events : mem.event[d].executed => mem'.event[d].executed
        /\ Quiet /\ ~overlapped => \A d \in Events : mem'.event[d].executed => s.event[d].executed
        /\ batch' = batch
    BY <1>8 DEF Stores, Begin, control
  <2>3. ~overlapped' => Quiet /\ ~overlapped
    BY <1>8 DEF Stores, Begin
  <2>4. \A d \in Events : Through(d)' => Through(d) \/ (d = e /\ next = "finished")
    <3> HIDE DEF n
    <3> QED BY <1>t, <2>1, <2>2 DEF Through, TypeOK
  <2>5. InMemory'
    BY <1>u, <2>2, <2>4
  <2>6. ASSUME ~overlapped' PROVE ~Quiet' /\ writes'[1].state = s
    <3>1. Len(writes) = 0 /\ n = 1
      BY <1>t, <2>3, <2>6, WriteFacts
    <3>2. Len(writes') = 1 /\ writes'[1].state = s
      BY <2>1, <3>1
    <3>3. \A q \in Seq(Stored) : q = <<>> <=> Len(q) = 0
      OBVIOUS
    <3>4. writes' # <<>>
      <4>1. writes' \in Seq(Stored)
        BY <1>8, <1>t, StoresFacts
      <4> HIDE DEF n
      <4>2. (writes' = <<>>) <=> (Len(writes') = 0)
        BY <3>3, <4>1
      <4> QED BY <3>2, <4>2
    <3> QED BY <3>2, <3>4 DEF Quiet
  <2>7. InFile'
    BY <2>2, <2>3, <2>6
  <2> QED BY <1>v, <2>5, <2>7
<1> QED BY StepCases, <1>1, <1>2, <1>3, <1>4, <1>5, <1>6, <1>7, <1>8, <1>9

(***************************************************************************)
(* A hook that is not disturbed finds its own records in the file: the     *)
(* store of another hook, alone, has read them.                            *)
(***************************************************************************)
LEMMA RecordsStep == StoreInv /\ [Next]_vars => RecordsOK'
<1> SUFFICES ASSUME StoreInv, [Next]_vars, NEW d \in Events, d \notin disturbed'
             PROVE  /\ hook'[d] \in {"body", "sent"} =>
                         /\ Enough(file', d, call'[d], hook'[d])
                         /\ writes' # <<>> => Enough(writes'[1].state, d, call'[d], hook'[d])
                    /\ writes' # <<>> /\ writes'[1].hook = d /\ writes'[1].next \in {"body", "sent"}
                         => Enough(writes'[1].state, d, call'[d], writes'[1].next)
  BY DEF RecordsOK, Quiet, Pending
<1>t. TypeOK /\ HooksOK /\ WritesOK /\ CallsOK /\ RecordsOK
  BY DEF StoreInv
<1>i. d \notin disturbed =>
        /\ hook[d] \in {"body", "sent"} =>
             /\ Enough(file, d, call[d], hook[d])
             /\ writes # <<>> => Enough(writes[1].state, d, call[d], hook[d])
        /\ writes # <<>> /\ writes[1].hook = d /\ writes[1].next \in {"body", "sent"}
             => Enough(writes[1].state, d, call[d], writes[1].next)
  BY <1>t DEF RecordsOK, Quiet, Pending
<1>1. CASE StartRun
  BY <1>1 DEF StartRun
<1>2. CASE Passing
  BY <1>2, <1>i DEF Passing, past
<1>3. CASE Mined
  <2>1. hook'[d] \notin {"body", "sent"}
    BY <1>3, <1>t DEF Mined, In, HooksOK
  <2> QED BY <1>3, <1>i, <2>1 DEF Mined, past
<1>4. CASE Write
  <2>1. /\ ~Quiet /\ writes' = Tail(writes) /\ file' = writes[1].state /\ call' = call
        /\ hook' = [hook EXCEPT ![writes[1].hook] = writes[1].next] /\ d \notin disturbed
    BY <1>4, <1>t, WriteFacts DEF Write, past
  <2>2. Len(writes) = 1 /\ writes[1].hook \in Events
    <3>1. ~(Len(writes) >= 2)
      BY <1>t, <2>1 DEF WritesOK
    <3>2. Len(writes) \in Nat /\ 1 \in 1 .. Len(writes) /\ writes[1].hook \in Events
      BY <1>t, <2>1, WriteFacts DEF Pending
    <3> QED BY <3>1, <3>2
  <2>3. writes' = <<>>
    <3>1. writes' \in Seq(Stored) /\ Len(writes') = 0
      BY <1>t, <2>1, <2>2, WriteFacts
    <3> QED BY <3>1
  <2>4. CASE writes[1].hook = d
    <3>1. hook'[d] = writes[1].next
      BY <1>t, <2>1, <2>4 DEF TypeOK
    <3> QED BY <1>i, <2>1, <2>3, <2>4, <3>1 DEF Quiet
  <2>5. CASE writes[1].hook # d
    <3>1. hook'[d] = hook[d]
      BY <1>t, <2>1, <2>5 DEF TypeOK
    <3> QED BY <1>i, <2>1, <2>3, <3>1 DEF Quiet
  <2> QED BY <2>4, <2>5
<1>5. CASE StoreNext
  <2>1. file'.event = file.event /\ UNCHANGED <<hook, call, writes, disturbed>>
    BY <1>5, <1>t, StoreFacts DEF past
  <2> QED BY <1>i, <2>1 DEF Enough
<1>13. CASE NextBatch
  BY <1>13, <1>i DEF NextBatch, past
<1>6. ASSUME NEW e \in Events, HookFails(e) \/ HookOver(e)
      PROVE  /\ hook'[d] \in {"body", "sent"} => hook'[d] = hook[d]
             /\ UNCHANGED <<file, call, writes, disturbed>>
  BY <1>6, <1>t DEF HookFails, HookOver, past, TypeOK
<1>7. ASSUME NEW e \in Events, StartHook(e)
      PROVE  /\ hook'[d] \in {"body", "sent"} =>
                  \/ hook'[d] = hook[d] /\ d \notin disturbed
                  \/ hook'[d] = "body" /\ call[d] = 0
             /\ writes # <<>> => d \notin disturbed
             /\ UNCHANGED <<file, call, writes>>
  <2>1. /\ UNCHANGED <<file, call, writes>> /\ hook[e] = "start"
        /\ disturbed' = IF Quiet THEN disturbed \ {e} ELSE disturbed
    BY <1>7 DEF StartHook, At
  <2>2. CASE d = e
    <3>1. hook'[d] \in {"body", "sent"} => hook'[d] = "body" /\ ~mem.event[d].executed
      BY <1>7, <1>t, <2>2 DEF StartHook, TypeOK
    <3> QED BY <1>t, <2>1, <2>2, <3>1 DEF CallsOK, Quiet
  <2>3. CASE d # e
    <3>1. hook'[d] = hook[d]
      BY <1>7, <1>t, <2>3 DEF StartHook, TypeOK
    <3> QED BY <2>1, <2>3, <3>1
  <2> QED BY <2>2, <2>3
<1>8. \A s \in State : Enough(s, d, 0, "body")
  BY DEF Enough, State, EventRecord
<1>9. writes # <<>> => writes[1].state \in State
  BY <1>t, WriteFacts DEF Quiet
<1>10. file \in State
  BY <1>t DEF TypeOK
<1>11. ASSUME NEW e \in Events, NEW s \in State, NEW next \in {"body", "sent", "finished"},
              Stores(e, s, next)
       PROVE  /\ hook'[d] \in {"body", "sent"} =>
                   /\ Enough(file', d, call'[d], hook'[d])
                   /\ Enough(writes'[1].state, d, call'[d], hook'[d])
              /\ writes'[1].hook = d /\ writes'[1].next \in {"body", "sent"}
                   => Enough(writes'[1].state, d, call'[d], writes'[1].next)
  <2>1. Quiet /\ d \notin disturbed /\ file' = file
    BY <1>11 DEF Stores
  <2>2. /\ writes'[1].state = s /\ writes'[1].hook = e /\ writes'[1].next = next
        /\ hook' = [hook EXCEPT ![e] = "storing"]
    <3>1. Len(writes) = 0
      BY <1>t, <2>1, WriteFacts
    <3> QED BY <1>11, <1>t, <3>1, StoresFacts
  <2>3. CASE d = e
    <3>1. hook'[d] = "storing"
      BY <1>t, <2>2, <2>3 DEF TypeOK
    <3>2. next \in {"body", "sent"} => Enough(s, d, call'[d], next)
      BY <1>11, <2>3 DEF Stores, Enough
    <3> QED BY <2>2, <3>1, <3>2
  <2>4. CASE d # e
    <3>1. hook'[d] = hook[d] /\ call'[d] = call[d] /\ s.event[d] = file.event[d]
      BY <1>11, <1>t, <2>2, <2>4 DEF Stores, TypeOK
    <3> QED BY <1>i, <2>1, <2>2, <2>4, <3>1 DEF Enough
  <2> QED BY <2>3, <2>4
<1>12. CASE \E e \in Events : HookFails(e) \/ StartHook(e) \/ HookOver(e)
  BY <1>i, <1>6, <1>7, <1>8, <1>9, <1>10, <1>12
<1> QED BY StepCases, <1>1, <1>2, <1>3, <1>4, <1>5, <1>11, <1>12, <1>13

-----------------------------------------------------------------------------
(* The properties.                                                         *)

(***************************************************************************)
(* The inductive invariant holds in every reachable state.                 *)
(***************************************************************************)
LEMMA StoreInvariant == Spec => []StoreInv
<1>1. StoreInv /\ [Next]_vars => StoreInv'
  BY TypeStep, HooksStep, WritesStep, CallsStep, AddressesStep, BatchesStep, ExecutedStep, RecordsStep
  DEF StoreInv
<1> QED BY <1>1, StoreInit, PTL DEF Spec

(***************************************************************************)
(* Every variable of the parallel deployment keeps its type.               *)
(***************************************************************************)
THEOREM TypeCorrect == Spec => []TypeOK
BY StoreInvariant, PTL DEF StoreInv

(***************************************************************************)
(* The contracts of the batches that are over have their addresses in the  *)
(* file, although each store of a hook writes all of it.                   *)
(***************************************************************************)
THEOREM EarlierStored == Spec => []EarlierBatchesStored
<1>1. StoreInv => EarlierBatchesStored
  BY DEF StoreInv, AddressesOK, BatchesOK, EarlierBatchesStored
<1> QED BY <1>1, StoreInvariant, PTL

(***************************************************************************)
(* A deployment that ends has every contract in the file and, if no two    *)
(* stores overlapped, every hook as executed.                              *)
(***************************************************************************)
THEOREM CompleteAtEnd == Spec => []CompleteUnlessOverlapped
<1>1. StoreInv => CompleteUnlessOverlapped
  <2> SUFFICES ASSUME StoreInv, status = "done" PROVE CompleteUnlessOverlapped
    BY DEF CompleteUnlessOverlapped
  <2>t. TypeOK /\ HooksOK /\ WritesOK /\ AddressesOK /\ BatchesOK /\ ExecutedOK
    BY DEF StoreInv
  <2>1. batch = Len(Batches) + 1 /\ Len(Batches) \in Nat
    BY <2>t, ParallelAssumption DEF BatchesOK
  <2>2. \A c \in Contracts : file.address[c]
    BY <2>t, <2>1, BatchesAssumption DEF AddressesOK, BatchesOK
  <2>3. \A e \in Events : mem.event[e].executed
    BY <2>t, <2>1, BatchesAssumption DEF ExecutedOK, Through
  <2>4. Quiet
    <3>1. \A e \in Events : hook[e] \in {"idle", "over"}
      BY <2>t, <2>1 DEF HooksOK
    <3>2. ~Quiet => Pending(1) \in Events /\ hook[Pending(1)] = "storing"
      BY <2>t, WriteFacts DEF WritesOK
    <3> QED BY <3>1, <3>2
  <2> QED BY <2>t, <2>2, <2>3, <2>4 DEF CompleteUnlessOverlapped, ExecutedOK
<1> QED BY <1>1, StoreInvariant, PTL

(***************************************************************************)
(* A hook that no other one disturbs has its calls in the file before it   *)
(* goes on.                                                                *)
(***************************************************************************)
THEOREM CallsRecorded == Spec => []RecordedUnlessDisturbed
<1>1. StoreInv => RecordedUnlessDisturbed
  BY DEF StoreInv, RecordsOK, Enough, RecordedUnlessDisturbed
<1> QED BY <1>1, StoreInvariant, PTL

(***************************************************************************)
(* No contract and no hook misses an address that it needs.                *)
(***************************************************************************)
THEOREM NothingMissing == Spec => []DependenciesReady
<1>1. Init => DependenciesReady
  BY DEF Init, DependenciesReady
<1>2. StoreInv /\ DependenciesReady /\ [Next]_vars => DependenciesReady'
  <2> SUFFICES ASSUME StoreInv, DependenciesReady, [Next]_vars PROVE DependenciesReady'
    OBVIOUS
  <2>t. TypeOK /\ WritesOK /\ HooksOK /\ BatchesOK
    BY DEF StoreInv
  <2>a. ASSUME batch <= Len(Batches), NEW c \in Contracts, c \in Before(batch) PROVE mem.address[c]
    BY <2>a, <2>t DEF Before, BatchesOK
  <2>b. batch <= Len(Batches) => batch \in 1 .. Len(Batches)
    BY <2>t, ParallelAssumption DEF TypeOK
  <2>1. ASSUME NEW i \in 1 .. Len(Batches[batch]), ArgumentMissing(i) PROVE FALSE
    <3>1. batch \in 1 .. Len(Batches) /\ Batches[batch][i] \in Contracts
      BY <2>1, <2>b DEF ArgumentMissing, ToSend, In
    <3>2. Batches[batch][i] \in Range(Batches[batch])
      BY <3>1, BatchFacts
    <3>3. Args[Batches[batch][i]] \subseteq Before(batch) \cap Contracts
      BY <3>1, <3>2, BatchesAssumption, ParallelAssumption
    <3> QED BY <2>1, <2>a, <3>1, <3>3 DEF ArgumentMissing
  <2>2. ASSUME NEW e \in Events, StartHook(e) PROVE DependenciesReady'
    <3>1. batch \in 1 .. Len(Batches) /\ e \in Range(Batches[batch])
      BY <2>2, <2>b, <2>t DEF StartHook, At, In, HooksOK, InBatch
    <3>2. e \notin EarlyHooks => \A c \in Deps[e] : mem.address[c]
      BY <2>a, <3>1, BatchesAssumption, ParallelAssumption
    <3> QED BY <2>2, <2>t, <3>2 DEF StartHook, DependenciesReady, control, TypeOK
  <2>3. CASE StartRun
    BY <2>3 DEF StartRun, DependenciesReady
  <2>4. CASE Mined
    BY <2>4 DEF Mined, DependenciesReady
  <2>5. CASE Write
    <3>1. Head(writes).next # "missing"
      BY <2>5, <2>t, WriteFacts DEF Write, WritesOK
    <3> QED BY <2>5, <2>t, <3>1 DEF Write, DependenciesReady, control, TypeOK
  <2>6. CASE StoreNext \/ NextBatch
    BY <2>6, <2>t, StoreFacts DEF NextBatch, DependenciesReady
  <2>7. ASSUME NEW e \in Events, HookFails(e) \/ HookOver(e) PROVE DependenciesReady'
    BY <2>7, <2>t DEF HookFails, HookOver, DependenciesReady, control, TypeOK
  <2>8. ASSUME NEW e \in Events, NEW s \in State, NEW next \in {"body", "sent", "finished"},
               Stores(e, s, next)
        PROVE  DependenciesReady'
    BY <2>8, <2>t DEF Stores, Begin, DependenciesReady, control, TypeOK
  <2>9. CASE Passing
    <3>1. hook' = hook
      BY <2>9 DEF Passing
    <3>2. ASSUME status' = "missing" PROVE FALSE
      <4>1. status # "missing"
        BY DEF DependenciesReady
      <4>2. PICK i \in 1 .. Len(Batches[batch]) : ArgumentMissing(i)
        BY <2>9, <3>2, <4>1 DEF Next, Process, HookStep, StartRun, Send, WaitSent, Mined, Write,
           StoreContract, ToStore, NextBatch, StartHook, ReplayCall, SendCall, Receipt, FinishHook,
           StoreDep, HookOver, Begin, SendFails, Reverted, HookFails, Crash, Error, control, vars
      <4> QED BY <2>1, <4>2
    <3> QED BY <3>1, <3>2 DEF DependenciesReady
  <2> QED BY StepCases, <2>2, <2>3, <2>4, <2>5, <2>6, <2>7, <2>8, <2>9
<1> QED BY <1>1, <1>2, StoreInvariant, PTL DEF Spec
=============================================================================
