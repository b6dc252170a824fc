----------------------------- MODULE ModuleOrder -----------------------------
(***************************************************************************)
(* The order that ModuleResolver gives to the elements of a module: a      *)
(* depth first walk over what bindings and event hooks refer to, which     *)
(* puts each element into moduleState once; and checkIfDiff, which         *)
(* compares that order with the one in the state file.                     *)
(*                                                                         *)
(* A walk r has the elements so far, in the order of insertion of          *)
(* moduleState, the error that ended it, and what is left to do: the calls *)
(* of its functions and the assignments to moduleState that follow, in the *)
(* order in which they are made.                                           *)
(***************************************************************************)
EXTENDS ModuleBuilder

Binding(b) == bindings[CHOOSE i \in DOMAIN bindings : bindings[i].name = b]
EventOf(e) == events[CHOOSE i \in DOMAIN events : events[i].name = e]

Has(r, n)  == \E i \in DOMAIN r.order : r.order[i].name = n
Fail(r, error) == [r EXCEPT !.error = error]
Failed(r) == r.error # Nothing

\* moduleState[n] = ...: an element that is there keeps its place.
Put(r, n, type) ==
  [r EXCEPT !.order =
     IF Has(r, n) THEN [i \in DOMAIN @ |-> IF @[i].name = n THEN [name |-> n, type |-> type] ELSE @[i]]
                  ELSE Append(@, [name |-> n, type |-> type])]

\* The bindings among the arguments: arg.name of an array is undefined.
ArgsOf(b) ==
  LET bound == Those(Binding(b).args, {arg \in Range(Binding(b).args) : arg.kind = "binding" /\ ~arg.array})
  IN [i \in DOMAIN bound |-> bound[i].name]

LibsOf(b) == Those(Links[Binding(b).contractName], BindingNames)

BeforeHooks(b) ==
  LET hooks == Binding(b).hooks IN hooks["beforeCompile"] \o hooks["afterCompile"] \o hooks["beforeDeploy"]

AfterHooksOnce(b) == Binding(b).hooks["afterDeploy"]  \* Mutant of AfterHooks: onChange is forgotten
AfterHooks(b) == Binding(b).hooks["afterDeploy"] \o Binding(b).hooks["onChange"]

(***************************************************************************)
(* What is to be done: a call (for a "binding"; for an event of a          *)
(* contract that is yet to be deployed, "before", or of one that is,       *)
(* "after"; for a "single" event), the contracts of an event that another  *)
(* depends on ("deps"), the check of what an event uses, the "return" of a *)
(* call, or the assignment of an element of some type.                     *)
(***************************************************************************)
ElementTypes == {"contract"} \cup Before \cup After \cup ModuleHookTypes

Task(what, n)     == [do |-> what, name |-> n, seen |-> 0]
Each(what, names) == [i \in DOMAIN names |-> Task(what, names[i])]
PutEvent(e)       == Task(EventOf(e).type, e)

\* A call that comes back to itself before moduleState has grown never ends:
\* the stack overflows.
Return(r, b)  == [do |-> "return", name |-> b, seen |-> Len(r.order)]
Running(r, b) == Return(r, b) \in Range(r.todo)

\* _resolveContractsAndEvents
ResolveBinding(r, b) ==
  Each("binding", ArgsOf(b)) \o Each("binding", LibsOf(b)) \o Each("binding", Binding(b).deployDeps)
    \o Each("before", BeforeHooks(b)) \o <<Task("contract", b)>> \o Each("after", AfterHooks(b))
    \o <<Return(r, b)>>

\* addEvent of _resolveBeforeDeployEvents.  The event waits for the contracts
\* of the events it depends on, and not for the events.
AddBefore(e) == Each("deps", EventOf(e).eventDeps) \o <<Task("check", e), PutEvent(e)>>

\* What _addEvent and resolveSingleEvent have in common.
Dependencies(e) ==
  Each("binding", EventOf(e).deps) \o Each("single", EventOf(e).eventDeps) \o Each("binding", EventOf(e).usage)

AddAfterUnresolved(e) == <<PutEvent(e)>>  \* Mutant of AddAfter: the dependencies are taken for resolved

\* _addEvent
AddAfter(e) == Dependencies(e) \o <<Task("check", e), PutEvent(e)>>

\* resolveSingleEvent
ResolveSingle(e) == Dependencies(e) \o Each("single", EventOf(e).eventUsage) \o <<PutEvent(e)>>

\* What a task expands to: the tasks done next, before all that is left to do.
Expansion(r, t) ==
  CASE t.do = "binding" /\ ~Has(r, t.name) -> ResolveBinding(r, t.name)
    [] t.do = "before" /\ ~Has(r, t.name)  -> AddBefore(t.name)
    [] t.do = "single" /\ ~Has(r, t.name)  -> ResolveSingle(t.name)
    [] t.do = "after"                      -> AddAfter(t.name)
    [] t.do = "deps"                       -> Each("binding", EventOf(t.name).deps)
    [] OTHER                               -> <<>>

UsesMissing(r, e) ==
  \E f \in Range(EventOf(e).eventUsage) : \E b \in Range(EventOf(f).deps) : ~Has(r, b)

TaskError(r, t) ==
  IF t.do = "binding" /\ ~Has(r, t.name) /\ Running(r, t.name) THEN "overflow"
  ELSE IF t.do = "check" /\ UsesMissing(r, t.name) THEN "UsageEventNotFound" ELSE Nothing

\* The next step of the walk.
Step(r) ==
  LET t    == Head(r.todo)
      rest == [r EXCEPT !.todo = Tail(@)]
  IN IF TaskError(r, t) # Nothing THEN Fail(r, TaskError(r, t))
     ELSE IF t.do \in ElementTypes THEN Put(rest, t.name, t.do)
     ELSE [rest EXCEPT !.todo = Expansion(r, t) \o @]

\* handleModuleEvents, on a state in which nothing is executed yet.
PutModuleEvents(type) == Each(type, moduleEvents[type])

\* The first half of resolve, which orders the elements.
OrderToResolve ==
  LET names == [i \in DOMAIN bindings |-> bindings[i].name]
  IN [order |-> <<>>, error |-> Nothing,
      todo |-> PutModuleEvents("onStart") \o Each("binding", names)
                 \o PutModuleEvents("onSuccess") \o PutModuleEvents("onCompletion")]

(***************************************************************************)
(* checkIfDiff.  `old' and `new' are lists of elements as moduleState has  *)
(* them; an element with a bytecode is a contract.  Arguments are compared *)
(* with !==, so that one that is an object always differs.                 *)
(***************************************************************************)
SameArgs(old, new) ==
  /\ Len(old) = Len(new)
  /\ \A i \in DOMAIN old : old[i] = new[i] /\ old[i].kind # "binding" /\ ~old[i].array

IsContract(x) == x.type = "contract"

DiffAtUndeployed(old, new) ==  \* Mutant of DiffAt: a missing address is not looked at
  IF IsContract(old) /\ IsContract(new)
  THEN IF old.bytecode # new.bytecode \/ ~SameArgs(old.args, new.args) THEN "diff" ELSE "same"
  ELSE IF IsContract(old) \/ IsContract(new) THEN "TypeError"
       ELSE IF old.name # new.name /\ ~new.executed THEN "diff" ELSE "same"

\* What one pass of the loop finds: "diff", "same" or "TypeError", which is
\* event.name of a contract.
DiffAt(old, new) ==
  IF IsContract(old) /\ IsContract(new)
  THEN IF old.bytecode # new.bytecode \/ ~SameArgs(old.args, new.args) \/ ~old.address
       THEN "diff" ELSE "same"
  ELSE IF IsContract(old) \/ IsContract(new) THEN "TypeError"
       ELSE IF old.name # new.name /\ ~new.executed THEN "diff" ELSE "same"

CheckIfDiff(old, new) ==
  LET found == {i \in DOMAIN old : DiffAt(old[i], new[i]) # "same"}
      first == CHOOSE i \in found : \A j \in found : i <= j
  IN IF Len(old) # Len(new) THEN "diff"
     ELSE IF found = {} THEN "same" ELSE DiffAt(old[first], new[first])
=============================================================================
