----------------------------- MODULE ModuleBuild -----------------------------
(***************************************************************************)
(* From the module function of a user to the elements that are deployed:   *)
(* the builder, then the resolver, then the batches of a parallel          *)
(* deployment or a sequential one, an edit of the module and diff.         *)
(***************************************************************************)
EXTENDS EventsBatcher

VARIABLES
  plan,     \* what resolve makes of the module: the order of its elements
  batched,  \* the batches of a parallel deployment
  stored,   \* the state file, in the order of its elements
  changed,  \* contracts that were compiled anew since the state was stored
  answer    \* what diff says

resolverVars == <<plan, batched, stored, changed, answer>>
allVars == <<bindings, events, moduleEvents, templates, open, initialized, status, budget,
             plan, batched, stored, changed, answer>>

NoOrder   == [order |-> <<>>, error |-> Nothing, todo |-> <<>>]
NoBatches == [batches |-> [n \in {} |-> <<>>], at |-> [n \in {} |-> 0], error |-> Nothing, todo |-> <<>>]

BuildInit ==
  /\ Init
  /\ plan = NoOrder /\ batched = NoBatches /\ stored = <<>> /\ changed = {} /\ answer = "none"

Stays == UNCHANGED <<bindings, events, moduleEvents, templates, open, initialized>>

\* Whoever needs the order of the elements: deploy, or diff after a deployment.
Resolve(from, to) ==
  /\ status = from /\ status' = to
  /\ plan' = OrderToResolve
  /\ Stays /\ UNCHANGED <<budget, batched, stored, changed, answer>>

Walk ==
  /\ status \in {"resolving", "comparing"}
  /\ plan.todo # <<>> /\ ~Failed(plan)
  /\ plan' = Step(plan)
  /\ Stays /\ UNCHANGED <<budget, status, batched, stored, changed, answer>>

EndResolve ==
  /\ status = "resolving"
  /\ plan.todo = <<>> \/ Failed(plan)
  /\ status' = IF Failed(plan) THEN plan.error ELSE "resolved"
  /\ Stays /\ UNCHANGED <<budget, plan, batched, stored, changed, answer>>

\* _executeParallel before _executeBatches.
Batch ==
  /\ status = "resolved" /\ status' = "batching"
  /\ batched' = ElementsToBatch(plan.order)
  /\ Stays /\ UNCHANGED <<budget, plan, stored, changed, answer>>

BatchElement ==
  /\ status = "batching"
  /\ batched.todo # <<>> /\ ~Failed(batched)
  /\ batched' = HandleElement(batched)
  /\ Stays /\ UNCHANGED <<budget, status, plan, stored, changed, answer>>

EndBatch ==
  /\ status = "batching"
  /\ batched.todo = <<>> \/ Failed(batched)
  /\ status' = IF Failed(batched) THEN batched.error ELSE "batched"
  /\ Stays /\ UNCHANGED <<budget, plan, batched, stored, changed, answer>>

-----------------------------------------------------------------------------
\* An element as it is in moduleState or in the state file.
Element(x, done) ==
  IF IsContract(x)
  THEN [name |-> x.name, type |-> x.type, address |-> done, executed |-> FALSE, args |-> Binding(x.name).args,
        bytecode |-> [of |-> Binding(x.name).contractName, new |-> Binding(x.name).contractName \in changed]]
  ELSE [name |-> x.name, type |-> x.type, address |-> FALSE, executed |-> done, args |-> <<>>,
        bytecode |-> [of |-> "none", new |-> FALSE]]

\* A sequential deployment that ends after `n' elements.  All of them have
\* been stored before the first (storeNewState).
Deploy(n) ==
  /\ status = "resolved"
  /\ stored' = [i \in DOMAIN plan.order |-> Element(plan.order[i], i <= n)]
  /\ status' = "deployed"
  /\ Stays /\ UNCHANGED <<budget, plan, batched, changed, answer>>

\* The user compiles a contract anew, swaps two declarations or edits an argument.
Edit ==
  /\ status = "deployed" /\ Spend("edits")
  /\ \/ \E c \in {bindings[i].contractName : i \in DOMAIN bindings} :
          /\ changed' = changed \cup {c} /\ UNCHANGED bindings
     \/ \E i \in 1 .. Len(bindings) - 1 :
          /\ \A a \in Range(bindings[i + 1].args) : a.kind = "binding" => a.name # bindings[i].name
          /\ bindings' = [bindings EXCEPT ![i] = bindings[i + 1], ![i + 1] = bindings[i]]
          /\ UNCHANGED changed
     \/ \E i \in DOMAIN bindings : \E k \in DOMAIN bindings[i].args, v \in budget.literals :
          /\ Accepted(v, Inputs[bindings[i].contractName][k])
          /\ bindings' = [bindings EXCEPT ![i].args[k] = v] /\ UNCHANGED changed
  /\ UNCHANGED <<events, moduleEvents, templates, open, initialized, status, plan, batched, stored, answer>>

\* What resolve makes of the state file: the events of a contract that is to
\* be deployed again count as not executed.  (resolve also takes away the
\* addresses of the arguments of such a contract, and the events of those:
\* module-resolver.ts:118-132.  This is left out: diff finds a difference at any
\* contract that has contracts for arguments, so that it is never "same" then.)
Old(n) == CHOOSE i \in DOMAIN stored : stored[i].name = n
Redeployed(b) ==
  LET old == stored[Old(b)] IN
  \/ Binding(b).force \/ Binding(b).redeploy \/ ~old.address
  \/ old.bytecode # Element([name |-> b, type |-> "contract"], TRUE).bytecode

Revised(x) ==
  IF IsContract(x) THEN x
  ELSE [x EXCEPT !.executed = @ /\ \A b \in BindingNames : Redeployed(b) =>
          \A t \in Before \cup After : x.name \notin Range(Binding(b).hooks[t])]

Diff ==
  /\ status = "comparing"
  /\ plan.todo = <<>> \/ Failed(plan)
  /\ LET old == [i \in DOMAIN stored |-> Revised(stored[i])]
         new == [i \in DOMAIN plan.order |->
            LET x == plan.order[i] IN
            IF IsContract(x) THEN Element(x, stored[Old(x.name)].address) ELSE old[Old(x.name)]]
     IN answer' = IF Failed(plan) THEN plan.error ELSE CheckIfDiff(old, new)
  /\ status' = "compared"
  /\ Stays /\ UNCHANGED <<budget, plan, batched, stored, changed>>

Ended ==
  /\ status \notin {"building", "built", "resolving", "resolved", "batching", "deployed", "comparing"}
  /\ UNCHANGED allVars

BuildNext ==
  \/ Building /\ Declare /\ UNCHANGED resolverVars
  \/ Resolve("built", "resolving") \/ Resolve("deployed", "comparing") \/ Walk \/ EndResolve
  \/ Batch \/ BatchElement \/ EndBatch
  \/ (\E n \in 0 .. Len(plan.order) : Deploy(n)) \/ Edit \/ Diff
  \/ Ended

BuildSpec == BuildInit /\ [][BuildNext]_allVars

-----------------------------------------------------------------------------
Outcomes == {"building", "built", "resolving", "resolved", "batching", "batched", "deployed", "comparing",
  "compared"}
Errors == {"DeploymentFileError", "BindingsConflict", "TemplateNotFound", "ShouldRedeployAlreadyDefinedError",
  "EventNameExistsError", "ModuleIsAlreadyInitialized", "MissingContractMetadata", "AbiMismatch",
  "TypeError", "ContractTypeMismatch", "overflow", "UsageEventNotFound", "CliError",
  "EventUsageIsNotDeployed", "EventDependencyNotDeployedError"}

\* The types of the state.
TypeOK ==
  /\ Typed
  /\ status \in Outcomes \cup Errors
  /\ plan.error \in Errors \cup {Nothing} /\ batched.error \in Errors \cup {Nothing}
  /\ \A i \in DOMAIN plan.order : plan.order[i].name \in Names \cup EventNames
  /\ changed \subseteq Contracts
  /\ answer \in {"none", "diff", "same", "TypeError"} \cup Errors

Resolved == status \in {"resolved", "batching", "batched", "compared"} /\ ~Failed(plan)
Position(n) == CHOOSE i \in DOMAIN plan.order : plan.order[i].name = n
InPlan(n) == \E i \in DOMAIN plan.order : plan.order[i].name = n
Comes(n, m) == InPlan(n) /\ InPlan(m) /\ Position(n) < Position(m)
\* A hook of the module that has the name of a contract's hook takes its
\* place: neither of them is then where it should be.
Shadowed(e) == \E t \in ModuleHookTypes : e.name \in Range(moduleEvents[t])

\* The order of a sequential deployment: a contract comes after those it is
\* built from (its arguments, its libraries, the dependencies of its deploy
\* function) and after the hooks that run before its deployment, and a hook
\* that runs after a deployment comes after the contracts and the hooks it
\* depends on and after the contracts it uses.  The code does not order the
\* hooks that a hook uses: _addEvent (module-resolver.ts:404-419) only looks
\* whether the contracts of such a hook are in moduleState, and after it the
\* used hook may still be to come.  Nor does a hook that runs before a
\* deployment wait for the hooks it depends on.
OrderRespectsDependencies ==
  Resolved =>
    /\ \A i \in DOMAIN bindings : LET b == bindings[i].name IN
         \A d \in Range(ArgsOf(b)) \cup Range(LibsOf(b)) \cup Range(bindings[i].deployDeps) : Comes(d, b)
    /\ \A i \in DOMAIN events : LET e == events[i] IN
         InPlan(e.name) /\ ~Shadowed(e) =>
           /\ e.type \in Before => \A d \in Range(e.deps) : Comes(e.name, d)
           /\ e.type \in After => \A d \in Range(e.deps) \cup Range(e.eventDeps) \cup Range(e.usage) :
                                     Comes(d, e.name)

\* Nothing that is declared is left out of a deployment, except hooks of
\* groups that have no contract.
NothingDropped ==
  Resolved =>
    /\ \A b \in BindingNames : InPlan(b)
    /\ \A i \in DOMAIN events : events[i].deps # <<>> => InPlan(events[i].name)
    /\ \A t \in ModuleHookTypes \ {"onFail"} : \A e \in Range(moduleEvents[t]) : InPlan(e)

\* A number that the validator lets through is one that the constructor takes.
\* (It lets an array of them through as well.)
AcceptedNumbersFit ==
  status \in {"built", "resolved", "deployed"} =>
    \A i \in DOMAIN bindings : \A k \in DOMAIN bindings[i].args :
      LET v == bindings[i].args[k]
          types == Inputs[bindings[i].contractName] IN
      k \in DOMAIN types /\ v.kind = "number" /\ ~v.array => Fits(v.num, types[k])

IsBatched == status = "batched" /\ ~Failed(batched)
BatchOf(n) == batched.at[n]

\* The batches have no hole, which the loop over them would trip over, and
\* every element is in one of them, once.  Contracts that are deployed from
\* contracts of the same call of _handleElement are lost.
Lost(n) == batched.at[n] = NaN
LibraryWithArgs == \E i \in DOMAIN bindings : bindings[i].library /\ ArgsOf(bindings[i].name) # <<>>
BatchesAreComplete ==
  IsBatched =>
    /\ DOMAIN batched.batches \ {NaN} = 0 .. BatchCount(batched) - 1
    /\ \A i \in DOMAIN plan.order :
         \E n \in DOMAIN batched.batches : \E k \in DOMAIN batched.batches[n] :
           /\ batched.batches[n][k] = plan.order[i].name
           /\ \A m \in DOMAIN batched.batches : \A j \in DOMAIN batched.batches[m] :
                batched.batches[m][j] = plan.order[i].name => m = n /\ j = k
    /\ (NaN \in DOMAIN batched.batches => LibraryWithArgs)

\* A contract is in a later batch than its constructor arguments, and than the
\* libraries it is linked with that are declared by library(), unless it is one
\* itself; and a hook that runs after a deployment is in a later batch than
\* what it depends on or uses, the sends of a batch being concurrent.
\* _handleElement looks at nothing else: a contract may share its batch with a
\* library that is declared by contract() and with the dependencies of its
\* deploy function, or be in an earlier one.
BatchesRespectDependencies ==
  IsBatched /\ ~LibraryWithArgs =>
    /\ \A b \in BindingNames : \A d \in Range(ArgsOf(b)) : BatchOf(d) < BatchOf(b)
    /\ \A b \in BindingNames : ~Binding(b).library =>
         \A d \in Range(LibsOf(b)) : Binding(d).library => BatchOf(d) < BatchOf(b)
    /\ \A i \in DOMAIN events : LET e == events[i] IN
         e.type \in After /\ InPlan(e.name) /\ ~Shadowed(e) =>
           \A d \in Range(e.deps) \cup Range(e.eventDeps) \cup Range(e.usage) \cup Range(e.eventUsage) :
              BatchOf(d) < BatchOf(e.name)

\* diff reports no difference only if there is nothing to deploy: each
\* contract of the module has been deployed with its bytecode and arguments.
\* It does not look at the names of contracts, nor at hooks not executed yet.
NoDiffMeansDeployed ==
  answer = "same" =>
    \A i \in DOMAIN bindings : \E k \in DOMAIN stored :
      /\ stored[k].address /\ stored[k].args = bindings[i].args
      /\ stored[k].bytecode = Element([name |-> bindings[i].name, type |-> "contract"], TRUE).bytecode
=============================================================================
