---------------------------- MODULE ModuleBuilder ----------------------------
(***************************************************************************)
(* The module function of a user, as a sequence of calls of the DSL of     *)
(* ModuleBuilder, ContractBinding and GroupedDependencies, in the module   *)
(* and in its sub-modules, which share the builder (Module.init), up to    *)
(* handleModule, which checks what was declared.                           *)
(***************************************************************************)
EXTENDS ModuleValidator, SequencesExt

CONSTANTS
  Contracts,   \* names of contracts and libraries, as compiled
  Templates,   \* names of contracts that bindTemplate may bind under another name
  Aliases,     \* the names it binds them under
  EventNames,  \* names of event hooks
  Inputs,      \* contract -> the types of its constructor
  Links,       \* contract -> the libraries it links
  SubModules,  \* Module objects for useModule
  UsageModules, \* those of them that buildUsage has made
  HookTypes,   \* the kinds of contract hooks that are declared
  Budgets,     \* bounds: how many bindings, events, module events, uses of a
               \* sub-module and settings a module function may have, which
               \* literals it passes, and which contracts it declares with library()
  MaxRefs      \* bound: references of an event

Before == {"beforeCompile", "afterCompile", "beforeDeploy"}
After  == {"afterDeploy", "onChange"}
ModuleHookTypes == {"onStart", "onSuccess", "onCompletion", "onFail"}
Names == Contracts \cup Aliases

Literal == [array : BOOLEAN, kind : {"number", "bignumber", "string", "boolean"}, name : STRING, num : Int]
Allowance == [bindings : Nat, events : Nat, moduleEvents : Nat, subModules : Nat, settings : Nat,
  edits : Nat, literals : SUBSET Literal, libraries : SUBSET Contracts]

ASSUME BuilderAssumption ==
  /\ HookTypes \subseteq Before \cup After
  /\ Templates \subseteq Contracts /\ UsageModules \subseteq SubModules
  /\ Inputs \in [Contracts -> Seq([array : BOOLEAN, base : STRING, bits : Nat \ {0}])]
  /\ Links \in [Contracts -> Seq(Contracts)]
  /\ Budgets \subseteq Allowance /\ MaxRefs \in Nat
  /\ Names \cap EventNames = {}      \* moduleState is keyed by name

VARIABLES
  bindings,      \* _bindings, in the order of insertion
  events,        \* _contractEvents, in the order of insertion
  moduleEvents,  \* _moduleEvents: the names of each kind, in order
  templates,     \* _templates
  open,          \* sub-module -> how many of its functions are running
  initialized,   \* the sub-modules whose init has ended
  status,        \* "building", "built", or how init ended
  budget         \* what is left of the bound

vars == <<bindings, events, moduleEvents, templates, open, initialized, status, budget>>

NoHooks == [t \in Before \cup After |-> <<>>]

BindingNames == {bindings[i].name : i \in DOMAIN bindings}
NamesOfEvents == {events[i].name : i \in DOMAIN events}
\* checkIfExist(this._bindings[name]), checkIfExist(this._contractEvents[name])
IsBound(n) == n \in BindingNames
EventExists(e) == e \in NamesOfEvents

(***************************************************************************)
(* new ContractBinding(...), without the services, which are set by the    *)
(* resolver.  bytecode and abi come with handleModule.                     *)
(***************************************************************************)
NewBinding(n, contractName, args, library) ==
  [name |-> n, contractName |-> contractName, args |-> args, library |-> library,
   custom |-> FALSE, deployDeps |-> <<>>, force |-> FALSE, redeploy |-> FALSE, hooks |-> NoHooks]

\* The elements of s that are in S, in their order.
Those(s, S) ==
  LET places == {i \in DOMAIN s : s[i] \in S}
      nth(n) == CHOOSE i \in places : Cardinality({j \in places : j <= i}) = n
  IN [n \in 1 .. Cardinality(places) |-> s[nth(n)]]

NewEventUnsplit(e, type, deps, usages) ==  \* Mutant of NewEvent: events are taken for bindings
  [name |-> e, type |-> type, deps |-> deps, eventDeps |-> <<>>, usage |-> usages, eventUsage |-> <<>>]

\* generateBaseEvent: dependencies and usages, bindings and events apart.
NewEvent(e, type, deps, usages) ==
  [name |-> e, type |-> type,
   deps |-> Those(deps, BindingNames), eventDeps |-> Those(deps, NamesOfEvents),
   usage |-> Those(usages, BindingNames), eventUsage |-> Those(usages, NamesOfEvents)]

Init ==
  /\ bindings = <<>> /\ events = <<>>
  /\ moduleEvents = [t \in ModuleHookTypes |-> <<>>]
  /\ templates = {}
  /\ open = [s \in SubModules |-> 0] /\ initialized = {}
  /\ status = "building"
  /\ budget \in Budgets

Building == status = "building"
Spend(what) == budget[what] > 0 /\ budget' = [budget EXCEPT ![what] = @ - 1]

\* An error that the module function throws; nothing of the builder is used.
Throws(error) ==
  /\ status' = error
  /\ UNCHANGED <<bindings, events, moduleEvents, templates, open, initialized>>

\* Bound: as many arguments as the constructor takes, or none.
Arguments(c) == UNION {[1 .. n -> {Bound(b) : b \in BindingNames} \cup budget.literals] : n \in {0, Len(Inputs[c])}}

(***************************************************************************)
(* contract(), and library(), which sets the flag of the result.  A name   *)
(* that is bound already is to end the process: what cli.exit throws for   *)
(* it, Module.init takes for an error of the module function.              *)
(***************************************************************************)
Contract(n, args, library) ==
  /\ Building /\ Spend("bindings")
  /\ IF IsBound(n) THEN Throws("DeploymentFileError")
     ELSE /\ bindings' = Append(bindings, NewBinding(n, n, args, library))
          /\ UNCHANGED <<events, moduleEvents, templates, open, initialized, status>>

ContractTemplate(t) ==
  /\ Building /\ Spend("settings")
  /\ templates' = templates \cup {t}
  /\ UNCHANGED <<bindings, events, moduleEvents, open, initialized, status>>

BindTemplate(n, t, args) ==
  /\ Building /\ Spend("bindings")
  /\ IF IsBound(n) THEN Throws("BindingsConflict")
     ELSE IF t \notin templates THEN Throws("TemplateNotFound")
     ELSE /\ bindings' = Append(bindings, NewBinding(n, t, args, FALSE))
          /\ UNCHANGED <<events, moduleEvents, templates, open, initialized, status>>

Setting(i, binding) ==
  /\ Building /\ Spend("settings")
  /\ bindings' = [bindings EXCEPT ![i] = binding]
  /\ UNCHANGED <<events, moduleEvents, templates, open, initialized, status>>

\* deployFn(), with its dependencies; factoryCreate() is contract() and this.
DeployFn(i, deps) ==
  Setting(i, [bindings[i] EXCEPT !.custom = TRUE, !.deployDeps = deps])

SetForce(i) == Setting(i, [bindings[i] EXCEPT !.force = TRUE])

ShouldRedeploy(i) == Setting(i, [bindings[i] EXCEPT !.redeploy = TRUE])

\* GroupedDependencies.shouldRedeploy, which does not overwrite.
GroupShouldRedeploy(group) ==
  /\ Building /\ Spend("settings")
  /\ IF \E i \in group : bindings[i].redeploy THEN Throws("ShouldRedeployAlreadyDefinedError")
     ELSE /\ bindings' = [i \in DOMAIN bindings |->
                 IF i \in group THEN [bindings[i] EXCEPT !.redeploy = TRUE] ELSE bindings[i]]
          /\ UNCHANGED <<events, moduleEvents, templates, open, initialized, status>>

(***************************************************************************)
(* beforeCompile(), ..., onChange() of a binding and of a group: the name  *)
(* goes into the list of each binding and the event into the builder.  A   *)
(* list has only names of events that exist, so that a name in use is an   *)
(* error either way.                                                       *)
(***************************************************************************)
Listed(owners, e, type) ==
  [i \in DOMAIN bindings |->
     IF bindings[i].name \in owners THEN [bindings[i] EXCEPT !.hooks[type] = Append(@, e)]
                                    ELSE bindings[i]]

AddEvent(event) ==
  /\ events' = Append(events, event)
  /\ bindings' = Listed(Range(event.deps), event.name, event.type)
  /\ UNCHANGED <<moduleEvents, templates, open, initialized, status>>

Hook(b, e, type, usages) ==
  /\ Building /\ Spend("events")
  /\ IF EventExists(e) THEN Throws("EventNameExistsError")
     ELSE AddEvent(NewEvent(e, type, <<b>>, usages))

GroupHook(group, e, type, usages) ==
  /\ Building /\ Spend("events")
  /\ IF EventExists(e) THEN Throws("EventNameExistsError")
     ELSE AddEvent(NewEvent(e, type, group, usages))

\* onStart(), onCompletion(), onSuccess() and onFail() overwrite.
ModuleHook(e, type) ==
  /\ Building /\ Spend("moduleEvents")
  /\ moduleEvents' = [moduleEvents EXCEPT ![type] = IF e \in Range(@) THEN @ ELSE Append(@, e)]
  /\ UNCHANGED <<bindings, events, templates, open, initialized, status>>

\* sendAfterDeploy: a hook of the setter's group that calls it; those of its
\* arguments that are contracts or events are the usages.
SendAfterDeploy(setter, args, deps, e) ==
  GroupHook(<<setter>> \o deps, e, "afterDeploy",
            Those(args, BindingNames \cup NamesOfEvents))

\* proxySetNewLogic: a hook of the two that sets the logic contract.
ProxySetNewLogic(proxy, logic, e) == GroupHook(<<proxy, logic>>, e, "afterDeploy", <<>>)

\* filler: a hook with a fixed name.
FillerName == "on start distribute ethers to all accounts"
Filler == ModuleHook(FillerName, "onStart")

ASSUME FillerAssumption == FillerName \in EventNames

\* handleModule: every binding of the shared builder is validated, those of
\* the module that is still being declared too, unless by a usage module.
HandleError(isUsage) ==
  LET error(i) ==
        IF bindings[i].contractName \notin DOMAIN Inputs THEN "MissingContractMetadata"
        ELSE IF isUsage THEN Nothing
        ELSE BindingError(bindings[i].args, Inputs[bindings[i].contractName], bindings[i].custom)
      wrong == {i \in DOMAIN bindings : error(i) # Nothing}
  IN IF wrong = {} THEN Nothing ELSE error(CHOOSE i \in wrong : \A j \in wrong : i <= j)

\* useModule() up to the first await of the sub-module's function.  It may be
\* called again, or the declarations go on, before the function has ended.
UseModule(s) ==
  /\ Building /\ Spend("subModules")
  /\ IF s \in initialized THEN Throws("ModuleIsAlreadyInitialized")
     ELSE /\ open' = [open EXCEPT ![s] = @ + 1]
          /\ UNCHANGED <<bindings, events, moduleEvents, templates, initialized, status>>

\* The rest of Module.init and of useModule: the bindings and events to be
\* merged are those of this builder already.
EndUse(s) ==
  /\ Building /\ open[s] > 0
  /\ LET error == HandleError(s \in UsageModules) IN
     IF error # Nothing THEN Throws(error)
     ELSE /\ open' = [open EXCEPT ![s] = @ - 1]
          /\ initialized' = initialized \cup {s}
          /\ UNCHANGED <<bindings, events, moduleEvents, templates, status>>
  /\ UNCHANGED budget

\* Module.init of the module itself, which is not a usage, after its function,
\* which awaits the sub-modules.
EndModule ==
  /\ Building /\ \A s \in SubModules : open[s] = 0
  /\ status' = IF HandleError(FALSE) = Nothing THEN "built" ELSE HandleError(FALSE)
  /\ UNCHANGED <<bindings, events, moduleEvents, templates, open, initialized, budget>>

\* Lists of up to n different things.
Few(S, n) == {s \in UNION {[1 .. k -> S] : k \in 0 .. n} : IsInjective(s)}

(***************************************************************************)
(* Bounds on the order of declarations: bindings come before hooks, which  *)
(* refer to them; what comes after a binding that will be refused is of no *)
(* interest; and new names of events are taken in a fixed order.           *)
(***************************************************************************)
BindingsFirst == events = <<>> /\ HandleError(FALSE) = Nothing
HooksOfValid == HandleError(FALSE) = Nothing
SomeNames == NamesOfEvents \cup
  (IF EventNames \subseteq NamesOfEvents THEN {} ELSE {CHOOSE e \in EventNames : e \notin NamesOfEvents})

Declare ==
  \/ BindingsFirst /\
       \/ \E n \in Contracts : \E args \in Arguments(n) : Contract(n, args, n \in budget.libraries)
       \/ \E t \in Templates : ContractTemplate(t)
       \/ \E n \in Aliases, t \in Templates : \E args \in Arguments(t) : BindTemplate(n, t, args)
  \/ \E i \in DOMAIN bindings :
       \/ SetForce(i) \/ ShouldRedeploy(i)
       \/ \E deps \in Few(BindingNames, 1) : DeployFn(i, deps)
  \/ \E group \in SUBSET DOMAIN bindings : GroupShouldRedeploy(group)
  \/ HooksOfValid /\ \E e \in SomeNames, type \in HookTypes :
       LET things == BindingNames \cup NamesOfEvents IN
       \/ \E b \in BindingNames, usages \in Few(things, MaxRefs - 1) : Hook(b, e, type, usages)
       \/ \E group \in Few(things, MaxRefs), usages \in Few(things, MaxRefs - 1) :
            /\ Len(group) + Len(usages) \in 1 .. MaxRefs /\ group # <<>>
            /\ GroupHook(group, e, type, usages)
       \/ /\ type = "afterDeploy"
          /\ \E b \in BindingNames, args \in Few(things \cup {"a value"}, MaxRefs - 1) :
               SendAfterDeploy(b, args, <<>>, e)
       \/ /\ type = "afterDeploy"
          /\ \E proxy, logic \in BindingNames :
               proxy # logic /\ ProxySetNewLogic(proxy, logic, e)
  \/ HooksOfValid /\ \E e \in SomeNames, type \in ModuleHookTypes : ModuleHook(e, type)
  \/ HooksOfValid /\ Filler
  \/ \E s \in SubModules : UseModule(s) \/ EndUse(s)
  \/ EndModule

-----------------------------------------------------------------------------
Argument == [array : BOOLEAN, kind : {"number", "bignumber", "string", "boolean", "binding"},
  name : Names \cup STRING, num : Int]

BindingRecord == [name : Names, contractName : Contracts, args : Seq(Argument), library : BOOLEAN,
  custom : BOOLEAN, deployDeps : Seq(Names), force : BOOLEAN, redeploy : BOOLEAN,
  hooks : [Before \cup After -> Seq(EventNames)]]

EventRecord == [name : EventNames, type : HookTypes, deps : Seq(Names), eventDeps : Seq(EventNames),
  usage : Seq(Names), eventUsage : Seq(EventNames)]

Typed ==
  /\ bindings \in Seq(BindingRecord) /\ events \in Seq(EventRecord)
  /\ moduleEvents \in [ModuleHookTypes -> Seq(EventNames)]
  /\ templates \subseteq Templates /\ initialized \subseteq SubModules
=============================================================================
