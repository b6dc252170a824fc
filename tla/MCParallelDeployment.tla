------------------------ MODULE MCParallelDeployment ------------------------
EXTENDS ParallelDeployment

\* The module: B is built from A, and C from nothing; hook b runs before the
\* deployment of B, hook a after that of A, c after those of B and C, d of B.
Binding(n, args) ==
  [name |-> n, contractName |-> n, args |-> args, library |-> FALSE, custom |-> FALSE, deployDeps |-> <<>>,
   force |-> FALSE, redeploy |-> FALSE,
   hooks |-> [t \in {"beforeCompile", "afterCompile", "beforeDeploy", "afterDeploy", "onChange"} |->
     CASE t = "beforeDeploy" /\ n = "B" -> <<"b">>
       [] t = "afterDeploy" /\ n = "A"  -> <<"a">>
       [] t = "afterDeploy" /\ n = "B"  -> <<"c", "d">>
       [] t = "afterDeploy" /\ n = "C"  -> <<"c">>
       [] OTHER -> <<>>]]
Arg(n) == [array |-> FALSE, kind |-> "binding", name |-> n, num |-> 0]
Hook(n, type, deps) ==
  [name |-> n, type |-> type, deps |-> deps, eventDeps |-> <<>>, usage |-> <<>>, eventUsage |-> <<>>]

MCContracts == {"A", "B", "C"}
MCEvents == {"a", "b", "c", "d"}
NoArgs == [n \in MCContracts |-> <<>>]

Batcher == INSTANCE EventsBatcher WITH
  Contracts <- MCContracts, Templates <- {}, Aliases <- {}, EventNames <- MCEvents,
  Inputs <- NoArgs, Links <- NoArgs, SubModules <- {}, UsageModules <- {}, HookTypes <- {},
  Budgets <- {}, MaxRefs <- 0,
  bindings <- <<Binding("A", <<>>), Binding("B", <<Arg("A")>>), Binding("C", <<>>)>>,
  events <- <<Hook("a", "afterDeploy", <<"A">>), Hook("b", "beforeDeploy", <<"B">>),
              Hook("c", "afterDeploy", <<"B", "C">>), Hook("d", "afterDeploy", <<"B">>)>>,
  moduleEvents <- [t \in {"onStart", "onSuccess", "onCompletion", "onFail"} |-> <<>>],
  templates <- {}, open <- <<>>, initialized <- {}, status <- "resolved", budget <- <<>>

\* The walk of the resolver and the calls of _handleElement, to their ends.
\* (A set of one is a value that TLC has computed once.)
RECURSIVE Walked(_), Handled(_)
Walked(r) ==
  IF r.todo = <<>> THEN {r} ELSE UNION {Walked(next) : next \in {Batcher!Step(r)}}
Handled(r) ==
  IF r.todo = <<>> THEN {r} ELSE UNION {Handled(next) : next \in {Batcher!HandleElement(r)}}

MCBatches == <<<<"A", "C">>, <<"a", "b", "B">>, <<"c", "d">>>>

\* The batches are those of the batcher: otherwise there is no initial state.
MCInit ==
  /\ \A walk \in Walked(Batcher!OrderToResolve) : \A batched \in Handled(Batcher!ElementsToBatch(walk.order)) :
       MCBatches = [n \in 1 .. Batcher!BatchCount(batched) |-> batched.batches[n - 1]]
  /\ Init
MCSpec == MCInit /\ [][Next]_vars /\ WF_vars(status = "running" /\ Process)

MCArgs == [c \in MCContracts |-> IF c = "B" THEN {"A"} ELSE {}]
MCDeps == [e \in MCEvents |-> CASE e = "a" -> {"A"} [] e = "c" -> {"B", "C"} [] OTHER -> {"B"}]
MCCalls == [e \in MCEvents |-> IF e = "a" THEN 2 ELSE 0]
=============================================================================
