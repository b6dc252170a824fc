---------------------------- MODULE EventsBatcher ----------------------------
(***************************************************************************)
(* The batches of a parallel deployment: the loops of _executeParallel,    *)
(* _handleElement for contracts and the Batcher for event hooks.           *)
(*                                                                         *)
(* A batching r has the batches, the batch of each element                *)
(* (elementsBatches), the error that ended it, and the calls of            *)
(* _handleElement that are left to do.  Batch numbers count from 0 and may *)
(* be NaN.                                                                 *)
(***************************************************************************)
EXTENDS ModuleOrder

NaN == -1                         \* batches[NaN] is a property that no loop visits

Batched(r, n) == n \in DOMAIN r.at

\* batches[n].push(element), in a batch that is created if it is missing.
PushTo(r, n, name) ==
  [r EXCEPT !.batches =
     [k \in DOMAIN @ \cup {n} |->
        IF k # n THEN @[k] ELSE Append(IF n \in DOMAIN @ THEN @[n] ELSE <<>>, name)]]

PlaceOnly(r, n, name) == PushTo(r, n, name)  \* Mutant of Place: the batch is not written down

\* elementsBatches[name] = n, after the push.
Place(r, n, name) ==
  LET at == [x \in DOMAIN r.at \cup {name} |-> IF x = name THEN n ELSE r.at[x]]
  IN [PushTo(r, n, name) EXCEPT !.at = at]

\* batches.length
BatchCount(r) ==
  LET used == {n + 1 : n \in DOMAIN r.batches} IN IF used \subseteq {0} THEN 0
  ELSE CHOOSE n \in used : \A m \in used : m <= n

\* The batches of those of the names that have one.
BatchesOf(r, names) == {r.at[n] : n \in {names[i] : i \in DOMAIN names} \cap DOMAIN r.at} \ {NaN}
Deepest(S, least)    == CHOOSE n \in S \cup {least} : \A m \in S \cup {least} : m <= n
Shallowest(S, most)  == CHOOSE n \in S \cup {most} : \A m \in S \cup {most} : n <= m

(***************************************************************************)
(* _handleElement of a contract: one batch below its arguments.  The batch *)
(* of an argument that has to be batched first is lost: the code reads the *)
(* one of the element itself, which is undefined.                          *)
(***************************************************************************)
Call(x, n) ==
  [element |-> x, current |-> n, args |-> IF IsContract(x) THEN ArgsOf(x.name) ELSE <<>>]
ContractElement(b) == [name |-> b, type |-> "contract"]

Level(r, n, names) == IF n = NaN THEN NaN ELSE Deepest({m + 1 : m \in BatchesOf(r, names)}, n)

BatchBinding(r, call) ==
  LET args      == call.args
      unbatched == {i \in DOMAIN args : ~Batched(r, args[i])}
      first     == CHOOSE i \in unbatched : \A j \in unbatched : i <= j
      argument  == Call(ContractElement(args[first]), Level(r, call.current, SubSeq(args, 1, first - 1)))
      others    == [call EXCEPT !.current = NaN, !.args = SubSeq(@, first + 1, Len(@))]
  IN IF Batched(r, call.element.name) THEN r
     ELSE IF unbatched = {} THEN Place(r, Level(r, call.current, args), call.element.name)
     ELSE [r EXCEPT !.todo = <<argument, others>> \o @]

Smaller(n, m) == IF n < m THEN n ELSE m

\* _handleBeforeDeployEvents
BatchBefore(r, e) ==
  LET deps    == BatchesOf(r, e.deps) \cup BatchesOf(r, e.eventDeps)
      usages  == BatchesOf(r, e.usage) \cup BatchesOf(r, e.eventUsage)
      shallow == Shallowest(deps, BatchCount(r))
      deep    == Deepest(usages, 0)
  IN IF deep > shallow THEN Fail(r, "CliError")
     ELSE Place(r, Smaller(deep + 1, IF shallow > 0 THEN shallow - 1 ELSE 0), e.name)

BatchAfterSame(r, e) ==  \* Mutant of BatchAfter: the counter is not incremented
  LET all == e.usage \o e.deps \o e.eventDeps \o e.eventUsage
  IN IF \E i \in DOMAIN all : ~Batched(r, all[i]) THEN Fail(r, "EventDependencyNotDeployedError")
     ELSE Place(r, Deepest(BatchesOf(r, all), 0), e.name)

\* _handleAfterDeployEvents
BatchAfter(r, e) ==
  LET unbatched(names) == \E i \in DOMAIN names : ~Batched(r, names[i])
      all == e.usage \o e.deps \o e.eventDeps \o e.eventUsage
  IN IF unbatched(e.usage) THEN Fail(r, "EventUsageIsNotDeployed")
     ELSE IF unbatched(e.deps) \/ unbatched(e.eventDeps) THEN Fail(r, "EventDependencyNotDeployedError")
     ELSE IF unbatched(e.eventUsage) THEN Fail(r, "EventUsageIsNotDeployed")
     ELSE Place(r, Deepest(BatchesOf(r, all), 0) + 1, e.name)

\* _baseEventHandling
BaseEvent(r, e) == IF e.type \in Before THEN BatchBefore(r, e) ELSE BatchAfter(r, e)

\* _handleEvent: module events go to the first batch.
HandleEvent(r, x) ==
  IF x.type \in ModuleHookTypes THEN PushTo(r, 0, x.name) ELSE BaseEvent(r, EventOf(x.name))

\* The next call of _handleElement.
HandleElement(r) ==
  LET call  == Head(r.todo)
      after == [r EXCEPT !.todo = Tail(@)]
  IN IF IsContract(call.element) THEN BatchBinding(after, call) ELSE HandleEvent(after, call.element)

\* The loops of _executeParallel: libraries first, in a batch of their own.
ElementsToBatch(order) ==
  LET libraries == Those(order, {x \in Range(order) : IsContract(x) /\ Binding(x.name).library})
      rest      == IF libraries = <<>> THEN 0 ELSE 1
  IN [batches |-> [n \in {} |-> <<>>], at |-> [n \in {} |-> 0], error |-> Nothing,
      todo |-> [i \in DOMAIN libraries |-> Call(libraries[i], 0)]
                 \o [i \in DOMAIN order |-> Call(order[i], rest)]]
=============================================================================
