# Hardhat Ignition, in TLA+

Specifications, model checking and proofs for the deployment engine of Hardhat
Ignition (`src/modules/ignition-core`). Paths below are relative to
`src/modules/ignition-core/src` unless they start with `docs`.

Hardhat Ignition deploys a *module*: contracts, libraries and event hooks that
call them. It keeps a state file, so that a deployment that crashed, failed or
was changed can be run again and continues where it stopped. The questions that
matter are about that rerun: is anything done twice, is anything left out, is
anything forgotten, can it get stuck? Around them come the ones about what a
run starts from: is the order of the elements right, is every transaction sent
with the right nonce, which state file does a process read?

## The system

| Component | State | Operations | Talks to |
|---|---|---|---|
| Hardhat plugin (`modules/ignition-hardhat-plugin/src`) | `env.ignition`, one core per process | the tasks `ignition:deploy`, `diff`, `genTypes`; the network and its parameters | `IgnitionCore` |
| `IgnitionCore` (`index.ts`) | services, custom services | `deploy`, `diff`, `genTypes`, `setup` | all below |
| `Module` (`interfaces/hardhat-ignition.ts`) | `initialized`, per object and so per process | `init`, `useModule` | builder |
| `ModuleBuilder`, `Template`, bindings, macros | bindings, events, module events | the DSL | read by the resolver |
| `ModuleValidator`, type checker | none | the arguments of constructors against their types | bindings |
| `ModuleResolver` (`services/modules/module-resolver.ts`) | none; mutates the state file's objects | `resolve`, `checkIfDiff`, ordering, invalidation | state repo (old state), executor (new state), user (`wrongNetwork`) |
| `TxExecutor` (`services/ethereum/transactions/executor.ts`) | none of its own; `moduleState` | `execute`, `_executeSync`, `_executeParallel`, `executeModuleEvents` | handler, generator, state repo, node |
| `EventsBatcher` (`services/modules/events/batcher.ts`) | `elementsBatches` | batches of parallel mode | executor |
| `EventHandler` (`services/modules/events/handler.ts`) | `executed` of events | one method per kind of hook | state repo, user code |
| `ContractInstance` wrapper (`interfaces/hardhat-ignition.ts`) | `contractTxProgress` | a contract function | event executor, generator, state repo |
| `EventTxExecutor` (`.../event-executor.ts`) | `_rootEvents`, the mutex | `add`, `executeSingle`, `executeAll` | KeyMutex, state repo, node |
| `KeyMutex`, `Mutex` (`services/utils/mutex`) | chain of promises | `acquireQueued`, release | – |
| `EthTxGenerator`, `TransactionManager`, `IgnitionSigner` | a nonce map per manager, gas price backoff | `initTx`, `fetchTxData`, `getAndIncrementTransactionCount`, `sendTransaction` | node |
| `ModuleStateRepo`, `FileSystemModuleState`, `MemoryModuleState` (`services/modules/states`) | current module and event, one state file per module and network name | `store*`, `finish*`, `getEventTransactionData` | file system |
| `StateMigrationService`, `StateResolver` | none | builds of truffle and hardhat-deploy into state files | file system |
| `ModuleDeploymentSummaryService` | timer | `showSummary` | state repo |
| typings, errors, gas calculators, wallet wrapper, extractor, logging | – | conversions, I/O | – |

Everything runs in one JavaScript thread: steps interleave only at an `await`.
The components call each other and share `moduleState`, one object that the
resolver builds and everybody changes, and the state file, which every store
reads, changes and writes as a whole.

What is hard:

* **Crash and rerun.** The state file is written between any two awaits, and a
  process can end at any of them. A transaction can be sent and not recorded, and
  `writeFileSync` can leave half a file.
* **Two copies of the state.** Contract calls are recorded in the file only;
  finishing an event stores the whole memory over the file.
* **Replay.** A rerun executes the hook of an unfinished event from its start;
  its calls are matched with recorded receipts by counting.
* **Invalidation.** Redeploying a contract takes addresses and executed events
  back, which later steps rely on.
* **Concurrent hooks.** In parallel mode the hooks of a batch run at once, each
  call executes all the registered calls, and the stores of the one file
  overlap: only the write is behind a lock, not the read before it.
* **Failures.** An error in the middle of a call leaves locks and registrations
  behind, a nonce taken and not used, and the `onFail` hook runs after that.
* **Nonces.** A nonce is read from a map, awaited from the node the first time,
  and written afterwards; a custom service brings a second map; other programs
  and earlier processes know of none.
* **Order.** Contracts, libraries, hooks and what hooks use are ordered by a
  depth first walk over a module that users write in any order, with sub-modules
  that run while the module goes on.
* **Processes and objects.** A module object stays initialized in its process
  even when its deployment failed; the state is looked up by the name of a
  network, which can be restarted empty or be another chain.

What makes each component correct: the mutex excludes, in order, and starves
nobody; the executor has one unconfirmed transaction per sender, sends no call
of hooks that run one after the other twice, and answers a hook only when its
receipt is recorded; the deployment takes back nothing that is done, resends
nothing that is recorded, reports success only if all is done, and gets done if
it is retried; the resolver returns an order that leaves nothing out, in which
a contract comes after all it is built from and a hook after the contracts it
uses and what it depends on; the batches leave nothing out either, and have a
contract after its constructor arguments and declared libraries, and a hook
after what it depends on or uses; the nonces of an account are used once and
without gaps; no deployment pays more than the maximal gas price; concurrent
stores lose no contract; a task that succeeds means a deployed module, on the
network of the process, and nothing is created twice unless its creation was
undone. The code keeps several of these up to a condition (below).

## Modules

| Module | Models | State and actions |
|---|---|---|
| `FifoLock` | what a keyed mutex promises | `ahead`: whom each acquisition waits for |
| `KeyMutex` | `KeyMutex` | `lock` is `_lock`; an acquisition is one call of `acquireQueued` and stands for the promise that it creates; `AcquireQueued`, `Grant` (the `then`), `Release`, and `Abandon`, the caller that throws |
| `EventTxExecutor` | `EventTxExecutor` under the hooks of `TxExecutor` | `rootEvents` is `_rootEvents`; a worker per caller and sender, `work`, `step`; `queue` is the mutex; `ExecuteSingle` is `add`, `executeSingle` and `executeAll` up to the first await, `Send`, `Confirm`, `Store` are the worker between awaits, `Throw` its failure under the lock, `StoreFails` the one of the store after the lock is released |
| `Deployment` | `deploy` in sequential mode, with state file and reruns | `file` and `mem`, the two copies; `progress`; `pos` and `pc`, the place in `_executeSync`; `created` and `calls`, the chain |
| `ModuleValidator` | the validator and the type checker | operators: `Accepted`, the widths of integers, bytes and addresses |
| `ModuleBuilder` | the DSL: `contract`, `library`, `contractTemplate`, hooks, groups, module events, sub-modules, settings, macros | `bindings`, `events`, `moduleEvents`, `templates`; `open`, the module functions that have not returned (a sub-module runs while its parent goes on); one action per function of the DSL |
| `ModuleOrder` | `_resolveContractsAndEvents`, `checkIfDiff` | operators: a walk is a record of the order so far, its error and the tasks still to do (`todo`); `OrderToResolve` is its start, `Step` does the next task, which `Expansion` replaces by what it calls; `CheckIfDiff` |
| `EventsBatcher` | `_executeParallel` before `_executeBatches`, `_handleElement`, `EventsBatcher` | operators: a batching is a record of the batches, the batch of each element, the error and the calls of `_handleElement` still to do; `ElementsToBatch` is its start, `HandleElement` does the next call |
| `ModuleBuild` | the way of a module from its function to `diff` | `plan`, the walk; `batched`, the batching; `stored`, the state file. `Resolve`, `Walk`, `EndResolve`; then `Batch`, `BatchElement`, `EndBatch`, or `Deploy(n)` (a deployment that ends after n elements), `Edit`, and `Resolve`, `Walk`, `Diff` |
| `ParallelDeployment` | `_executeBatches` and `_executeEvents` over the state file, with reruns | `file`, `mem`; `writes`, the stores that have read and not written; `hook`, where each hook is, and `stored`, what it has stored of the contracts it depends on (`StoreDep`, one after the other); `batch`, `stage`; `StoreContract`, one contract of the batch after the other |
| `Transactions` | where nonce and gas price of a transaction come from, over the deployments of a process | `nonceMap` is `_nonceMap`; `req`, where each request is between the awaits of `initTx`, `fetchTxData`, `sendTransaction`; a request has the account whose lock it waits for, the one whose nonce it takes and the one that signs, which `withSigner` makes differ; `lock` per account; `next`, `pool`, the chain |
| `Project` | processes, tasks of the plugin, `IgnitionCore`, `Module.init`, the state files, migration | `records`, a state per module and key; `initialized`; `excluded`, the contracts whose module config says `deploy: false`; `rest`, the modules of the task; `Resolve` with what it redeploys and invalidates; `chain` |
| `KeyMutexProofs`, `EventTxExecutorProofs`, `DeploymentProofs`, `DeploymentRecordProofs`, `ParallelDeploymentProofs`, `TransactionsProofs`, `ProjectProofs`, `ModuleBuildProofs` | theorems and proofs | – |
| `MC*` | small instances for TLC | – |

How they compose. `KeyMutex` is shown to implement `FifoLock`; `EventTxExecutor`
uses that lock in the form of a queue per sender, and `Transactions` in its
weakest form, where any waiting worker may be next. `Deployment` uses
`EventTxExecutor` with a single hook at a time, where a call is one sequence:
send, store the input, store the receipt; the hook can fail between any two of
these. `ModuleBuild` extends
`EventsBatcher`, which extends `ModuleOrder`, `ModuleBuilder` and
`ModuleValidator` in turn: each reads what the one below has made.
`MCParallelDeployment` instantiates `EventsBatcher`, runs the walk and the batching of
its module to their ends, and requires that the batches
are the ones that `ParallelDeployment` executes (there is no initial state
otherwise), so that the two fit together.
`Project` has a whole execution as one step per contract; what happens inside it
is `Deployment` or `ParallelDeployment`.

Operators whose comment starts with "Mutant" are plausible bugs of the
definition that follows them. For each property, TLC finds it violated when one
of them takes the place of its original.

### What is abstracted

In general:

* An address or a receipt is the index of the creation or call on the chain.
  Bytecode, arguments other than contracts, gas and prices are left out, unless
  a module is about them.
* A hook calls the same functions in the same order in every run. The code
  matches calls with receipts by counting, so it relies on that too.
* Prompts are confirmed, except for the one of `wrongNetwork` in `Project`.
* `logicallyDeployed`, `lastEventName` and the compile metadata are left out.

`Deployment`, `EventTxExecutor`:

* A recorded input is only counted: the branch of the wrapper that compares
  recorded inputs is unreachable, because it requires a recorded output that
  the test before it has taken already.
* `changed` are the contracts whose bytecode differs (or that `shouldRedeploy`
  wants, or `forceFlag`), `config` the ones that the module config excludes.
* A store of the state file is one step: in the sequential mode no two stores
  overlap. Stores in parts are in `ParallelDeployment`, torn files in `Project`.
* In `EventTxExecutor` the registered calls are a set, in which each call has the
  number of its registration (`arrival`): the order of insertion of `_rootEvents`.
* In `EventTxExecutor` the promise of a call and the removal of its
  registration are one step: between the two there is a single microtask, and
  the hook that waits for the promise takes more than one to continue.

`ModuleBuild` and what it extends:

* The functions of the resolver and the batcher call each other recursively. Here
  such a recursion is a list of what is left to do, of which a step does the
  first, and puts what that calls before the rest: the same calls in the same
  order, a step at a time. A call of `_resolveContractsAndEvents` that comes back to
  itself before `moduleState` has grown is the overflow of the stack.
* An argument is a binding, a number or a string of digits, or an array of one;
  a type is an integer, bytes or an address of some width. An array for a scalar
  type is accepted, as in the code; tuples are left out.
* `shouldRedeploy` answers true where it is set. The parameters and actions of
  a module, and a sub-module within a sub-module, are left out.
* What a module may declare is bounded by a budget per kind, and names are
  chosen by symmetry: bindings come first (`BindingsFirst`) and take the first
  free name (`SomeNames`); names of hooks and of contracts differ.
* A module event that has the name of a contract's hook takes its place in
  `moduleState`, so that the properties of order leave that hook out
  (`Shadowed`).
* `UsageModules` are the sub-modules that `buildUsage` has made: at their end the
  arguments are not validated (`HandleError`).
* `Revised`, the state that `diff` compares with, keeps the addresses and events that the
  invalidation of a redeployed contract's arguments takes away: the comparison
  does not read them.

`ParallelDeployment`: no module config, no `deployFn`, no `onFail`; each hook
calls a contract of its own with its own signer, so that the locks of
`EventTxExecutor` do not matter here. `parallelizeDeployment` is a parameter of
`IgnitionCore` that it does not pass on: today this code is reached only by a
caller of `TxExecutor`.

`Transactions`: errors of the node, of `estimateGas` and of a hook are one `Fail`. A
hook may name a nonce for a transfer (`NamedNonces`); for a contract call the code
overwrites it. `withSigner` may give the shared instance any account between two
calls, and between a call and its execution. A call that two workers execute is two
requests. A custom manager uses the algorithm of the own one. A transaction with a
used nonce is refused, also where a node would take it for a replacement. Wallet
transfers ask for the nonce before the price, all others after it, as in the code.

`Project`: the modules that an `init` initializes are those of one walk, in the order
in which their `init` ends; a module that is initialized has initialized all that
it uses, so that the first place of the walk that is taken is where it fails.
One process at a time. A contract of a module is known by its name, and is built
from its constructor arguments (`Args`); linked libraries are not followed.
The contracts that changed, are forced or want to be redeployed are any set of
those with an address (`redo`), and the contracts that the module config excludes are
chosen with the process (`excluded`); each of both counts as a fault.
Networks are restarted between processes only. The migration is exported, but no
command calls it: it happens between processes. It writes files named by network
id while a deployment reads by network name, so one network has its id as name.

## Runs

| Run | Question | Bounds | Result |
|---|---|---|---|
| `key_mutex` | does the promise chain exclude, keep the order, starve nobody, implement `FifoLock`? | 4 acquisitions, 2 keys, any may never release: chains of up to four, and two keys at once | holds |
| `event_tx_executor` | calls of hooks that share senders, sequential and parallel | 2 events and `onFail`, 5 calls, 2 senders, 2 failures, under the lock or of the store of a receipt; one hook catches errors | holds |
| `event_tx_onfail` | does `onFail` run to its end? | 1 failure | violated |
| `deployment` | is anything lost, taken back, resent, left out; does a retried deployment succeed? | 3 contracts, one built from the first and one from both, 4 hooks that all call the first contract; 2 crashes or failures at any await; 1 changed or excluded contract | holds |
| `deployment_replay` | does `executed` mean that all calls were sent? | 1 crash, no change, no `onFail` | violated |
| `deployment_onfail` | does a recorded receipt stay recorded? | 1 failure | violated |
| `deployment_resume` | does a rerun with nothing changed skip what is deployed? | 1 crash or failure, no change | violated |
| `module_build` | are order and batches of every small module right, is `diff` ever blind? | all modules of up to 3 bindings, 2 hooks with 2 references each, a module event, a sub-module used twice, 2 settings, in eight mixes (`MCBudgets`); 1 edit | holds |
| `parallel` | do concurrent hooks and their stores lose anything, does a run end? | 3 contracts, two of them in one batch, a hook before a deployment, one with two calls, one that depends on two contracts, two hooks in the last of 3 batches; 2 crashes or failures anywhere | holds |
| `transactions` | are nonces fresh and gapless, the price within its limit, does a deployment end? | 2 accounts, 2 hooks and the creator of contracts, 3 requests in 2 deployments, custom services or not, 1 retry, 1 fault: a failure, a restart, a foreign transaction, a call after `withSigner` or a named nonce (a used one, or one with a gap below) | holds |
| `deployer` | does `setDeployer` choose the signer? | as before | violated |
| `project` | does a successful task mean that all is deployed, is anything created twice? | 3 processes with 3 tasks in all, 2 modules of which one uses the other, exported in both orders, with three contracts in a chain, 3 networks and the test environment, 2 faults: an interrupted task, a restarted network, a migration, an excluded or a redeployed contract | holds |

What the runs check, each by name (the comment at the definition says it in words):

* `key_mutex`: `TypeOK`, `MutualExclusion`, `UnlockedMeansReleased`, `IInv`,
  `NoStarvation`, `ImplementsFifoLock`.
* `event_tx_executor`: `TypeOK`, `OneInFlightPerSender`, `SequentialSentOnce`,
  `StoredBeforeResolved`, `BlockedOnlyAfterFailure`, `AnsweredUnlessSenderFailed`.
* `deployment`: `TypeOK`, `MemoryIsFile`, `AddressInv`, `SuccessIsComplete`,
  `NothingRolledBack`, `RecordedCallNotResent`, `SummaryFailsOnlyAfterLoss`,
  `Completes`.
* `module_build`: `TypeOK`, `OrderRespectsDependencies`, `NothingDropped`,
  `AcceptedNumbersFit`, `BatchesAreComplete`, `BatchesRespectDependencies`,
  `NoDiffMeansDeployed`.
* `parallel`: `TypeOK`, `DependenciesReady`, `EarlierBatchesStored`,
  `CompleteUnlessOverlapped`, `RecordedUnlessDisturbed`, `EndsUnlessHookFails`.
* `transactions`: `TypeOK`, `NoncesFresh`, `NoNonceMissing`, `PriceWithinMax`,
  `Settles`.
* `project`: `TaskMeansDeployed`, `CreatedOnce`.
* the violated ones: `OnFailRuns` (`event_tx_onfail`), `ExecutedMeansSent`
  (`deployment_replay`), `ReceiptsKept` (`deployment_onfail`), `DeployedSkipped`
  (`deployment_resume`), `DeployerSigns` (`deployer`).

The bounds of `deployment` are enough to reach every action, every pair of
interruptions (a crash during the recovery from another), a rerun after a
change, and hooks that share the progress counter of a contract. The two calls
of `beforeC` make the replay of a partly recorded event possible; `afterB` calls
two contracts, of which one has been called before. Leaving a contract out by
the module config reaches the failures the state itself causes: a hook that
calls what is not deployed (`A`), a missing constructor argument (`C`), a
missing dependency (`B`).

In `module_build` three bindings give chains, diamonds, cycles (by
libraries and hooks) and a library built from a contract; two hooks give every
pair of kinds and of dependencies between them. The numbers are at both ends
of an `int8`. In `parallel`, `c` and `d` are in one batch, so that each can
finish, store and be stored over while the other is anywhere, and a hook that
reads before and writes after another's finish occurs; `A` and `C` are in one
batch, so that a crash falls between the stores of the two, and `c` depends on `B`
and `C`, so that it does between their stores as well. In `transactions` two
hooks are enough to have somebody wait for a lock, three requests to have one in
flight, one pending before and one after it, two deployments for a map that
outlives the first; an account that is mixed up once costs nothing again, so that the other calls of
its contract go on with other signers. In `project` two tasks in a process and one in the next are
what a skipped module, or the file left by the process before, takes; two faults
are a crash and a reset, a torn file and a migration, or a crash and a contract
that changed. The chain `a`, `b`, `c` is what it takes for an invalidation to
reach the arguments of an argument, and `a` and `b` are contracts of both modules.

`CHECK_DEADLOCK FALSE` is set where the system ends: all acquisitions released,
all hooks done or waiting for a lock that is not released any more, the bound on
processes, deployments or stops used up, a batch that waits for a failed hook.
`Deployment` checks deadlock: a user can always run it again. `ModuleBuild`
checks it too: a module that is neither declared further, resolved nor rejected
would be one.

### What the conditions in the properties say

Several properties hold up to a condition. Each is a case in which the code does
not keep the promise: TLC finds it when the condition is removed.

* `SequentialSentOnce` (`StoreFailed`): the executor releases the lock before it
  stores the receipt (`event-executor.ts:129`). If the store throws, the call
  stays registered while its lock is free, and the `executeAll` of the next hook
  (that of `onFail`, or one after a hook that caught the error) sends it again.
* `RecordedCallNotResent` is stated for events whose contract no earlier event
  of the run has called. The shared progress counter
  (`interfaces/hardhat-ignition.ts:1190`) makes such a recorded call be sent again.
* `CompleteUnlessOverlapped` (`overlapped`): a store that has read the file
  before another hook finished writes back that the hook is not executed. The
  deployment succeeds, and a later run executes the hook again.
* `RecordedUnlessDisturbed` (`disturbed`): finishing a hook stores the memory over
  what other hooks of the batch have recorded.
* `EndsUnlessHookFails`: a hook that throws never settles the promise that
  `_executeEvents` waits for (`executor.ts:404`).
* `OrderRespectsDependencies` leaves out the hooks that a hook uses: `_addEvent`
  (`module-resolver.ts:404`) only looks whether their contracts are there. In sequence
  such a hook may run before the one it uses; in batches it may not.
* `BatchesAreComplete`, `BatchesRespectDependencies` (`LibraryWithArgs`): the batch
  of a library with constructor arguments is not a number. The second is about
  what `_handleElement` (`executor.ts:447`) looks at: a library that is declared by
  `contract()` and linked, or a dependency of a `deployFn`, can be in the batch of the
  contract that needs it.
* `NoncesFresh`, `NoNonceMissing`, `Settles` (`mixed`): `withSigner`
  (`interfaces/hardhat-ignition.ts:1155`) moves the nonce (1246) and the lock (1282) of
  the calls to another account, but the `ethers.Contract` made at 1116 signs as before,
  unlike what `docs/concepts/module_builder/contract_instance.md:20` says. And a hook may
  name a nonce for a transfer (1413). Nonces of these accounts can be used twice,
  leave gaps, and have a deployment wait for ever.
* `NoncesFresh` (`foreign`): an account with transactions that the map does not
  know of. `NoNonceMissing` (`lost`): a nonce that was taken for a transaction
  that was not sent; `foreign` is there for a process that is restarted after
  that with transactions pending, which takes two faults, one more than the run
  has. `Settles` (`lost`, `abandoned`): a lock kept by a failure. Foreign
  transactions make a deployment fail, but never wait for ever.
* `TaskMeansDeployed` (`skipsUnfinished`): `deploy` returns without a word for a
  module that is initialized (`index.ts:197`), which an unsuccessful `deploy`, or a
  `diff`, has done as well. `declined` and `reset`: after a "no" to `wrongNetwork`
  addresses without code stay; after a restart of the network another contract may be
  at an address, which `resolve` takes for the right one. A contract that the
  config of the deployed module excludes (`excluded`, `executor.ts:213`) stays
  without an address, and the deployment succeeds all the same.
* `CreatedOnce` (`kept`): what was created can be undone. By what happens to the file (a
  crash before the store, a torn file, a migration over it, the test environment) or to the
  network; and by `resolve`, which deploys again what has changed and, with
  any contract that it deploys again or for the first time, what this is built from
  (`module-resolver.ts:118`). After every crash between the two, the next
  deployment creates the arguments again; see `DeployedSkipped` below.
* The plugin's `ignition:diff` and `ignition:genTypes` iterate over a promise: they
  end without doing anything (`DiffTask`).

### Fairness

* `KeyMutex`: weak fairness of `Grant`. A resolved promise runs its callbacks.
  No fairness of `Release`: a holder may keep the lock, and `NoStarvation`
  says what is promised if no earlier one does.
* `EventTxExecutor`: weak fairness of the hooks' own steps and of each worker:
  the event loop runs, and a node answers. Failures are never forced.
* `Deployment`: weak fairness of the process as a whole, as it is one thread,
  and of running it again unchanged until it succeeds. Crashes, failures and
  changes are never forced, and bounded by `MaxStops` and `MaxChanges`; a
  failure that the state itself causes (a missing argument or dependency, the
  summary) is not bounded, so `Completes` would find a state that fails for ever.
* `ParallelDeployment`: weak fairness of a running process. The node answers and
  mines, the event loop goes on. No fairness of starting a run, of failures and
  crashes.
* `Transactions`: weak fairness of `Progress`: the node answers and mines what is
  minable, hooks go on. None of starting a deployment, of failures, restarts and
  the transactions of others. One condition for all of it is enough, since it is
  bounded: it can not go on for ever without the request that is waited for.
* `ModuleBuild` and `Project` state none, and no liveness: every step there is a
  decision of a user.

### What the violated properties show

1. **A replayed receipt is recorded again** (`event-executor.ts:130`,
   `ExecutedMeansSent`). The wrapper returns a recorded receipt instead of
   sending, and the executor stores what the wrapper returned. After a crash
   following the first of two calls, the rerun replays the first, the record
   now has two receipts, the second call finds one more than the progress, and
   is never sent. The event is marked executed. `docs/concepts/module_state_file`
   says that only an already executed transaction is not sent. The same happens
   with the receipts of calls to a contract that has been replaced, because
   invalidation leaves the record of an event that is not executed.
2. **`onFail` wipes the record of the failed event** (`state-repo.ts:249`,
   `ReceiptsKept`). Receipts are in the file only; finishing the hook stores the
   memory.
3. **A rerun deploys again what is deployed** (`module-resolver.ts:719`, and 118,
   `DeployedSkipped`). `resolve` treats a contract that the state file has without an
   address like one to be redeployed, and invalidates what it is built from: a
   rerun after a crash, with nothing changed, takes the addresses of the
   unfinished contract's arguments away, of their arguments too, and creates
   them and executes their events again. `docs/usage/deploy-module.md:31` says
   that what is already deployed is skipped, `README.md:24` of the repository that a long
   deployment need not start from scratch because something went wrong. (The other
   direction is promised nowhere: what is built *from* a redeployed contract keeps
   the old address.)
4. **`onFail` can wait for ever** (`event-executor.ts:112`, `OnFailRuns`).
   A function that throws leaves the lock of its sender taken.
5. **`setDeployer` has no effect** (`module-resolver.ts:798`, also 706 and 735,
   `DeployerSigns`). `resolve` sets the signer of every binding to its own, over
   the one the module has set. `interfaces/hardhat-ignition.ts:704` and
   `docs/concepts/module_builder/contract_binding.md:20` say that the deployer signs
   the creation.

## Proofs

Every safety property that a run checks is also a theorem, for all values of the
constants. The proofs are checked by TLAPS and
assume nothing but the named assumptions on the constants. TLC evaluates these
too, as the modules of the runs extend the ones that state them:

| Assumption | Says | Because |
|---|---|---|
| `NoJobAssumption` | undefined is no promise | |
| `BuilderAssumption`, `FillerAssumption` | the types of the compiled contracts, their constructors and libraries; hooks and contracts have different names; the bounds on what is declared are numbers | the compiler's artifacts; names are the keys of one `moduleState`, where a hook with the name of a contract would replace it |
| `ModuleAssumption` | the types of a module; contracts and events have different names, there are finitely many contracts | the builder; names are the keys of one `moduleState` |
| `OrderAssumption` (`Deployment`) | the order of the walk leaves nothing out | `NothingDropped`, proved for `ModuleBuild` |
| `CallsAssumption`, `ParallelAssumption` | the types of a module: hooks make finitely many calls, each with a sender; the bounds are numbers | the builder |
| `BatchesAssumption` (`ParallelDeployment`) | everything is in a batch, after the batches of what it is built from or needs | `BatchesAreComplete` and `BatchesRespectDependencies`, proved for `ModuleBuild`; not so for a library with constructor arguments, which is out of the theorems as it is out of these properties |
| `TransactionsAssumption` | the first signer is one, so are the deployers, the creator of contracts is no hook, named nonces and the bounds are numbers | `setupServicesAndEnvironment` |
| `ProjectAssumption`, `UsesAssumption` | types; no module uses itself, directly or through others | the `init` of such a module never ends |
| `ArgsAssumption` | the bindings of a module have the arguments of a contract before it | `OrderRespectsDependencies`, proved for `ModuleBuild` |
| `BuildsAssumption` | what the builds of the other tool say is true; no network is called `memory` or `undefined` | needed: `resolve` only looks for code at an address, so a wrong one would be believed |

`DeploymentRecordProofs`, `ProjectProofs` and `ModuleBuildProofs` need induction, over the size
of a set, the length of a sequence or the rank of a module among those it uses. The induction
theorems of the library take an operator, which the provers cannot instantiate.
`AllNumbers` takes a set of numbers in its place, and follows from the least
number outside of it; a function that is defined by recursion is shown to exist
by approximations that are right up to a number.

**`KeyMutexProofs`**, for any jobs and keys. Mutual exclusion is not inductive:
a grant looks at the one promise in front of it, and why everybody earlier is
done is in the shape of the chain. `IInv` states it: tickets give the order of
arrival (`TicketsInv`), `lock[key]` is the last of the key's unreleased
acquisitions, or there is none (`TailInv`), and `prev` is the immediate
predecessor, or all earlier ones are released (`ChainInv`). `ChainInvariant`
proves it, and `MutualExclusionHolds`, `OrderHolds` and `UnlockedHolds` follow.
`ImplementsFifoSafety` maps `ahead` to the unreleased earlier acquisitions and
each action to the one of `FifoLock`.

**`DeploymentProofs`**, for any module and any number of crashes, failures and
changes. `TypeCorrect` is the type invariant. `StoresAgree` is the invariant
that the stores rest on: during a run file and memory agree on every binding
and on which events are executed, and differ only in the record of the event
whose hook is running (`MemoryIsFile`); an address in the file is the one of its
receipt, and a contract being deployed has none (`AddressInv`). From it,
`NothingIsRolledBack`: no step takes back the address of a contract or the
execution of an event, except the start of a run that redeploys the contract it
belongs to or one that is built from it. The second half of `AddressInv` is
needed there: it tells the contracts that a run redeploys (their record is
blank) from the ones that it invalidates (their receipt stays).

**`DeploymentRecordProofs`** adds what the walk and the records promise.
`CompleteSuccess` needs to know that what the walk has passed is done, and stays
so: a later step of the run can take nothing back (`PassedInv`), the addresses are
those of contracts created for the binding (`CreatedInv`), and the end of the walk
is the end of `Order` (`DoneInv`). `CallsNotResent` rests on `RecordInv`: the
receipts recorded for an event belong to calls of its own hook to that contract
and are at least as many as the calls before the place of the hook, which is how
the progress counter and the record can be compared at all. `SummaryIsRight`
compares sums: the number of inputs of an event is bounded by its calls on the
chain (`InputsOK`), and the number of outputs is at least the number of different
receipts; that the sum over the contracts (a fold) bounds this number is an
induction over sets (`SumBounds`).

**`EventTxExecutorProofs`**, for any events, calls and senders. The lock of a sender
is the queue of its workers, and whoever awaits a confirmation, or has thrown, holds
it, which is at the head of the queue (`LockOK`): so one transaction is in flight
(`OneInFlight`). A worker has only calls of its sender (`WorkOK`), and none that its
hook has yet to make (`FreshOK`); a call that is registered has not been resolved,
and a hook makes a call after the answers to all before (`AnswerOK`).
`SentOnce` is the hard one: `executeAll` of every call executes whatever is
registered at that moment, and it is only the sequential mode that keeps the calls
of others out. `SequentialInv` says so: a hook starts when those before it are over
(`TurnOK`); a registered call whose sender has not failed is the last one of its
hook, which awaits it (`AwaitedOK`), so that a worker of such a sender has its
caller's own call and no other (`OwnOK`); and while that call waits for the lock
it has not been sent (`SentOK`). All this is up to a receipt that could not be stored
(`StoreFailed`): such a call is registered, and its lock free.

**`ParallelDeploymentProofs`**, for any batches, hooks and calls. A store reads the
file, and writes all of it back later: what can be lost is what was written in
between. In `StoreInv`, hooks are at work only in the current batch (`HooksOK`), and
each pending write is of a hook of its own, which waits for it (`WritesOK`). File,
memory and all pending writes agree on the addresses (`AddressesOK`), and the
batches that are over have all of theirs (`BatchesOK`): contracts are stored, one by
one, when no hook is at work, and the next batch begins when all of the last are.
Unless stores overlapped, a pending write has every execution that the memory has
(`ExecutedOK`), and the calls of a hook (`CallsOK`) are in the file and in the
pending write, unless another hook finished meanwhile (`RecordsOK`).
`EarlierStored`, `CompleteAtEnd`, `CallsRecorded` and `NothingMissing` follow.

**`TransactionsProofs`**, for any accounts, hooks, retries and bounds.
`FreshNonces` and `NoHeldUpNonces` say that the check, the await and the write of
the nonce map are safe although nothing in the manager makes them one step. They
rest on three invariants. `Signers`: lock, nonce and signature of a request are of
one account, and the nonce is the manager's, or the accounts are all in `mixed`.
`Turns`: whoever asks for a nonce of an account is alone in doing so. Hooks hold the
lock of the account while they do, and contracts are created while no hook runs; a
hook that failed has left its lock taken and takes no nonce. `Numbers`: so neither
the entry of the map nor the answer of the node can be stale, and as long as one map
alone numbers the transactions of an account, it is ahead of everything pending,
what is pending is contiguous from the next nonce on, and a nonce that is taken is
fresh and right after it; otherwise the account is in `foreign` or `mixed`
(`Astray`), or in `lost`. `PricesWithinMax` needs that a request only leaves the
wait for a price with one it may have (`PricesInv`).

**`ProjectProofs`**, for any modules, networks and numbers of processes, tasks and
faults. The contracts of a module are found by a walk over the modules that it uses;
`WalkDefined` shows that there is one, and `UsedByTransitive` and `BindingsOfUsed`
that a module has the contracts of all it uses. `NotCreatedTwice`: whatever has
been created and not been undone is in the state of its module, and during a
deployment in `moduleState` (`KeptInv`); a crash can lose only the one that is
mined and not stored, a torn file is one of the ways to undo. `Resolve` clears the
addresses of what is deployed again and of its arguments; that it clears no other is
`NotInvalidated`: a contract from which nothing of the sort is built keeps its address.
`TaskDeploys`:
every address in a state is that of its contract, except on a network
that was started again (`RightInv`, over the files, the memory of a test, and
`moduleState`); what was asked for and is behind the task, or initialized and so to be
skipped, belongs to a module whose deployment succeeded (`AskedDeployed`).

**`ModuleBuildProofs`**, for any contracts, names of hooks, numbers of references and
budgets, and so for modules of any size. `BuildInvariant` is the invariant, in the
order in which a module comes into being:

* `BuilderOK`: what the lists of the builder have to do with each other. Names are
  declared once, arguments and hooks refer to what is declared, and a hook is listed
  with every binding that it is a hook of (`HooksListed`), by whichever of groups,
  templates, macros, proxies and sub-modules it came. `Valid`: from `built` on, the
  arguments are ones that the validator has accepted, also after an edit.
* `WalkOK`: the recursion of the resolver is right because of what is *left to do*, and
  that is what the invariant speaks about. A task that needs something finds it in
  `moduleState`, or there is a task before it that brings it (`TasksInOrder`, with
  `Will`); hence so it is in the order (`Ordered`). The hooks after a deployment
  follow their contract, and all that is declared is there or comes (`HooksFollow`,
  `AllComes`). That expanding a task keeps all this is `Sound`, proved once for each
  function of the resolver. `OrderIsRight` and `NothingIsDropped` are the case of
  nothing left to do.
* `BatchOK`: an element is in the batch that is written down for it, and in no other
  (`Placed`, `Once`, `AllPlaced`); the calls are for elements of the order, and whatever is
  in no batch has a call (`CallsOK`, `AllBatched`); the batches have no hole, because a
  call asks for one that exists or the next (`Full`). Without a library with
  arguments, every argument has a call before that of its contract (`ArgsFirst`, which
  is where the batching depends on the order of the walk), so that nothing
  goes to the batch `NaN`, and everything is deeper than what it needs (`Deeper`).
  `BatchesComplete` and `BatchesAreRight` follow. That a hook after a deployment is
  deeper needs `Uses` to have been batched, which is the error branches of
  `BatchAfter`, and not the order.
* `StoredOK`, `AnswerOK`: the elements of a state file have the types of those of
  `moduleState`, and only a comparison has an answer. `SameMeansDeployed` also needs
  `WalkOK`: `checkIfDiff` compares by position, and it is because every contract has
  a place in the new order that "same" at all places means a deployed contract with
  that bytecode and those arguments for each (at its place, maybe under another name).

`BuildTypeCorrect` and `NumbersAreRight` follow as well; the latter says that what
`Accepted` lets through, by the width of the type, is in the range of the type.

Only model-checked: liveness (`NoStarvation`, `AnsweredUnlessSenderFailed`,
`Completes`, `EndsUnlessHookFails`, `Settles`, and the liveness part of
`ImplementsFifoLock`), which the prover does not support.

## Plan

Done: the modules and proofs above. Next, in this order:

1. A refinement: `ParallelDeployment` and `Deployment` have the same promise, a set
   of elements that are done and are not undone by a run. State it as a
   specification of its own and show that both implement it.
2. In `Deployment`: `deployFn` and its event.

Not modelled, and why: typings, the wording of errors, logging and the printing of
differences and summaries (text without state); gas limits, compiled artifacts and
the loading of deployment files (I/O; where it can fail, that is a failure of the
models); the expectancy helpers, which read and compare inside a hook, so that one
that fails is a hook that fails; the namespaces of `cls-hooked`, from which a call
in a batch reads the name of its event; `logicallyDeployed`, which only `diff` and
users of a module read; `deployFn` (a user function in place of a creation, see the
plan); `StateResolver.mergeStates`, which nothing calls; two processes on one state
file at once, for which the code has no provision; mismatches with a state file
edited by hand.
