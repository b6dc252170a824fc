------------------------------ MODULE Project ------------------------------
(***************************************************************************)
(* The life of a project: processes of hardhat, started one after another  *)
(* for a network, run the tasks of the plugin or call env.ignition; these  *)
(* deploy modules through IgnitionCore, which keeps one state file for     *)
(* each module and network (or, in the test environment, a state in        *)
(* memory).  Between the processes a network may be started again, empty,  *)
(* a file that a crash has torn is removed, and StateMigrationService may  *)
(* be called to turn the builds of another tool into state files.          *)
(*                                                                         *)
(* What happens inside an execution (Deployment, ParallelDeployment) is    *)
(* one step per contract here, and a module is its list of contracts with  *)
(* their constructor arguments; linked libraries are not followed.         *)
(***************************************************************************)
EXTENDS Integers, Sequences, FiniteSets, SequencesExt

CONSTANTS
  Modules, Contracts,
  Own,            \* module -> the contracts its function defines, in order
  Uses,           \* module -> the modules it uses, before its own contracts
  Args,           \* contract -> the contracts its constructor takes
  Exports,        \* the deployment files: sequences of exported modules
  Networks,       \* the names of the networks of the configuration
  Accounts,       \* those with accounts that signers can be made of
  Elsewhere,      \* network -> what another tool has deployed there
  TruffleBuilds,  \* set of [contract, at: set of <<network id, address>>]
  HardhatBuilds,  \* set of [contract, address, complete]
  MaxProcesses, MaxTasks, MaxFaults  \* bounds

ASSUME ProjectAssumption ==
  /\ Own \in [Modules -> Seq(Contracts)] /\ Uses \in [Modules -> Seq(Modules)]
  /\ \A file \in Exports : file \in Seq(Modules)
  /\ Args \in [Contracts -> SUBSET Contracts]
  /\ Accounts \subseteq Networks
  /\ Elsewhere \in [Networks -> Seq(Contracts)]

(***************************************************************************)
(* The init of a module that used itself, directly or through others,      *)
(* would never end: a module is initialized only after what it uses.       *)
(***************************************************************************)
ASSUME UsesAssumption ==
  /\ IsFiniteSet(Modules)
  /\ \E rank \in [Modules -> 0 .. Cardinality(Modules)] :
       \A m \in Modules : \A s \in Range(Uses[m]) : rank[s] < rank[m]

(* Addresses are positive; a contract in a state may have none, or not be  *)
(* recorded at all.                                                        *)
None == 0
Absent == -1

NoNetwork == "no network"

(* The directory in memory, and the file of builds without a network id.   *)
Memory == "memory"
Undefined == "undefined"

(* What the builds of the other tool say is true, and their network ids    *)
(* and the names of the networks are not those two.                        *)
ASSUME BuildsAssumption ==
  /\ Memory \notin Networks /\ Undefined \notin Networks
  /\ \A b \in TruffleBuilds : \A at \in b.at :
       /\ b.contract \in Contracts /\ at[1] # Memory /\ at[2] \in Nat \ {None}
       /\ at[1] \in Networks => /\ at[2] \in DOMAIN Elsewhere[at[1]]
                                /\ Elsewhere[at[1]][at[2]] = b.contract
  /\ \A b \in HardhatBuilds :
       b.complete => b.contract \in Contracts /\ b.address \in Nat \ {None}

VARIABLES
  records,      \* the state files, and the state in memory
  chain,        \* network -> the contracts created there; an address is an index
  reset,        \* the networks that have been started again
  network,      \* of the process
  test,         \* whether the process is a test environment
  excluded,     \* the <<module, contract>> whose module config says deploy: false
  initialized,  \* the modules that are initialized, in this process
  finished,     \* the modules whose deployment succeeded, in this process
  declined,     \* whether a resolve went on after wrongNetwork was answered with no
  rest,         \* what is left of the task: its modules, the current one first
  asked,        \* the modules of the task
  skipsUnfinished,  \* some of them were initialized by what did not succeed
  phase, outcome,
  mem,          \* moduleState of the deployment: the address of each contract
  kept,         \* <<module, key, contract>> whose creation nothing has undone
  processes, tasks, faults

external == <<chain, reset>>
process == <<network, test, excluded>>
bounds == <<processes, tasks, faults>>
task == <<rest, asked, skipsUnfinished>>
vars == <<records, external, process, initialized, finished, declined, task, phase,
          outcome, mem, kept, bounds>>

-----------------------------------------------------------------------------
(* The states of the modules.                                              *)

Nothing == [c \in Contracts |-> Absent]

(* The file of a crashed writeFileSync: JSON.parse throws.                 *)
Torn == [c \in {} |-> Absent]

Keys == Networks \cup {Memory, Undefined} \cup {at[1] : at \in UNION {b.at : b \in TruffleBuilds}}

Current == Head(rest)

(* Mutant of the key: one file for all networks.                           *)
KeyWithoutNetwork == IF test THEN Memory ELSE CHOOSE n \in Networks : TRUE

(***************************************************************************)
(* The state is looked up by the name of the network, in the directory of  *)
(* the module; a test environment has a state of its own.                  *)
(***************************************************************************)
Key == IF test THEN Memory ELSE network

(***************************************************************************)
(* The modules that are initialized for a module, in the order in which    *)
(* their init ends: those it uses, each after those that it uses itself,   *)
(* and then the module.                                                    *)
(***************************************************************************)
Walk[m \in Modules] == FlattenSeq([i \in DOMAIN Uses[m] |-> Walk[Uses[m][i]]]) \o <<m>>

UsedBy(m) == Range(Walk[m])

Deployed(ms) == UNION {UsedBy(m) : m \in ms}

(***************************************************************************)
(* The contracts of a module: those of the used modules are added to its   *)
(* builder when they are used.                                             *)
(***************************************************************************)
Bindings == [m \in Modules |-> FlattenSeq([i \in DOMAIN Walk[m] |-> Own[Walk[m][i]]])]

(***************************************************************************)
(* The order of the resolver: the arguments of a contract come before it.  *)
(***************************************************************************)
ASSUME ArgsAssumption ==
  \A m \in Modules : \A i \in DOMAIN Bindings[m] :
    Args[Bindings[m][i]] \subseteq {Bindings[m][j] : j \in 1 .. i - 1}

(***************************************************************************)
(* Module.init with useModule: using a module that is initialized is an    *)
(* error, and the modules whose init has ended before stay initialized.    *)
(* What an initialized module uses is initialized, so that the first place *)
(* of the walk that is initialized already is where its init stops.        *)
(***************************************************************************)
Refused(m, done) ==
  {k \in 1 .. Len(Walk[m]) - 1 : Walk[m][k] \in done \cup {Walk[m][j] : j \in 1 .. k - 1}}

Initialized(m, done) ==
  [ok |-> Refused(m, done) = {},
   done |-> done \cup {Walk[m][k] : k \in {k \in DOMAIN Walk[m] :
                                            \A r \in Refused(m, done) : k < r}}]

-----------------------------------------------------------------------------
Init ==
  /\ records = [mk \in Modules \X Keys |-> Nothing]
  /\ chain = Elsewhere /\ reset = {}
  /\ network = NoNetwork /\ test = FALSE /\ excluded = {}
  /\ initialized = {} /\ finished = {} /\ declined = FALSE
  /\ rest = <<>> /\ asked = {} /\ skipsUnfinished = FALSE
  /\ phase = "down" /\ outcome = "none"
  /\ mem = Nothing /\ kept = {}
  /\ processes = 0 /\ tasks = 0 /\ faults = 0

(* What extractDataFromConfig makes of the configuration.                  *)
Parameters(n, inTest) == network' = n /\ test' = inTest

(***************************************************************************)
(* A process for a network; no module is initialized.  The files that it   *)
(* loads give each module a config, which may have changed.                *)
(***************************************************************************)
Launch(n, inTest) ==
  /\ phase = "down" /\ processes < MaxProcesses
  /\ Parameters(n, inTest)
  /\ excluded' \in SUBSET UNION {{m} \X Range(Bindings[m]) : m \in Modules}
  /\ faults + Cardinality(excluded') <= MaxFaults
  /\ faults' = faults + Cardinality(excluded')
  /\ phase' = "idle"
  /\ processes' = processes + 1
  /\ UNCHANGED <<records, external, initialized, finished, declined, task, outcome, mem,
                 kept, tasks>>

ForgetAll(ks) == {k \in kept : <<k[1], k[2]>> \notin ks}

(* What was created last, if it is not in the state yet.                   *)
Unstored ==
  IF phase = "mined" THEN {<<Current, Key, chain[network][Len(chain[network])]>>} ELSE {}

(***************************************************************************)
(* The process ends, or is killed in the middle of a deployment; a write   *)
(* that is under way leaves the old file or a torn one.                    *)
(***************************************************************************)
EndProcess(after) ==
  /\ phase # "down"
  /\ phase' = "down" /\ outcome' = "none"
  /\ initialized' = {} /\ finished' = {} /\ declined' = FALSE
  /\ rest' = <<>> /\ asked' = {} /\ skipsUnfinished' = FALSE /\ mem' = Nothing
  /\ records' = [mk \in DOMAIN after |-> IF mk[2] = Memory THEN Nothing ELSE after[mk]]
  /\ IF phase = "idle" THEN UNCHANGED faults ELSE faults < MaxFaults /\ faults' = faults + 1
  /\ network' = NoNetwork /\ test' = FALSE /\ excluded' = {}
  /\ UNCHANGED <<external, processes, tasks>>

Exit ==
  /\ EndProcess(records)
  /\ kept' = ForgetAll(Modules \X {Memory}) \ Unstored

Tear ==
  /\ phase \in {"store", "mined"} /\ ~test
  /\ EndProcess([records EXCEPT ![<<Current, Key>>] = Torn])
  /\ kept' = ForgetAll({<<Current, Key>>})

-----------------------------------------------------------------------------
(* Between the processes.                                                  *)

RemoveTorn(m, k) ==
  /\ phase = "down" /\ records[<<m, k>>] = Torn
  /\ records' = [records EXCEPT ![<<m, k>>] = Nothing]
  /\ UNCHANGED <<external, process, initialized, finished, declined, task, phase, outcome,
                 mem, kept, bounds>>

Reset(n) ==
  /\ phase = "down" /\ faults < MaxFaults
  /\ chain[n] # <<>>
  /\ chain' = [chain EXCEPT ![n] = <<>>]
  /\ reset' = reset \cup {n}
  /\ kept' = {k \in kept : k[2] # n}
  /\ faults' = faults + 1
  /\ UNCHANGED <<records, process, initialized, finished, declined, task, phase, outcome,
                 mem, processes, tasks>>

(***************************************************************************)
(* The builds as <<network id, contract, address>>.  A truffle build lists *)
(* the addresses by network id.  Nothing sets the network id of a build of *)
(* hardhat-deploy, though its .chainId is read, so that these all go to    *)
(* one file.                                                               *)
(***************************************************************************)
TruffleFound == UNION {{<<at[1], b.contract, at[2]>> : at \in b.at} : b \in TruffleBuilds}

HardhatFound ==
  {<<Undefined, b.contract, b.address>> : b \in {c \in HardhatBuilds : c.complete}}

Found(kind) == IF kind = "truffle" THEN TruffleFound ELSE HardhatFound

Migrated(found, k) ==
  [c \in Contracts |->
     IF \E f \in found : f[1] = k /\ f[2] = c
     THEN (CHOOSE f \in found : f[1] = k /\ f[2] = c)[3] ELSE Absent]

(***************************************************************************)
(* storeNewStateFiles: a whole file for each network id; a crash leaves    *)
(* some of them unwritten.                                                 *)
(***************************************************************************)
Migrate(kind, m) ==
  /\ phase = "down"
  /\ LET found == Found(kind)
         keys == {f[1] : f \in found}
     IN \E written \in SUBSET keys :
          /\ written # {}
          /\ records' = [mk \in DOMAIN records |->
               IF mk[1] = m /\ mk[2] \in written THEN Migrated(found, mk[2]) ELSE records[mk]]
          /\ kept' = ForgetAll({m} \X written)
                       \cup {<<m, f[1], f[2]>> : f \in {g \in found : g[1] \in written \ reset}}
  /\ faults < MaxFaults /\ faults' = faults + 1
  /\ UNCHANGED <<external, process, initialized, finished, declined, task, phase, outcome,
                 mem, processes, tasks>>

-----------------------------------------------------------------------------
(* Tasks and calls.                                                        *)

(***************************************************************************)
(* The core is set up at the first use of env.ignition, which fails if the *)
(* network has no accounts.                                                *)
(***************************************************************************)
HasSigners == network \in Accounts

Ready == phase = "idle" /\ HasSigners

SetupFails ==
  /\ phase = "idle" /\ ~HasSigners
  /\ outcome' = "error"
  /\ UNCHANGED <<records, external, process, initialized, finished, declined, task, phase,
                 mem, kept, bounds>>

Begin(ms) ==
  /\ Ready /\ tasks < MaxTasks
  /\ tasks' = tasks + 1
  /\ rest' = ms /\ asked' = Range(ms)
  /\ skipsUnfinished' = (Range(ms) \cap (initialized \ Deployed(finished)) # {})
  /\ phase' = "next" /\ outcome' = "none"
  /\ UNCHANGED <<records, external, process, initialized, finished, declined, mem, kept,
                 processes, faults>>

(* ignition:deploy, for all the exports of a deployment file, in order.    *)
DeployTask(file) == Begin(file)

(* env.ignition.deploy, from a script or a test.                           *)
DeployCall(m) == Begin(<<m>>)

(***************************************************************************)
(* ignition:diff and ignition:genTypes enumerate the promise of the loaded *)
(* file, which has no entries: nothing is compared or generated.           *)
(***************************************************************************)
DiffTask ==
  /\ phase = "idle"
  /\ outcome' = "none"
  /\ UNCHANGED <<records, external, process, initialized, finished, declined, task, phase,
                 mem, kept, bounds>>

GenTypesTask == DiffTask

(***************************************************************************)
(* env.ignition.diff initializes the module and stores nothing; genTypes   *)
(* initializes it even if it is initialized, and only logs an error.       *)
(***************************************************************************)
Look(m, result) ==
  /\ Ready /\ tasks < MaxTasks
  /\ tasks' = tasks + 1
  /\ initialized' = Initialized(m, initialized).done
  /\ outcome' = result
  /\ UNCHANGED <<records, external, process, finished, declined, task, phase, mem, kept,
                 processes, faults>>

DiffCall(m) ==
  /\ m \notin initialized
  /\ Look(m, IF Initialized(m, initialized).ok /\ records[<<m, Key>>] # Torn
             THEN "none" ELSE "error")

GenTypesCall(m) == Look(m, "none")

-----------------------------------------------------------------------------
(* IgnitionCore.deploy of the current module.                              *)

(* The error ends the task.                                                *)
Abort ==
  /\ phase' = "idle" /\ outcome' = "error" /\ rest' = <<>> /\ mem' = Nothing
  /\ UNCHANGED <<records, external, process, finished, declined, asked, skipsUnfinished,
                 processes, tasks>>

Skip ==
  /\ phase = "next" /\ rest # <<>> /\ Current \in initialized
  /\ rest' = Tail(rest)
  /\ UNCHANGED <<records, external, process, initialized, finished, declined, asked,
                 skipsUnfinished, phase, outcome, mem, kept, bounds>>

Initialize ==
  /\ phase = "next" /\ rest # <<>> /\ Current \notin initialized
  /\ Initialized(Current, initialized).ok
  /\ initialized' = Initialized(Current, initialized).done
  /\ phase' = "resolve"
  /\ UNCHANGED <<records, external, process, finished, declined, task, outcome, mem, kept,
                 bounds>>

InitializeFails ==
  /\ phase = "next" /\ rest # <<>> /\ Current \notin initialized
  /\ ~Initialized(Current, initialized).ok
  /\ initialized' = Initialized(Current, initialized).done
  /\ Abort /\ UNCHANGED <<kept, faults>>

ReadFails ==
  /\ phase = "resolve"
  /\ records[<<Current, Key>>] = Torn
  /\ Abort /\ UNCHANGED <<initialized, kept, faults>>

HasCode(a) == a > None /\ a <= Len(chain[network])

(***************************************************************************)
(* resolve asks the user at the first recorded address that has no code.   *)
(* Yes: from this contract on everything is deployed again.  No: it keeps  *)
(* its address, and what comes after it counts as new.                     *)
(***************************************************************************)
Missing(state) ==
  {i \in DOMAIN Bindings[Current] :
     LET a == state[Bindings[Current][i]] IN a > None /\ ~HasCode(a)}

FirstMissing(state) == CHOOSE i \in Missing(state) : \A j \in Missing(state) : i <= j

Dropped(state, always) ==
  IF Missing(state) = {} THEN {}
  ELSE {Bindings[Current][i] :
          i \in {j \in DOMAIN Bindings[Current] :
                   j > FirstMissing(state) \/ (always /\ j = FirstMissing(state))}}

(***************************************************************************)
(* The recorded contracts that resolve deploys again: those without an     *)
(* address (given as undone), those that have changed, are forced or want  *)
(* it (redo), and all after a yes.                                         *)
(***************************************************************************)
Redeployed(state, always, redo, undone) ==
  {c \in Range(Bindings[Current]) :
     /\ state[c] # Absent
     /\ IF c \in Dropped(state, always) THEN always ELSE c \in redo \cup undone}

Again(state, always, redo) == Redeployed(state, always, redo, {c \in Contracts : state[c] = None})

(* Mutant: what is built from it loses its address, not what it takes.     *)
InvalidatedUsers(state, again) ==
  {c \in Contracts :
     \A S \in SUBSET Contracts :
       /\ again \subseteq S
       /\ \A b \in Contracts : Args[b] \cap S # {} /\ state[b] > None => b \in S
       => c \in S}

(***************************************************************************)
(* _invalidateStateElementDependant: what is deployed again takes away the *)
(* addresses of its arguments, these those of theirs, and so on.           *)
(***************************************************************************)
Invalidated(state, again) ==
  {c \in Contracts :
     \A S \in SUBSET Contracts :
       /\ again \subseteq S
       /\ \A b \in S : \A a \in Args[b] : state[a] > None => a \in S
       => c \in S}

(***************************************************************************)
(* After a no the state is taken for empty already when the contract that  *)
(* was asked about is deployed again: an argument that has an address is   *)
(* not found there, which is a TypeError.                                  *)
(***************************************************************************)
ArgumentLost(state, always, redo) ==
  /\ Missing(state) # {} /\ ~always
  /\ LET c == Bindings[Current][FirstMissing(state)]
         before == Invalidated(state, Again(state, always, redo) \ {c})
     IN c \in redo /\ \E a \in Args[c] \ before : state[a] > None

(* Which of the contracts with an address have changed, or are forced.     *)
Changed(state, redo) ==
  /\ redo \subseteq {c \in Range(Bindings[Current]) : state[c] > None}
  /\ faults + Cardinality(redo) <= MaxFaults
  /\ faults' = faults + Cardinality(redo)

(* What is built, directly or not, from a contract, and this itself.       *)
BuiltFrom(c) ==
  {d \in Contracts :
     \A S \in SUBSET Contracts :
       c \in S /\ (\A b \in Contracts : Args[b] \cap S # {} => b \in S) => d \in S}

(***************************************************************************)
(* This undoes the creation of what the user was asked about, and of what  *)
(* anything is built from that changed or was not (or no longer) created.  *)
(***************************************************************************)
Undone(state, always, redo) ==
  LET again == Redeployed(state, always, redo, {c \in Contracts : <<Current, Key, c>> \notin kept})
  IN Dropped(state, always) \cup {c \in Contracts : BuiltFrom(c) \cap again # {}}

Resolve(always, redo) ==
  /\ phase = "resolve"
  /\ LET state == records[<<Current, Key>>]
         known == Range(Bindings[Current]) \ Dropped(state, always)
         stale == Invalidated(state, Again(state, always, redo))
     IN /\ state # Torn
        /\ Changed(state, redo) /\ ~ArgumentLost(state, always, redo)
        /\ mem' = [c \in Contracts |->
                     IF c \in known \ stale /\ state[c] # Absent THEN state[c] ELSE None]
        /\ declined' = (declined \/ (Missing(state) # {} /\ ~always))
        /\ kept' = kept \ ({Current} \X {Key} \X Undone(state, always, redo))
  /\ phase' = "store"
  /\ UNCHANGED <<records, external, process, initialized, finished, task, outcome, processes,
                 tasks>>

ResolveFails(redo) ==
  /\ phase = "resolve"
  /\ LET state == records[<<Current, Key>>]
     IN state # Torn /\ Changed(state, redo) /\ ArgumentLost(state, FALSE, redo)
  /\ Abort /\ UNCHANGED <<initialized, kept>>

(* execute stores everything before it begins.                             *)
StoreStates ==
  /\ phase = "store"
  /\ records' = [records EXCEPT ![<<Current, Key>>] = mem]
  /\ phase' = "execute"
  /\ UNCHANGED <<external, process, initialized, finished, declined, task, outcome, mem,
                 kept, bounds>>

(* What has no address and is not skipped by the config of the module.     *)
Undeployed ==
  {i \in DOMAIN Bindings[Current] :
     /\ mem[Bindings[Current][i]] = None
     /\ <<Current, Bindings[Current][i]>> \notin excluded}

NextToDeploy == Bindings[Current][CHOOSE i \in Undeployed : \A j \in Undeployed : i <= j]

(* The first of these is created, with the addresses of its arguments.     *)
Create ==
  /\ phase = "execute" /\ Undeployed # {}
  /\ \A a \in Args[NextToDeploy] : mem[a] # None
  /\ chain' = [chain EXCEPT ![network] = Append(@, NextToDeploy)]
  /\ mem' = [mem EXCEPT ![NextToDeploy] = Len(chain'[network])]
  /\ kept' = kept \cup {<<Current, Key, NextToDeploy>>}
  /\ phase' = "mined"
  /\ UNCHANGED <<records, reset, process, initialized, finished, declined, task, outcome,
                 bounds>>

(* An argument has no address: the config skips it.                        *)
ArgumentFails ==
  /\ phase = "execute" /\ Undeployed # {}
  /\ \E a \in Args[NextToDeploy] : mem[a] = None
  /\ Abort /\ UNCHANGED <<initialized, kept, faults>>

StoreCreated ==
  /\ phase = "mined"
  /\ records' = [records EXCEPT ![<<Current, Key>>] = mem]
  /\ phase' = "execute"
  /\ UNCHANGED <<external, process, initialized, finished, declined, task, outcome, mem,
                 kept, bounds>>

Fail ==
  /\ phase \in {"resolve", "execute", "mined"} /\ faults < MaxFaults
  /\ faults' = faults + 1
  /\ kept' = kept \ Unstored
  /\ Abort /\ UNCHANGED initialized

FinishModule ==
  /\ phase = "execute" /\ Undeployed = {}
  /\ finished' = finished \cup {Current}
  /\ rest' = Tail(rest) /\ phase' = "next" /\ mem' = Nothing
  /\ UNCHANGED <<records, external, process, initialized, declined, asked, skipsUnfinished,
                 outcome, kept, bounds>>

EndTask ==
  /\ phase = "next" /\ rest = <<>>
  /\ phase' = "idle" /\ outcome' = "done"
  /\ UNCHANGED <<records, external, process, initialized, finished, declined, task, mem,
                 kept, bounds>>

Next ==
  \/ \E n \in Networks : (\E t \in BOOLEAN : Launch(n, t)) \/ Reset(n)
  \/ Exit \/ Tear
  \/ \E m \in Modules : \/ \E k \in Keys : RemoveTorn(m, k)
                        \/ Migrate("truffle", m) \/ Migrate("hardhat", m)
                        \/ DeployCall(m) \/ DiffCall(m) \/ GenTypesCall(m)
  \/ \E file \in Exports : DeployTask(file)
  \/ DiffTask \/ GenTypesTask \/ SetupFails
  \/ Skip \/ Initialize \/ InitializeFails \/ ReadFails
  \/ \E redo \in SUBSET Contracts : \/ \E always \in BOOLEAN : Resolve(always, redo)
                                   \/ ResolveFails(redo)
  \/ StoreStates \/ Create \/ ArgumentFails \/ StoreCreated \/ Fail \/ FinishModule \/ EndTask

Spec == Init /\ [][Next]_vars

-----------------------------------------------------------------------------
(***************************************************************************)
(* When a deploy task or call returns without an error, every contract of  *)
(* every module it was asked for is recorded, for the network of the       *)
(* process, with an address where that contract is: in the state of the    *)
(* module or of a module that uses it and was deployed by the process.     *)
(* Except: the config of the deployed module may leave a contract without  *)
(* an address; what an unsuccessful deploy, diff or genTypes of this       *)
(* process has initialized is silently skipped; after a no to wrongNetwork *)
(* a recorded address may have no code; and on a network that was started  *)
(* again an old address may be that of another contract, since resolve     *)
(* only asks for some code there.                                          *)
(***************************************************************************)
RightAddress(m, c) ==
  LET a == records[<<m, Key>>][c] IN
  IF a = None THEN <<m, c>> \in excluded
  ELSE /\ a # Absent
       /\ declined \/ HasCode(a)
       /\ declined \/ network \in reset \/ chain[network][a] = c

TaskMeansDeployed ==
  outcome = "done" /\ ~skipsUnfinished =>
    \A m \in asked : \E user \in finished :
      m \in UsedBy(user) /\ \A c \in Range(Bindings[m]) : RightAddress(user, c)

(***************************************************************************)
(* Whatever processes, tasks, failures and crashes follow, a contract that *)
(* a module has created on a network (or that was migrated) is not created *)
(* again for that module there, unless something has undone it: the        *)
(* process ended before the address was stored, the file was torn or       *)
(* migrated over, the state was in memory, the network was started again,  *)
(* the user was asked about the network, or resolve found that this        *)
(* contract, or one of the state that is built from it, had changed or was *)
(* not created.  The last is so after every crash between the two: the     *)
(* next deployment creates the arguments again.                            *)
(***************************************************************************)
CreatedOnce ==
  [][phase # "down" /\ Len(chain'[network]) > Len(chain[network]) =>
       <<Current, Key, Last(chain'[network])>> \notin kept]_vars
=============================================================================
