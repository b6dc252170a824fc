---------------------------- MODULE Transactions ----------------------------
(***************************************************************************)
(* Where the nonce and the gas price of a transaction come from:           *)
(* TransactionManager, EthTxGenerator and IgnitionSigner, wired together   *)
(* by IgnitionCore, over the deployments of one process and the restarts.  *)
(*                                                                         *)
(* A request is the creation of a contract, a contract call of a hook or a *)
(* wallet transfer of a hook.  Calls and transfers are made by a worker of *)
(* EventTxExecutor that holds the lock of the sender, which KeyMutex is    *)
(* about; which of the waiting workers gets it next is left open here.     *)
(* Creations take no lock, but no hook runs while one is made.             *)
(*                                                                         *)
(* Three accounts of a contract call may differ: withSigner changes the    *)
(* signer of the contract's instance, which all hooks share.  Its address  *)
(* names the lock when the call is made, and the nonce when the call is    *)
(* executed; the ethers.Contract behind it signs as it was created.        *)
(*                                                                         *)
(* The program runs one callback at a time, and waits for the node where a *)
(* request changes its place.                                              *)
(***************************************************************************)
EXTENDS Integers

CONSTANTS
  Accounts, Root,  \* the signers, and the first of them
  Deployers,       \* the signers that the module sets for its contracts
  Hooks, Creator,  \* the hooks, and who deploys the contracts
  NamedNonces,     \* the nonces that a hook may name for a transfer
  MaxRetries,      \* numberOfRetries of the gas price backoff
  MaxRequests, MaxDeploys, \* bounds
  MaxFaults                \* bound: failures, restarts, transactions of others, mixed accounts

ASSUME TransactionsAssumption ==
  /\ Root \in Accounts /\ Deployers \subseteq Accounts /\ Creator \notin Hooks
  /\ NamedNonces \subseteq Nat
  /\ {MaxRetries, MaxRequests, MaxDeploys, MaxFaults} \subseteq Nat

Tasks == Hooks \cup {Creator}
Managers == {"own", "custom"}
Unknown == -1   \* undefined, as an entry of a nonce map

VARIABLES
  config,     \* of the core: parallel, backoff
  status,     \* of deploy(): "idle", "running", "failing" (onFail), "done", "error"
  deployer,   \* of the module's contracts, as the module has set it
  signer,     \* the signer of their bindings once resolved
  manager,    \* kind of request -> the nonce manager that serves it
  nonceMap,   \* manager -> account -> _nonceMap
  req,        \* task -> its request
  lock,       \* account -> the hook that holds it, if any
  next, pool, \* the chain: account -> number of mined transactions, nonces of the pending ones
  requests, deploys, faults,
  \* what the properties look back at, for this process:
  lost,       \* accounts of which a nonce was taken and not sent
  foreign,    \* accounts with transactions that a nonce map does not know of
  mixed,      \* accounts that withSigner has mixed up, or for which a hook has named a nonce
  abandoned,  \* accounts whose lock was held by a request that failed
  collided    \* accounts of which a transaction was sent with a used nonce

chain == <<next, pool>>
past == <<lost, foreign, mixed, abandoned, collided>>
bounds == <<requests, deploys, faults>>
services == <<config, manager, deployer, signer>>
vars == <<status, services, nonceMap, req, lock, chain, bounds, past>>

\* from: whose nonce it has, key: whose lock, signs: who signs; named: the
\* hook has named the nonce.
Idle == [at |-> "idle", kind |-> "call", from |-> Root, key |-> Root, signs |-> Root,
         retries |-> 0, price |-> "none", nonce |-> 0, named |-> FALSE]
Unused == [m \in Managers |-> [a \in Accounts |-> Unknown]]
OwnManager == [k \in {"create", "call", "transfer"} |-> "own"]

Init ==
  /\ config \in [parallel : BOOLEAN, backoff : BOOLEAN]
  /\ status = "idle" /\ deployer = Root /\ signer = Root
  /\ manager = OwnManager /\ nonceMap = Unused
  /\ req = [t \in Tasks |-> Idle] /\ lock = [a \in Accounts |-> {}]
  /\ next = [a \in Accounts |-> 0] /\ pool = [a \in Accounts |-> {}]
  /\ requests = 0 /\ deploys = 0 /\ faults = 0
  /\ lost = {} /\ foreign = {} /\ mixed = {} /\ abandoned = {} /\ collided = {}

At(t, where) == req[t].at = where
Resting(tasks) == \A t \in tasks : At(t, "idle")
Fault == faults < MaxFaults /\ faults' = faults + 1

-----------------------------------------------------------------------------
(* deploy() and the process.                                               *)

\* resolve: every binding gets the signer of the resolver.
ResolvedSigner(s) == Root

\* What customServices has and the module asks for replaces a service of the
\* generator, for this and the later deployments; wallets keep theirs.
Deploy ==
  /\ status \in {"idle", "done", "error"}
  /\ deploys < MaxDeploys /\ deploys' = deploys + 1
  /\ status' = "running"
  /\ deployer' \in Deployers /\ signer' = ResolvedSigner(deployer')
  /\ \E custom \in SUBSET {"create", "call"} :
       manager' = [k \in DOMAIN manager |-> IF k \in custom THEN "custom" ELSE manager[k]]
  /\ req' = [t \in Tasks |-> Idle]
  /\ UNCHANGED <<config, nonceMap, lock, chain, requests, faults, past>>

\* execute() has returned, or the onFail hooks after an error of it.
EndDeploy ==
  /\ status \in {"running", "failing"}
  /\ IF status = "running" THEN Resting(Tasks) ELSE \A t \in Tasks : At(t, "idle") \/ At(t, "failed")
  /\ status' = IF status = "running" THEN "done" ELSE "error"
  /\ UNCHANGED <<services, nonceMap, req, lock, chain, bounds, past>>

\* The process ends or crashes, and another one starts.
Restart ==
  /\ status # "idle" /\ Fault
  /\ status' = "idle"
  /\ manager' = OwnManager /\ nonceMap' = Unused
  /\ req' = [t \in Tasks |-> Idle] /\ lock' = [a \in Accounts |-> {}]
  /\ lost' = {} /\ mixed' = {} /\ abandoned' = {} /\ collided' = {}
  /\ foreign' = {a \in Accounts : pool[a] # {}}
  /\ UNCHANGED <<config, deployer, signer, chain, requests, deploys>>

-----------------------------------------------------------------------------
(* The requests.                                                           *)

Asked(kind, a, at) ==
  [at |-> at, kind |-> kind, from |-> a, key |-> a, signs |-> a,
   retries |-> MaxRetries, price |-> "none", nonce |-> 0, named |-> FALSE]

Begin(t, request) ==
  /\ requests < MaxRequests /\ requests' = requests + 1
  /\ req' = [req EXCEPT ![t] = request]
  /\ UNCHANGED <<status, services, nonceMap, lock, chain, deploys, lost, foreign, abandoned, collided>>

\* Contracts are sent one after the other; in a batch, without waiting for
\* the receipts.
BeginCreation ==
  /\ status = "running" /\ Resting(Hooks)
  /\ At(Creator, "idle") \/ (config.parallel /\ At(Creator, "sent"))
  /\ Begin(Creator, Asked("create", signer, "price")) /\ UNCHANGED <<mixed, faults>>

\* The accounts of a call are mixed up if they differ.
Apart(accounts) == {a \in accounts : accounts # {a}}

Mixes(accounts) ==
  /\ mixed' = mixed \cup accounts
  /\ IF accounts \subseteq mixed THEN UNCHANGED faults ELSE Fault

\* The request of a hook: a call of a contract, with the signer that
\* withSigner has given it last; a transfer, with a nonce or without.
HookRequest(h) ==
  \E a \in Accounts :
    \/ /\ Begin(h, [Asked("call", a, "queued") EXCEPT !.signs = Root])
       /\ Mixes(Apart({a, Root}))
    \/ Begin(h, Asked("transfer", a, "queued")) /\ Mixes({})
    \/ \E n \in NamedNonces :
         /\ Begin(h, [Asked("transfer", a, "queued") EXCEPT !.named = TRUE, !.nonce = n])
         /\ Mixes({a})

\* A hook makes one call after the other; the hooks of a batch run at once.
BeginCall(h) ==
  /\ status \in {"running", "failing"} /\ At(h, "idle")
  /\ IF status = "running"
     THEN IF config.parallel THEN At(Creator, "idle") ELSE Resting(Tasks)
     ELSE \A t \in Tasks : At(t, "idle") \/ At(t, "failed")
  /\ HookRequest(h)

Place(t, where) == req' = [req EXCEPT ![t] = [@ EXCEPT !.at = where]]

\* The lock is granted, and the function called.  A transfer without a nonce
\* asks for one; the signer of a contract is read once more, and may have
\* been changed meanwhile.
Called(h) ==
  LET r == req[h] IN
  \E a \in IF r.kind = "call" THEN Accounts ELSE {r.from} :
    /\ req' = [req EXCEPT ![h] = [@ EXCEPT !.from = a,
         !.at = IF r.kind = "transfer" /\ ~r.named THEN "nonce" ELSE "price"]]
    /\ Mixes(Apart({a, r.key, r.signs}))
    /\ UNCHANGED <<status, services, nonceMap, chain, requests, deploys, lost, foreign, abandoned, collided>>

GrantHeld(h) ==  \* Mutant of Grant: whoever holds the lock
  /\ At(h, "queued")
  /\ lock' = [lock EXCEPT ![req[h].key] = {h}]
  /\ Called(h)

Grant(h) ==
  /\ At(h, "queued") /\ lock[req[h].key] = {}
  /\ lock' = [lock EXCEPT ![req[h].key] = {h}]
  /\ Called(h)

\* An error ends the deployment with its onFail hooks.  That of a hook of a
\* batch does not reach deploy(); that of an onFail hook ends it at once.
Failed(t) ==
  /\ req' = [req EXCEPT ![t] = [Idle EXCEPT !.at = "failed"]]
  /\ status' = IF status = "failing" THEN "error"
               ELSE IF config.parallel /\ t \in Hooks THEN status ELSE "failing"
  /\ abandoned' = abandoned \cup {a \in Accounts : t \in lock[a]}
  /\ UNCHANGED <<services, nonceMap, lock>>

-----------------------------------------------------------------------------
(* The price of gas.                                                       *)

BacksOff(t) == config.backoff /\ req[t].kind # "transfer"
Prices == {"low", "high", "user"}   \* against maxGasPrice; "user": the caller has named it

Priced(t, p) ==
  /\ req' = [req EXCEPT ![t] =
       [@ EXCEPT !.price = p, !.retries = 0, !.at = IF req[t].kind = "transfer" THEN "ready" ELSE "nonce"]]
  /\ UNCHANGED <<status, services, nonceMap, lock, chain, bounds, past>>

\* A price is only asked for again, and a creation has none of its own.
ReadPrice(t) ==
  /\ At(t, "price")
  /\ ~BacksOff(t) \/ req[t].retries > 0
  /\ \E p \in Prices :
       /\ p = "high" => ~BacksOff(t)
       /\ p = "user" => req[t].kind # "create"
       /\ Priced(t, p)

BackOffAlways(t) ==  \* Mutant of BackOff: the retries are not counted to zero
  /\ At(t, "price") /\ BacksOff(t)
  /\ req' = [req EXCEPT ![t] = [@ EXCEPT !.retries = req[t].retries - 1]]
  /\ UNCHANGED <<status, services, nonceMap, lock, chain, bounds, past>>

\* The price is too high: wait and ask again.
BackOff(t) ==
  /\ At(t, "price") /\ BacksOff(t) /\ req[t].retries > 0
  /\ req' = [req EXCEPT ![t] = [@ EXCEPT !.retries = req[t].retries - 1]]
  /\ UNCHANGED <<status, services, nonceMap, lock, chain, bounds, past>>

GiveUpLate(t) ==  \* Mutant of GiveUp: the last price is taken, whatever it is
  /\ At(t, "price") /\ BacksOff(t) /\ req[t].retries = 0
  /\ \E p \in {"low", "high"} : Priced(t, p)

\* GasPriceBackoffError: no retries are left, whatever the price is by now.
GiveUp(t) ==
  /\ At(t, "price") /\ BacksOff(t) /\ req[t].retries = 0
  /\ Failed(t)
  /\ UNCHANGED <<chain, bounds, lost, foreign, mixed, collided>>

-----------------------------------------------------------------------------
(* getAndIncrementTransactionCount.                                        *)

Manager(t) == manager[req[t].kind]

\* The nonce n is returned and the manager of t goes on from the one after.
Taken(t, n) ==
  LET m == Manager(t) a == req[t].from IN
  /\ nonceMap' = [nonceMap EXCEPT ![m][a] = n + 1]
  /\ req' = [req EXCEPT ![t] =
       [@ EXCEPT !.nonce = n, !.at = IF req[t].kind = "transfer" THEN "price" ELSE "ready"]]
  /\ foreign' = foreign \cup {b \in {a} : \E other \in Managers \ {m} : nonceMap[other][a] # Unknown}
  /\ UNCHANGED <<status, services, lock, chain, bounds, lost, mixed, abandoned, collided>>

KnownNonce(t) == nonceMap[Manager(t)][req[t].from]

TakeNonce(t) ==
  /\ At(t, "nonce") /\ KnownNonce(t) # Unknown
  /\ Taken(t, KnownNonce(t))

AskNonce(t) ==
  /\ At(t, "nonce") /\ KnownNonce(t) = Unknown
  /\ Place(t, "fetching")
  /\ UNCHANGED <<status, services, nonceMap, lock, chain, bounds, past>>

AnswerNonceNext(t) ==  \* Mutant of AnswerNonce: ++ before the entry, not after it
  At(t, "fetching") /\ Taken(t, next[req[t].from] + 1)

\* The node counts the mined transactions.
AnswerNonce(t) == At(t, "fetching") /\ Taken(t, next[req[t].from])

-----------------------------------------------------------------------------
(* The transaction.                                                        *)

Used(t) == req[t].nonce < next[req[t].signs] \/ req[t].nonce \in pool[req[t].signs]

Send(t) ==
  /\ At(t, "ready") /\ ~Used(t)
  /\ pool' = [pool EXCEPT ![req[t].signs] = @ \cup {req[t].nonce}]
  /\ req' = [req EXCEPT ![t] = [@ EXCEPT !.at = "sent", !.price = "none"]]
  /\ UNCHANGED <<status, services, nonceMap, lock, next, bounds, past>>

\* The node refuses a nonce that is used.
Refused(t) ==
  /\ At(t, "ready") /\ Used(t)
  /\ collided' = collided \cup {req[t].signs}
  /\ Failed(t)
  /\ UNCHANGED <<chain, bounds, lost, foreign, mixed>>

Mined(t) == req[t].nonce < next[req[t].signs]

ConfirmKeepsLock(t) ==  \* Mutant of Confirm: the lock is not released
  /\ At(t, "sent") /\ Mined(t)
  /\ req' = [req EXCEPT ![t] = Idle]
  /\ UNCHANGED <<status, services, nonceMap, lock, chain, bounds, past>>

\* The confirmations have arrived, and the worker releases the lock.
Confirm(t) ==
  /\ At(t, "sent") /\ Mined(t)
  /\ req' = [req EXCEPT ![t] = Idle]
  /\ lock' = IF t = Creator THEN lock ELSE [lock EXCEPT ![req[t].key] = {}]
  /\ UNCHANGED <<status, services, nonceMap, chain, bounds, past>>

\* A request to the node fails, the call would revert or has reverted.  The
\* lock is kept, and a nonce that was taken is not given back.
Fail(t) ==
  /\ req[t].at \in {"price", "nonce", "fetching", "ready"} \/ (At(t, "sent") /\ Mined(t))
  /\ Fault
  /\ lost' = IF At(t, "ready") \/ (At(t, "price") /\ req[t].kind = "transfer")
             THEN lost \cup {req[t].from} ELSE lost
  /\ Failed(t)
  /\ UNCHANGED <<chain, requests, deploys, foreign, mixed, collided>>

\* The chain mines in the order of the nonces.
Mine(a) ==
  /\ next[a] \in pool[a]
  /\ next' = [next EXCEPT ![a] = @ + 1] /\ pool' = [pool EXCEPT ![a] = @ \ {next[a]}]
  /\ UNCHANGED <<status, services, nonceMap, req, lock, bounds, past>>

\* The account is used by another program.
Outside(a) ==
  /\ pool[a] = {} /\ Fault
  /\ next' = [next EXCEPT ![a] = @ + 1]
  /\ foreign' = foreign \cup {a}
  /\ UNCHANGED <<status, services, nonceMap, req, lock, pool, requests, deploys,
                 lost, mixed, abandoned, collided>>

Step(t) ==
  \/ ReadPrice(t) \/ BackOff(t) \/ GiveUp(t)
  \/ TakeNonce(t) \/ AskNonce(t) \/ AnswerNonce(t)
  \/ Send(t) \/ Refused(t) \/ Confirm(t)

Progress ==
  \/ BeginCreation \/ EndDeploy
  \/ \E h \in Hooks : BeginCall(h) \/ Grant(h)
  \/ \E t \in Tasks : Step(t)
  \/ \E a \in Accounts : Mine(a)

Next ==
  \/ Deploy \/ Restart \/ Progress
  \/ \E t \in Tasks : Fail(t)
  \/ \E a \in Accounts : Outside(a)

\* The node answers and mines, and hooks go on.
Spec == Init /\ [][Next]_vars /\ WF_vars(Progress)

-----------------------------------------------------------------------------
Places == {"idle", "queued", "price", "nonce", "fetching", "ready", "sent", "failed"}

TypeOK ==
  /\ config \in [parallel : BOOLEAN, backoff : BOOLEAN]
  /\ status \in {"idle", "running", "failing", "done", "error"}
  /\ deployer \in Accounts /\ signer \in Accounts
  /\ manager \in [{"create", "call", "transfer"} -> Managers]
  /\ nonceMap \in [Managers -> [Accounts -> Nat \cup {Unknown}]]
  /\ req \in [Tasks -> [at : Places, kind : {"create", "call", "transfer"},
                        from : Accounts, key : Accounts, signs : Accounts, named : BOOLEAN,
                        retries : 0 .. MaxRetries, price : Prices \cup {"none"}, nonce : Nat]]
  /\ lock \in [Accounts -> SUBSET Hooks]
  /\ next \in [Accounts -> Nat] /\ pool \in [Accounts -> SUBSET Nat]
  /\ requests \in 0 .. MaxRequests /\ deploys \in 0 .. MaxDeploys /\ faults \in 0 .. MaxFaults
  /\ {lost, foreign, mixed, abandoned} \subseteq SUBSET Accounts /\ collided \subseteq Accounts

\* No transaction is sent with a nonce that is used, though first requests
\* read the map and await the node before they write it: unless the account
\* has transactions that the map does not know of, from before the process,
\* from another program or from a second nonce manager; or a hook has named
\* a nonce, or given a contract another signer (withSigner), which takes
\* nonces of one account for transactions of the other.
NoncesFresh == collided \subseteq foreign \cup mixed

\* What is pending can be mined: below it no nonce is missing, unless one was
\* taken for a transaction that was not sent, or the hooks have mixed the
\* account up with another or named a nonce.
NoNonceMissing ==
  \A a \in Accounts \ (lost \cup foreign \cup mixed) :
    \A n \in pool[a] : \A k \in next[a] .. n : k \in pool[a]

\* With the backoff nothing of a deployment is sent above the maximal price,
\* except for transfers and where the user has named the price.
PriceWithinMax == \A t \in Tasks : BacksOff(t) /\ At(t, "ready") => req[t].price \in {"low", "user"}

\* A deployment ends, though transactions of others or of an earlier process
\* may take its nonces, unless a nonce was taken for a transaction that was
\* not sent, a lock was left locked by a request that failed, or a hook has
\* used withSigner or named a nonce.
Settles ==
  status \in {"running", "failing"} ~>
    (status \in {"done", "error", "idle"} \/ lost \cup abandoned \cup mixed # {})

(***************************************************************************)
(* What the documentation says and the code does not do: setDeployer       *)
(* names the account that signs the creation of a contract.                *)
(***************************************************************************)
DeployerSigns == \A t \in Tasks : req[t].kind = "create" /\ ~At(t, "idle") => req[t].signs = deployer
=============================================================================
