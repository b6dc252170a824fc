-------------------------- MODULE TransactionsProofs --------------------------
(***************************************************************************)
(* Proofs about Transactions, for every number of signers, hooks, retries  *)
(* and deployments.  The argument: whoever asks for a nonce of an account  *)
(* is alone in doing so, because hooks hold the lock of the account and    *)
(* creations are made while no hook runs; so the entry of the nonce map    *)
(* and the node's answer are not stale when they are used, and as long as  *)
(* one map alone numbers the account they stay ahead of the chain.         *)
(***************************************************************************)
EXTENDS Transactions, TLAPS

-----------------------------------------------------------------------------
(* Type correctness.                                                       *)

Kinds == {"create", "call", "transfer"}
Request == [at : Places, kind : Kinds, from : Accounts, key : Accounts, signs : Accounts,
            named : BOOLEAN, retries : 0 .. MaxRetries, price : Prices \cup {"none"}, nonce : Nat]

LEMMA Bounds == MaxRetries \in Nat /\ MaxRequests \in Nat /\ MaxDeploys \in Nat /\ MaxFaults \in Nat
  BY TransactionsAssumption

LEMMA IdleType == Idle \in Request
  BY Bounds, TransactionsAssumption DEF Idle, Request, Places, Kinds

\* What a request of a task may be replaced by.
LEMMA ReqType ==
  ASSUME TypeOK, NEW t \in Tasks, NEW r \in Request, req' = [req EXCEPT ![t] = r]
  PROVE  req' \in [Tasks -> Request]
  BY DEF TypeOK, Request, Kinds, Prices

LEMMA PlaceType ==
  ASSUME TypeOK, NEW t \in Tasks, NEW where \in Places, Place(t, where)
  PROVE  req' \in [Tasks -> Request]
<1>1. req[t] \in Request
  BY DEF TypeOK, Request, Kinds
<1>2. [req[t] EXCEPT !.at = where] \in Request
  BY <1>1 DEF Request, Places
<1>3. req' = [req EXCEPT ![t] = [req[t] EXCEPT !.at = where]]
  BY DEF Place
<1> QED
  BY <1>2, <1>3, ReqType

LEMMA FailedType ==
  ASSUME TypeOK, NEW t \in Tasks, Failed(t)
  PROVE  /\ req' \in [Tasks -> Request]
         /\ status' \in {"idle", "running", "failing", "done", "error"}
         /\ abandoned' \subseteq Accounts
         /\ UNCHANGED <<services, nonceMap, lock>>
<1>1. [Idle EXCEPT !.at = "failed"] \in Request
  BY IdleType DEF Request, Places
<1>2. req' \in [Tasks -> Request]
  BY <1>1, ReqType DEF Failed
<1> QED
  BY <1>2 DEF Failed, TypeOK

LEMMA AskedType ==
  ASSUME NEW kind \in Kinds, NEW a \in Accounts, NEW at \in Places
  PROVE  /\ Asked(kind, a, at) \in Request /\ Asked(kind, a, at).at = at
         /\ Asked(kind, a, at).from = a /\ Asked(kind, a, at).key = a /\ Asked(kind, a, at).signs = a
         /\ ~Asked(kind, a, at).named
  BY Bounds DEF Asked, Request

LEMMA MixesType ==
  ASSUME TypeOK, NEW accounts \in SUBSET Accounts, Mixes(accounts)
  PROVE  mixed' \subseteq Accounts /\ faults' \in 0 .. MaxFaults
  BY Bounds DEF Mixes, Fault, TypeOK

\* What a hook asks for: with one account that is not mixed up, or with mixed
\* ones.
LEMMA HookRequests ==
  ASSUME NEW h \in Hooks, HookRequest(h)
  PROVE  \E request \in Request, accounts \in SUBSET Accounts :
           /\ Begin(h, request) /\ Mixes(accounts) /\ request.at = "queued"
           /\ \/ request.from = request.key /\ request.from = request.signs /\ ~request.named
              \/ {request.from, request.key, request.signs} \subseteq accounts
<1>1. PICK a \in Accounts :
        \/ Begin(h, [Asked("call", a, "queued") EXCEPT !.signs = Root]) /\ Mixes(Apart({a, Root}))
        \/ Begin(h, Asked("transfer", a, "queued")) /\ Mixes({})
        \/ \E n \in NamedNonces :
             /\ Begin(h, [Asked("transfer", a, "queued") EXCEPT !.named = TRUE, !.nonce = n])
             /\ Mixes({a})
  BY DEF HookRequest
<1>2. Root \in Accounts /\ NamedNonces \subseteq Nat
  BY TransactionsAssumption
<1>3. CASE Begin(h, [Asked("call", a, "queued") EXCEPT !.signs = Root]) /\ Mixes(Apart({a, Root}))
  <2> DEFINE asked == Asked("call", a, "queued")
             r == [asked EXCEPT !.signs = Root]
  <2>a. /\ asked \in Request /\ asked.at = "queued" /\ asked.from = a /\ asked.key = a
        /\ ~asked.named
    BY AskedType DEF Kinds, Places
  <2> HIDE DEF asked
  <2>1. r \in Request /\ r.at = "queued" /\ r.from = a /\ r.key = a /\ r.signs = Root /\ ~r.named
    BY <1>2, <2>a DEF Request
  <2>2. Apart({a, Root}) \in SUBSET Accounts /\ (a = Root \/ {a, Root} \subseteq Apart({a, Root}))
    BY <1>2 DEF Apart
  <2>3. Begin(h, r) /\ Mixes(Apart({a, Root}))
    BY <1>3 DEF asked
  <2> HIDE DEF r
  <2> QED  BY <2>1, <2>2, <2>3
<1>4. CASE Begin(h, Asked("transfer", a, "queued")) /\ Mixes({})
  <2> DEFINE r == Asked("transfer", a, "queued")
  <2>1. r \in Request /\ r.at = "queued" /\ r.from = a /\ r.key = a /\ r.signs = a /\ ~r.named
    BY AskedType DEF Asked, Kinds, Places
  <2> QED  BY <1>4, <2>1
<1>5. ASSUME NEW n \in NamedNonces,
             Begin(h, [Asked("transfer", a, "queued") EXCEPT !.named = TRUE, !.nonce = n]),
             Mixes({a})
      PROVE  \E request \in Request, accounts \in SUBSET Accounts :
               /\ Begin(h, request) /\ Mixes(accounts) /\ request.at = "queued"
               /\ {request.from, request.key, request.signs} \subseteq accounts
  <2> DEFINE asked == Asked("transfer", a, "queued")
             r == [asked EXCEPT !.named = TRUE, !.nonce = n]
  <2>a. /\ asked \in Request /\ asked.at = "queued" /\ asked.from = a /\ asked.key = a
        /\ asked.signs = a
    BY AskedType DEF Kinds, Places
  <2> HIDE DEF asked
  <2>1. r \in Request /\ r.at = "queued" /\ r.from = a /\ r.key = a /\ r.signs = a
    BY <1>2, <2>a DEF Request
  <2>2. Begin(h, r) /\ Mixes({a})
    BY <1>5 DEF asked
  <2> HIDE DEF r
  <2> QED  BY <2>1, <2>2
<1> QED
  BY <1>1, <1>3, <1>4, <1>5

\* What becomes of a request whose function is called.
LEMMA CalledType ==
  ASSUME TypeOK, NEW h \in Hooks, Called(h)
  PROVE  \E request \in Request, accounts \in SUBSET Accounts :
           /\ req' = [req EXCEPT ![h] = request] /\ Mixes(accounts)
           /\ request.at = IF req[h].kind = "transfer" /\ ~req[h].named THEN "nonce" ELSE "price"
           /\ request.kind = req[h].kind /\ request.key = req[h].key
           /\ request.signs = req[h].signs /\ request.named = req[h].named
           /\ request.kind = "transfer" => request.from = req[h].from
           /\ request.price = req[h].price /\ request.nonce = req[h].nonce
           /\ \/ request.from = request.key /\ request.from = request.signs
              \/ {request.from, request.key, request.signs} \subseteq accounts
<1>1. h \in Tasks /\ req[h] \in Request
  BY DEF TypeOK, Request, Kinds, Tasks
<1> DEFINE at == IF req[h].kind = "transfer" /\ ~req[h].named THEN "nonce" ELSE "price"
<1>2. PICK a \in Accounts :
        /\ req' = [req EXCEPT ![h] = [req[h] EXCEPT !.from = a, !.at = at]]
        /\ Mixes(Apart({a, req[h].key, req[h].signs}))
        /\ req[h].kind # "call" => a = req[h].from
  BY <1>1 DEF Called, Request
<1> DEFINE r == [req[h] EXCEPT !.from = a, !.at = at]
           accounts == Apart({a, req[h].key, req[h].signs})
<1>3. /\ r \in Request /\ r.at = at /\ r.from = a /\ r.key = req[h].key /\ r.signs = req[h].signs
      /\ r.kind = req[h].kind /\ r.named = req[h].named /\ r.price = req[h].price
      /\ r.nonce = req[h].nonce
  BY <1>1 DEF Request, Places
<1>4. /\ accounts \in SUBSET Accounts
      /\ (a = req[h].key /\ a = req[h].signs) \/ {a, req[h].key, req[h].signs} \subseteq accounts
  BY <1>1 DEF Apart, Request
<1>5. r.kind = "transfer" => r.from = req[h].from
  BY <1>2, <1>3
<1>6. /\ req' = [req EXCEPT ![h] = r] /\ Mixes(accounts)
      /\ r.at = IF req[h].kind = "transfer" /\ ~req[h].named THEN "nonce" ELSE "price"
  BY <1>2, <1>3
<1>7. \/ r.from = r.key /\ r.from = r.signs
      \/ {r.from, r.key, r.signs} \subseteq accounts
  BY <1>3, <1>4
<1>8. r \in Request /\ accounts \in SUBSET Accounts
  BY <1>3, <1>4
<1> HIDE DEF r, accounts, at
<1> USE <1>8
<1> WITNESS r \in Request, accounts \in SUBSET Accounts
<1> QED
  BY <1>3, <1>5, <1>6, <1>7

LEMMA BeginType ==
  ASSUME TypeOK, NEW t \in Tasks, NEW request \in Request, Begin(t, request),
         mixed' \subseteq Accounts, faults' \in 0 .. MaxFaults
  PROVE  TypeOK'
<1>1. req' \in [Tasks -> Request]
  BY ReqType DEF Begin
<1>2. requests' \in 0 .. MaxRequests
  BY TransactionsAssumption DEF Begin, TypeOK
<1> QED
  BY <1>1, <1>2 DEF Begin, TypeOK, services, chain, Request, Kinds

LEMMA TakenType ==
  ASSUME TypeOK, NEW t \in Tasks, NEW n \in Nat, Taken(t, n)
  PROVE  TypeOK'
<1>1. Manager(t) \in Managers /\ req[t].from \in Accounts
  BY DEF TypeOK, Manager
<1>2. nonceMap' \in [Managers -> [Accounts -> Nat \cup {Unknown}]]
  BY <1>1 DEF Taken, TypeOK
<1>3. req' \in [Tasks -> Request]
  <2> DEFINE at == IF req[t].kind = "transfer" THEN "price" ELSE "ready"
  <2>1. req[t] \in Request /\ at \in Places
    BY DEF TypeOK, Request, Kinds, Places
  <2>2. [req[t] EXCEPT !.nonce = n, !.at = at] \in Request
    BY <2>1, Bounds DEF Request, Places
  <2>3. req' = [req EXCEPT ![t] = [req[t] EXCEPT !.nonce = n, !.at = at]]
    BY DEF Taken
  <2> QED  BY <2>2, <2>3, ReqType
<1>4. foreign' \subseteq Accounts
  BY <1>1 DEF Taken, TypeOK
<1> QED
  BY <1>2, <1>3, <1>4 DEF Taken, TypeOK, services, chain, bounds, Request, Kinds

LEMMA StepType ==
  ASSUME TypeOK, NEW t \in Tasks, Step(t)
  PROVE  TypeOK'
<1>1. CASE ReadPrice(t)
  <2> DEFINE at == IF req[t].kind = "transfer" THEN "ready" ELSE "nonce"
  <2>1. PICK p \in Prices : Priced(t, p)
    BY <1>1 DEF ReadPrice
  <2>2. req[t] \in Request /\ at \in Places /\ 0 \in 0 .. MaxRetries
    BY Bounds DEF TypeOK, Request, Kinds, Places
  <2>3. [req[t] EXCEPT !.price = p, !.retries = 0, !.at = at] \in Request
    BY <2>2 DEF Request
  <2>4. req' = [req EXCEPT ![t] = [req[t] EXCEPT !.price = p, !.retries = 0, !.at = at]]
    BY <2>1 DEF Priced
  <2>5. req' \in [Tasks -> Request]
    BY <2>3, <2>4, ReqType
  <2> QED  BY <2>1, <2>5 DEF Priced, TypeOK, services, chain, bounds, past, Request, Kinds
<1>2. CASE BackOff(t)
  <2>1. req[t] \in Request /\ req[t].retries - 1 \in 0 .. MaxRetries
    BY <1>2, Bounds DEF BackOff, TypeOK, Request, Kinds
  <2>2. [req[t] EXCEPT !.retries = req[t].retries - 1] \in Request
    BY <2>1 DEF Request
  <2>3. req' = [req EXCEPT ![t] = [req[t] EXCEPT !.retries = req[t].retries - 1]]
    BY <1>2 DEF BackOff
  <2>4. req' \in [Tasks -> Request]
    BY <2>2, <2>3, ReqType
  <2> QED  BY <1>2, <2>4 DEF BackOff, TypeOK, services, chain, bounds, past, Request, Kinds
<1>3. CASE GiveUp(t)
  BY <1>3, FailedType DEF GiveUp, TypeOK, services, chain, bounds, past, Request, Kinds
<1>4. CASE TakeNonce(t)
  <2>1. KnownNonce(t) \in Nat
    BY <1>4 DEF TakeNonce, KnownNonce, TypeOK, Manager
  <2> QED  BY <1>4, <2>1, TakenType DEF TakeNonce
<1>5. CASE AskNonce(t)
  <2>1. req' \in [Tasks -> Request]
    BY <1>5, PlaceType DEF AskNonce, Places
  <2> QED  BY <1>5, <2>1 DEF AskNonce, TypeOK, services, chain, bounds, past, Request, Kinds
<1>6. CASE AnswerNonce(t)
  <2>1. next[req[t].from] \in Nat
    BY DEF TypeOK
  <2> QED  BY <1>6, <2>1, TakenType DEF AnswerNonce
<1>7. CASE Send(t)
  <2>1. req' \in [Tasks -> Request]
    <3>1. req[t] \in Request
      BY DEF TypeOK, Request, Kinds
    <3>2. [req[t] EXCEPT !.at = "sent", !.price = "none"] \in Request
      BY <3>1 DEF Request, Places
    <3>3. req' = [req EXCEPT ![t] = [req[t] EXCEPT !.at = "sent", !.price = "none"]]
      BY <1>7 DEF Send
    <3> QED  BY <3>2, <3>3, ReqType
  <2>2. pool' \in [Accounts -> SUBSET Nat]
    BY <1>7 DEF Send, TypeOK
  <2> QED  BY <1>7, <2>1, <2>2 DEF Send, TypeOK, services, bounds, past, Request, Kinds
<1>8. CASE Refused(t)
  BY <1>8, FailedType DEF Refused, TypeOK, services, chain, bounds, Request, Kinds
<1>9. CASE Confirm(t)
  <2>1. req' \in [Tasks -> Request]
    BY <1>9, IdleType, ReqType DEF Confirm
  <2>2. lock' \in [Accounts -> SUBSET Hooks]
    BY <1>9 DEF Confirm, TypeOK
  <2> QED  BY <1>9, <2>1, <2>2 DEF Confirm, TypeOK, services, chain, bounds, past, Request, Kinds
<1> QED
  BY <1>1, <1>2, <1>3, <1>4, <1>5, <1>6, <1>7, <1>8, <1>9 DEF Step

LEMMA NextType ==
  ASSUME TypeOK, [Next]_vars
  PROVE  TypeOK'
<1> USE DEF services, chain, bounds, past
<1>1. CASE Deploy
  <2>1. req' \in [Tasks -> Request] /\ deploys' \in 0 .. MaxDeploys
    BY <1>1, IdleType, TransactionsAssumption DEF Deploy, TypeOK
  <2>2. deployer' \in Accounts /\ signer' \in Accounts
    BY <1>1, TransactionsAssumption DEF Deploy, ResolvedSigner
  <2>3. manager' \in [Kinds -> Managers]
    BY <1>1 DEF Deploy, TypeOK, Managers, Kinds
  <2> QED  BY <1>1, <2>1, <2>2, <2>3 DEF Deploy, TypeOK, Request, Kinds
<1>2. CASE Restart
  <2>1. req' \in [Tasks -> Request] /\ faults' \in 0 .. MaxFaults
    BY <1>2, IdleType, TransactionsAssumption DEF Restart, Fault, TypeOK
  <2>2. manager' \in [Kinds -> Managers] /\ nonceMap' \in [Managers -> [Accounts -> Nat \cup {Unknown}]]
    BY <1>2 DEF Restart, OwnManager, Unused, Managers, Kinds
  <2> QED  BY <1>2, <2>1, <2>2 DEF Restart, TypeOK, Request, Kinds
<1>3. CASE BeginCreation
  <2>1. Begin(Creator, Asked("create", signer, "price")) /\ UNCHANGED <<mixed, faults>>
    BY <1>3 DEF BeginCreation
  <2>2. Asked("create", signer, "price") \in Request /\ Creator \in Tasks
    BY AskedType DEF TypeOK, Kinds, Places, Tasks
  <2>3. mixed' \subseteq Accounts /\ faults' \in 0 .. MaxFaults
    BY <2>1 DEF TypeOK
  <2> QED  BY <2>1, <2>2, <2>3, BeginType
<1>4. CASE EndDeploy
  BY <1>4 DEF EndDeploy, TypeOK
<1>5. ASSUME NEW h \in Hooks, BeginCall(h)  PROVE TypeOK'
  <2>1. PICK request \in Request, accounts \in SUBSET Accounts :
          Begin(h, request) /\ Mixes(accounts)
    BY <1>5, HookRequests DEF BeginCall
  <2> QED  BY <2>1, MixesType, BeginType DEF Tasks
<1>6. ASSUME NEW h \in Hooks, Grant(h)  PROVE TypeOK'
  <2>1. PICK request \in Request, accounts \in SUBSET Accounts :
          req' = [req EXCEPT ![h] = request] /\ Mixes(accounts)
    BY <1>6, CalledType DEF Grant
  <2>2. req' \in [Tasks -> Request] /\ mixed' \subseteq Accounts /\ faults' \in 0 .. MaxFaults
    BY <2>1, ReqType, MixesType DEF Tasks
  <2>3. lock' \in [Accounts -> SUBSET Hooks]
    BY <1>6 DEF Grant, TypeOK
  <2> QED  BY <1>6, <2>2, <2>3 DEF Grant, Called, TypeOK, Request, Kinds
<1>7. ASSUME NEW t \in Tasks, Step(t)  PROVE TypeOK'
  BY <1>7, StepType
<1>8. ASSUME NEW a \in Accounts, Mine(a)  PROVE TypeOK'
  BY <1>8 DEF Mine, TypeOK
<1>9. ASSUME NEW t \in Tasks, Fail(t)  PROVE TypeOK'
  <2>1. lost' \subseteq Accounts /\ faults' \in 0 .. MaxFaults
    BY <1>9, TransactionsAssumption DEF Fail, Fault, TypeOK
  <2> QED  BY <1>9, <2>1, FailedType DEF Fail, TypeOK, Request, Kinds
<1>10. ASSUME NEW a \in Accounts, Outside(a)  PROVE TypeOK'
  BY <1>10, TransactionsAssumption DEF Outside, Fault, TypeOK
<1>11. CASE UNCHANGED vars
  BY <1>11 DEF vars, TypeOK
<1> QED
  BY <1>1, <1>2, <1>3, <1>4, <1>5, <1>6, <1>7, <1>8, <1>9, <1>10, <1>11 DEF Next, Progress

LEMMA InitType == Init => TypeOK
<1> SUFFICES ASSUME Init PROVE TypeOK
  OBVIOUS
<1>1. req \in [Tasks -> Request]
  BY IdleType DEF Init
<1>2. manager \in [Kinds -> Managers] /\ nonceMap \in [Managers -> [Accounts -> Nat \cup {Unknown}]]
  BY DEF Init, OwnManager, Unused, Managers, Kinds
<1> QED
  BY <1>1, <1>2, TransactionsAssumption DEF Init, TypeOK, Request, Kinds

\* Whatever happens, the state is one of those that the module describes.
THEOREM TypeCorrect == Spec => []TypeOK
  BY InitType, NextType, PTL DEF Spec

-----------------------------------------------------------------------------
(* The inductive invariant.                                                *)

Active(t) == req[t].at \notin {"idle", "failed"}
Holding(t) == req[t].at \in {"price", "nonce", "fetching", "ready", "sent"}
HasNonce(t) == At(t, "ready") \/ (At(t, "price") /\ req[t].kind = "transfer")
Known(m, a) == nonceMap[m][a] # Unknown

\* The accounts of a request are one, and its nonce is from the manager, or all
\* of them are mixed up.
Signers ==
  \A t \in Tasks : Active(t) =>
    \/ req[t].from = req[t].key /\ req[t].from = req[t].signs /\ ~req[t].named
    \/ {req[t].from, req[t].key, req[t].signs} \subseteq mixed

\* The accounts that the map of one manager does not number alone.
Astray == foreign \cup mixed

\* Who runs at once, and holds what.
Turns ==
  /\ status \notin {"running", "failing"} => \A t \in Tasks : ~Active(t)
  /\ status = "failing" \/ ~config.parallel => \A t, u \in Tasks : Active(t) /\ Active(u) => t = u
  /\ Active(Creator) => \A h \in Hooks : ~Active(h)
  /\ \A h \in Hooks : Holding(h) => lock[req[h].key] = {h}
  /\ \A t \in Tasks : At(t, "fetching") /\ req[t].from \notin mixed => ~Known(Manager(t), req[t].from)

\* The map of an account, if only one has numbered it, is ahead of the chain.
MapAhead(a) ==
  /\ \A m, other \in Managers : Known(m, a) /\ Known(other, a) => m = other
  /\ (\A m \in Managers : ~Known(m, a)) => pool[a] = {}
  /\ \A n \in pool[a] : next[a] <= n
  /\ \A m \in Managers : Known(m, a) =>
       next[a] <= nonceMap[m][a] /\ \A n \in pool[a] : n < nonceMap[m][a]

\* A nonce that was taken is above all that was sent, and the last one taken.
NonceReserved(t) ==
  /\ next[req[t].from] <= req[t].nonce /\ req[t].nonce \notin pool[req[t].from]
  /\ nonceMap[Manager(t)][req[t].from] = req[t].nonce + 1

\* Every number below the map's is mined, pending or about to be sent.
Accounted(a) ==
  \A m \in Managers : Known(m, a) => \A k \in Nat :
    next[a] <= k /\ k < nonceMap[m][a] =>
      k \in pool[a] \/ \E t \in Tasks : HasNonce(t) /\ req[t].from = a /\ req[t].nonce = k

Numbers ==
  /\ \A a \in Accounts \ Astray : MapAhead(a)
  /\ \A t \in Tasks : HasNonce(t) /\ req[t].from \notin Astray => NonceReserved(t)
  /\ \A a \in Accounts \ (lost \cup Astray) : Accounted(a)
  /\ collided \subseteq Astray

PricesInv ==
  \A t \in Tasks : BacksOff(t) /\ req[t].at \in {"nonce", "fetching", "ready"} => req[t].price \in {"low", "user"}
-----------------------------------------------------------------------------
(* What a step of a task does to its request.                              *)

Only(t) == \A u \in Tasks : u # t => req'[u] = req[u]
Same(t) ==
  /\ req'[t].from = req[t].from /\ req'[t].kind = req[t].kind
  /\ req'[t].key = req[t].key /\ req'[t].signs = req[t].signs /\ req'[t].named = req[t].named

LEMMA Others ==
  ASSUME TypeOK, NEW t \in Tasks, NEW r, req' = [req EXCEPT ![t] = r]
  PROVE  req'[t] = r /\ Only(t)
  BY DEF TypeOK, Only

\* What a step of a task does to its request.
LEMMA Moves ==
  ASSUME TypeOK, NEW t \in Tasks
  PROVE  /\ \A p \in Prices : Priced(t, p) =>
              /\ Only(t) /\ Same(t) /\ req'[t].price = p /\ req'[t].nonce = req[t].nonce
              /\ req'[t].at = IF req[t].kind = "transfer" THEN "ready" ELSE "nonce"
         /\ \A n \in Nat : Taken(t, n) =>
              /\ Only(t) /\ Same(t) /\ req'[t].price = req[t].price /\ req'[t].nonce = n
              /\ req'[t].at = IF req[t].kind = "transfer" THEN "price" ELSE "ready"
         /\ BackOff(t) => Only(t) /\ Same(t) /\ At(t, "price")' /\ req'[t].nonce = req[t].nonce
         /\ \A where \in Places : Place(t, where) =>
              Only(t) /\ Same(t) /\ At(t, where)' /\ req'[t].nonce = req[t].nonce /\ req'[t].price = req[t].price
         /\ Send(t) => Only(t) /\ Same(t) /\ At(t, "sent")'
         /\ Confirm(t) => Only(t) /\ req'[t] = Idle
         /\ Failed(t) => Only(t) /\ At(t, "failed")'
<1>1. /\ req[t] \in Request
      /\ req \in [Tasks -> Request]
  BY DEF TypeOK, Request, Kinds
<1>2. ASSUME NEW p \in Prices, Priced(t, p)
      PROVE  /\ Only(t) /\ Same(t) /\ req'[t].price = p /\ req'[t].nonce = req[t].nonce
             /\ req'[t].at = IF req[t].kind = "transfer" THEN "ready" ELSE "nonce"
  BY <1>1, <1>2 DEF Priced, Only, Same, Request
<1>3. ASSUME NEW n \in Nat, Taken(t, n)
      PROVE  /\ Only(t) /\ Same(t) /\ req'[t].price = req[t].price /\ req'[t].nonce = n
             /\ req'[t].at = IF req[t].kind = "transfer" THEN "price" ELSE "ready"
  BY <1>1, <1>3 DEF Taken, Only, Same, Request
<1>4. BackOff(t) => Only(t) /\ Same(t) /\ At(t, "price")' /\ req'[t].nonce = req[t].nonce
  BY <1>1 DEF BackOff, Only, Same, At, Request
<1>5. ASSUME NEW where \in Places, Place(t, where)
      PROVE  Only(t) /\ Same(t) /\ At(t, where)' /\ req'[t].nonce = req[t].nonce /\ req'[t].price = req[t].price
  BY <1>1, <1>5 DEF Place, Only, Same, At, Request
<1>6. Send(t) => Only(t) /\ Same(t) /\ At(t, "sent")'
  BY <1>1 DEF Send, Only, Same, At, Request
<1>7. Confirm(t) => Only(t) /\ req'[t] = Idle
  BY <1>1 DEF Confirm, Only
<1>8. Failed(t) => Only(t) /\ At(t, "failed")'
  BY <1>1 DEF Failed, Only, At, Idle
<1> QED
  BY <1>2, <1>3, <1>4, <1>5, <1>6, <1>7, <1>8

-----------------------------------------------------------------------------
(* Who signs.                                                              *)

LEMMA MixesMore ==
  ASSUME NEW accounts, Mixes(accounts)
  PROVE  mixed \subseteq mixed' /\ accounts \subseteq mixed'
  BY DEF Mixes

\* A step of a request keeps its accounts.
LEMMA StepSame ==
  ASSUME TypeOK, NEW t \in Tasks, Step(t)
  PROVE  Active(t) /\ Only(t) /\ mixed' = mixed /\ (Active(t)' => Same(t))
<1>1. CASE ReadPrice(t)
  <2>1. PICK p \in Prices : Priced(t, p)
    BY <1>1 DEF ReadPrice
  <2> QED  BY <1>1, <2>1, Moves DEF ReadPrice, Active, At, Priced, past
<1>2. CASE BackOff(t)
  BY <1>2, Moves DEF BackOff, Active, At, past
<1>3. CASE GiveUp(t) \/ Refused(t)
  BY <1>3, Moves DEF GiveUp, Refused, Active, At
<1>4. CASE TakeNonce(t)
  <2>1. KnownNonce(t) \in Nat
    BY <1>4 DEF TakeNonce, KnownNonce, TypeOK, Manager
  <2> QED  BY <1>4, <2>1, Moves DEF TakeNonce, Taken, Active, At
<1>5. CASE AskNonce(t)
  BY <1>5, Moves DEF AskNonce, Active, At, Places, past
<1>6. CASE AnswerNonce(t)
  <2>1. next[req[t].from] \in Nat
    BY DEF TypeOK
  <2> QED  BY <1>6, <2>1, Moves DEF AnswerNonce, Taken, Active, At
<1>7. CASE Send(t)
  BY <1>7, Moves DEF Send, Active, At, past
<1>8. CASE Confirm(t)
  <2>1. Only(t) /\ req'[t].at = "idle"
    BY <1>8, Moves DEF Idle
  <2> QED  BY <1>8, <2>1 DEF Confirm, Active, At, past
<1> QED
  BY <1>1, <1>2, <1>3, <1>4, <1>5, <1>6, <1>7, <1>8 DEF Step

LEMMA SignersNext ==
  ASSUME TypeOK, Signers, [Next]_vars
  PROVE  Signers'
<1>1. CASE Deploy \/ Restart
  BY <1>1 DEF Deploy, Restart, Idle, Signers, Active
<1>2. ASSUME NEW t \in Tasks, Only(t), mixed \subseteq mixed',
             Active(t)' =>
               \/ req'[t].from = req'[t].key /\ req'[t].from = req'[t].signs /\ ~req'[t].named
               \/ {req'[t].from, req'[t].key, req'[t].signs} \subseteq mixed'
      PROVE  Signers'
  <2> SUFFICES ASSUME NEW u \in Tasks, u # t, Active(u)'
               PROVE  \/ req'[u].from = req'[u].key /\ req'[u].from = req'[u].signs /\ ~req'[u].named
                      \/ {req'[u].from, req'[u].key, req'[u].signs} \subseteq mixed'
    BY <1>2 DEF Signers
  <2>1. req'[u] = req[u] /\ Active(u)
    BY <1>2 DEF Only, Active
  <2> QED  BY <1>2, <2>1 DEF Signers
<1>3. CASE BeginCreation
  <2>1. req' = [req EXCEPT ![Creator] = Asked("create", signer, "price")] /\ mixed' = mixed
    BY <1>3 DEF BeginCreation, Begin
  <2>2. Creator \in Tasks /\ signer \in Accounts /\ "create" \in Kinds /\ "price" \in Places
    BY DEF Tasks, TypeOK, Kinds, Places
  <2>3. Only(Creator) /\ req'[Creator] = Asked("create", signer, "price")
    BY <2>1, <2>2, Others
  <2> QED  BY <1>2, <2>1, <2>2, <2>3, AskedType
<1>4. ASSUME NEW h \in Hooks, BeginCall(h)  PROVE Signers'
  <2>1. PICK request \in Request, accounts \in SUBSET Accounts :
          /\ Begin(h, request) /\ Mixes(accounts)
          /\ \/ request.from = request.key /\ request.from = request.signs /\ ~request.named
             \/ {request.from, request.key, request.signs} \subseteq accounts
    BY <1>4, HookRequests DEF BeginCall
  <2>2. h \in Tasks /\ Only(h) /\ req'[h] = request
    BY <2>1, Others DEF Begin, Tasks
  <2> QED  BY <1>2, <2>1, <2>2, MixesMore
<1>5. ASSUME NEW h \in Hooks, Grant(h)  PROVE Signers'
  <2>1. PICK request \in Request, accounts \in SUBSET Accounts :
          /\ req' = [req EXCEPT ![h] = request] /\ Mixes(accounts)
          /\ request.kind = req[h].kind /\ request.key = req[h].key
          /\ request.signs = req[h].signs /\ request.named = req[h].named
          /\ \/ request.from = request.key /\ request.from = request.signs
             \/ {request.from, request.key, request.signs} \subseteq accounts
    BY <1>5, CalledType DEF Grant
  <2>2. h \in Tasks /\ Only(h) /\ req'[h] = request /\ Active(h)
    BY <1>5, <2>1, Others DEF Tasks, Grant, At, Active
  <2>3. \/ ~req[h].named
        \/ {req[h].key, req[h].signs} \subseteq mixed
    BY <2>2 DEF Signers
  <2> QED  BY <1>2, <2>1, <2>2, <2>3, MixesMore
<1>6. ASSUME NEW t \in Tasks, Step(t)  PROVE Signers'
  BY <1>2, <1>6, StepSame DEF Signers, Same
<1>7. ASSUME NEW t \in Tasks, Fail(t)  PROVE Signers'
  <2>1. Only(t) /\ ~Active(t)' /\ mixed' = mixed
    BY <1>7, Moves DEF Fail, Active, At
  <2> QED  BY <1>2, <2>1
<1>8. CASE \/ EndDeploy \/ UNCHANGED vars
           \/ \E a \in Accounts : Mine(a) \/ Outside(a)
  BY <1>8 DEF EndDeploy, Mine, Outside, vars, past, Signers, Active
<1> QED
  BY <1>1, <1>3, <1>4, <1>5, <1>6, <1>7, <1>8 DEF Next, Progress

-----------------------------------------------------------------------------
(* Who runs at once.                                                       *)

\* Two requests for one account do not hold anything at once.
LEMMA Alone ==
  ASSUME TypeOK, Turns, Signers, NEW t \in Tasks, NEW u \in Tasks,
         Holding(t), Holding(u), req[t].from = req[u].from, req[t].from \notin mixed
  PROVE  t = u
<1>1. Active(t) /\ Active(u)
  BY DEF Holding, Active
<1>2. CASE t = Creator \/ u = Creator
  BY <1>1, <1>2 DEF Turns, Tasks
<1>3. CASE t \in Hooks /\ u \in Hooks
  BY <1>1, <1>3 DEF Turns, Signers
<1> QED
  BY <1>2, <1>3 DEF Tasks

\* A request that goes on.
LEMMA TurnsMove ==
  ASSUME TypeOK, Turns, Signers, NEW t \in Tasks, Holding(t), Holding(t)', Only(t), Same(t),
         UNCHANGED <<status, config, manager, lock, mixed>>,
         \A m \in Managers, a \in Accounts : a # req[t].from => nonceMap'[m][a] = nonceMap[m][a],
         At(t, "fetching")' => nonceMap'[Manager(t)][req[t].from] = Unknown
  PROVE  Turns'
<1>1. \A u \in Tasks : u # t => req'[u] = req[u]
  BY DEF Only
<1>2. Active(t) /\ \A u \in Tasks : Active(u)' <=> Active(u)
  BY <1>1 DEF Active, Holding
<1>3. \A u \in Tasks : Holding(u)' => Holding(u) /\ req'[u].key = req[u].key
  BY <1>1 DEF Holding, Same
<1>4. ASSUME NEW u \in Tasks, At(u, "fetching")', req'[u].from \notin mixed
      PROVE  ~Known(Manager(u), req[u].from)'
  <2>1. CASE u = t
    BY <2>1, <1>4 DEF Known, Manager, Same
  <2>2. CASE u # t
    <3>1. At(u, "fetching") /\ req'[u] = req[u] /\ Holding(u)
      BY <1>4, <2>2, <1>1 DEF At, Holding
    <3>2. req[u].from # req[t].from
      BY <3>1, <2>2, <1>4, Alone
    <3>3. Manager(u) \in Managers /\ req[u].from \in Accounts
      BY DEF Manager, TypeOK
    <3>4. ~Known(Manager(u), req[u].from)
      BY <3>1, <1>4 DEF Turns
    <3> QED  BY <3>1, <3>2, <3>3, <3>4 DEF Known, Manager
  <2> QED  BY <2>1, <2>2
<1>5. Creator \in Tasks /\ Hooks \subseteq Tasks
  BY DEF Tasks
<1> QED
  BY <1>2, <1>3, <1>4, <1>5 DEF Turns

\* A request that ends.
LEMMA TurnsRest ==
  ASSUME TypeOK, Turns, NEW t \in Tasks, Active(t), Only(t), ~Active(t)',
         UNCHANGED <<config, manager, nonceMap, mixed>>,
         lock' = lock \/ (Holding(t) /\ t \in Hooks /\ lock' = [lock EXCEPT ![req[t].key] = {}]),
         status' # status => \A u \in Tasks : u # t => ~Active(u)
  PROVE  Turns'
<1>1. ~Active(t)' /\ \A u \in Tasks : u # t => req'[u] = req[u]
  BY DEF Only
<1>2. \A u \in Tasks : Active(u)' => Active(u) /\ u # t
  BY <1>1 DEF Active
<1>3. ASSUME NEW h \in Hooks, Holding(h)'  PROVE lock'[req'[h].key] = {h}
  <2>1. h \in Tasks /\ h # t /\ req'[h] = req[h] /\ Holding(h)
    BY <1>1, <1>3 DEF Holding, Active, Tasks
  <2>2. lock[req[h].key] = {h}
    BY <2>1 DEF Turns
  <2>3. Holding(t) /\ t \in Hooks => req[h].key # req[t].key
    BY <2>1, <2>2 DEF Turns
  <2>4. req[h].key \in Accounts /\ req[t].key \in Accounts
    BY <2>1 DEF TypeOK
  <2> QED  BY <2>1, <2>2, <2>3, <2>4 DEF TypeOK
<1>4. ASSUME NEW u \in Tasks, At(u, "fetching")', req'[u].from \notin mixed
      PROVE  ~Known(Manager(u), req[u].from)'
  BY <1>1, <1>4 DEF At, Active, Known, Manager, Turns
<1>5. status' # status => \A u \in Tasks : ~Active(u)'
  BY <1>2
<1>6. Creator \in Tasks /\ Hooks \subseteq Tasks
  BY DEF Tasks
<1> QED
  BY <1>2, <1>3, <1>4, <1>5, <1>6 DEF Turns

LEMMA TurnsFailed ==
  ASSUME TypeOK, Turns, NEW t \in Tasks, Active(t), Failed(t), UNCHANGED mixed
  PROVE  Turns'
<1>1. status' # status => \A u \in Tasks : u # t => ~Active(u)
  <2> SUFFICES ASSUME status' # status, NEW u \in Tasks, u # t, Active(u)  PROVE FALSE
    OBVIOUS
  <2>1. status = "failing" \/ ~config.parallel \/ t = Creator
    BY DEF Failed, Tasks
  <2> QED  BY <2>1 DEF Turns, Tasks
<1>2. UNCHANGED <<config, manager, nonceMap, lock, mixed>>
  BY DEF Failed, services
<1>3. Only(t) /\ ~Active(t)'
  BY Moves DEF Active, At
<1> QED
  BY <1>1, <1>2, <1>3, TurnsRest

LEMMA TurnsBegin ==
  ASSUME TypeOK, Turns, NEW t \in Tasks, NEW request \in Request, Begin(t, request),
         mixed \subseteq mixed', request.at \in {"queued", "price"},
         status \in {"running", "failing"}, request.at = "price" <=> t = Creator,
         t = Creator => \A h \in Hooks : ~Active(h),
         t # Creator => ~Active(Creator),
         status = "failing" \/ ~config.parallel => \A u \in Tasks : ~Active(u)
  PROVE  Turns'
<1>1. req' = [req EXCEPT ![t] = request]
  BY DEF Begin
<1>2. req'[t] = request /\ \A u \in Tasks : u # t => req'[u] = req[u]
  BY <1>1, Others DEF Only
<1>3. UNCHANGED <<status, config, manager, nonceMap, lock>>
  BY DEF Begin, services
<1>4. \A u \in Tasks : Active(u)' => u = t \/ Active(u)
  BY <1>2 DEF Active
<1>5. \A h \in Hooks : Holding(h)' => Holding(h) /\ req'[h] = req[h]
  BY <1>2, TransactionsAssumption DEF Holding, Tasks
<1>6. \A u \in Tasks : At(u, "fetching")' => At(u, "fetching") /\ req'[u] = req[u]
  BY <1>2 DEF At
<1>7. Creator \in Tasks /\ Hooks \subseteq Tasks /\ Creator \notin Hooks
  BY TransactionsAssumption DEF Tasks
<1>8. Active(Creator)' => \A h \in Hooks : ~Active(h)'
  BY <1>2, <1>4, <1>7 DEF Turns, Active
<1>9. \A u \in Tasks : At(u, "fetching")' /\ req'[u].from \notin mixed' => ~Known(Manager(u), req[u].from)'
  BY <1>3, <1>6 DEF Turns, Known, Manager
<1> QED
  BY <1>3, <1>4, <1>5, <1>7, <1>8, <1>9 DEF Turns

LEMMA TurnsStepOf ==
  ASSUME TypeOK, Turns, Signers, NEW t \in Tasks, Step(t)
  PROVE  Turns'
<1> USE DEF At
<1>m. UNCHANGED mixed
  BY StepSame
<1>1. CASE ReadPrice(t)
  <2>1. PICK p \in Prices : Priced(t, p)
    BY <1>1 DEF ReadPrice
  <2>2. Holding(t) /\ Holding(t)' /\ Only(t) /\ Same(t) /\ req'[t].at # "fetching"
    BY <1>1, <2>1, Moves DEF ReadPrice, Holding
  <2> QED  BY <1>m, <2>1, <2>2, TurnsMove DEF Priced, services
<1>2. CASE BackOff(t)
  <2>1. Holding(t) /\ Holding(t)' /\ Only(t) /\ Same(t) /\ req'[t].at # "fetching"
    BY <1>2, Moves DEF BackOff, Holding
  <2> QED  BY <1>2, <2>1, <1>m, TurnsMove DEF BackOff, services
<1>3. CASE GiveUp(t)
  BY <1>3, <1>m, TurnsFailed DEF GiveUp, Active
<1>4. ASSUME NEW n \in Nat, Taken(t, n), At(t, "nonce") \/ At(t, "fetching")  PROVE Turns'
  <2>1. \A m \in Managers, a \in Accounts : a # req[t].from => nonceMap'[m][a] = nonceMap[m][a]
    BY <1>4 DEF Taken, TypeOK, Manager
  <2>2. Holding(t) /\ Holding(t)' /\ Only(t) /\ Same(t) /\ req'[t].at # "fetching"
    BY <1>4, Moves DEF Holding
  <2> QED  BY <1>4, <2>1, <2>2, <1>m, TurnsMove DEF Taken, services
<1>5. CASE TakeNonce(t)
  <2>1. KnownNonce(t) \in Nat
    BY <1>5 DEF TakeNonce, KnownNonce, TypeOK, Manager
  <2> QED  BY <1>4, <1>5, <2>1 DEF TakeNonce
<1>6. CASE AskNonce(t)
  <2>1. Place(t, "fetching") /\ "fetching" \in Places
    BY <1>6 DEF AskNonce, Places
  <2>2. Holding(t) /\ Holding(t)' /\ Only(t) /\ Same(t)
    BY <1>6, <2>1, Moves DEF AskNonce, Holding
  <2> QED  BY <1>6, <2>2, <1>m, TurnsMove DEF AskNonce, KnownNonce, services
<1>7. CASE AnswerNonce(t)
  <2>1. next[req[t].from] \in Nat
    BY DEF TypeOK
  <2> QED  BY <1>4, <1>7, <2>1 DEF AnswerNonce
<1>8. CASE Send(t)
  <2>1. Holding(t) /\ Holding(t)' /\ Only(t) /\ Same(t) /\ req'[t].at # "fetching"
    BY <1>8, Moves DEF Send, Holding
  <2> QED  BY <1>8, <2>1, <1>m, TurnsMove DEF Send, services
<1>9. CASE Refused(t)
  BY <1>9, <1>m, TurnsFailed DEF Refused, Active
<1>10. CASE Confirm(t)
  <2>1. Only(t) /\ req'[t] = Idle
    BY <1>10, Moves
  <2>2. ~Active(t)'
    BY <2>1 DEF Active, Idle
  <2>3. Active(t) /\ Holding(t)
    BY <1>10 DEF Confirm, Active, Holding
  <2>4. t # Creator => t \in Hooks
    BY DEF Tasks
  <2> QED  BY <1>10, <2>1, <2>2, <2>3, <2>4, <1>m, TurnsRest DEF Confirm, services
<1> QED
  BY <1>1, <1>2, <1>3, <1>5, <1>6, <1>7, <1>8, <1>9, <1>10 DEF Step

LEMMA TurnsNext ==
  ASSUME TypeOK, Turns, Signers, [Next]_vars
  PROVE  Turns'
<1> USE DEF At
<1>1. CASE Deploy \/ Restart
  <2>1. \A t \in Tasks : req'[t].at = "idle"
    BY <1>1 DEF Deploy, Restart, Idle
  <2>2. Creator \in Tasks /\ Hooks \subseteq Tasks
    BY DEF Tasks
  <2> QED  BY <2>1, <2>2 DEF Turns, Active, Holding
<1>2. CASE BeginCreation
  <2> DEFINE request == Asked("create", signer, "price")
  <2>1. Begin(Creator, request) /\ mixed' = mixed
    BY <1>2 DEF BeginCreation
  <2>2. ~config.parallel => \A u \in Tasks : ~Active(u)
    BY <1>2 DEF BeginCreation, Active, Resting, Tasks
  <2>3. request \in Request /\ request.at = "price" /\ Creator \in Tasks
    BY AskedType DEF Kinds, Places, Tasks, TypeOK
  <2>4. status = "running" /\ \A h \in Hooks : ~Active(h)
    BY <1>2 DEF BeginCreation, Resting, Active
  <2> HIDE DEF request
  <2> QED
    BY <2>1, <2>2, <2>3, <2>4, TurnsBegin
<1>3. CASE EndDeploy
  <2>1. \A t \in Tasks : ~Active(t)
    BY <1>3 DEF EndDeploy, Active, Resting
  <2>2. UNCHANGED <<req, lock, nonceMap, manager, config, mixed>>
    BY <1>3 DEF EndDeploy, services, past
  <2>3. Creator \in Tasks /\ Hooks \subseteq Tasks
    BY DEF Tasks
  <2> QED  BY <2>1, <2>2, <2>3 DEF Turns, Active, Holding, Known, Manager
<1>4. ASSUME NEW h \in Hooks, BeginCall(h)  PROVE Turns'
  <2>1. ~Active(Creator)
    BY <1>4 DEF BeginCall, Active, Resting, Tasks
  <2>2. status = "failing" \/ ~config.parallel => \A u \in Tasks : ~Active(u)
    BY <1>4 DEF BeginCall, Active, Resting
  <2>3. PICK request \in Request : Begin(h, request) /\ request.at = "queued" /\ mixed \subseteq mixed'
    BY <1>4, HookRequests, MixesMore DEF BeginCall
  <2>4. h \in Tasks /\ h # Creator /\ status \in {"running", "failing"}
    BY <1>4, TransactionsAssumption DEF BeginCall, Tasks
  <2> QED  BY <2>1, <2>2, <2>3, <2>4, TurnsBegin
<1>5. ASSUME NEW h \in Hooks, Grant(h)  PROVE Turns'
  <2>1. PICK request \in Request, accounts \in SUBSET Accounts :
          /\ req' = [req EXCEPT ![h] = request] /\ Mixes(accounts)
          /\ request.at = IF req[h].kind = "transfer" /\ ~req[h].named THEN "nonce" ELSE "price"
          /\ request.key = req[h].key
    BY <1>5, CalledType DEF Grant
  <2>2. h \in Tasks /\ req[h].key \in Accounts /\ mixed \subseteq mixed'
    BY <2>1, MixesMore DEF Tasks, TypeOK
  <2>3. \A u \in Tasks : u # h => req'[u] = req[u]
    BY <2>1, <2>2, Others DEF Only
  <2>4. req'[h].at \in {"nonce", "price"} /\ req'[h].key = req[h].key
    BY <2>1, <2>2, Others
  <2>5. UNCHANGED <<status, config, manager, nonceMap>>
    BY <1>5 DEF Grant, Called, services
  <2>6. \A u \in Tasks : Active(u)' <=> Active(u)
    BY <1>5, <2>3, <2>4 DEF Active, Grant
  <2>7. ASSUME NEW g \in Hooks, Holding(g)'  PROVE lock'[req'[g].key] = {g}
    <3>1. CASE g = h
      BY <3>1, <1>5, <2>2, <2>4 DEF Grant, TypeOK
    <3>2. CASE g # h
      <4>1. req'[g] = req[g] /\ Holding(g) /\ lock[req[g].key] = {g}
        BY <3>2, <2>3, <2>7 DEF Holding, Turns, Tasks
      <4>2. req[g].key # req[h].key
        BY <4>1, <1>5 DEF Grant
      <4> QED  BY <4>1, <4>2, <1>5, <2>2 DEF Grant, TypeOK, Tasks
    <3> QED  BY <3>1, <3>2
  <2>8. \A u \in Tasks : At(u, "fetching")' /\ req'[u].from \notin mixed' => ~Known(Manager(u), req[u].from)'
    BY <2>2, <2>3, <2>4, <2>5 DEF Turns, Known, Manager
  <2>9. Creator \in Tasks /\ Hooks \subseteq Tasks
    BY DEF Tasks
  <2> QED  BY <2>5, <2>6, <2>7, <2>8, <2>9 DEF Turns
<1>6. ASSUME NEW t \in Tasks, Step(t)  PROVE Turns'
  BY <1>6, TurnsStepOf
<1>7. ASSUME NEW t \in Tasks, Fail(t)  PROVE Turns'
  BY <1>7, TurnsFailed DEF Fail, Active
<1>8. CASE \/ UNCHANGED vars
           \/ \E a \in Accounts : Mine(a) \/ Outside(a)
  <2>1. UNCHANGED <<status, config, manager, nonceMap, req, lock, mixed>>
    BY <1>8 DEF Mine, Outside, vars, services, past
  <2> QED  BY <2>1 DEF Turns, Active, Holding, Known, Manager
<1> QED
  BY <1>1, <1>2, <1>3, <1>4, <1>5, <1>6, <1>7, <1>8 DEF Next, Progress
-----------------------------------------------------------------------------
(* The numbers.                                                            *)

\* A step that numbers, sends and mines nothing, and drops no number.
LEMMA NumbersFrame ==
  ASSUME TypeOK, Numbers, UNCHANGED <<nonceMap, next, pool, manager>>,
         lost \subseteq lost', Astray \subseteq Astray', collided' \subseteq Astray',
         \A t \in Tasks : HasNonce(t)' =>
           req'[t].from \in Astray' \/ (HasNonce(t) /\ Same(t) /\ req'[t].nonce = req[t].nonce),
         \A t \in Tasks : HasNonce(t) =>
           \/ req[t].from \in lost' \cup Astray'
           \/ HasNonce(t)' /\ Same(t) /\ req'[t].nonce = req[t].nonce
  PROVE  Numbers'
<1>1. \A a \in Accounts \ Astray' : MapAhead(a)'
  BY DEF Numbers, MapAhead, Known
<1>2. ASSUME NEW t \in Tasks, HasNonce(t)', req'[t].from \notin Astray'  PROVE NonceReserved(t)'
  <2>1. HasNonce(t) /\ Same(t) /\ req'[t].nonce = req[t].nonce
    BY <1>2
  <2>2. NonceReserved(t)
    BY <2>1, <1>2 DEF Numbers, Same
  <2> QED  BY <2>1, <2>2 DEF NonceReserved, Manager, Same
<1>3. ASSUME NEW a \in Accounts \ (lost' \cup Astray')  PROVE Accounted(a)'
  <2> SUFFICES ASSUME NEW m \in Managers, Known(m, a), NEW k \in Nat,
                      next[a] <= k, k < nonceMap[m][a], k \notin pool[a]
               PROVE  \E t \in Tasks : HasNonce(t)' /\ req'[t].from = a /\ req'[t].nonce = k
    BY DEF Accounted, Known
  <2>0. Accounted(a)
    BY <1>3 DEF Numbers
  <2>1. PICK t \in Tasks : HasNonce(t) /\ req[t].from = a /\ req[t].nonce = k
    BY <2>0 DEF Accounted
  <2>2. HasNonce(t)' /\ Same(t) /\ req'[t].nonce = k
    BY <2>1, <1>3
  <2> QED  BY <2>1, <2>2 DEF Same
<1> QED
  BY <1>1, <1>2, <1>3 DEF Numbers

\* A step of one task that numbers, sends and mines nothing.
LEMMA NumbersMove ==
  ASSUME TypeOK, Numbers, NEW t \in Tasks, Only(t),
         UNCHANGED <<nonceMap, next, pool, manager>>,
         lost \subseteq lost', Astray \subseteq Astray', collided' \subseteq Astray',
         HasNonce(t)' => req'[t].from \in Astray' \/ (HasNonce(t) /\ Same(t) /\ req'[t].nonce = req[t].nonce),
         HasNonce(t) => \/ req[t].from \in lost' \cup Astray'
                        \/ HasNonce(t)' /\ Same(t) /\ req'[t].nonce = req[t].nonce
  PROVE  Numbers'
<1>1. \A u \in Tasks : u # t => (HasNonce(u)' <=> HasNonce(u)) /\ Same(u) /\ req'[u].nonce = req[u].nonce
  BY DEF Only, HasNonce, At, Same
<1> QED
  BY <1>1, NumbersFrame

LEMMA NumbersTaken ==
  ASSUME TypeOK, Turns, Signers, Numbers, NEW t \in Tasks, NEW n \in Nat, Taken(t, n),
         \/ At(t, "nonce") /\ n = KnownNonce(t)
         \/ At(t, "fetching") /\ n = next[req[t].from]
  PROVE  Numbers'
<1> DEFINE a == req[t].from
           m == Manager(t)
<1>1. a \in Accounts /\ m \in Managers /\ Only(t) /\ Same(t) /\ Holding(t)
  BY Moves DEF TypeOK, Manager, Holding, At
<1>2. HasNonce(t)' /\ ~HasNonce(t) /\ req'[t].nonce = n
  BY Moves DEF HasNonce, At, Same
<1>3. UNCHANGED <<next, pool, manager, lost, collided>> /\ Astray \subseteq Astray'
  BY DEF Taken, services, chain, Astray
<1>4. /\ nonceMap'[m][a] = n + 1
      /\ \A o \in Managers, b \in Accounts : o # m \/ b # a => nonceMap'[o][b] = nonceMap[o][b]
  BY <1>1 DEF Taken, TypeOK
<1>5. a \notin Astray' => \A o \in Managers : o # m => ~Known(o, a) /\ nonceMap'[o][a] = Unknown
  BY <1>1, <1>4 DEF Taken, Known, Astray
<1>6. \A u \in Tasks : u # t => (HasNonce(u)' <=> HasNonce(u)) /\ req'[u] = req[u]
  BY <1>1 DEF Only, HasNonce, At
<1>7. a \notin Astray => \A u \in Tasks : u # t /\ HasNonce(u) => req[u].from # a
  <2> SUFFICES ASSUME a \notin Astray, NEW u \in Tasks, u # t, HasNonce(u), req[u].from = a  PROVE FALSE
    OBVIOUS
  <2>1. Holding(u) /\ a \notin mixed
    BY DEF HasNonce, Holding, At, Astray
  <2> QED  BY <1>1, <2>1, Alone
<1>8. a \notin Astray' => next[a] <= n /\ \A k \in pool[a] : next[a] <= k /\ k < n
  <2> SUFFICES ASSUME a \notin Astray'  PROVE next[a] <= n /\ \A k \in pool[a] : next[a] <= k /\ k < n
    OBVIOUS
  <2>1. MapAhead(a) /\ next[a] \in Nat
    BY <1>1, <1>3 DEF Numbers, TypeOK
  <2>2. CASE At(t, "nonce") /\ n = KnownNonce(t)
    BY <2>1, <2>2, <1>1 DEF MapAhead, KnownNonce, Known, Unknown
  <2>3. CASE At(t, "fetching") /\ n = next[a]
    <3>1. \A o \in Managers : ~Known(o, a)
      BY <2>3, <1>1, <1>3, <1>5 DEF Turns, Astray
    <3> QED  BY <2>1, <2>3, <3>1 DEF MapAhead
  <2> QED  BY <2>2, <2>3
<1>9. ASSUME NEW b \in Accounts \ Astray'  PROVE MapAhead(b)'
  <2>1. CASE b = a
    <3>1. next'[a] <= nonceMap'[m][a] /\ \A k \in pool'[a] : next'[a] <= k /\ k < nonceMap'[m][a]
      <4>1. next[a] \in Nat /\ pool[a] \subseteq Nat
        BY <1>1 DEF TypeOK
      <4> QED  BY <2>1, <4>1, <1>3, <1>4, <1>8, <1>9
    <3>2. nonceMap'[m][a] # Unknown
      BY <1>4 DEF Unknown
    <3> QED  BY <2>1, <3>1, <3>2, <1>1, <1>5, <1>9 DEF MapAhead, Known
  <2>2. CASE b # a
    <3>1. MapAhead(b)
      BY <1>3, <1>9 DEF Numbers
    <3> QED  BY <2>2, <3>1, <1>1, <1>3, <1>4, <1>9 DEF MapAhead, Known
  <2> QED  BY <2>1, <2>2
<1>10. ASSUME NEW u \in Tasks, HasNonce(u)', req'[u].from \notin Astray'  PROVE NonceReserved(u)'
  <2>1. CASE u = t
    <3>1. n \notin pool[a]
      BY <1>8, <1>10, <1>1, <2>1 DEF TypeOK, Same
    <3> QED  BY <2>1, <3>1, <1>1, <1>2, <1>3, <1>4, <1>8, <1>10 DEF NonceReserved, Same, Manager
  <2>2. CASE u # t
    <3>1. NonceReserved(u) /\ req'[u] = req[u] /\ req[u].from # a
      BY <2>2, <1>3, <1>6, <1>7, <1>10 DEF Numbers
    <3>2. req[u].from \in Accounts /\ Manager(u) \in Managers
      BY DEF TypeOK, Manager
    <3> QED  BY <3>1, <3>2, <1>3, <1>4 DEF NonceReserved, Manager
  <2> QED  BY <2>1, <2>2
<1>11. ASSUME NEW b \in Accounts \ (lost' \cup Astray')  PROVE Accounted(b)'
  <2> SUFFICES ASSUME NEW o \in Managers, Known(o, b)', NEW k \in Nat,
                      next[b] <= k, k < nonceMap'[o][b], k \notin pool[b]
               PROVE  \E u \in Tasks : HasNonce(u)' /\ req'[u].from = b /\ req'[u].nonce = k
    BY <1>3 DEF Accounted
  <2>1. Accounted(b)
    BY <1>3, <1>11 DEF Numbers
  <2>2. CASE b = a /\ k = n
    BY <2>2, <1>1, <1>2 DEF Same
  <2>3. CASE b = a /\ k # n
    <3>1. o = m
      BY <2>3, <1>5, <1>11 DEF Known
    <3>2. k < n
      BY <3>1, <2>3, <1>4
    <3>3. CASE At(t, "nonce") /\ n = KnownNonce(t)
      <4>1. Known(m, a) /\ nonceMap[m][a] = n
        BY <3>3 DEF KnownNonce, Known, Unknown
      <4>2. PICK u \in Tasks : HasNonce(u) /\ req[u].from = a /\ req[u].nonce = k
        BY <4>1, <2>1, <2>3, <3>1, <3>2 DEF Accounted
      <4> QED  BY <4>2, <2>3, <1>2, <1>3, <1>6, <1>7, <1>11
    <3>4. CASE At(t, "fetching") /\ n = next[a]
      <4>1. next[a] \in Nat
        BY <1>1 DEF TypeOK
      <4> QED  BY <3>4, <4>1, <3>2, <2>3
    <3> QED  BY <3>3, <3>4
  <2>4. CASE b # a
    <3>1. Known(o, b) /\ k < nonceMap[o][b]
      BY <2>4, <1>4 DEF Known
    <3>2. PICK u \in Tasks : HasNonce(u) /\ req[u].from = b /\ req[u].nonce = k
      BY <3>1, <2>1 DEF Accounted
    <3> QED  BY <3>2, <2>4, <1>2, <1>6
  <2> QED  BY <2>2, <2>3, <2>4
<1>12. collided' \subseteq Astray'
  BY <1>3 DEF Numbers
<1> QED
  BY <1>9, <1>10, <1>11, <1>12 DEF Numbers

LEMMA NumbersSend ==
  ASSUME TypeOK, Turns, Signers, Numbers, NEW t \in Tasks, Send(t)
  PROVE  Numbers'
<1> DEFINE a == req[t].signs
           n == req[t].nonce
<1>1. a \in Accounts /\ n \in Nat /\ Only(t) /\ Same(t) /\ HasNonce(t) /\ Holding(t) /\ Active(t)
  BY Moves DEF TypeOK, Send, HasNonce, Holding, Active, At
<1>2. ~HasNonce(t)'
  BY Moves DEF HasNonce, At
<1>3. UNCHANGED <<nonceMap, next, manager, lost, Astray, collided>>
  BY DEF Send, services, past, Astray
<1>4. pool'[a] = pool[a] \cup {n} /\ \A b \in Accounts : b # a => pool'[b] = pool[b]
  BY <1>1 DEF Send, TypeOK
<1>5. \A u \in Tasks : u # t => (HasNonce(u)' <=> HasNonce(u)) /\ req'[u] = req[u]
  BY <1>1 DEF Only, HasNonce, At
<1>0. (a \in Astray /\ req[t].from \in Astray) \/ a = req[t].from
  BY <1>1 DEF Signers, Astray
<1>6. a \notin Astray => \A u \in Tasks : u # t /\ HasNonce(u) => req[u].from # a
  <2> SUFFICES ASSUME a \notin Astray, NEW u \in Tasks, u # t, HasNonce(u), req[u].from = a  PROVE FALSE
    OBVIOUS
  <2>1. Holding(u) /\ a \notin mixed
    BY DEF HasNonce, Holding, At, Astray
  <2> QED  BY <1>0, <1>1, <2>1, Alone
<1>7. a \notin Astray => next[a] <= n /\ nonceMap[Manager(t)][a] = n + 1
  BY <1>0, <1>1 DEF Numbers, NonceReserved
<1>8. ASSUME NEW b \in Accounts \ Astray'  PROVE MapAhead(b)'
  <2>1. MapAhead(b)
    BY <1>3, <1>8 DEF Numbers
  <2>2. CASE b = a
    <3>1. Manager(t) \in Managers /\ Known(Manager(t), a)
      BY <2>2, <1>1, <1>3, <1>7, <1>8 DEF TypeOK, Manager, Known, Unknown
    <3>2. \A o \in Managers : Known(o, a) => nonceMap[o][a] = n + 1
      BY <2>1, <2>2, <3>1, <1>3, <1>7, <1>8 DEF MapAhead
    <3>3. \A k \in pool'[a] : next[a] <= k
      BY <2>1, <2>2, <1>3, <1>4, <1>7, <1>8 DEF MapAhead
    <3>4. \A o \in Managers : Known(o, a) => next[a] <= nonceMap[o][a] /\ \A k \in pool'[a] : k < nonceMap[o][a]
      BY <2>1, <2>2, <3>2, <1>1, <1>4 DEF MapAhead
    <3> QED  BY <2>1, <2>2, <3>1, <3>3, <3>4, <1>3 DEF MapAhead, Known
  <2>3. CASE b # a
    BY <2>1, <2>3, <1>3, <1>4, <1>8 DEF MapAhead, Known
  <2> QED  BY <2>2, <2>3
<1>9. ASSUME NEW u \in Tasks, HasNonce(u)', req'[u].from \notin Astray'  PROVE NonceReserved(u)'
  <2>1. u # t /\ req'[u] = req[u] /\ req[u].from # a /\ NonceReserved(u)
    BY <1>2, <1>3, <1>5, <1>6, <1>9 DEF Numbers
  <2>2. req[u].from \in Accounts
    BY DEF TypeOK
  <2> QED  BY <2>1, <2>2, <1>3, <1>4 DEF NonceReserved, Manager
<1>10. ASSUME NEW b \in Accounts \ (lost' \cup Astray')  PROVE Accounted(b)'
  <2> SUFFICES ASSUME NEW o \in Managers, Known(o, b), NEW k \in Nat,
                      next[b] <= k, k < nonceMap[o][b], k \notin pool'[b]
               PROVE  \E u \in Tasks : HasNonce(u)' /\ req'[u].from = b /\ req'[u].nonce = k
    BY <1>3 DEF Accounted, Known
  <2>1. k \notin pool[b] /\ (b = a => k # n)
    BY <1>4
  <2>2. PICK u \in Tasks : HasNonce(u) /\ req[u].from = b /\ req[u].nonce = k
    BY <2>1, <1>3, <1>10 DEF Numbers, Accounted
  <2>3. u # t
    BY <2>1, <2>2, <1>0, <1>3, <1>10
  <2> QED  BY <2>2, <2>3, <1>5
<1> QED
  BY <1>3, <1>8, <1>9, <1>10 DEF Numbers

LEMMA NumbersMine ==
  ASSUME TypeOK, Numbers, NEW a \in Accounts, Mine(a)
  PROVE  Numbers'
<1>1. UNCHANGED <<nonceMap, req, manager, lost, Astray, collided>>
  BY DEF Mine, services, past, Astray
<1>2. /\ next[a] \in Nat /\ next[a] \in pool[a] /\ pool[a] \subseteq Nat
      /\ next'[a] = next[a] + 1 /\ pool'[a] = pool[a] \ {next[a]}
      /\ \A b \in Accounts : b # a => next'[b] = next[b] /\ pool'[b] = pool[b]
  BY DEF Mine, TypeOK
<1>3. ASSUME NEW b \in Accounts \ Astray'  PROVE MapAhead(b)'
  <2>1. MapAhead(b)
    BY <1>1, <1>3 DEF Numbers
  <2>2. CASE b = a
    <3>1. \A k \in pool'[a] : k \in Nat /\ next[a] <= k /\ k # next[a]
      BY <2>1, <2>2, <1>2 DEF MapAhead
    <3>2. \A k \in pool'[a] : next'[a] <= k
      BY <3>1, <1>2
    <3>3. \A m \in Managers : nonceMap[m][a] \in Nat \cup {Unknown}
      BY DEF TypeOK
    <3>4. \A m \in Managers : Known(m, a) => next'[a] <= nonceMap[m][a] /\ \A k \in pool'[a] : k < nonceMap[m][a]
      BY <2>1, <2>2, <3>3, <1>2 DEF MapAhead, Known
    <3>5. \E m \in Managers : Known(m, a)
      BY <2>1, <2>2, <1>2 DEF MapAhead
    <3> QED  BY <2>1, <2>2, <3>2, <3>4, <3>5, <1>1 DEF MapAhead, Known
  <2>3. CASE b # a
    BY <2>1, <2>3, <1>1, <1>2, <1>3 DEF MapAhead, Known
  <2> QED  BY <2>2, <2>3
<1>4. ASSUME NEW t \in Tasks, HasNonce(t)', req'[t].from \notin Astray'  PROVE NonceReserved(t)'
  <2>1. NonceReserved(t) /\ req[t].from \in Accounts /\ req[t].nonce \in Nat
    BY <1>1, <1>4 DEF Numbers, HasNonce, At, TypeOK
  <2>2. next'[req[t].from] <= req[t].nonce /\ req[t].nonce \notin pool'[req[t].from]
    BY <2>1, <1>2 DEF NonceReserved
  <2> QED  BY <2>1, <2>2, <1>1 DEF NonceReserved, Manager
<1>5. ASSUME NEW b \in Accounts \ (lost' \cup Astray')  PROVE Accounted(b)'
  <2> SUFFICES ASSUME NEW o \in Managers, Known(o, b), NEW k \in Nat,
                      next'[b] <= k, k < nonceMap[o][b], k \notin pool'[b]
               PROVE  \E t \in Tasks : HasNonce(t) /\ req[t].from = b /\ req[t].nonce = k
    BY <1>1 DEF Accounted, Known, HasNonce, At
  <2>1. next[b] <= k /\ k \notin pool[b]
    BY <1>2
  <2> QED  BY <2>1, <1>1, <1>5 DEF Numbers, Accounted
<1> QED
  BY <1>1, <1>3, <1>4, <1>5 DEF Numbers

\* Nothing is numbered anew while nothing is running.
LEMMA NumbersDeploy ==
  ASSUME TypeOK, Turns, Numbers, Deploy
  PROVE  Numbers'
<1>1. \A t \in Tasks : ~HasNonce(t) /\ ~HasNonce(t)'
  BY DEF Deploy, Turns, Active, HasNonce, At, Idle
<1>2. UNCHANGED <<nonceMap, next, pool, lost, Astray, collided>>
  BY DEF Deploy, chain, past, Astray
<1> QED
  BY <1>1, <1>2 DEF Numbers, MapAhead, Accounted, Known

LEMMA NumbersRestart ==
  ASSUME TypeOK, Restart
  PROVE  Numbers'
<1>1. \A t \in Tasks : ~HasNonce(t)'
  BY DEF Restart, HasNonce, At, Idle
<1>2. \A m \in Managers, a \in Accounts : ~Known(m, a)'
  BY DEF Restart, Unused, Known
<1>3. UNCHANGED <<next, pool>> /\ Astray' = {a \in Accounts : pool[a] # {}} /\ collided' = {}
  BY DEF Restart, chain, Astray
<1> QED
  BY <1>1, <1>2, <1>3 DEF Numbers, MapAhead, Accounted

LEMMA NumbersOutside ==
  ASSUME TypeOK, Numbers, NEW a \in Accounts, Outside(a)
  PROVE  Numbers'
<1>1. UNCHANGED <<nonceMap, pool, req, manager, lost, collided>> /\ Astray' = Astray \cup {a}
  BY DEF Outside, services, Astray
<1>2. \A b \in Accounts : b # a => next'[b] = next[b]
  BY DEF Outside, TypeOK
<1>3. \A b \in Accounts \ Astray' : MapAhead(b)'
  BY <1>1, <1>2 DEF Numbers, MapAhead, Known
<1>4. ASSUME NEW t \in Tasks, HasNonce(t)', req'[t].from \notin Astray'  PROVE NonceReserved(t)'
  <2>1. req[t].from \in Accounts /\ req[t].from # a /\ NonceReserved(t)
    BY <1>1, <1>4 DEF Numbers, HasNonce, At, TypeOK
  <2> QED  BY <2>1, <1>1, <1>2 DEF NonceReserved, Manager
<1>5. \A b \in Accounts \ (lost' \cup Astray') : Accounted(b)'
  BY <1>1, <1>2 DEF Numbers, Accounted, Known, HasNonce, At
<1> QED
  BY <1>1, <1>3, <1>4, <1>5 DEF Numbers

LEMMA NumbersFailed ==
  ASSUME TypeOK, Numbers, NEW t \in Tasks, Failed(t),
         UNCHANGED <<chain, foreign, mixed>>, lost \subseteq lost', collided' \subseteq Astray,
         HasNonce(t) => req[t].from \in lost' \cup Astray
  PROVE  Numbers'
<1>1. Only(t) /\ ~HasNonce(t)'
  BY Moves DEF HasNonce, At
<1>2. UNCHANGED <<nonceMap, manager>>
  BY DEF Failed, services
<1>3. UNCHANGED Astray
  BY DEF Astray
<1> QED
  BY <1>1, <1>2, <1>3, NumbersMove DEF chain

LEMMA NumbersStepOf ==
  ASSUME TypeOK, Turns, Signers, Numbers, NEW t \in Tasks, Step(t)
  PROVE  Numbers'
<1> USE DEF At
<1>1. CASE ReadPrice(t)
  <2>1. PICK p \in Prices : Priced(t, p)
    BY <1>1 DEF ReadPrice
  <2>2. /\ Only(t) /\ Same(t) /\ req'[t].nonce = req[t].nonce
        /\ req'[t].at = IF req[t].kind = "transfer" THEN "ready" ELSE "nonce"
    BY <2>1, Moves
  <2>3. HasNonce(t)' <=> HasNonce(t)
    BY <1>1, <2>2 DEF HasNonce, ReadPrice
  <2>4. UNCHANGED <<nonceMap, manager, chain, past>>
    BY <2>1 DEF Priced, services
  <2> QED  BY <2>2, <2>3, <2>4, NumbersMove DEF Numbers, chain, past, Astray
<1>2. CASE BackOff(t)
  <2>1. Only(t) /\ Same(t) /\ At(t, "price")' /\ req'[t].nonce = req[t].nonce
    BY <1>2, Moves
  <2>2. HasNonce(t)' <=> HasNonce(t)
    BY <1>2, <2>1 DEF HasNonce, BackOff, Same
  <2>3. UNCHANGED <<nonceMap, manager, chain, past>>
    BY <1>2 DEF BackOff, services
  <2> QED  BY <2>1, <2>2, <2>3, NumbersMove DEF Numbers, chain, past, Astray
<1>3. CASE GiveUp(t)
  <2>1. ~HasNonce(t)
    BY <1>3 DEF GiveUp, BacksOff, HasNonce
  <2> QED  BY <1>3, <2>1, NumbersFailed DEF GiveUp, Numbers
<1>4. CASE TakeNonce(t)
  <2>1. KnownNonce(t) \in Nat
    BY <1>4 DEF TakeNonce, KnownNonce, TypeOK, Manager
  <2> QED  BY <1>4, <2>1, NumbersTaken DEF TakeNonce
<1>5. CASE AskNonce(t)
  <2>1. Only(t) /\ req'[t].at = "fetching"
    BY <1>5, Moves DEF AskNonce, Places
  <2>2. ~HasNonce(t) /\ ~HasNonce(t)'
    BY <1>5, <2>1 DEF HasNonce, AskNonce
  <2>3. UNCHANGED <<nonceMap, manager, chain, past>>
    BY <1>5 DEF AskNonce, services
  <2> QED  BY <2>1, <2>2, <2>3, NumbersMove DEF Numbers, chain, past, Astray
<1>6. CASE AnswerNonce(t)
  <2>1. next[req[t].from] \in Nat
    BY DEF TypeOK
  <2> QED  BY <1>6, <2>1, NumbersTaken DEF AnswerNonce
<1>7. CASE Send(t)
  BY <1>7, NumbersSend
<1>8. CASE Refused(t)
  <2>1. HasNonce(t) /\ Active(t)
    BY <1>8 DEF Refused, HasNonce, Active
  <2>2. req[t].signs \in Accounts /\ req[t].nonce \in Nat /\ next[req[t].signs] \in Nat
    BY DEF TypeOK
  <2>3. {req[t].from, req[t].signs} \subseteq Astray
    <3>1. {req[t].from, req[t].signs} \subseteq Astray \/ req[t].from = req[t].signs
      BY <2>1 DEF Signers, Astray
    <3> QED  BY <1>8, <2>1, <2>2, <3>1 DEF Refused, Used, Numbers, NonceReserved
  <2> QED  BY <1>8, <2>3, NumbersFailed DEF Refused, Numbers
<1>9. CASE Confirm(t)
  <2>1. Only(t) /\ req'[t].at = "idle"
    BY <1>9, Moves DEF Idle
  <2>2. ~HasNonce(t) /\ ~HasNonce(t)'
    BY <1>9, <2>1 DEF HasNonce, Confirm
  <2>3. UNCHANGED <<nonceMap, manager, chain, past>>
    BY <1>9 DEF Confirm, services
  <2> QED  BY <2>1, <2>2, <2>3, NumbersMove DEF Numbers, chain, past, Astray
<1> QED
  BY <1>1, <1>2, <1>3, <1>4, <1>5, <1>6, <1>7, <1>8, <1>9 DEF Step

LEMMA NumbersNext ==
  ASSUME TypeOK, Turns, Signers, Numbers, [Next]_vars
  PROVE  Numbers'
<1> USE DEF At
<1>1. CASE Deploy
  BY <1>1, NumbersDeploy
<1>2. CASE Restart
  BY <1>2, NumbersRestart
<1>3. ASSUME NEW t \in Tasks, NEW request \in Request, Begin(t, request),
             request.at = "queued" \/ (request.at = "price" /\ request.kind # "transfer"),
             ~HasNonce(t), mixed \subseteq mixed'
      PROVE  Numbers'
  <2>1. Only(t) /\ req'[t] = request
    BY <1>3, Others DEF Begin
  <2>2. ~HasNonce(t)'
    BY <1>3, <2>1 DEF HasNonce
  <2>3. UNCHANGED <<nonceMap, manager, next, pool, lost, foreign, collided>>
    BY <1>3 DEF Begin, services, chain
  <2>4. Astray \subseteq Astray' /\ collided' \subseteq Astray'
    BY <1>3, <2>3 DEF Astray, Numbers
  <2> QED  BY <1>3, <2>1, <2>2, <2>3, <2>4, NumbersMove
<1>4. CASE BeginCreation
  <2> DEFINE request == Asked("create", signer, "price")
  <2>1. Creator \in Tasks /\ request \in Request /\ request.at = "price" /\ request.kind = "create"
    BY AskedType DEF Tasks, TypeOK, Kinds, Places, Asked
  <2>2. Begin(Creator, request) /\ mixed' = mixed /\ ~HasNonce(Creator)
    BY <1>4 DEF BeginCreation, HasNonce
  <2> HIDE DEF request
  <2> QED  BY <1>3, <2>1, <2>2
<1>5. ASSUME NEW h \in Hooks, BeginCall(h)  PROVE Numbers'
  <2>1. PICK request \in Request : Begin(h, request) /\ request.at = "queued" /\ mixed \subseteq mixed'
    BY <1>5, HookRequests, MixesMore DEF BeginCall
  <2>2. h \in Tasks /\ ~HasNonce(h)
    BY <1>5 DEF BeginCall, HasNonce, Tasks
  <2> QED  BY <1>3, <2>1, <2>2
<1>6. ASSUME NEW h \in Hooks, Grant(h)  PROVE Numbers'
  <2>1. PICK request \in Request, accounts \in SUBSET Accounts :
          /\ req' = [req EXCEPT ![h] = request] /\ Mixes(accounts)
          /\ request.at = IF req[h].kind = "transfer" /\ ~req[h].named THEN "nonce" ELSE "price"
          /\ request.kind = req[h].kind /\ request.named = req[h].named
          /\ request.kind = "transfer" => request.from = req[h].from
    BY <1>6, CalledType DEF Grant
  <2>2. /\ h \in Tasks /\ Only(h) /\ req'[h] = request /\ Active(h) /\ ~HasNonce(h)
        /\ mixed \subseteq mixed'
    BY <1>6, <2>1, Others, MixesMore DEF Tasks, Grant, HasNonce, Active
  <2>3. HasNonce(h)' => req'[h].from \in mixed
    BY <2>1, <2>2 DEF HasNonce, Signers
  <2>4. UNCHANGED <<nonceMap, manager, next, pool, lost, foreign, collided>>
    BY <1>6 DEF Grant, Called, services, chain
  <2>5. Astray \subseteq Astray' /\ collided' \subseteq Astray' /\ mixed \subseteq Astray'
    BY <2>2, <2>4 DEF Astray, Numbers
  <2> QED  BY <2>2, <2>3, <2>4, <2>5, NumbersMove
<1>7. CASE EndDeploy \/ UNCHANGED vars
  <2>1. UNCHANGED <<nonceMap, manager, chain, past, req>>
    BY <1>7 DEF EndDeploy, vars, services
  <2> QED  BY <2>1, NumbersFrame DEF Numbers, chain, past, HasNonce, Same, Astray
<1>8. ASSUME NEW t \in Tasks, Step(t)  PROVE Numbers'
  BY <1>8, NumbersStepOf
<1>9. ASSUME NEW t \in Tasks, Fail(t)  PROVE Numbers'
  BY <1>9, NumbersFailed DEF Fail, HasNonce, Numbers
<1>10. ASSUME NEW a \in Accounts, Mine(a) \/ Outside(a)  PROVE Numbers'
  BY <1>10, NumbersMine, NumbersOutside
<1> QED
  BY <1>1, <1>2, <1>4, <1>5, <1>6, <1>7, <1>8, <1>9, <1>10 DEF Next, Progress

LEMMA InvariantInit == Init => Signers /\ Turns /\ Numbers
<1> SUFFICES ASSUME Init PROVE Signers /\ Turns /\ Numbers
  OBVIOUS
<1>1. \A t \in Tasks : req[t].at = "idle"
  BY DEF Init, Idle
<1>2. Creator \in Tasks /\ Hooks \subseteq Tasks
  BY DEF Tasks
<1>3. \A m \in Managers, a \in Accounts : ~Known(m, a)
  BY DEF Init, Unused, Known
<1>4. Turns
  BY <1>1, <1>2 DEF Turns, Active, Holding, At
<1>5. Numbers
  BY <1>1, <1>3 DEF Init, Numbers, MapAhead, Accounted, HasNonce, At
<1>6. Signers
  BY <1>1 DEF Signers, Active
<1> QED
  BY <1>4, <1>5, <1>6

LEMMA Invariant == Spec => [](TypeOK /\ Signers /\ Turns /\ Numbers)
<1>1. TypeOK /\ Signers /\ Turns /\ Numbers /\ [Next]_vars => (TypeOK /\ Signers /\ Turns /\ Numbers)'
  BY NextType, SignersNext, TurnsNext, NumbersNext
<1> QED
  BY <1>1, InitType, InvariantInit, PTL DEF Spec

\* A transaction is sent with a used nonce only from an account that has
\* transactions the nonce map does not know of, or that a hook has mixed up
\* with another (withSigner) or named a nonce for: the check of the map and
\* the answer of the node are far apart, yet first requests do not race.
THEOREM FreshNonces == Spec => []NoncesFresh
<1>1. Numbers => NoncesFresh
  BY DEF Numbers, NoncesFresh, Astray
<1> QED
  BY <1>1, Invariant, PTL

\* A pending transaction is held up by a missing nonce only if one was taken
\* for a transaction that was not sent, or used elsewhere, or if a hook has
\* mixed the account up with another or named a nonce for it.
THEOREM NoHeldUpNonces == Spec => []NoNonceMissing
<1>1. TypeOK /\ Turns /\ Numbers => NoNonceMissing
  <2> SUFFICES ASSUME TypeOK, Turns, Numbers, NEW a \in Accounts \ (lost \cup foreign \cup mixed),
                      NEW n \in pool[a], NEW k \in next[a] .. n, k \notin pool[a]
               PROVE  FALSE
    BY DEF NoNonceMissing
  <2>1. MapAhead(a) /\ Accounted(a) /\ n \in Nat /\ next[a] \in Nat /\ a \notin Astray
    BY DEF Numbers, TypeOK, Astray
  <2>2. PICK m \in Managers : Known(m, a)
    BY <2>1 DEF MapAhead
  <2>3. nonceMap[m][a] \in Nat /\ n < nonceMap[m][a]
    BY <2>1, <2>2 DEF MapAhead, TypeOK, Known, Unknown
  <2>a. k \in Nat /\ k < n
    BY <2>1
  <2>4. PICK t \in Tasks : HasNonce(t) /\ req[t].from = a /\ req[t].nonce = k
    BY <2>1, <2>2, <2>3, <2>a DEF Accounted
  <2>5. nonceMap[Manager(t)][a] = k + 1 /\ Manager(t) \in Managers
    BY <2>1, <2>4 DEF Numbers, NonceReserved, TypeOK, Manager
  <2>6. Manager(t) = m
    BY <2>1, <2>2, <2>a, <2>5 DEF MapAhead, Known, Unknown
  <2>7. nonceMap[m][a] = k + 1
    BY <2>5, <2>6
  <2> QED  BY <2>1, <2>3, <2>a, <2>7
<1> QED
  BY <1>1, Invariant, PTL

-----------------------------------------------------------------------------
(* The price.                                                              *)

LEMMA PricesKept ==
  ASSUME TypeOK, PricesInv, NEW t \in Tasks, Only(t), UNCHANGED config,
         BacksOff(t)' /\ req'[t].at \in {"nonce", "fetching", "ready"} => req'[t].price \in {"low", "user"}
  PROVE  PricesInv'
  BY DEF PricesInv, Only, BacksOff

LEMMA PricesStepOf ==
  ASSUME TypeOK, PricesInv, NEW t \in Tasks, Step(t)
  PROVE  PricesInv'
<1> USE DEF At
<1>1. CASE ReadPrice(t)
  <2>1. PICK p \in Prices : Priced(t, p) /\ (p = "high" => ~BacksOff(t))
    BY <1>1 DEF ReadPrice
  <2>2. Only(t) /\ Same(t) /\ req'[t].price = p /\ UNCHANGED config
    BY <2>1, Moves DEF Priced, services
  <2> QED  BY <2>1, <2>2, PricesKept DEF Same, BacksOff, Prices
<1>2. CASE BackOff(t)
  BY <1>2, Moves, PricesKept DEF BackOff, services
<1>3. ASSUME Failed(t)  PROVE PricesInv'
  BY <1>3, Moves, PricesKept DEF Failed, services
<1>4. ASSUME NEW n \in Nat, Taken(t, n), At(t, "nonce") \/ At(t, "fetching")  PROVE PricesInv'
  <2>1. Only(t) /\ Same(t) /\ req'[t].price = req[t].price /\ UNCHANGED config
    BY <1>4, Moves DEF Taken, services
  <2> QED  BY <1>4, <2>1, PricesKept DEF Same, BacksOff, PricesInv
<1>5. CASE TakeNonce(t)
  <2>1. KnownNonce(t) \in Nat
    BY <1>5 DEF TakeNonce, KnownNonce, TypeOK, Manager
  <2> QED  BY <1>4, <1>5, <2>1 DEF TakeNonce
<1>6. CASE AskNonce(t)
  <2>1. Only(t) /\ Same(t) /\ req'[t].price = req[t].price /\ UNCHANGED config
    BY <1>6, Moves DEF AskNonce, services, Places
  <2> QED  BY <1>6, <2>1, PricesKept DEF Same, BacksOff, PricesInv, AskNonce
<1>7. CASE AnswerNonce(t)
  <2>1. next[req[t].from] \in Nat
    BY DEF TypeOK
  <2> QED  BY <1>4, <1>7, <2>1 DEF AnswerNonce
<1>8. CASE Send(t)
  BY <1>8, Moves, PricesKept DEF Send, services
<1>9. CASE Confirm(t)
  <2>1. Only(t) /\ req'[t] = Idle /\ UNCHANGED config
    BY <1>9, Moves DEF Confirm, services
  <2>2. req'[t].at = "idle"
    BY <2>1 DEF Idle
  <2> QED  BY <2>1, <2>2, PricesKept
<1> QED
  BY <1>1, <1>2, <1>3, <1>5, <1>6, <1>7, <1>8, <1>9 DEF Step, GiveUp, Refused

LEMMA PricesNext ==
  ASSUME TypeOK, PricesInv, [Next]_vars
  PROVE  PricesInv'
<1> USE DEF At
<1>1. CASE Deploy \/ Restart
  BY <1>1 DEF Deploy, Restart, Idle, PricesInv
<1>2. ASSUME NEW t \in Tasks, NEW request \in Request, req' = [req EXCEPT ![t] = request], config' = config,
             request.at \in {"queued", "price", "nonce"}, request.at = "nonce" => request.kind = "transfer"
      PROVE  PricesInv'
  <2>1. Only(t) /\ req'[t] = request
    BY <1>2, Others
  <2> QED  BY <1>2, <2>1, PricesKept DEF BacksOff
<1>3. CASE BeginCreation
  <2> DEFINE request == Asked("create", signer, "price")
  <2>1. Creator \in Tasks /\ request \in Request /\ request.at = "price"
    BY AskedType DEF Tasks, TypeOK, Kinds, Places
  <2>2. Begin(Creator, request)
    BY <1>3 DEF BeginCreation
  <2> HIDE DEF request
  <2> QED  BY <1>2, <2>1, <2>2 DEF Begin, services
<1>4. ASSUME NEW h \in Hooks, BeginCall(h)  PROVE PricesInv'
  <2>1. PICK request \in Request : Begin(h, request) /\ request.at = "queued"
    BY <1>4, HookRequests DEF BeginCall
  <2> QED  BY <1>2, <2>1 DEF Tasks, Begin, services
<1>5. ASSUME NEW h \in Hooks, Grant(h)  PROVE PricesInv'
  <2>1. PICK request \in Request :
          /\ req' = [req EXCEPT ![h] = request]
          /\ request.at = IF req[h].kind = "transfer" /\ ~req[h].named THEN "nonce" ELSE "price"
          /\ request.kind = req[h].kind
    BY <1>5, CalledType DEF Grant
  <2> QED  BY <1>2, <1>5, <2>1 DEF Tasks, Grant, Called, services
<1>6. ASSUME NEW t \in Tasks, Step(t)  PROVE PricesInv'
  BY <1>6, PricesStepOf
<1>7. ASSUME NEW t \in Tasks, Fail(t)  PROVE PricesInv'
  <2>1. Only(t) /\ req'[t].at = "failed" /\ UNCHANGED config
    BY <1>7, Moves DEF Fail, Failed, services
  <2> QED  BY <2>1, PricesKept
<1>8. CASE \/ EndDeploy \/ UNCHANGED vars
           \/ \E a \in Accounts : Mine(a) \/ Outside(a)
  <2>1. UNCHANGED <<req, config>>
    BY <1>8 DEF EndDeploy, Mine, Outside, vars, services
  <2> QED  BY <2>1 DEF PricesInv, BacksOff
<1> QED
  BY <1>1, <1>3, <1>4, <1>5, <1>6, <1>7, <1>8 DEF Next, Progress

\* With the backoff no creation and no call of a hook is sent above the
\* maximal price, unless the user has named it.
THEOREM PricesWithinMax == Spec => []PriceWithinMax
<1>1. Init => PricesInv
  BY DEF Init, Idle, PricesInv
<1>2. TypeOK /\ PricesInv /\ [Next]_vars => PricesInv'
  BY PricesNext
<1>3. PricesInv => PriceWithinMax
  BY DEF PricesInv, PriceWithinMax, At
<1> QED
  BY <1>1, <1>2, <1>3, TypeCorrect, PTL DEF Spec
===============================================================================
