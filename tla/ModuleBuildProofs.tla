------------------------- MODULE ModuleBuildProofs -------------------------
(***************************************************************************)
(* Proofs about ModuleBuild: what a module function declares is complete   *)
(* and consistent, the walk of the resolver puts each element after what   *)
(* it needs and leaves nothing out, so do the batches, and diff reports no *)
(* difference only if everything is deployed.                              *)
(*                                                                         *)
(* BuilderOK says what the lists of the builder have to do with each       *)
(* other.  WalkOK is the invariant of the walk: for what is still to be    *)
(* done, everything that it needs is either there or has a task before     *)
(* its own.  BatchOK is that of the batching: the batches are filled       *)
(* without a hole, from the calls that are left.                           *)
(***************************************************************************)
EXTENDS ModuleBuild, TLAPS, FiniteSetTheorems, NaturalsInduction

-----------------------------------------------------------------------------
(* The invariant of the builder.                                           *)

NamedOnce(s) == \A i, j \in DOMAIN s : s[i].name = s[j].name => i = j

(* An event refers to what is declared, and to a binding or an event that  *)
(* it is a hook of.                                                        *)
EventRefers(e) ==
  /\ Range(e.deps) \subseteq BindingNames /\ Range(e.usage) \subseteq BindingNames
  /\ Range(e.eventDeps) \subseteq NamesOfEvents /\ Range(e.eventUsage) \subseteq NamesOfEvents
  /\ e.deps # <<>> \/ e.eventDeps # <<>>

EventsRefer == \A j \in DOMAIN events : EventRefers(events[j])

BindingsRefer ==
  \A i \in DOMAIN bindings :
    /\ \A k \in DOMAIN bindings[i].args :
         bindings[i].args[k].kind = "binding" => bindings[i].args[k].name \in BindingNames
    /\ Range(bindings[i].deployDeps) \subseteq BindingNames

(* The hooks of a binding are events of their type, and an event is listed *)
(* with each binding that it is a hook of.                                 *)
IsEvent(h, t) == \E j \in DOMAIN events : events[j].name = h /\ events[j].type = t

HooksAreEvents ==
  \A i \in DOMAIN bindings, t \in Before \cup After : \A h \in Range(bindings[i].hooks[t]) : IsEvent(h, t)

HooksListed ==
  \A j \in DOMAIN events, i \in DOMAIN bindings :
    bindings[i].name \in Range(events[j].deps)
      => events[j].name \in Range(bindings[i].hooks[events[j].type])

(* The arguments have passed the validator.                                *)
Valid ==
  \A i \in DOMAIN bindings : \A k \in DOMAIN bindings[i].args :
    LET types == Inputs[bindings[i].contractName] IN
    k <= Len(types) /\ Accepted(bindings[i].args[k], types[k])

Declared ==
  /\ Typed
  /\ NamedOnce(bindings) /\ NamedOnce(events)
  /\ EventsRefer /\ BindingsRefer /\ HooksAreEvents /\ HooksListed

BuilderOK == Declared /\ budget \in Allowance

-----------------------------------------------------------------------------
(* The invariant of the walk.                                              *)

(* What has to be in moduleState before a contract, and before a hook that *)
(* runs after a deployment.                                                *)
Needs(b) ==
  Range(ArgsOf(b)) \cup Range(LibsOf(b)) \cup Range(Binding(b).deployDeps) \cup Range(BeforeHooks(b))

AfterNeeds(e) == Range(EventOf(e).deps) \cup Range(EventOf(e).eventDeps) \cup Range(EventOf(e).usage)

(* An element has a type that suits its name.                              *)
Suits(type, n) ==
  /\ type \in ElementTypes
  /\ type = "contract" => n \in BindingNames
  /\ type \in Before \cup After => n \in NamesOfEvents /\ EventOf(n).type = type
  /\ type \in ModuleHookTypes => n \in Range(moduleEvents[type])

TaskOK(t) ==
  \/ Suits(t.do, t.name)
  \/ t.do \in {"binding", "return"} /\ t.name \in BindingNames
  \/ t.do \in {"single", "deps", "check"} /\ t.name \in NamesOfEvents
  \/ t.do = "before" /\ t.name \in NamesOfEvents /\ EventOf(t.name).type \in Before
  \/ t.do = "after" /\ t.name \in NamesOfEvents /\ EventOf(t.name).type \in After

(* A task that ends with an element in moduleState, if it does not fail.   *)
Brings(t, n) == t.name = n /\ t.do \notin {"deps", "check", "return"}

(* `n' is in moduleState when the j-th task begins.                        *)
Will(r, n, j) == Has(r, n) \/ \E i \in 1 .. j - 1 : Brings(r.todo[i], n)

(* The order has what it has after what this needs.                        *)
Earlier(r, p, names) == \A n \in names : \E q \in 1 .. p - 1 : r.order[q].name = n

Ordered(r) ==
  \A p \in DOMAIN r.order :
    LET x == r.order[p] IN
    /\ Suits(x.type, x.name)
    /\ x.type = "contract" => Earlier(r, p, Needs(x.name))
    /\ x.type \in After /\ ~Shadowed(EventOf(x.name)) => Earlier(r, p, AfterNeeds(x.name))

(* What is left to do is in an order that keeps it so.                     *)
TasksInOrder(r) ==
  \A j \in DOMAIN r.todo :
    LET t == r.todo[j] IN
    /\ TaskOK(t)
    /\ t.do = "contract" => \A n \in Needs(t.name) : Will(r, n, j)
    /\ t.do \in After => \A n \in AfterNeeds(t.name) : Will(r, n, j)

(* The hooks after a deployment follow it, and nothing is left out.        *)
AtEnd(r) == Len(r.todo) + 1

HooksFollow(r) ==
  \A b \in BindingNames :
    Has(r, b) \/ (\E j \in DOMAIN r.todo : r.todo[j].do = "contract" /\ r.todo[j].name = b)
      => \A h \in Range(AfterHooks(b)) : Will(r, h, AtEnd(r))

AllComes(r) ==
  /\ \A b \in BindingNames : Will(r, b, AtEnd(r))
  /\ \A t \in ModuleHookTypes \ {"onFail"} : \A e \in Range(moduleEvents[t]) : Will(r, e, AtEnd(r))

WalkOK(r) == NamedOnce(r.order) /\ Ordered(r) /\ TasksInOrder(r) /\ HooksFollow(r) /\ AllComes(r)

ElementRecord == [name : Names \cup EventNames, type : ElementTypes]
TaskRecord ==
  [do : ElementTypes \cup {"binding", "before", "after", "single", "deps", "check", "return"},
   name : Names \cup EventNames, seen : Nat]
WalkRecord == [order : Seq(ElementRecord), error : Errors \cup {Nothing}, todo : Seq(TaskRecord)]

WalkInv ==
  /\ plan \in WalkRecord
  /\ status \in {"resolving", "resolved", "batching", "batched", "comparing", "compared"} /\ ~Failed(plan)
       => WalkOK(plan)
  /\ status \in {"resolved", "batching", "batched"} => ~Failed(plan) /\ plan.todo = <<>>
  /\ status = "compared" => Failed(plan) \/ plan.todo = <<>>

-----------------------------------------------------------------------------
(* The invariant of the batching.                                          *)

CallRecord == [element : ElementRecord, current : Nat \cup {NaN}, args : Seq(Names)]

BatchTyped(r) ==
  /\ r = [batches |-> r.batches, at |-> r.at, error |-> r.error, todo |-> r.todo]
  /\ r.error \in Errors \cup {Nothing}
  /\ r.todo \in Seq(CallRecord)
  /\ \A n \in DOMAIN r.batches : r.batches[n] \in Seq(Names \cup EventNames)

In(r, x) == \E n \in DOMAIN r.batches : x \in Range(r.batches[n])

(* The batch of an element is the one that it is in, and there once.       *)
Placed(r) == \A x \in DOMAIN r.at : r.at[x] \in DOMAIN r.batches /\ x \in Range(r.batches[r.at[x]])

Once(r) ==
  \A n, m \in DOMAIN r.batches : \A k \in DOMAIN r.batches[n], j \in DOMAIN r.batches[m] :
    r.batches[n][k] = r.batches[m][j] => n = m /\ k = j

IsModuleHook(x) == \E p \in DOMAIN plan.order : plan.order[p].name = x /\ plan.order[p].type \in ModuleHookTypes

AllPlaced(r) == \A n \in DOMAIN r.batches : \A x \in Range(r.batches[n]) : x \in DOMAIN r.at \/ IsModuleHook(x)

(* The calls are for elements of the module, for a hook once.              *)
CallsOK(r) ==
  \A j \in DOMAIN r.todo :
    LET call == r.todo[j] IN
    /\ call.element \in Range(plan.order) /\ Range(call.args) \subseteq BindingNames
    /\ ~IsContract(call.element) =>
         ~In(r, call.element.name) /\ \A i \in DOMAIN r.todo : r.todo[i].element.name = call.element.name => i = j

AllBatched(r) ==
  \A x \in Range(plan.order) : In(r, x.name) \/ \E j \in DOMAIN r.todo : r.todo[j].element.name = x.name

(* The first m batches exist, and nothing goes beyond the next.            *)
FullTo(r, m) ==
  /\ DOMAIN r.batches \ {NaN} = 0 .. m - 1
  /\ \A j \in DOMAIN r.todo : r.todo[j].current \in {NaN, 1} \cup 0 .. m
  /\ m = 0 => DOMAIN r.at = {} /\ (r.todo # <<>> => Head(r.todo).current = 0)

Full(r) == BatchCount(r) \in Nat /\ FullTo(r, BatchCount(r))

(* Unless a library has contracts for arguments, every argument is batched *)
(* by a call before its own, and no batch is NaN.                          *)
ArgsFirst(r) ==
  /\ NaN \notin DOMAIN r.batches
  /\ \A j \in DOMAIN r.todo :
       LET call == r.todo[j] IN
       /\ call.current # NaN
       /\ IsContract(call.element) =>
            /\ call.args = ArgsOf(call.element.name)
            /\ \A d \in Range(call.args) : Batched(r, d) \/ \E i \in 1 .. j - 1 : r.todo[i].element.name = d

Uses(e) == Range(e.deps) \cup Range(e.eventDeps) \cup Range(e.usage) \cup Range(e.eventUsage)

Deeper(r) ==
  \A x \in DOMAIN r.at :
    /\ x \in BindingNames => \A d \in Range(ArgsOf(x)) : Batched(r, d) /\ r.at[d] < r.at[x]
    /\ x \in NamesOfEvents /\ EventOf(x).type \in After =>
         \A d \in Uses(EventOf(x)) : Batched(r, d) /\ r.at[d] < r.at[x]

BatchOK(r) ==
  /\ Placed(r) /\ Once(r) /\ AllPlaced(r) /\ CallsOK(r) /\ AllBatched(r) /\ Full(r)
  /\ ~LibraryWithArgs => ArgsFirst(r) /\ Deeper(r)

(* Libraries have calls of their own, before all others, and batch 0 for   *)
(* themselves, as far as contracts go.                                     *)
LibraryCalls(r, N) ==
  /\ \A j \in DOMAIN r.todo :
       IF j <= N THEN /\ r.todo[j].current = 0
                      /\ IsContract(r.todo[j].element) => Binding(r.todo[j].element.name).library
                 ELSE r.todo[j].current = 1
  /\ \A b \in BindingNames : Binding(b).library =>
       Batched(r, b) \/ \E j \in DOMAIN r.todo : j <= N /\ r.todo[j].element.name = b

LibrariesFirst(r) ==
  (\E b \in BindingNames : Binding(b).library) =>
    /\ \E N \in Nat : LibraryCalls(r, N)
    /\ \A x \in DOMAIN r.at : x \in BindingNames => IF Binding(x).library THEN r.at[x] = 0 ELSE r.at[x] >= 1

BatchInv ==
  /\ BatchTyped(batched)
  /\ status \in {"batching", "batched"} /\ ~Failed(batched) /\ ~LibraryWithArgs => LibrariesFirst(batched)
  /\ status \in {"batching", "batched"} /\ ~Failed(batched) => BatchOK(batched)
  /\ status = "batched" => ~Failed(batched) /\ batched.todo = <<>>

-----------------------------------------------------------------------------
(* The invariant of all.                                                   *)

StoredElement ==
  [name : Names \cup EventNames, type : ElementTypes, address : BOOLEAN, executed : BOOLEAN,
   args : Seq(Argument), bytecode : [of : Contracts \cup {"none"}, new : BOOLEAN]]

StoredOK == stored \in Seq(StoredElement) /\ changed \subseteq Contracts

AnswerOK ==
  /\ answer \in {"none", "diff", "same", "TypeError"} \cup Errors
  /\ answer # "none" => status = "compared"
  /\ NoDiffMeansDeployed

BuildInv ==
  /\ status \in Outcomes \cup Errors
  /\ BuilderOK
  /\ status \in Outcomes \ {"building"} => Valid
  /\ WalkInv /\ BatchInv /\ StoredOK /\ AnswerOK

-----------------------------------------------------------------------------
(* Numbers and sequences.                                                  *)

\* A set of numbers has a least one.
LEMMA LeastNumber ==
  ASSUME NEW T \in SUBSET Nat, T # {}
  PROVE  \E m \in T : \A n \in T : m <= n
<1>1. PICK m \in T : \A n \in T : <<n, m>> \notin OpToRel(<, Nat)
  BY NatLessThanWellFounded, WFMin
<1>2. \A n \in T : ~(n < m)
  BY <1>1 DEF OpToRel
<1> QED BY <1>2

\* Induction: a set of numbers that has 0 and the successor of each has all.
LEMMA AllNumbers ==
  ASSUME NEW P \in SUBSET Nat, 0 \in P, \A n \in P : n + 1 \in P
  PROVE  P = Nat
<1> SUFFICES ASSUME Nat \ P # {} PROVE FALSE
  OBVIOUS
<1>1. PICK m \in Nat \ P : \A n \in Nat \ P : m <= n
  BY LeastNumber
<1>2. m # 0 /\ m - 1 \in Nat /\ m - 1 < m
  OBVIOUS
<1>3. m - 1 \in P
  BY <1>1, <1>2
<1>4. (m - 1) + 1 \in P
  BY <1>3
<1> QED BY <1>2, <1>4

(***************************************************************************)
(* A finite set of numbers has for each n up to its cardinality a member   *)
(* that is its n-th.                                                       *)
(***************************************************************************)
LEMMA NthMember ==
  ASSUME NEW N \in Nat, NEW S \in SUBSET (1 .. N)
  PROVE  /\ IsFiniteSet(S) /\ Cardinality(S) \in Nat
         /\ \A n \in 1 .. Cardinality(S) : \E i \in S : Cardinality({j \in S : j <= i}) = n
<1> DEFINE upto(k) == {j \in S : j <= k}
           rank(k) == Cardinality(upto(k))
           P == {k \in Nat : rank(k) \in Nat /\ \A n \in 1 .. rank(k) : \E i \in S : rank(i) = n}
<1>1. \A j \in S : j \in Nat /\ 1 <= j /\ j <= N
  OBVIOUS
<1>2. IsFiniteSet(S) /\ \A k \in Nat : IsFiniteSet(upto(k))
  <2>1. IsFiniteSet(1 .. N)
    BY FS_Interval
  <2>2. \A k \in Nat : upto(k) \in SUBSET (1 .. N)
    OBVIOUS
  <2> HIDE DEF upto
  <2> QED BY <2>1, <2>2, FS_Subset
<1>3. \A k \in Nat : rank(k) \in Nat
  <2> HIDE DEF upto
  <2> QED BY <1>2, FS_CardinalityType
<1>4. 0 \in P
  <2>1. \A j \in upto(0) : FALSE
    BY <1>1
  <2>2. rank(0) = 0
    <3> HIDE DEF upto
    <3>1. upto(0) = {}
      BY <2>1
    <3> QED BY <3>1, FS_EmptySet
  <2> HIDE DEF rank
  <2> QED BY <2>2
<1>5. ASSUME NEW k \in P
      PROVE  k + 1 \in P
  <2>1. k \in Nat
    OBVIOUS
  <2>2. upto(k + 1) = IF k + 1 \in S THEN upto(k) \cup {k + 1} ELSE upto(k)
    <3>1. \A j : j \in upto(k + 1) <=> j \in upto(k) \/ (j = k + 1 /\ j \in S)
      <4>1. \A j \in S : j <= k + 1 <=> j <= k \/ j = k + 1
        BY <1>1, <2>1
      <4>2. k + 1 <= k + 1
        BY <2>1
      <4> QED BY <4>1, <4>2
    <3> HIDE DEF upto
    <3> QED BY <3>1
  <2>3. k + 1 \notin upto(k)
    OBVIOUS
  <2>4. rank(k + 1) = IF k + 1 \in S THEN rank(k) + 1 ELSE rank(k)
    <3> HIDE DEF upto
    <3>1. CASE k + 1 \in S
      BY <1>2, <2>2, <2>3, <3>1, FS_AddElement
    <3>2. CASE k + 1 \notin S
      BY <2>2, <3>2
    <3> QED BY <3>1, <3>2
  <2>5. k \in Nat /\ rank(k) \in Nat /\ (\A n \in 1 .. rank(k) : \E i \in S : rank(i) = n)
    OBVIOUS
  <2> HIDE DEF rank
  <2>6. ASSUME NEW n \in 1 .. rank(k + 1)
        PROVE  \E i \in S : rank(i) = n
    <3>1. CASE n \in 1 .. rank(k)
      BY <2>5, <3>1
    <3>2. CASE n \notin 1 .. rank(k)
      <4>1. k + 1 \in S /\ rank(k + 1) = n
        BY <2>4, <2>5, <3>2
      <4> QED BY <4>1
    <3> QED BY <3>1, <3>2
  <2> QED BY <1>3, <2>5, <2>6
<1>6. N \in P
  <2> HIDE DEF P
  <2>1. P \in SUBSET Nat
    BY DEF P
  <2> QED BY <1>4, <1>5, <2>1, AllNumbers
<1>7. upto(N) = S
  <2>1. \A j : j \in upto(N) <=> j \in S
    BY <1>1
  <2> HIDE DEF upto
  <2> QED BY <2>1
<1>8. Cardinality(S) \in Nat
  BY <1>2, FS_CardinalityType
<1>9. \A n \in 1 .. rank(N) : \E i \in S : rank(i) = n
  BY <1>6
<1> QED BY <1>2, <1>7, <1>8, <1>9

(***************************************************************************)
(* Those(s, S) are elements of s, in S, and at least one if there is one.  *)
(***************************************************************************)
LEMMA ThoseOK ==
  ASSUME NEW T, NEW s \in Seq(T), NEW S
  PROVE  /\ Those(s, S) \in Seq(T \cap S)
         /\ Range(Those(s, S)) \subseteq Range(s) \cap S
         /\ (\E i \in DOMAIN s : s[i] \in S) => Those(s, S) # <<>>
<1> DEFINE places == {i \in DOMAIN s : s[i] \in S}
           nth(n) == CHOOSE i \in places : Cardinality({j \in places : j <= i}) = n
           c == Cardinality(places)
<1>1. Len(s) \in Nat /\ places \in SUBSET (1 .. Len(s))
  OBVIOUS
<1>2. /\ IsFiniteSet(places) /\ c \in Nat
      /\ \A n \in 1 .. c : \E i \in places : Cardinality({j \in places : j <= i}) = n
  <2> HIDE DEF places
  <2> QED BY <1>1, NthMember
<1>3. \A n \in 1 .. c : nth(n) \in places
  <2> HIDE DEF places
  <2> QED BY <1>2
<1>4. Those(s, S) = [n \in 1 .. c |-> s[nth(n)]]
  BY DEF Those
<1>5. \A i \in places : s[i] \in T \cap S /\ s[i] \in Range(s)
  BY DEF Range
<1> HIDE DEF nth
<1>6. \A n \in 1 .. c : s[nth(n)] \in T \cap S /\ s[nth(n)] \in Range(s)
  BY <1>3, <1>5
<1>7. places # {} => c # 0
  <2> HIDE DEF places
  <2> QED BY <1>2, FS_EmptySet
<1>8. Those(s, S) \in Seq(T \cap S) /\ Range(Those(s, S)) \subseteq Range(s) \cap S
  <2> HIDE DEF c, places
  <2>1. Range([n \in 1 .. c |-> s[nth(n)]]) \subseteq Range(s) \cap S
    BY <1>2, <1>6 DEF Range
  <2> QED BY <1>2, <1>4, <1>6, <2>1
<1>9. (\E i \in DOMAIN s : s[i] \in S) => Those(s, S) # <<>>
  <2> SUFFICES ASSUME places # {} PROVE Those(s, S) # <<>>
    OBVIOUS
  <2> HIDE DEF c, places
  <2>1. Len([n \in 1 .. c |-> s[nth(n)]]) = c
    BY <1>2, <1>4, <1>8
  <2> QED BY <1>2, <1>4, <1>7, <2>1
<1> QED BY <1>8, <1>9

(***************************************************************************)
(* It leaves none out.                                                     *)
(***************************************************************************)
LEMMA ThoseAll ==
  ASSUME NEW T, NEW s \in Seq(T), NEW S, NEW k \in DOMAIN s, s[k] \in S
  PROVE  \E n \in DOMAIN Those(s, S) : Those(s, S)[n] = s[k]
<1> DEFINE places == {i \in DOMAIN s : s[i] \in S}
           upto(i) == {j \in places : j <= i}
           rank(i) == Cardinality(upto(i))
           nth(n) == CHOOSE i \in places : Cardinality({j \in places : j <= i}) = n
           c == Cardinality(places)
<1>1. Len(s) \in Nat /\ places \in SUBSET (1 .. Len(s)) /\ k \in places /\ \A i \in places : i \in Nat
  OBVIOUS
<1>2. IsFiniteSet(places) /\ c \in Nat
  <2> HIDE DEF places
  <2> QED BY <1>1, NthMember
<1>3. Those(s, S) = [n \in 1 .. c |-> s[nth(n)]]
  BY DEF Those
<1> HIDE DEF places, c
<1>4. \A i \in places : upto(i) \in SUBSET places /\ i \in upto(i)
  BY <1>1
<1>5. \A i, j \in places : i <= j => upto(i) \in SUBSET upto(j)
  BY <1>1
<1>6. \A i, j \in places : upto(i) = upto(j) => i = j
  <2> SUFFICES ASSUME NEW i \in places, NEW j \in places, upto(i) = upto(j) PROVE i = j
    OBVIOUS
  <2>1. i \in upto(j) /\ j \in upto(i)
    BY <1>4
  <2>2. i <= j /\ j <= i
    BY <2>1
  <2> QED BY <1>1, <2>2
<1>7. nth(rank(k)) = CHOOSE i \in places : rank(i) = rank(k)
  OBVIOUS
<1> HIDE DEF upto, nth
<1>8. \A i \in places : IsFiniteSet(upto(i)) /\ rank(i) <= c /\ rank(i) \in Nat
  BY <1>2, <1>4, FS_Subset, FS_CardinalityType DEF c
<1>9. rank(k) # 0
  BY <1>1, <1>4, <1>8, FS_EmptySet
<1>10. \A i, j \in places : i <= j /\ rank(i) = rank(j) => i = j
  BY <1>5, <1>6, <1>8, FS_Subset
<1>11. \A i, j \in places : rank(i) = rank(j) => i = j
  BY <1>1, <1>10
<1>12. nth(rank(k)) = k
  <2> HIDE DEF rank
  <2> QED BY <1>1, <1>7, <1>11
<1>13. rank(k) \in 1 .. c
  <2> HIDE DEF rank
  <2> QED BY <1>1, <1>2, <1>8, <1>9
<1> HIDE DEF rank
<1> QED BY <1>3, <1>12, <1>13

(***************************************************************************)
(* What a concatenation has, and where.                                    *)
(***************************************************************************)
LEMMA ConcatOK ==
  ASSUME NEW T, NEW s \in Seq(T), NEW t \in Seq(T)
  PROVE  /\ s \o t \in Seq(T) /\ Len(s \o t) = Len(s) + Len(t)
         /\ \A i \in 1 .. Len(s) : (s \o t)[i] = s[i]
         /\ \A i \in 1 .. Len(t) : (s \o t)[Len(s) + i] = t[i]
         /\ \A i \in 1 .. Len(s \o t) : i <= Len(s) \/ (i - Len(s) \in 1 .. Len(t) /\ (s \o t)[i] = t[i - Len(s)])
         /\ Range(s \o t) = Range(s) \cup Range(t)
<1>1. /\ s \o t \in Seq(T) /\ Len(s \o t) = Len(s) + Len(t)
      /\ \A i \in 1 .. Len(s) : (s \o t)[i] = s[i]
      /\ \A i \in 1 .. Len(t) : (s \o t)[Len(s) + i] = t[i]
      /\ \A i \in 1 .. Len(s \o t) : i <= Len(s) \/ (i - Len(s) \in 1 .. Len(t) /\ (s \o t)[i] = t[i - Len(s)])
  OBVIOUS
<1>2. Range(s \o t) \subseteq Range(s) \cup Range(t)
  BY <1>1 DEF Range
<1>3. Range(s) \cup Range(t) \subseteq Range(s \o t)
  <2> DEFINE u == s \o t
  <2>1. \A i \in DOMAIN s : i \in DOMAIN u /\ u[i] = s[i]
    BY <1>1
  <2>2. \A i \in DOMAIN t : Len(s) + i \in DOMAIN u /\ u[Len(s) + i] = t[i]
    BY <1>1
  <2> HIDE DEF u
  <2>3. Range(s) \cup Range(t) \subseteq Range(u)
    BY <2>1, <2>2 DEF Range
  <2> QED BY <2>3 DEF u
<1> QED BY <1>1, <1>2, <1>3

\* A function on 1 .. n is a sequence.
LEMMA SeqIs ==
  ASSUME NEW T, NEW n \in Nat, NEW f, DOMAIN f = 1 .. n, f = [i \in DOMAIN f |-> f[i]], \A i \in 1 .. n : f[i] \in T
  PROVE  f \in Seq(T) /\ Len(f) = n
<1>1. f \in [1 .. n -> T]
  OBVIOUS
<1> QED BY <1>1

LEMMA AppendRange ==
  ASSUME NEW T, NEW s \in Seq(T), NEW x \in T
  PROVE  Range(Append(s, x)) = Range(s) \cup {x}
<1>1. /\ DOMAIN Append(s, x) = 1 .. Len(s) + 1 /\ DOMAIN s = 1 .. Len(s)
      /\ \A i \in 1 .. Len(s) + 1 : Append(s, x)[i] = IF i = Len(s) + 1 THEN x ELSE s[i]
      /\ Len(s) \in Nat
  OBVIOUS
<1>2. Range(Append(s, x)) \subseteq Range(s) \cup {x}
  BY <1>1 DEF Range
<1>3. Range(s) \subseteq Range(Append(s, x))
  BY <1>1 DEF Range
<1>4. x \in Range(Append(s, x))
  <2>1. Len(s) + 1 \in DOMAIN Append(s, x) /\ Append(s, x)[Len(s) + 1] = x
    BY <1>1
  <2> QED BY <2>1 DEF Range
<1> QED BY <1>2, <1>3, <1>4

LEMMA NonEmpty ==
  ASSUME NEW T, NEW s \in Seq(T), s # <<>>
  PROVE  Len(s) \in Nat \ {0} /\ 1 \in DOMAIN s /\ s[1] \in T
<1>1. Len(s) \in Nat /\ DOMAIN s = 1 .. Len(s)
  OBVIOUS
<1>2. Len(s) # 0
  OBVIOUS
<1> QED BY <1>1, <1>2

LEMMA ShortSeqs ==
  ASSUME NEW T, NEW x \in T, NEW y \in T
  PROVE  /\ <<>> \in Seq(T) /\ <<x>> \in Seq(T) /\ <<x, y>> \in Seq(T)
         /\ <<x>> # <<>> /\ <<x, y>> # <<>> /\ <<x>> \o <<>> = <<x>>
<1>1. <<>> \in Seq(T) /\ <<x>> \in Seq(T) /\ <<x, y>> \in Seq(T)
  OBVIOUS
<1>2. Len(<<x>>) = 1 /\ Len(<<x, y>>) = 2 /\ Len(<<>>) = 0
  OBVIOUS
<1>3. <<x>> # <<>> /\ <<x, y>> # <<>>
  BY <1>2
<1>4. <<x>> \o <<>> = <<x>>
  OBVIOUS
<1> QED BY <1>1, <1>3, <1>4

LEMMA ExceptOK ==
  ASSUME NEW T, NEW s \in Seq(T), NEW i \in DOMAIN s, NEW x \in T
  PROVE  /\ [s EXCEPT ![i] = x] \in Seq(T)
         /\ Len([s EXCEPT ![i] = x]) = Len(s) /\ DOMAIN [s EXCEPT ![i] = x] = DOMAIN s
         /\ \A j \in DOMAIN s : [s EXCEPT ![i] = x][j] = IF j = i THEN x ELSE s[j]
OBVIOUS

LEMMA SeqRange ==
  ASSUME NEW T, NEW s \in Seq(T)
  PROVE  s \in Seq(Range(s)) /\ \A S : Range(s) \subseteq S => s \in Seq(S)
<1>1. \A i \in 1 .. Len(s) : s[i] \in Range(s)
  BY DEF Range
<1>2. Len(s) \in Nat /\ DOMAIN s = 1 .. Len(s) /\ s = [i \in DOMAIN s |-> s[i]]
  OBVIOUS
<1>3. s \in Seq(Range(s))
  BY <1>1, <1>2, SeqIs
<1>4. ASSUME NEW S, Range(s) \subseteq S
      PROVE  s \in Seq(S)
  <2>1. \A i \in 1 .. Len(s) : s[i] \in S
    BY <1>1, <1>4
  <2> QED BY <1>2, <2>1, SeqIs
<1> QED BY <1>3, <1>4

LEMMA SeqMono ==
  ASSUME NEW T, NEW S, NEW s \in Seq(T), T \subseteq S
  PROVE  s \in Seq(S)
OBVIOUS

LEMMA ConcatRange ==
  ASSUME NEW T, NEW s \in Seq(T), NEW t \in Seq(T)
  PROVE  s \o t \in Seq(T) /\ Range(s \o t) = Range(s) \cup Range(t)
BY ConcatOK

LEMMA OneRange ==
  ASSUME NEW x
  PROVE  Range(<<x>>) = {x}
<1>1. DOMAIN <<x>> = {1} /\ <<x>>[1] = x
  OBVIOUS
<1> QED BY <1>1 DEF Range

LEMMA TwoRange ==
  ASSUME NEW x, NEW y
  PROVE  Range(<<x, y>>) = {x, y}
<1>1. DOMAIN <<x, y>> = {1, 2} /\ <<x, y>>[1] = x /\ <<x, y>>[2] = y
  OBVIOUS
<1> QED BY <1>1 DEF Range

-----------------------------------------------------------------------------
(* What the module function declares.                                      *)

\* The types of what is declared.
LEMMA FieldTypes ==
  ASSUME Declared
  PROVE  /\ bindings \in Seq(BindingRecord) /\ events \in Seq(EventRecord)
         /\ Len(bindings) \in Nat /\ DOMAIN bindings = 1 .. Len(bindings)
         /\ Len(events) \in Nat /\ DOMAIN events = 1 .. Len(events)
         /\ \A i \in DOMAIN bindings :
              /\ bindings[i] \in BindingRecord
              /\ bindings[i].name \in Names /\ bindings[i].contractName \in Contracts
              /\ bindings[i].args \in Seq(Argument) /\ bindings[i].deployDeps \in Seq(Names)
              /\ bindings[i].hooks \in [Before \cup After -> Seq(EventNames)]
         /\ \A j \in DOMAIN events :
              /\ events[j] \in EventRecord
              /\ events[j].name \in EventNames /\ events[j].type \in HookTypes
              /\ events[j].type \in Before \cup After
              /\ events[j].deps \in Seq(Names) /\ events[j].usage \in Seq(Names)
              /\ events[j].eventDeps \in Seq(EventNames) /\ events[j].eventUsage \in Seq(EventNames)
         /\ BindingNames \subseteq Names /\ NamesOfEvents \subseteq EventNames
         /\ HookTypes \subseteq Before \cup After
<1>1. bindings \in Seq(BindingRecord) /\ events \in Seq(EventRecord)
  BY DEF Declared, Typed
<1>2. \A i \in DOMAIN bindings : bindings[i] \in BindingRecord
  BY <1>1
<1>3. \A j \in DOMAIN events : events[j] \in EventRecord
  BY <1>1
<1>4. HookTypes \subseteq Before \cup After
  BY BuilderAssumption DEF BuilderAssumption
<1>5. \A i \in DOMAIN bindings :
        /\ bindings[i].name \in Names /\ bindings[i].contractName \in Contracts
        /\ bindings[i].args \in Seq(Argument) /\ bindings[i].deployDeps \in Seq(Names)
        /\ bindings[i].hooks \in [Before \cup After -> Seq(EventNames)]
  BY <1>2 DEF BindingRecord
<1>6. \A j \in DOMAIN events :
        /\ events[j].name \in EventNames /\ events[j].type \in HookTypes
        /\ events[j].deps \in Seq(Names) /\ events[j].usage \in Seq(Names)
        /\ events[j].eventDeps \in Seq(EventNames) /\ events[j].eventUsage \in Seq(EventNames)
  BY <1>3 DEF EventRecord
<1>7. BindingNames \subseteq Names
  BY <1>5 DEF BindingNames
<1>8. NamesOfEvents \subseteq EventNames
  BY <1>6 DEF NamesOfEvents
<1>9. Len(bindings) \in Nat /\ DOMAIN bindings = 1 .. Len(bindings)
  BY <1>1
<1>10. Len(events) \in Nat /\ DOMAIN events = 1 .. Len(events)
  BY <1>1
<1>11. \A j \in DOMAIN events : events[j].type \in Before \cup After
  BY <1>4, <1>6
<1> QED BY <1>1, <1>2, <1>3, <1>4, <1>5, <1>6, <1>7, <1>8, <1>9, <1>10, <1>11

LEMMA InitOK ==
  ASSUME BuildInit
  PROVE  BuilderOK
<1> USE DEF BuildInit, Init
<1>1. Typed
  BY DEF Typed
<1>2. BindingNames = {} /\ NamesOfEvents = {}
  BY DEF BindingNames, NamesOfEvents
<1>3. NamedOnce(bindings) /\ NamedOnce(events)
  BY DEF NamedOnce
<1>4. EventsRefer /\ BindingsRefer /\ HooksAreEvents /\ HooksListed
  BY DEF EventsRefer, BindingsRefer, HooksAreEvents, HooksListed
<1>5. budget \in Allowance
  BY BuilderAssumption DEF BuilderAssumption
<1> QED BY <1>1, <1>3, <1>4, <1>5 DEF BuilderOK, Declared

\* The bounds of a module function only get smaller.
LEMMA SpendOK ==
  ASSUME budget \in Allowance,
         NEW what \in {"bindings", "events", "moduleEvents", "subModules", "settings", "edits"},
         Spend(what)
  PROVE  budget' \in Allowance
<1>1. budget[what] \in Nat /\ budget[what] > 0 /\ budget' = [budget EXCEPT ![what] = budget[what] - 1]
  BY DEF Spend, Allowance
<1>2. budget[what] - 1 \in Nat
  BY <1>1
<1> HIDE DEF Spend
<1> QED BY <1>1, <1>2 DEF Allowance

(***************************************************************************)
(* Nothing is declared, as when the module function throws an error.       *)
(***************************************************************************)
LEMMA SameDeclared ==
  ASSUME Declared,
         UNCHANGED <<bindings, events>>,
         moduleEvents' \in [ModuleHookTypes -> Seq(EventNames)],
         templates' \subseteq Templates, initialized' \subseteq SubModules
  PROVE  Declared'
<1>1. BindingNames' = BindingNames /\ NamesOfEvents' = NamesOfEvents
  BY DEF BindingNames, NamesOfEvents
<1>2. Typed'
  BY DEF Declared, Typed
<1>3. EventsRefer'
  BY <1>1 DEF Declared, EventsRefer, EventRefers
<1>4. BindingsRefer'
  BY <1>1 DEF Declared, BindingsRefer
<1>5. HooksAreEvents' /\ HooksListed'
  BY DEF Declared, HooksAreEvents, IsEvent, HooksListed
<1>6. NamedOnce(bindings)' /\ NamedOnce(events)'
  BY DEF Declared, NamedOnce
<1> QED BY <1>2, <1>3, <1>4, <1>5, <1>6 DEF Declared

(***************************************************************************)
(* A binding is appended, under a name of its own and without hooks.       *)
(***************************************************************************)
LEMMA AppendBinding ==
  ASSUME Declared,
         NEW b \in BindingRecord, b.name \notin BindingNames,
         \A k \in DOMAIN b.args : b.args[k].kind = "binding" => b.args[k].name \in BindingNames,
         b.deployDeps = <<>>, b.hooks = NoHooks,
         bindings' = Append(bindings, b),
         UNCHANGED <<events, moduleEvents, templates, initialized>>
  PROVE  Declared'
<1>1. bindings \in Seq(BindingRecord) /\ Len(bindings) \in Nat
  BY DEF Declared, Typed
<1>2. bindings' \in Seq(BindingRecord)
  BY <1>1
<1>3. /\ Len(bindings') = Len(bindings) + 1
      /\ DOMAIN bindings = 1 .. Len(bindings) /\ DOMAIN bindings' = 1 .. Len(bindings) + 1
      /\ \A i \in DOMAIN bindings' : bindings'[i] = IF i = Len(bindings) + 1 THEN b ELSE bindings[i]
  BY <1>1, <1>2
<1>4. Typed'
  BY <1>2 DEF Declared, Typed
<1>5. \A i \in DOMAIN bindings' : i \in DOMAIN bindings \/ bindings'[i] = b
  BY <1>1, <1>3
<1>6. BindingNames \subseteq BindingNames' /\ NamesOfEvents' = NamesOfEvents
  BY <1>1, <1>3 DEF BindingNames, NamesOfEvents
<1>7. NamedOnce(bindings)' /\ NamedOnce(events)'
  <2>1. ASSUME NEW i \in DOMAIN bindings', NEW j \in DOMAIN bindings', bindings'[i].name = bindings'[j].name
        PROVE  i = j
    <3>1. CASE i \in DOMAIN bindings /\ j \in DOMAIN bindings
      BY <1>1, <1>3, <2>1, <3>1 DEF Declared, NamedOnce
    <3>2. \A k \in DOMAIN bindings : bindings[k].name # b.name
      BY DEF BindingNames
    <3> QED BY <1>1, <1>3, <2>1, <3>1, <3>2
  <2> QED BY <2>1 DEF Declared, NamedOnce
<1>8. EventsRefer'
  BY <1>6 DEF Declared, EventsRefer, EventRefers
<1>9. BindingsRefer'
  <2> SUFFICES ASSUME NEW i \in DOMAIN bindings'
               PROVE  /\ \A k \in DOMAIN bindings'[i].args :
                           bindings'[i].args[k].kind = "binding" => bindings'[i].args[k].name \in BindingNames'
                      /\ Range(bindings'[i].deployDeps) \subseteq BindingNames'
    BY DEF BindingsRefer
  <2>1. CASE i \in DOMAIN bindings
    <3>1. bindings'[i] = bindings[i]
      BY <1>1, <1>3, <2>1
    <3> QED BY <1>6, <2>1, <3>1 DEF Declared, BindingsRefer
  <2>2. CASE bindings'[i] = b
    BY <1>6, <2>2 DEF Range
  <2> QED BY <1>5, <2>1, <2>2
<1>10. HooksAreEvents'
  <2>1. \A h, t : IsEvent(h, t)' = IsEvent(h, t)
    BY DEF IsEvent
  <2> SUFFICES ASSUME NEW i \in DOMAIN bindings', NEW t \in Before \cup After,
                      NEW h \in Range(bindings'[i].hooks[t])
               PROVE  IsEvent(h, t)
    BY <2>1 DEF HooksAreEvents
  <2>2. CASE i \in DOMAIN bindings
    <3>1. bindings'[i] = bindings[i]
      BY <1>1, <1>3, <2>2
    <3> QED BY <2>2, <3>1 DEF Declared, HooksAreEvents
  <2>3. CASE bindings'[i] = b
    <3>1. NoHooks[t] = <<>>
      BY DEF NoHooks
    <3>2. Range(<<>>) = {}
      BY DEF Range
    <3> QED BY <2>3, <3>1, <3>2
  <2> QED BY <1>5, <2>2, <2>3
<1>11. HooksListed'
  <2> SUFFICES ASSUME NEW j \in DOMAIN events, NEW i \in DOMAIN bindings',
                      bindings'[i].name \in Range(events[j].deps)
               PROVE  events[j].name \in Range(bindings'[i].hooks[events[j].type])
    BY DEF HooksListed
  <2>1. bindings'[i].name \in BindingNames
    BY DEF Declared, EventsRefer, EventRefers
  <2>2. i \in DOMAIN bindings /\ bindings'[i] = bindings[i]
    BY <1>1, <1>3, <1>5, <2>1
  <2> QED BY <2>2 DEF Declared, HooksListed
<1> QED BY <1>4, <1>7, <1>8, <1>9, <1>10, <1>11 DEF Declared

(***************************************************************************)
(* The bindings are changed, in what is neither a name nor a hook.         *)
(***************************************************************************)
LEMMA ChangeBindings ==
  ASSUME Declared,
         bindings' \in Seq(BindingRecord), Len(bindings') = Len(bindings),
         \A i \in DOMAIN bindings : bindings'[i].name = bindings[i].name /\ bindings'[i].hooks = bindings[i].hooks,
         \A i \in DOMAIN bindings :
            /\ \A k \in DOMAIN bindings'[i].args :
                 bindings'[i].args[k].kind = "binding" => bindings'[i].args[k].name \in BindingNames
            /\ Range(bindings'[i].deployDeps) \subseteq BindingNames,
         UNCHANGED <<events, moduleEvents, templates, initialized>>
  PROVE  Declared'
<1>1. bindings \in Seq(BindingRecord)
  BY DEF Declared, Typed
<1>2. DOMAIN bindings' = DOMAIN bindings
  BY <1>1
<1>3. Typed'
  BY DEF Declared, Typed
<1>4. BindingNames' = BindingNames /\ NamesOfEvents' = NamesOfEvents
  BY <1>2 DEF BindingNames, NamesOfEvents
<1>5. NamedOnce(bindings)' /\ NamedOnce(events)'
  BY <1>2 DEF Declared, NamedOnce
<1>6. EventsRefer'
  BY <1>4 DEF Declared, EventsRefer, EventRefers
<1>7. BindingsRefer'
  BY <1>2, <1>4 DEF BindingsRefer
<1>8. HooksAreEvents'
  <2>1. \A h, t : IsEvent(h, t)' = IsEvent(h, t)
    BY DEF IsEvent
  <2> QED BY <1>2, <2>1 DEF Declared, HooksAreEvents
<1>9. HooksListed'
  BY <1>2 DEF Declared, HooksListed
<1> QED BY <1>3, <1>5, <1>6, <1>7, <1>8, <1>9 DEF Declared

(***************************************************************************)
(* An event with a new name is listed with the bindings it is a hook of.   *)
(***************************************************************************)
LEMMA AddEventOK ==
  ASSUME Declared, NEW e \in EventRecord, e.name \notin NamesOfEvents, EventRefers(e), AddEvent(e)
  PROVE  Declared'
<1> DEFINE owners == Range(e.deps)
<1>1. /\ bindings \in Seq(BindingRecord) /\ events \in Seq(EventRecord)
      /\ Len(events) \in Nat /\ HookTypes \subseteq Before \cup After
      /\ e.type \in HookTypes /\ e.name \in EventNames
  BY FieldTypes DEF EventRecord
<1>2. /\ bindings' = Listed(owners, e.name, e.type) /\ events' = Append(events, e)
      /\ UNCHANGED <<moduleEvents, templates, initialized>>
  BY DEF AddEvent
<1>3. /\ events' \in Seq(EventRecord)
      /\ DOMAIN events = 1 .. Len(events) /\ DOMAIN events' = 1 .. Len(events) + 1
      /\ \A j \in DOMAIN events' : events'[j] = IF j = Len(events) + 1 THEN e ELSE events[j]
  BY <1>1, <1>2
<1>4. /\ DOMAIN bindings' = DOMAIN bindings
      /\ \A i \in DOMAIN bindings :
           bindings'[i] = IF bindings[i].name \in owners
                          THEN [bindings[i] EXCEPT !.hooks[e.type] = Append(@, e.name)]
                          ELSE bindings[i]
      /\ bindings' = [i \in DOMAIN bindings' |-> bindings'[i]]
  BY <1>2 DEF Listed
<1>5. \A i \in DOMAIN bindings :
        bindings[i] \in BindingRecord /\ bindings[i].hooks \in [Before \cup After -> Seq(EventNames)]
  BY FieldTypes
<1>6. ASSUME NEW i \in DOMAIN bindings
      PROVE  /\ bindings'[i] \in BindingRecord
             /\ bindings'[i].name = bindings[i].name
             /\ bindings'[i].args = bindings[i].args /\ bindings'[i].deployDeps = bindings[i].deployDeps
             /\ \A t \in Before \cup After :
                  bindings'[i].hooks[t] = IF bindings[i].name \in owners /\ t = e.type
                                          THEN Append(bindings[i].hooks[t], e.name) ELSE bindings[i].hooks[t]
  <2>1. bindings[i].hooks \in [Before \cup After -> Seq(EventNames)]
    BY <1>5
  <2>2. Append(bindings[i].hooks[e.type], e.name) \in Seq(EventNames)
    BY <1>1, <2>1
  <2> DEFINE hooks == [bindings[i].hooks EXCEPT ![e.type] = Append(bindings[i].hooks[e.type], e.name)]
  <2>3. /\ hooks \in [Before \cup After -> Seq(EventNames)]
        /\ \A t \in Before \cup After :
             hooks[t] = IF t = e.type THEN Append(bindings[i].hooks[t], e.name) ELSE bindings[i].hooks[t]
    BY <1>1, <2>1, <2>2
  <2>4. bindings[i].name \in owners => bindings'[i] = [bindings[i] EXCEPT !.hooks = hooks]
    BY <1>4
  <2>5. bindings[i].name \notin owners => bindings'[i] = bindings[i]
    BY <1>4
  <2> HIDE DEF hooks, owners
  <2> QED BY <1>5, <2>3, <2>4, <2>5 DEF BindingRecord
<1> HIDE DEF owners
<1>7. BindingNames' = BindingNames /\ NamesOfEvents \subseteq NamesOfEvents' /\ e.name \in NamesOfEvents'
  <2>1. BindingNames' = BindingNames
    BY <1>4, <1>6 DEF BindingNames
  <2>2. NamesOfEvents \subseteq NamesOfEvents'
    BY <1>1, <1>3 DEF NamesOfEvents
  <2>3. Len(events) + 1 \in DOMAIN events' /\ events'[Len(events) + 1] = e
    BY <1>1, <1>3
  <2>4. e.name \in NamesOfEvents'
    BY <2>3 DEF NamesOfEvents
  <2> QED BY <2>1, <2>2, <2>4
<1>8. bindings' \in Seq(BindingRecord)
  BY <1>1, <1>4, <1>6, SeqIs
<1>9. Typed'
  BY <1>2, <1>3, <1>8 DEF Declared, Typed
<1>10. NamedOnce(bindings)'
  BY <1>4, <1>6 DEF Declared, NamedOnce
<1>11. NamedOnce(events)'
  <2>1. \A j \in DOMAIN events : events[j].name # e.name
    BY DEF NamesOfEvents
  <2> QED BY <1>1, <1>3, <2>1 DEF Declared, NamedOnce
<1>12. EventsRefer'
  <2> SUFFICES ASSUME NEW j \in DOMAIN events' PROVE EventRefers(events[j])'
    BY DEF EventsRefer
  <2>1. EventRefers(events'[j])
    BY <1>1, <1>3 DEF Declared, EventsRefer
  <2> QED BY <1>7, <2>1 DEF EventRefers
<1>13. BindingsRefer'
  BY <1>4, <1>6, <1>7 DEF Declared, BindingsRefer
<1>14. \A h, t : IsEvent(h, t) => IsEvent(h, t)'
  BY <1>1, <1>3 DEF IsEvent
<1>15. IsEvent(e.name, e.type)'
  <2>1. Len(events) + 1 \in DOMAIN events' /\ events'[Len(events) + 1] = e
    BY <1>1, <1>3
  <2> QED BY <2>1 DEF IsEvent
<1>16. HooksAreEvents'
  <2> SUFFICES ASSUME NEW i \in DOMAIN bindings, NEW t \in Before \cup After,
                      NEW h \in Range(bindings'[i].hooks[t])
               PROVE  IsEvent(h, t)'
    BY <1>4 DEF HooksAreEvents
  <2>1. bindings[i].hooks[t] \in Seq(EventNames)
    BY <1>5
  <2>2. h \in Range(bindings[i].hooks[t]) \/ (t = e.type /\ h = e.name)
    <3>1. Range(Append(bindings[i].hooks[t], e.name)) = Range(bindings[i].hooks[t]) \cup {e.name}
      BY <1>1, <2>1, AppendRange
    <3> QED BY <1>6, <3>1
  <2>3. h \in Range(bindings[i].hooks[t]) => IsEvent(h, t)
    BY DEF Declared, HooksAreEvents
  <2> QED BY <1>14, <1>15, <2>2, <2>3
<1>17. HooksListed'
  <2> SUFFICES ASSUME NEW j \in DOMAIN events', NEW i \in DOMAIN bindings,
                      bindings[i].name \in Range(events'[j].deps)
               PROVE  events'[j].name \in Range(bindings'[i].hooks[events'[j].type])
    BY <1>4, <1>6 DEF HooksListed
  <2>1. \A t \in Before \cup After : bindings[i].hooks[t] \in Seq(EventNames)
    BY <1>5
  <2>2. \A t \in Before \cup After : Range(bindings[i].hooks[t]) \subseteq Range(bindings'[i].hooks[t])
    <3> SUFFICES ASSUME NEW t \in Before \cup After
                 PROVE  Range(bindings[i].hooks[t]) \subseteq Range(bindings'[i].hooks[t])
      OBVIOUS
    <3>1. Range(Append(bindings[i].hooks[t], e.name)) = Range(bindings[i].hooks[t]) \cup {e.name}
      BY <1>1, <2>1, AppendRange
    <3> QED BY <1>6, <3>1
  <2>3. CASE j \in DOMAIN events
    <3>1. events'[j] = events[j] /\ events[j].type \in HookTypes
      BY <1>1, <1>3, <2>3, FieldTypes
    <3>2. events[j].name \in Range(bindings[i].hooks[events[j].type])
      BY <2>3, <3>1 DEF Declared, HooksListed
    <3> QED BY <1>1, <2>2, <3>1, <3>2
  <2>4. CASE j \notin DOMAIN events
    <3>1. events'[j] = e
      BY <1>1, <1>3, <2>4
    <3>2. bindings'[i].hooks[e.type] = Append(bindings[i].hooks[e.type], e.name)
      BY <1>1, <1>6, <3>1 DEF owners
    <3>3. bindings[i].hooks[e.type] \in Seq(EventNames)
      BY <1>1, <2>1
    <3>4. Range(Append(bindings[i].hooks[e.type], e.name)) = Range(bindings[i].hooks[e.type]) \cup {e.name}
      BY <1>1, <3>3, AppendRange
    <3> QED BY <3>1, <3>2, <3>4
  <2> QED BY <2>3, <2>4
<1> QED BY <1>9, <1>10, <1>11, <1>12, <1>13, <1>16, <1>17 DEF Declared

(***************************************************************************)
(* The event of a hook: what it names is told apart into bindings and      *)
(* events.                                                                 *)
(***************************************************************************)
LEMMA NewEventOK ==
  ASSUME Declared, NEW e \in EventNames, NEW type \in HookTypes, NEW T, NEW deps \in Seq(T), NEW usages \in Seq(T),
         \E i \in DOMAIN deps : deps[i] \in BindingNames \cup NamesOfEvents
  PROVE  /\ NewEvent(e, type, deps, usages) \in EventRecord
         /\ NewEvent(e, type, deps, usages).name = e
         /\ EventRefers(NewEvent(e, type, deps, usages))
<1>1. BindingNames \subseteq Names /\ NamesOfEvents \subseteq EventNames
  BY FieldTypes
<1>2. \A s \in Seq(T) : /\ Those(s, BindingNames) \in Seq(Names)
                         /\ Range(Those(s, BindingNames)) \subseteq BindingNames
                        /\ Those(s, NamesOfEvents) \in Seq(EventNames)
                        /\ Range(Those(s, NamesOfEvents)) \subseteq NamesOfEvents
  <2> SUFFICES ASSUME NEW s \in Seq(T)
               PROVE  /\ Those(s, BindingNames) \in Seq(Names) /\ Range(Those(s, BindingNames)) \subseteq BindingNames
                      /\ Those(s, NamesOfEvents) \in Seq(EventNames)
                      /\ Range(Those(s, NamesOfEvents)) \subseteq NamesOfEvents
    OBVIOUS
  <2>1. /\ Those(s, BindingNames) \in Seq(T \cap BindingNames)
        /\ Range(Those(s, BindingNames)) \subseteq Range(s) \cap BindingNames
    BY ThoseOK
  <2>2. /\ Those(s, NamesOfEvents) \in Seq(T \cap NamesOfEvents)
        /\ Range(Those(s, NamesOfEvents)) \subseteq Range(s) \cap NamesOfEvents
    BY ThoseOK
  <2>3. Those(s, BindingNames) \in Seq(Names)
    BY <1>1, <2>1
  <2>4. Those(s, NamesOfEvents) \in Seq(EventNames)
    BY <1>1, <2>2
  <2> QED BY <2>1, <2>2, <2>3, <2>4
<1>3. Those(deps, BindingNames) # <<>> \/ Those(deps, NamesOfEvents) # <<>>
  <2>1. (\E i \in DOMAIN deps : deps[i] \in BindingNames) => Those(deps, BindingNames) # <<>>
    BY ThoseOK
  <2>2. (\E i \in DOMAIN deps : deps[i] \in NamesOfEvents) => Those(deps, NamesOfEvents) # <<>>
    BY ThoseOK
  <2> QED BY <2>1, <2>2
<1> QED BY <1>2, <1>3 DEF NewEvent, EventRecord, EventRefers

LEMMA ArgumentsOK ==
  ASSUME BuilderOK, NEW c \in Contracts, NEW args \in Arguments(c)
  PROVE  /\ args \in Seq(Argument)
         /\ \A k \in DOMAIN args : args[k].kind = "binding" => args[k].name \in BindingNames
<1> DEFINE values == {Bound(b) : b \in BindingNames} \cup budget.literals
<1>1. BindingNames \subseteq Names
  BY FieldTypes DEF BuilderOK
<1>2. budget.literals \subseteq Literal
  BY DEF BuilderOK, Allowance
<1>3. \A v \in Literal : v \in Argument /\ v.kind # "binding"
  BY DEF Literal, Argument
<1>4. \A b \in BindingNames : Bound(b) \in Argument /\ Bound(b).name = b
  BY <1>1 DEF Bound, Argument
<1>5. \A v \in values : v \in Argument /\ (v.kind = "binding" => v.name \in BindingNames)
  BY <1>2, <1>3, <1>4
<1>6. Inputs[c] \in Seq([array : BOOLEAN, base : STRING, bits : Nat \ {0}])
  BY BuilderAssumption DEF BuilderAssumption
<1>7. Len(Inputs[c]) \in Nat
  BY <1>6
<1>8. PICK n \in {0, Len(Inputs[c])} : args \in [1 .. n -> values]
  BY DEF Arguments
<1> HIDE DEF values
<1>9. \A k \in 1 .. n : args[k] \in Argument
  BY <1>5, <1>8
<1>10. args \in Seq(Argument) /\ DOMAIN args = 1 .. n
  BY <1>7, <1>8, <1>9
<1> QED BY <1>5, <1>8, <1>10

\* contract(), library() and bindTemplate() give a binding of its type.
LEMMA NewBindingOK ==
  ASSUME BuilderOK, NEW n \in Names, n \notin BindingNames, NEW c \in Contracts, NEW args \in Arguments(c),
         NEW library \in BOOLEAN,
         bindings' = Append(bindings, NewBinding(n, c, args, library)),
         UNCHANGED <<events, moduleEvents, templates, open, initialized, status>>
  PROVE  Declared'
<1> DEFINE b == NewBinding(n, c, args, library)
<1>1. /\ args \in Seq(Argument)
      /\ \A k \in DOMAIN args : args[k].kind = "binding" => args[k].name \in BindingNames
  BY ArgumentsOK
<1>2. NoHooks \in [Before \cup After -> Seq(EventNames)] /\ <<>> \in Seq(Names)
  BY DEF NoHooks
<1>3. b \in BindingRecord
  BY <1>1, <1>2 DEF NewBinding, BindingRecord
<1>4. b.name = n /\ b.args = args /\ b.deployDeps = <<>> /\ b.hooks = NoHooks
  BY DEF NewBinding
<1> HIDE DEF b
<1>5. bindings' = Append(bindings, b)
  BY DEF b
<1> QED BY <1>1, <1>3, <1>4, <1>5, AppendBinding DEF BuilderOK

\* A setting of one binding, which leaves its name, hooks and arguments.
LEMMA SettingOK ==
  ASSUME BuilderOK, NEW i \in DOMAIN bindings, NEW b \in BindingRecord, Setting(i, b),
         b.name = bindings[i].name, b.hooks = bindings[i].hooks, b.args = bindings[i].args,
         Range(b.deployDeps) \subseteq BindingNames
  PROVE  BuilderOK'
<1>1. budget' \in Allowance
  BY SpendOK DEF Setting, BuilderOK
<1>2. bindings \in Seq(BindingRecord) /\ Len(bindings) \in Nat
  BY FieldTypes DEF BuilderOK
<1>3. bindings' = [bindings EXCEPT ![i] = b]
  BY DEF Setting
<1>4. bindings' \in Seq(BindingRecord) /\ Len(bindings') = Len(bindings)
  BY <1>2, <1>3
<1>5. \A j \in DOMAIN bindings : bindings'[j] = IF j = i THEN b ELSE bindings[j]
  BY <1>2, <1>3
<1>6. \A j \in DOMAIN bindings : bindings'[j].name = bindings[j].name /\ bindings'[j].hooks = bindings[j].hooks
  BY <1>5
<1>7. \A j \in DOMAIN bindings :
        /\ \A k \in DOMAIN bindings'[j].args :
             bindings'[j].args[k].kind = "binding" => bindings'[j].args[k].name \in BindingNames
        /\ Range(bindings'[j].deployDeps) \subseteq BindingNames
  BY <1>5 DEF BuilderOK, Declared, BindingsRefer
<1>8. UNCHANGED <<events, moduleEvents, templates, initialized>>
  BY DEF Setting
<1>9. Declared'
  BY <1>4, <1>6, <1>7, <1>8, ChangeBindings DEF BuilderOK
<1> QED BY <1>1, <1>9 DEF BuilderOK

LEMMA GroupOK ==
  ASSUME BuilderOK, NEW group \in SUBSET DOMAIN bindings, GroupShouldRedeploy(group)
  PROVE  BuilderOK' /\ status' \in {"building", "ShouldRedeployAlreadyDefinedError"}
<1>1. budget' \in Allowance
  BY SpendOK DEF GroupShouldRedeploy, BuilderOK
<1>2. CASE \E i \in group : bindings[i].redeploy
  <2>1. UNCHANGED <<bindings, events, moduleEvents, templates, initialized>>
        /\ status' = "ShouldRedeployAlreadyDefinedError"
    BY <1>2 DEF GroupShouldRedeploy, Throws
  <2>2. Declared'
    BY <2>1, SameDeclared DEF BuilderOK, Declared, Typed
  <2> QED BY <1>1, <2>1, <2>2 DEF BuilderOK
<1>3. CASE ~ \E i \in group : bindings[i].redeploy
  <2>1. /\ bindings' = [i \in DOMAIN bindings |->
              IF i \in group THEN [bindings[i] EXCEPT !.redeploy = TRUE] ELSE bindings[i]]
        /\ UNCHANGED <<events, moduleEvents, templates, initialized>> /\ status' = "building"
    BY <1>3 DEF GroupShouldRedeploy, Building
  <2>2. /\ bindings \in Seq(BindingRecord) /\ DOMAIN bindings = 1 .. Len(bindings) /\ Len(bindings) \in Nat
        /\ \A i \in DOMAIN bindings : bindings[i] \in BindingRecord
    BY FieldTypes DEF BuilderOK
  <2>3. \A i \in DOMAIN bindings :
          /\ bindings'[i] \in BindingRecord
          /\ bindings'[i].name = bindings[i].name /\ bindings'[i].hooks = bindings[i].hooks
          /\ bindings'[i].args = bindings[i].args /\ bindings'[i].deployDeps = bindings[i].deployDeps
    BY <2>1, <2>2 DEF BindingRecord
  <2>4. DOMAIN bindings' = DOMAIN bindings /\ bindings' = [i \in DOMAIN bindings' |-> bindings'[i]]
    BY <2>1
  <2>5. bindings' \in Seq(BindingRecord) /\ Len(bindings') = Len(bindings)
    BY <2>2, <2>3, <2>4, SeqIs
  <2>6. \A i \in DOMAIN bindings :
          /\ \A k \in DOMAIN bindings'[i].args :
               bindings'[i].args[k].kind = "binding" => bindings'[i].args[k].name \in BindingNames
          /\ Range(bindings'[i].deployDeps) \subseteq BindingNames
    BY <2>3 DEF BuilderOK, Declared, BindingsRefer
  <2>7. Declared'
    BY <2>1, <2>3, <2>5, <2>6, ChangeBindings DEF BuilderOK
  <2> QED BY <1>1, <2>1, <2>7 DEF BuilderOK
<1> QED BY <1>2, <1>3

LEMMA GroupHookOK ==
  ASSUME BuilderOK, NEW T, NEW group \in Seq(T), NEW usages \in Seq(T), NEW e \in EventNames, NEW type \in HookTypes,
         \E i \in DOMAIN group : group[i] \in BindingNames \cup NamesOfEvents,
         GroupHook(group, e, type, usages)
  PROVE  BuilderOK' /\ status' \in {"building", "EventNameExistsError"}
<1>1. budget' \in Allowance
  BY SpendOK DEF GroupHook, BuilderOK
<1>2. CASE EventExists(e)
  <2>1. UNCHANGED <<bindings, events, moduleEvents, templates, initialized>> /\ status' = "EventNameExistsError"
    BY <1>2 DEF GroupHook, Throws
  <2>2. Declared'
    BY <2>1, SameDeclared DEF BuilderOK, Declared, Typed
  <2> QED BY <1>1, <2>1, <2>2 DEF BuilderOK
<1>3. CASE ~EventExists(e)
  <2> DEFINE event == NewEvent(e, type, group, usages)
  <2>1. AddEvent(event) /\ status' = "building"
    BY <1>3 DEF GroupHook, AddEvent, Building
  <2>2. event \in EventRecord /\ event.name = e /\ EventRefers(event)
    BY NewEventOK DEF BuilderOK
  <2> HIDE DEF event
  <2>3. Declared'
    BY <1>3, <2>1, <2>2, AddEventOK DEF BuilderOK, EventExists
  <2> QED BY <1>1, <2>1, <2>3 DEF BuilderOK
<1> QED BY <1>2, <1>3

(***************************************************************************)
(* What handleModule finds no error in is valid.                           *)
(***************************************************************************)
LEMMA HandleOK ==
  ASSUME Declared, NEW isUsage \in BOOLEAN
  PROVE  HandleError(isUsage) \in Errors \cup {Nothing} /\ (~isUsage /\ HandleError(isUsage) = Nothing => Valid)
<1> DEFINE error(i) ==
             IF bindings[i].contractName \notin DOMAIN Inputs THEN "MissingContractMetadata"
             ELSE IF isUsage THEN Nothing
             ELSE BindingError(bindings[i].args, Inputs[bindings[i].contractName], bindings[i].custom)
           wrong == {i \in DOMAIN bindings : error(i) # Nothing}
           first == CHOOSE i \in wrong : \A j \in wrong : i <= j
<1>1. HandleError(isUsage) = IF wrong = {} THEN Nothing ELSE error(first)
  BY DEF HandleError
<1>2. \A i : error(i) \in Errors \cup {Nothing}
  BY DEF BindingError, Errors, Nothing
<1>3. wrong \in SUBSET Nat
  BY FieldTypes
<1>4. ASSUME wrong # {}
      PROVE  first \in wrong
  <2> HIDE DEF wrong
  <2> QED BY <1>3, <1>4, LeastNumber
<1>5. HandleError(isUsage) = Nothing => wrong = {}
  <2>1. \A i \in wrong : error(i) # Nothing
    OBVIOUS
  <2> HIDE DEF wrong, error, first
  <2> QED BY <1>1, <1>4, <2>1
<1>6. ASSUME wrong = {}, ~isUsage
      PROVE  Valid
  <2>1. \A i \in DOMAIN bindings : error(i) = Nothing
    BY <1>6
  <2>2. ASSUME NEW i \in DOMAIN bindings, NEW k \in DOMAIN bindings[i].args
        PROVE  /\ k <= Len(Inputs[bindings[i].contractName])
               /\ Accepted(bindings[i].args[k], Inputs[bindings[i].contractName][k])
    <3>1. BindingError(bindings[i].args, Inputs[bindings[i].contractName], bindings[i].custom) = Nothing
      BY <1>6, <2>1 DEF Nothing
    <3>2. bindings[i].args \in Seq(Argument) /\ bindings[i].contractName \in Contracts
      BY FieldTypes
    <3>3. Inputs[bindings[i].contractName] \in Seq([array : BOOLEAN, base : STRING, bits : Nat \ {0}])
      BY <3>2, BuilderAssumption DEF BuilderAssumption
    <3>4. k \in Nat /\ Len(Inputs[bindings[i].contractName]) \in Nat
      BY <3>2, <3>3
    <3> HIDE DEF error
    <3> QED BY <3>1, <3>4 DEF BindingError, Nothing
  <2> HIDE DEF error
  <2> QED BY <2>2 DEF Valid
<1> HIDE DEF wrong, error, first
<1> QED BY <1>1, <1>2, <1>5, <1>6

LEMMA FewOK ==
  ASSUME NEW S, NEW n \in Int, NEW s \in Few(S, n)
  PROVE  s \in Seq(S)
<1>1. PICK k \in 0 .. n : s \in [1 .. k -> S]
  BY DEF Few
<1>2. k \in Nat
  OBVIOUS
<1> QED BY <1>1, <1>2

(***************************************************************************)
(* What a step of the module function, or its end, leaves.                 *)
(***************************************************************************)
Declares == BuilderOK' /\ status' \in {"building", "built"} \cup Errors /\ (status' = "built" => Valid')

LEMMA ThrowsOK ==
  ASSUME BuilderOK, NEW error \in Errors, Throws(error), budget' \in Allowance
  PROVE  Declares
<1>1. UNCHANGED <<bindings, events, moduleEvents, templates, initialized>> /\ status' = error
  BY DEF Throws
<1>2. Declared'
  BY <1>1, SameDeclared DEF BuilderOK, Declared, Typed
<1>3. status' # "built"
  BY <1>1 DEF Errors
<1> QED BY <1>1, <1>2, <1>3 DEF Declares, BuilderOK

LEMMA BindOK ==
  ASSUME BuilderOK,
         \/ \E n \in Contracts : \E args \in Arguments(n) : Contract(n, args, n \in budget.libraries)
         \/ \E t \in Templates : ContractTemplate(t)
         \/ \E n \in Aliases, t \in Templates : \E args \in Arguments(t) : BindTemplate(n, t, args)
  PROVE  Declares
<1>1. Contracts \subseteq Names /\ Aliases \subseteq Names /\ Templates \subseteq Contracts
  BY BuilderAssumption DEF BuilderAssumption, Names
<1>2. ASSUME NEW n \in Contracts, NEW args \in Arguments(n), NEW library \in BOOLEAN, Contract(n, args, library)
      PROVE  Declares
  <2>1. budget' \in Allowance
    BY <1>2, SpendOK DEF Contract, BuilderOK
  <2>2. CASE IsBound(n)
    <3>1. Throws("DeploymentFileError")
      BY <1>2, <2>2 DEF Contract
    <3> QED BY <2>1, <3>1, ThrowsOK DEF Errors
  <2>3. CASE ~IsBound(n)
    <3>1. /\ bindings' = Append(bindings, NewBinding(n, n, args, library))
          /\ UNCHANGED <<events, moduleEvents, templates, open, initialized, status>> /\ status = "building"
      BY <1>2, <2>3 DEF Contract, Building
    <3>2. n \notin BindingNames
      BY <2>3 DEF IsBound
    <3>3. Declared'
      BY <1>1, <3>1, <3>2, NewBindingOK
    <3> QED BY <2>1, <3>1, <3>3 DEF Declares, BuilderOK
  <2> QED BY <2>2, <2>3
<1>3. ASSUME NEW t \in Templates, ContractTemplate(t)
      PROVE  Declares
  <2>1. budget' \in Allowance
    BY <1>3, SpendOK DEF ContractTemplate, BuilderOK
  <2>2. /\ templates' = templates \cup {t} /\ status' = "building"
        /\ UNCHANGED <<bindings, events, moduleEvents, initialized>>
    BY <1>3 DEF ContractTemplate, Building
  <2>3. Declared'
    BY <2>2, SameDeclared DEF BuilderOK, Declared, Typed
  <2> QED BY <2>1, <2>2, <2>3 DEF Declares, BuilderOK
<1>4. ASSUME NEW n \in Aliases, NEW t \in Templates, NEW args \in Arguments(t), BindTemplate(n, t, args)
      PROVE  Declares
  <2>1. budget' \in Allowance
    BY <1>4, SpendOK DEF BindTemplate, BuilderOK
  <2>2. CASE IsBound(n)
    <3>1. Throws("BindingsConflict")
      BY <1>4, <2>2 DEF BindTemplate
    <3> QED BY <2>1, <3>1, ThrowsOK DEF Errors
  <2>3. CASE ~IsBound(n) /\ t \notin templates
    <3>1. Throws("TemplateNotFound")
      BY <1>4, <2>3 DEF BindTemplate
    <3> QED BY <2>1, <3>1, ThrowsOK DEF Errors
  <2>4. CASE ~IsBound(n) /\ t \in templates
    <3>1. /\ bindings' = Append(bindings, NewBinding(n, t, args, FALSE))
          /\ UNCHANGED <<events, moduleEvents, templates, open, initialized, status>> /\ status = "building"
      BY <1>4, <2>4 DEF BindTemplate, Building
    <3>2. n \notin BindingNames /\ t \in Contracts /\ n \in Names
      BY <1>1, <2>4 DEF IsBound
    <3>3. Declared'
      BY <3>1, <3>2, NewBindingOK
    <3> QED BY <2>1, <3>1, <3>3 DEF Declares, BuilderOK
  <2> QED BY <2>2, <2>3, <2>4
<1>5. CASE \E n \in Contracts : \E args \in Arguments(n) : Contract(n, args, n \in budget.libraries)
  <2>1. PICK n \in Contracts : \E args \in Arguments(n) : Contract(n, args, n \in budget.libraries)
    BY <1>5
  <2> DEFINE library == n \in budget.libraries
  <2>2. library \in BOOLEAN /\ \E args \in Arguments(n) : Contract(n, args, library)
    BY <2>1
  <2> HIDE DEF library
  <2> QED BY <1>2, <2>2
<1>6. CASE \E t \in Templates : ContractTemplate(t)
  BY <1>3, <1>6
<1>7. CASE \E n \in Aliases, t \in Templates : \E args \in Arguments(t) : BindTemplate(n, t, args)
  BY <1>4, <1>7
<1> QED BY <1>5, <1>6, <1>7

LEMMA SetOK ==
  ASSUME BuilderOK,
         \/ \E i \in DOMAIN bindings :
              \/ SetForce(i) \/ ShouldRedeploy(i)
              \/ \E deps \in Few(BindingNames, 1) : DeployFn(i, deps)
         \/ \E group \in SUBSET DOMAIN bindings : GroupShouldRedeploy(group)
  PROVE  Declares
<1>1. ASSUME NEW i \in DOMAIN bindings, NEW b \in BindingRecord, Setting(i, b),
             b.name = bindings[i].name, b.hooks = bindings[i].hooks, b.args = bindings[i].args,
             Range(b.deployDeps) \subseteq BindingNames
      PROVE  Declares
  <2>1. status' = "building"
    BY <1>1 DEF Setting, Building
  <2> QED BY <1>1, <2>1, SettingOK DEF Declares
<1>2. \A i \in DOMAIN bindings : bindings[i] \in BindingRecord /\ Range(bindings[i].deployDeps) \subseteq BindingNames
  BY FieldTypes DEF BuilderOK, Declared, BindingsRefer
<1>3. ASSUME NEW i \in DOMAIN bindings, SetForce(i)
      PROVE  Declares
  <2> DEFINE b == [bindings[i] EXCEPT !.force = TRUE]
  <2>1. b \in BindingRecord /\ b.name = bindings[i].name /\ b.hooks = bindings[i].hooks /\ b.args = bindings[i].args
        /\ b.deployDeps = bindings[i].deployDeps
    BY <1>2 DEF BindingRecord
  <2>2. Setting(i, b)
    BY <1>3 DEF SetForce
  <2> HIDE DEF b
  <2> QED BY <1>1, <1>2, <2>1, <2>2
<1>4. ASSUME NEW i \in DOMAIN bindings, ShouldRedeploy(i)
      PROVE  Declares
  <2> DEFINE b == [bindings[i] EXCEPT !.redeploy = TRUE]
  <2>1. b \in BindingRecord /\ b.name = bindings[i].name /\ b.hooks = bindings[i].hooks /\ b.args = bindings[i].args
        /\ b.deployDeps = bindings[i].deployDeps
    BY <1>2 DEF BindingRecord
  <2>2. Setting(i, b)
    BY <1>4 DEF ShouldRedeploy
  <2> HIDE DEF b
  <2> QED BY <1>1, <1>2, <2>1, <2>2
<1>5. ASSUME NEW i \in DOMAIN bindings, NEW deps \in Few(BindingNames, 1), DeployFn(i, deps)
      PROVE  Declares
  <2> DEFINE b == [bindings[i] EXCEPT !.custom = TRUE, !.deployDeps = deps]
  <2>1. deps \in Seq(BindingNames) /\ BindingNames \subseteq Names
    BY FewOK, FieldTypes DEF BuilderOK
  <2>2. deps \in Seq(Names) /\ Range(deps) \subseteq BindingNames
    BY <2>1 DEF Range
  <2>3. b \in BindingRecord /\ b.name = bindings[i].name /\ b.hooks = bindings[i].hooks /\ b.args = bindings[i].args
        /\ b.deployDeps = deps
    BY <1>2, <2>2 DEF BindingRecord
  <2>4. Setting(i, b)
    BY <1>5 DEF DeployFn
  <2> HIDE DEF b
  <2> QED BY <1>1, <2>2, <2>3, <2>4
<1>6. ASSUME NEW group \in SUBSET DOMAIN bindings, GroupShouldRedeploy(group)
      PROVE  Declares
  <2>1. BuilderOK' /\ status' \in {"building", "ShouldRedeployAlreadyDefinedError"}
    BY <1>6, GroupOK
  <2> QED BY <2>1 DEF Declares, Errors
<1> QED BY <1>3, <1>4, <1>5, <1>6

LEMMA RefsOK == MaxRefs \in Int /\ MaxRefs - 1 \in Int
<1>1. MaxRefs \in Nat
  BY BuilderAssumption DEF BuilderAssumption
<1> QED BY <1>1

\* Hooks of a binding and of a group.
LEMMA HookOK ==
  ASSUME BuilderOK, NEW e \in SomeNames, NEW type \in HookTypes,
         LET things == BindingNames \cup NamesOfEvents IN
         \/ \E b \in BindingNames, usages \in Few(things, MaxRefs - 1) : Hook(b, e, type, usages)
         \/ \E group \in Few(things, MaxRefs), usages \in Few(things, MaxRefs - 1) :
              /\ Len(group) + Len(usages) \in 1 .. MaxRefs /\ group # <<>>
              /\ GroupHook(group, e, type, usages)
         \/ /\ type = "afterDeploy"
            /\ \E b \in BindingNames, args \in Few(things \cup {"a value"}, MaxRefs - 1) :
                 SendAfterDeploy(b, args, <<>>, e)
         \/ /\ type = "afterDeploy"
            /\ \E proxy, logic \in BindingNames :
                 proxy # logic /\ ProxySetNewLogic(proxy, logic, e)
  PROVE  Declares
<1> DEFINE things == BindingNames \cup NamesOfEvents
<1>1. MaxRefs \in Int /\ MaxRefs - 1 \in Int
  BY RefsOK
<1>2. e \in EventNames
  <2>1. NamesOfEvents \subseteq EventNames
    BY FieldTypes DEF BuilderOK
  <2> QED BY <2>1 DEF SomeNames
<1>3. ASSUME NEW group \in Seq(things), NEW usages \in Seq(things), group # <<>>, GroupHook(group, e, type, usages)
      PROVE  Declares
  <2>1. 1 \in DOMAIN group /\ group[1] \in things
    <3> HIDE DEF things
    <3> QED BY <1>3, NonEmpty
  <2>2. \E i \in DOMAIN group : group[i] \in BindingNames \cup NamesOfEvents
    BY <2>1
  <2> HIDE DEF things
  <2>3. BuilderOK' /\ status' \in {"building", "EventNameExistsError"}
    BY <1>2, <1>3, <2>2, GroupHookOK
  <2> QED BY <2>3 DEF Declares, Errors
<1> HIDE DEF things
<1>4. BindingNames \subseteq things
  BY DEF things
<1>5. ASSUME NEW b \in BindingNames, NEW usages \in Few(things, MaxRefs - 1), Hook(b, e, type, usages)
      PROVE  Declares
  <2>1. GroupHook(<<b>>, e, type, usages)
    BY <1>5 DEF Hook, GroupHook
  <2>2. usages \in Seq(things) /\ <<b>> \in Seq(things) /\ <<b>> # <<>>
    BY <1>1, <1>4, FewOK, ShortSeqs
  <2> QED BY <1>3, <2>1, <2>2
<1>6. ASSUME NEW group \in Few(things, MaxRefs), NEW usages \in Few(things, MaxRefs - 1), group # <<>>,
             GroupHook(group, e, type, usages)
      PROVE  Declares
  <2>1. usages \in Seq(things) /\ group \in Seq(things)
    BY <1>1, FewOK
  <2> QED BY <1>3, <1>6, <2>1
<1>7. ASSUME type = "afterDeploy", NEW b \in BindingNames, NEW args \in Few(things \cup {"a value"}, MaxRefs - 1),
             SendAfterDeploy(b, args, <<>>, e)
      PROVE  Declares
  <2>1. args \in Seq(things \cup {"a value"})
    BY <1>1, FewOK
  <2>2. Those(args, things) \in Seq((things \cup {"a value"}) \cap things)
    BY <2>1, ThoseOK
  <2>3. Those(args, things) \in Seq(things)
    BY <2>2
  <2>4. <<b>> \o <<>> \in Seq(things) /\ <<b>> \o <<>> # <<>>
    BY <1>4, ShortSeqs
  <2>5. GroupHook(<<b>> \o <<>>, e, type, Those(args, things))
    BY <1>7 DEF SendAfterDeploy, things
  <2> QED BY <1>3, <2>3, <2>4, <2>5
<1>8. ASSUME type = "afterDeploy", NEW proxy \in BindingNames, NEW logic \in BindingNames,
             ProxySetNewLogic(proxy, logic, e)
      PROVE  Declares
  <2>1. GroupHook(<<proxy, logic>>, e, type, <<>>)
    BY <1>8 DEF ProxySetNewLogic
  <2>2. <<proxy, logic>> \in Seq(things) /\ <<proxy, logic>> # <<>> /\ <<>> \in Seq(things)
    BY <1>4, ShortSeqs
  <2> QED BY <1>3, <2>1, <2>2
<1> QED BY <1>5, <1>6, <1>7, <1>8 DEF things

LEMMA ModuleHookOK ==
  ASSUME BuilderOK, NEW e \in EventNames, NEW type \in ModuleHookTypes, ModuleHook(e, type)
  PROVE  Declares
<1>1. budget' \in Allowance
  BY SpendOK DEF ModuleHook, BuilderOK
<1>2. /\ UNCHANGED <<bindings, events, templates, initialized>> /\ status' = "building"
      /\ moduleEvents' = [moduleEvents EXCEPT ![type] =
           IF e \in Range(moduleEvents[type]) THEN moduleEvents[type] ELSE Append(moduleEvents[type], e)]
  BY DEF ModuleHook, Building
<1>3. moduleEvents \in [ModuleHookTypes -> Seq(EventNames)]
  BY DEF BuilderOK, Declared, Typed
<1>4. Append(moduleEvents[type], e) \in Seq(EventNames) /\ moduleEvents[type] \in Seq(EventNames)
  BY <1>3
<1>5. moduleEvents' \in [ModuleHookTypes -> Seq(EventNames)]
  BY <1>2, <1>3, <1>4
<1>6. Declared'
  BY <1>2, <1>5, SameDeclared DEF BuilderOK, Declared, Typed
<1> QED BY <1>1, <1>2, <1>6 DEF Declares, BuilderOK

LEMMA SubModuleOK ==
  ASSUME BuilderOK, NEW s \in SubModules, UseModule(s) \/ EndUse(s)
  PROVE  Declares
<1>1. \A isUsage \in BOOLEAN : HandleError(isUsage) \in Errors \cup {Nothing}
  BY HandleOK DEF BuilderOK
<1>2. budget' \in Allowance
  <2>1. CASE UseModule(s)
    BY <2>1, SpendOK DEF UseModule, BuilderOK
  <2>2. CASE EndUse(s)
    BY <2>2 DEF EndUse, BuilderOK
  <2> QED BY <2>1, <2>2
<1>3. CASE \E error \in Errors : Throws(error)
  BY <1>2, <1>3, ThrowsOK
<1>4. CASE UNCHANGED <<bindings, events, moduleEvents, templates>> /\ initialized' \subseteq SubModules
           /\ status' = "building"
  <2>1. Declared'
    BY <1>4, SameDeclared DEF BuilderOK, Declared, Typed
  <2> QED BY <1>2, <1>4, <2>1 DEF Declares, BuilderOK
<1>5. initialized \subseteq SubModules
  BY DEF BuilderOK, Declared, Typed
<1>6. CASE UseModule(s)
  BY <1>3, <1>4, <1>5, <1>6 DEF UseModule, Building, Errors
<1>7. CASE EndUse(s)
  <2> DEFINE error == HandleError(s \in UsageModules)
  <2>1. error \in Errors \cup {Nothing}
    <3>1. (s \in UsageModules) \in BOOLEAN
      OBVIOUS
    <3> QED BY <1>1, <3>1
  <2>2. status = "building" /\ IF error # Nothing THEN Throws(error)
          ELSE initialized' = initialized \cup {s} /\ UNCHANGED <<bindings, events, moduleEvents, templates, status>>
    BY <1>7 DEF EndUse, Building
  <2> HIDE DEF error
  <2> QED BY <1>3, <1>4, <1>5, <2>1, <2>2
<1> QED BY <1>6, <1>7

LEMMA EndModuleOK ==
  ASSUME BuilderOK, EndModule
  PROVE  Declares
<1>1. UNCHANGED <<bindings, events, moduleEvents, templates, initialized, budget>>
      /\ status' = IF HandleError(FALSE) = Nothing THEN "built" ELSE HandleError(FALSE)
  BY DEF EndModule
<1>2. HandleError(FALSE) \in Errors \cup {Nothing} /\ (HandleError(FALSE) = Nothing => Valid)
  BY HandleOK DEF BuilderOK
<1>3. Declared'
  BY <1>1, SameDeclared DEF BuilderOK, Declared, Typed
<1>4. Valid => Valid'
  BY <1>1 DEF Valid
<1>5. "built" \notin Errors
  BY DEF Errors
<1> QED BY <1>1, <1>2, <1>3, <1>4, <1>5 DEF Declares, BuilderOK

\* Every call of the DSL keeps what is declared consistent.
LEMMA DeclareOK ==
  ASSUME BuilderOK, Declare
  PROVE  Declares
<1>1. \A e \in SomeNames : e \in EventNames
  <2>1. NamesOfEvents \subseteq EventNames
    BY FieldTypes DEF BuilderOK
  <2> QED BY <2>1 DEF SomeNames
<1>2. CASE \E e \in SomeNames, type \in ModuleHookTypes : ModuleHook(e, type)
  BY <1>1, <1>2, ModuleHookOK
<1>3. CASE Filler
  <2>1. ModuleHook(FillerName, "onStart") /\ "onStart" \in ModuleHookTypes
    BY <1>3 DEF Filler, ModuleHookTypes
  <2> QED BY <2>1, FillerAssumption, ModuleHookOK DEF FillerAssumption
<1> QED BY <1>2, <1>3, BindOK, SetOK, HookOK, SubModuleOK, EndModuleOK DEF Declare

-----------------------------------------------------------------------------
(* An edit of the module.                                                  *)

LEMMA SwapOK ==
  ASSUME BuilderOK, Valid, NEW i \in 1 .. Len(bindings) - 1,
         bindings' = [bindings EXCEPT ![i] = bindings[i + 1], ![i + 1] = bindings[i]],
         UNCHANGED <<events, moduleEvents, templates, initialized>>
  PROVE  Declared' /\ Valid'
<1> DEFINE from(j) == IF j = i THEN i + 1 ELSE IF j = i + 1 THEN i ELSE j
<1>1. bindings \in Seq(BindingRecord) /\ Len(bindings) \in Nat /\ DOMAIN bindings = 1 .. Len(bindings)
  BY FieldTypes DEF BuilderOK
<1>2. i \in DOMAIN bindings /\ i + 1 \in DOMAIN bindings
  BY <1>1
<1>3. bindings' \in Seq(BindingRecord) /\ Len(bindings') = Len(bindings) /\ DOMAIN bindings' = DOMAIN bindings
  BY <1>1, <1>2
<1>4. \A j \in DOMAIN bindings : from(j) \in DOMAIN bindings /\ bindings'[j] = bindings[from(j)] /\ from(from(j)) = j
  BY <1>1, <1>2
<1> HIDE DEF from
<1>5. BindingNames' = BindingNames /\ NamesOfEvents' = NamesOfEvents
  <2>1. NamesOfEvents' = NamesOfEvents
    BY DEF NamesOfEvents
  <2>2. \A j \in DOMAIN bindings : bindings'[j].name = bindings[from(j)].name /\ from(j) \in DOMAIN bindings
    BY <1>4
  <2>3. \A j \in DOMAIN bindings : bindings[j].name = bindings'[from(j)].name /\ from(j) \in DOMAIN bindings
    BY <1>4
  <2>4. ASSUME NEW x \in BindingNames'
        PROVE  x \in BindingNames
    <3>1. PICK j \in DOMAIN bindings' : bindings'[j].name = x
      BY DEF BindingNames
    <3> QED BY <1>3, <2>2, <3>1 DEF BindingNames
  <2>5. ASSUME NEW x \in BindingNames
        PROVE  x \in BindingNames'
    <3>1. PICK j \in DOMAIN bindings : bindings[j].name = x
      BY DEF BindingNames
    <3>2. from(j) \in DOMAIN bindings' /\ bindings'[from(j)].name = x
      BY <1>3, <2>3, <3>1
    <3> QED BY <3>2 DEF BindingNames
  <2> QED BY <2>1, <2>4, <2>5
<1>6. Typed'
  BY <1>3 DEF BuilderOK, Declared, Typed
<1>7. NamedOnce(bindings)' /\ NamedOnce(events)'
  <2>1. ASSUME NEW j \in DOMAIN bindings, NEW k \in DOMAIN bindings, bindings'[j].name = bindings'[k].name
        PROVE  j = k
    <3>1. from(j) = from(k)
      BY <1>4, <2>1 DEF BuilderOK, Declared, NamedOnce
    <3> QED BY <1>4, <3>1
  <2> QED BY <1>3, <2>1 DEF BuilderOK, Declared, NamedOnce
<1>8. EventsRefer'
  BY <1>5 DEF BuilderOK, Declared, EventsRefer, EventRefers
<1>9. BindingsRefer'
  BY <1>3, <1>4, <1>5 DEF BuilderOK, Declared, BindingsRefer
<1>10. HooksAreEvents'
  <2>1. \A h, t : IsEvent(h, t)' = IsEvent(h, t)
    BY DEF IsEvent
  <2> QED BY <1>3, <1>4, <2>1 DEF BuilderOK, Declared, HooksAreEvents
<1>11. HooksListed'
  BY <1>3, <1>4 DEF BuilderOK, Declared, HooksListed
<1>12. Valid'
  BY <1>3, <1>4 DEF Valid
<1> QED BY <1>6, <1>7, <1>8, <1>9, <1>10, <1>11, <1>12 DEF Declared

LEMMA ArgumentEditOK ==
  ASSUME BuilderOK, Valid, NEW i \in DOMAIN bindings, NEW k \in DOMAIN bindings[i].args,
         NEW v \in budget.literals,
         Accepted(v, Inputs[bindings[i].contractName][k]),
         bindings' = [bindings EXCEPT ![i].args[k] = v],
         UNCHANGED <<events, moduleEvents, templates, initialized>>
  PROVE  Declared' /\ Valid'
<1>1. /\ bindings \in Seq(BindingRecord) /\ Len(bindings) \in Nat /\ DOMAIN bindings = 1 .. Len(bindings)
      /\ bindings[i] \in BindingRecord /\ bindings[i].args \in Seq(Argument)
  BY FieldTypes DEF BuilderOK
<1>2. v \in Argument /\ v.kind # "binding"
  <2>1. v \in Literal
    BY DEF BuilderOK, Allowance
  <2> QED BY <2>1 DEF Literal, Argument
<1> DEFINE args == [bindings[i].args EXCEPT ![k] = v]
           b == [bindings[i] EXCEPT !.args = args]
<1>3. /\ args \in Seq(Argument) /\ DOMAIN args = DOMAIN bindings[i].args
      /\ \A j \in DOMAIN args : args[j] = IF j = k THEN v ELSE bindings[i].args[j]
  BY <1>1, <1>2
<1>4. bindings' = [bindings EXCEPT ![i] = b]
  OBVIOUS
<1> HIDE DEF args
<1>5. /\ b \in BindingRecord /\ b.name = bindings[i].name /\ b.hooks = bindings[i].hooks
      /\ b.deployDeps = bindings[i].deployDeps /\ b.contractName = bindings[i].contractName /\ b.args = args
  BY <1>1, <1>3 DEF BindingRecord
<1> HIDE DEF b
<1>6. bindings' \in Seq(BindingRecord) /\ Len(bindings') = Len(bindings) /\ DOMAIN bindings' = DOMAIN bindings
  <2>1. bindings \in Seq(BindingRecord) /\ b \in BindingRecord
    BY <1>1, <1>5
  <2>2. LET t == [bindings EXCEPT ![i] = b] IN
        t \in Seq(BindingRecord) /\ Len(t) = Len(bindings) /\ DOMAIN t = DOMAIN bindings
    BY <2>1, ExceptOK
  <2> QED BY <1>4, <2>2
<1>7. \A j \in DOMAIN bindings : bindings'[j] = IF j = i THEN b ELSE bindings[j]
  BY <1>1, <1>4
<1>8. \A j \in DOMAIN bindings : bindings'[j].name = bindings[j].name /\ bindings'[j].hooks = bindings[j].hooks
  BY <1>5, <1>7
<1>9. \A j \in DOMAIN bindings :
        /\ \A l \in DOMAIN bindings'[j].args :
             bindings'[j].args[l].kind = "binding" => bindings'[j].args[l].name \in BindingNames
        /\ Range(bindings'[j].deployDeps) \subseteq BindingNames
  BY <1>2, <1>3, <1>5, <1>7 DEF BuilderOK, Declared, BindingsRefer
<1>10. Declared'
  BY <1>6, <1>8, <1>9, ChangeBindings DEF BuilderOK
<1>11. Valid'
  BY <1>2, <1>3, <1>5, <1>6, <1>7 DEF Valid
<1> QED BY <1>10, <1>11

\* So does an edit of a deployed module.
LEMMA EditOK ==
  ASSUME BuilderOK, Valid, changed \subseteq Contracts, Edit
  PROVE  BuilderOK' /\ Valid' /\ changed' \subseteq Contracts
<1>1. budget' \in Allowance
  BY SpendOK DEF Edit, BuilderOK
<1>2. UNCHANGED <<events, moduleEvents, templates, initialized>>
  BY DEF Edit
<1>3. CASE \E c \in {bindings[i].contractName : i \in DOMAIN bindings} :
             changed' = changed \cup {c} /\ UNCHANGED bindings
  <2>1. {bindings[i].contractName : i \in DOMAIN bindings} \subseteq Contracts
    BY FieldTypes DEF BuilderOK
  <2>2. Declared'
    BY <1>2, <1>3, SameDeclared DEF BuilderOK, Declared, Typed
  <2>3. Valid'
    BY <1>3 DEF Valid
  <2> QED BY <1>1, <1>3, <2>1, <2>2, <2>3 DEF BuilderOK
<1>4. CASE \E i \in 1 .. Len(bindings) - 1 :
             /\ bindings' = [bindings EXCEPT ![i] = bindings[i + 1], ![i + 1] = bindings[i]]
             /\ UNCHANGED changed
  BY <1>1, <1>2, <1>4, SwapOK DEF BuilderOK
<1>5. CASE \E i \in DOMAIN bindings : \E k \in DOMAIN bindings[i].args, v \in budget.literals :
             /\ Accepted(v, Inputs[bindings[i].contractName][k])
             /\ bindings' = [bindings EXCEPT ![i].args[k] = v] /\ UNCHANGED changed
  BY <1>1, <1>2, <1>5, ArgumentEditOK DEF BuilderOK
<1> QED BY <1>3, <1>4, <1>5 DEF Edit

(***************************************************************************)
(* A number that the validator accepts fits its type.                      *)
(***************************************************************************)
LEMMA NumbersFit ==
  ASSUME Declared, Valid
  PROVE  \A i \in DOMAIN bindings : \A k \in DOMAIN bindings[i].args :
           LET v == bindings[i].args[k]
               types == Inputs[bindings[i].contractName] IN
           k \in DOMAIN types /\ v.kind = "number" /\ ~v.array => Fits(v.num, types[k])
<1> SUFFICES ASSUME NEW i \in DOMAIN bindings, NEW k \in DOMAIN bindings[i].args,
                    k \in DOMAIN Inputs[bindings[i].contractName],
                    bindings[i].args[k].kind = "number"
             PROVE  Fits(bindings[i].args[k].num, Inputs[bindings[i].contractName][k])
  OBVIOUS
<1> DEFINE v == bindings[i].args[k]
           types == Inputs[bindings[i].contractName]
           type == types[k]
           T == [array : BOOLEAN, base : STRING, bits : Nat \ {0}]
<1>1. bindings[i].args \in Seq(Argument) /\ bindings[i].contractName \in Contracts
  BY FieldTypes
<1>2. v \in Argument
  BY <1>1
<1>3. v.num \in Int
  BY <1>2 DEF Argument
<1>4. types \in Seq(T)
  BY <1>1, BuilderAssumption DEF BuilderAssumption
<1>5. type \in T
  <2>1. k \in DOMAIN types
    OBVIOUS
  <2> HIDE DEF types, T
  <2> QED BY <1>4, <2>1
<1>6. type.bits \in Nat \ {0}
  BY <1>5
<1>7. Accepted(v, type)
  BY DEF Valid
<1> HIDE DEF v, types, type
<1>8. v.kind = "number"
  BY DEF v
<1>9. IsInt(type) /\ IntAccepted(v.num, type)
  BY <1>7, <1>8 DEF Accepted
<1>10. (v.num < 0 => type.base # "uint") /\ Abs(v.num) <= Limit(type)
  BY <1>9 DEF IntAccepted
<1>11. Fits(v.num, type)
  BY <1>3, <1>6, <1>10 DEF Fits, Limit, Abs
<1> QED BY <1>11 DEF v, type, types

-----------------------------------------------------------------------------
(* What the elements of a module refer to.                                 *)

\* Names identify bindings and events.
LEMMA BindingIs ==
  ASSUME Declared, NEW i \in DOMAIN bindings
  PROVE  Binding(bindings[i].name) = bindings[i]
<1> DEFINE j == CHOOSE j \in DOMAIN bindings : bindings[j].name = bindings[i].name
<1>1. j \in DOMAIN bindings /\ bindings[j].name = bindings[i].name
  OBVIOUS
<1>2. j = i
  <2> HIDE DEF j
  <2> QED BY <1>1 DEF Declared, NamedOnce
<1> QED BY <1>2 DEF Binding

LEMMA EventIs ==
  ASSUME Declared, NEW i \in DOMAIN events
  PROVE  EventOf(events[i].name) = events[i]
<1> DEFINE j == CHOOSE j \in DOMAIN events : events[j].name = events[i].name
<1>1. j \in DOMAIN events /\ events[j].name = events[i].name
  OBVIOUS
<1>2. j = i
  <2> HIDE DEF j
  <2> QED BY <1>1 DEF Declared, NamedOnce
<1> QED BY <1>2 DEF EventOf

LEMMA BindingAt ==
  ASSUME Declared, NEW b \in BindingNames
  PROVE  \E i \in DOMAIN bindings : bindings[i].name = b /\ Binding(b) = bindings[i]
BY BindingIs DEF BindingNames

LEMMA EventAt ==
  ASSUME Declared, NEW e \in NamesOfEvents
  PROVE  \E i \in DOMAIN events : events[i].name = e /\ EventOf(e) = events[i]
BY EventIs DEF NamesOfEvents

(***************************************************************************)
(* Contracts, contract hooks and hooks of the module have different names, *)
(* except that a hook of the module may have that of a contract's hook.    *)
(***************************************************************************)
LEMMA NamesApart ==
  ASSUME Declared
  PROVE  /\ BindingNames \subseteq Names /\ NamesOfEvents \subseteq EventNames
         /\ BindingNames \cap EventNames = {} /\ BindingNames \cap NamesOfEvents = {}
         /\ \A t \in ModuleHookTypes : /\ moduleEvents[t] \in Seq(EventNames)
                                       /\ Range(moduleEvents[t]) \subseteq EventNames
                                       /\ BindingNames \cap Range(moduleEvents[t]) = {}
<1>1. BindingNames \subseteq Names /\ NamesOfEvents \subseteq EventNames
  BY FieldTypes
<1>2. Names \cap EventNames = {}
  BY BuilderAssumption DEF BuilderAssumption
<1>3. \A t \in ModuleHookTypes : moduleEvents[t] \in Seq(EventNames)
  BY DEF Declared, Typed
<1>4. \A t \in ModuleHookTypes : Range(moduleEvents[t]) \subseteq EventNames
  BY <1>3 DEF Range
<1> QED BY <1>1, <1>2, <1>3, <1>4

LEMMA TypesApart ==
  /\ Before \cap After = {} /\ (Before \cup After) \cap ModuleHookTypes = {}
  /\ "contract" \notin Before \cup After \cup ModuleHookTypes
  /\ \A t \in {"binding", "before", "after", "single", "deps", "check", "return"} : t \notin ElementTypes
  /\ "contract" \in ElementTypes /\ Before \subseteq ElementTypes /\ After \subseteq ElementTypes
  /\ ModuleHookTypes \subseteq ElementTypes
BY DEF Before, After, ModuleHookTypes, ElementTypes

LEMMA EventTypes ==
  ASSUME Declared, NEW e \in NamesOfEvents
  PROVE  /\ EventOf(e).name = e /\ EventOf(e).type \in Before \cup After
         /\ EventOf(e).deps \in Seq(BindingNames) /\ EventOf(e).usage \in Seq(BindingNames)
         /\ EventOf(e).eventDeps \in Seq(NamesOfEvents) /\ EventOf(e).eventUsage \in Seq(NamesOfEvents)
         /\ EventOf(e).deps # <<>> \/ EventOf(e).eventDeps # <<>>
<1>1. PICK i \in DOMAIN events : events[i].name = e /\ EventOf(e) = events[i]
  BY EventAt
<1>2. /\ events[i].type \in Before \cup After
      /\ events[i].deps \in Seq(Names) /\ events[i].usage \in Seq(Names)
      /\ events[i].eventDeps \in Seq(EventNames) /\ events[i].eventUsage \in Seq(EventNames)
  BY FieldTypes
<1>3. EventRefers(events[i])
  BY DEF Declared, EventsRefer
<1>4. events[i].deps \in Seq(BindingNames) /\ events[i].usage \in Seq(BindingNames)
  BY <1>2, <1>3, SeqRange DEF EventRefers
<1>5. events[i].eventDeps \in Seq(NamesOfEvents) /\ events[i].eventUsage \in Seq(NamesOfEvents)
  BY <1>2, <1>3, SeqRange DEF EventRefers
<1> QED BY <1>1, <1>2, <1>3, <1>4, <1>5 DEF EventRefers

LEMMA HookTypesOK ==
  ASSUME Declared, NEW b \in BindingNames, NEW t \in Before \cup After
  PROVE  Binding(b).hooks[t] \in Seq({h \in NamesOfEvents : EventOf(h).type = t})
<1>1. PICK i \in DOMAIN bindings : bindings[i].name = b /\ Binding(b) = bindings[i]
  BY BindingAt
<1>2. bindings[i].hooks[t] \in Seq(EventNames)
  BY FieldTypes
<1>3. ASSUME NEW h \in Range(bindings[i].hooks[t])
      PROVE  h \in NamesOfEvents /\ EventOf(h).type = t
  <2>1. PICK j \in DOMAIN events : events[j].name = h /\ events[j].type = t
    BY <1>3 DEF Declared, HooksAreEvents, IsEvent
  <2> QED BY <2>1, EventIs DEF NamesOfEvents
<1>4. Range(bindings[i].hooks[t]) \subseteq {h \in NamesOfEvents : EventOf(h).type = t}
  BY <1>3
<1> QED BY <1>1, <1>2, <1>4, SeqRange

\* The hooks of a binding, before and after its deployment.
LEMMA HooksOfBinding ==
  ASSUME Declared, NEW b \in BindingNames
  PROVE  /\ BeforeHooks(b) \in Seq({h \in NamesOfEvents : EventOf(h).type \in Before})
         /\ AfterHooks(b) \in Seq({h \in NamesOfEvents : EventOf(h).type \in After})
         /\ Range(BeforeHooks(b)) = UNION {Range(Binding(b).hooks[t]) : t \in Before}
         /\ Range(AfterHooks(b)) = UNION {Range(Binding(b).hooks[t]) : t \in After}
<1> DEFINE hooks == Binding(b).hooks
           B == {h \in NamesOfEvents : EventOf(h).type \in Before}
           A == {h \in NamesOfEvents : EventOf(h).type \in After}
<1>1. \A t \in Before \cup After : hooks[t] \in Seq({h \in NamesOfEvents : EventOf(h).type = t})
  BY HookTypesOK
<1>2. \A t \in Before : hooks[t] \in Seq(B)
  <2> SUFFICES ASSUME NEW t \in Before PROVE hooks[t] \in Seq(B)
    OBVIOUS
  <2> DEFINE H == {h \in NamesOfEvents : EventOf(h).type = t}
  <2>1. H \subseteq B
    OBVIOUS
  <2>2. hooks[t] \in Seq(H)
    BY <1>1
  <2> HIDE DEF H, B, hooks
  <2> QED BY <2>1, <2>2, SeqMono
<1>3. \A t \in After : hooks[t] \in Seq(A)
  <2> SUFFICES ASSUME NEW t \in After PROVE hooks[t] \in Seq(A)
    OBVIOUS
  <2> DEFINE H == {h \in NamesOfEvents : EventOf(h).type = t}
  <2>1. H \subseteq A
    OBVIOUS
  <2>2. hooks[t] \in Seq(H)
    BY <1>1
  <2> HIDE DEF H, A, hooks
  <2> QED BY <2>1, <2>2, SeqMono
<1> HIDE DEF A, B, hooks
<1>4. hooks["beforeCompile"] \in Seq(B) /\ hooks["afterCompile"] \in Seq(B) /\ hooks["beforeDeploy"] \in Seq(B)
  BY <1>2 DEF Before
<1>5. hooks["afterDeploy"] \in Seq(A) /\ hooks["onChange"] \in Seq(A)
  BY <1>3 DEF After
<1>6. /\ hooks["beforeCompile"] \o hooks["afterCompile"] \in Seq(B)
      /\ Range(hooks["beforeCompile"] \o hooks["afterCompile"])
           = Range(hooks["beforeCompile"]) \cup Range(hooks["afterCompile"])
  BY <1>4, ConcatOK
<1> DEFINE two == hooks["beforeCompile"] \o hooks["afterCompile"]
<1>7. BeforeHooks(b) = two \o hooks["beforeDeploy"]
  BY DEF BeforeHooks, hooks
<1> HIDE DEF two
<1>8. two \in Seq(B) /\ Range(two) = Range(hooks["beforeCompile"]) \cup Range(hooks["afterCompile"])
  BY <1>6 DEF two
<1>9. /\ BeforeHooks(b) \in Seq(B)
      /\ Range(BeforeHooks(b))
           = Range(hooks["beforeCompile"]) \cup Range(hooks["afterCompile"]) \cup Range(hooks["beforeDeploy"])
  BY <1>4, <1>7, <1>8, ConcatOK
<1>10. /\ AfterHooks(b) \in Seq(A)
       /\ Range(AfterHooks(b)) = Range(hooks["afterDeploy"]) \cup Range(hooks["onChange"])
  BY <1>5, ConcatOK DEF AfterHooks, hooks
<1>11. UNION {Range(hooks[t]) : t \in Before}
         = Range(hooks["beforeCompile"]) \cup Range(hooks["afterCompile"]) \cup Range(hooks["beforeDeploy"])
  BY DEF Before
<1>12. UNION {Range(hooks[t]) : t \in After} = Range(hooks["afterDeploy"]) \cup Range(hooks["onChange"])
  BY DEF After
<1> QED BY <1>9, <1>10, <1>11, <1>12 DEF hooks, A, B

\* What a binding refers to is declared.
LEMMA NeedsOfBinding ==
  ASSUME Declared, NEW b \in BindingNames
  PROVE  /\ ArgsOf(b) \in Seq(BindingNames) /\ LibsOf(b) \in Seq(BindingNames)
         /\ Binding(b).deployDeps \in Seq(BindingNames) /\ Binding(b).args \in Seq(Argument)
         /\ Binding(b).contractName \in Contracts
<1>1. PICK i \in DOMAIN bindings : bindings[i].name = b /\ Binding(b) = bindings[i]
  BY BindingAt
<1>2. /\ bindings[i].args \in Seq(Argument) /\ bindings[i].deployDeps \in Seq(Names)
      /\ bindings[i].contractName \in Contracts
  BY FieldTypes
<1>3. bindings[i].deployDeps \in Seq(BindingNames)
  BY <1>2, SeqRange DEF Declared, BindingsRefer
<1>4. Links[bindings[i].contractName] \in Seq(Contracts)
  BY <1>2, BuilderAssumption DEF BuilderAssumption
<1>5. LibsOf(b) \in Seq(Contracts \cap BindingNames)
  BY <1>1, <1>4, ThoseOK DEF LibsOf
<1>6. LibsOf(b) \in Seq(BindingNames)
  BY <1>5
<1> DEFINE args == bindings[i].args
           S == {arg \in Range(args) : arg.kind = "binding" /\ ~arg.array}
           bound == Those(args, S)
<1>7. bound \in Seq(Argument \cap S)
  <2> HIDE DEF S
  <2> QED BY <1>2, ThoseOK
<1>8. \A arg \in S : arg.name \in BindingNames
  BY DEF Declared, BindingsRefer, Range
<1>9. \A k \in DOMAIN bound : bound[k] \in S
  <2> HIDE DEF bound, S
  <2> QED BY <1>7
<1>10. ArgsOf(b) = [k \in DOMAIN bound |-> bound[k].name]
  BY <1>1 DEF ArgsOf
<1> HIDE DEF bound, S
<1>11. Len(bound) \in Nat /\ DOMAIN bound = 1 .. Len(bound)
  BY <1>7
<1>12. \A k \in DOMAIN bound : bound[k].name \in BindingNames
  BY <1>8, <1>9
<1>13. ArgsOf(b) \in Seq(BindingNames)
  BY <1>10, <1>11, <1>12
<1> QED BY <1>1, <1>2, <1>3, <1>6, <1>13

(***************************************************************************)
(* A hook is listed with the bindings that it depends on.                  *)
(***************************************************************************)
LEMMA DepsHaveHook ==
  ASSUME Declared, NEW e \in NamesOfEvents, NEW d \in Range(EventOf(e).deps)
  PROVE  e \in Range(Binding(d).hooks[EventOf(e).type])
<1>1. PICK j \in DOMAIN events : events[j].name = e /\ EventOf(e) = events[j]
  BY EventAt
<1>2. d \in BindingNames
  BY <1>1 DEF Declared, EventsRefer, EventRefers
<1>3. PICK i \in DOMAIN bindings : bindings[i].name = d /\ Binding(d) = bindings[i]
  BY <1>2, BindingAt
<1> QED BY <1>1, <1>3 DEF Declared, HooksListed

-----------------------------------------------------------------------------
(* The calls of the walk.                                                  *)

LEMMA ConcatAssoc ==
  ASSUME NEW T, NEW s \in Seq(T), NEW t \in Seq(T), NEW u \in Seq(T)
  PROVE  (s \o t) \o u = s \o (t \o u)
OBVIOUS

Dos == ElementTypes \cup {"binding", "before", "after", "single", "deps", "check", "return"}

LEMMA TaskTyped ==
  ASSUME NEW what \in Dos, NEW n \in Names \cup EventNames
  PROVE  Task(what, n) \in TaskRecord /\ Task(what, n).do = what /\ Task(what, n).name = n
BY DEF Task, TaskRecord, Dos

LEMMA EachOK ==
  ASSUME NEW what \in Dos, NEW names \in Seq(Names \cup EventNames)
  PROVE  /\ Each(what, names) \in Seq(TaskRecord)
         /\ Range(Each(what, names)) = {Task(what, n) : n \in Range(names)}
<1>1. \A i \in DOMAIN names : names[i] \in Names \cup EventNames
  OBVIOUS
<1>2. \A i \in DOMAIN names : Task(what, names[i]) \in TaskRecord
  BY <1>1, TaskTyped
<1>3. Len(names) \in Nat /\ DOMAIN names = 1 .. Len(names)
  OBVIOUS
<1>4. /\ DOMAIN Each(what, names) = DOMAIN names
      /\ \A i \in DOMAIN names : Each(what, names)[i] = Task(what, names[i])
      /\ Each(what, names) = [i \in DOMAIN Each(what, names) |-> Each(what, names)[i]]
  BY DEF Each
<1>5. Each(what, names) \in Seq(TaskRecord)
  BY <1>2, <1>3, <1>4, SeqIs
<1>6. Range(Each(what, names)) = {Task(what, n) : n \in Range(names)}
  BY <1>4 DEF Range
<1> QED BY <1>5, <1>6

(***************************************************************************)
(* Tasks that may be put before all others: what they need comes first.    *)
(***************************************************************************)
Sound(c) ==
  /\ c \in Seq(TaskRecord)
  /\ \A j \in DOMAIN c :
       /\ TaskOK(c[j])
       /\ c[j].do = "contract" => \A n \in Needs(c[j].name) : \E i \in 1 .. j - 1 : Brings(c[i], n)
       /\ c[j].do = "contract" => \A h \in Range(AfterHooks(c[j].name)) : \E i \in DOMAIN c : Brings(c[i], h)
       /\ c[j].do \in After => \A n \in AfterNeeds(c[j].name) : \E i \in 1 .. j - 1 : Brings(c[i], n)

\* Tasks that bring what the others need, and the others.
LEMMA SoundConcat ==
  ASSUME NEW p \in Seq(TaskRecord), NEW s \in Seq(TaskRecord),
         \A t \in Range(p) : TaskOK(t) /\ t.do # "contract" /\ t.do \notin After,
         \A t \in Range(s) :
            /\ TaskOK(t)
            /\ t.do = "contract" => \A n \in Needs(t.name) : \E u \in Range(p) : Brings(u, n)
            /\ t.do = "contract" => \A h \in Range(AfterHooks(t.name)) : \E u \in Range(s) : Brings(u, h)
            /\ t.do \in After => \A n \in AfterNeeds(t.name) : \E u \in Range(p) : Brings(u, n)
  PROVE  Sound(p \o s)
<1> DEFINE c == p \o s
<1>1. /\ c \in Seq(TaskRecord) /\ Len(c) = Len(p) + Len(s) /\ Len(p) \in Nat /\ Len(s) \in Nat
      /\ DOMAIN c = 1 .. Len(c) /\ DOMAIN p = 1 .. Len(p) /\ DOMAIN s = 1 .. Len(s)
      /\ \A i \in 1 .. Len(p) : c[i] = p[i]
      /\ \A i \in 1 .. Len(s) : c[Len(p) + i] = s[i]
      /\ \A i \in 1 .. Len(c) : i <= Len(p) \/ (i - Len(p) \in 1 .. Len(s) /\ c[i] = s[i - Len(p)])
  BY ConcatOK
<1> HIDE DEF c
<1>2. \A u \in Range(p) : \E i \in 1 .. Len(p) : c[i] = u
  BY <1>1 DEF Range
<1>3. \A u \in Range(s) : \E i \in DOMAIN c : c[i] = u
  <2> SUFFICES ASSUME NEW u \in Range(s) PROVE \E i \in DOMAIN c : c[i] = u
    OBVIOUS
  <2>1. PICK i \in 1 .. Len(s) : s[i] = u
    BY <1>1 DEF Range
  <2>2. Len(p) + i \in DOMAIN c /\ c[Len(p) + i] = u
    BY <1>1, <2>1
  <2> QED BY <2>2
<1> SUFFICES ASSUME NEW j \in DOMAIN c
             PROVE  /\ TaskOK(c[j])
                    /\ c[j].do = "contract" => \A n \in Needs(c[j].name) : \E i \in 1 .. j - 1 : Brings(c[i], n)
                    /\ c[j].do = "contract" =>
                         \A h \in Range(AfterHooks(c[j].name)) : \E i \in DOMAIN c : Brings(c[i], h)
                    /\ c[j].do \in After => \A n \in AfterNeeds(c[j].name) : \E i \in 1 .. j - 1 : Brings(c[i], n)
  BY <1>1 DEF Sound, c
<1>4. CASE j <= Len(p)
  <2>1. c[j] \in Range(p)
    BY <1>1, <1>4 DEF Range
  <2> QED BY <2>1
<1>5. CASE ~(j <= Len(p))
  <2>1. c[j] \in Range(s) /\ j \in Nat /\ j > Len(p)
    BY <1>1, <1>5 DEF Range
  <2>2. 1 .. Len(p) \subseteq 1 .. j - 1
    BY <1>1, <2>1
  <2>3. \A n : (\E u \in Range(p) : Brings(u, n)) => \E i \in 1 .. j - 1 : Brings(c[i], n)
    BY <1>2, <2>2
  <2>4. \A h : (\E u \in Range(s) : Brings(u, h)) => \E i \in DOMAIN c : Brings(c[i], h)
    BY <1>3
  <2> QED BY <2>1, <2>3, <2>4
<1> QED BY <1>4, <1>5

\* The calls that are made for a contract bring what it needs before it.
LEMMA ResolveBindingOK ==
  ASSUME Declared, NEW b \in BindingNames, NEW r \in WalkRecord
  PROVE  /\ Sound(ResolveBinding(r, b))
         /\ \E t \in Range(ResolveBinding(r, b)) : Brings(t, b)
<1> DEFINE p1 == Each("binding", ArgsOf(b))
           p2 == Each("binding", LibsOf(b))
           p3 == Each("binding", Binding(b).deployDeps)
           p4 == Each("before", BeforeHooks(b))
           q  == Each("after", AfterHooks(b))
           x  == Task("contract", b)
           y  == Return(r, b)
           T  == TaskRecord
<1>1. BindingNames \subseteq Names /\ NamesOfEvents \subseteq EventNames
  BY NamesApart
<1>2. \A s \in Seq(BindingNames) : s \in Seq(Names \cup EventNames)
  BY <1>1, SeqMono
<1>3. /\ ArgsOf(b) \in Seq(Names \cup EventNames) /\ LibsOf(b) \in Seq(Names \cup EventNames)
      /\ Binding(b).deployDeps \in Seq(Names \cup EventNames)
      /\ Range(ArgsOf(b)) \subseteq BindingNames /\ Range(LibsOf(b)) \subseteq BindingNames
      /\ Range(Binding(b).deployDeps) \subseteq BindingNames
  BY <1>2, NeedsOfBinding DEF Range
<1>4. /\ BeforeHooks(b) \in Seq(Names \cup EventNames)
      /\ \A h \in Range(BeforeHooks(b)) : h \in NamesOfEvents /\ EventOf(h).type \in Before
  <2>1. BeforeHooks(b) \in Seq({h \in NamesOfEvents : EventOf(h).type \in Before})
    BY HooksOfBinding
  <2>2. {h \in NamesOfEvents : EventOf(h).type \in Before} \subseteq Names \cup EventNames
    BY <1>1
  <2> QED BY <2>1, <2>2, SeqMono DEF Range
<1>5. /\ AfterHooks(b) \in Seq(Names \cup EventNames)
      /\ \A h \in Range(AfterHooks(b)) : h \in NamesOfEvents /\ EventOf(h).type \in After
  <2>1. AfterHooks(b) \in Seq({h \in NamesOfEvents : EventOf(h).type \in After})
    BY HooksOfBinding
  <2>2. {h \in NamesOfEvents : EventOf(h).type \in After} \subseteq Names \cup EventNames
    BY <1>1
  <2> QED BY <2>1, <2>2, SeqMono DEF Range
<1>6. /\ p1 \in Seq(T) /\ Range(p1) = {Task("binding", n) : n \in Range(ArgsOf(b))}
      /\ p2 \in Seq(T) /\ Range(p2) = {Task("binding", n) : n \in Range(LibsOf(b))}
      /\ p3 \in Seq(T) /\ Range(p3) = {Task("binding", n) : n \in Range(Binding(b).deployDeps)}
  BY <1>3, EachOK DEF Dos
<1>7. p4 \in Seq(T) /\ Range(p4) = {Task("before", h) : h \in Range(BeforeHooks(b))}
  BY <1>4, EachOK DEF Dos
<1>8. q \in Seq(T) /\ Range(q) = {Task("after", h) : h \in Range(AfterHooks(b))}
  BY <1>5, EachOK DEF Dos
<1>9. x \in T /\ y \in T /\ x.do = "contract" /\ x.name = b /\ y.do = "return" /\ y.name = b
  <2>1. Len(r.order) \in Nat
    BY DEF WalkRecord
  <2> QED BY <1>1, <2>1 DEF Task, Return, TaskRecord, ElementTypes
<1>10. ResolveBinding(r, b) = p1 \o p2 \o p3 \o p4 \o <<x>> \o q \o <<y>>
  BY DEF ResolveBinding
<1> HIDE DEF p1, p2, p3, p4, q, x, y, T
<1>11. <<x>> \in Seq(T) /\ <<y>> \in Seq(T) /\ Range(<<x>>) = {x} /\ Range(<<y>>) = {y}
  BY <1>9, ShortSeqs, OneRange
<1> DEFINE p12 == p1 \o p2
<1>12. p12 \in Seq(T) /\ Range(p12) = Range(p1) \cup Range(p2)
  BY <1>6, ConcatRange
<1> HIDE DEF p12
<1> DEFINE p123 == p12 \o p3
<1>13. p123 \in Seq(T) /\ Range(p123) = Range(p12) \cup Range(p3)
  BY <1>6, <1>12, ConcatRange
<1> HIDE DEF p123
<1> DEFINE p == p123 \o p4
<1>14. p \in Seq(T) /\ Range(p) = Range(p123) \cup Range(p4)
  BY <1>7, <1>13, ConcatRange
<1> DEFINE qy == q \o <<y>>
<1>15. qy \in Seq(T) /\ Range(qy) = Range(q) \cup {y}
  <2>1. <<y>> \in Seq(T) /\ Range(<<y>>) = {y}
    BY <1>11
  <2> DEFINE z == <<y>>
  <2> HIDE DEF z
  <2>2. z \in Seq(T) /\ Range(z) = {y}
    BY <2>1 DEF z
  <2>3. q \o z \in Seq(T) /\ Range(q \o z) = Range(q) \cup Range(z)
    BY <1>8, <2>2, ConcatRange
  <2> QED BY <2>2, <2>3 DEF z
<1> HIDE DEF qy
<1> DEFINE s == <<x>> \o qy
<1>16. s \in Seq(T) /\ Range(s) = {x, y} \cup Range(q)
  <2> DEFINE z == <<x>>
  <2>1. z \in Seq(T) /\ Range(z) = {x}
    BY <1>11
  <2> HIDE DEF z
  <2>2. z \o qy \in Seq(T) /\ Range(z \o qy) = Range(z) \cup Range(qy)
    BY <1>15, <2>1, ConcatRange
  <2> QED BY <1>15, <2>1, <2>2 DEF z
<1>17. ResolveBinding(r, b) = p \o s
  <2> HIDE DEF p
  <2>1. p \o <<x>> \in Seq(T)
    BY <1>11, <1>14, ConcatOK
  <2>2. ResolveBinding(r, b) = ((p \o <<x>>) \o q) \o <<y>>
    BY <1>10 DEF p, p12, p123
  <2>3. ((p \o <<x>>) \o q) \o <<y>> = (p \o <<x>>) \o (q \o <<y>>)
    BY <1>8, <1>11, <2>1, ConcatAssoc
  <2>4. (p \o <<x>>) \o qy = p \o s
    BY <1>11, <1>14, <1>15, ConcatAssoc
  <2> QED BY <2>2, <2>3, <2>4 DEF qy
<1> HIDE DEF p, s
<1>18. Range(p) = Range(p1) \cup Range(p2) \cup Range(p3) \cup Range(p4)
  BY <1>12, <1>13, <1>14
<1>19. \A t \in Range(p) : TaskOK(t) /\ t.do # "contract" /\ t.do \notin After
  BY <1>3, <1>4, <1>6, <1>7, <1>18 DEF Task, TaskOK, After
<1>20. \A n \in Needs(b) : \E u \in Range(p) : Brings(u, n)
  <2>1. \A n \in Range(ArgsOf(b)) \cup Range(LibsOf(b)) \cup Range(Binding(b).deployDeps) :
          Task("binding", n) \in Range(p) /\ Brings(Task("binding", n), n)
    BY <1>6, <1>18 DEF Brings, Task
  <2>2. \A n \in Range(BeforeHooks(b)) : Task("before", n) \in Range(p) /\ Brings(Task("before", n), n)
    BY <1>7, <1>18 DEF Brings, Task
  <2> QED BY <2>1, <2>2 DEF Needs
<1>21. \A h \in Range(AfterHooks(b)) : \E u \in Range(s) : Brings(u, h)
  <2>1. \A h \in Range(AfterHooks(b)) : Task("after", h) \in Range(s) /\ Brings(Task("after", h), h)
    BY <1>8, <1>16 DEF Brings, Task
  <2> QED BY <2>1
<1>22. TaskOK(x) /\ TaskOK(y)
  <2>1. Suits("contract", b)
    BY TypesApart DEF Suits
  <2> QED BY <1>9, <2>1 DEF TaskOK
<1>23. \A t \in Range(q) : TaskOK(t) /\ t.do = "after"
  BY <1>5, <1>8 DEF Task, TaskOK
<1>24. \A t \in Range(s) : TaskOK(t) /\ (t = x \/ (t.do # "contract" /\ t.do \notin After))
  BY <1>9, <1>16, <1>22, <1>23 DEF After
<1>25. x.do \notin After
  BY <1>9 DEF After
<1>26. Sound(p \o s)
  BY <1>9, <1>14, <1>16, <1>19, <1>20, <1>21, <1>24, <1>25, SoundConcat DEF T
<1>27. x \in Range(p \o s) /\ Brings(x, b)
  BY <1>9, <1>14, <1>16, ConcatOK DEF Brings
<1> QED BY <1>17, <1>26, <1>27

\* The calls that are made for a hook after a deployment bring what it needs.
LEMMA DependenciesOK ==
  ASSUME Declared, NEW e \in NamesOfEvents
  PROVE  /\ Dependencies(e) \in Seq(TaskRecord)
         /\ \A t \in Range(Dependencies(e)) : TaskOK(t) /\ t.do # "contract" /\ t.do \notin After
         /\ \A n \in AfterNeeds(e) : \E u \in Range(Dependencies(e)) : Brings(u, n)
<1> DEFINE p1 == Each("binding", EventOf(e).deps)
           p2 == Each("single", EventOf(e).eventDeps)
           p3 == Each("binding", EventOf(e).usage)
           T  == TaskRecord
<1>1. BindingNames \subseteq Names \cup EventNames /\ NamesOfEvents \subseteq Names \cup EventNames
  BY NamesApart
<1>2. /\ EventOf(e).deps \in Seq(BindingNames) /\ EventOf(e).usage \in Seq(BindingNames)
      /\ EventOf(e).eventDeps \in Seq(NamesOfEvents)
  BY EventTypes
<1>3. /\ EventOf(e).deps \in Seq(Names \cup EventNames) /\ EventOf(e).usage \in Seq(Names \cup EventNames)
      /\ EventOf(e).eventDeps \in Seq(Names \cup EventNames)
  BY <1>1, <1>2, SeqMono
<1>4. /\ Range(EventOf(e).deps) \subseteq BindingNames /\ Range(EventOf(e).usage) \subseteq BindingNames
      /\ Range(EventOf(e).eventDeps) \subseteq NamesOfEvents
  BY <1>2 DEF Range
<1>5. /\ p1 \in Seq(T) /\ Range(p1) = {Task("binding", n) : n \in Range(EventOf(e).deps)}
      /\ p2 \in Seq(T) /\ Range(p2) = {Task("single", n) : n \in Range(EventOf(e).eventDeps)}
      /\ p3 \in Seq(T) /\ Range(p3) = {Task("binding", n) : n \in Range(EventOf(e).usage)}
  BY <1>3, EachOK DEF Dos
<1>6. Dependencies(e) = p1 \o p2 \o p3
  BY DEF Dependencies
<1> HIDE DEF p1, p2, p3, T
<1> DEFINE p12 == p1 \o p2
<1>7. p12 \in Seq(T) /\ Range(p12) = Range(p1) \cup Range(p2)
  BY <1>5, ConcatRange
<1> HIDE DEF p12
<1> DEFINE p == p12 \o p3
<1>8. p \in Seq(T) /\ Range(p) = Range(p12) \cup Range(p3)
  BY <1>5, <1>7, ConcatRange
<1>9. Dependencies(e) = p
  BY <1>6 DEF p12
<1> HIDE DEF p
<1>10. Range(p) = Range(p1) \cup Range(p2) \cup Range(p3)
  BY <1>7, <1>8
<1>11. \A t \in Range(p) : TaskOK(t) /\ t.do # "contract" /\ t.do \notin After
  BY <1>4, <1>5, <1>10 DEF Task, TaskOK, After
<1>12. \A n \in Range(EventOf(e).deps) \cup Range(EventOf(e).usage) :
         Task("binding", n) \in Range(p) /\ Brings(Task("binding", n), n)
  BY <1>5, <1>10 DEF Brings, Task
<1>13. \A n \in Range(EventOf(e).eventDeps) : Task("single", n) \in Range(p) /\ Brings(Task("single", n), n)
  BY <1>5, <1>10 DEF Brings, Task
<1>14. \A n \in AfterNeeds(e) : \E u \in Range(p) : Brings(u, n)
  BY <1>12, <1>13 DEF AfterNeeds
<1> QED BY <1>8, <1>9, <1>11, <1>14 DEF T

LEMMA PutEventOK ==
  ASSUME Declared, NEW e \in NamesOfEvents
  PROVE  /\ PutEvent(e) \in TaskRecord /\ PutEvent(e).name = e /\ PutEvent(e).do = EventOf(e).type
         /\ TaskOK(PutEvent(e)) /\ PutEvent(e).do # "contract" /\ Brings(PutEvent(e), e)
         /\ Task("check", e) \in TaskRecord /\ TaskOK(Task("check", e))
         /\ Task("check", e).do = "check" /\ Task("check", e).name = e
<1>1. e \in Names \cup EventNames /\ EventOf(e).type \in Before \cup After
  BY NamesApart, EventTypes
<1>2. EventOf(e).type \in Dos /\ EventOf(e).type \in ElementTypes /\ EventOf(e).type \notin ModuleHookTypes
      /\ EventOf(e).type \notin {"contract", "deps", "check", "return"}
  BY <1>1 DEF Before, After, ElementTypes, Dos, ModuleHookTypes
<1>3. /\ PutEvent(e) \in TaskRecord /\ PutEvent(e).name = e /\ PutEvent(e).do = EventOf(e).type
      /\ Task("check", e) \in TaskRecord /\ Task("check", e).do = "check" /\ Task("check", e).name = e
  BY <1>1, <1>2, TaskTyped DEF PutEvent, Dos
<1>4. Suits(EventOf(e).type, e)
  BY <1>2 DEF Suits
<1> QED BY <1>2, <1>3, <1>4 DEF TaskOK, Brings

LEMMA AddAfterOK ==
  ASSUME Declared, NEW e \in NamesOfEvents
  PROVE  Sound(AddAfter(e)) /\ \E t \in Range(AddAfter(e)) : Brings(t, e)
<1> DEFINE p == Dependencies(e)
           x == Task("check", e)
           y == PutEvent(e)
           s == <<x, y>>
<1>1. /\ p \in Seq(TaskRecord)
      /\ \A t \in Range(p) : TaskOK(t) /\ t.do # "contract" /\ t.do \notin After
      /\ \A n \in AfterNeeds(e) : \E u \in Range(p) : Brings(u, n)
  BY DependenciesOK
<1>2. /\ x \in TaskRecord /\ TaskOK(x) /\ x.do = "check"
      /\ y \in TaskRecord /\ TaskOK(y) /\ y.name = e /\ y.do # "contract" /\ Brings(y, e)
  BY PutEventOK
<1>3. AddAfter(e) = p \o s
  BY DEF AddAfter
<1> HIDE DEF p, x, y
<1>4. s \in Seq(TaskRecord) /\ Range(s) = {x, y}
  BY <1>2, ShortSeqs, TwoRange
<1> HIDE DEF s
<1>5. x.do \notin After
  BY <1>2 DEF After
<1>6. Sound(p \o s)
  BY <1>1, <1>2, <1>4, <1>5, SoundConcat
<1>7. Range(p \o s) = Range(p) \cup Range(s)
  BY <1>1, <1>4, ConcatRange
<1> QED BY <1>2, <1>3, <1>4, <1>6, <1>7

LEMMA AddBeforeOK ==
  ASSUME Declared, NEW e \in NamesOfEvents, EventOf(e).type \in Before
  PROVE  Sound(AddBefore(e)) /\ \E t \in Range(AddBefore(e)) : Brings(t, e)
<1> DEFINE p == Each("deps", EventOf(e).eventDeps)
           x == Task("check", e)
           y == PutEvent(e)
           s == <<x, y>>
<1>1. NamesOfEvents \subseteq Names \cup EventNames
  BY NamesApart
<1>2. EventOf(e).eventDeps \in Seq(NamesOfEvents)
  BY EventTypes
<1>3. EventOf(e).eventDeps \in Seq(Names \cup EventNames) /\ Range(EventOf(e).eventDeps) \subseteq NamesOfEvents
  BY <1>1, <1>2, SeqMono DEF Range
<1>4. p \in Seq(TaskRecord) /\ Range(p) = {Task("deps", n) : n \in Range(EventOf(e).eventDeps)}
  BY <1>3, EachOK DEF Dos
<1>5. \A t \in Range(p) : TaskOK(t) /\ t.do # "contract" /\ t.do \notin After
  BY <1>3, <1>4 DEF Task, TaskOK, After
<1>6. /\ x \in TaskRecord /\ TaskOK(x) /\ x.do = "check"
      /\ y \in TaskRecord /\ TaskOK(y) /\ y.name = e /\ y.do # "contract" /\ Brings(y, e) /\ y.do \in Before
  BY PutEventOK
<1>7. AddBefore(e) = p \o s
  BY DEF AddBefore
<1> HIDE DEF p, x, y
<1>8. s \in Seq(TaskRecord) /\ Range(s) = {x, y}
  BY <1>6, ShortSeqs, TwoRange
<1> HIDE DEF s
<1>9. x.do \notin After /\ y.do \notin After
  BY <1>6 DEF After, Before
<1>10. Sound(p \o s)
  BY <1>4, <1>5, <1>6, <1>8, <1>9, SoundConcat
<1>11. Range(p \o s) = Range(p) \cup Range(s)
  BY <1>4, <1>8, ConcatRange
<1> QED BY <1>6, <1>7, <1>8, <1>10, <1>11

LEMMA ResolveSingleOK ==
  ASSUME Declared, NEW e \in NamesOfEvents
  PROVE  Sound(ResolveSingle(e)) /\ \E t \in Range(ResolveSingle(e)) : Brings(t, e)
<1> DEFINE d == Dependencies(e)
           u == Each("single", EventOf(e).eventUsage)
           y == PutEvent(e)
           s == <<y>>
<1>1. NamesOfEvents \subseteq Names \cup EventNames
  BY NamesApart
<1>2. /\ d \in Seq(TaskRecord)
      /\ \A t \in Range(d) : TaskOK(t) /\ t.do # "contract" /\ t.do \notin After
      /\ \A n \in AfterNeeds(e) : \E v \in Range(d) : Brings(v, n)
  BY DependenciesOK
<1>3. EventOf(e).eventUsage \in Seq(NamesOfEvents)
  BY EventTypes
<1>4. EventOf(e).eventUsage \in Seq(Names \cup EventNames) /\ Range(EventOf(e).eventUsage) \subseteq NamesOfEvents
  BY <1>1, <1>3, SeqMono DEF Range
<1>5. u \in Seq(TaskRecord) /\ Range(u) = {Task("single", n) : n \in Range(EventOf(e).eventUsage)}
  BY <1>4, EachOK DEF Dos
<1>6. \A t \in Range(u) : TaskOK(t) /\ t.do # "contract" /\ t.do \notin After
  BY <1>4, <1>5 DEF Task, TaskOK, After
<1>7. y \in TaskRecord /\ TaskOK(y) /\ y.name = e /\ y.do # "contract" /\ Brings(y, e)
  BY PutEventOK
<1>8. ResolveSingle(e) = d \o u \o s
  BY DEF ResolveSingle
<1> HIDE DEF d, u, y
<1> DEFINE p == d \o u
<1>9. p \in Seq(TaskRecord) /\ Range(p) = Range(d) \cup Range(u)
  BY <1>2, <1>5, ConcatRange
<1>10. ResolveSingle(e) = p \o s
  BY <1>8
<1> HIDE DEF p
<1>11. s \in Seq(TaskRecord) /\ Range(s) = {y}
  BY <1>7, ShortSeqs, OneRange
<1> HIDE DEF s
<1>12. Sound(p \o s)
  BY <1>2, <1>6, <1>7, <1>9, <1>11, SoundConcat
<1>13. Range(p \o s) = Range(p) \cup Range(s)
  BY <1>9, <1>11, ConcatRange
<1> QED BY <1>7, <1>10, <1>11, <1>12, <1>13

LEMMA DepsOK ==
  ASSUME Declared, NEW e \in NamesOfEvents
  PROVE  Sound(Each("binding", EventOf(e).deps))
<1> DEFINE c == Each("binding", EventOf(e).deps)
<1>1. BindingNames \subseteq Names \cup EventNames
  BY NamesApart
<1>2. EventOf(e).deps \in Seq(BindingNames)
  BY EventTypes
<1>3. EventOf(e).deps \in Seq(Names \cup EventNames) /\ Range(EventOf(e).deps) \subseteq BindingNames
  BY <1>1, <1>2, SeqMono DEF Range
<1>4. c \in Seq(TaskRecord) /\ Range(c) = {Task("binding", n) : n \in Range(EventOf(e).deps)}
  BY <1>3, EachOK DEF Dos
<1> HIDE DEF c
<1>5. \A t \in Range(c) : TaskOK(t) /\ t.do # "contract" /\ t.do \notin After
  BY <1>3, <1>4 DEF Task, TaskOK, After
<1>6. \A j \in DOMAIN c : c[j] \in Range(c)
  BY DEF Range
<1>7. Sound(c)
  BY <1>4, <1>5, <1>6 DEF Sound
<1> QED BY <1>7 DEF c

(***************************************************************************)
(* Whatever task is done next, its calls are sound, and bring what it      *)
(* brings.                                                                 *)
(***************************************************************************)
LEMMA CallsSound ==
  ASSUME Declared, NEW r \in WalkRecord, NEW t \in TaskRecord, TaskOK(t), t.do \notin ElementTypes
  PROVE  /\ Sound(Expansion(r, t))
         /\ \A n : Brings(t, n) => Has(r, n) \/ \E u \in Range(Expansion(r, t)) : Brings(u, n)
<1>1. t.do \in {"binding", "before", "after", "single", "deps", "check", "return"}
  BY DEF TaskRecord
<1>2. \A n : Brings(t, n) => n = t.name /\ t.do \in {"binding", "before", "after", "single"}
  BY <1>1 DEF Brings
<1>3. ~Suits(t.do, t.name)
  BY DEF Suits
<1>4. Sound(<<>>)
  BY DEF Sound
<1>5. CASE t.do = "binding" /\ ~Has(r, t.name)
  <2>1. t.name \in BindingNames
    BY <1>3, <1>5 DEF TaskOK
  <2>2. Expansion(r, t) = ResolveBinding(r, t.name)
    BY <1>5 DEF Expansion
  <2> QED BY <1>2, <2>1, <2>2, ResolveBindingOK
<1>6. CASE t.do = "before" /\ ~Has(r, t.name)
  <2>1. t.name \in NamesOfEvents /\ EventOf(t.name).type \in Before
    BY <1>3, <1>6 DEF TaskOK
  <2>2. Expansion(r, t) = AddBefore(t.name)
    BY <1>6 DEF Expansion
  <2> QED BY <1>2, <2>1, <2>2, AddBeforeOK
<1>7. CASE t.do = "single" /\ ~Has(r, t.name)
  <2>1. t.name \in NamesOfEvents
    BY <1>3, <1>7 DEF TaskOK
  <2>2. Expansion(r, t) = ResolveSingle(t.name)
    BY <1>7 DEF Expansion
  <2> QED BY <1>2, <2>1, <2>2, ResolveSingleOK
<1>8. CASE t.do = "after"
  <2>1. t.name \in NamesOfEvents
    BY <1>3, <1>8 DEF TaskOK
  <2>2. Expansion(r, t) = AddAfter(t.name)
    BY <1>8 DEF Expansion
  <2> QED BY <1>2, <2>1, <2>2, AddAfterOK
<1>9. CASE t.do = "deps"
  <2>1. t.name \in NamesOfEvents
    BY <1>3, <1>9 DEF TaskOK
  <2>2. Expansion(r, t) = Each("binding", EventOf(t.name).deps)
    BY <1>9 DEF Expansion
  <2> QED BY <1>2, <1>9, <2>1, <2>2, DepsOK
<1>10. CASE t.do \in {"check", "return"} \/ (t.do \in {"binding", "before", "single"} /\ Has(r, t.name))
  <2>1. Expansion(r, t) = <<>>
    BY <1>10 DEF Expansion
  <2> QED BY <1>2, <1>4, <1>10, <2>1
<1> QED BY <1>1, <1>5, <1>6, <1>7, <1>8, <1>9, <1>10

-----------------------------------------------------------------------------
(* The steps of the walk.                                                  *)

(***************************************************************************)
(* The head and the tail of what is to be done.                            *)
(***************************************************************************)
LEMMA HeadTail ==
  ASSUME NEW T, NEW s \in Seq(T), s # <<>>
  PROVE  /\ Len(s) \in Nat \ {0} /\ DOMAIN s = 1 .. Len(s)
         /\ Head(s) = s[1] /\ Head(s) \in T /\ 1 \in DOMAIN s
         /\ Tail(s) \in Seq(T) /\ Len(Tail(s)) = Len(s) - 1 /\ DOMAIN Tail(s) = 1 .. Len(s) - 1
         /\ \A i \in 1 .. Len(s) - 1 : Tail(s)[i] = s[i + 1]
<1>1. Len(s) \in Nat \ {0} /\ 1 \in DOMAIN s /\ s[1] \in T
  BY NonEmpty
<1>2. Head(s) = s[1]
  BY <1>1
<1>3. Tail(s) \in Seq(T) /\ Len(Tail(s)) = Len(s) - 1
  BY <1>1
<1>4. \A i \in 1 .. Len(s) - 1 : Tail(s)[i] = s[i + 1]
  BY <1>1
<1> QED BY <1>1, <1>2, <1>3, <1>4

\* The types of a walk.
LEMMA WalkFields ==
  ASSUME NEW r \in WalkRecord
  PROVE  /\ r.order \in Seq(ElementRecord) /\ r.todo \in Seq(TaskRecord) /\ r.error \in Errors \cup {Nothing}
         /\ Len(r.order) \in Nat /\ DOMAIN r.order = 1 .. Len(r.order)
         /\ Len(r.todo) \in Nat /\ DOMAIN r.todo = 1 .. Len(r.todo)
<1>1. r.order \in Seq(ElementRecord) /\ r.todo \in Seq(TaskRecord) /\ r.error \in Errors \cup {Nothing}
  BY DEF WalkRecord
<1>2. Len(r.order) \in Nat /\ DOMAIN r.order = 1 .. Len(r.order)
  BY <1>1
<1>3. Len(r.todo) \in Nat /\ DOMAIN r.todo = 1 .. Len(r.todo)
  BY <1>1
<1> QED BY <1>1, <1>2, <1>3

(***************************************************************************)
(* Where the elements of c and t are in u, which has c in the place of the *)
(* first of t.                                                             *)
(***************************************************************************)
Inserted(u, c, t) ==
  /\ Len(u) = Len(c) + Len(t) - 1 /\ DOMAIN u = 1 .. Len(c) + Len(t) - 1
  /\ \A i \in 1 .. Len(c) : u[i] = c[i]
  /\ \A i \in 2 .. Len(t) : u[Len(c) + i - 1] = t[i]
  /\ \A j \in 1 .. Len(c) + Len(t) - 1 : j <= Len(c) \/ (j - Len(c) + 1 \in 2 .. Len(t) /\ u[j] = t[j - Len(c) + 1])

LEMMA TailConcat ==
  ASSUME NEW T, NEW c \in Seq(T), NEW t \in Seq(T), t # <<>>
  PROVE  c \o Tail(t) \in Seq(T) /\ Inserted(c \o Tail(t), c, t)
<1> DEFINE N == Len(c)
           M == Len(t)
           tail == Tail(t)
           u == c \o tail
<1>1. M \in Nat \ {0} /\ Len(tail) = M - 1 /\ \A i \in 1 .. M - 1 : tail[i] = t[i + 1]
  BY HeadTail
<1>2. N \in Nat
  OBVIOUS
<1>3. tail \in Seq(T)
  BY HeadTail
<1> HIDE DEF tail
<1>4. /\ u \in Seq(T) /\ Len(u) = N + Len(tail)
      /\ \A i \in 1 .. N : u[i] = c[i]
      /\ \A i \in 1 .. Len(tail) : u[N + i] = tail[i]
      /\ \A i \in 1 .. Len(u) : i <= N \/ (i - N \in 1 .. Len(tail) /\ u[i] = tail[i - N])
  BY <1>3, ConcatOK
<1>5. DOMAIN u = 1 .. Len(u)
  BY <1>4
<1> HIDE DEF u, N, M
<1>6. Len(u) = N + M - 1
  BY <1>1, <1>2, <1>4
<1>7. \A i \in 2 .. M : u[N + i - 1] = t[i]
  <2> SUFFICES ASSUME NEW i \in 2 .. M PROVE u[N + i - 1] = t[i]
    OBVIOUS
  <2>1. i - 1 \in 1 .. M - 1 /\ N + (i - 1) = N + i - 1 /\ (i - 1) + 1 = i
    BY <1>1, <1>2
  <2>2. u[N + (i - 1)] = tail[i - 1] /\ tail[i - 1] = t[(i - 1) + 1]
    BY <1>1, <1>4, <2>1
  <2> QED BY <2>1, <2>2
<1>8. \A j \in 1 .. N + M - 1 : j <= N \/ (j - N + 1 \in 2 .. M /\ u[j] = t[j - N + 1])
  <2> SUFFICES ASSUME NEW j \in 1 .. N + M - 1, ~(j <= N)
               PROVE  j - N + 1 \in 2 .. M /\ u[j] = t[j - N + 1]
    OBVIOUS
  <2>1. j - N \in 1 .. M - 1 /\ u[j] = tail[j - N]
    BY <1>1, <1>4, <1>6
  <2>2. j - N + 1 \in 2 .. M
    BY <1>1, <1>2, <2>1
  <2>3. tail[j - N] = t[j - N + 1]
    BY <1>1, <2>1
  <2> QED BY <2>1, <2>2, <2>3
<1> QED BY <1>4, <1>5, <1>6, <1>7, <1>8 DEF Inserted, N, M, u, tail

(***************************************************************************)
(* Sound calls take the place of a task.                                   *)
(***************************************************************************)
LEMMA InsertOK ==
  ASSUME NEW r \in WalkRecord, WalkOK(r), r.todo # <<>>,
         NEW c, Sound(c),
         \A n : Brings(r.todo[1], n) => Has(r, n) \/ \E u \in Range(c) : Brings(u, n),
         NEW s \in WalkRecord, s.order = r.order, Inserted(s.todo, c, r.todo)
  PROVE  WalkOK(s)
<1> DEFINE N == Len(c)
           M == Len(r.todo)
<1>1. M \in Nat \ {0} /\ DOMAIN r.todo = 1 .. M
  BY HeadTail, WalkFields
<1>2. c \in Seq(TaskRecord)
  BY DEF Sound
<1>3. N \in Nat /\ DOMAIN c = 1 .. N
  BY <1>2
<1>4. /\ Len(s.todo) = N + M - 1 /\ DOMAIN s.todo = 1 .. N + M - 1
      /\ \A i \in 1 .. N : s.todo[i] = c[i]
      /\ \A i \in 2 .. M : s.todo[N + i - 1] = r.todo[i]
      /\ \A j \in 1 .. N + M - 1 : j <= N \/ (j - N + 1 \in 2 .. M /\ s.todo[j] = r.todo[j - N + 1])
  BY DEF Inserted
<1> HIDE DEF N, M
<1>5. \A i \in 2 .. M : N + i - 1 \in DOMAIN s.todo /\ s.todo[N + i - 1] = r.todo[i]
  BY <1>1, <1>3, <1>4
<1>6. \A j \in DOMAIN s.todo : j <= N \/ (j - N + 1 \in 2 .. M /\ s.todo[j] = r.todo[j - N + 1])
  BY <1>4
<1>7. \A n : Has(s, n) <=> Has(r, n)
  BY DEF Has
<1>8. \A u \in Range(c) : \E k \in 1 .. N : s.todo[k] = u
  BY <1>3, <1>4 DEF Range
<1>9. ASSUME NEW n, NEW j \in 2 .. M + 1, Will(r, n, j)
      PROVE  Will(s, n, N + j - 1)
  <2>1. CASE Has(r, n)
    BY <1>7, <2>1 DEF Will
  <2>2. CASE Brings(r.todo[1], n) /\ ~Has(r, n)
    <3>1. PICK u \in Range(c) : Brings(u, n)
      BY <1>1, <2>2
    <3>2. PICK k \in 1 .. N : s.todo[k] = u
      BY <1>8
    <3>3. k \in 1 .. (N + j - 1) - 1
      BY <1>1, <1>3
    <3> QED BY <3>1, <3>2, <3>3 DEF Will
  <2>3. CASE \E i \in 2 .. j - 1 : Brings(r.todo[i], n)
    <3>1. PICK i \in 2 .. j - 1 : Brings(r.todo[i], n)
      BY <2>3
    <3>2. i \in 2 .. M
      BY <1>1
    <3>3. N + i - 1 \in 1 .. (N + j - 1) - 1
      BY <1>1, <1>3
    <3> QED BY <1>5, <3>1, <3>2, <3>3 DEF Will
  <2>4. \A i \in 1 .. j - 1 : i = 1 \/ i \in 2 .. j - 1
    OBVIOUS
  <2> QED BY <1>9, <2>1, <2>2, <2>3, <2>4 DEF Will
<1>10. AtEnd(s) = N + M /\ AtEnd(r) = M + 1
  BY <1>1, <1>3, <1>4 DEF AtEnd, M
<1>11. \A n : Will(r, n, AtEnd(r)) => Will(s, n, AtEnd(s))
  <2> SUFFICES ASSUME NEW n, Will(r, n, AtEnd(r)) PROVE Will(s, n, AtEnd(s))
    OBVIOUS
  <2>1. M + 1 \in 2 .. M + 1 /\ N + (M + 1) - 1 = N + M
    BY <1>1, <1>3
  <2> QED BY <1>9, <1>10, <2>1
<1>12. \A n : \A j \in 1 .. N + 1 : (\E i \in 1 .. j - 1 : Brings(c[i], n)) => Will(s, n, j)
  <2> SUFFICES ASSUME NEW n, NEW j \in 1 .. N + 1, NEW i \in 1 .. j - 1, Brings(c[i], n) PROVE Will(s, n, j)
    OBVIOUS
  <2>1. s.todo[i] = c[i]
    BY <1>3, <1>4
  <2> QED BY <2>1 DEF Will
<1>13. TasksInOrder(s)
  <2> SUFFICES ASSUME NEW j \in DOMAIN s.todo
               PROVE  /\ TaskOK(s.todo[j])
                      /\ s.todo[j].do = "contract" => \A n \in Needs(s.todo[j].name) : Will(s, n, j)
                      /\ s.todo[j].do \in After => \A n \in AfterNeeds(s.todo[j].name) : Will(s, n, j)
    BY DEF TasksInOrder
  <2>1. CASE j <= N
    <3>1. j \in DOMAIN c /\ s.todo[j] = c[j] /\ j \in 1 .. N + 1
      BY <1>3, <1>4, <2>1
    <3> QED BY <1>12, <3>1 DEF Sound
  <2>2. CASE ~(j <= N)
    <3>1. j - N + 1 \in 2 .. M /\ s.todo[j] = r.todo[j - N + 1]
      BY <1>6, <2>2
    <3> DEFINE i == j - N + 1
    <3>2. j \in Nat
      BY <1>1, <1>3, <1>4
    <3>3. i \in 2 .. M /\ s.todo[j] = r.todo[i]
      BY <3>1
    <3>4. N + i - 1 = j
      BY <1>3, <3>2
    <3> HIDE DEF i
    <3>5. i \in 2 .. M + 1 /\ N + i - 1 = j /\ i \in DOMAIN r.todo /\ s.todo[j] = r.todo[i]
      BY <1>1, <3>3, <3>4
    <3>6. \A n : Will(r, n, i) => Will(s, n, j)
      BY <1>9, <3>5
    <3> QED BY <3>5, <3>6 DEF WalkOK, TasksInOrder
  <2> QED BY <2>1, <2>2
<1>14. HooksFollow(s)
  <2> SUFFICES ASSUME NEW b \in BindingNames,
                      Has(s, b) \/ (\E j \in DOMAIN s.todo : s.todo[j].do = "contract" /\ s.todo[j].name = b),
                      NEW h \in Range(AfterHooks(b))
               PROVE  Will(s, h, AtEnd(s))
    BY DEF HooksFollow
  <2>1. CASE Has(s, b)
    BY <1>7, <1>11, <2>1 DEF WalkOK, HooksFollow
  <2>2. ASSUME NEW j \in DOMAIN s.todo, s.todo[j].do = "contract", s.todo[j].name = b
        PROVE  Will(s, h, AtEnd(s))
    <3>1. CASE j <= N
      <4>1. j \in DOMAIN c /\ s.todo[j] = c[j]
        BY <1>3, <1>4, <3>1
      <4>2. PICK i \in DOMAIN c : Brings(c[i], h)
        BY <2>2, <4>1 DEF Sound
      <4>3. i \in 1 .. AtEnd(s) - 1 /\ s.todo[i] = c[i]
        BY <1>1, <1>3, <1>4, <1>10
      <4> QED BY <4>2, <4>3 DEF Will
    <3>2. CASE ~(j <= N)
      <4>1. j - N + 1 \in DOMAIN r.todo /\ s.todo[j] = r.todo[j - N + 1]
        BY <1>1, <1>6, <3>2
      <4> QED BY <1>11, <2>2, <4>1 DEF WalkOK, HooksFollow
    <3> QED BY <3>1, <3>2
  <2> QED BY <2>1, <2>2
<1>15. AllComes(s)
  BY <1>11 DEF WalkOK, AllComes
<1>16. NamedOnce(s.order) /\ Ordered(s)
  <2>1. s.order = r.order /\ NamedOnce(r.order) /\ Ordered(r)
    BY DEF WalkOK
  <2>2. \A p, names : Earlier(s, p, names) <=> Earlier(r, p, names)
    BY <2>1 DEF Earlier
  <2>3. Ordered(s)
    BY <2>1, <2>2 DEF Ordered
  <2> QED BY <2>1, <2>3
<1> QED BY <1>13, <1>14, <1>15, <1>16 DEF WalkOK

(***************************************************************************)
(* What an assignment to moduleState changes in the order.                 *)
(***************************************************************************)
LEMMA PutFacts ==
  ASSUME NEW r \in WalkRecord, NEW n \in Names \cup EventNames, NEW type \in ElementTypes
  PROVE  /\ Put(r, n, type) \in WalkRecord
         /\ Put(r, n, type).todo = r.todo /\ Put(r, n, type).error = r.error
         /\ \A p \in DOMAIN r.order :
              /\ p \in DOMAIN Put(r, n, type).order
              /\ Put(r, n, type).order[p].name = r.order[p].name
              /\ \/ Put(r, n, type).order[p] = r.order[p]
                 \/ r.order[p].name = n /\ Put(r, n, type).order[p] = [name |-> n, type |-> type]
         /\ \A p \in DOMAIN Put(r, n, type).order :
              \/ p \in DOMAIN r.order
              \/ /\ p = Len(r.order) + 1 /\ ~Has(r, n)
                 /\ Put(r, n, type).order[p] = [name |-> n, type |-> type]
         /\ Has(Put(r, n, type), n)
<1> DEFINE x == [name |-> n, type |-> type]
           order == IF Has(r, n) THEN [i \in DOMAIN r.order |-> IF r.order[i].name = n THEN x ELSE r.order[i]]
                                 ELSE Append(r.order, x)
           s == Put(r, n, type)
<1>1. x \in ElementRecord /\ x.name = n
  BY DEF ElementRecord
<1>2. r.order \in Seq(ElementRecord) /\ Len(r.order) \in Nat /\ DOMAIN r.order = 1 .. Len(r.order)
  BY WalkFields
<1>3. s = [r EXCEPT !.order = order]
  BY DEF Put
<1> HIDE DEF x, s
<1>4. ASSUME Has(r, n)
      PROVE  /\ order \in Seq(ElementRecord) /\ DOMAIN order = DOMAIN r.order
             /\ \A p \in DOMAIN r.order : order[p] = IF r.order[p].name = n THEN x ELSE r.order[p]
  <2>1. order = [i \in DOMAIN r.order |-> IF r.order[i].name = n THEN x ELSE r.order[i]]
    BY <1>4
  <2>2. \A i \in DOMAIN r.order : r.order[i] \in ElementRecord
    BY <1>2
  <2> HIDE DEF order
  <2>3. DOMAIN order = 1 .. Len(r.order) /\ order = [i \in DOMAIN order |-> order[i]]
        /\ \A i \in 1 .. Len(r.order) : order[i] \in ElementRecord
    BY <1>1, <1>2, <2>1, <2>2
  <2>4. order \in Seq(ElementRecord)
    BY <1>2, <2>3, SeqIs
  <2> QED BY <2>1, <2>4
<1>5. ASSUME ~Has(r, n)
      PROVE  /\ order \in Seq(ElementRecord) /\ DOMAIN order = 1 .. Len(r.order) + 1
             /\ order[Len(r.order) + 1] = x
             /\ \A p \in DOMAIN r.order : order[p] = r.order[p]
  BY <1>1, <1>2, <1>5
<1> HIDE DEF order
<1>6. s \in WalkRecord /\ s.order = order /\ s.todo = r.todo /\ s.error = r.error
  BY <1>3, <1>4, <1>5 DEF WalkRecord
<1>7. CASE Has(r, n)
  <2>1. PICK p \in DOMAIN r.order : r.order[p].name = n
    BY <1>7 DEF Has
  <2>2. Has(s, n)
    BY <1>1, <1>4, <1>6, <1>7, <2>1 DEF Has
  <2> QED BY <1>1, <1>4, <1>6, <1>7, <2>2 DEF x, s
<1>8. CASE ~Has(r, n)
  <2>1. Has(s, n)
    BY <1>1, <1>2, <1>5, <1>6, <1>8 DEF Has
  <2>2. \A p \in DOMAIN order : p \in DOMAIN r.order \/ p = Len(r.order) + 1
    BY <1>2, <1>5, <1>8
  <2>3. DOMAIN r.order \subseteq DOMAIN order
    BY <1>2, <1>5, <1>8
  <2> QED BY <1>1, <1>5, <1>6, <1>8, <2>1, <2>2, <2>3 DEF x, s
<1> QED BY <1>7, <1>8


(***************************************************************************)
(* The type of an element follows from its name, unless a hook of the      *)
(* module has the name of a contract's hook.                               *)
(***************************************************************************)
LEMMA SuitsName ==
  ASSUME Declared, NEW n, NEW type, NEW other, Suits(type, n), Suits(other, n)
  PROVE  /\ n \in BindingNames => type = "contract"
         /\ type = "contract" => other = "contract"
         /\ type \in After /\ ~Shadowed(EventOf(n)) => other = type
         /\ type \in Before \cup After => n \in NamesOfEvents
<1>1. /\ \A t \in ModuleHookTypes : BindingNames \cap Range(moduleEvents[t]) = {}
      /\ BindingNames \cap NamesOfEvents = {}
  BY NamesApart
<1>2. \A t \in ElementTypes : t = "contract" \/ t \in Before \cup After \/ t \in ModuleHookTypes
  BY DEF ElementTypes
<1>3. /\ "contract" \notin Before \cup After \cup ModuleHookTypes
      /\ (Before \cup After) \cap ModuleHookTypes = {}
  BY TypesApart
<1>4. ASSUME NEW ty, Suits(ty, n), n \in BindingNames
      PROVE  ty = "contract"
  BY <1>1, <1>2, <1>4 DEF Suits
<1>5. type = "contract" => n \in BindingNames
  BY DEF Suits
<1>6. ASSUME type \in After, ~Shadowed(EventOf(n))
      PROVE  other = type
  <2>1. n \in NamesOfEvents /\ EventOf(n).type = type /\ EventOf(n).name = n
    BY <1>6, EventTypes DEF Suits
  <2>2. other # "contract"
    BY <1>1, <2>1 DEF Suits
  <2>3. other \notin ModuleHookTypes
    BY <1>6, <2>1 DEF Suits, Shadowed
  <2> QED BY <1>2, <2>1, <2>2, <2>3 DEF Suits
<1>7. type \in Before \cup After => n \in NamesOfEvents
  BY DEF Suits
<1> QED BY <1>4, <1>5, <1>6, <1>7

(***************************************************************************)
(* An element that is assigned after what it needs keeps the order.        *)
(***************************************************************************)
LEMMA PutOrdered ==
  ASSUME Declared, NEW r \in WalkRecord, NamedOnce(r.order), Ordered(r),
         NEW n \in Names \cup EventNames, NEW type, Suits(type, n),
         type = "contract" => \A m \in Needs(n) : Has(r, m),
         type \in After => \A m \in AfterNeeds(n) : Has(r, m)
  PROVE  NamedOnce(Put(r, n, type).order) /\ Ordered(Put(r, n, type))
<1> DEFINE s == Put(r, n, type)
           L == Len(r.order)
<1>1. type \in ElementTypes
  BY DEF Suits
<1>2. /\ \A p \in DOMAIN r.order :
              /\ p \in DOMAIN s.order
              /\ s.order[p].name = r.order[p].name
              /\ \/ s.order[p] = r.order[p]
                 \/ r.order[p].name = n /\ s.order[p] = [name |-> n, type |-> type]
      /\ \A p \in DOMAIN s.order :
              \/ p \in DOMAIN r.order
              \/ p = L + 1 /\ ~Has(r, n) /\ s.order[p] = [name |-> n, type |-> type]
  BY <1>1, PutFacts
<1>3. L \in Nat /\ DOMAIN r.order = 1 .. L
  BY WalkFields
<1> HIDE DEF s, L
<1>4. NamedOnce(s.order)
  <2>1. \A i, j \in DOMAIN r.order : r.order[i].name = r.order[j].name => i = j
    BY DEF NamedOnce
  <2>2. ~Has(r, n) => \A i \in DOMAIN r.order : r.order[i].name # n
    BY DEF Has
  <2> QED BY <1>2, <2>1, <2>2 DEF NamedOnce
<1>5. \A p \in DOMAIN r.order : \A names : Earlier(r, p, names) => Earlier(s, p, names)
  <2> SUFFICES ASSUME NEW p \in DOMAIN r.order, NEW names, NEW m \in names,
                      NEW q \in 1 .. p - 1, r.order[q].name = m
               PROVE  \E k \in 1 .. p - 1 : s.order[k].name = m
    BY DEF Earlier
  <2>1. q \in DOMAIN r.order
    BY <1>3
  <2> QED BY <1>2, <2>1
<1>6. \A names : (\A m \in names : Has(r, m)) => Earlier(s, L + 1, names)
  <2> SUFFICES ASSUME NEW names, NEW m \in names, Has(r, m)
               PROVE  \E k \in 1 .. (L + 1) - 1 : s.order[k].name = m
    BY DEF Earlier
  <2>1. PICK q \in DOMAIN r.order : r.order[q].name = m
    BY DEF Has
  <2>2. q \in 1 .. (L + 1) - 1
    BY <1>3
  <2> QED BY <1>2, <2>1, <2>2
<1>7. Ordered(s)
  <2> SUFFICES ASSUME NEW p \in DOMAIN s.order
               PROVE  /\ Suits(s.order[p].type, s.order[p].name)
                      /\ s.order[p].type = "contract" => Earlier(s, p, Needs(s.order[p].name))
                      /\ s.order[p].type \in After /\ ~Shadowed(EventOf(s.order[p].name)) =>
                           Earlier(s, p, AfterNeeds(s.order[p].name))
    BY DEF Ordered
  <2>1. CASE p \in DOMAIN r.order /\ s.order[p] = r.order[p]
    BY <1>5, <2>1 DEF Ordered
  <2>2. CASE p \in DOMAIN r.order /\ r.order[p].name = n /\ s.order[p] = [name |-> n, type |-> type]
    <3>1. s.order[p].name = n /\ s.order[p].type = type
      BY <2>2
    <3>2. /\ Suits(r.order[p].type, n)
          /\ r.order[p].type = "contract" => Earlier(r, p, Needs(n))
          /\ r.order[p].type \in After /\ ~Shadowed(EventOf(n)) => Earlier(r, p, AfterNeeds(n))
      BY <2>2 DEF Ordered
    <3>3. /\ type = "contract" => r.order[p].type = "contract"
          /\ type \in After /\ ~Shadowed(EventOf(n)) => r.order[p].type = type
      BY <3>2, SuitsName
    <3> QED BY <1>5, <2>2, <3>1, <3>2, <3>3
  <2>3. CASE p = L + 1 /\ s.order[p] = [name |-> n, type |-> type]
    <3>1. s.order[p].name = n /\ s.order[p].type = type
      BY <2>3
    <3> QED BY <1>6, <2>3, <3>1
  <2> QED BY <1>2, <2>1, <2>2, <2>3
<1> QED BY <1>4, <1>7 DEF s

\* An assignment to moduleState keeps the walk in order.
LEMMA PutOK ==
  ASSUME Declared, NEW r \in WalkRecord, WalkOK(r), r.todo # <<>>,
         r.todo[1].do \in ElementTypes
  PROVE  LET s == Put([r EXCEPT !.todo = Tail(r.todo)], r.todo[1].name, r.todo[1].do)
         IN s \in WalkRecord /\ s.error = r.error /\ WalkOK(s)
<1> DEFINE t == r.todo[1]
           rest == [r EXCEPT !.todo = Tail(r.todo)]
           s == Put(rest, t.name, t.do)
           M == Len(r.todo)
<1>1. /\ M \in Nat \ {0} /\ 1 \in DOMAIN r.todo /\ t \in TaskRecord
      /\ Tail(r.todo) \in Seq(TaskRecord) /\ DOMAIN Tail(r.todo) = 1 .. M - 1 /\ Len(Tail(r.todo)) = M - 1
      /\ \A i \in 1 .. M - 1 : Tail(r.todo)[i] = r.todo[i + 1]
  BY HeadTail, WalkFields
<1>2. DOMAIN r.todo = 1 .. M
  BY WalkFields
<1>3. t.name \in Names \cup EventNames /\ t.do \in ElementTypes
  BY <1>1 DEF TaskRecord
<1>4. rest \in WalkRecord /\ rest.order = r.order /\ rest.todo = Tail(r.todo) /\ rest.error = r.error
  BY <1>1 DEF WalkRecord
<1> HIDE DEF rest, M
<1>5. /\ s \in WalkRecord /\ s.todo = rest.todo /\ s.error = r.error
      /\ \A p \in DOMAIN r.order : p \in DOMAIN s.order /\ s.order[p].name = r.order[p].name
      /\ \A p \in DOMAIN s.order : p \in DOMAIN r.order \/ s.order[p] = [name |-> t.name, type |-> t.do]
      /\ Has(s, t.name)
  BY <1>3, <1>4, PutFacts
<1>6. TaskOK(t) /\ Suits(t.do, t.name)
  <2>1. TaskOK(t)
    BY <1>1 DEF WalkOK, TasksInOrder
  <2> QED BY <2>1, <1>3, TypesApart DEF TaskOK
<1>7. \A m : Will(r, m, 1) => Has(r, m)
  <2>1. \A i \in 1 .. 1 - 1 : FALSE
    OBVIOUS
  <2> QED BY <2>1 DEF Will
<1>8. NamedOnce(s.order) /\ Ordered(s)
  <2>1. /\ t.do = "contract" => \A m \in Needs(t.name) : Has(rest, m)
        /\ t.do \in After => \A m \in AfterNeeds(t.name) : Has(rest, m)
    BY <1>1, <1>4, <1>7 DEF WalkOK, TasksInOrder, Has
  <2>2. NamedOnce(rest.order) /\ Ordered(rest)
    <3>1. \A p, names : Earlier(rest, p, names) <=> Earlier(r, p, names)
      BY <1>4 DEF Earlier
    <3> QED BY <1>4, <3>1 DEF WalkOK, Ordered
  <2> QED BY <1>3, <1>4, <1>6, <2>1, <2>2, PutOrdered
<1> HIDE DEF s
<1>9. \A m : Has(r, m) => Has(s, m)
  BY <1>5 DEF Has
<1>10. \A m : Brings(t, m) => Has(s, m)
  BY <1>5 DEF Brings
<1>11. s.todo = Tail(r.todo)
  BY <1>4, <1>5
<1>12. /\ DOMAIN s.todo = 1 .. M - 1 /\ Len(s.todo) = M - 1
       /\ \A i \in 1 .. M - 1 : i + 1 \in DOMAIN r.todo /\ s.todo[i] = r.todo[i + 1]
  <2>1. \A i \in 1 .. M - 1 : i + 1 \in 1 .. M
    BY <1>1
  <2> QED BY <1>1, <1>2, <1>11, <2>1
<1>13. ASSUME NEW m, NEW j \in 1 .. M, Will(r, m, j + 1)
       PROVE  Will(s, m, j)
  <2>1. CASE Has(r, m)
    BY <1>9, <2>1 DEF Will
  <2>2. CASE \E i \in 1 .. (j + 1) - 1 : Brings(r.todo[i], m)
    <3>1. PICK i \in 1 .. (j + 1) - 1 : Brings(r.todo[i], m)
      BY <2>2
    <3>2. CASE i = 1
      BY <1>10, <3>1, <3>2 DEF Will
    <3>3. CASE i # 1
      <4>1. i - 1 \in 1 .. M - 1 /\ i - 1 \in 1 .. j - 1 /\ (i - 1) + 1 = i
        BY <1>1, <3>3
      <4>2. s.todo[i - 1] = r.todo[i]
        BY <1>12, <4>1
      <4> QED BY <3>1, <4>1, <4>2 DEF Will
    <3> QED BY <3>2, <3>3
  <2> QED BY <1>13, <2>1, <2>2 DEF Will
<1>14. AtEnd(s) = M /\ AtEnd(r) = M + 1 /\ M \in 1 .. M
  BY <1>1, <1>12 DEF AtEnd, M
<1>15. \A m : Will(r, m, AtEnd(r)) => Will(s, m, AtEnd(s))
  BY <1>13, <1>14
<1>16. TasksInOrder(s)
  <2> SUFFICES ASSUME NEW j \in DOMAIN s.todo
               PROVE  /\ TaskOK(s.todo[j])
                      /\ s.todo[j].do = "contract" => \A n \in Needs(s.todo[j].name) : Will(s, n, j)
                      /\ s.todo[j].do \in After => \A n \in AfterNeeds(s.todo[j].name) : Will(s, n, j)
    BY DEF TasksInOrder
  <2>1. j + 1 \in DOMAIN r.todo /\ s.todo[j] = r.todo[j + 1] /\ j \in 1 .. M
    BY <1>1, <1>12
  <2>2. /\ TaskOK(r.todo[j + 1])
        /\ r.todo[j + 1].do = "contract" => \A n \in Needs(r.todo[j + 1].name) : Will(r, n, j + 1)
        /\ r.todo[j + 1].do \in After => \A n \in AfterNeeds(r.todo[j + 1].name) : Will(r, n, j + 1)
    BY <2>1 DEF WalkOK, TasksInOrder
  <2> QED BY <1>13, <2>1, <2>2
<1>17. HooksFollow(s)
  <2> SUFFICES ASSUME NEW b \in BindingNames,
                      Has(s, b) \/ (\E j \in DOMAIN s.todo : s.todo[j].do = "contract" /\ s.todo[j].name = b)
               PROVE  \A h \in Range(AfterHooks(b)) : Will(r, h, AtEnd(r))
    BY <1>15 DEF HooksFollow
  <2>1. Has(r, b) \/ b = t.name \/ (\E j \in DOMAIN r.todo : r.todo[j].do = "contract" /\ r.todo[j].name = b)
    <3>1. Has(s, b) => Has(r, b) \/ b = t.name
      BY <1>5 DEF Has
    <3> QED BY <1>12, <3>1
  <2>2. b = t.name => t.do = "contract"
    BY <1>6, SuitsName
  <2> QED BY <1>1, <2>1, <2>2 DEF WalkOK, HooksFollow
<1>18. AllComes(s)
  BY <1>15 DEF WalkOK, AllComes
<1> QED BY <1>5, <1>8, <1>16, <1>17, <1>18 DEF WalkOK, s, rest

\* So does every step.
LEMMA StepOK ==
  ASSUME Declared, NEW r \in WalkRecord, WalkOK(r), r.todo # <<>>
  PROVE  Step(r) \in WalkRecord /\ (~Failed(Step(r)) => WalkOK(Step(r)))
<1> DEFINE t == r.todo[1]
           c == Expansion(r, t)
<1>1. /\ Head(r.todo) = t /\ t \in TaskRecord /\ 1 \in DOMAIN r.todo
      /\ r.todo \in Seq(TaskRecord) /\ Tail(r.todo) \in Seq(TaskRecord)
  BY HeadTail, WalkFields
<1>2. TaskOK(t)
  BY <1>1 DEF WalkOK, TasksInOrder
<1>3. TaskError(r, t) \in Errors \cup {Nothing}
  BY DEF TaskError, Errors
<1>4. CASE TaskError(r, t) # Nothing
  <2>1. Step(r) = [r EXCEPT !.error = TaskError(r, t)]
    BY <1>1, <1>4 DEF Step, Fail
  <2>2. Step(r) \in WalkRecord /\ Step(r).error = TaskError(r, t)
    BY <1>3, <2>1 DEF WalkRecord
  <2> QED BY <1>4, <2>2 DEF Failed
<1>5. CASE TaskError(r, t) = Nothing /\ t.do \in ElementTypes
  <2>1. Step(r) = Put([r EXCEPT !.todo = Tail(r.todo)], t.name, t.do)
    BY <1>1, <1>5 DEF Step
  <2> QED BY <1>5, <2>1, PutOK
<1>6. CASE TaskError(r, t) = Nothing /\ t.do \notin ElementTypes
  <2> DEFINE todo == c \o Tail(r.todo)
             s == [r EXCEPT !.todo = todo]
  <2>1. Step(r) = s
    <3>1. Step(r) = [[r EXCEPT !.todo = Tail(r.todo)] EXCEPT !.todo = c \o Tail(r.todo)]
      BY <1>1, <1>6 DEF Step, WalkRecord
    <3> HIDE DEF c
    <3> QED BY <3>1 DEF WalkRecord
  <2>2. Sound(c) /\ \A n : Brings(t, n) => Has(r, n) \/ \E u \in Range(c) : Brings(u, n)
    BY <1>1, <1>2, <1>6, CallsSound
  <2> HIDE DEF c
  <2>3. c \in Seq(TaskRecord)
    BY <2>2 DEF Sound
  <2>4. todo \in Seq(TaskRecord) /\ Inserted(todo, c, r.todo)
    BY <1>1, <2>3, TailConcat
  <2> HIDE DEF todo
  <2>5. s \in WalkRecord /\ s.order = r.order /\ s.todo = todo
    BY <2>4 DEF WalkRecord
  <2> HIDE DEF s
  <2>6. WalkOK(s)
    BY <2>2, <2>4, <2>5, InsertOK
  <2> QED BY <2>1, <2>5, <2>6
<1> QED BY <1>4, <1>5, <1>6

LEMMA PutModuleEventsOK ==
  ASSUME Declared, NEW type \in ModuleHookTypes
  PROVE  /\ PutModuleEvents(type) \in Seq(TaskRecord)
         /\ \A t \in Range(PutModuleEvents(type)) : TaskOK(t) /\ t.do \in ModuleHookTypes
         /\ \A e \in Range(moduleEvents[type]) : \E t \in Range(PutModuleEvents(type)) : Brings(t, e)
<1>1. moduleEvents[type] \in Seq(EventNames) /\ Range(moduleEvents[type]) \subseteq EventNames
  BY NamesApart
<1>2. moduleEvents[type] \in Seq(Names \cup EventNames)
  BY <1>1, SeqMono
<1>3. /\ type \in ElementTypes /\ type \in Dos /\ type \notin Before \cup After
      /\ type \notin {"contract", "deps", "check", "return"}
  BY DEF ElementTypes, Dos, ModuleHookTypes, Before, After
<1>4. /\ PutModuleEvents(type) \in Seq(TaskRecord)
      /\ Range(PutModuleEvents(type)) = {Task(type, n) : n \in Range(moduleEvents[type])}
  BY <1>2, <1>3, EachOK DEF PutModuleEvents
<1>5. \A n \in Range(moduleEvents[type]) : Task(type, n).do = type /\ Task(type, n).name = n
  BY DEF Task
<1>6. \A n \in Range(moduleEvents[type]) : Suits(type, n)
  BY <1>3 DEF Suits
<1>7. \A n \in Range(moduleEvents[type]) : TaskOK(Task(type, n)) /\ Brings(Task(type, n), n)
  BY <1>3, <1>5, <1>6 DEF TaskOK, Brings
<1> QED BY <1>4, <1>5, <1>7

\* The walk begins in order: all that is declared is brought by a task.
LEMMA OrderToResolveOK ==
  ASSUME Declared
  PROVE  OrderToResolve \in WalkRecord /\ ~Failed(OrderToResolve) /\ WalkOK(OrderToResolve)
<1> DEFINE names == [i \in DOMAIN bindings |-> bindings[i].name]
           T  == TaskRecord
           p1 == PutModuleEvents("onStart")
           p2 == Each("binding", names)
           p3 == PutModuleEvents("onSuccess")
           p4 == PutModuleEvents("onCompletion")
           r  == OrderToResolve
<1>1. names \in Seq(Names \cup EventNames) /\ Range(names) = BindingNames
  <2>1. /\ Len(bindings) \in Nat /\ DOMAIN names = 1 .. Len(bindings) /\ names = [i \in DOMAIN names |-> names[i]]
        /\ \A i \in 1 .. Len(bindings) : names[i] \in Names \cup EventNames
    BY FieldTypes
  <2>2. Range(names) = BindingNames
    BY DEF Range, BindingNames
  <2> HIDE DEF names
  <2> QED BY <2>1, <2>2, SeqIs
<1> HIDE DEF names
<1>2. p2 \in Seq(T) /\ Range(p2) = {Task("binding", n) : n \in BindingNames}
  BY <1>1, EachOK DEF Dos
<1>3. \A n \in BindingNames :
        TaskOK(Task("binding", n)) /\ Brings(Task("binding", n), n) /\ Task("binding", n).do = "binding"
  BY DEF Task, TaskOK, Brings
<1>4. /\ p1 \in Seq(T) /\ p3 \in Seq(T) /\ p4 \in Seq(T)
      /\ \A t \in Range(p1) \cup Range(p3) \cup Range(p4) : TaskOK(t) /\ t.do \in ModuleHookTypes
      /\ \A e \in Range(moduleEvents["onStart"]) : \E t \in Range(p1) : Brings(t, e)
      /\ \A e \in Range(moduleEvents["onSuccess"]) : \E t \in Range(p3) : Brings(t, e)
      /\ \A e \in Range(moduleEvents["onCompletion"]) : \E t \in Range(p4) : Brings(t, e)
  BY PutModuleEventsOK DEF ModuleHookTypes
<1>5. OrderToResolve = [order |-> <<>>, error |-> Nothing, todo |-> p1 \o p2 \o p3 \o p4]
  BY DEF OrderToResolve, names
<1> HIDE DEF p1, p2, p3, p4, T
<1> DEFINE p12 == p1 \o p2
<1>6. p12 \in Seq(T) /\ Range(p12) = Range(p1) \cup Range(p2)
  BY <1>2, <1>4, ConcatRange
<1> HIDE DEF p12
<1> DEFINE p123 == p12 \o p3
<1>7. p123 \in Seq(T) /\ Range(p123) = Range(p12) \cup Range(p3)
  BY <1>4, <1>6, ConcatRange
<1> HIDE DEF p123
<1> DEFINE c == p123 \o p4
<1>8. c \in Seq(T) /\ Range(c) = Range(p123) \cup Range(p4)
  BY <1>4, <1>7, ConcatRange
<1>9. r = [order |-> <<>>, error |-> Nothing, todo |-> c]
  BY <1>5 DEF p12, p123
<1> HIDE DEF c
<1>10. r \in WalkRecord /\ r.order = <<>> /\ r.error = Nothing /\ r.todo = c
  BY <1>8, <1>9 DEF WalkRecord, T
<1> HIDE DEF r
<1>11. Range(c) = Range(p1) \cup Range(p2) \cup Range(p3) \cup Range(p4)
  BY <1>6, <1>7, <1>8
<1>12. \A t \in Range(c) : TaskOK(t) /\ t.do # "contract" /\ t.do \notin After
  <2>1. \A t \in Range(p2) : TaskOK(t) /\ t.do = "binding"
    BY <1>2, <1>3
  <2> QED BY <1>4, <1>11, <2>1 DEF ModuleHookTypes, After
<1>13. /\ \A j \in DOMAIN c : c[j] \in Range(c)
       /\ \A t \in Range(c) : \E j \in DOMAIN c : c[j] = t
  BY DEF Range
<1>14. TasksInOrder(r)
  BY <1>10, <1>12, <1>13 DEF TasksInOrder
<1>15. \A n : ~Has(r, n)
  BY <1>10 DEF Has
<1>16. HooksFollow(r)
  BY <1>10, <1>12, <1>13, <1>15 DEF HooksFollow
<1>17. \A n : (\E t \in Range(c) : Brings(t, n)) => Will(r, n, AtEnd(r))
  <2> SUFFICES ASSUME NEW n, NEW t \in Range(c), Brings(t, n) PROVE Will(r, n, AtEnd(r))
    OBVIOUS
  <2>1. PICK j \in DOMAIN c : c[j] = t
    BY <1>13
  <2>2. j \in 1 .. AtEnd(r) - 1
    BY <1>8, <1>10 DEF AtEnd
  <2> QED BY <1>10, <2>1, <2>2 DEF Will
<1>18. AllComes(r)
  <2>1. \A b \in BindingNames : \E t \in Range(c) : Brings(t, b)
    BY <1>2, <1>3, <1>11
  <2>2. \A t \in ModuleHookTypes \ {"onFail"} : t \in {"onStart", "onSuccess", "onCompletion"}
    BY DEF ModuleHookTypes
  <2>3. \A t \in {"onStart", "onSuccess", "onCompletion"} : \A e \in Range(moduleEvents[t]) :
          \E u \in Range(c) : Brings(u, e)
    BY <1>4, <1>11
  <2> QED BY <1>17, <2>1, <2>2, <2>3 DEF AllComes
<1>19. NamedOnce(r.order) /\ Ordered(r)
  BY <1>10 DEF NamedOnce, Ordered
<1> QED BY <1>10, <1>14, <1>16, <1>18, <1>19 DEF WalkOK, Failed, r

(***************************************************************************)
(* What refers to the builder only stays with it.                          *)
(***************************************************************************)
LEMMA SameBuilder ==
  ASSUME UNCHANGED <<bindings, events, moduleEvents>>
  PROVE  /\ BindingNames' = BindingNames /\ NamesOfEvents' = NamesOfEvents
         /\ \A b : Binding(b)' = Binding(b)
         /\ \A e : EventOf(e)' = EventOf(e)
         /\ \A b : ArgsOf(b)' = ArgsOf(b) /\ AfterHooks(b)' = AfterHooks(b) /\ Needs(b)' = Needs(b)
         /\ \A e : AfterNeeds(e)' = AfterNeeds(e)
         /\ \A e : Shadowed(e)' <=> Shadowed(e)
         /\ \A t, n : Suits(t, n)' <=> Suits(t, n)
         /\ \A t : TaskOK(t)' <=> TaskOK(t)
<1>1. BindingNames' = BindingNames /\ NamesOfEvents' = NamesOfEvents
  BY DEF BindingNames, NamesOfEvents
<1>2. \A b : Binding(b)' = Binding(b)
  BY DEF Binding
<1>3. \A e : EventOf(e)' = EventOf(e)
  BY DEF EventOf
<1>4. \A b : ArgsOf(b)' = ArgsOf(b)
  BY <1>2 DEF ArgsOf
<1>5. \A b : LibsOf(b)' = LibsOf(b)
  BY <1>1, <1>2 DEF LibsOf
<1>6. \A b : BeforeHooks(b)' = BeforeHooks(b) /\ AfterHooks(b)' = AfterHooks(b)
  BY <1>2 DEF BeforeHooks, AfterHooks
<1>7. \A b : Needs(b)' = Needs(b)
  BY <1>2, <1>4, <1>5, <1>6 DEF Needs
<1>8. \A e : AfterNeeds(e)' = AfterNeeds(e)
  BY <1>3 DEF AfterNeeds
<1>9. \A e : Shadowed(e)' <=> Shadowed(e)
  BY DEF Shadowed
<1>10. \A t, n : Suits(t, n)' <=> Suits(t, n)
  BY <1>1, <1>3 DEF Suits
<1>11. \A t : TaskOK(t)' <=> TaskOK(t)
  BY <1>1, <1>3, <1>10 DEF TaskOK
<1> QED BY <1>1, <1>2, <1>3, <1>4, <1>6, <1>7, <1>8, <1>9, <1>10, <1>11

\* A walk in order stays so as long as the module is the same.
LEMMA WalkStays ==
  ASSUME NEW r, WalkOK(r), UNCHANGED <<bindings, events, moduleEvents>>, plan' = r
  PROVE  WalkOK(plan)'
<1>1. /\ BindingNames' = BindingNames
      /\ \A e : EventOf(e)' = EventOf(e)
      /\ \A b : AfterHooks(b)' = AfterHooks(b) /\ Needs(b)' = Needs(b)
      /\ \A e : AfterNeeds(e)' = AfterNeeds(e)
      /\ \A e : Shadowed(e)' <=> Shadowed(e)
      /\ \A t, n : Suits(t, n)' <=> Suits(t, n)
      /\ \A t : TaskOK(t)' <=> TaskOK(t)
  BY SameBuilder
<1>2. /\ NamedOnce(plan.order)' <=> NamedOnce(r.order)
      /\ \A p, names : Earlier(plan, p, names)' <=> Earlier(r, p, names)
      /\ \A n : Has(plan, n)' <=> Has(r, n)
      /\ \A n, j : Will(plan, n, j)' <=> Will(r, n, j)
      /\ AtEnd(plan)' = AtEnd(r)
  BY DEF NamedOnce, Earlier, Has, Will, AtEnd
<1>3. Ordered(plan)'
  BY <1>1, <1>2 DEF WalkOK, Ordered
<1>4. TasksInOrder(plan)'
  BY <1>1, <1>2 DEF WalkOK, TasksInOrder
<1>5. HooksFollow(plan)'
  BY <1>1, <1>2 DEF WalkOK, HooksFollow
<1>6. AllComes(plan)'
  BY <1>1, <1>2 DEF WalkOK, AllComes
<1>7. NamedOnce(plan.order)'
  BY <1>2 DEF WalkOK
<1> QED BY <1>3, <1>4, <1>5, <1>6, <1>7 DEF WalkOK

-----------------------------------------------------------------------------
(* What the walk leaves.                                                   *)

\* When nothing is left to do, what a task would have brought is there.
LEMMA Done ==
  ASSUME plan \in WalkRecord, WalkOK(plan), plan.todo = <<>>
  PROVE  /\ \A n : InPlan(n) <=> Has(plan, n)
         /\ \A n : Will(plan, n, AtEnd(plan)) => InPlan(n)
         /\ \A p \in DOMAIN plan.order : InPlan(plan.order[p].name) /\ Position(plan.order[p].name) = p
         /\ \A p \in DOMAIN plan.order : \A names : Earlier(plan, p, names) =>
               \A m \in names : Comes(m, plan.order[p].name)
<1>1. \A n : InPlan(n) <=> Has(plan, n)
  BY DEF InPlan, Has
<1>2. AtEnd(plan) = 1
  BY DEF AtEnd
<1>3. \A n : Will(plan, n, AtEnd(plan)) => InPlan(n)
  <2>1. \A i \in 1 .. AtEnd(plan) - 1 : FALSE
    BY <1>2
  <2> QED BY <1>1, <2>1 DEF Will
<1>4. ASSUME NEW p \in DOMAIN plan.order
      PROVE  InPlan(plan.order[p].name) /\ Position(plan.order[p].name) = p
  <2> DEFINE q == CHOOSE i \in DOMAIN plan.order : plan.order[i].name = plan.order[p].name
  <2>1. q \in DOMAIN plan.order /\ plan.order[q].name = plan.order[p].name
    OBVIOUS
  <2>2. Position(plan.order[p].name) = q
    BY DEF Position
  <2> HIDE DEF q
  <2>3. q = p
    BY <2>1 DEF WalkOK, NamedOnce
  <2> QED BY <2>2, <2>3 DEF InPlan
<1>5. ASSUME NEW p \in DOMAIN plan.order, NEW names, Earlier(plan, p, names), NEW m \in names
      PROVE  Comes(m, plan.order[p].name)
  <2>1. PICK q \in 1 .. p - 1 : plan.order[q].name = m
    BY <1>5 DEF Earlier
  <2>2. Len(plan.order) \in Nat /\ DOMAIN plan.order = 1 .. Len(plan.order)
    BY WalkFields
  <2>3. q \in DOMAIN plan.order /\ q < p
    BY <2>2
  <2> QED BY <1>4, <2>1, <2>3 DEF Comes
<1> QED BY <1>1, <1>3, <1>4, <1>5

\* The order that the walk ends with.
LEMMA WalkOrders ==
  ASSUME Declared, plan \in WalkRecord, WalkOK(plan), plan.todo = <<>>
  PROVE  /\ \A b \in BindingNames : \A d \in Needs(b) : Comes(d, b)
         /\ \A e \in NamesOfEvents :
              EventOf(e).type \in Before => \A d \in Range(EventOf(e).deps) : Comes(e, d)
         /\ \A e \in NamesOfEvents :
              InPlan(e) /\ ~Shadowed(EventOf(e)) /\ EventOf(e).type \in After =>
                 \A d \in AfterNeeds(e) : Comes(d, e)
         /\ \A b \in BindingNames : InPlan(b)
         /\ \A e \in NamesOfEvents : EventOf(e).deps # <<>> => InPlan(e)
         /\ \A t \in ModuleHookTypes \ {"onFail"} : \A e \in Range(moduleEvents[t]) : InPlan(e)
<1>1. /\ \A n : InPlan(n) <=> Has(plan, n)
      /\ \A n : Will(plan, n, AtEnd(plan)) => InPlan(n)
      /\ \A p \in DOMAIN plan.order : \A names : Earlier(plan, p, names) =>
           \A m \in names : Comes(m, plan.order[p].name)
  BY Done
<1>2. /\ \A b \in BindingNames : InPlan(b)
      /\ \A t \in ModuleHookTypes \ {"onFail"} : \A e \in Range(moduleEvents[t]) : InPlan(e)
  BY <1>1 DEF WalkOK, AllComes
<1>3. ASSUME NEW b \in BindingNames
      PROVE  \A d \in Needs(b) : Comes(d, b)
  <2>1. PICK p \in DOMAIN plan.order : plan.order[p].name = b
    BY <1>2 DEF InPlan
  <2>2. Suits(plan.order[p].type, b)
    BY <2>1 DEF WalkOK, Ordered
  <2>3. plan.order[p].type = "contract"
    BY <2>2, SuitsName
  <2>4. Earlier(plan, p, Needs(b))
    BY <2>1, <2>3 DEF WalkOK, Ordered
  <2> QED BY <1>1, <2>1, <2>4
<1>4. ASSUME NEW e \in NamesOfEvents, NEW d \in Range(EventOf(e).deps)
      PROVE  /\ d \in BindingNames
             /\ EventOf(e).type \in Before => e \in Range(BeforeHooks(d))
             /\ EventOf(e).type \in After => e \in Range(AfterHooks(d))
  <2>1. d \in BindingNames
    BY EventTypes DEF Range
  <2>2. e \in Range(Binding(d).hooks[EventOf(e).type])
    BY DepsHaveHook
  <2>3. /\ Range(BeforeHooks(d)) = UNION {Range(Binding(d).hooks[t]) : t \in Before}
        /\ Range(AfterHooks(d)) = UNION {Range(Binding(d).hooks[t]) : t \in After}
    BY <2>1, HooksOfBinding
  <2> QED BY <2>1, <2>2, <2>3
<1>5. ASSUME NEW e \in NamesOfEvents, EventOf(e).type \in Before, NEW d \in Range(EventOf(e).deps)
      PROVE  Comes(e, d)
  BY <1>3, <1>4, <1>5 DEF Needs
<1>6. ASSUME NEW e \in NamesOfEvents, InPlan(e), ~Shadowed(EventOf(e)), EventOf(e).type \in After,
             NEW d \in AfterNeeds(e)
      PROVE  Comes(d, e)
  <2>1. PICK p \in DOMAIN plan.order : plan.order[p].name = e
    BY <1>6 DEF InPlan
  <2>2. Suits(plan.order[p].type, e)
    BY <2>1 DEF WalkOK, Ordered
  <2>3. Suits(EventOf(e).type, e)
    BY <1>6, TypesApart DEF Suits
  <2>4. plan.order[p].type = EventOf(e).type
    BY <1>6, <2>2, <2>3, SuitsName
  <2>5. Earlier(plan, p, AfterNeeds(e))
    BY <1>6, <2>1, <2>4 DEF WalkOK, Ordered
  <2> QED BY <1>1, <2>1, <2>5
<1>7. ASSUME NEW e \in NamesOfEvents, EventOf(e).deps # <<>>
      PROVE  InPlan(e)
  <2>1. PICK d \in Range(EventOf(e).deps) : TRUE
    <3>1. EventOf(e).deps \in Seq(BindingNames)
      BY EventTypes
    <3>2. 1 \in DOMAIN EventOf(e).deps
      BY <1>7, <3>1, NonEmpty
    <3> QED BY <3>2 DEF Range
  <2>2. EventOf(e).type \in Before \cup After
    BY EventTypes
  <2>3. CASE EventOf(e).type \in Before
    BY <1>5, <2>1, <2>3 DEF Comes
  <2>4. CASE EventOf(e).type \in After
    <3>1. Has(plan, d) /\ d \in BindingNames /\ e \in Range(AfterHooks(d))
      BY <1>1, <1>2, <1>4, <2>1, <2>4
    <3>2. Will(plan, e, AtEnd(plan))
      BY <3>1 DEF WalkOK, HooksFollow
    <3> QED BY <1>1, <3>2
  <2> QED BY <2>2, <2>3, <2>4
<1> QED BY <1>2, <1>3, <1>5, <1>6, <1>7

LEMMA WalkProperties ==
  ASSUME Declared, WalkInv
  PROVE  OrderRespectsDependencies /\ NothingDropped
<1> SUFFICES ASSUME Resolved PROVE OrderRespectsDependencies /\ NothingDropped
  BY DEF OrderRespectsDependencies, NothingDropped
<1>1. plan \in WalkRecord /\ WalkOK(plan) /\ plan.todo = <<>>
  BY DEF WalkInv, Resolved
<1>2. /\ \A b \in BindingNames : \A d \in Needs(b) : Comes(d, b)
      /\ \A e \in NamesOfEvents :
           EventOf(e).type \in Before => \A d \in Range(EventOf(e).deps) : Comes(e, d)
      /\ \A e \in NamesOfEvents :
           InPlan(e) /\ ~Shadowed(EventOf(e)) /\ EventOf(e).type \in After =>
              \A d \in AfterNeeds(e) : Comes(d, e)
      /\ \A b \in BindingNames : InPlan(b)
      /\ \A e \in NamesOfEvents : EventOf(e).deps # <<>> => InPlan(e)
      /\ \A t \in ModuleHookTypes \ {"onFail"} : \A e \in Range(moduleEvents[t]) : InPlan(e)
  BY <1>1, WalkOrders
<1>3. \A i \in DOMAIN bindings : bindings[i].name \in BindingNames /\ Binding(bindings[i].name) = bindings[i]
  BY BindingIs DEF BindingNames
<1>4. \A i \in DOMAIN events : events[i].name \in NamesOfEvents /\ EventOf(events[i].name) = events[i]
  BY EventIs DEF NamesOfEvents
<1>5. ASSUME NEW i \in DOMAIN bindings,
             NEW d \in Range(ArgsOf(bindings[i].name)) \cup Range(LibsOf(bindings[i].name))
                       \cup Range(bindings[i].deployDeps)
      PROVE  Comes(d, bindings[i].name)
  BY <1>2, <1>3 DEF Needs
<1>6. ASSUME NEW i \in DOMAIN events, InPlan(events[i].name), ~Shadowed(events[i])
      PROVE  /\ events[i].type \in Before => \A d \in Range(events[i].deps) : Comes(events[i].name, d)
             /\ events[i].type \in After =>
                  \A d \in Range(events[i].deps) \cup Range(events[i].eventDeps) \cup Range(events[i].usage) :
                    Comes(d, events[i].name)
  BY <1>2, <1>4, <1>6 DEF AfterNeeds
<1>7. OrderRespectsDependencies
  BY <1>5, <1>6 DEF OrderRespectsDependencies
<1>8. NothingDropped
  BY <1>2, <1>4 DEF NothingDropped
<1> QED BY <1>7, <1>8

-----------------------------------------------------------------------------
(* The numbers of batches.                                                 *)

\* The greatest and the least of some batches.
LEMMA DeepestOK ==
  ASSUME NEW m \in Nat, NEW S \in SUBSET (0 .. m), NEW least \in 0 .. m
  PROVE  /\ Deepest(S, least) \in S \cup {least}
         /\ \A k \in S \cup {least} : k <= Deepest(S, least)
<1> DEFINE T == S \cup {least}
           D == {m - k : k \in T}
<1>1. \A k \in T : k \in Nat /\ k <= m
  OBVIOUS
<1>2. D \in SUBSET Nat /\ D # {}
  <2>1. \A k \in T : m - k \in Nat
    BY <1>1
  <2>2. least \in T
    OBVIOUS
  <2> QED BY <2>1, <2>2
<1> HIDE DEF T
<1>3. PICK d \in D : \A n \in D : d <= n
  <2> HIDE DEF D
  <2> QED BY <1>2, LeastNumber
<1>4. PICK k \in T : d = m - k
  BY <1>3
<1>5. \A n \in T : m - k <= m - n
  BY <1>3, <1>4
<1>6. \A n \in T : n <= k
  BY <1>1, <1>4, <1>5
<1>7. Deepest(S, least) = CHOOSE n \in T : \A j \in T : j <= n
  BY DEF Deepest, T
<1>8. Deepest(S, least) \in T /\ \A j \in T : j <= Deepest(S, least)
  BY <1>4, <1>6, <1>7
<1> QED BY <1>8 DEF T

LEMMA ShallowestOK ==
  ASSUME NEW m \in Nat, NEW S \in SUBSET (0 .. m), NEW most \in 0 .. m
  PROVE  Shallowest(S, most) \in 0 .. m
<1> DEFINE T == S \cup {most}
<1>1. T \in SUBSET Nat /\ T # {} /\ T \subseteq 0 .. m
  OBVIOUS
<1>2. Shallowest(S, most) = CHOOSE n \in T : \A j \in T : n <= j
  BY DEF Shallowest
<1> HIDE DEF T
<1>3. \E n \in T : \A j \in T : n <= j
  BY <1>1, LeastNumber
<1>4. Shallowest(S, most) \in T
  BY <1>2, <1>3
<1> QED BY <1>1, <1>4

\* batches.length, if there is no hole.
LEMMA BatchCountIs ==
  ASSUME NEW r, NEW m \in Nat, DOMAIN r.batches \ {NaN} = 0 .. m - 1
  PROVE  BatchCount(r) = m
<1> DEFINE used == {n + 1 : n \in DOMAIN r.batches}
<1>1. \A n \in DOMAIN r.batches : n = -1 \/ n \in 0 .. m - 1
  BY DEF NaN
<1>2. \A n \in 0 .. m - 1 : n \in DOMAIN r.batches
  OBVIOUS
<1>3. BatchCount(r) = IF used \subseteq {0} THEN 0 ELSE CHOOSE n \in used : \A k \in used : k <= n
  BY DEF BatchCount
<1>4. \A k \in used : k \in 0 .. m
  BY <1>1
<1>5. CASE m = 0
  <2>1. used \subseteq {0}
    BY <1>4, <1>5
  <2> QED BY <1>3, <1>5, <2>1
<1>6. CASE m # 0
  <2>1. m - 1 \in 0 .. m - 1 /\ (m - 1) + 1 = m
    BY <1>6
  <2>2. m \in used
    BY <1>2, <2>1
  <2>3. ~(used \subseteq {0})
    BY <1>6, <2>2
  <2>4. \A k \in used : k <= m
    BY <1>4
  <2> DEFINE top == CHOOSE n \in used : \A k \in used : k <= n
  <2> HIDE DEF used
  <2>5. top \in used /\ \A k \in used : k <= top
    BY <2>2, <2>4
  <2>6. top = m
    <3> HIDE DEF top
    <3>1. m <= top /\ top <= m /\ top \in 0 .. m
      BY <1>4, <2>2, <2>4, <2>5
    <3> QED BY <3>1
  <2> QED BY <1>3, <2>3, <2>6
<1> QED BY <1>5, <1>6

LEMMA BatchesOfOK ==
  ASSUME NEW r, NEW m \in Nat, Placed(r), DOMAIN r.batches \ {NaN} = 0 .. m - 1, NEW names
  PROVE  /\ BatchesOf(r, names) \subseteq 0 .. m - 1
         /\ \A i \in DOMAIN names : Batched(r, names[i]) /\ r.at[names[i]] # NaN
               => r.at[names[i]] \in BatchesOf(r, names)
         /\ DOMAIN r.at = {} => BatchesOf(r, names) = {}
BY DEF BatchesOf, Placed, Batched

\* The batch of a contract is below those of its arguments and at most the
\* next.
LEMMA LevelOK ==
  ASSUME NEW r, NEW m \in Nat, Placed(r), DOMAIN r.batches \ {NaN} = 0 .. m - 1, NEW names,
         NEW current \in {NaN} \cup 0 .. m
  PROVE  /\ current = NaN => Level(r, current, names) = NaN
         /\ current # NaN => /\ Level(r, current, names) \in 0 .. m
                             /\ \A k \in BatchesOf(r, names) : k < Level(r, current, names)
                             /\ current <= Level(r, current, names)
                             /\ DOMAIN r.at = {} => Level(r, current, names) = current
                             /\ names = <<>> => Level(r, current, names) = current
<1>1. CASE current = NaN
  BY <1>1 DEF Level
<1>2. CASE current # NaN
  <2> DEFINE B == BatchesOf(r, names)
             S == {k + 1 : k \in B}
             L == Level(r, current, names)
  <2>1. B \subseteq 0 .. m - 1 /\ (DOMAIN r.at = {} => B = {})
    BY BatchesOfOK
  <2> HIDE DEF B
  <2>2. S \in SUBSET (0 .. m) /\ current \in 0 .. m
    BY <1>2, <2>1
  <2>3. L = Deepest(S, current)
    BY <1>2 DEF Level, B
  <2>4. \A k \in B : k + 1 \in S /\ k \in Nat
    BY <2>1
  <2>5. DOMAIN r.at = {} \/ names = <<>> => S = {}
    BY <2>1 DEF B, BatchesOf
  <2> HIDE DEF S, L
  <2>6. L \in S \cup {current} /\ \A k \in S \cup {current} : k <= L
    BY <2>2, <2>3, DeepestOK
  <2>7. L \in 0 .. m
    BY <2>2, <2>6
  <2>8. \A k \in B : k < L
    BY <2>4, <2>6, <2>7
  <2>9. current <= L
    BY <2>6
  <2> QED BY <1>2, <2>5, <2>6, <2>7, <2>8, <2>9 DEF B, L
<1> QED BY <1>1, <1>2

-----------------------------------------------------------------------------
(* The elements of the plan, and an element that goes into a batch.        *)

Planned == Declared /\ plan \in WalkRecord /\ WalkOK(plan) /\ plan.todo = <<>>

\* The elements of the plan are told apart by name, and contracts by theirs.
LEMMA ElementOK ==
  ASSUME Planned, NEW x \in Range(plan.order)
  PROVE  /\ x \in ElementRecord /\ x.name \in Names \cup EventNames
         /\ \A y \in Range(plan.order) : y.name = x.name => y = x
         /\ IsContract(x) <=> x.name \in BindingNames
         /\ IsModuleHook(x.name) <=> x.type \in ModuleHookTypes
         /\ IsModuleHook(x.name) /\ x.name \in NamesOfEvents => Shadowed(EventOf(x.name))
         /\ ~IsContract(x) /\ x.type \notin ModuleHookTypes => x.name \in NamesOfEvents
<1>1. PICK p \in DOMAIN plan.order : plan.order[p] = x
  BY DEF Range
<1>2. x \in ElementRecord
  BY <1>1, WalkFields DEF Planned
<1>3. \A q \in DOMAIN plan.order : plan.order[q].name = x.name => q = p
  BY <1>1 DEF Planned, WalkOK, NamedOnce
<1>4. Suits(x.type, x.name)
  BY <1>1 DEF Planned, WalkOK, Ordered
<1>5. IsContract(x) <=> x.name \in BindingNames
  BY <1>4, SuitsName DEF Planned, IsContract, Suits
<1>6. IsModuleHook(x.name) <=> x.type \in ModuleHookTypes
  BY <1>1, <1>3 DEF IsModuleHook
<1>7. IsModuleHook(x.name) /\ x.name \in NamesOfEvents => Shadowed(EventOf(x.name))
  <2>1. x.name \in NamesOfEvents => EventOf(x.name).name = x.name
    BY EventTypes DEF Planned
  <2> QED BY <1>4, <1>6, <2>1 DEF Suits, Shadowed
<1>8. ~IsContract(x) /\ x.type \notin ModuleHookTypes => x.name \in NamesOfEvents
  BY <1>4 DEF IsContract, Suits, ElementTypes
<1>9. \A y \in Range(plan.order) : y.name = x.name => y = x
  BY <1>1, <1>3 DEF Range
<1> QED BY <1>2, <1>5, <1>6, <1>7, <1>8, <1>9 DEF ElementRecord

LEMMA ContractsOK ==
  ASSUME Planned, NEW b \in BindingNames
  PROVE  /\ ContractElement(b) \in Range(plan.order) /\ ContractElement(b).name = b
         /\ IsContract(ContractElement(b))
<1>1. InPlan(b)
  BY WalkOrders DEF Planned
<1>2. PICK p \in DOMAIN plan.order : plan.order[p].name = b
  BY <1>1 DEF InPlan
<1>3. plan.order[p] \in Range(plan.order)
  BY DEF Range
<1>4. plan.order[p] \in ElementRecord /\ plan.order[p].type = "contract"
  BY <1>2, <1>3, ElementOK DEF IsContract
<1>5. plan.order[p] = [name |-> b, type |-> "contract"]
  BY <1>2, <1>4 DEF ElementRecord
<1> QED BY <1>3, <1>5 DEF ContractElement, IsContract

(***************************************************************************)
(* The element n is pushed into the batch L.                               *)
(***************************************************************************)
PushedTo(r, s, L, n) ==
  /\ DOMAIN s.batches = DOMAIN r.batches \cup {L}
  /\ \A k \in DOMAIN r.batches \ {L} : s.batches[k] = r.batches[k]
  /\ s.batches[L] = Append(IF L \in DOMAIN r.batches THEN r.batches[L] ELSE <<>>, n)

\* What a push changes.
LEMMA PushFacts ==
  ASSUME NEW r, BatchTyped(r), NEW L, NEW n \in Names \cup EventNames
  PROVE  LET s == PushTo(r, L, n) IN
         BatchTyped(s) /\ PushedTo(r, s, L, n) /\ s.todo = r.todo /\ s.at = r.at /\ s.error = r.error
<1> DEFINE old == IF L \in DOMAIN r.batches THEN r.batches[L] ELSE <<>>
           new == [k \in DOMAIN r.batches \cup {L} |-> IF k # L THEN r.batches[k] ELSE Append(old, n)]
           s   == PushTo(r, L, n)
<1>1. /\ r = [batches |-> r.batches, at |-> r.at, error |-> r.error, todo |-> r.todo]
      /\ r.error \in Errors \cup {Nothing} /\ r.todo \in Seq(CallRecord)
      /\ \A k \in DOMAIN r.batches : r.batches[k] \in Seq(Names \cup EventNames)
  BY DEF BatchTyped
<1>2. s = [r EXCEPT !.batches = new]
  BY DEF PushTo
<1>3. \A k \in DOMAIN new : new[k] \in Seq(Names \cup EventNames)
  BY <1>1
<1> HIDE DEF new
<1>4. s = [batches |-> new, at |-> r.at, error |-> r.error, todo |-> r.todo]
  BY <1>1, <1>2
<1> HIDE DEF s
<1>5. s.batches = new /\ s.at = r.at /\ s.error = r.error /\ s.todo = r.todo
  BY <1>4
<1>6. BatchTyped(s)
  BY <1>1, <1>3, <1>4, <1>5 DEF BatchTyped
<1>7. PushedTo(r, s, L, n)
  BY <1>5 DEF PushedTo, new
<1> QED BY <1>5, <1>6, <1>7 DEF s

LEMMA PlaceFacts ==
  ASSUME NEW r, BatchTyped(r), NEW L, NEW n \in Names \cup EventNames
  PROVE  LET s == Place(r, L, n) IN
         /\ BatchTyped(s) /\ PushedTo(r, s, L, n) /\ s.todo = r.todo /\ s.error = r.error
         /\ DOMAIN s.at = DOMAIN r.at \cup {n} /\ s.at[n] = L
         /\ (n \notin DOMAIN r.at => \A x \in DOMAIN r.at : s.at[x] = r.at[x])
<1> DEFINE at == [x \in DOMAIN r.at \cup {n} |-> IF x = n THEN L ELSE r.at[x]]
           p  == PushTo(r, L, n)
           s  == Place(r, L, n)
<1>1. BatchTyped(p) /\ PushedTo(r, p, L, n) /\ p.todo = r.todo /\ p.error = r.error
  BY PushFacts
<1>2. s = [p EXCEPT !.at = at]
  BY DEF Place
<1>3. /\ DOMAIN at = DOMAIN r.at \cup {n} /\ at[n] = L
      /\ (n \notin DOMAIN r.at => \A x \in DOMAIN r.at : at[x] = r.at[x])
  OBVIOUS
<1> HIDE DEF p, at
<1>4. p = [batches |-> p.batches, at |-> p.at, error |-> p.error, todo |-> p.todo]
  BY <1>1 DEF BatchTyped
<1>5. s = [batches |-> p.batches, at |-> at, error |-> p.error, todo |-> p.todo]
  BY <1>2, <1>4
<1> HIDE DEF s
<1>6. s.batches = p.batches /\ s.at = at /\ s.error = p.error /\ s.todo = p.todo
  BY <1>5
<1>7. BatchTyped(s)
  BY <1>1, <1>5, <1>6 DEF BatchTyped
<1>8. PushedTo(r, s, L, n)
  BY <1>1, <1>6 DEF PushedTo
<1> QED BY <1>1, <1>6, <1>7, <1>8, <1>3 DEF s

(***************************************************************************)
(* It is then in that batch, and nothing else has changed.                 *)
(***************************************************************************)
Grown(r, s, L, n) ==
  /\ \A k \in DOMAIN r.batches : k \in DOMAIN s.batches /\ Range(r.batches[k]) \subseteq Range(s.batches[k])
  /\ L \in DOMAIN s.batches /\ n \in Range(s.batches[L])
  /\ \A k \in DOMAIN s.batches : \A x \in Range(s.batches[k]) :
        x = n \/ (k \in DOMAIN r.batches /\ x \in Range(r.batches[k]))

LEMMA PushedIn ==
  ASSUME NEW r, BatchTyped(r), NEW L, NEW n \in Names \cup EventNames, NEW s, PushedTo(r, s, L, n)
  PROVE  Grown(r, s, L, n) /\ \A x : In(s, x) <=> In(r, x) \/ x = n
<1> DEFINE old == IF L \in DOMAIN r.batches THEN r.batches[L] ELSE <<>>
<1>1. old \in Seq(Names \cup EventNames)
  BY DEF BatchTyped
<1>2. /\ DOMAIN s.batches = DOMAIN r.batches \cup {L}
      /\ \A k \in DOMAIN r.batches \ {L} : s.batches[k] = r.batches[k]
      /\ s.batches[L] = Append(old, n)
  BY DEF PushedTo
<1>3. L \in DOMAIN r.batches => old = r.batches[L]
  OBVIOUS
<1>4. L \notin DOMAIN r.batches => Range(old) = {}
  BY DEF Range
<1> HIDE DEF old
<1>5. Range(s.batches[L]) = Range(old) \cup {n}
  BY <1>1, <1>2, AppendRange
<1>6. \A k \in DOMAIN r.batches : k \in DOMAIN s.batches /\ Range(r.batches[k]) \subseteq Range(s.batches[k])
  BY <1>2, <1>3, <1>5
<1>7. L \in DOMAIN s.batches /\ n \in Range(s.batches[L])
  BY <1>2, <1>5
<1>8. \A k \in DOMAIN s.batches : \A x \in Range(s.batches[k]) :
        x = n \/ (k \in DOMAIN r.batches /\ x \in Range(r.batches[k]))
  BY <1>2, <1>3, <1>4, <1>5
<1>9. \A x : In(s, x) <=> In(r, x) \/ x = n
  BY <1>6, <1>7, <1>8 DEF In
<1> QED BY <1>6, <1>7, <1>8, <1>9 DEF Grown

LEMMA PushedOnce ==
  ASSUME NEW r, BatchTyped(r), Once(r), NEW L, NEW n \in Names \cup EventNames, ~In(r, n),
         NEW s, PushedTo(r, s, L, n)
  PROVE  Once(s)
<1> DEFINE old == IF L \in DOMAIN r.batches THEN r.batches[L] ELSE <<>>
           N == Len(old)
<1>1. old \in Seq(Names \cup EventNames)
  BY DEF BatchTyped
<1>2. /\ DOMAIN s.batches = DOMAIN r.batches \cup {L}
      /\ \A k \in DOMAIN r.batches \ {L} : s.batches[k] = r.batches[k]
      /\ s.batches[L] = Append(old, n)
  BY DEF PushedTo
<1>3. L \in DOMAIN r.batches => old = r.batches[L]
  OBVIOUS
<1>4. L \notin DOMAIN r.batches => N = 0
  OBVIOUS
<1> HIDE DEF old
<1>5. /\ N \in Nat /\ DOMAIN old = 1 .. N /\ DOMAIN s.batches[L] = 1 .. N + 1
      /\ \A i \in 1 .. N : s.batches[L][i] = old[i]
      /\ s.batches[L][N + 1] = n
  BY <1>1, <1>2
<1> HIDE DEF N
<1>6. \A k \in DOMAIN s.batches : \A i \in DOMAIN s.batches[k] :
        \/ k = L /\ i = N + 1 /\ s.batches[k][i] = n
        \/ k \in DOMAIN r.batches /\ i \in DOMAIN r.batches[k] /\ s.batches[k][i] = r.batches[k][i]
  <2> SUFFICES ASSUME NEW k \in DOMAIN s.batches, NEW i \in DOMAIN s.batches[k]
               PROVE  \/ k = L /\ i = N + 1 /\ s.batches[k][i] = n
                      \/ k \in DOMAIN r.batches /\ i \in DOMAIN r.batches[k] /\ s.batches[k][i] = r.batches[k][i]
    OBVIOUS
  <2>1. CASE k # L
    BY <1>2, <2>1
  <2>2. CASE k = L
    <3>1. i \in 1 .. N + 1
      BY <1>5, <2>2
    <3>2. i = N + 1 \/ i \in 1 .. N
      BY <1>5, <3>1
    <3>3. CASE i = N + 1
      BY <1>5, <2>2, <3>3
    <3>4. CASE i \in 1 .. N
      <4>1. N # 0
        BY <3>4
      <4> QED BY <1>3, <1>4, <1>5, <2>2, <3>4, <4>1
    <3> QED BY <3>2, <3>3, <3>4
  <2> QED BY <2>1, <2>2
<1>7. \A k \in DOMAIN r.batches : \A i \in DOMAIN r.batches[k] : r.batches[k][i] # n
  BY DEF In, Range
<1> QED BY <1>6, <1>7 DEF Once

-----------------------------------------------------------------------------
(* The steps of the batching.  Most take the next call from the list.      *)

Tailed(r, s) ==
  /\ DOMAIN r.todo = 1 .. Len(r.todo) /\ Len(r.todo) \in Nat \ {0}
  /\ \A j \in DOMAIN s.todo : j + 1 \in DOMAIN r.todo /\ s.todo[j] = r.todo[j + 1] /\ j \in Nat \ {0}
  /\ \A j \in DOMAIN r.todo : j = 1 \/ (j - 1 \in DOMAIN s.todo /\ s.todo[j - 1] = r.todo[j])

LEMMA TailedOK ==
  ASSUME NEW r, NEW s, NEW T, r.todo \in Seq(T), r.todo # <<>>, s.todo = Tail(r.todo)
  PROVE  Tailed(r, s)
<1> DEFINE M == Len(r.todo)
<1>1. /\ M \in Nat \ {0} /\ DOMAIN r.todo = 1 .. M
      /\ DOMAIN Tail(r.todo) = 1 .. M - 1
      /\ \A i \in 1 .. M - 1 : Tail(r.todo)[i] = r.todo[i + 1]
  BY HeadTail
<1> DEFINE tail == Tail(r.todo)
<1> HIDE DEF tail
<1>2. DOMAIN tail = 1 .. M - 1 /\ \A i \in 1 .. M - 1 : tail[i] = r.todo[i + 1]
  BY <1>1 DEF tail
<1>3. s.todo = tail
  BY DEF tail
<1> HIDE DEF M
<1>4. \A j \in DOMAIN s.todo : j + 1 \in DOMAIN r.todo /\ s.todo[j] = r.todo[j + 1] /\ j \in Nat \ {0}
  BY <1>1, <1>2, <1>3
<1>5. ASSUME NEW j \in DOMAIN r.todo, j # 1
      PROVE  j - 1 \in DOMAIN s.todo /\ s.todo[j - 1] = r.todo[j]
  <2>1. j - 1 \in 1 .. M - 1 /\ (j - 1) + 1 = j
    BY <1>1, <1>5
  <2>2. tail[j - 1] = r.todo[(j - 1) + 1]
    BY <1>2, <2>1
  <2> QED BY <1>2, <1>3, <2>1, <2>2
<1> QED BY <1>1, <1>4, <1>5 DEF Tailed, M

LEMMA NextCallOK ==
  ASSUME Planned, NEW r, NEW s, Tailed(r, s), CallsOK(r), AllBatched(r),
         \A y : In(s, y) <=> In(r, y) \/ y = r.todo[1].element.name
  PROVE  CallsOK(s) /\ AllBatched(s)
<1> DEFINE x == r.todo[1].element
<1>1. 1 \in DOMAIN r.todo
  BY DEF Tailed
<1>2. CallsOK(s)
  <2> SUFFICES ASSUME NEW j \in DOMAIN s.todo
               PROVE  /\ s.todo[j].element \in Range(plan.order) /\ Range(s.todo[j].args) \subseteq BindingNames
                      /\ ~IsContract(s.todo[j].element) =>
                           /\ ~In(s, s.todo[j].element.name)
                           /\ \A i \in DOMAIN s.todo : s.todo[i].element.name = s.todo[j].element.name => i = j
    BY DEF CallsOK
  <2>1. j + 1 \in DOMAIN r.todo /\ s.todo[j] = r.todo[j + 1] /\ j \in Nat \ {0}
    BY DEF Tailed
  <2>2. /\ r.todo[j + 1].element \in Range(plan.order) /\ Range(r.todo[j + 1].args) \subseteq BindingNames
        /\ ~IsContract(r.todo[j + 1].element) =>
             /\ ~In(r, r.todo[j + 1].element.name)
             /\ \A i \in DOMAIN r.todo : r.todo[i].element.name = r.todo[j + 1].element.name => i = j + 1
    BY <2>1 DEF CallsOK
  <2>3. ASSUME ~IsContract(s.todo[j].element)
        PROVE  ~In(s, s.todo[j].element.name)
    <3>1. 1 # j + 1
      BY <2>1
    <3>2. x.name # r.todo[j + 1].element.name
      BY <1>1, <2>1, <2>2, <2>3, <3>1
    <3> QED BY <2>1, <2>2, <2>3, <3>2
  <2>4. ASSUME ~IsContract(s.todo[j].element), NEW i \in DOMAIN s.todo,
               s.todo[i].element.name = s.todo[j].element.name
        PROVE  i = j
    <3>1. i + 1 \in DOMAIN r.todo /\ s.todo[i] = r.todo[i + 1] /\ i \in Nat
      BY DEF Tailed
    <3>2. i + 1 = j + 1
      BY <2>1, <2>2, <2>4, <3>1
    <3> QED BY <2>1, <3>1, <3>2
  <2> QED BY <2>1, <2>2, <2>3, <2>4
<1>3. AllBatched(s)
  <2> SUFFICES ASSUME NEW y \in Range(plan.order)
               PROVE  In(s, y.name) \/ \E j \in DOMAIN s.todo : s.todo[j].element.name = y.name
    BY DEF AllBatched
  <2>1. CASE In(r, y.name)
    BY <2>1
  <2>2. ASSUME NEW j \in DOMAIN r.todo, r.todo[j].element.name = y.name
        PROVE  In(s, y.name) \/ \E i \in DOMAIN s.todo : s.todo[i].element.name = y.name
    <3>1. CASE j = 1
      BY <2>2, <3>1
    <3>2. CASE j # 1
      BY <2>2, <3>2 DEF Tailed
    <3> QED BY <3>1, <3>2
  <2> QED BY <2>1, <2>2 DEF AllBatched
<1> QED BY <1>2, <1>3

LEMMA NextArgsOK ==
  ASSUME Planned, NEW r, NEW s, Tailed(r, s), CallsOK(r), ArgsFirst(r), NaN \notin DOMAIN s.batches,
         \A y : Batched(r, y) => Batched(s, y),
         IsContract(r.todo[1].element) => Batched(s, r.todo[1].element.name)
  PROVE  ArgsFirst(s)
<1> DEFINE x == r.todo[1].element
<1>1. 1 \in DOMAIN r.todo /\ x \in Range(plan.order)
  BY DEF Tailed, CallsOK
<1> SUFFICES ASSUME NEW j \in DOMAIN s.todo
             PROVE  /\ s.todo[j].current # NaN
                    /\ IsContract(s.todo[j].element) =>
                         /\ s.todo[j].args = ArgsOf(s.todo[j].element.name)
                         /\ \A d \in Range(s.todo[j].args) :
                              Batched(s, d) \/ \E i \in 1 .. j - 1 : s.todo[i].element.name = d
  BY DEF ArgsFirst
<1>2. j + 1 \in DOMAIN r.todo /\ s.todo[j] = r.todo[j + 1] /\ j \in Nat \ {0}
  BY DEF Tailed
<1>3. /\ r.todo[j + 1].current # NaN
      /\ IsContract(r.todo[j + 1].element) =>
           /\ r.todo[j + 1].args = ArgsOf(r.todo[j + 1].element.name)
           /\ \A d \in Range(r.todo[j + 1].args) :
                Batched(r, d) \/ \E i \in 1 .. (j + 1) - 1 : r.todo[i].element.name = d
  BY <1>2 DEF ArgsFirst
<1>4. Range(s.todo[j].args) \subseteq BindingNames
  BY <1>2 DEF CallsOK
<1>5. ASSUME IsContract(s.todo[j].element), NEW d \in Range(s.todo[j].args)
      PROVE  Batched(s, d) \/ \E i \in 1 .. j - 1 : s.todo[i].element.name = d
  <2>1. CASE Batched(r, d)
    BY <2>1
  <2>2. ASSUME NEW i \in 1 .. (j + 1) - 1, r.todo[i].element.name = d
        PROVE  Batched(s, d) \/ \E k \in 1 .. j - 1 : s.todo[k].element.name = d
    <3>1. CASE i = 1
      <4>1. IsContract(x)
        BY <1>1, <1>4, <2>2, <3>1, ElementOK
      <4> QED BY <2>2, <3>1, <4>1
    <3>2. CASE i # 1
      <4>1. i \in DOMAIN r.todo /\ i - 1 \in 1 .. j - 1
        BY <1>2, <3>2 DEF Tailed
      <4>2. s.todo[i - 1] = r.todo[i]
        BY <3>2, <4>1 DEF Tailed
      <4> QED BY <2>2, <4>1, <4>2
    <3> QED BY <3>1, <3>2
  <2> QED BY <1>2, <1>3, <1>5, <2>1, <2>2
<1> QED BY <1>2, <1>3, <1>5

LEMMA NextFullOK ==
  ASSUME NEW r, NEW s, Tailed(r, s), Full(r),
         NEW m \in {BatchCount(r), BatchCount(r) + 1}, m # 0, DOMAIN s.batches \ {NaN} = 0 .. m - 1
  PROVE  Full(s)
<1>1. BatchCount(r) \in Nat /\ FullTo(r, BatchCount(r))
  BY DEF Full
<1>2. m \in Nat /\ 0 .. BatchCount(r) \subseteq 0 .. m
  BY <1>1
<1>3. \A j \in DOMAIN s.todo : s.todo[j].current \in {NaN, 1} \cup 0 .. m
  <2>1. \A j \in DOMAIN r.todo : r.todo[j].current \in {NaN, 1} \cup 0 .. BatchCount(r)
    BY <1>1 DEF FullTo
  <2>2. \A j \in DOMAIN s.todo : j + 1 \in DOMAIN r.todo /\ s.todo[j] = r.todo[j + 1]
    BY DEF Tailed
  <2> QED BY <1>2, <2>1, <2>2
<1>4. FullTo(s, m)
  BY <1>3 DEF FullTo
<1>5. BatchCount(s) = m
  BY <1>2, BatchCountIs
<1> QED BY <1>2, <1>4, <1>5 DEF Full

(***************************************************************************)
(* The batch that an element has been pushed into is written down.         *)
(***************************************************************************)
WrittenDown(r, s, L, n) ==
  /\ n \notin DOMAIN r.at /\ DOMAIN s.at = DOMAIN r.at \cup {n}
  /\ s.at[n] = L /\ \A x \in DOMAIN r.at : s.at[x] = r.at[x]

LEMMA PlacedOK ==
  ASSUME NEW r, BatchTyped(r), Placed(r), AllPlaced(r), NEW L, NEW n \in Names \cup EventNames,
         NEW s, PushedTo(r, s, L, n), WrittenDown(r, s, L, n)
  PROVE  Placed(s) /\ AllPlaced(s) /\ Batched(s, n) /\ s.at[n] = L
         /\ \A x : Batched(r, x) => Batched(s, x) /\ s.at[x] = r.at[x]
<1>1. Grown(r, s, L, n)
  BY PushedIn
<1>2. /\ n \notin DOMAIN r.at /\ DOMAIN s.at = DOMAIN r.at \cup {n}
      /\ s.at[n] = L /\ \A x \in DOMAIN r.at : s.at[x] = r.at[x]
  BY DEF WrittenDown
<1>3. Placed(s)
  BY <1>1, <1>2 DEF Placed, Grown
<1>4. AllPlaced(s)
  BY <1>1, <1>2 DEF AllPlaced, Grown
<1> QED BY <1>2, <1>3, <1>4 DEF Batched

LEMMA AfterCall ==
  ASSUME NEW r, BatchTyped(r), r.todo # <<>>
  PROVE  LET after == [r EXCEPT !.todo = Tail(r.todo)] IN
         /\ BatchTyped(after) /\ after.todo = Tail(r.todo) /\ after.batches = r.batches
         /\ after.at = r.at /\ after.error = r.error
         /\ 1 \in DOMAIN r.todo /\ Head(r.todo) = r.todo[1] /\ r.todo[1] \in CallRecord
         /\ Tail(r.todo) \in Seq(CallRecord) /\ r.todo \in Seq(CallRecord)
<1> DEFINE tail  == Tail(r.todo)
           after == [r EXCEPT !.todo = tail]
<1>1. /\ r = [batches |-> r.batches, at |-> r.at, error |-> r.error, todo |-> r.todo]
      /\ r.error \in Errors \cup {Nothing} /\ r.todo \in Seq(CallRecord)
      /\ \A k \in DOMAIN r.batches : r.batches[k] \in Seq(Names \cup EventNames)
  BY DEF BatchTyped
<1>2. /\ 1 \in DOMAIN r.todo /\ Head(r.todo) = r.todo[1] /\ r.todo[1] \in CallRecord
      /\ tail \in Seq(CallRecord)
  BY <1>1, HeadTail
<1> HIDE DEF tail
<1>3. after = [batches |-> r.batches, at |-> r.at, error |-> r.error, todo |-> tail]
  BY <1>1
<1> HIDE DEF after
<1>4. after.batches = r.batches /\ after.at = r.at /\ after.error = r.error /\ after.todo = tail
  BY <1>3
<1>5. BatchTyped(after)
  BY <1>1, <1>2, <1>3, <1>4 DEF BatchTyped
<1> QED BY <1>1, <1>2, <1>4, <1>5 DEF after, tail

LEMMA CountOK ==
  ASSUME NEW r, Full(r)
  PROVE  /\ BatchCount(r) \in Nat /\ DOMAIN r.batches \ {NaN} = 0 .. BatchCount(r) - 1
         /\ BatchCount(r) = 0 => DOMAIN r.at = {}
         /\ r.todo # <<>> /\ 1 \in DOMAIN r.todo /\ Head(r.todo) = r.todo[1] =>
              /\ r.todo[1].current \in {NaN} \cup 0 .. BatchCount(r)
              /\ BatchCount(r) = 0 => r.todo[1].current = 0
<1>1. BatchCount(r) \in Nat /\ FullTo(r, BatchCount(r))
  BY DEF Full
<1> QED BY <1>1 DEF FullTo

(***************************************************************************)
(* The next element is pushed into a batch that is there or next.          *)
(***************************************************************************)
LEMMA PushOK ==
  ASSUME Planned, NEW r, BatchTyped(r), BatchOK(r), r.todo # <<>>,
         NEW n \in Names \cup EventNames, n = r.todo[1].element.name, ~In(r, n),
         NEW L \in {NaN} \cup 0 .. BatchCount(r), BatchCount(r) = 0 => L # NaN, ~LibraryWithArgs => L # NaN,
         NEW s, s.todo = Tail(r.todo), PushedTo(r, s, L, n)
  PROVE  /\ Once(s) /\ CallsOK(s) /\ AllBatched(s) /\ Full(s)
         /\ /\ \A y : Batched(r, y) => Batched(s, y)
            /\ IsContract(r.todo[1].element) => Batched(s, n)
            /\ ~LibraryWithArgs
            => ArgsFirst(s)
<1>1. Tailed(r, s)
  BY TailedOK DEF BatchTyped
<1>2. \A y : In(s, y) <=> In(r, y) \/ y = n
  BY PushedIn
<1>3. Once(s)
  BY PushedOnce DEF BatchOK
<1>4. CallsOK(s) /\ AllBatched(s)
  BY <1>1, <1>2, NextCallOK DEF BatchOK
<1>5. Full(s)
  <2> DEFINE m == IF L = BatchCount(r) THEN BatchCount(r) + 1 ELSE BatchCount(r)
  <2>1. BatchCount(r) \in Nat /\ DOMAIN r.batches \ {NaN} = 0 .. BatchCount(r) - 1
    BY CountOK DEF BatchOK
  <2>2. DOMAIN s.batches = DOMAIN r.batches \cup {L}
    BY DEF PushedTo
  <2>3. m \in {BatchCount(r), BatchCount(r) + 1} /\ m # 0
    BY <2>1
  <2>4. NaN \notin Nat
    BY DEF NaN
  <2>5. DOMAIN s.batches \ {NaN} = 0 .. m - 1
    <3>1. CASE L = NaN
      BY <2>1, <2>2, <2>4, <3>1
    <3>2. CASE L = BatchCount(r)
      BY <2>1, <2>2, <2>4, <3>2
    <3>3. CASE L # NaN /\ L # BatchCount(r)
      <4>1. L \in 0 .. BatchCount(r) - 1
        BY <2>1, <3>3
      <4> QED BY <2>1, <2>2, <2>4, <3>3, <4>1
    <3> QED BY <3>1, <3>2, <3>3
  <2> HIDE DEF m
  <2> QED BY <1>1, <2>3, <2>5, NextFullOK DEF BatchOK
<1>6. ASSUME \A y : Batched(r, y) => Batched(s, y), IsContract(r.todo[1].element) => Batched(s, n), ~LibraryWithArgs
      PROVE  ArgsFirst(s)
  <2>1. ArgsFirst(r)
    BY <1>6 DEF BatchOK
  <2>2. NaN \notin DOMAIN s.batches
    <3>1. NaN \notin DOMAIN r.batches
      BY <2>1 DEF ArgsFirst
    <3>2. DOMAIN s.batches = DOMAIN r.batches \cup {L}
      BY DEF PushedTo
    <3> QED BY <1>6, <3>1, <3>2
  <2> QED BY <1>1, <1>6, <2>1, <2>2, NextArgsOK DEF BatchOK
<1> QED BY <1>3, <1>4, <1>5, <1>6

\* An element goes into a batch as its call ends.
LEMMA PlaceOK ==
  ASSUME Planned, NEW r, BatchTyped(r), BatchOK(r), r.todo # <<>>,
         NEW n \in Names \cup EventNames, n = r.todo[1].element.name, ~In(r, n),
         NEW L \in {NaN} \cup 0 .. BatchCount(r), BatchCount(r) = 0 => L # NaN, ~LibraryWithArgs => L # NaN,
         ~LibraryWithArgs /\ n \in BindingNames => \A d \in Range(ArgsOf(n)) : Batched(r, d) /\ r.at[d] < L,
         ~LibraryWithArgs /\ n \in NamesOfEvents /\ EventOf(n).type \in After
            => \A d \in Uses(EventOf(n)) : Batched(r, d) /\ r.at[d] < L
  PROVE  LET s == Place([r EXCEPT !.todo = Tail(r.todo)], L, n) IN BatchTyped(s) /\ s.error = r.error /\ BatchOK(s)
<1> DEFINE after == [r EXCEPT !.todo = Tail(r.todo)]
           s     == Place(after, L, n)
<1>1. /\ BatchTyped(after) /\ after.todo = Tail(r.todo) /\ after.batches = r.batches
      /\ after.at = r.at /\ after.error = r.error
  BY AfterCall
<1> HIDE DEF after
<1>2. n \notin DOMAIN r.at
  BY DEF BatchOK, Placed, In
<1>3. /\ BatchTyped(s) /\ PushedTo(after, s, L, n) /\ s.todo = after.todo /\ s.error = after.error
      /\ DOMAIN s.at = DOMAIN after.at \cup {n} /\ s.at[n] = L
      /\ (n \notin DOMAIN after.at => \A x \in DOMAIN after.at : s.at[x] = after.at[x])
  BY <1>1, PlaceFacts
<1> HIDE DEF s
<1>4. PushedTo(r, s, L, n) /\ s.todo = Tail(r.todo)
  BY <1>1, <1>3 DEF PushedTo
<1>5. /\ Placed(s) /\ AllPlaced(s) /\ Batched(s, n) /\ s.at[n] = L
      /\ \A x : Batched(r, x) => Batched(s, x) /\ s.at[x] = r.at[x]
  <2>1. Placed(r) /\ AllPlaced(r)
    BY DEF BatchOK
  <2>2. WrittenDown(r, s, L, n)
    BY <1>1, <1>2, <1>3 DEF WrittenDown
  <2> QED BY <1>4, <2>1, <2>2, PlacedOK
<1>6. Once(s) /\ CallsOK(s) /\ AllBatched(s) /\ Full(s) /\ (~LibraryWithArgs => ArgsFirst(s))
  BY <1>4, <1>5, PushOK
<1>7. ASSUME ~LibraryWithArgs
      PROVE  Deeper(s)
  <2>1. Deeper(r)
    BY <1>7 DEF BatchOK
  <2>2. \A x \in DOMAIN s.at : x = n \/ Batched(r, x)
    BY <1>1, <1>3 DEF Batched
  <2>3. \A x : Batched(r, x) <=> x \in DOMAIN r.at
    BY DEF Batched
  <2> SUFFICES ASSUME NEW x \in DOMAIN s.at
               PROVE  /\ x \in BindingNames => \A d \in Range(ArgsOf(x)) : Batched(s, d) /\ s.at[d] < s.at[x]
                      /\ x \in NamesOfEvents /\ EventOf(x).type \in After =>
                           \A d \in Uses(EventOf(x)) : Batched(s, d) /\ s.at[d] < s.at[x]
    BY DEF Deeper
  <2>4. CASE x = n
    BY <1>5, <1>7, <2>4
  <2>5. CASE Batched(r, x)
    <3>1. /\ x \in BindingNames => \A d \in Range(ArgsOf(x)) : Batched(r, d) /\ r.at[d] < r.at[x]
          /\ x \in NamesOfEvents /\ EventOf(x).type \in After =>
               \A d \in Uses(EventOf(x)) : Batched(r, d) /\ r.at[d] < r.at[x]
      BY <2>1, <2>3, <2>5 DEF Deeper
    <3> QED BY <1>5, <2>5, <3>1
  <2> QED BY <2>2, <2>4, <2>5
<1>8. BatchOK(s)
  BY <1>5, <1>6, <1>7 DEF BatchOK
<1> QED BY <1>1, <1>3, <1>8 DEF s, after

(***************************************************************************)
(* A contract that is batched already.                                     *)
(***************************************************************************)
LEMMA SkipOK ==
  ASSUME Planned, NEW r, BatchTyped(r), BatchOK(r), r.todo # <<>>, Batched(r, r.todo[1].element.name)
  PROVE  LET s == [r EXCEPT !.todo = Tail(r.todo)] IN BatchTyped(s) /\ s.error = r.error /\ BatchOK(s)
<1> DEFINE s == [r EXCEPT !.todo = Tail(r.todo)]
           n == r.todo[1].element.name
<1>1. /\ BatchTyped(s) /\ s.todo = Tail(r.todo) /\ s.batches = r.batches
      /\ s.at = r.at /\ s.error = r.error
  BY AfterCall
<1> HIDE DEF s
<1>2. Tailed(r, s)
  BY <1>1, TailedOK DEF BatchTyped
<1>3. \A y : (In(s, y) <=> In(r, y)) /\ (Batched(s, y) <=> Batched(r, y))
  BY <1>1 DEF In, Batched
<1>4. In(r, n)
  BY DEF BatchOK, Placed, In, Batched
<1>5. CallsOK(s) /\ AllBatched(s)
  BY <1>2, <1>3, <1>4, NextCallOK DEF BatchOK
<1>6. Placed(s) /\ Once(s) /\ AllPlaced(s) /\ (Deeper(r) => Deeper(s))
  <2>1. Placed(s) /\ Once(s) /\ AllPlaced(s)
    BY <1>1 DEF BatchOK, Placed, Once, AllPlaced
  <2>2. Deeper(r) => Deeper(s)
    BY <1>1, <1>3 DEF Deeper
  <2> QED BY <2>1, <2>2
<1>7. Full(s)
  <2>1. /\ BatchCount(r) \in Nat /\ DOMAIN r.batches \ {NaN} = 0 .. BatchCount(r) - 1
        /\ BatchCount(r) # 0
    BY CountOK DEF BatchOK, Batched
  <2>2. DOMAIN s.batches \ {NaN} = 0 .. BatchCount(r) - 1
    BY <1>1, <2>1
  <2> QED BY <1>2, <2>1, <2>2, NextFullOK DEF BatchOK
<1>8. ArgsFirst(r) => ArgsFirst(s)
  <2>1. ArgsFirst(r) => NaN \notin DOMAIN s.batches
    BY <1>1 DEF ArgsFirst
  <2> QED BY <1>2, <1>3, <2>1, NextArgsOK DEF BatchOK
<1> QED BY <1>1, <1>5, <1>6, <1>7, <1>8 DEF BatchOK, s

(***************************************************************************)
(* A hook of the module goes into the first batch, and is not written      *)
(* down.                                                                   *)
(***************************************************************************)
LEMMA ModuleHookCallOK ==
  ASSUME Planned, NEW r, BatchTyped(r), BatchOK(r), r.todo # <<>>, r.todo[1].element.type \in ModuleHookTypes
  PROVE  LET s == PushTo([r EXCEPT !.todo = Tail(r.todo)], 0, r.todo[1].element.name)
         IN BatchTyped(s) /\ s.error = r.error /\ BatchOK(s)
<1> DEFINE after == [r EXCEPT !.todo = Tail(r.todo)]
           x == r.todo[1].element
           n == x.name
           s == PushTo(after, 0, n)
<1>1. /\ BatchTyped(after) /\ after.todo = Tail(r.todo) /\ after.batches = r.batches
      /\ after.at = r.at /\ after.error = r.error /\ 1 \in DOMAIN r.todo
  BY AfterCall
<1>2. x \in Range(plan.order) /\ (~IsContract(x) => ~In(r, n))
  BY <1>1 DEF BatchOK, CallsOK
<1>3. n \in Names \cup EventNames /\ IsModuleHook(n) /\ ~IsContract(x)
  <2>1. n \in Names \cup EventNames /\ IsModuleHook(n)
    BY <1>2, ElementOK
  <2>2. ~IsContract(x)
    BY TypesApart DEF IsContract
  <2> QED BY <2>1, <2>2
<1> HIDE DEF after, n
<1>4. /\ BatchTyped(s) /\ PushedTo(after, s, 0, n) /\ s.todo = after.todo /\ s.at = after.at
      /\ s.error = after.error
  BY <1>1, <1>3, PushFacts
<1> HIDE DEF s
<1>5. PushedTo(r, s, 0, n) /\ s.todo = Tail(r.todo) /\ s.at = r.at
  BY <1>1, <1>4 DEF PushedTo
<1>6. Grown(r, s, 0, n)
  BY <1>3, <1>5, PushedIn
<1>7. Placed(s)
  BY <1>5, <1>6 DEF BatchOK, Placed, Grown
<1>8. AllPlaced(s)
  BY <1>3, <1>5, <1>6 DEF BatchOK, AllPlaced, Grown
<1>9. \A y : Batched(s, y) <=> Batched(r, y)
  BY <1>5 DEF Batched
<1>10. 0 \in {NaN} \cup 0 .. BatchCount(r) /\ 0 # NaN
  BY CountOK DEF BatchOK, NaN
<1>11. Once(s) /\ CallsOK(s) /\ AllBatched(s) /\ Full(s) /\ (~LibraryWithArgs => ArgsFirst(s))
  BY <1>2, <1>3, <1>5, <1>9, <1>10, PushOK DEF n
<1>12. Deeper(r) => Deeper(s)
  BY <1>5, <1>9 DEF Deeper
<1> QED BY <1>1, <1>4, <1>7, <1>8, <1>11, <1>12 DEF BatchOK, s, after, n

(***************************************************************************)
(* A contract whose arguments are batched.                                 *)
(***************************************************************************)
LEMMA ContractCallOK ==
  ASSUME Planned, NEW r, BatchTyped(r), BatchOK(r), r.todo # <<>>,
         IsContract(r.todo[1].element), ~Batched(r, r.todo[1].element.name),
         \A i \in DOMAIN r.todo[1].args : Batched(r, r.todo[1].args[i])
  PROVE  LET after == [r EXCEPT !.todo = Tail(r.todo)]
             s == Place(after, Level(after, r.todo[1].current, r.todo[1].args), r.todo[1].element.name)
         IN BatchTyped(s) /\ s.error = r.error /\ BatchOK(s)
<1> DEFINE after == [r EXCEPT !.todo = Tail(r.todo)]
           call == r.todo[1]
           x == call.element
           n == x.name
           L == Level(after, call.current, call.args)
<1>1. /\ BatchTyped(after) /\ after.todo = Tail(r.todo) /\ after.batches = r.batches
      /\ after.at = r.at /\ after.error = r.error /\ 1 \in DOMAIN r.todo /\ Head(r.todo) = r.todo[1]
  BY AfterCall
<1>2. x \in Range(plan.order)
  BY <1>1 DEF BatchOK, CallsOK
<1>3. n \in Names \cup EventNames /\ n \in BindingNames /\ ~IsModuleHook(n) /\ n \notin NamesOfEvents
  <2>1. n \in Names \cup EventNames /\ n \in BindingNames /\ (IsModuleHook(n) <=> x.type \in ModuleHookTypes)
    BY <1>2, ElementOK
  <2>2. x.type \notin ModuleHookTypes
    BY TypesApart DEF IsContract
  <2>3. n \notin NamesOfEvents
    BY <2>1, NamesApart DEF Planned
  <2> QED BY <2>1, <2>2, <2>3
<1>4. ~In(r, n)
  BY <1>3 DEF BatchOK, AllPlaced, In, Batched
<1>5. /\ BatchCount(r) \in Nat /\ DOMAIN r.batches \ {NaN} = 0 .. BatchCount(r) - 1
      /\ BatchCount(r) = 0 => DOMAIN r.at = {}
      /\ call.current \in {NaN} \cup 0 .. BatchCount(r)
      /\ BatchCount(r) = 0 => call.current = 0
  BY <1>1, CountOK DEF BatchOK
<1>6. \A names : BatchesOf(after, names) = BatchesOf(r, names)
  BY <1>1 DEF BatchesOf
<1>7. L = Level(r, call.current, call.args)
  BY <1>6 DEF Level
<1> HIDE DEF after, L
<1>8. /\ call.current = NaN => L = NaN
      /\ call.current # NaN => /\ L \in 0 .. BatchCount(r)
                               /\ \A k \in BatchesOf(r, call.args) : k < L
                               /\ DOMAIN r.at = {} => L = call.current
  BY <1>5, <1>7, LevelOK DEF BatchOK
<1>9. 0 # NaN /\ NaN \notin Nat
  BY DEF NaN
<1>10. L \in {NaN} \cup 0 .. BatchCount(r) /\ (BatchCount(r) = 0 => L # NaN)
  BY <1>5, <1>8, <1>9
<1>11. ASSUME ~LibraryWithArgs
       PROVE  L # NaN /\ \A d \in Range(ArgsOf(n)) : Batched(r, d) /\ r.at[d] < L
  <2>1. ArgsFirst(r) /\ Placed(r)
    BY <1>11 DEF BatchOK
  <2>2. call.current # NaN /\ call.args = ArgsOf(n) /\ NaN \notin DOMAIN r.batches
    BY <1>1, <2>1 DEF ArgsFirst
  <2>3. L # NaN /\ L \in 0 .. BatchCount(r)
    BY <1>5, <1>8, <1>9, <2>2
  <2>4. ASSUME NEW d \in Range(ArgsOf(n))
        PROVE  Batched(r, d) /\ r.at[d] < L
    <3>1. PICK i \in DOMAIN call.args : call.args[i] = d
      BY <2>2 DEF Range
    <3>2. Batched(r, d) /\ r.at[d] \in DOMAIN r.batches
      BY <2>1, <3>1 DEF Placed, Batched
    <3>3. r.at[d] \in BatchesOf(r, call.args)
      BY <1>5, <2>1, <2>2, <3>1, <3>2, BatchesOfOK
    <3> QED BY <1>8, <2>2, <3>2, <3>3
  <2> QED BY <2>3, <2>4
<1> QED BY <1>3, <1>4, <1>10, <1>11, PlaceOK DEF after, L

(***************************************************************************)
(* A contract with an argument that has to be batched first, which only    *)
(* occurs with libraries that have arguments.                              *)
(***************************************************************************)
ArgumentCall(call, i, L) == Call(ContractElement(call.args[i]), L)
OtherCalls(call, i) == [call EXCEPT !.current = NaN, !.args = SubSeq(call.args, i + 1, Len(call.args))]

CallsSplit(call, argument, others, L) ==
  /\ argument \in CallRecord /\ argument.element \in Range(plan.order) /\ IsContract(argument.element)
  /\ argument.current = L /\ Range(argument.args) \subseteq BindingNames
  /\ others \in CallRecord /\ others.element = call.element /\ others.current = NaN
  /\ Range(others.args) \subseteq BindingNames

LEMMA SubSeqFacts ==
  ASSUME NEW T, NEW t, NEW m \in Int, NEW n \in Int, \A i \in m .. n : t[i] \in T
  PROVE  /\ SubSeq(t, m, n) \in Seq(T) /\ Len(SubSeq(t, m, n)) = IF m <= n THEN n - m + 1 ELSE 0
         /\ \A i \in 1 .. n - m + 1 : SubSeq(t, m, n)[i] = t[m + i - 1]
OBVIOUS

\* What is left of a sequence after its first i elements.
LEMMA SubSeqRest ==
  ASSUME NEW T, NEW t \in Seq(T), NEW i \in 1 .. Len(t)
  PROVE  LET rest == SubSeq(t, i + 1, Len(t)) IN
         /\ rest \in Seq(T) /\ DOMAIN rest = 1 .. Len(t) - i
         /\ \A k \in DOMAIN rest : rest[k] = t[i + k] /\ i + k \in DOMAIN t
<1> DEFINE rest == SubSeq(t, i + 1, Len(t))
           N    == Len(t)
<1>1. N \in Nat /\ i \in Nat /\ i <= N /\ DOMAIN t = 1 .. N /\ \A j \in 1 .. N : t[j] \in T
  OBVIOUS
<1> HIDE DEF N
<1>2. i + 1 \in Int /\ N \in Int /\ \A j \in i + 1 .. N : t[j] \in T
  BY <1>1
<1>3. /\ rest \in Seq(T) /\ Len(rest) = IF i + 1 <= N THEN N - (i + 1) + 1 ELSE 0
      /\ \A k \in 1 .. N - (i + 1) + 1 : rest[k] = t[(i + 1) + k - 1]
  BY <1>2, SubSeqFacts DEF N
<1> HIDE DEF rest
<1>4. Len(rest) = N - i /\ N - (i + 1) + 1 = N - i
  BY <1>1, <1>3
<1>5. DOMAIN rest = 1 .. N - i
  BY <1>3, <1>4
<1>6. \A k \in 1 .. N - i : (i + 1) + k - 1 = i + k /\ i + k \in 1 .. N
  BY <1>1
<1>7. \A k \in DOMAIN rest : rest[k] = t[i + k] /\ i + k \in DOMAIN t
  BY <1>1, <1>3, <1>4, <1>5, <1>6
<1> QED BY <1>3, <1>5, <1>7 DEF rest, N

LEMMA SplitFields ==
  ASSUME Planned, NEW call \in CallRecord, Range(call.args) \subseteq BindingNames, NEW i \in DOMAIN call.args,
         NEW L \in Nat \cup {NaN}
  PROVE  CallsSplit(call, ArgumentCall(call, i, L), OtherCalls(call, i), L)
<1> DEFINE d == call.args[i]
           argument == Call(ContractElement(d), L)
           rest == SubSeq(call.args, i + 1, Len(call.args))
           others == [call EXCEPT !.current = NaN, !.args = rest]
<1>1. d \in BindingNames /\ BindingNames \subseteq Names
  BY NamesApart DEF Range, Planned
<1>2. /\ ContractElement(d) \in Range(plan.order) /\ ContractElement(d).name = d
      /\ IsContract(ContractElement(d)) /\ ContractElement(d) \in ElementRecord
  BY <1>1, ContractsOK, ElementOK
<1>3. ArgsOf(d) \in Seq(BindingNames) /\ ArgsOf(d) \in Seq(Names) /\ Range(ArgsOf(d)) \subseteq BindingNames
  <2>1. ArgsOf(d) \in Seq(BindingNames)
    BY <1>1, NeedsOfBinding DEF Planned
  <2> QED BY <1>1, <2>1, SeqMono DEF Range
<1> HIDE DEF d
<1>4. argument = [element |-> ContractElement(d), current |-> L, args |-> ArgsOf(d)]
  BY <1>2 DEF Call
<1>5. /\ argument \in CallRecord /\ argument.element = ContractElement(d) /\ argument.current = L
      /\ argument.args = ArgsOf(d)
  BY <1>2, <1>3, <1>4 DEF CallRecord
<1>6. rest \in Seq(Names) /\ Range(rest) \subseteq BindingNames
  <2>1. call.args \in Seq(Names) /\ i \in 1 .. Len(call.args)
    BY DEF CallRecord
  <2>2. \A k \in DOMAIN call.args : call.args[k] \in BindingNames
    BY DEF Range
  <2>3. rest \in Seq(Names) /\ \A k \in DOMAIN rest : rest[k] = call.args[i + k] /\ i + k \in DOMAIN call.args
    BY <2>1, SubSeqRest
  <2> HIDE DEF rest
  <2> QED BY <2>2, <2>3 DEF Range
<1> HIDE DEF rest, argument
<1>7. others \in CallRecord /\ others.element = call.element /\ others.current = NaN /\ others.args = rest
  BY <1>6 DEF CallRecord
<1> HIDE DEF others
<1>8. CallsSplit(call, argument, others, L)
  BY <1>1, <1>2, <1>3, <1>5, <1>6, <1>7 DEF CallsSplit
<1>9. argument = ArgumentCall(call, i, L) /\ others = OtherCalls(call, i)
  BY DEF argument, others, d, rest, ArgumentCall, OtherCalls
<1> QED BY <1>8, <1>9

\* A call that waits for an argument makes two calls of it, which keep the
\* order.
LEMMA SplitOK ==
  ASSUME Planned, NEW r, BatchTyped(r), BatchOK(r), r.todo # <<>>, IsContract(r.todo[1].element),
         NEW i \in DOMAIN r.todo[1].args, ~Batched(r, r.todo[1].args[i]),
         NEW argument \in CallRecord, argument.element \in Range(plan.order), IsContract(argument.element),
         Range(argument.args) \subseteq BindingNames,
         argument.current \in {NaN} \cup 0 .. BatchCount(r), BatchCount(r) = 0 => argument.current = 0,
         NEW others \in CallRecord, others.element = r.todo[1].element, others.current = NaN,
         Range(others.args) \subseteq BindingNames,
         NEW s, BatchTyped(s), s.batches = r.batches, s.at = r.at,
         s.todo = <<argument, others>> \o Tail(r.todo)
  PROVE  BatchOK(s)
<1> DEFINE x == r.todo[1].element
           c == <<argument, others>>
           M == Len(r.todo)
<1>1. r.todo \in Seq(CallRecord) /\ M \in Nat \ {0} /\ DOMAIN r.todo = 1 .. M /\ Head(r.todo) = r.todo[1]
  <2>1. r.todo \in Seq(CallRecord)
    BY DEF BatchTyped
  <2> QED BY <2>1, HeadTail
<1>2. c \in Seq(CallRecord) /\ Len(c) = 2 /\ c[1] = argument /\ c[2] = others
  OBVIOUS
<1> HIDE DEF c
<1>3. Inserted(s.todo, c, r.todo)
  <2>1. s.todo = c \o Tail(r.todo)
    BY DEF c
  <2>2. Inserted(c \o Tail(r.todo), c, r.todo)
    BY <1>1, <1>2, TailConcat
  <2> QED BY <2>1, <2>2
<1>4. /\ DOMAIN s.todo = 1 .. 2 + M - 1 /\ s.todo[1] = argument /\ s.todo[2] = others
      /\ \A k \in 2 .. M : s.todo[2 + k - 1] = r.todo[k]
      /\ \A j \in 1 .. 2 + M - 1 : j <= 2 \/ (j - 2 + 1 \in 2 .. M /\ s.todo[j] = r.todo[j - 2 + 1])
  <2>1. 1 \in 1 .. 2 /\ 2 \in 1 .. 2
    OBVIOUS
  <2> QED BY <1>2, <1>3, <2>1 DEF Inserted
<1>5. /\ 1 \in DOMAIN s.todo /\ 2 \in DOMAIN s.todo
      /\ \A k \in 2 .. M : k + 1 \in DOMAIN s.todo /\ s.todo[k + 1] = r.todo[k]
      /\ \A j \in DOMAIN s.todo : j = 1 \/ j = 2 \/ (j - 1 \in 2 .. M /\ s.todo[j] = r.todo[j - 1])
  <2>1. \A k \in 2 .. M : 2 + k - 1 = k + 1 /\ k + 1 \in 1 .. 2 + M - 1
    BY <1>1
  <2>2. \A j \in 1 .. 2 + M - 1 : j - 2 + 1 = j - 1 /\ (j <= 2 => j = 1 \/ j = 2)
    BY <1>1
  <2>3. 1 \in 1 .. 2 + M - 1 /\ 2 \in 1 .. 2 + M - 1
    BY <1>1
  <2> QED BY <1>4, <2>1, <2>2, <2>3
<1>6. \A y : In(s, y) <=> In(r, y)
  BY DEF In
<1>7. /\ \A j \in DOMAIN r.todo :
            /\ r.todo[j].element \in Range(plan.order) /\ Range(r.todo[j].args) \subseteq BindingNames
            /\ ~IsContract(r.todo[j].element) =>
                 /\ ~In(r, r.todo[j].element.name)
                 /\ \A k \in DOMAIN r.todo : r.todo[k].element.name = r.todo[j].element.name => k = j
      /\ \A j \in 2 .. M : j \in DOMAIN r.todo
      /\ x \in Range(plan.order)
  <2>1. CallsOK(r)
    BY DEF BatchOK
  <2>2. 1 \in DOMAIN r.todo /\ \A j \in 2 .. M : j \in DOMAIN r.todo
    BY <1>1
  <2> QED BY <2>1, <2>2 DEF CallsOK
<1>8. CallsOK(s)
  <2> SUFFICES ASSUME NEW j \in DOMAIN s.todo
               PROVE  /\ s.todo[j].element \in Range(plan.order) /\ Range(s.todo[j].args) \subseteq BindingNames
                      /\ ~IsContract(s.todo[j].element) =>
                           /\ ~In(s, s.todo[j].element.name)
                           /\ \A k \in DOMAIN s.todo : s.todo[k].element.name = s.todo[j].element.name => k = j
    BY DEF CallsOK
  <2>1. CASE j = 1
    BY <1>4, <2>1
  <2>2. CASE j = 2
    BY <1>4, <1>7, <2>2
  <2>3. CASE j - 1 \in 2 .. M /\ s.todo[j] = r.todo[j - 1]
    <3>1. /\ s.todo[j].element \in Range(plan.order) /\ Range(s.todo[j].args) \subseteq BindingNames
          /\ ~IsContract(s.todo[j].element) => ~In(s, s.todo[j].element.name)
      BY <1>6, <1>7, <2>3
    <3>2. ASSUME ~IsContract(s.todo[j].element), NEW k \in DOMAIN s.todo,
                 s.todo[k].element.name = s.todo[j].element.name
          PROVE  k = j
      <4>1. CASE k = 1 \/ k = 2
        <5>1. s.todo[k].element \in Range(plan.order) /\ IsContract(s.todo[k].element)
          BY <1>4, <1>7, <4>1
        <5>2. s.todo[k].element = s.todo[j].element
          BY <3>1, <3>2, <5>1, ElementOK
        <5> QED BY <3>2, <5>1, <5>2
      <4>2. CASE k - 1 \in 2 .. M /\ s.todo[k] = r.todo[k - 1]
        <5>1. k - 1 = j - 1
          <6>1. j - 1 \in DOMAIN r.todo /\ k - 1 \in DOMAIN r.todo
            BY <1>7, <2>3, <4>2
          <6>2. ~IsContract(r.todo[j - 1].element) /\ r.todo[k - 1].element.name = r.todo[j - 1].element.name
            BY <2>3, <3>2, <4>2
          <6> QED BY <1>7, <6>1, <6>2
        <5>2. k \in Int /\ j \in Int
          BY <1>4, <1>1
        <5> QED BY <5>1, <5>2
      <4> QED BY <1>5, <4>1, <4>2
    <3> QED BY <3>1, <3>2
  <2> QED BY <1>5, <2>1, <2>2, <2>3
<1>9. AllBatched(s)
  <2> SUFFICES ASSUME NEW y \in Range(plan.order)
               PROVE  In(s, y.name) \/ \E j \in DOMAIN s.todo : s.todo[j].element.name = y.name
    BY DEF AllBatched
  <2>1. In(r, y.name) \/ \E j \in DOMAIN r.todo : r.todo[j].element.name = y.name
    BY DEF BatchOK, AllBatched
  <2>2. ASSUME NEW j \in DOMAIN r.todo, r.todo[j].element.name = y.name
        PROVE  \E k \in DOMAIN s.todo : s.todo[k].element.name = y.name
    <3>1. CASE j = 1
      BY <1>4, <1>5, <2>2, <3>1
    <3>2. CASE j # 1
      <4>1. j \in 2 .. M
        BY <1>1, <3>2
      <4>2. j + 1 \in DOMAIN s.todo /\ s.todo[j + 1] = r.todo[j]
        BY <1>5, <4>1
      <4> QED BY <2>2, <4>2
    <3> QED BY <3>1, <3>2
  <2> QED BY <1>6, <2>1, <2>2
<1>10. Placed(s) /\ Once(s) /\ AllPlaced(s)
  BY DEF BatchOK, Placed, Once, AllPlaced
<1>11. Full(s)
  <2> DEFINE m == BatchCount(r)
  <2>1. m \in Nat /\ FullTo(r, m)
    BY DEF BatchOK, Full
  <2>2. DOMAIN s.batches \ {NaN} = 0 .. m - 1
    BY <2>1 DEF FullTo
  <2>3. BatchCount(s) = m
    BY <2>1, <2>2, BatchCountIs
  <2>4. \A j \in DOMAIN s.todo : s.todo[j].current \in {NaN, 1} \cup 0 .. m
    <3>1. \A j \in DOMAIN r.todo : r.todo[j].current \in {NaN, 1} \cup 0 .. m
      BY <2>1 DEF FullTo
    <3> QED BY <1>4, <1>5, <1>7, <3>1
  <2>5. Head(s.todo) = argument
    <3>1. s.todo \in Seq(CallRecord) /\ s.todo # <<>>
      BY <1>5 DEF BatchTyped
    <3>2. Head(s.todo) = s.todo[1]
      BY <3>1, HeadTail
    <3> QED BY <1>4, <3>2
  <2> HIDE DEF m
  <2>6. m = 0 => argument.current = 0 /\ DOMAIN s.at = {}
    BY <2>1 DEF FullTo, m
  <2>7. FullTo(s, m)
    BY <2>2, <2>4, <2>5, <2>6 DEF FullTo
  <2> QED BY <2>1, <2>3, <2>7 DEF Full
<1>12. LibraryWithArgs
  <2> SUFFICES ASSUME ArgsFirst(r) PROVE FALSE
    BY DEF BatchOK
  <2>1. 1 \in DOMAIN r.todo
    BY <1>1
  <2>2. \A k \in 1 .. 1 - 1 : FALSE
    OBVIOUS
  <2>3. r.todo[1].args[i] \in Range(r.todo[1].args)
    BY DEF Range
  <2> QED BY <2>1, <2>2, <2>3 DEF ArgsFirst
<1> QED BY <1>8, <1>9, <1>10, <1>11, <1>12 DEF BatchOK

LEMMA FailTyped ==
  ASSUME NEW r, BatchTyped(r), NEW error \in Errors, error # Nothing
  PROVE  BatchTyped(Fail(r, error)) /\ Failed(Fail(r, error))
<1> DEFINE s == [r EXCEPT !.error = error]
<1>1. /\ r = [batches |-> r.batches, at |-> r.at, error |-> r.error, todo |-> r.todo]
      /\ r.todo \in Seq(CallRecord)
      /\ \A k \in DOMAIN r.batches : r.batches[k] \in Seq(Names \cup EventNames)
  BY DEF BatchTyped
<1>2. s = [batches |-> r.batches, at |-> r.at, error |-> error, todo |-> r.todo]
  BY <1>1
<1>3. s = Fail(r, error)
  BY DEF Fail
<1> HIDE DEF s
<1>4. s.batches = r.batches /\ s.at = r.at /\ s.error = error /\ s.todo = r.todo
  BY <1>2
<1>5. BatchTyped(s)
  BY <1>1, <1>2, <1>4 DEF BatchTyped
<1> QED BY <1>3, <1>4, <1>5 DEF Failed

(***************************************************************************)
(* The next call is for a hook of a contract.                              *)
(***************************************************************************)
LEMMA EventOfCall ==
  ASSUME Planned, NEW r, BatchTyped(r), BatchOK(r), r.todo # <<>>,
         ~IsContract(r.todo[1].element), r.todo[1].element.type \notin ModuleHookTypes
  PROVE  LET n == r.todo[1].element.name IN
         /\ n \in NamesOfEvents /\ n \in Names \cup EventNames /\ n \notin BindingNames /\ ~In(r, n)
         /\ EventOf(n).name = n /\ (EventOf(n).deps # <<>> \/ EventOf(n).eventDeps # <<>>)
         /\ EventOf(n).type \in Before \cup After
<1> DEFINE x == r.todo[1].element
<1>1. 1 \in DOMAIN r.todo
  BY AfterCall
<1>2. x \in Range(plan.order) /\ ~In(r, x.name)
  BY <1>1 DEF BatchOK, CallsOK
<1>3. x.name \in NamesOfEvents /\ x.name \in Names \cup EventNames
  BY <1>2, ElementOK
<1>4. x.name \notin BindingNames
  BY <1>3, NamesApart DEF Planned
<1>5. /\ EventOf(x.name).name = x.name /\ EventOf(x.name).type \in Before \cup After
      /\ EventOf(x.name).deps # <<>> \/ EventOf(x.name).eventDeps # <<>>
  BY <1>3, EventTypes DEF Planned
<1> QED BY <1>2, <1>3, <1>4, <1>5

\* _handleBeforeDeployEvents.
LEMMA BeforeCallOK ==
  ASSUME Planned, NEW r, BatchTyped(r), BatchOK(r), r.todo # <<>>,
         ~IsContract(r.todo[1].element), r.todo[1].element.type \notin ModuleHookTypes,
         EventOf(r.todo[1].element.name).type \in Before
  PROVE  LET s == BatchBefore([r EXCEPT !.todo = Tail(r.todo)], EventOf(r.todo[1].element.name))
         IN BatchTyped(s) /\ (Failed(s) \/ BatchOK(s))
<1> DEFINE after == [r EXCEPT !.todo = Tail(r.todo)]
           n == r.todo[1].element.name
           e == EventOf(n)
           m == BatchCount(r)
           deps    == BatchesOf(after, e.deps) \cup BatchesOf(after, e.eventDeps)
           usages  == BatchesOf(after, e.usage) \cup BatchesOf(after, e.eventUsage)
           shallow == Shallowest(deps, BatchCount(after))
           deep    == Deepest(usages, 0)
           L == Smaller(deep + 1, IF shallow > 0 THEN shallow - 1 ELSE 0)
           s == BatchBefore(after, e)
<1>1. /\ BatchTyped(after) /\ after.todo = Tail(r.todo) /\ after.batches = r.batches
      /\ after.at = r.at /\ after.error = r.error
  BY AfterCall
<1>2. /\ n \in NamesOfEvents /\ n \in Names \cup EventNames /\ n \notin BindingNames /\ ~In(r, n)
      /\ e.name = n
  BY EventOfCall
<1>3. s = IF deep > shallow THEN Fail(after, "CliError") ELSE Place(after, L, e.name)
  BY DEF BatchBefore
<1>4. m \in Nat /\ DOMAIN r.batches \ {NaN} = 0 .. m - 1
  BY CountOK DEF BatchOK
<1>5. BatchCount(after) = m
  BY <1>1, <1>4, BatchCountIs
<1>6. DOMAIN after.batches \ {NaN} = 0 .. m - 1 /\ Placed(after)
  BY <1>1, <1>4 DEF BatchOK, Placed
<1> HIDE DEF after, m, e, n
<1>7. \A names : BatchesOf(after, names) \subseteq 0 .. m - 1
  BY <1>4, <1>6, BatchesOfOK
<1>8. deps \in SUBSET (0 .. m) /\ usages \in SUBSET (0 .. m) /\ 0 \in 0 .. m /\ m \in 0 .. m
  <2>1. 0 .. m - 1 \subseteq 0 .. m /\ 0 \in 0 .. m /\ m \in 0 .. m
    BY <1>4
  <2> QED BY <1>7, <2>1
<1> HIDE DEF deps, usages
<1>9. shallow \in 0 .. m
  BY <1>4, <1>5, <1>8, ShallowestOK
<1>10. deep \in Nat
  <2>1. deep \in usages \cup {0}
    BY <1>4, <1>8, DeepestOK
  <2>2. \A k \in usages \cup {0} : k \in Nat
    BY <1>4, <1>8
  <2> HIDE DEF deep
  <2> QED BY <2>1, <2>2
<1> HIDE DEF shallow, deep
<1>11. L \in 0 .. m
  BY <1>4, <1>9, <1>10 DEF Smaller
<1> HIDE DEF L, s
<1>12. CASE deep > shallow
  <2>1. "CliError" \in Errors /\ "CliError" # Nothing
    BY DEF Errors, Nothing
  <2> QED BY <1>1, <1>3, <1>12, <2>1, FailTyped DEF s, after, e, n
<1>13. CASE ~(deep > shallow)
  <2>1. s = Place(after, L, n)
    BY <1>2, <1>3, <1>13
  <2>2. NaN \notin Nat
    BY DEF NaN
  <2>3. L # NaN /\ L \in {NaN} \cup 0 .. m
    BY <1>4, <1>11, <2>2
  <2>4. ~(EventOf(n).type \in After)
    BY TypesApart DEF n
  <2>5. BatchTyped(s) /\ BatchOK(s)
    BY <1>2, <2>1, <2>3, <2>4, PlaceOK DEF after, n, m
  <2> QED BY <2>5 DEF s, after, e, n
<1> QED BY <1>12, <1>13

\* _handleAfterDeployEvents.
LEMMA AfterCallOK ==
  ASSUME Planned, NEW r, BatchTyped(r), BatchOK(r), r.todo # <<>>,
         ~IsContract(r.todo[1].element), r.todo[1].element.type \notin ModuleHookTypes
  PROVE  LET s == BatchAfter([r EXCEPT !.todo = Tail(r.todo)], EventOf(r.todo[1].element.name))
         IN BatchTyped(s) /\ (Failed(s) \/ BatchOK(s))
<1> DEFINE after == [r EXCEPT !.todo = Tail(r.todo)]
           n == r.todo[1].element.name
           e == EventOf(n)
           m == BatchCount(r)
           un(names) == \E i \in DOMAIN names : ~Batched(after, names[i])
           all == e.usage \o e.deps \o e.eventDeps \o e.eventUsage
           B == BatchesOf(after, all)
           L == Deepest(B, 0) + 1
           s == BatchAfter(after, e)
<1>1. /\ BatchTyped(after) /\ after.todo = Tail(r.todo) /\ after.batches = r.batches
      /\ after.at = r.at /\ after.error = r.error
  BY AfterCall
<1>2. /\ n \in NamesOfEvents /\ n \in Names \cup EventNames /\ n \notin BindingNames /\ ~In(r, n)
      /\ e.name = n /\ (e.deps # <<>> \/ e.eventDeps # <<>>)
  BY EventOfCall
<1>3. s = IF un(e.usage) THEN Fail(after, "EventUsageIsNotDeployed")
          ELSE IF un(e.deps) \/ un(e.eventDeps) THEN Fail(after, "EventDependencyNotDeployedError")
          ELSE IF un(e.eventUsage) THEN Fail(after, "EventUsageIsNotDeployed")
          ELSE Place(after, L, e.name)
  BY DEF BatchAfter
<1>4. m \in Nat /\ DOMAIN r.batches \ {NaN} = 0 .. m - 1 /\ (m = 0 => DOMAIN r.at = {})
  BY CountOK DEF BatchOK
<1>5. DOMAIN after.batches \ {NaN} = 0 .. m - 1 /\ Placed(after)
  BY <1>1, <1>4 DEF BatchOK, Placed
<1>6. /\ e.deps \in Seq(Names \cup EventNames) /\ e.usage \in Seq(Names \cup EventNames)
      /\ e.eventDeps \in Seq(Names \cup EventNames) /\ e.eventUsage \in Seq(Names \cup EventNames)
  <2>1. /\ e.deps \in Seq(BindingNames) /\ e.usage \in Seq(BindingNames)
        /\ e.eventDeps \in Seq(NamesOfEvents) /\ e.eventUsage \in Seq(NamesOfEvents)
    BY <1>2, EventTypes DEF Planned
  <2>2. BindingNames \subseteq Names \cup EventNames /\ NamesOfEvents \subseteq Names \cup EventNames
    BY NamesApart DEF Planned
  <2> HIDE DEF e
  <2> QED BY <2>1, <2>2, SeqMono
<1>7. all \in Seq(Names \cup EventNames) /\ Range(all) = Uses(e)
  <2> DEFINE T == Names \cup EventNames
             u == e.usage
             d == e.deps
             f == e.eventDeps
             g == e.eventUsage
  <2>1. u \in Seq(T) /\ d \in Seq(T) /\ f \in Seq(T) /\ g \in Seq(T)
    BY <1>6
  <2>2. all = ((u \o d) \o f) \o g /\ Uses(e) = Range(d) \cup Range(f) \cup Range(u) \cup Range(g)
    BY DEF Uses
  <2> HIDE DEF T, u, d, f, g, all, e
  <2> DEFINE ud == u \o d
  <2>3. ud \in Seq(T) /\ Range(ud) = Range(u) \cup Range(d)
    BY <2>1, ConcatRange
  <2> HIDE DEF ud
  <2> DEFINE udf == ud \o f
  <2>4. udf \in Seq(T) /\ Range(udf) = Range(ud) \cup Range(f)
    BY <2>1, <2>3, ConcatRange
  <2> HIDE DEF udf
  <2>5. udf \o g \in Seq(T) /\ Range(udf \o g) = Range(udf) \cup Range(g)
    BY <2>1, <2>4, ConcatRange
  <2>6. all = udf \o g
    BY <2>2 DEF ud, udf
  <2> QED BY <2>2, <2>3, <2>4, <2>5, <2>6 DEF T
<1> HIDE DEF all
<1>8. /\ B \subseteq 0 .. m - 1
      /\ \A i \in DOMAIN all : Batched(after, all[i]) /\ after.at[all[i]] # NaN => after.at[all[i]] \in B
  BY <1>4, <1>5, BatchesOfOK
<1> HIDE DEF after, m, e, n, B
<1>9. Deepest(B, 0) \in B \cup {0} /\ \A k \in B \cup {0} : k <= Deepest(B, 0)
  <2>1. B \in SUBSET (0 .. m) /\ 0 \in 0 .. m
    BY <1>4, <1>8
  <2> QED BY <1>4, <2>1, DeepestOK
<1>10. L \in Nat /\ (m # 0 => L \in 0 .. m) /\ \A k \in B : k < L
  <2> DEFINE deep == Deepest(B, 0)
  <2>1. deep \in B \cup {0} /\ (\A k \in B \cup {0} : k <= deep) /\ L = deep + 1
    BY <1>9
  <2>2. \A k \in B : k \in 0 .. m - 1
    BY <1>8
  <2> HIDE DEF deep
  <2>3. deep = 0 \/ deep \in 0 .. m - 1
    BY <2>1, <2>2
  <2>4. deep \in Nat /\ (m # 0 => deep + 1 \in 0 .. m)
    BY <1>4, <2>3
  <2>5. \A k \in B : k \in Nat /\ k <= deep
    BY <2>1, <2>2
  <2> HIDE DEF L
  <2> QED BY <2>1, <2>4, <2>5
<1> HIDE DEF L, un
<1>11. CASE un(e.usage) \/ un(e.deps) \/ un(e.eventDeps) \/ un(e.eventUsage)
  <2>1. /\ "EventUsageIsNotDeployed" \in Errors /\ "EventUsageIsNotDeployed" # Nothing
        /\ "EventDependencyNotDeployedError" \in Errors /\ "EventDependencyNotDeployedError" # Nothing
    BY DEF Errors, Nothing
  <2>2. \E error \in Errors : error # Nothing /\ s = Fail(after, error)
    BY <1>3, <1>11, <2>1
  <2>3. BatchTyped(s) /\ Failed(s)
    BY <1>1, <2>2, FailTyped
  <2> QED BY <2>3 DEF s, after, e, n
<1>12. CASE ~(un(e.usage) \/ un(e.deps) \/ un(e.eventDeps) \/ un(e.eventUsage))
  <2>1. s = Place(after, L, n)
    BY <1>2, <1>3, <1>12
  <2>2. \A d \in Uses(e) : Batched(after, d)
    BY <1>12 DEF Uses, un, Range
  <2>3. m # 0
    <3>1. \E d : d \in Uses(e)
      <4>1. CASE e.deps # <<>>
        <5>1. 1 \in DOMAIN e.deps
          BY <1>6, <4>1, NonEmpty
        <5> QED BY <5>1 DEF Uses, Range
      <4>2. CASE e.eventDeps # <<>>
        <5>1. 1 \in DOMAIN e.eventDeps
          BY <1>6, <4>2, NonEmpty
        <5> QED BY <5>1 DEF Uses, Range
      <4> QED BY <1>2, <4>1, <4>2
    <3>2. DOMAIN r.at # {}
      BY <1>1, <2>2, <3>1 DEF Batched
    <3> QED BY <1>4, <3>2
  <2>4. L # NaN /\ L \in {NaN} \cup 0 .. m
    BY <1>10, <2>3 DEF NaN
  <2>5. ASSUME ~LibraryWithArgs, NEW d \in Uses(e)
        PROVE  Batched(r, d) /\ r.at[d] < L
    <3>1. NaN \notin DOMAIN r.batches /\ Placed(r)
      BY <2>5 DEF BatchOK, ArgsFirst
    <3>2. Batched(r, d) /\ Batched(after, d)
      BY <1>1, <2>2, <2>5 DEF Batched
    <3>3. r.at[d] # NaN
      BY <3>1, <3>2 DEF Placed, Batched
    <3>4. PICK i \in DOMAIN all : all[i] = d
      BY <1>7, <2>5 DEF Range
    <3>5. r.at[d] \in B
      BY <1>1, <1>8, <3>2, <3>3, <3>4
    <3> QED BY <1>10, <3>2, <3>5
  <2>6. BatchTyped(s) /\ BatchOK(s)
    BY <1>2, <2>1, <2>4, <2>5, PlaceOK DEF after, n, m, e
  <2> QED BY <2>6 DEF s, after, e, n
<1> QED BY <1>11, <1>12

\* _handleElement of a contract that is not batched yet.
LEMMA UnbatchedCallOK ==
  ASSUME Planned, NEW r, BatchTyped(r), BatchOK(r), r.todo # <<>>,
         IsContract(r.todo[1].element), ~Batched(r, r.todo[1].element.name),
         ~(\A i \in DOMAIN r.todo[1].args : Batched(r, r.todo[1].args[i]))
  PROVE  LET s == BatchBinding([r EXCEPT !.todo = Tail(r.todo)], r.todo[1])
         IN BatchTyped(s) /\ BatchOK(s)
<1> DEFINE after == [r EXCEPT !.todo = Tail(r.todo)]
           call == r.todo[1]
           args == call.args
           unbatched == {i \in DOMAIN args : ~Batched(after, args[i])}
           first == CHOOSE i \in unbatched : \A j \in unbatched : i <= j
           L == Level(after, call.current, SubSeq(args, 1, first - 1))
           argument == ArgumentCall(call, first, L)
           others   == OtherCalls(call, first)
           s == BatchBinding(after, call)
<1>1. /\ BatchTyped(after) /\ after.todo = Tail(r.todo) /\ after.batches = r.batches
      /\ after.at = r.at /\ after.error = r.error
      /\ 1 \in DOMAIN r.todo /\ Head(r.todo) = call /\ call \in CallRecord /\ Tail(r.todo) \in Seq(CallRecord)
  BY AfterCall
<1> HIDE DEF after
<1>2. \A y : Batched(after, y) <=> Batched(r, y)
  BY <1>1 DEF Batched
<1>3. args \in Seq(Names) /\ Range(args) \subseteq BindingNames
  <2>1. CallsOK(r)
    BY DEF BatchOK
  <2> QED BY <1>1, <2>1 DEF CallsOK, CallRecord
<1>4. first \in unbatched
  <2>1. unbatched # {} /\ unbatched \in SUBSET Nat
    BY <1>2, <1>3
  <2>2. \E i \in unbatched : \A j \in unbatched : i <= j
    <3> HIDE DEF unbatched
    <3> QED BY <2>1, LeastNumber
  <2> HIDE DEF unbatched
  <2> QED BY <2>2
<1>5. s = [after EXCEPT !.todo = <<argument, others>> \o after.todo]
  <2>1. unbatched # {} /\ ~Batched(after, call.element.name)
    BY <1>2, <1>4
  <2>2. s = [after EXCEPT !.todo = <<Call(ContractElement(call.args[first]), L),
                 [call EXCEPT !.current = NaN, !.args = SubSeq(call.args, first + 1, Len(call.args))]>> \o after.todo]
    BY <2>1 DEF BatchBinding
  <2> QED BY <2>2 DEF ArgumentCall, OtherCalls
<1>6. first \in DOMAIN args /\ ~Batched(r, args[first])
  BY <1>2, <1>4
<1> HIDE DEF first, unbatched
<1>7. /\ BatchCount(r) \in Nat /\ DOMAIN r.batches \ {NaN} = 0 .. BatchCount(r) - 1
      /\ BatchCount(r) = 0 => DOMAIN r.at = {}
      /\ call.current \in {NaN} \cup 0 .. BatchCount(r)
      /\ BatchCount(r) = 0 => call.current = 0
  BY <1>1, CountOK DEF BatchOK
<1>8. Placed(after) /\ DOMAIN after.batches \ {NaN} = 0 .. BatchCount(r) - 1
  BY <1>1, <1>7 DEF BatchOK, Placed
<1>9. /\ call.current = NaN => L = NaN
      /\ call.current # NaN => /\ L \in 0 .. BatchCount(r)
                               /\ DOMAIN after.at = {} => L = call.current
  BY <1>7, <1>8, LevelOK
<1> HIDE DEF L
<1>10. 0 # NaN /\ NaN \notin Nat
  BY DEF NaN
<1>11. L \in {NaN} \cup 0 .. BatchCount(r) /\ (BatchCount(r) = 0 => L = 0) /\ L \in Nat \cup {NaN}
  BY <1>1, <1>7, <1>9, <1>10
<1>12. CallsSplit(call, argument, others, L)
  BY <1>1, <1>3, <1>6, <1>11, SplitFields
<1> HIDE DEF argument, others, s
<1> DEFINE todo == <<argument, others>> \o Tail(r.todo)
<1>13. todo \in Seq(CallRecord)
  <2> DEFINE c == <<argument, others>>
  <2>1. c \in Seq(CallRecord)
    BY <1>12 DEF CallsSplit
  <2> HIDE DEF c
  <2>2. c \o Tail(r.todo) \in Seq(CallRecord)
    BY <1>1, <2>1, ConcatOK
  <2> QED BY <2>2 DEF c
<1> HIDE DEF todo
<1>14. s = [batches |-> after.batches, at |-> after.at, error |-> after.error, todo |-> todo]
  <2>1. after = [batches |-> after.batches, at |-> after.at, error |-> after.error, todo |-> after.todo]
    BY <1>1 DEF BatchTyped
  <2>2. s = [after EXCEPT !.todo = todo]
    BY <1>1, <1>5 DEF todo
  <2> QED BY <2>1, <2>2
<1>15. s.batches = r.batches /\ s.at = r.at /\ s.error = after.error /\ s.todo = todo
  BY <1>1, <1>14
<1>16. BatchTyped(s)
  BY <1>1, <1>13, <1>14, <1>15 DEF BatchTyped
<1>17. BatchOK(s)
  BY <1>6, <1>11, <1>12, <1>15, <1>16, SplitOK DEF todo, CallsSplit
<1> QED BY <1>16, <1>17 DEF s, after

\* Every call of _handleElement keeps the batches in order.
LEMMA HandleElementOK ==
  ASSUME Planned, NEW r, BatchTyped(r), BatchOK(r), r.todo # <<>>
  PROVE  BatchTyped(HandleElement(r)) /\ (~Failed(HandleElement(r)) => BatchOK(HandleElement(r)))
<1> DEFINE after == [r EXCEPT !.todo = Tail(r.todo)]
           call == r.todo[1]
           x == call.element
<1>1. Head(r.todo) = call /\ BatchTyped(after) /\ after.at = r.at
  BY AfterCall
<1>2. HandleElement(r) = IF IsContract(x) THEN BatchBinding(after, call) ELSE HandleEvent(after, x)
  BY <1>1 DEF HandleElement
<1>3. CASE IsContract(x) /\ Batched(r, x.name)
  <2> HIDE DEF after
  <2>1. Batched(after, x.name)
    BY <1>1, <1>3 DEF Batched
  <2>2. HandleElement(r) = after
    BY <1>2, <1>3, <2>1 DEF BatchBinding
  <2> QED BY <1>3, <2>2, SkipOK DEF after
<1>4. CASE IsContract(x) /\ ~Batched(r, x.name) /\ \A i \in DOMAIN call.args : Batched(r, call.args[i])
  <2> HIDE DEF after
  <2>1. ~Batched(after, x.name) /\ {i \in DOMAIN call.args : ~Batched(after, call.args[i])} = {}
    BY <1>1, <1>4 DEF Batched
  <2>2. HandleElement(r) = Place(after, Level(after, call.current, call.args), x.name)
    BY <1>2, <1>4, <2>1 DEF BatchBinding
  <2> QED BY <1>4, <2>2, ContractCallOK DEF after
<1>5. CASE IsContract(x) /\ ~Batched(r, x.name) /\ ~(\A i \in DOMAIN call.args : Batched(r, call.args[i]))
  <2> HIDE DEF after
  <2>1. HandleElement(r) = BatchBinding(after, call)
    BY <1>2, <1>5
  <2> QED BY <1>5, <2>1, UnbatchedCallOK DEF after
<1>6. CASE ~IsContract(x) /\ x.type \in ModuleHookTypes
  <2> HIDE DEF after
  <2>1. HandleElement(r) = PushTo(after, 0, x.name)
    BY <1>2, <1>6 DEF HandleEvent
  <2> QED BY <1>6, <2>1, ModuleHookCallOK DEF after
<1>7. CASE ~IsContract(x) /\ x.type \notin ModuleHookTypes
  <2>1. HandleElement(r) = BaseEvent(after, EventOf(x.name))
    <3> HIDE DEF after
    <3> QED BY <1>2, <1>7 DEF HandleEvent
  <2>2. CASE EventOf(x.name).type \in Before
    <3>1. HandleElement(r) = BatchBefore(after, EventOf(x.name))
      <4> HIDE DEF after
      <4> QED BY <2>1, <2>2 DEF BaseEvent
    <3> QED BY <1>7, <2>2, <3>1, BeforeCallOK
  <2>3. CASE EventOf(x.name).type \notin Before
    <3>1. HandleElement(r) = BatchAfter(after, EventOf(x.name))
      <4> HIDE DEF after
      <4> QED BY <2>1, <2>3 DEF BaseEvent
    <3> QED BY <1>7, <3>1, AfterCallOK
  <2> QED BY <2>2, <2>3
<1> QED BY <1>3, <1>4, <1>5, <1>6, <1>7

LEMMA CallTyped ==
  ASSUME Planned, NEW x \in Range(plan.order), NEW n \in {0, 1}
  PROVE  /\ Call(x, n) \in CallRecord /\ Call(x, n).element = x /\ Call(x, n).current = n
         /\ Range(Call(x, n).args) \subseteq BindingNames
         /\ IsContract(x) => Call(x, n).args = ArgsOf(x.name)
<1> DEFINE args == IF IsContract(x) THEN ArgsOf(x.name) ELSE <<>>
<1>1. x \in ElementRecord /\ (IsContract(x) <=> x.name \in BindingNames)
  BY ElementOK
<1>2. args \in Seq(BindingNames)
  <2>1. IsContract(x) => ArgsOf(x.name) \in Seq(BindingNames)
    BY <1>1, NeedsOfBinding DEF Planned
  <2> QED BY <2>1
<1>3. args \in Seq(Names) /\ Range(args) \subseteq BindingNames
  <2>1. BindingNames \subseteq Names
    BY NamesApart DEF Planned
  <2> HIDE DEF args
  <2> QED BY <1>2, <2>1, SeqMono DEF Range
<1>4. Call(x, n) = [element |-> x, current |-> n, args |-> args]
  BY DEF Call
<1>5. IsContract(x) => args = ArgsOf(x.name)
  OBVIOUS
<1> HIDE DEF args
<1> QED BY <1>1, <1>3, <1>4, <1>5 DEF CallRecord

(***************************************************************************)
(* The calls of the loops: libraries first, then all elements.             *)
(***************************************************************************)
LEMMA LoopsOK ==
  ASSUME Planned
  PROVE  LET r == ElementsToBatch(plan.order) IN
         /\ BatchTyped(r) /\ r.error = Nothing /\ DOMAIN r.batches = {} /\ DOMAIN r.at = {}
         /\ \E N \in Nat :
              /\ DOMAIN r.todo = 1 .. N + Len(plan.order)
              /\ \A i \in DOMAIN r.todo :
                   \/ /\ i \in 1 .. N /\ r.todo[i].current = 0 /\ IsContract(r.todo[i].element)
                      /\ Binding(r.todo[i].element.name).library
                   \/ /\ i - N \in DOMAIN plan.order /\ r.todo[i].element = plan.order[i - N]
                      /\ r.todo[i].current = IF N = 0 THEN 0 ELSE 1
              /\ \A i \in DOMAIN r.todo :
                   /\ r.todo[i].element \in Range(plan.order) /\ Range(r.todo[i].args) \subseteq BindingNames
                   /\ IsContract(r.todo[i].element) => r.todo[i].args = ArgsOf(r.todo[i].element.name)
              /\ \A p \in DOMAIN plan.order : N + p \in DOMAIN r.todo /\ r.todo[N + p].element = plan.order[p]
              /\ \A p \in DOMAIN plan.order : IsContract(plan.order[p]) /\ Binding(plan.order[p].name).library =>
                   \E i \in DOMAIN r.todo : i <= N /\ r.todo[i].element = plan.order[p]
<1> DEFINE order == plan.order
           S == {x \in Range(order) : IsContract(x) /\ Binding(x.name).library}
           libraries == Those(order, S)
           N == Len(libraries)
           M == Len(order)
           rest == IF libraries = <<>> THEN 0 ELSE 1
           u == [i \in DOMAIN libraries |-> Call(libraries[i], 0)]
           v == [i \in DOMAIN order |-> Call(order[i], rest)]
           r == ElementsToBatch(order)
<1>1. order \in Seq(ElementRecord) /\ M \in Nat /\ DOMAIN order = 1 .. M
  BY WalkFields DEF Planned
<1>2. \A p \in DOMAIN order : order[p] \in Range(order)
  BY DEF Range
<1>3. libraries \in Seq(ElementRecord \cap S) /\ Range(libraries) \subseteq Range(order) \cap S
  <2> HIDE DEF order, S, libraries
  <2> QED BY <1>1, ThoseOK DEF libraries
<1>4. r = [batches |-> [n \in {} |-> <<>>], at |-> [n \in {} |-> 0], error |-> Nothing, todo |-> u \o v]
  BY DEF ElementsToBatch
<1>21. \A p \in DOMAIN order : order[p] \in S => \E n \in DOMAIN libraries : libraries[n] = order[p]
  <2> HIDE DEF order, S, libraries
  <2> QED BY <1>1, ThoseAll DEF libraries
<1>22. \A p \in DOMAIN order : IsContract(order[p]) /\ Binding(order[p].name).library => order[p] \in S
  BY <1>2
<1> HIDE DEF libraries, S, r
<1>5. N \in Nat /\ DOMAIN libraries = 1 .. N /\ (rest = IF N = 0 THEN 0 ELSE 1)
  BY <1>3
<1>6. \A i \in DOMAIN libraries : libraries[i] \in Range(order) /\ libraries[i] \in S
  BY <1>3 DEF Range
<1>7. rest \in {0, 1}
  OBVIOUS
<1> HIDE DEF order, rest
<1>8. \A i \in DOMAIN libraries : /\ u[i] \in CallRecord /\ u[i].element = libraries[i] /\ u[i].current = 0
                                  /\ Range(u[i].args) \subseteq BindingNames
                                  /\ IsContract(libraries[i]) => u[i].args = ArgsOf(libraries[i].name)
  BY <1>6, CallTyped DEF order
<1>9. \A i \in DOMAIN order : /\ v[i] \in CallRecord /\ v[i].element = order[i] /\ v[i].current = rest
                              /\ Range(v[i].args) \subseteq BindingNames
                              /\ IsContract(order[i]) => v[i].args = ArgsOf(order[i].name)
  BY <1>2, <1>7, CallTyped DEF order
<1>10. u \in Seq(CallRecord) /\ Len(u) = N /\ DOMAIN u = 1 .. N
  <2>1. DOMAIN u = 1 .. N /\ u = [i \in DOMAIN u |-> u[i]] /\ \A i \in 1 .. N : u[i] \in CallRecord
    BY <1>5, <1>8
  <2> HIDE DEF u, N
  <2> QED BY <1>5, <2>1, SeqIs
<1>11. v \in Seq(CallRecord) /\ Len(v) = M /\ DOMAIN v = 1 .. M
  <2>1. DOMAIN v = 1 .. M /\ v = [i \in DOMAIN v |-> v[i]] /\ \A i \in 1 .. M : v[i] \in CallRecord
    BY <1>1, <1>9
  <2> HIDE DEF v, M
  <2> QED BY <1>1, <2>1, SeqIs
<1> HIDE DEF u, v, N, M
<1> DEFINE w == u \o v
<1>12. /\ w \in Seq(CallRecord) /\ Len(w) = N + M
       /\ \A i \in 1 .. N : w[i] = u[i]
       /\ \A i \in 1 .. M : w[N + i] = v[i]
       /\ \A i \in 1 .. Len(w) : i <= N \/ (i - N \in 1 .. M /\ w[i] = v[i - N])
  <2>1. u \in Seq(CallRecord) /\ v \in Seq(CallRecord)
    BY <1>10, <1>11
  <2>2. /\ w \in Seq(CallRecord) /\ Len(w) = Len(u) + Len(v)
        /\ \A i \in 1 .. Len(u) : w[i] = u[i]
        /\ \A i \in 1 .. Len(v) : w[Len(u) + i] = v[i]
        /\ \A i \in 1 .. Len(w) : i <= Len(u) \/ (i - Len(u) \in 1 .. Len(v) /\ w[i] = v[i - Len(u)])
    <3> HIDE DEF CallRecord
    <3> QED BY <2>1, ConcatOK
  <2> HIDE DEF w
  <2> QED BY <1>10, <1>11, <2>2
<1> HIDE DEF w
<1>13. r = [batches |-> [n \in {} |-> <<>>], at |-> [n \in {} |-> 0], error |-> Nothing, todo |-> w]
  BY <1>4 DEF w
<1>14. /\ DOMAIN r.batches = {} /\ DOMAIN r.at = {} /\ r.error = Nothing /\ r.todo = w
       /\ r = [batches |-> r.batches, at |-> r.at, error |-> r.error, todo |-> r.todo]
  BY <1>13
<1>15. BatchTyped(r)
  BY <1>12, <1>14 DEF BatchTyped
<1>16. DOMAIN w = 1 .. N + M
  BY <1>12
<1>17. \A i \in DOMAIN w : (i \in 1 .. N /\ w[i] = u[i]) \/ (i - N \in 1 .. M /\ w[i] = v[i - N])
  BY <1>1, <1>5, <1>12, <1>16
<1>18. \A i \in DOMAIN w :
         \/ /\ i \in 1 .. N /\ w[i].current = 0 /\ IsContract(w[i].element)
            /\ Binding(w[i].element.name).library
         \/ /\ i - N \in DOMAIN order /\ w[i].element = order[i - N]
            /\ w[i].current = IF N = 0 THEN 0 ELSE 1
  BY <1>1, <1>5, <1>6, <1>8, <1>9, <1>17 DEF S
<1>19. \A i \in DOMAIN w :
         /\ w[i].element \in Range(order) /\ Range(w[i].args) \subseteq BindingNames
         /\ IsContract(w[i].element) => w[i].args = ArgsOf(w[i].element.name)
  BY <1>1, <1>2, <1>5, <1>6, <1>8, <1>9, <1>17
<1>20. \A p \in DOMAIN order : N + p \in DOMAIN w /\ w[N + p].element = order[p]
  <2>1. \A p \in 1 .. M : N + p \in 1 .. N + M
    BY <1>1, <1>5
  <2> QED BY <1>1, <1>9, <1>12, <1>16, <2>1
<1>23. ASSUME NEW p \in DOMAIN order, IsContract(order[p]) /\ Binding(order[p].name).library
       PROVE  \E i \in DOMAIN w : i <= N /\ w[i].element = order[p]
  <2>1. PICK i \in 1 .. N : libraries[i] = order[p]
    BY <1>5, <1>21, <1>22, <1>23
  <2>2. w[i].element = order[p]
    BY <1>5, <1>8, <1>12, <2>1
  <2>3. i \in DOMAIN w /\ i <= N
    BY <1>1, <1>5, <1>16
  <2> QED BY <2>2, <2>3
<1> QED BY <1>5, <1>14, <1>15, <1>16, <1>18, <1>19, <1>20, <1>23 DEF r, order, M

\* The loops of _executeParallel begin in order.
LEMMA ElementsToBatchOK ==
  ASSUME Planned
  PROVE  /\ BatchTyped(ElementsToBatch(plan.order)) /\ ~Failed(ElementsToBatch(plan.order))
         /\ BatchOK(ElementsToBatch(plan.order))
<1> DEFINE r == ElementsToBatch(plan.order)
           M == Len(plan.order)
<1>1. BatchTyped(r) /\ r.error = Nothing /\ DOMAIN r.batches = {} /\ DOMAIN r.at = {}
  BY LoopsOK
<1>2. PICK N \in Nat :
              /\ DOMAIN r.todo = 1 .. N + M
              /\ \A i \in DOMAIN r.todo :
                   \/ /\ i \in 1 .. N /\ r.todo[i].current = 0 /\ IsContract(r.todo[i].element)
                      /\ Binding(r.todo[i].element.name).library
                   \/ /\ i - N \in DOMAIN plan.order /\ r.todo[i].element = plan.order[i - N]
                      /\ r.todo[i].current = IF N = 0 THEN 0 ELSE 1
              /\ \A i \in DOMAIN r.todo :
                   /\ r.todo[i].element \in Range(plan.order) /\ Range(r.todo[i].args) \subseteq BindingNames
                   /\ IsContract(r.todo[i].element) => r.todo[i].args = ArgsOf(r.todo[i].element.name)
              /\ \A p \in DOMAIN plan.order : N + p \in DOMAIN r.todo /\ r.todo[N + p].element = plan.order[p]
  BY LoopsOK
<1>3. M \in Nat /\ DOMAIN plan.order = 1 .. M
  BY WalkFields DEF Planned
<1> HIDE DEF r, M
<1>4. Placed(r) /\ Once(r) /\ AllPlaced(r) /\ Deeper(r) /\ \A x : ~In(r, x)
  BY <1>1 DEF Placed, Once, AllPlaced, Deeper, In
<1>5. CallsOK(r)
  <2> SUFFICES ASSUME NEW j \in DOMAIN r.todo, ~IsContract(r.todo[j].element),
                      NEW i \in DOMAIN r.todo, r.todo[i].element.name = r.todo[j].element.name
               PROVE  i = j
    BY <1>2, <1>4 DEF CallsOK
  <2>1. r.todo[i].element = r.todo[j].element
    BY <1>2, ElementOK
  <2>2. /\ i - N \in DOMAIN plan.order /\ r.todo[i].element = plan.order[i - N]
        /\ j - N \in DOMAIN plan.order /\ r.todo[j].element = plan.order[j - N]
    BY <1>2, <2>1
  <2>3. i - N = j - N
    BY <2>1, <2>2 DEF Planned, WalkOK, NamedOnce
  <2>4. i \in Nat /\ j \in Nat
    BY <1>2, <1>3
  <2> QED BY <2>3, <2>4
<1>6. AllBatched(r)
  BY <1>2 DEF AllBatched, Range
<1>7. Full(r)
  <2>1. DOMAIN r.batches \ {NaN} = 0 .. 0 - 1
    BY <1>1
  <2>2. BatchCount(r) = 0
    BY <2>1, BatchCountIs
  <2>3. \A j \in DOMAIN r.todo : r.todo[j].current \in {0, 1}
    BY <1>2
  <2>4. ASSUME r.todo # <<>>
        PROVE  Head(r.todo).current = 0
    <3>1. Head(r.todo) = r.todo[1] /\ 1 \in DOMAIN r.todo
      BY <1>1, <2>4, HeadTail DEF BatchTyped
    <3>2. 1 \in 1 .. N \/ N = 0
      OBVIOUS
    <3>3. 1 \in 1 .. N => ~(1 - N \in DOMAIN plan.order)
      BY <1>3
    <3> QED BY <1>2, <3>1, <3>2, <3>3
  <2>5. FullTo(r, 0)
    <3>1. {0, 1} \subseteq {NaN, 1} \cup 0 .. 0
      OBVIOUS
    <3> QED BY <1>1, <2>1, <2>3, <2>4, <3>1 DEF FullTo
  <2> QED BY <2>2, <2>5 DEF Full
<1>8. ASSUME ~LibraryWithArgs
      PROVE  ArgsFirst(r)
  <2> SUFFICES ASSUME NEW j \in DOMAIN r.todo
               PROVE  /\ r.todo[j].current # NaN
                      /\ IsContract(r.todo[j].element) =>
                           /\ r.todo[j].args = ArgsOf(r.todo[j].element.name)
                           /\ \A d \in Range(r.todo[j].args) :
                                Batched(r, d) \/ \E i \in 1 .. j - 1 : r.todo[i].element.name = d
    BY <1>1 DEF ArgsFirst
  <2>1. r.todo[j].current # NaN
    <3>1. r.todo[j].current = 0 \/ r.todo[j].current = 1
      BY <1>2
    <3> QED BY <3>1 DEF NaN
  <2>2. ASSUME IsContract(r.todo[j].element), NEW d \in Range(r.todo[j].args)
        PROVE  \E i \in 1 .. j - 1 : r.todo[i].element.name = d
    <3> DEFINE x == r.todo[j].element
    <3>1. x \in Range(plan.order) /\ r.todo[j].args = ArgsOf(x.name) /\ x.name \in BindingNames
      BY <1>2, <2>2, ElementOK
    <3>2. CASE Binding(x.name).library
      <4>1. PICK k \in DOMAIN bindings : bindings[k].name = x.name /\ Binding(x.name) = bindings[k]
        BY <3>1, BindingAt DEF Planned
      <4>2. ArgsOf(x.name) = <<>>
        BY <1>8, <3>2, <4>1 DEF LibraryWithArgs
      <4> QED BY <2>2, <3>1, <4>2 DEF Range
    <3>3. CASE j - N \in DOMAIN plan.order /\ x = plan.order[j - N]
      <4>1. Earlier(plan, j - N, Needs(x.name))
        BY <2>2, <3>3 DEF Planned, WalkOK, Ordered, IsContract
      <4>2. d \in Needs(x.name)
        BY <2>2, <3>1 DEF Needs
      <4>3. PICK q \in 1 .. (j - N) - 1 : plan.order[q].name = d
        BY <4>1, <4>2 DEF Earlier
      <4>4. j \in Nat /\ q \in DOMAIN plan.order /\ N + q \in 1 .. j - 1
        BY <1>2, <1>3, <3>3
      <4> QED BY <1>2, <4>3, <4>4
    <3> QED BY <1>2, <3>2, <3>3
  <2> QED BY <1>2, <2>1, <2>2
<1> QED BY <1>1, <1>4, <1>5, <1>6, <1>7, <1>8 DEF BatchOK, Failed, r

(***************************************************************************)
(* A call takes one element at most, and, unless a library has contracts   *)
(* for arguments, makes no others: those of a contract are batched.        *)
(***************************************************************************)
LEMMA CallPlaces ==
  ASSUME Planned, NEW r, BatchTyped(r), BatchOK(r), r.todo # <<>>, ~LibraryWithArgs, ~Failed(HandleElement(r))
  PROVE  LET s == HandleElement(r)
             call == r.todo[1]
             n == call.element.name
         IN /\ s.todo = Tail(r.todo)
            /\ \/ s.at = r.at /\ (IsContract(call.element) => Batched(r, n))
               \/ /\ DOMAIN s.at = DOMAIN r.at \cup {n}
                  /\ \A x \in DOMAIN r.at : s.at[x] = r.at[x]
                  /\ ~IsContract(call.element) => n \notin BindingNames
                  /\ IsContract(call.element) => ~Batched(r, n) /\ s.at[n] = Level(r, call.current, call.args)
<1> DEFINE after == [r EXCEPT !.todo = Tail(r.todo)]
           call == r.todo[1]
           x == call.element
           n == x.name
           e == EventOf(n)
           s == HandleElement(r)
<1>1. /\ BatchTyped(after) /\ after.todo = Tail(r.todo) /\ after.at = r.at
      /\ 1 \in DOMAIN r.todo /\ Head(r.todo) = call
  BY AfterCall
<1>2. s = IF IsContract(x) THEN BatchBinding(after, call) ELSE HandleEvent(after, x)
  BY <1>1 DEF HandleElement
<1>3. x \in Range(plan.order)
  BY <1>1 DEF BatchOK, CallsOK
<1>4. n \in Names \cup EventNames
  BY <1>3, ElementOK
<1>5. \A names : BatchesOf(after, names) = BatchesOf(r, names)
  BY <1>1 DEF BatchesOf
<1>6. \A m, names : Level(after, m, names) = Level(r, m, names)
  BY <1>5 DEF Level
<1> HIDE DEF after, s
<1>7. ASSUME NEW L
      PROVE  /\ Place(after, L, n).todo = Tail(r.todo) /\ DOMAIN Place(after, L, n).at = DOMAIN r.at \cup {n}
             /\ Place(after, L, n).at[n] = L
             /\ n \notin DOMAIN r.at => \A y \in DOMAIN r.at : Place(after, L, n).at[y] = r.at[y]
  BY <1>1, <1>4, PlaceFacts
<1>8. CASE IsContract(x) /\ Batched(r, n)
  <2>1. Batched(after, n)
    BY <1>1, <1>8 DEF Batched
  <2>2. s = after
    BY <1>2, <1>8, <2>1 DEF BatchBinding
  <2> QED BY <1>1, <1>8, <2>2 DEF s
<1>9. CASE IsContract(x) /\ ~Batched(r, n)
  <2>1. call.args = ArgsOf(n) /\ \A d \in Range(call.args) : Batched(r, d) \/ \E i \in 1 .. 1 - 1 : r.todo[i].element.name = d
    BY <1>1, <1>9 DEF BatchOK, ArgsFirst
  <2>2. \A i \in DOMAIN call.args : Batched(after, call.args[i])
    BY <1>1, <2>1 DEF Range, Batched
  <2>3. ~Batched(after, n) /\ {i \in DOMAIN call.args : ~Batched(after, call.args[i])} = {}
    BY <1>1, <1>9, <2>2 DEF Batched
  <2>4. s = Place(after, Level(after, call.current, call.args), n)
    BY <1>2, <1>9, <2>3 DEF BatchBinding
  <2> QED BY <1>6, <1>7, <1>9, <2>4 DEF s, Batched
<1>10. CASE ~IsContract(x) /\ x.type \in ModuleHookTypes
  <2>1. s = PushTo(after, 0, n)
    BY <1>2, <1>10 DEF HandleEvent
  <2>2. s.todo = after.todo /\ s.at = after.at
    BY <1>1, <1>4, <2>1, PushFacts
  <2> QED BY <1>1, <1>10, <2>2 DEF s
<1>11. CASE ~IsContract(x) /\ x.type \notin ModuleHookTypes
  <2>1. n \notin BindingNames /\ ~In(r, n) /\ e.name = n
    BY <1>11, EventOfCall
  <2>2. n \notin DOMAIN r.at
    BY <2>1 DEF BatchOK, Placed, In
  <2>3. s = BaseEvent(after, e)
    BY <1>2, <1>11 DEF HandleEvent
  <2>4. ASSUME NEW error, error # Nothing
        PROVE  Failed(Fail(after, error))
    <3>1. after = [batches |-> after.batches, at |-> after.at, error |-> after.error, todo |-> after.todo]
      BY <1>1 DEF BatchTyped
    <3> QED BY <2>4, <3>1 DEF Fail, Failed
  <2>5. ~Failed(s)
    BY DEF s
  <2> HIDE DEF e
  <2>6. \E L : s = Place(after, L, n)
    <3>1. "CliError" # Nothing /\ "EventUsageIsNotDeployed" # Nothing /\ "EventDependencyNotDeployedError" # Nothing
      BY DEF Nothing
    <3>2. CASE e.type \in Before
      <4>1. s = BatchBefore(after, e)
        BY <2>3, <3>2 DEF BaseEvent
      <4> QED BY <2>1, <2>4, <2>5, <3>1, <4>1 DEF BatchBefore
    <3>3. CASE e.type \notin Before
      <4>1. s = BatchAfter(after, e)
        BY <2>3, <3>3 DEF BaseEvent
      <4> QED BY <2>1, <2>4, <2>5, <3>1, <4>1 DEF BatchAfter
    <3> QED BY <3>2, <3>3
  <2> QED BY <1>7, <1>11, <2>1, <2>2, <2>6 DEF s
<1> QED BY <1>8, <1>9, <1>10, <1>11

\* Libraries stay first.
LEMMA LibrariesStay ==
  ASSUME Planned, NEW r, BatchTyped(r), BatchOK(r), r.todo # <<>>, ~LibraryWithArgs,
         LibrariesFirst(r), ~Failed(HandleElement(r))
  PROVE  LibrariesFirst(HandleElement(r))
<1> DEFINE s == HandleElement(r)
           call == r.todo[1]
           n == call.element.name
           M == Len(r.todo)
<1> SUFFICES ASSUME \E b \in BindingNames : Binding(b).library
             PROVE  /\ \E N \in Nat : LibraryCalls(s, N)
                    /\ \A x \in DOMAIN s.at : x \in BindingNames =>
                         IF Binding(x).library THEN s.at[x] = 0 ELSE s.at[x] >= 1
  BY DEF LibrariesFirst
<1>1. /\ s.todo = Tail(r.todo)
      /\ \/ s.at = r.at /\ (IsContract(call.element) => Batched(r, n))
         \/ /\ DOMAIN s.at = DOMAIN r.at \cup {n}
            /\ \A x \in DOMAIN r.at : s.at[x] = r.at[x]
            /\ ~IsContract(call.element) => n \notin BindingNames
            /\ IsContract(call.element) => ~Batched(r, n) /\ s.at[n] = Level(r, call.current, call.args)
  BY CallPlaces
<1>2. PICK N \in Nat : LibraryCalls(r, N)
  BY DEF LibrariesFirst
<1>3. /\ M \in Nat \ {0} /\ DOMAIN r.todo = 1 .. M /\ 1 \in DOMAIN r.todo /\ DOMAIN s.todo = 1 .. M - 1
      /\ \A i \in 1 .. M - 1 : s.todo[i] = r.todo[i + 1]
  <2>1. r.todo \in Seq(CallRecord)
    BY DEF BatchTyped
  <2> HIDE DEF s
  <2> QED BY <1>1, <2>1, HeadTail
<1>4. call.element \in Range(plan.order) /\ (IsContract(call.element) <=> n \in BindingNames)
  <2>1. call.element \in Range(plan.order)
    BY <1>3 DEF BatchOK, CallsOK
  <2> QED BY <2>1, ElementOK
<1> HIDE DEF s, M
<1>5. ASSUME NEW b \in BindingNames, b = n
      PROVE  Batched(s, b)
  BY <1>1, <1>4, <1>5 DEF Batched
<1>6. \A b : Batched(r, b) => Batched(s, b)
  BY <1>1 DEF Batched
<1> DEFINE K == IF N = 0 THEN 0 ELSE N - 1
<1>7. LibraryCalls(s, K)
  <2>1. K \in Nat /\ \A j \in 1 .. M - 1 : j + 1 \in DOMAIN r.todo /\ (j <= K <=> j + 1 <= N)
    BY <1>3
  <2>2. ASSUME NEW j \in DOMAIN s.todo
        PROVE  IF j <= K THEN /\ s.todo[j].current = 0
                              /\ IsContract(s.todo[j].element) => Binding(s.todo[j].element.name).library
                         ELSE s.todo[j].current = 1
    <3>1. j + 1 \in DOMAIN r.todo /\ (j <= K <=> j + 1 <= N) /\ s.todo[j] = r.todo[j + 1]
      BY <1>3, <2>1
    <3> HIDE DEF K
    <3> QED BY <1>2, <3>1 DEF LibraryCalls
  <2>3. ASSUME NEW b \in BindingNames, Binding(b).library
        PROVE  Batched(s, b) \/ \E j \in DOMAIN s.todo : j <= K /\ s.todo[j].element.name = b
    <3>1. CASE Batched(r, b)
      BY <1>6, <3>1
    <3>2. CASE \E j \in DOMAIN r.todo : j <= N /\ r.todo[j].element.name = b
      <4>1. PICK j \in DOMAIN r.todo : j <= N /\ r.todo[j].element.name = b
        BY <3>2
      <4>2. CASE j = 1
        BY <1>5, <4>1, <4>2
      <4>3. CASE j # 1
        <5>1. j - 1 \in DOMAIN s.todo /\ (j - 1) + 1 = j /\ j - 1 <= K
          BY <1>3, <4>1, <4>3
        <5>2. s.todo[j - 1] = r.todo[j]
          BY <1>3, <5>1
        <5> QED BY <4>1, <5>1, <5>2
      <4> QED BY <4>2, <4>3
    <3> QED BY <1>2, <2>3, <3>1, <3>2 DEF LibraryCalls
  <2> HIDE DEF K
  <2> QED BY <2>2, <2>3 DEF LibraryCalls
<1>8. ASSUME NEW x \in DOMAIN s.at, x \in BindingNames
      PROVE  IF Binding(x).library THEN s.at[x] = 0 ELSE s.at[x] >= 1
  <2>1. CASE x \in DOMAIN r.at /\ s.at[x] = r.at[x]
    BY <1>8, <2>1 DEF LibrariesFirst
  <2>2. CASE IsContract(call.element) /\ x = n /\ ~Batched(r, n) /\ s.at[n] = Level(r, call.current, call.args)
    <3>1. /\ BatchCount(r) \in Nat /\ DOMAIN r.batches \ {NaN} = 0 .. BatchCount(r) - 1
          /\ call.current \in {NaN} \cup 0 .. BatchCount(r)
      BY <1>3, CountOK DEF BatchOK
    <3>2. call.current # NaN /\ call.args = ArgsOf(n) /\ Placed(r)
      BY <1>3, <2>2 DEF BatchOK, ArgsFirst
    <3>3. /\ s.at[n] \in 0 .. BatchCount(r) /\ call.current <= s.at[n]
          /\ call.args = <<>> => s.at[n] = call.current
      BY <2>2, <3>1, <3>2, LevelOK
    <3>4. CASE 1 <= N
      <4>1. call.current = 0 /\ Binding(n).library
        BY <1>2, <1>3, <2>2, <3>4 DEF LibraryCalls
      <4>2. PICK k \in DOMAIN bindings : bindings[k].name = n /\ Binding(n) = bindings[k]
        BY <1>8, <2>2, BindingAt DEF Planned
      <4>3. ArgsOf(n) = <<>>
        BY <4>1, <4>2 DEF LibraryWithArgs
      <4> QED BY <2>2, <3>2, <3>3, <4>1, <4>3
    <3>5. CASE ~(1 <= N)
      <4>1. call.current = 1
        BY <1>2, <1>3, <3>5 DEF LibraryCalls
      <4>2. \A j \in DOMAIN r.todo : ~(j <= N)
        BY <1>3, <3>5
      <4>3. ~Binding(n).library
        BY <1>2, <1>8, <2>2, <4>2 DEF LibraryCalls
      <4> QED BY <2>2, <3>1, <3>3, <4>1, <4>3
    <3> QED BY <3>4, <3>5
  <2> QED BY <1>1, <1>4, <1>8, <2>1, <2>2 DEF Batched
<1>9. K \in Nat
  OBVIOUS
<1> HIDE DEF K
<1> QED BY <1>7, <1>8, <1>9

\* They are first when the loops begin.
LEMMA LibrariesBegin ==
  ASSUME Planned
  PROVE  LibrariesFirst(ElementsToBatch(plan.order))
<1> DEFINE r == ElementsToBatch(plan.order)
           M == Len(plan.order)
<1> SUFFICES ASSUME NEW c \in BindingNames, Binding(c).library
             PROVE  /\ \E N \in Nat : LibraryCalls(r, N)
                    /\ \A x \in DOMAIN r.at : x \in BindingNames =>
                         IF Binding(x).library THEN r.at[x] = 0 ELSE r.at[x] >= 1
  BY DEF LibrariesFirst
<1>1. DOMAIN r.at = {}
  BY LoopsOK
<1>2. PICK N \in Nat :
        /\ DOMAIN r.todo = 1 .. N + M
        /\ \A i \in DOMAIN r.todo :
             \/ /\ i \in 1 .. N /\ r.todo[i].current = 0 /\ IsContract(r.todo[i].element)
                /\ Binding(r.todo[i].element.name).library
             \/ /\ i - N \in DOMAIN plan.order /\ r.todo[i].element = plan.order[i - N]
                /\ r.todo[i].current = IF N = 0 THEN 0 ELSE 1
        /\ \A p \in DOMAIN plan.order : IsContract(plan.order[p]) /\ Binding(plan.order[p].name).library =>
             \E i \in DOMAIN r.todo : i <= N /\ r.todo[i].element = plan.order[p]
  BY LoopsOK
<1>3. M \in Nat /\ DOMAIN plan.order = 1 .. M
  BY WalkFields DEF Planned
<1> HIDE DEF r, M
<1>4. ASSUME NEW b \in BindingNames, Binding(b).library
      PROVE  \E j \in DOMAIN r.todo : j <= N /\ r.todo[j].element.name = b
  <2>1. /\ ContractElement(b) \in Range(plan.order) /\ ContractElement(b).name = b
        /\ IsContract(ContractElement(b))
    BY ContractsOK
  <2>2. PICK p \in DOMAIN plan.order : plan.order[p] = ContractElement(b)
    BY <2>1 DEF Range
  <2>3. PICK i \in DOMAIN r.todo : i <= N /\ r.todo[i].element = plan.order[p]
    BY <1>2, <1>4, <2>1, <2>2
  <2> QED BY <2>1, <2>2, <2>3
<1>5. N # 0
  BY <1>2, <1>3, <1>4
<1>6. ASSUME NEW j \in DOMAIN r.todo
      PROVE  IF j <= N THEN /\ r.todo[j].current = 0
                            /\ IsContract(r.todo[j].element) => Binding(r.todo[j].element.name).library
                       ELSE r.todo[j].current = 1
  <2>1. j \in Nat /\ (j - N \in DOMAIN plan.order => ~(j <= N)) /\ (j \in 1 .. N => j <= N)
    BY <1>2, <1>3
  <2> QED BY <1>2, <1>5, <2>1
<1>7. LibraryCalls(r, N)
  BY <1>4, <1>6 DEF LibraryCalls
<1> QED BY <1>1, <1>7

-----------------------------------------------------------------------------
(* What the batching leaves.                                               *)

\* Batches in order stay so as long as the module and the plan are the same.
LEMMA BatchStays ==
  ASSUME NEW r, BatchOK(r), UNCHANGED <<bindings, events, moduleEvents, plan>>, batched' = r
  PROVE  /\ BatchOK(batched)' /\ (LibraryWithArgs' <=> LibraryWithArgs)
         /\ LibrariesFirst(r) => LibrariesFirst(batched)'
<1>1. /\ BindingNames' = BindingNames /\ NamesOfEvents' = NamesOfEvents
      /\ \A b : ArgsOf(b)' = ArgsOf(b) /\ Binding(b)' = Binding(b)
      /\ \A e : EventOf(e)' = EventOf(e)
  BY SameBuilder
<1>2. LibraryWithArgs' <=> LibraryWithArgs
  BY <1>1 DEF LibraryWithArgs
<1>3. \A x : IsModuleHook(x)' <=> IsModuleHook(x)
  BY DEF IsModuleHook
<1>4. /\ \A x : In(batched, x)' <=> In(r, x)
      /\ \A x : Batched(batched, x)' <=> Batched(r, x)
      /\ BatchCount(batched)' = BatchCount(r)
  BY DEF In, Batched, BatchCount
<1>5. Placed(batched)' /\ Once(batched)'
  BY DEF BatchOK, Placed, Once
<1>6. AllPlaced(batched)'
  BY <1>3 DEF BatchOK, AllPlaced
<1>7. CallsOK(batched)'
  BY <1>1, <1>4 DEF BatchOK, CallsOK
<1>8. AllBatched(batched)'
  BY <1>4 DEF BatchOK, AllBatched
<1>9. Full(batched)'
  <2>1. \A m : FullTo(batched, m)' <=> FullTo(r, m)
    BY DEF FullTo
  <2> QED BY <1>4, <2>1 DEF BatchOK, Full
<1>10. ArgsFirst(r) => ArgsFirst(batched)'
  BY <1>1, <1>4 DEF ArgsFirst
<1>11. Deeper(r) => Deeper(batched)'
  <2>1. \A e : Uses(EventOf(e))' = Uses(EventOf(e))
    BY <1>1 DEF Uses
  <2> QED BY <1>1, <1>4, <2>1 DEF Deeper
<1>12. LibrariesFirst(r) => LibrariesFirst(batched)'
  <2>1. \A N : LibraryCalls(batched, N)' <=> LibraryCalls(r, N)
    BY <1>1, <1>4 DEF LibraryCalls
  <2> QED BY <1>1, <2>1 DEF LibrariesFirst
<1> QED BY <1>2, <1>5, <1>6, <1>7, <1>8, <1>9, <1>10, <1>11, <1>12 DEF BatchOK

LEMMA BatchProperties ==
  ASSUME Declared, WalkInv, BatchInv
  PROVE  BatchesAreComplete /\ BatchesRespectDependencies
<1> SUFFICES ASSUME IsBatched PROVE BatchesAreComplete /\ BatchesRespectDependencies
  BY DEF BatchesAreComplete, BatchesRespectDependencies
<1>1. Planned
  BY DEF IsBatched, WalkInv, Planned
<1>2. BatchOK(batched) /\ batched.todo = <<>>
  BY DEF IsBatched, BatchInv
<1>3. \A x \in Range(plan.order) : In(batched, x.name)
  BY <1>2 DEF BatchOK, AllBatched
<1>4. \A x : In(batched, x) => Batched(batched, x) \/ IsModuleHook(x)
  BY <1>2 DEF BatchOK, AllPlaced, In, Batched
<1>5. DOMAIN batched.batches \ {NaN} = 0 .. BatchCount(batched) - 1
  BY <1>2 DEF BatchOK, Full, FullTo
<1>6. ASSUME NEW i \in DOMAIN plan.order
      PROVE  \E n \in DOMAIN batched.batches : \E k \in DOMAIN batched.batches[n] :
               /\ batched.batches[n][k] = plan.order[i].name
               /\ \A m \in DOMAIN batched.batches : \A j \in DOMAIN batched.batches[m] :
                    batched.batches[m][j] = plan.order[i].name => m = n /\ j = k
  <2>1. In(batched, plan.order[i].name)
    BY <1>3 DEF Range
  <2>2. PICK n \in DOMAIN batched.batches : plan.order[i].name \in Range(batched.batches[n])
    BY <2>1 DEF In
  <2>3. PICK k \in DOMAIN batched.batches[n] : batched.batches[n][k] = plan.order[i].name
    BY <2>2 DEF Range
  <2>4. \A m \in DOMAIN batched.batches : \A j \in DOMAIN batched.batches[m] :
          batched.batches[m][j] = batched.batches[n][k] => m = n /\ j = k
    BY <1>2 DEF BatchOK, Once
  <2> QED BY <2>3, <2>4
<1>7. NaN \in DOMAIN batched.batches => LibraryWithArgs
  BY <1>2 DEF BatchOK, ArgsFirst
<1>8. BatchesAreComplete
  BY <1>5, <1>6, <1>7 DEF BatchesAreComplete
<1>9. ASSUME ~LibraryWithArgs, NEW b \in BindingNames, NEW d \in Range(ArgsOf(b))
      PROVE  BatchOf(d) < BatchOf(b)
  <2> DEFINE x == ContractElement(b)
  <2>1. x \in Range(plan.order) /\ x.name = b /\ IsContract(x)
    BY <1>1, ContractsOK
  <2>2. IsModuleHook(x.name) <=> x.type \in ModuleHookTypes
    BY <1>1, <2>1, ElementOK
  <2>3. b \in DOMAIN batched.at
    BY <1>3, <1>4, <2>1, <2>2, TypesApart DEF IsContract, Batched
  <2> QED BY <1>2, <1>9, <2>3 DEF BatchOK, Deeper, BatchOf
<1>10. ASSUME ~LibraryWithArgs, NEW i \in DOMAIN events, events[i].type \in After, InPlan(events[i].name),
              ~Shadowed(events[i]), NEW d \in Uses(events[i])
       PROVE  BatchOf(d) < BatchOf(events[i].name)
  <2> DEFINE e == events[i].name
  <2>1. e \in NamesOfEvents /\ EventOf(e) = events[i]
    BY <1>1, EventIs DEF Planned, NamesOfEvents
  <2>2. PICK p \in DOMAIN plan.order : plan.order[p].name = e
    BY <1>10 DEF InPlan
  <2>3. plan.order[p] \in Range(plan.order)
    BY DEF Range
  <2>4. ~IsModuleHook(e)
    BY <1>1, <1>10, <2>1, <2>2, <2>3, ElementOK
  <2>5. e \in DOMAIN batched.at
    BY <1>3, <1>4, <2>2, <2>3, <2>4 DEF Batched
  <2> QED BY <1>2, <1>10, <2>1, <2>5 DEF BatchOK, Deeper, BatchOf
<1>11. ASSUME ~LibraryWithArgs, NEW b \in BindingNames, ~Binding(b).library,
              NEW d \in Range(LibsOf(b)), Binding(d).library
       PROVE  BatchOf(d) < BatchOf(b)
  <2>1. d \in BindingNames
    BY <1>1, <1>11, NeedsOfBinding DEF Planned, Range
  <2>2. \A c \in BindingNames : c \in DOMAIN batched.at
    <3> SUFFICES ASSUME NEW c \in BindingNames PROVE c \in DOMAIN batched.at
      OBVIOUS
    <3>1. ContractElement(c) \in Range(plan.order) /\ ContractElement(c).name = c /\ IsContract(ContractElement(c))
      BY <1>1, ContractsOK
    <3>2. IsModuleHook(c) <=> ContractElement(c).type \in ModuleHookTypes
      BY <1>1, <3>1, ElementOK
    <3> QED BY <1>3, <1>4, <3>1, <3>2, TypesApart DEF IsContract, Batched
  <2>3. LibrariesFirst(batched)
    BY <1>11 DEF IsBatched, BatchInv
  <2>4. batched.at[d] = 0 /\ batched.at[b] >= 1
    BY <1>11, <2>1, <2>2, <2>3 DEF LibrariesFirst
  <2>5. batched.at[b] \in Nat
    <3>1. ~LibraryWithArgs => Deeper(batched) /\ ArgsFirst(batched)
      BY <1>2 DEF BatchOK
    <3>2. batched.at[b] \in DOMAIN batched.batches /\ NaN \notin DOMAIN batched.batches
      BY <1>2, <1>11, <2>2, <3>1 DEF BatchOK, Placed, ArgsFirst
    <3> QED BY <1>2, <1>5, <3>2, CountOK DEF BatchOK
  <2> QED BY <2>4, <2>5 DEF BatchOf
<1>12. BatchesRespectDependencies
  BY <1>9, <1>10, <1>11 DEF BatchesRespectDependencies, Uses
<1> QED BY <1>8, <1>12

-----------------------------------------------------------------------------
(* The state file, and what diff says of it.                               *)

\* A deployment stores elements.
LEMMA DeployOK ==
  ASSUME Declared, WalkInv, StoredOK, NEW n \in 0 .. Len(plan.order), Deploy(n)
  PROVE  StoredOK'
<1>1. Planned
  BY DEF Deploy, WalkInv, Planned
<1>2. Len(plan.order) \in Nat /\ DOMAIN plan.order = 1 .. Len(plan.order)
  BY <1>1, WalkFields DEF Planned
<1>3. ASSUME NEW i \in DOMAIN plan.order
      PROVE  Element(plan.order[i], i <= n) \in StoredElement
  <2> DEFINE x == plan.order[i]
             done == i <= n
  <2>1. x \in ElementRecord /\ (IsContract(x) => x.name \in BindingNames)
    <3>1. x \in Range(plan.order)
      BY DEF Range
    <3> QED BY <1>1, <3>1, ElementOK
  <2>2. done \in BOOLEAN
    OBVIOUS
  <2> HIDE DEF x, done
  <2>3. IsContract(x) => Binding(x.name).args \in Seq(Argument) /\ Binding(x.name).contractName \in Contracts
    BY <1>1, <2>1, NeedsOfBinding DEF Planned
  <2>4. <<>> \in Seq(Argument)
    OBVIOUS
  <2>5. Element(x, done) \in StoredElement
    <3> HIDE DEF Argument
    <3>1. CASE IsContract(x)
      BY <2>1, <2>2, <2>3, <3>1 DEF Element, StoredElement, ElementRecord
    <3>2. CASE ~IsContract(x)
      BY <2>1, <2>2, <2>4, <3>2 DEF Element, StoredElement, ElementRecord
    <3> QED BY <3>1, <3>2
  <2> QED BY <2>5 DEF x, done
<1>4. stored' = [i \in DOMAIN plan.order |-> Element(plan.order[i], i <= n)] /\ changed' = changed
  BY DEF Deploy
<1>5. stored' \in Seq(StoredElement)
  <2>1. DOMAIN stored' = 1 .. Len(plan.order) /\ stored' = [i \in DOMAIN stored' |-> stored'[i]]
        /\ \A i \in 1 .. Len(plan.order) : stored'[i] \in StoredElement
    BY <1>2, <1>3, <1>4
  <2> HIDE DEF StoredElement
  <2> QED BY <1>2, <2>1, SeqIs
<1> QED BY <1>4, <1>5 DEF StoredOK

(***************************************************************************)
(* diff says that nothing has changed only if no pass of its loop finds    *)
(* anything.                                                               *)
(***************************************************************************)
LEMMA SameMeans ==
  ASSUME NEW T, NEW old \in Seq(T), NEW new
  PROVE  /\ CheckIfDiff(old, new) \in {"diff", "same", "TypeError"}
         /\ CheckIfDiff(old, new) = "same" =>
              Len(old) = Len(new) /\ \A i \in DOMAIN old : DiffAt(old[i], new[i]) = "same"
<1> DEFINE found == {i \in DOMAIN old : DiffAt(old[i], new[i]) # "same"}
           first == CHOOSE i \in found : \A j \in found : i <= j
<1>1. CheckIfDiff(old, new) = IF Len(old) # Len(new) THEN "diff"
                              ELSE IF found = {} THEN "same" ELSE DiffAt(old[first], new[first])
  BY DEF CheckIfDiff
<1>2. \A x, y : DiffAt(x, y) \in {"diff", "same", "TypeError"}
  BY DEF DiffAt
<1>3. found # {} => first \in found
  <2>1. found \in SUBSET Nat
    OBVIOUS
  <2> HIDE DEF found
  <2>2. found # {} => \E i \in found : \A j \in found : i <= j
    BY <2>1, LeastNumber
  <2> QED BY <2>2
<1>4. first \in found => DiffAt(old[first], new[first]) # "same"
  OBVIOUS
<1>5. found = {} => \A i \in DOMAIN old : DiffAt(old[i], new[i]) = "same"
  OBVIOUS
<1> HIDE DEF found, first
<1> QED BY <1>1, <1>2, <1>3, <1>4, <1>5

LEMMA SameArgsOK ==
  ASSUME NEW T, NEW old \in Seq(T), NEW new \in Seq(T), SameArgs(old, new)
  PROVE  old = new
BY DEF SameArgs

\* What diff answers.
LEMMA DiffOK ==
  ASSUME Declared, WalkInv, StoredOK, Diff
  PROVE  answer' \in {"diff", "same", "TypeError"} \cup Errors /\ NoDiffMeansDeployed'
<1> DEFINE old == [i \in DOMAIN stored |-> Revised(stored[i])]
           new == [i \in DOMAIN plan.order |->
                     LET x == plan.order[i] IN
                     IF IsContract(x) THEN Element(x, stored[Old(x.name)].address) ELSE old[Old(x.name)]]
<1>1. answer' = IF Failed(plan) THEN plan.error ELSE CheckIfDiff(old, new)
  BY DEF Diff
<1>2. UNCHANGED <<bindings, stored, changed>>
  BY DEF Diff, Stays
<1>3. stored \in Seq(StoredElement)
  BY DEF StoredOK
<1>4. Failed(plan) => plan.error \in Errors
  BY DEF WalkInv, WalkRecord, Failed
<1>5. old \in Seq({Revised(stored[i]) : i \in DOMAIN stored}) /\ DOMAIN old = DOMAIN stored
  <2>1. Len(stored) \in Nat /\ DOMAIN stored = 1 .. Len(stored)
    BY <1>3
  <2>2. DOMAIN old = 1 .. Len(stored) /\ old = [i \in DOMAIN old |-> old[i]]
        /\ \A i \in 1 .. Len(stored) : old[i] \in {Revised(stored[j]) : j \in DOMAIN stored}
    BY <2>1
  <2> HIDE DEF old
  <2> QED BY <2>1, <2>2, SeqIs
<1>6. \A i \in DOMAIN stored : old[i] = Revised(stored[i])
  OBVIOUS
<1>7. \A i \in DOMAIN plan.order : IsContract(plan.order[i]) =>
        new[i] = Element(plan.order[i], stored[Old(plan.order[i].name)].address)
  OBVIOUS
<1>8. DOMAIN new = DOMAIN plan.order
  OBVIOUS
<1> HIDE DEF old, new
<1>9. /\ CheckIfDiff(old, new) \in {"diff", "same", "TypeError"}
      /\ CheckIfDiff(old, new) = "same" =>
           Len(old) = Len(new) /\ \A i \in DOMAIN old : DiffAt(old[i], new[i]) = "same"
  BY <1>5, SameMeans
<1>10. answer' \in {"diff", "same", "TypeError"} \cup Errors
  BY <1>1, <1>4, <1>9
<1>11. ASSUME answer' = "same", NEW i \in DOMAIN bindings
       PROVE  \E k \in DOMAIN stored :
                /\ stored[k].address /\ stored[k].args = bindings[i].args
                /\ stored[k].bytecode
                     = [of |-> bindings[i].contractName, new |-> bindings[i].contractName \in changed]
  <2> DEFINE b == bindings[i].name
  <2>1. ~Failed(plan) /\ CheckIfDiff(old, new) = "same"
    <3>1. "same" \notin Errors
      BY DEF Errors
    <3> QED BY <1>1, <1>4, <1>11, <3>1
  <2>2. Planned
    <3>1. status = "comparing" /\ plan.todo = <<>>
      BY <2>1 DEF Diff
    <3> QED BY <2>1, <3>1 DEF WalkInv, Planned
  <2>3. b \in BindingNames /\ Binding(b) = bindings[i]
    BY BindingIs DEF BindingNames
  <2>4. ContractElement(b) \in Range(plan.order) /\ ContractElement(b).name = b /\ IsContract(ContractElement(b))
    BY <2>2, <2>3, ContractsOK
  <2>5. PICK k \in DOMAIN plan.order : plan.order[k] = ContractElement(b)
    BY <2>4 DEF Range
  <2>6. k \in DOMAIN old
    <3>1. Len(plan.order) \in Nat /\ DOMAIN plan.order = 1 .. Len(plan.order)
      BY <2>2, WalkFields DEF Planned
    <3>2. Len(new) = Len(plan.order)
      BY <1>8, <3>1
    <3>3. DOMAIN old = 1 .. Len(old)
      BY <1>5
    <3> QED BY <1>9, <2>1, <3>1, <3>2, <3>3
  <2>7. DiffAt(old[k], new[k]) = "same"
    BY <1>9, <2>1, <2>6
  <2> DEFINE made == Element(ContractElement(b), stored[Old(b)].address)
             was == stored[k]
  <2>8. new[k] = made /\ old[k] = Revised(was) /\ k \in DOMAIN stored
    BY <1>5, <1>6, <1>7, <2>4, <2>5, <2>6
  <2>9. /\ IsContract(made) /\ made.args = bindings[i].args
        /\ made.bytecode = [of |-> bindings[i].contractName, new |-> bindings[i].contractName \in changed]
    BY <2>3, <2>4 DEF Element, IsContract
  <2>10. was \in StoredElement
    BY <1>3, <2>8
  <2> HIDE DEF made, was
  <2>11. IsContract(Revised(was)) => IsContract(was) /\ Revised(was) = was
    BY <2>10 DEF Revised, IsContract, StoredElement
  <2>12. IsContract(Revised(was))
    BY <2>7, <2>8, <2>9 DEF DiffAt
  <2>13. was.bytecode = made.bytecode /\ SameArgs(was.args, made.args) /\ was.address
    BY <2>7, <2>8, <2>9, <2>11, <2>12 DEF DiffAt
  <2>14. was.args = made.args
    <3>1. was.args \in Seq(Argument) /\ bindings[i].args \in Seq(Argument)
      BY <2>10, FieldTypes DEF StoredElement
    <3> QED BY <2>9, <2>13, <3>1, SameArgsOK
  <2> QED BY <2>8, <2>9, <2>13, <2>14 DEF was
<1>12. NoDiffMeansDeployed'
  <2> SUFFICES ASSUME answer' = "same", NEW i \in DOMAIN bindings
               PROVE  \E k \in DOMAIN stored :
                        /\ stored[k].address /\ stored[k].args = bindings[i].args
                        /\ stored[k].bytecode
                             = Element([name |-> bindings[i].name, type |-> "contract"], TRUE).bytecode
    BY <1>2 DEF NoDiffMeansDeployed, Element, Binding
  <2>1. Binding(bindings[i].name) = bindings[i]
    BY BindingIs
  <2>2. Element([name |-> bindings[i].name, type |-> "contract"], TRUE).bytecode
          = [of |-> bindings[i].contractName, new |-> bindings[i].contractName \in changed]
    BY <2>1 DEF Element, IsContract
  <2> QED BY <1>11, <2>2
<1> QED BY <1>10, <1>12

-----------------------------------------------------------------------------
(* The invariant holds at first, and every step keeps it.                  *)

LEMMA StatusApart ==
  /\ Errors \cap Outcomes = {} /\ Nothing \notin Errors
  /\ \A s \in {"building", "built"} \cup Errors :
       s \notin {"resolving", "resolved", "batching", "batched", "comparing", "compared"}
BY DEF Errors, Outcomes, Nothing

LEMMA SameModule ==
  ASSUME BuilderOK, UNCHANGED <<bindings, events, moduleEvents, templates, initialized, budget>>
  PROVE  BuilderOK' /\ (Valid => Valid')
<1>1. Declared'
  BY SameDeclared DEF BuilderOK, Declared, Typed
<1>2. Valid => Valid'
  BY DEF Valid
<1> QED BY <1>1, <1>2 DEF BuilderOK

LEMMA SameAnswer ==
  ASSUME AnswerOK, status # "compared", UNCHANGED answer
  PROVE  AnswerOK'
<1>1. answer = "none"
  BY DEF AnswerOK
<1> QED BY <1>1 DEF AnswerOK, NoDiffMeansDeployed

LEMMA SameBatches ==
  ASSUME BatchInv, UNCHANGED batched, status' \notin {"batching", "batched"}
  PROVE  BatchInv'
<1>1. BatchTyped(batched)'
  BY DEF BatchInv, BatchTyped
<1> QED BY <1>1 DEF BatchInv

LEMMA SamePlan ==
  ASSUME WalkInv, UNCHANGED <<plan, bindings, events, moduleEvents>>,
         status' \in {"resolved", "batching", "batched", "compared"},
         Failed(plan) => status' = "compared", ~Failed(plan) => WalkOK(plan) /\ plan.todo = <<>>
  PROVE  WalkInv'
<1>1. ~Failed(plan) => WalkOK(plan)'
  BY WalkStays
<1>2. (plan \in WalkRecord)' /\ (Failed(plan)' <=> Failed(plan))
  BY DEF WalkInv, Failed
<1> QED BY <1>1, <1>2 DEF WalkInv

LEMMA NoPlan ==
  ASSUME WalkInv, UNCHANGED plan,
         status' \notin {"resolving", "resolved", "batching", "batched", "comparing", "compared"}
  PROVE  WalkInv'
BY DEF WalkInv

LEMMA BuildInitOK ==
  ASSUME BuildInit
  PROVE  BuildInv
<1>1. BuilderOK
  BY InitOK
<1>2. status = "building" /\ plan = NoOrder /\ batched = NoBatches /\ stored = <<>> /\ changed = {} /\ answer = "none"
  BY DEF BuildInit, Init
<1>3. WalkInv
  <2>1. plan \in WalkRecord
    BY <1>2 DEF NoOrder, WalkRecord
  <2> QED BY <1>2, <2>1 DEF WalkInv
<1>4. BatchInv
  <2>1. BatchTyped(NoBatches)
    BY DEF NoBatches, BatchTyped
  <2> QED BY <1>2, <2>1 DEF BatchInv
<1>5. StoredOK /\ AnswerOK
  BY <1>2 DEF StoredOK, AnswerOK, NoDiffMeansDeployed
<1> QED BY <1>1, <1>2, <1>3, <1>4, <1>5 DEF BuildInv, Outcomes

LEMMA DeclareStep ==
  ASSUME BuildInv, Building, Declare, UNCHANGED resolverVars
  PROVE  BuildInv'
<1>1. Declares /\ status = "building" /\ UNCHANGED <<plan, batched, stored, changed, answer>>
  BY DeclareOK DEF BuildInv, Building, resolverVars
<1>2. status' \in Outcomes \cup Errors /\ (status' \in Outcomes \ {"building"} => Valid')
  BY <1>1, StatusApart DEF Declares, Outcomes
<1>3. status' \notin {"resolving", "resolved", "batching", "batched", "comparing", "compared"}
  BY <1>1, StatusApart DEF Declares
<1>4. WalkInv' /\ BatchInv' /\ AnswerOK'
  BY <1>1, <1>3, NoPlan, SameBatches, SameAnswer DEF BuildInv
<1>5. StoredOK'
  BY <1>1 DEF BuildInv, StoredOK
<1> QED BY <1>1, <1>2, <1>4, <1>5 DEF BuildInv, Declares

(***************************************************************************)
(* The other steps but Edit leave the module as it is.                     *)
(***************************************************************************)
Keeps == Stays /\ UNCHANGED budget

LEMMA KeepsOK ==
  ASSUME BuildInv, Keeps, status \in Outcomes \ {"building", "compared"}, UNCHANGED answer,
         status' \in Outcomes \cup Errors, WalkInv', BatchInv', StoredOK'
  PROVE  BuildInv'
<1>1. BuilderOK' /\ Valid'
  BY SameModule DEF BuildInv, Keeps, Stays
<1>2. AnswerOK'
  BY SameAnswer DEF BuildInv
<1> QED BY <1>1, <1>2 DEF BuildInv

LEMMA ResolveStep ==
  ASSUME BuildInv, Resolve("built", "resolving") \/ Resolve("deployed", "comparing")
  PROVE  BuildInv'
<1>1. /\ Keeps /\ UNCHANGED <<batched, stored, changed, answer>> /\ plan' = OrderToResolve
      /\ status \in {"built", "deployed"} /\ status' \in {"resolving", "comparing"}
  BY DEF Resolve, Keeps
<1>2. OrderToResolve \in WalkRecord /\ ~Failed(OrderToResolve) /\ WalkOK(OrderToResolve)
  BY OrderToResolveOK DEF BuildInv, BuilderOK
<1>3. WalkOK(plan)'
  BY <1>1, <1>2, WalkStays DEF Keeps, Stays
<1>4. WalkInv'
  BY <1>1, <1>2, <1>3 DEF WalkInv
<1>5. BatchInv' /\ StoredOK'
  BY <1>1, SameBatches DEF BuildInv, StoredOK
<1> QED BY <1>1, <1>4, <1>5, KeepsOK DEF Outcomes

LEMMA WalkStep ==
  ASSUME BuildInv, Walk
  PROVE  BuildInv'
<1>1. /\ Keeps /\ UNCHANGED <<batched, stored, changed, answer, status>> /\ plan' = Step(plan)
      /\ status \in {"resolving", "comparing"} /\ plan.todo # <<>> /\ ~Failed(plan)
  BY DEF Walk, Keeps
<1>2. plan \in WalkRecord /\ WalkOK(plan)
  BY <1>1 DEF BuildInv, WalkInv
<1>3. Step(plan) \in WalkRecord /\ (~Failed(Step(plan)) => WalkOK(Step(plan)))
  BY <1>1, <1>2, StepOK DEF BuildInv, BuilderOK
<1>4. ~Failed(Step(plan)) => WalkOK(plan)'
  BY <1>1, <1>3, WalkStays DEF Keeps, Stays
<1>5. WalkInv'
  BY <1>1, <1>3, <1>4 DEF WalkInv, Failed
<1>6. BatchInv' /\ StoredOK'
  BY <1>1, SameBatches DEF BuildInv, StoredOK
<1> QED BY <1>1, <1>5, <1>6, KeepsOK DEF Outcomes

LEMMA EndResolveStep ==
  ASSUME BuildInv, EndResolve
  PROVE  BuildInv'
<1>1. /\ Keeps /\ UNCHANGED <<plan, batched, stored, changed, answer>> /\ status = "resolving"
      /\ plan.todo = <<>> \/ Failed(plan)
      /\ status' = IF Failed(plan) THEN plan.error ELSE "resolved"
  BY DEF EndResolve, Keeps
<1>2. (Failed(plan) => plan.error \in Errors) /\ (~Failed(plan) => WalkOK(plan))
  BY <1>1 DEF BuildInv, WalkInv, WalkRecord, Failed
<1>3. WalkInv'
  <2>1. CASE Failed(plan)
    BY <1>1, <1>2, <2>1, StatusApart, NoPlan DEF BuildInv
  <2>2. CASE ~Failed(plan)
    BY <1>1, <1>2, <2>2, SamePlan DEF BuildInv, Keeps, Stays
  <2> QED BY <2>1, <2>2
<1>4. BatchInv'
  <2>1. status' \notin {"batching", "batched"}
    BY <1>1, <1>2, StatusApart
  <2> QED BY <1>1, <2>1, SameBatches DEF BuildInv
<1>5. StoredOK'
  BY <1>1 DEF BuildInv, StoredOK
<1> QED BY <1>1, <1>2, <1>3, <1>4, <1>5, KeepsOK DEF Outcomes

LEMMA BatchStep ==
  ASSUME BuildInv, Batch \/ BatchElement
  PROVE  BuildInv'
<1>1. /\ Keeps /\ UNCHANGED <<plan, stored, changed, answer>>
      /\ status \in {"resolved", "batching"} /\ status' = "batching"
      /\ \/ status = "resolved" /\ batched' = ElementsToBatch(plan.order)
         \/ /\ status = "batching" /\ batched.todo # <<>> /\ ~Failed(batched)
            /\ batched' = HandleElement(batched)
  BY DEF Batch, BatchElement, Keeps
<1>2. ~Failed(plan) /\ WalkOK(plan) /\ plan.todo = <<>> /\ Planned
  BY <1>1 DEF BuildInv, WalkInv, BuilderOK, Planned
<1>3. WalkInv'
  BY <1>1, <1>2, SamePlan DEF BuildInv, Keeps, Stays
<1>4. PICK r : /\ batched' = r /\ BatchTyped(r) /\ (~Failed(r) => BatchOK(r))
               /\ ~Failed(r) /\ ~LibraryWithArgs => LibrariesFirst(r)
  <2>1. CASE status = "resolved" /\ batched' = ElementsToBatch(plan.order)
    BY <1>2, <2>1, ElementsToBatchOK, LibrariesBegin
  <2>2. CASE /\ status = "batching" /\ batched.todo # <<>> /\ ~Failed(batched)
             /\ batched' = HandleElement(batched)
    <3>1. BatchTyped(batched) /\ BatchOK(batched) /\ (~LibraryWithArgs => LibrariesFirst(batched))
      BY <2>2 DEF BuildInv, BatchInv
    <3> QED BY <1>2, <2>2, <3>1, HandleElementOK, LibrariesStay
  <2> QED BY <1>1, <2>1, <2>2
<1>5. BatchInv'
  <2>1. BatchTyped(batched)' /\ (Failed(batched)' <=> Failed(r))
    BY <1>4 DEF BatchTyped, Failed
  <2>2. ~Failed(r) => BatchOK(batched)' /\ (~LibraryWithArgs' => LibrariesFirst(batched)')
    BY <1>1, <1>4, BatchStays DEF Keeps, Stays
  <2> QED BY <1>1, <2>1, <2>2 DEF BatchInv
<1>6. StoredOK'
  BY <1>1 DEF BuildInv, StoredOK
<1> QED BY <1>1, <1>3, <1>5, <1>6, KeepsOK DEF Outcomes

LEMMA EndBatchStep ==
  ASSUME BuildInv, EndBatch
  PROVE  BuildInv'
<1>1. /\ Keeps /\ UNCHANGED <<plan, batched, stored, changed, answer>> /\ status = "batching"
      /\ batched.todo = <<>> \/ Failed(batched)
      /\ status' = IF Failed(batched) THEN batched.error ELSE "batched"
  BY DEF EndBatch, Keeps
<1>2. ~Failed(plan) /\ WalkOK(plan) /\ plan.todo = <<>>
  BY <1>1 DEF BuildInv, WalkInv
<1>3. /\ Failed(batched) => batched.error \in Errors
      /\ ~Failed(batched) => BatchOK(batched) /\ (~LibraryWithArgs => LibrariesFirst(batched))
  BY <1>1 DEF BuildInv, BatchInv, BatchTyped, Failed
<1>4. WalkInv' /\ BatchInv'
  <2>1. CASE Failed(batched)
    <3>1. status' \notin {"resolving", "resolved", "batching", "batched", "comparing", "compared"}
      BY <1>1, <1>3, <2>1, StatusApart
    <3> QED BY <1>1, <3>1, NoPlan, SameBatches DEF BuildInv
  <2>2. CASE ~Failed(batched)
    <3>1. WalkInv'
      BY <1>1, <1>2, <2>2, SamePlan DEF BuildInv, Keeps, Stays
    <3>2. BatchOK(batched)' /\ (~LibraryWithArgs' => LibrariesFirst(batched)')
      BY <1>1, <1>3, <2>2, BatchStays DEF Keeps, Stays
    <3>3. BatchTyped(batched)' /\ ~Failed(batched)' /\ (batched.todo = <<>>)'
      BY <1>1, <2>2 DEF BuildInv, BatchInv, BatchTyped, Failed
    <3> QED BY <3>1, <3>2, <3>3 DEF BatchInv
  <2> QED BY <2>1, <2>2
<1>5. StoredOK'
  BY <1>1 DEF BuildInv, StoredOK
<1> QED BY <1>1, <1>3, <1>4, <1>5, KeepsOK DEF Outcomes

LEMMA DeployStep ==
  ASSUME BuildInv, NEW n \in 0 .. Len(plan.order), Deploy(n)
  PROVE  BuildInv'
<1>1. /\ Keeps /\ UNCHANGED <<plan, batched, changed, answer>>
      /\ status = "resolved" /\ status' = "deployed"
  BY DEF Deploy, Keeps
<1>2. WalkInv' /\ BatchInv'
  BY <1>1, NoPlan, SameBatches DEF BuildInv
<1>3. StoredOK'
  BY DeployOK DEF BuildInv, BuilderOK
<1> QED BY <1>1, <1>2, <1>3, KeepsOK DEF Outcomes

LEMMA EditStep ==
  ASSUME BuildInv, Edit
  PROVE  BuildInv'
<1>1. status = "deployed" /\ UNCHANGED <<status, plan, batched, stored, answer>>
  BY DEF Edit
<1>2. BuilderOK' /\ Valid' /\ changed' \subseteq Contracts
  BY <1>1, EditOK DEF BuildInv, StoredOK, Outcomes
<1>3. WalkInv' /\ BatchInv' /\ AnswerOK'
  BY <1>1, NoPlan, SameBatches, SameAnswer DEF BuildInv
<1>4. StoredOK'
  BY <1>1, <1>2 DEF BuildInv, StoredOK
<1> QED BY <1>1, <1>2, <1>3, <1>4 DEF BuildInv

LEMMA DiffStep ==
  ASSUME BuildInv, Diff
  PROVE  BuildInv'
<1>1. /\ Keeps /\ UNCHANGED <<plan, batched, stored, changed>>
      /\ status = "comparing" /\ status' = "compared" /\ (plan.todo = <<>> \/ Failed(plan))
  BY DEF Diff, Keeps
<1>2. BuilderOK' /\ Valid'
  BY <1>1, SameModule DEF BuildInv, Keeps, Stays, Outcomes
<1>3. WalkInv'
  <2>1. ~Failed(plan) => WalkOK(plan) /\ plan.todo = <<>>
    BY <1>1 DEF BuildInv, WalkInv
  <2> QED BY <1>1, <2>1, SamePlan DEF BuildInv, Keeps, Stays
<1>4. BatchInv' /\ StoredOK'
  BY <1>1, SameBatches DEF BuildInv, StoredOK
<1>5. AnswerOK'
  BY <1>1, DiffOK DEF BuildInv, BuilderOK, AnswerOK
<1> QED BY <1>1, <1>2, <1>3, <1>4, <1>5 DEF BuildInv, Outcomes

LEMMA StutterStep ==
  ASSUME BuildInv, UNCHANGED allVars
  PROVE  BuildInv'
<1>1. UNCHANGED <<bindings, events, moduleEvents, templates, initialized, budget, status>>
      /\ UNCHANGED <<plan, batched, stored, changed, answer>>
  BY DEF allVars
<1>2. BuilderOK' /\ (Valid => Valid')
  BY <1>1, SameModule DEF BuildInv
<1>3. WalkInv'
  <2>1. WalkOK(plan) => WalkOK(plan)'
    BY <1>1, WalkStays
  <2> QED BY <1>1, <2>1 DEF BuildInv, WalkInv, Failed
<1>4. BatchInv'
  <2>1. BatchOK(batched) => /\ BatchOK(batched)' /\ (LibraryWithArgs' <=> LibraryWithArgs)
                            /\ LibrariesFirst(batched) => LibrariesFirst(batched)'
    BY <1>1, BatchStays
  <2>2. BatchTyped(batched)'
    BY <1>1 DEF BuildInv, BatchInv, BatchTyped
  <2> QED BY <1>1, <2>1, <2>2 DEF BuildInv, BatchInv, Failed
<1>5. StoredOK' /\ AnswerOK'
  <2>1. NoDiffMeansDeployed'
    BY <1>1 DEF BuildInv, AnswerOK, NoDiffMeansDeployed, Element, Binding
  <2> QED BY <1>1, <2>1 DEF BuildInv, StoredOK, AnswerOK
<1> QED BY <1>1, <1>2, <1>3, <1>4, <1>5 DEF BuildInv

\* Every step keeps the invariant.
LEMMA BuildNextOK ==
  ASSUME BuildInv, [BuildNext]_allVars
  PROVE  BuildInv'
<1>1. CASE Building /\ Declare /\ UNCHANGED resolverVars
  BY <1>1, DeclareStep
<1>2. CASE Resolve("built", "resolving") \/ Resolve("deployed", "comparing")
  BY <1>2, ResolveStep
<1>3. CASE Walk
  BY <1>3, WalkStep
<1>4. CASE EndResolve
  BY <1>4, EndResolveStep
<1>5. CASE Batch \/ BatchElement
  BY <1>5, BatchStep
<1>6. CASE EndBatch
  BY <1>6, EndBatchStep
<1>7. CASE \E n \in 0 .. Len(plan.order) : Deploy(n)
  BY <1>7, DeployStep
<1>8. CASE Edit
  BY <1>8, EditStep
<1>9. CASE Diff
  BY <1>9, DiffStep
<1>10. CASE Ended \/ UNCHANGED allVars
  BY <1>10, StutterStep DEF Ended
<1> QED BY <1>1, <1>2, <1>3, <1>4, <1>5, <1>6, <1>7, <1>8, <1>9, <1>10 DEF BuildNext

-----------------------------------------------------------------------------
(* The theorems.                                                           *)

(***************************************************************************)
(* The inductive invariant of the builder, of the walk of resolve, of the  *)
(* loops of _executeParallel, of the state file and of diff.               *)
(***************************************************************************)
THEOREM BuildInvariant == BuildSpec => []BuildInv
<1>1. BuildInit => BuildInv
  BY BuildInitOK
<1>2. BuildInv /\ [BuildNext]_allVars => BuildInv'
  BY BuildNextOK
<1> QED BY <1>1, <1>2, PTL DEF BuildSpec

(***************************************************************************)
(* The lists of ModuleBuilder keep their types, moduleState has only names *)
(* of contracts and hooks, and resolve, the batcher and diff fail only     *)
(* with the errors that the code names.                                    *)
(***************************************************************************)
THEOREM BuildTypeCorrect == BuildSpec => []TypeOK
<1>1. BuildInv => TypeOK
  <2> SUFFICES ASSUME BuildInv PROVE TypeOK
    OBVIOUS
  <2>1. plan \in WalkRecord /\ BatchTyped(batched)
    BY DEF BuildInv, WalkInv, BatchInv
  <2>2. plan.error \in Errors \cup {Nothing} /\ batched.error \in Errors \cup {Nothing}
    BY <2>1 DEF WalkRecord, BatchTyped
  <2>3. \A i \in DOMAIN plan.order : plan.order[i].name \in Names \cup EventNames
    <3>1. \A i \in DOMAIN plan.order : plan.order[i] \in ElementRecord
      BY <2>1, WalkFields
    <3> QED BY <3>1 DEF ElementRecord
  <2> QED BY <2>2, <2>3 DEF TypeOK, BuildInv, BuilderOK, Declared, StoredOK, AnswerOK
<1> QED BY <1>1, BuildInvariant, PTL

(***************************************************************************)
(* resolve puts a contract after the contracts, libraries and earlier      *)
(* hooks that it needs, and a hook that runs after a deployment after what *)
(* it depends on and after the contracts that it uses, however deep they   *)
(* refer to each other.  Nothing is said of the hooks that a hook uses,    *)
(* which the code does not order.                                          *)
(***************************************************************************)
THEOREM OrderIsRight == BuildSpec => []OrderRespectsDependencies
<1>1. BuildInv => OrderRespectsDependencies
  BY WalkProperties DEF BuildInv, BuilderOK
<1> QED BY <1>1, BuildInvariant, PTL

(***************************************************************************)
(* _resolveContractsAndEvents and handleModuleEvents leave no contract and *)
(* no hook of a contract or of the module out of the deployment.           *)
(***************************************************************************)
THEOREM NothingIsDropped == BuildSpec => []NothingDropped
<1>1. BuildInv => NothingDropped
  BY WalkProperties DEF BuildInv, BuilderOK
<1> QED BY <1>1, BuildInvariant, PTL

(***************************************************************************)
(* An integer that ModuleValidator.validate accepts for a constructor fits *)
(* its Solidity type, whatever the width.                                  *)
(***************************************************************************)
THEOREM NumbersAreRight == BuildSpec => []AcceptedNumbersFit
<1>1. BuildInv => AcceptedNumbersFit
  BY NumbersFit DEF BuildInv, BuilderOK, AcceptedNumbersFit, Outcomes
<1> QED BY <1>1, BuildInvariant, PTL

(***************************************************************************)
(* _executeParallel fills its batches without a hole, puts each element    *)
(* into one of them, once, and loses one, in batches[undefined], only if a *)
(* library has contracts for arguments.                                    *)
(***************************************************************************)
THEOREM BatchesComplete == BuildSpec => []BatchesAreComplete
<1>1. BuildInv => BatchesAreComplete
  BY BatchProperties DEF BuildInv, BuilderOK
<1> QED BY <1>1, BuildInvariant, PTL

(***************************************************************************)
(* _handleElement puts a contract into a later batch than its constructor  *)
(* arguments and the declared libraries it is linked with, and Batcher a   *)
(* hook that runs after a deployment into a later one than what it depends *)
(* on or uses.  Linked contracts that are not declared as libraries, and   *)
(* the dependencies of deploy functions, may be in the same batch.         *)
(***************************************************************************)
THEOREM BatchesAreRight == BuildSpec => []BatchesRespectDependencies
<1>1. BuildInv => BatchesRespectDependencies
  BY BatchProperties DEF BuildInv, BuilderOK
<1> QED BY <1>1, BuildInvariant, PTL

(***************************************************************************)
(* checkIfDiff, which compares moduleState with the state file one by one, *)
(* says that nothing has changed only if every contract is deployed with   *)
(* its bytecode and arguments.                                             *)
(***************************************************************************)
THEOREM SameMeansDeployed == BuildSpec => []NoDiffMeansDeployed
<1>1. BuildInv => NoDiffMeansDeployed
  BY DEF BuildInv, AnswerOK
<1> QED BY <1>1, BuildInvariant, PTL
=============================================================================
