--------------------------- MODULE ProjectProofs ---------------------------
(***************************************************************************)
(* Proofs about Project: no contract is created twice for a module and a   *)
(* network, and a task that returns without an error has deployed what it  *)
(* was asked for.                                                          *)
(*                                                                         *)
(* The contracts of a module come from a walk over the modules it uses,    *)
(* which the first part shows to exist and to contain the walks of those.  *)
(* KeptInv says where an address is that must not be created again: in     *)
(* the state of the module, or during its deployment in moduleState.       *)
(* RightInv says that the addresses of the states are those of their       *)
(* contracts, and AskedDeployed that the modules of a task that need not   *)
(* be deployed any more belong to one whose deployment succeeded.          *)
(***************************************************************************)
EXTENDS Project, TLAPS, FiniteSetTheorems, NaturalsInduction

-----------------------------------------------------------------------------
(* The invariants.                                                         *)

Loaded == phase \in {"store", "execute", "mined"}

Deploying == phase = "resolve" \/ Loaded

Addresses == Nat \cup {Absent}

TypeOK ==
  /\ records \in [Modules \X Keys -> [Contracts -> Addresses] \cup {Torn}]
  /\ chain \in [Networks -> Seq(Contracts)]
  /\ phase \in {"down", "idle", "next", "resolve", "store", "execute", "mined"}
  /\ test \in BOOLEAN
  /\ phase # "down" => network \in Networks
  /\ phase = "down" => ~test
  /\ rest \in Seq(Modules)
  /\ Deploying => rest # <<>>
  /\ mem \in [Contracts -> Addresses]
  /\ Loaded => mem \in [Contracts -> Nat]

(* What is kept is in the state of its module, except what was created     *)
(* last, and this is not in the state yet.                                 *)
KeptInRecords ==
  \A m \in Modules, k \in Keys : \A c \in Range(Bindings[m]) :
    <<m, k, c>> \in kept \ Unstored =>
      records[<<m, k>>] # Torn /\ records[<<m, k>>][c] > None

(* During a deployment moduleState has the address of what is kept.        *)
KeptInMem ==
  Loaded => \A c \in Range(Bindings[Current]) : <<Current, Key, c>> \in kept => mem[c] > None

(* Only a test environment keeps something in memory.                      *)
KeptInMemory ==
  ~test => \A m \in Modules, c \in Contracts : <<m, Memory, c>> \notin kept

KeptInv == TypeOK /\ KeptInRecords /\ KeptInMem /\ KeptInMemory

(* The addresses of a state are those of its contracts on the network.     *)
Right(state, n) ==
  \A c \in Contracts :
    state[c] > None => state[c] <= Len(chain[n]) /\ chain[n][state[c]] = c

(* What the other tool has created is still there.                         *)
ElsewhereThere ==
  \A n \in Networks \ reset :
    /\ Len(Elsewhere[n]) <= Len(chain[n])
    /\ \A i \in DOMAIN Elsewhere[n] : chain[n][i] = Elsewhere[n][i]

FilesRight ==
  \A m \in Modules : \A n \in Networks \ reset :
    records[<<m, n>>] # Torn => Right(records[<<m, n>>], n)

MemoryRight ==
  \A m \in Modules :
    IF test
    THEN /\ records[<<m, Memory>>] \in [Contracts -> Addresses]
         /\ network \notin reset => Right(records[<<m, Memory>>], network)
    ELSE records[<<m, Memory>>] = Nothing

MemRight ==
  Loaded =>
    /\ network \notin reset => Right(mem, network)
    /\ ~declined => \A c \in Range(Bindings[Current]) :
                      mem[c] > None => mem[c] <= Len(chain[network])

(* Between the stores moduleState is what is stored.                       *)
MemStored == phase = "execute" => records[<<Current, Key>>] = mem

FinishedRight ==
  /\ finished \subseteq initialized \cap Modules
  /\ phase = "down" => finished = {}
  /\ Deploying => Current \in initialized \ finished
  /\ \A u \in finished : /\ records[<<u, Key>>] \in [Contracts -> Addresses]
                         /\ \A c \in Range(Bindings[u]) : RightAddress(u, c)

RightInv ==
  /\ TypeOK /\ ElsewhereThere /\ FilesRight /\ MemoryRight /\ MemRight /\ MemStored
  /\ FinishedRight

(* The modules of the task that are behind it, or initialized and so to be *)
(* skipped, belong to a module whose deployment succeeded or is under way. *)
AskedDeployed ==
  /\ phase # "down" /\ phase # "idle" /\ ~skipsUnfinished =>
       /\ \A m \in asked : m \in Range(rest) \/ m \in Deployed(finished)
                             \/ (Deploying /\ m \in UsedBy(Current))
       /\ \A m \in asked \cap initialized :
            m \in Deployed(finished) \/ (Deploying /\ m \in UsedBy(Current))
  /\ outcome = "done" =>
       phase = "idle" /\ (~skipsUnfinished => asked \subseteq Deployed(finished))

-----------------------------------------------------------------------------
(* Sequences.                                                              *)

(***************************************************************************)
(* Induction over the natural numbers, from the least number outside a set.*)
(***************************************************************************)
LEMMA AllNumbers ==
  ASSUME NEW P \in SUBSET Nat, 0 \in P, \A n \in P : n + 1 \in P
  PROVE  P = Nat
<1> SUFFICES ASSUME Nat \ P # {} PROVE FALSE
  OBVIOUS
<1>1. PICK m \in Nat \ P : \A n \in Nat \ P : <<n, m>> \notin OpToRel(<, Nat)
  BY NatLessThanWellFounded, WFMin
<1>2. \A n \in Nat \ P : ~(n < m)
  BY <1>1 DEF OpToRel
<1>3. m # 0 /\ m - 1 \in Nat /\ m - 1 < m
  OBVIOUS
<1>4. m - 1 \in P
  BY <1>2, <1>3
<1>5. (m - 1) + 1 \in P
  BY <1>4
<1> QED BY <1>3, <1>5

(***************************************************************************)
(* The concatenation of a sequence of sequences exists and has what each   *)
(* of them has.                                                            *)
(***************************************************************************)
Flat(seqs, f, i) == IF i = 1 THEN seqs[i] ELSE f[i - 1] \o seqs[i]

LEMMA RangeOfConcat ==
  ASSUME NEW S, NEW s \in Seq(S), NEW t \in Seq(S)
  PROVE  s \o t \in Seq(S) /\ \A x : x \in Range(s \o t) <=> x \in Range(s) \/ x \in Range(t)
<1>1. s \o t \in Seq(S) /\ Len(s \o t) = Len(s) + Len(t)
  OBVIOUS
<1>2. ASSUME NEW x \in Range(s \o t) PROVE x \in Range(s) \/ x \in Range(t)
  <2>1. PICK i \in 1 .. Len(s) + Len(t) : x = (s \o t)[i]
    BY <1>1, <1>2 DEF Range
  <2>2. CASE i <= Len(s)
    BY <2>1, <2>2 DEF Range
  <2>3. CASE i > Len(s)
    <3>1. x = t[i - Len(s)] /\ i - Len(s) \in 1 .. Len(t)
      BY <2>1, <2>3
    <3> QED BY <3>1 DEF Range
  <2> QED BY <2>2, <2>3
<1>3. ASSUME NEW x \in Range(s) PROVE x \in Range(s \o t)
  <2>1. PICK i \in 1 .. Len(s) : x = s[i]
    BY <1>3 DEF Range
  <2>2. x = (s \o t)[i] /\ i \in 1 .. Len(s \o t)
    BY <1>1, <2>1
  <2> QED BY <1>1, <2>2 DEF Range
<1>4. ASSUME NEW x \in Range(t) PROVE x \in Range(s \o t)
  <2>1. PICK i \in 1 .. Len(t) : x = t[i]
    BY <1>4 DEF Range
  <2>2. x = (s \o t)[Len(s) + i] /\ Len(s) + i \in 1 .. Len(s \o t)
    BY <1>1, <2>1
  <2> QED BY <1>1, <2>2 DEF Range
<1> QED BY <1>1, <1>2, <1>3, <1>4

LEMMA RangeOfTail ==
  ASSUME NEW S, NEW s \in Seq(S), s # <<>>
  PROVE  \A x : x \in Range(s) => x = Head(s) \/ x \in Range(Tail(s))
<1> SUFFICES ASSUME NEW x \in Range(s), x # Head(s) PROVE x \in Range(Tail(s))
  OBVIOUS
<1>1. PICK i \in 1 .. Len(s) : x = s[i]
  BY DEF Range
<1>2. i # 1 /\ i - 1 \in 1 .. Len(Tail(s)) /\ Tail(s)[i - 1] = x
  BY <1>1
<1>3. DOMAIN Tail(s) = 1 .. Len(Tail(s))
  OBVIOUS
<1> QED BY <1>2, <1>3 DEF Range

LEMMA FlatDefined ==
  ASSUME NEW S, NEW seqs \in Seq(Seq(S))
  PROVE  \E f \in [1 .. Len(seqs) -> Seq(S)] :
           \A i \in 1 .. Len(seqs) : f[i] = Flat(seqs, f, i)
<1> DEFINE N == Len(seqs)
           Up(f, n) == \A i \in 1 .. N : i <= n => f[i] = Flat(seqs, f, i)
           P == {n \in Nat : \E f \in [1 .. N -> Seq(S)] : Up(f, n)}
<1>1. N \in Nat /\ \A i \in 1 .. N : seqs[i] \in Seq(S)
  OBVIOUS
<1> HIDE DEF N
<1>2. 0 \in P
  <2>1. [i \in 1 .. N |-> seqs[i]] \in [1 .. N -> Seq(S)]
    BY <1>1
  <2>2. Up([i \in 1 .. N |-> seqs[i]], 0)
    OBVIOUS
  <2> HIDE DEF Up
  <2> QED BY <2>1, <2>2
<1>3. ASSUME NEW n \in P PROVE n + 1 \in P
  <2>1. PICK f \in [1 .. N -> Seq(S)] : Up(f, n)
    OBVIOUS
  <2> DEFINE g == [i \in 1 .. N |-> Flat(seqs, f, i)]
  <2>2. \A i \in 1 .. N : Flat(seqs, f, i) \in Seq(S)
    <3> SUFFICES ASSUME NEW i \in 1 .. N PROVE Flat(seqs, f, i) \in Seq(S)
      OBVIOUS
    <3>1. i # 1 => i - 1 \in 1 .. N
      BY <1>1
    <3>2. i # 1 => f[i - 1] \in Seq(S)
      BY <3>1
    <3>3. seqs[i] \in Seq(S)
      BY <1>1
    <3> QED BY <3>2, <3>3 DEF Flat
  <2>3. g \in [1 .. N -> Seq(S)]
    BY <2>2
  <2>4. ASSUME NEW i \in 1 .. N, i <= n + 1 PROVE g[i] = Flat(seqs, g, i)
    <3>1. CASE i = 1
      BY <3>1 DEF Flat
    <3>2. CASE i # 1
      <4>1. i - 1 \in 1 .. N /\ i - 1 <= n
        BY <1>1, <2>4, <3>2
      <4>2. g[i - 1] = f[i - 1]
        BY <2>1, <4>1
      <4> QED BY <3>2, <4>2 DEF Flat
    <3> QED BY <3>1, <3>2
  <2>5. Up(g, n + 1) /\ n + 1 \in Nat
    BY <2>4
  <2> HIDE DEF g, Up
  <2> QED BY <2>3, <2>5
<1>4. N \in P
  <2>1. P \in SUBSET Nat
    OBVIOUS
  <2> HIDE DEF P
  <2> QED BY <1>1, <1>2, <1>3, <2>1, AllNumbers
<1>5. PICK f \in [1 .. N -> Seq(S)] : Up(f, N)
  BY <1>4
<1>6. \A i \in 1 .. N : f[i] = Flat(seqs, f, i)
  BY <1>1, <1>5
<1> QED BY <1>6 DEF N

LEMMA Flattened ==
  ASSUME NEW S, NEW seqs \in Seq(Seq(S))
  PROVE  /\ FlattenSeq(seqs) \in Seq(S)
         /\ \A x : x \in Range(FlattenSeq(seqs)) <=>
                     \E i \in 1 .. Len(seqs) : x \in Range(seqs[i])
<1>1. CASE Len(seqs) = 0
  <2>1. FlattenSeq(seqs) = seqs /\ seqs = <<>>
    BY <1>1 DEF FlattenSeq
  <2>2. Range(seqs) = {} /\ seqs \in Seq(S)
    BY <2>1 DEF Range
  <2> QED BY <1>1, <2>1, <2>2
<1>2. CASE Len(seqs) # 0
  <2> DEFINE N == Len(seqs)
             flat == CHOOSE f : f = [i \in 1 .. N |-> Flat(seqs, f, i)]
             Has(n) == \A x : x \in Range(flat[n]) <=> \E i \in 1 .. n : x \in Range(seqs[i])
  <2>1. FlattenSeq(seqs) = flat[N]
    BY <1>2 DEF FlattenSeq, Flat
  <2>2. N \in Nat /\ N # 0 /\ \A i \in 1 .. N : seqs[i] \in Seq(S)
    BY <1>2
  <2>3. PICK f \in [1 .. N -> Seq(S)] : \A i \in 1 .. N : f[i] = Flat(seqs, f, i)
    BY FlatDefined
  <2>4. f = [i \in 1 .. N |-> Flat(seqs, f, i)]
    BY <2>3
  <2>5. flat = [i \in 1 .. N |-> Flat(seqs, flat, i)]
    BY <2>4
  <2> HIDE DEF N, flat
  <2>6. \A i \in 1 .. N : flat[i] = IF i = 1 THEN seqs[i] ELSE flat[i - 1] \o seqs[i]
    BY <2>5 DEF Flat
  <2> DEFINE Q == {n \in Nat : n + 1 \in 1 .. N => flat[n + 1] \in Seq(S) /\ Has(n + 1)}
  <2>7. 0 \in Q
    <3>1. 1 \in 1 .. N /\ flat[1] = seqs[1] /\ 0 + 1 = 1
      BY <2>2, <2>6
    <3>2. Has(1)
      BY <3>1
    <3> HIDE DEF Has
    <3> QED BY <2>2, <3>1, <3>2
  <2>8. ASSUME NEW n \in Q PROVE n + 1 \in Q
    <3>1. SUFFICES ASSUME n + 2 \in 1 .. N PROVE flat[n + 2] \in Seq(S) /\ Has(n + 2)
      <4>1. n + 1 + 1 = n + 2 /\ n + 1 \in Nat
        OBVIOUS
      <4> HIDE DEF Has
      <4> QED BY <3>1, <4>1
    <3>2. n + 1 \in 1 .. N /\ n + 2 # 1 /\ (n + 2) - 1 = n + 1
      BY <2>2, <3>1
    <3>3. flat[n + 1] \in Seq(S) /\ Has(n + 1)
      <4> HIDE DEF Has
      <4> QED BY <3>2
    <3>4. flat[n + 2] = flat[n + 1] \o seqs[n + 2]
      BY <2>6, <3>1, <3>2
    <3>5. seqs[n + 2] \in Seq(S)
      BY <2>2, <3>1
    <3>6. /\ flat[n + 2] \in Seq(S)
          /\ \A x : x \in Range(flat[n + 2]) <=>
                      x \in Range(flat[n + 1]) \/ x \in Range(seqs[n + 2])
      BY <3>3, <3>4, <3>5, RangeOfConcat
    <3>7. \A i : i \in 1 .. n + 2 <=> i \in 1 .. n + 1 \/ i = n + 2
      OBVIOUS
    <3> QED BY <3>3, <3>6, <3>7
  <2>9. Q = Nat
    <3>1. Q \in SUBSET Nat
      OBVIOUS
    <3> HIDE DEF Q
    <3> QED BY <2>7, <2>8, <3>1, AllNumbers
  <2>10. N - 1 \in Q /\ (N - 1) + 1 = N /\ N \in 1 .. N
    <3> HIDE DEF Q
    <3> QED BY <2>2, <2>9
  <2>11. flat[N] \in Seq(S) /\ Has(N)
    <3> HIDE DEF Has
    <3> QED BY <2>10
  <2> QED BY <2>1, <2>11 DEF N
<1> QED
  <2>1. Len(seqs) \in Nat
    OBVIOUS
  <2> QED BY <1>1, <1>2

-----------------------------------------------------------------------------
(* The walk over the used modules.                                         *)

Step(w, m) == FlattenSeq([i \in DOMAIN Uses[m] |-> w[Uses[m][i]]]) \o <<m>>

(***************************************************************************)
(* A walk that has the walks of the used modules consists of them and the  *)
(* module itself.                                                          *)
(***************************************************************************)
LEMMA StepHas ==
  ASSUME NEW w \in [Modules -> Seq(Modules)], NEW m \in Modules
  PROVE  /\ Step(w, m) \in Seq(Modules)
         /\ \A x : x \in Range(Step(w, m)) <=>
                     x = m \/ \E s \in Range(Uses[m]) : x \in Range(w[s])
<1> DEFINE used == [i \in DOMAIN Uses[m] |-> w[Uses[m][i]]]
<1>1. Uses[m] \in Seq(Modules)
  BY ProjectAssumption
<1>2. used \in Seq(Seq(Modules)) /\ Len(used) = Len(Uses[m])
      /\ \A i \in 1 .. Len(used) : used[i] = w[Uses[m][i]]
  <2>1. DOMAIN Uses[m] = 1 .. Len(Uses[m]) /\ Len(Uses[m]) \in Nat
    BY <1>1
  <2>2. \A i \in 1 .. Len(Uses[m]) : w[Uses[m][i]] \in Seq(Modules)
    BY <1>1
  <2>3. used \in [1 .. Len(Uses[m]) -> Seq(Modules)]
    BY <2>1, <2>2
  <2> QED BY <2>1, <2>3
<1>3. Step(w, m) = FlattenSeq(used) \o <<m>>
  BY DEF Step
<1> HIDE DEF used
<1>4. /\ FlattenSeq(used) \in Seq(Modules)
      /\ \A x : x \in Range(FlattenSeq(used)) <=>
                  \E i \in 1 .. Len(used) : x \in Range(used[i])
  BY <1>2, Flattened
<1>5. <<m>> \in Seq(Modules) /\ \A x : x \in Range(<<m>>) <=> x = m
  BY DEF Range
<1>6. \A x : x \in Range(Step(w, m)) <=> x \in Range(FlattenSeq(used)) \/ x = m
  BY <1>3, <1>4, <1>5, RangeOfConcat
<1>7. Step(w, m) \in Seq(Modules)
  BY <1>3, <1>4, <1>5, RangeOfConcat
<1>8. ASSUME NEW x
      PROVE  (\E i \in 1 .. Len(used) : x \in Range(used[i])) <=>
               \E s \in Range(Uses[m]) : x \in Range(w[s])
  <2>1. \A i \in 1 .. Len(used) : Uses[m][i] \in Range(Uses[m])
    BY <1>1, <1>2 DEF Range
  <2>2. ASSUME NEW i \in 1 .. Len(used), x \in Range(used[i])
        PROVE  \E s \in Range(Uses[m]) : x \in Range(w[s])
    <3>1. x \in Range(w[Uses[m][i]])
      BY <1>2, <2>2
    <3> QED BY <2>1, <3>1
  <2>3. ASSUME NEW s \in Range(Uses[m]), x \in Range(w[s])
        PROVE  \E i \in 1 .. Len(used) : x \in Range(used[i])
    <3>1. PICK i \in 1 .. Len(used) : s = Uses[m][i]
      BY <1>1, <1>2 DEF Range
    <3>2. used[i] = w[s]
      BY <1>2, <3>1
    <3> QED BY <2>3, <3>2
  <2> QED BY <2>2, <2>3
<1> QED BY <1>4, <1>6, <1>7, <1>8

LEMMA StepAgrees ==
  ASSUME NEW w, NEW v, NEW m \in Modules, \A s \in Range(Uses[m]) : w[s] = v[s]
  PROVE  Step(w, m) = Step(v, m)
<1>1. \A i \in DOMAIN Uses[m] : w[Uses[m][i]] = v[Uses[m][i]]
  BY DEF Range
<1>2. [i \in DOMAIN Uses[m] |-> w[Uses[m][i]]] = [i \in DOMAIN Uses[m] |-> v[Uses[m][i]]]
  BY <1>1
<1> QED BY <1>2 DEF Step

LEMMA WalkDefined ==
  /\ Walk \in [Modules -> Seq(Modules)]
  /\ \A m \in Modules : Walk[m] = Step(Walk, m)
<1> DEFINE N == Cardinality(Modules)
<1>1. PICK rank \in [Modules -> 0 .. N] :
        \A m \in Modules : \A s \in Range(Uses[m]) : rank[s] < rank[m]
  BY UsesAssumption
<1>2. N \in Nat
  BY UsesAssumption, FS_CardinalityType
<1> HIDE DEF N
<1> DEFINE Up(w, n) == \A m \in Modules : rank[m] <= n => w[m] = Step(w, m)
           P == {n \in Nat : \E w \in [Modules -> Seq(Modules)] : Up(w, n)}
<1>3. ASSUME NEW w \in [Modules -> Seq(Modules)], NEW n \in Int, Up(w, n)
      PROVE  \E v \in [Modules -> Seq(Modules)] : Up(v, n + 1)
  <2> DEFINE v == [m \in Modules |-> Step(w, m)]
  <2>1. v \in [Modules -> Seq(Modules)]
    BY StepHas
  <2>2. ASSUME NEW m \in Modules, rank[m] <= n + 1 PROVE v[m] = Step(v, m)
    <3>1. ASSUME NEW s \in Range(Uses[m]) PROVE v[s] = w[s]
      <4>1. s \in Modules
        BY ProjectAssumption DEF Range
      <4>2. rank[s] < rank[m] /\ rank[s] \in Int /\ rank[m] \in Int
        BY <1>1, <1>2, <4>1
      <4>3. w[s] = Step(w, s)
        BY <1>3, <2>2, <4>1, <4>2
      <4> QED BY <4>1, <4>3
    <3>2. v[m] = Step(w, m)
      OBVIOUS
    <3> HIDE DEF v
    <3> QED BY <3>1, <3>2, StepAgrees
  <2>3. Up(v, n + 1)
    BY <2>2
  <2> HIDE DEF v, Up
  <2> QED BY <2>1, <2>3
<1>4. 0 \in P
  <2> DEFINE w == [m \in Modules |-> <<>>]
  <2>1. w \in [Modules -> Seq(Modules)]
    OBVIOUS
  <2>2. Up(w, 0 - 1)
    BY <1>1, <1>2
  <2>3. (0 - 1) + 1 = 0 /\ 0 - 1 \in Int
    OBVIOUS
  <2> HIDE DEF w, Up
  <2>4. \E v \in [Modules -> Seq(Modules)] : Up(v, (0 - 1) + 1)
    BY <1>3, <2>1, <2>2, <2>3
  <2> QED BY <2>3, <2>4
<1>5. ASSUME NEW n \in P PROVE n + 1 \in P
  <2> HIDE DEF Up
  <2> QED BY <1>3
<1>6. N \in P
  <2>1. P \in SUBSET Nat
    OBVIOUS
  <2> HIDE DEF P
  <2> QED BY <1>2, <1>4, <1>5, <2>1, AllNumbers
<1>7. PICK w \in [Modules -> Seq(Modules)] : Up(w, N)
  BY <1>6
<1>8. \A m \in Modules : w[m] = Step(w, m)
  BY <1>1, <1>2, <1>7
<1>9. w = [m \in Modules |-> Step(w, m)]
  BY <1>8
<1>10. Walk = CHOOSE f : f = [m \in Modules |-> Step(f, m)]
  BY DEF Walk, Step
<1>11. Walk = [m \in Modules |-> Step(Walk, m)]
  BY <1>9, <1>10
<1>12. \A m \in Modules : Walk[m] = Step(Walk, m)
  BY <1>11
<1> DEFINE Q == {n \in Nat : \A m \in Modules : rank[m] < n => Walk[m] = w[m]}
<1>13. 0 \in Q
  BY <1>1, <1>2
<1>14. ASSUME NEW n \in Q PROVE n + 1 \in Q
  <2>1. ASSUME NEW m \in Modules, rank[m] < n + 1 PROVE Walk[m] = w[m]
    <3>1. ASSUME NEW s \in Range(Uses[m]) PROVE Walk[s] = w[s]
      <4>1. s \in Modules
        BY ProjectAssumption DEF Range
      <4>2. rank[s] < rank[m] /\ rank[s] \in Int /\ rank[m] \in Int
        BY <1>1, <1>2, <4>1
      <4> QED BY <2>1, <4>1, <4>2
    <3>2. Step(Walk, m) = Step(w, m)
      BY <3>1, StepAgrees
    <3> QED BY <1>8, <1>12, <3>2
  <2> QED BY <2>1
<1>15. N + 1 \in Q
  <2>1. Q \in SUBSET Nat
    OBVIOUS
  <2> HIDE DEF Q
  <2> QED BY <1>2, <1>13, <1>14, <2>1, AllNumbers
<1>16. \A m \in Modules : Walk[m] = w[m]
  BY <1>1, <1>2, <1>15
<1>17. Walk \in [Modules -> Seq(Modules)]
  BY <1>11, <1>16
<1> QED BY <1>12, <1>17

LEMMA UsedByModules ==
  ASSUME NEW m \in Modules
  PROVE  /\ UsedBy(m) \subseteq Modules /\ m \in UsedBy(m)
         /\ \A x : x \in UsedBy(m) <=> x = m \/ \E s \in Range(Uses[m]) : x \in UsedBy(s)
<1>1. Walk[m] = Step(Walk, m) /\ Walk[m] \in Seq(Modules) /\ Walk \in [Modules -> Seq(Modules)]
  BY WalkDefined
<1>2. \A x : x \in UsedBy(m) <=> x = m \/ \E s \in Range(Uses[m]) : x \in UsedBy(s)
  BY <1>1, StepHas DEF UsedBy
<1>3. UsedBy(m) \subseteq Modules
  BY <1>1 DEF UsedBy, Range
<1> QED BY <1>2, <1>3

LEMMA UsedByTransitive ==
  \A m \in Modules : \A s \in UsedBy(m) : UsedBy(s) \subseteq UsedBy(m)
<1> DEFINE N == Cardinality(Modules)
<1>1. PICK rank \in [Modules -> 0 .. N] :
        \A m \in Modules : \A s \in Range(Uses[m]) : rank[s] < rank[m]
  BY UsesAssumption
<1>2. N \in Nat
  BY UsesAssumption, FS_CardinalityType
<1> HIDE DEF N
<1> DEFINE Closed(m) == \A s \in UsedBy(m) : UsedBy(s) \subseteq UsedBy(m)
           P == {n \in Nat : \A m \in Modules : rank[m] < n => Closed(m)}
<1>3. 0 \in P
  BY <1>1, <1>2
<1>4. ASSUME NEW n \in P PROVE n + 1 \in P
  <2>1. ASSUME NEW m \in Modules, rank[m] < n + 1, NEW s \in UsedBy(m)
        PROVE  UsedBy(s) \subseteq UsedBy(m)
    <3>1. CASE s = m
      BY <3>1
    <3>2. CASE s # m
      <4>1. PICK u \in Range(Uses[m]) : s \in UsedBy(u)
        BY <3>2, UsedByModules
      <4>2. u \in Modules
        BY ProjectAssumption DEF Range
      <4>3. rank[u] < n
        BY <1>1, <1>2, <2>1, <4>2
      <4>4. UsedBy(s) \subseteq UsedBy(u)
        BY <4>1, <4>2, <4>3
      <4> QED BY <4>4, UsedByModules
    <3> QED BY <3>1, <3>2
  <2> QED BY <2>1
<1>5. N + 1 \in P
  <2>1. P \in SUBSET Nat
    OBVIOUS
  <2> HIDE DEF P
  <2> QED BY <1>2, <1>3, <1>4, <2>1, AllNumbers
<1> QED BY <1>1, <1>2, <1>5

(***************************************************************************)
(* The contracts of a module are those of all modules that it uses.        *)
(***************************************************************************)
LEMMA BindingsOfModules ==
  ASSUME NEW m \in Modules
  PROVE  /\ Bindings[m] \in Seq(Contracts)
         /\ \A c : c \in Range(Bindings[m]) <=> \E s \in UsedBy(m) : c \in Range(Own[s])
<1> DEFINE own == [i \in DOMAIN Walk[m] |-> Own[Walk[m][i]]]
<1>1. Walk[m] \in Seq(Modules)
  BY WalkDefined
<1>2. own \in Seq(Seq(Contracts)) /\ Len(own) = Len(Walk[m])
      /\ \A i \in 1 .. Len(own) : own[i] = Own[Walk[m][i]]
  <2>1. DOMAIN Walk[m] = 1 .. Len(Walk[m]) /\ Len(Walk[m]) \in Nat
    BY <1>1
  <2>2. \A i \in 1 .. Len(Walk[m]) : Own[Walk[m][i]] \in Seq(Contracts)
    BY <1>1, ProjectAssumption
  <2>3. own \in [1 .. Len(Walk[m]) -> Seq(Contracts)]
    BY <2>1, <2>2
  <2> QED BY <2>1, <2>3
<1>3. Bindings[m] = FlattenSeq(own)
  BY DEF Bindings
<1> HIDE DEF own
<1>4. /\ FlattenSeq(own) \in Seq(Contracts)
      /\ \A c : c \in Range(FlattenSeq(own)) <=> \E i \in 1 .. Len(own) : c \in Range(own[i])
  BY <1>2, Flattened
<1>5. ASSUME NEW c, NEW i \in 1 .. Len(own), c \in Range(own[i])
      PROVE  \E s \in UsedBy(m) : c \in Range(Own[s])
  <2>1. Walk[m][i] \in UsedBy(m) /\ c \in Range(Own[Walk[m][i]])
    BY <1>1, <1>2, <1>5 DEF UsedBy, Range
  <2> QED BY <2>1
<1>6. ASSUME NEW c, NEW s \in UsedBy(m), c \in Range(Own[s])
      PROVE  \E i \in 1 .. Len(own) : c \in Range(own[i])
  <2>1. PICK i \in 1 .. Len(own) : s = Walk[m][i]
    BY <1>1, <1>2 DEF UsedBy, Range
  <2>2. own[i] = Own[s]
    BY <1>2, <2>1
  <2> QED BY <1>6, <2>2
<1> QED BY <1>3, <1>4, <1>5, <1>6

LEMMA BindingsOfUsed ==
  ASSUME NEW m \in Modules, NEW s \in UsedBy(m)
  PROVE  Range(Bindings[s]) \subseteq Range(Bindings[m])
<1>1. s \in Modules /\ UsedBy(s) \subseteq UsedBy(m)
  BY UsedByModules, UsedByTransitive
<1> QED BY <1>1, BindingsOfModules

LEMMA BindingsTyped ==
  ASSUME NEW m \in Modules
  PROVE  /\ Range(Bindings[m]) \subseteq Contracts
         /\ \A i \in DOMAIN Bindings[m] : Bindings[m][i] \in Range(Bindings[m])
         /\ DOMAIN Bindings[m] = 1 .. Len(Bindings[m]) /\ Len(Bindings[m]) \in Nat
BY BindingsOfModules DEF Range

(***************************************************************************)
(* An init that does not fail has initialized the module and all it uses,  *)
(* and none has initialized anything else.                                 *)
(***************************************************************************)
LEMMA InitializedModules ==
  ASSUME NEW m \in Modules, NEW done
  PROVE  /\ done \subseteq Initialized(m, done).done
         /\ Initialized(m, done).done \subseteq done \cup UsedBy(m)
         /\ Initialized(m, done).ok => Initialized(m, done).done = done \cup UsedBy(m)
BY DEF Initialized, UsedBy, Range

-----------------------------------------------------------------------------
(* Types.                                                                  *)

LEMMA Typed ==
  /\ None \in Nat /\ Absent \in Addresses /\ ~(Absent > None)
  /\ \A a \in Addresses : a # Absent <=> a \in Nat
  /\ \A a \in Nat : a > None <=> a # None
  /\ Nothing \in [Contracts -> Addresses] /\ \A c \in Contracts : Nothing[c] = Absent
  /\ Networks \subseteq Keys /\ Memory \in Keys /\ Memory \notin Networks
  /\ \A c \in Contracts : \A state \in [Contracts -> Addresses] : state # Torn
<1>1. /\ None \in Nat /\ Absent \in Addresses /\ ~(Absent > None)
      /\ \A a \in Addresses : a # Absent <=> a \in Nat
      /\ \A a \in Nat : a > None <=> a # None
  BY DEF None, Absent, Addresses
<1>2. Nothing \in [Contracts -> Addresses] /\ \A c \in Contracts : Nothing[c] = Absent
  BY <1>1 DEF Nothing
<1>3. Networks \subseteq Keys /\ Memory \in Keys /\ Memory \notin Networks
  BY BuildsAssumption DEF Keys
<1>4. \A c \in Contracts : \A state \in [Contracts -> Addresses] : state # Torn
  BY DEF Torn
<1> QED BY <1>1, <1>2, <1>3, <1>4

LEMMA KeyTyped ==
  ASSUME TypeOK, phase # "down"
  PROVE  /\ Key \in Keys /\ network \in Networks
         /\ test => Key = Memory
         /\ ~test => Key = network
         /\ rest # <<>> => Current \in Modules /\ Tail(rest) \in Seq(Modules)
BY Typed DEF TypeOK, Key, Current

(***************************************************************************)
(* What is found in the builds is an address of a contract, a true one if  *)
(* it is for a network.                                                    *)
(***************************************************************************)
LEMMA FoundTyped ==
  ASSUME NEW kind, NEW f \in Found(kind)
  PROVE  /\ f = <<f[1], f[2], f[3]>>
         /\ f[1] \in Keys \ {Memory} /\ f[2] \in Contracts /\ f[3] \in Nat \ {None}
         /\ f[1] \in Networks => /\ f[3] \in DOMAIN Elsewhere[f[1]]
                                 /\ Elsewhere[f[1]][f[3]] = f[2]
<1>1. CASE f \in TruffleFound
  <2>1. PICK b \in TruffleBuilds : \E at \in b.at : f = <<at[1], b.contract, at[2]>>
    BY <1>1 DEF TruffleFound
  <2>2. PICK at \in b.at : f = <<at[1], b.contract, at[2]>>
    BY <2>1
  <2>3. at[1] \in Keys
    BY <2>2 DEF Keys
  <2> QED BY <2>2, <2>3, BuildsAssumption
<1>2. CASE f \in HardhatFound
  <2>1. PICK b \in HardhatBuilds : b.complete /\ f = <<Undefined, b.contract, b.address>>
    BY <1>2 DEF HardhatFound
  <2>2. Undefined \in Keys /\ Undefined # Memory
    BY DEF Keys, Undefined, Memory
  <2> QED BY <2>1, <2>2, BuildsAssumption
<1> QED BY <1>1, <1>2 DEF Found

LEMMA MigratedTyped ==
  ASSUME NEW kind, NEW k
  PROVE  /\ Migrated(Found(kind), k) \in [Contracts -> Addresses]
         /\ \A c \in Contracts :
              \/ /\ Migrated(Found(kind), k)[c] = Absent
                 /\ \A f \in Found(kind) : ~(f[1] = k /\ f[2] = c)
              \/ \E f \in Found(kind) :
                   f[1] = k /\ f[2] = c /\ Migrated(Found(kind), k)[c] = f[3]
<1> DEFINE state == Migrated(Found(kind), k)
<1>1. ASSUME NEW c \in Contracts
      PROVE  \/ state[c] = Absent /\ \A f \in Found(kind) : ~(f[1] = k /\ f[2] = c)
             \/ \E f \in Found(kind) : f[1] = k /\ f[2] = c /\ state[c] = f[3]
  <2>1. CASE \E f \in Found(kind) : f[1] = k /\ f[2] = c
    <3> DEFINE g == CHOOSE f \in Found(kind) : f[1] = k /\ f[2] = c
    <3>1. g \in Found(kind) /\ g[1] = k /\ g[2] = c
      BY <2>1
    <3>2. state[c] = g[3]
      BY <2>1 DEF Migrated
    <3> QED BY <3>1, <3>2
  <2>2. CASE ~\E f \in Found(kind) : f[1] = k /\ f[2] = c
    BY <2>2 DEF Migrated
  <2> QED BY <2>1, <2>2
<1>2. \A c \in Contracts : state[c] \in Addresses
  BY <1>1, FoundTyped, Typed DEF Addresses
<1>3. state = [c \in Contracts |-> state[c]]
  BY DEF Migrated
<1> HIDE DEF state
<1>4. state \in [Contracts -> Addresses]
  BY <1>2, <1>3
<1> QED BY <1>1, <1>4 DEF state

LEMMA LeastOf ==
  ASSUME NEW S \in SUBSET Nat, S # {}
  PROVE  LET least == CHOOSE i \in S : \A j \in S : i <= j IN
         least \in S /\ \A n \in S : least <= n
<1>1. PICK m \in S : \A n \in S : <<n, m>> \notin OpToRel(<, Nat)
  BY NatLessThanWellFounded, WFMin
<1>2. ASSUME NEW n \in S PROVE m <= n
  <2>1. m \in Nat /\ n \in Nat
    OBVIOUS
  <2>2. ~(n < m)
    BY <1>1 DEF OpToRel
  <2> QED BY <2>1, <2>2
<1> QED BY <1>2

LEMMA CreatedTyped ==
  ASSUME TypeOK, phase = "execute", Undeployed # {}
  PROVE  /\ NextToDeploy \in Range(Bindings[Current]) /\ NextToDeploy \in Contracts
         /\ mem[NextToDeploy] = None
<1>1. Current \in Modules
  BY KeyTyped DEF TypeOK, Deploying, Loaded
<1>2. Undeployed \in SUBSET Nat
  BY <1>1, BindingsTyped DEF Undeployed
<1>3. (CHOOSE i \in Undeployed : \A j \in Undeployed : i <= j) \in Undeployed
  BY <1>2, LeastOf
<1> QED BY <1>1, <1>3, BindingsTyped DEF NextToDeploy, Undeployed

LEMMA TypeInit == Init => TypeOK
<1> SUFFICES ASSUME Init PROVE TypeOK
  OBVIOUS
<1>1. /\ records \in [Modules \X Keys -> [Contracts -> Addresses] \cup {Torn}]
      /\ mem \in [Contracts -> Addresses]
  BY Typed DEF Init
<1>2. chain \in [Networks -> Seq(Contracts)]
  BY ProjectAssumption DEF Init
<1>3. rest \in Seq(Modules) /\ phase = "down" /\ test = FALSE
  BY DEF Init
<1> QED BY <1>1, <1>2, <1>3 DEF TypeOK, Deploying, Loaded

LEMMA TypeStep == TypeOK /\ [Next]_vars => TypeOK'
<1> SUFFICES ASSUME TypeOK, [Next]_vars PROVE TypeOK'
  OBVIOUS
<1> USE DEF TypeOK, Deploying, Loaded, external, process, task, bounds
<1>1. ASSUME NEW n \in Networks, NEW t \in BOOLEAN, Launch(n, t) PROVE TypeOK'
  BY <1>1 DEF Launch, Parameters
<1>2. ASSUME NEW n \in Networks, Reset(n) PROVE TypeOK'
  <2>1. chain' \in [Networks -> Seq(Contracts)]
    BY <1>2 DEF Reset
  <2> QED BY <1>2, <2>1 DEF Reset
<1>3. ASSUME NEW after \in [Modules \X Keys -> [Contracts -> Addresses] \cup {Torn}],
             EndProcess(after)
      PROVE  TypeOK'
  <2>1. /\ records' \in [Modules \X Keys -> [Contracts -> Addresses] \cup {Torn}]
        /\ mem' \in [Contracts -> Addresses]
    BY <1>3, Typed DEF EndProcess
  <2>2. rest' \in Seq(Modules) /\ phase' = "down" /\ test' = FALSE /\ chain' = chain
    BY <1>3 DEF EndProcess
  <2> QED BY <2>1, <2>2
<1>4. CASE Exit
  BY <1>3, <1>4 DEF Exit
<1>5. CASE Tear
  <2>1. [records EXCEPT ![<<Current, Key>>] = Torn]
          \in [Modules \X Keys -> [Contracts -> Addresses] \cup {Torn}]
    OBVIOUS
  <2> QED BY <1>3, <1>5, <2>1 DEF Tear
<1>6. ASSUME NEW m \in Modules, NEW k \in Keys, RemoveTorn(m, k) PROVE TypeOK'
  <2>1. records' \in [Modules \X Keys -> [Contracts -> Addresses] \cup {Torn}]
    BY <1>6, Typed DEF RemoveTorn
  <2> QED BY <1>6, <2>1 DEF RemoveTorn
<1>7. ASSUME NEW kind, NEW m \in Modules, Migrate(kind, m) PROVE TypeOK'
  <2>1. PICK written :
          records' = [mk \in DOMAIN records |->
            IF mk[1] = m /\ mk[2] \in written THEN Migrated(Found(kind), mk[2]) ELSE records[mk]]
    BY <1>7 DEF Migrate
  <2>2. records' \in [Modules \X Keys -> [Contracts -> Addresses] \cup {Torn}]
    BY <2>1, MigratedTyped
  <2> QED BY <1>7, <2>2 DEF Migrate
<1>8. ASSUME NEW ms \in Seq(Modules), Begin(ms) PROVE TypeOK'
  BY <1>8 DEF Begin, Ready
<1>9. ASSUME NEW m \in Modules, DeployCall(m) PROVE TypeOK'
  <2>1. <<m>> \in Seq(Modules) /\ Begin(<<m>>)
    BY <1>9 DEF DeployCall
  <2> QED BY <1>8, <2>1
<1>10. ASSUME NEW file \in Exports, DeployTask(file) PROVE TypeOK'
  BY <1>8, <1>10, ProjectAssumption DEF DeployTask
<1>11. ASSUME NEW m \in Modules, NEW r, Look(m, r) PROVE TypeOK'
  BY <1>11 DEF Look
<1>12. ASSUME NEW m \in Modules, DiffCall(m) \/ GenTypesCall(m) PROVE TypeOK'
  BY <1>11, <1>12 DEF DiffCall, GenTypesCall
<1>13. CASE DiffTask \/ GenTypesTask \/ SetupFails
  BY <1>13 DEF DiffTask, GenTypesTask, SetupFails
<1>14. CASE Skip
  BY <1>14 DEF Skip, Current
<1>15. CASE Initialize
  BY <1>15 DEF Initialize
<1>16. ASSUME Abort, phase # "down" PROVE TypeOK'
  BY <1>16, Typed DEF Abort
<1>17. ASSUME NEW redo,
              InitializeFails \/ ReadFails \/ ResolveFails(redo) \/ ArgumentFails \/ Fail
       PROVE  TypeOK'
  BY <1>16, <1>17 DEF InitializeFails, ReadFails, ResolveFails, ArgumentFails, Fail
<1>18. ASSUME NEW always \in BOOLEAN, NEW redo, Resolve(always, redo) PROVE TypeOK'
  <2> DEFINE state == records[<<Current, Key>>]
  <2>1. state \in [Contracts -> Addresses]
    BY <1>18, KeyTyped DEF Resolve
  <2>2. PICK S : mem' = [c \in Contracts |->
                           IF c \in S /\ state[c] # Absent THEN state[c] ELSE None]
    BY <1>18 DEF Resolve
  <2>3. mem' \in [Contracts -> Nat]
    BY <2>1, <2>2, Typed
  <2>4. mem' \in [Contracts -> Addresses]
    BY <2>3 DEF Addresses
  <2> QED BY <1>18, <2>3, <2>4 DEF Resolve
<1>19. CASE StoreStates \/ StoreCreated
  <2>1. records' \in [Modules \X Keys -> [Contracts -> Addresses] \cup {Torn}]
    BY <1>19 DEF StoreStates, StoreCreated
  <2> QED BY <1>19, <2>1 DEF StoreStates, StoreCreated
<1>20. CASE Create
  <2>1. /\ chain' = [chain EXCEPT ![network] = Append(@, NextToDeploy)]
        /\ mem' = [mem EXCEPT ![NextToDeploy] = Len(chain'[network])]
    BY <1>20 DEF Create
  <2>2. NextToDeploy \in Contracts /\ network \in Networks
    BY <1>20, CreatedTyped DEF Create
  <2>3. chain' \in [Networks -> Seq(Contracts)]
    BY <2>1, <2>2
  <2>4. Len(chain'[network]) \in Nat
    BY <2>2, <2>3
  <2>5. mem' \in [Contracts -> Nat] /\ mem' \in [Contracts -> Addresses]
    <3>1. mem \in [Contracts -> Nat]
      BY <1>20 DEF Create
    <3> QED BY <2>1, <2>4, <3>1 DEF Addresses
  <2> QED BY <1>20, <2>3, <2>5 DEF Create
<1>21. CASE FinishModule
  BY <1>21, KeyTyped, Typed DEF FinishModule
<1>22. CASE EndTask
  BY <1>22 DEF EndTask
<1>23. CASE UNCHANGED vars
  BY <1>23 DEF vars
<1> QED
  BY <1>1, <1>2, <1>4, <1>5, <1>6, <1>7, <1>9, <1>10, <1>12, <1>13, <1>14, <1>15, <1>17,
     <1>18, <1>19, <1>20, <1>21, <1>22, <1>23 DEF Next

LEMMA TypeCorrect == Spec => []TypeOK
BY TypeInit, TypeStep, PTL DEF Spec

-----------------------------------------------------------------------------
(* What has been created is not created again.                             *)

(***************************************************************************)
(* Before something is created everything that is kept is in the states.   *)
(***************************************************************************)
LEMMA NothingUnstored == phase # "mined" => Unstored = {}
BY DEF Unstored

(***************************************************************************)
(* Steps outside the part of a deployment that has a moduleState.          *)
(***************************************************************************)
LEMMA KeptSame ==
  ASSUME KeptInv, TypeOK', records' = records, kept' \subseteq kept \ Unstored, ~Loaded',
         ~test' => ~test
  PROVE  KeptInv'
<1>1. KeptInRecords'
  BY DEF KeptInv, KeptInRecords
<1>2. KeptInMem'
  BY DEF KeptInMem
<1>3. KeptInMemory'
  BY DEF KeptInv, KeptInMemory
<1> QED BY <1>1, <1>2, <1>3 DEF KeptInv

LEMMA KeptEnds == KeptInv /\ TypeOK' /\ (Exit \/ Tear) => KeptInv'
<1> SUFFICES ASSUME KeptInv, TypeOK', Exit \/ Tear PROVE KeptInv'
  OBVIOUS
<1>1. phase' = "down" /\ Unstored' = {} /\ test' = FALSE
  BY DEF Exit, Tear, EndProcess, Unstored
<1>2. \A mk \in Modules \X Keys : mk[2] # Memory /\ mk # <<Current, Key>> =>
        records'[mk] = records[mk]
  BY DEF KeptInv, TypeOK, Exit, Tear, EndProcess
<1>3. CASE Exit
  <2>1. \A m \in Modules : \A k, c :
          <<m, k, c>> \in kept' => <<m, k, c>> \in kept \ Unstored /\ k # Memory
    BY <1>3 DEF Exit, ForgetAll
  <2>2. \A mk \in Modules \X Keys : mk[2] # Memory => records'[mk] = records[mk]
    BY <1>3 DEF KeptInv, TypeOK, Exit, EndProcess
  <2>3. KeptInRecords'
    BY <1>1, <2>1, <2>2 DEF KeptInv, KeptInRecords
  <2>4. KeptInMemory'
    BY <2>1 DEF KeptInMemory
  <2>5. KeptInMem'
    BY <1>1 DEF KeptInMem, Loaded
  <2> QED BY <2>3, <2>4, <2>5 DEF KeptInv
<1>4. CASE Tear
  <2>1. phase # "down" /\ ~test
    BY <1>4 DEF Tear
  <2>2. \A m \in Modules : \A k, c :
          <<m, k, c>> \in kept' => <<m, k, c>> \in kept /\ <<m, k>> # <<Current, Key>>
    BY <1>4 DEF Tear, ForgetAll
  <2>3. \A m \in Modules : \A k, c :
          <<m, k>> # <<Current, Key>> => <<m, k, c>> \notin Unstored
    BY DEF Unstored
  <2>4. \A m \in Modules, c \in Contracts : <<m, Memory, c>> \notin kept'
    BY <2>1, <2>2 DEF KeptInv, KeptInMemory
  <2>5. KeptInRecords'
    <3> SUFFICES ASSUME NEW m \in Modules, NEW k \in Keys, NEW c \in Range(Bindings[m]),
                        <<m, k, c>> \in kept'
                 PROVE  records'[<<m, k>>] # Torn /\ records'[<<m, k>>][c] > None
      BY <1>1 DEF KeptInRecords
    <3>1. c \in Contracts
      BY BindingsTyped
    <3>2. records'[<<m, k>>] = records[<<m, k>>]
      BY <1>2, <2>2, <2>4, <3>1
    <3>3. <<m, k, c>> \in kept \ Unstored
      BY <2>2, <2>3
    <3> QED BY <3>2, <3>3 DEF KeptInv, KeptInRecords
  <2>6. KeptInMemory'
    BY <2>4 DEF KeptInMemory
  <2>7. KeptInMem'
    BY <1>1 DEF KeptInMem, Loaded
  <2> QED BY <2>5, <2>6, <2>7 DEF KeptInv
<1> QED BY <1>3, <1>4

LEMMA KeptMigrate ==
  ASSUME KeptInv, TypeOK', NEW kind, NEW m \in Modules, Migrate(kind, m)
  PROVE  KeptInv'
<1> DEFINE found == Found(kind)
<1>1. PICK written \in SUBSET {f[1] : f \in found} :
        /\ records' = [mk \in DOMAIN records |->
             IF mk[1] = m /\ mk[2] \in written THEN Migrated(found, mk[2]) ELSE records[mk]]
        /\ kept' = ForgetAll({m} \X written)
                     \cup {<<m, f[1], f[2]>> : f \in {g \in found : g[1] \in written \ reset}}
  BY DEF Migrate
<1>2. phase = "down" /\ phase' = "down" /\ Unstored = {} /\ Unstored' = {}
      /\ ~test /\ test' = test
  BY DEF Migrate, Unstored, process, KeptInv, TypeOK
<1>3. ASSUME NEW n \in Modules, NEW k \in Keys, NEW c, <<n, k, c>> \in kept'
      PROVE  \/ /\ <<n, k, c>> \in kept /\ records'[<<n, k>>] = records[<<n, k>>]
             \/ /\ k # Memory /\ c \in Contracts /\ records'[<<n, k>>] \in [Contracts -> Addresses]
                /\ records'[<<n, k>>][c] > None
  <2>1. CASE <<n, k, c>> \in ForgetAll({m} \X written)
    <3>1. <<n, k, c>> \in kept /\ ~(n = m /\ k \in written)
      BY <2>1 DEF ForgetAll
    <3>2. records'[<<n, k>>] = records[<<n, k>>]
      BY <1>1, <3>1 DEF KeptInv, TypeOK
    <3> QED BY <3>1, <3>2
  <2>2. CASE <<n, k, c>> \notin ForgetAll({m} \X written)
    <3>1. PICK f \in found : f[1] \in written /\ <<n, k, c>> = <<m, f[1], f[2]>>
      BY <1>1, <1>3, <2>2
    <3>2. k # Memory /\ c \in Contracts
      BY <3>1, FoundTyped
    <3>3. records'[<<n, k>>] = Migrated(found, k)
      BY <1>1, <3>1 DEF KeptInv, TypeOK
    <3>4. PICK g \in found : Migrated(found, k)[c] = g[3]
      BY <3>1, <3>2, MigratedTyped
    <3>5. g[3] > None
      BY <3>4, FoundTyped, Typed
    <3> QED BY <3>2, <3>3, <3>4, <3>5, MigratedTyped
  <2> QED BY <2>1, <2>2
<1> HIDE DEF found
<1>4. KeptInRecords'
  <2> SUFFICES ASSUME NEW n \in Modules, NEW k \in Keys, NEW c \in Range(Bindings[n]),
                      <<n, k, c>> \in kept'
               PROVE  records'[<<n, k>>] # Torn /\ records'[<<n, k>>][c] > None
    BY <1>2 DEF KeptInRecords
  <2>1. <<n, k, c>> \in kept =>
          records[<<n, k>>] # Torn /\ records[<<n, k>>][c] > None
    BY <1>2 DEF KeptInv, KeptInRecords
  <2>2. c \in Contracts /\ records'[<<n, k>>] \in [Contracts -> Addresses] =>
          records'[<<n, k>>] # Torn
    BY Typed
  <2> QED BY <1>3, <2>1, <2>2
<1>5. KeptInMemory'
  BY <1>2, <1>3, Typed DEF KeptInv, KeptInMemory
<1>6. KeptInMem'
  BY <1>2 DEF KeptInMem, Loaded
<1> QED BY <1>4, <1>5, <1>6 DEF KeptInv

(***************************************************************************)
(* What only contracts with an address that stay are built from does not   *)
(* lose its address: the contracts it was not built into are closed under  *)
(* the arguments.                                                          *)
(***************************************************************************)
LEMMA NotInvalidated ==
  ASSUME NEW state \in [Contracts -> Addresses], NEW again \in SUBSET Contracts,
         NEW c \in Contracts, BuiltFrom(c) \cap again = {}
  PROVE  c \notin Invalidated(state, again)
<1> DEFINE S == Contracts \ BuiltFrom(c)
<1>1. c \in BuiltFrom(c)
  BY DEF BuiltFrom
<1>2. again \subseteq S
  OBVIOUS
<1>3. ASSUME NEW b \in S, NEW a \in Args[b] PROVE a \in S
  <2>1. a \in Contracts /\ b \in Contracts
    BY ProjectAssumption
  <2>2. SUFFICES ASSUME a \in BuiltFrom(c) PROVE b \in BuiltFrom(c)
    BY <2>1
  <2> SUFFICES ASSUME NEW T \in SUBSET Contracts, c \in T,
                      \A d \in Contracts : Args[d] \cap T # {} => d \in T
               PROVE  b \in T
    BY <2>1 DEF BuiltFrom
  <2>3. a \in T
    BY <2>2 DEF BuiltFrom
  <2> QED BY <2>1, <2>3
<1>4. S \in SUBSET Contracts /\ c \notin S
  BY <1>1
<1> HIDE DEF S
<1> QED BY <1>2, <1>3, <1>4 DEF Invalidated

LEMMA KeptResolve ==
  ASSUME KeptInv, TypeOK', NEW always \in BOOLEAN, NEW redo, Resolve(always, redo)
  PROVE  KeptInv'
<1> DEFINE state == records[<<Current, Key>>]
           dropped == Dropped(state, always)
           again == Again(state, always, redo)
           stale == Invalidated(state, again)
           undone == Undone(state, always, redo)
<1>1. /\ mem' = [c \in Contracts |->
                   IF c \in (Range(Bindings[Current]) \ dropped) \ stale /\ state[c] # Absent
                   THEN state[c] ELSE None]
      /\ kept' = kept \ ({Current} \X {Key} \X undone)
      /\ state # Torn
      /\ phase = "resolve" /\ phase' = "store" /\ Unstored = {} /\ Unstored' = {}
      /\ UNCHANGED <<records, network, test, rest>> /\ Current' = Current /\ Key' = Key
  BY DEF Resolve, process, task, Unstored, Current, Key
<1>2. Current \in Modules /\ Key \in Keys
  BY <1>1, KeyTyped DEF KeptInv, TypeOK, Deploying
<1>3. KeptInRecords'
  BY <1>1 DEF KeptInv, KeptInRecords
<1>4. KeptInMemory'
  BY <1>1 DEF KeptInv, KeptInMemory
<1>5. state \in [Contracts -> Addresses] /\ again \in SUBSET Contracts
  <2>1. Range(Bindings[Current]) \subseteq Contracts
    BY <1>2, BindingsTyped
  <2> QED BY <1>1, <1>2, <2>1 DEF KeptInv, TypeOK, Again, Redeployed
<1>6. ASSUME NEW c \in Range(Bindings[Current]), <<Current, Key, c>> \in kept
      PROVE  state[c] > None
  BY <1>1, <1>2, <1>6 DEF KeptInv, KeptInRecords
<1>7. again \subseteq Redeployed(state, always, redo,
                             {c \in Contracts : <<Current, Key, c>> \notin kept})
  <2> SUFFICES ASSUME NEW d \in again
               PROVE  d \in Redeployed(state, always, redo,
                                      {c \in Contracts : <<Current, Key, c>> \notin kept})
    OBVIOUS
  <2>1. d \in Range(Bindings[Current]) /\ d \in Contracts
    BY <1>5 DEF Again, Redeployed
  <2>2. state[d] = None => <<Current, Key, d>> \notin kept
    BY <1>6, <2>1, Typed
  <2> QED BY <2>1, <2>2 DEF Again, Redeployed
<1>8. KeptInMem'
  <2> SUFFICES ASSUME NEW c \in Range(Bindings[Current]), <<Current, Key, c>> \in kept'
               PROVE  mem'[c] > None
    BY <1>1 DEF KeptInMem
  <2>1. c \in Contracts
    BY <1>2, BindingsTyped
  <2>2. <<Current, Key, c>> \in kept /\ c \notin undone
    BY <1>1
  <2>3. c \notin dropped /\ BuiltFrom(c) \cap again = {}
    BY <1>7, <2>1, <2>2 DEF Undone
  <2>4. c \notin stale
    BY <1>5, <2>1, <2>3, NotInvalidated
  <2>5. state[c] > None
    BY <1>6, <2>2
  <2> HIDE DEF state, stale, dropped
  <2>6. state[c] # Absent
    BY <2>5, Typed
  <2>7. mem'[c] = state[c]
    BY <1>1, <2>1, <2>3, <2>4, <2>6
  <2> QED BY <2>5, <2>7
<1> QED BY <1>3, <1>4, <1>8 DEF KeptInv

LEMMA KeptStored == KeptInv /\ TypeOK' /\ (StoreStates \/ StoreCreated) => KeptInv'
<1> SUFFICES ASSUME KeptInv, TypeOK', StoreStates \/ StoreCreated PROVE KeptInv'
  OBVIOUS
<1>1. /\ records' = [records EXCEPT ![<<Current, Key>>] = mem]
      /\ phase \in {"store", "mined"} /\ phase' = "execute" /\ Unstored' = {}
      /\ UNCHANGED <<kept, mem, network, test, rest, chain>> /\ Current' = Current /\ Key' = Key
  BY DEF StoreStates, StoreCreated, external, process, task, Unstored, Current, Key
<1>2. Current \in Modules /\ Key \in Keys /\ Loaded
  BY <1>1, KeyTyped DEF KeptInv, TypeOK, Deploying, Loaded
<1>3. KeptInMem'
  BY <1>1, <1>2 DEF KeptInv, KeptInMem
<1>4. KeptInMemory'
  BY <1>1 DEF KeptInv, KeptInMemory
<1>5. KeptInRecords'
  <2> SUFFICES ASSUME NEW m \in Modules, NEW k \in Keys, NEW c \in Range(Bindings[m]),
                      <<m, k, c>> \in kept
               PROVE  records'[<<m, k>>] # Torn /\ records'[<<m, k>>][c] > None
    BY <1>1 DEF KeptInRecords
  <2>1. CASE <<m, k>> = <<Current, Key>>
    <3>1. records'[<<m, k>>] = mem
      BY <1>1, <1>2, <2>1 DEF KeptInv, TypeOK
    <3>2. mem[c] > None
      BY <1>2, <2>1 DEF KeptInv, KeptInMem
    <3>3. mem # Torn
      BY <1>2, BindingsTyped, Typed DEF KeptInv, TypeOK
    <3> QED BY <3>1, <3>2, <3>3
  <2>2. CASE <<m, k>> # <<Current, Key>>
    <3>1. records'[<<m, k>>] = records[<<m, k>>]
      BY <1>1, <2>2 DEF KeptInv, TypeOK
    <3>2. <<m, k, c>> \notin Unstored
      BY <2>2 DEF Unstored
    <3> QED BY <3>1, <3>2 DEF KeptInv, KeptInRecords
  <2> QED BY <2>1, <2>2
<1> QED BY <1>3, <1>4, <1>5 DEF KeptInv

(***************************************************************************)
(* What Create does, in terms of the contract that it creates.             *)
(***************************************************************************)
LEMMA CreateChanges ==
  ASSUME TypeOK, Create
  PROVE  /\ NextToDeploy \in Range(Bindings[Current]) /\ NextToDeploy \in Contracts
         /\ mem[NextToDeploy] = None
         /\ network \in Networks /\ Current \in Modules /\ Key \in Keys
         /\ chain' = [chain EXCEPT ![network] = Append(@, NextToDeploy)]
         /\ chain'[network] = Append(chain[network], NextToDeploy)
         /\ Len(chain'[network]) = Len(chain[network]) + 1 /\ Len(chain[network]) \in Nat
         /\ chain'[network][Len(chain'[network])] = NextToDeploy
         /\ Last(chain'[network]) = NextToDeploy
         /\ mem' = [mem EXCEPT ![NextToDeploy] = Len(chain'[network])]
         /\ kept' = kept \cup {<<Current, Key, NextToDeploy>>}
         /\ phase = "execute" /\ phase' = "mined"
         /\ UNCHANGED <<records, reset, network, test, excluded, initialized, finished, declined,
                        rest, asked, skipsUnfinished, outcome>>
         /\ Current' = Current /\ Key' = Key
<1>1. /\ chain' = [chain EXCEPT ![network] = Append(@, NextToDeploy)]
      /\ mem' = [mem EXCEPT ![NextToDeploy] = Len(chain'[network])]
      /\ kept' = kept \cup {<<Current, Key, NextToDeploy>>}
      /\ phase = "execute" /\ phase' = "mined" /\ Undeployed # {}
      /\ UNCHANGED <<records, reset, network, test, excluded, initialized, finished, declined,
                     rest, asked, skipsUnfinished, outcome>>
  BY DEF Create, process, task
<1>2. /\ NextToDeploy \in Range(Bindings[Current]) /\ NextToDeploy \in Contracts
      /\ mem[NextToDeploy] = None
  BY <1>1, CreatedTyped
<1>3. network \in Networks /\ Current \in Modules /\ Key \in Keys
  BY <1>1, KeyTyped DEF TypeOK, Deploying, Loaded
<1>4. Current' = Current /\ Key' = Key
  BY <1>1 DEF Current, Key
<1>5. chain[network] \in Seq(Contracts) /\ chain'[network] = Append(chain[network], NextToDeploy)
  BY <1>1, <1>3 DEF TypeOK
<1>6. /\ Len(chain'[network]) = Len(chain[network]) + 1 /\ Len(chain[network]) \in Nat
      /\ chain'[network][Len(chain'[network])] = NextToDeploy
  BY <1>2, <1>5
<1>7. Last(chain'[network]) = NextToDeploy
  BY <1>6 DEF Last
<1> QED BY <1>1, <1>2, <1>3, <1>4, <1>5, <1>6, <1>7

LEMMA KeptCreate == KeptInv /\ TypeOK' /\ Create => KeptInv'
<1> SUFFICES ASSUME KeptInv, TypeOK', Create PROVE KeptInv'
  OBVIOUS
<1>1. TypeOK
  BY DEF KeptInv
<1>2. Unstored = {} /\ Unstored' = {<<Current, Key, NextToDeploy>>}
  BY <1>1, CreateChanges DEF Unstored
<1>3. kept' \ Unstored' \subseteq kept /\ records' = records
  BY <1>1, <1>2, CreateChanges
<1>4. KeptInRecords'
  BY <1>2, <1>3 DEF KeptInv, KeptInRecords
<1>5. KeptInMem'
  <2> SUFFICES ASSUME NEW c \in Range(Bindings[Current]), <<Current, Key, c>> \in kept'
               PROVE  mem'[c] > None
    BY <1>1, CreateChanges DEF KeptInMem
  <2>1. c \in Contracts
    BY <1>1, CreateChanges, BindingsTyped
  <2>2. CASE c = NextToDeploy
    BY <1>1, <2>1, <2>2, CreateChanges DEF TypeOK, None, Addresses
  <2>3. CASE c # NextToDeploy
    <3>1. mem[c] > None
      BY <1>1, <2>3, CreateChanges DEF KeptInv, KeptInMem, Loaded
    <3>2. mem'[c] = mem[c]
      BY <1>1, <2>1, <2>3, CreateChanges DEF TypeOK
    <3> QED BY <3>1, <3>2
  <2> QED BY <2>2, <2>3
<1>6. KeptInMemory'
  <2>1. ~test => Key # Memory
    BY <1>1, CreateChanges, KeyTyped, Typed
  <2> QED BY <1>1, <2>1, CreateChanges DEF KeptInv, KeptInMemory
<1> QED BY <1>4, <1>5, <1>6 DEF KeptInv

LEMMA KeptStep == KeptInv /\ TypeOK' /\ [Next]_vars => KeptInv'
<1> SUFFICES ASSUME KeptInv, TypeOK', [Next]_vars PROVE KeptInv'
  OBVIOUS
<1> USE NothingUnstored DEF external, process, task, bounds, Loaded
<1>1. ASSUME NEW n \in Networks, NEW t \in BOOLEAN, Launch(n, t) PROVE KeptInv'
  <2>1. phase = "down" /\ phase' = "idle" /\ records' = records /\ kept' = kept /\ ~test
    BY <1>1 DEF Launch, KeptInv, TypeOK
  <2> QED BY <2>1, KeptSame
<1>2. ASSUME NEW n \in Networks, Reset(n) PROVE KeptInv'
  <2>1. phase = "down" /\ phase' = phase /\ records' = records /\ kept' \subseteq kept
        /\ test' = test
    BY <1>2 DEF Reset
  <2> QED BY <2>1, KeptSame
<1>3. CASE Exit \/ Tear
  BY <1>3, KeptEnds
<1>4. ASSUME NEW m \in Modules, NEW k \in Keys, RemoveTorn(m, k) PROVE KeptInv'
  <2>1. /\ phase = "down" /\ phase' = phase /\ kept' = kept /\ test' = test
        /\ records[<<m, k>>] = Torn
        /\ \A mk \in Modules \X Keys : mk # <<m, k>> => records'[mk] = records[mk]
    BY <1>4 DEF RemoveTorn, KeptInv, TypeOK
  <2>2. KeptInRecords'
    <3>1. Unstored = {} /\ Unstored' = {}
      BY <2>1 DEF Unstored
    <3> SUFFICES ASSUME NEW n \in Modules, NEW j \in Keys, NEW c \in Range(Bindings[n]),
                        <<n, j, c>> \in kept
                 PROVE  records'[<<n, j>>] # Torn /\ records'[<<n, j>>][c] > None
      BY <2>1, <3>1 DEF KeptInRecords
    <3>2. records[<<n, j>>] # Torn /\ records[<<n, j>>][c] > None
      BY <3>1 DEF KeptInv, KeptInRecords
    <3> QED BY <2>1, <3>2
  <2>3. KeptInMem' /\ KeptInMemory'
    BY <2>1 DEF KeptInv, KeptInMem, KeptInMemory
  <2> QED BY <2>2, <2>3 DEF KeptInv
<1>5. ASSUME NEW kind, NEW m \in Modules, Migrate(kind, m) PROVE KeptInv'
  BY <1>5, KeptMigrate
<1>6. ASSUME NEW ms, Begin(ms) PROVE KeptInv'
  <2>1. phase = "idle" /\ phase' = "next" /\ records' = records /\ kept' = kept /\ test' = test
    BY <1>6 DEF Begin, Ready
  <2> QED BY <2>1, KeptSame
<1>7. ASSUME NEW m, NEW r, Look(m, r) PROVE KeptInv'
  <2>1. phase = "idle" /\ phase' = phase /\ records' = records /\ kept' = kept /\ test' = test
    BY <1>7 DEF Look, Ready
  <2> QED BY <2>1, KeptSame
<1>8. ASSUME NEW m \in Modules, DeployCall(m) \/ DiffCall(m) \/ GenTypesCall(m) PROVE KeptInv'
  BY <1>6, <1>7, <1>8 DEF DeployCall, DiffCall, GenTypesCall
<1>9. ASSUME NEW file \in Exports, DeployTask(file) PROVE KeptInv'
  BY <1>6, <1>9 DEF DeployTask
<1>10. CASE DiffTask \/ GenTypesTask \/ SetupFails
  <2>1. phase = "idle" /\ phase' = phase /\ records' = records /\ kept' = kept /\ test' = test
    BY <1>10 DEF DiffTask, GenTypesTask, SetupFails
  <2> QED BY <2>1, KeptSame
<1>11. CASE Skip \/ Initialize \/ EndTask
  <2>1. phase = "next" /\ phase' \in {"next", "resolve", "idle"} /\ records' = records
        /\ kept' = kept /\ test' = test
    BY <1>11 DEF Skip, Initialize, EndTask
  <2> QED BY <2>1, KeptSame
<1>12. ASSUME NEW redo,
              InitializeFails \/ ReadFails \/ ResolveFails(redo) \/ ArgumentFails \/ Fail
       PROVE  KeptInv'
  <2>1. phase' = "idle" /\ records' = records /\ kept' \subseteq kept \ Unstored /\ test' = test
    BY <1>12 DEF InitializeFails, ReadFails, ResolveFails, ArgumentFails, Fail, Abort
  <2> QED BY <2>1, KeptSame
<1>13. ASSUME NEW always \in BOOLEAN, NEW redo, Resolve(always, redo) PROVE KeptInv'
  BY <1>13, KeptResolve
<1>14. CASE StoreStates \/ StoreCreated
  BY <1>14, KeptStored
<1>15. CASE Create
  BY <1>15, KeptCreate
<1>16. CASE FinishModule
  <2>1. phase = "execute" /\ phase' = "next" /\ records' = records /\ kept' = kept
        /\ test' = test
    BY <1>16 DEF FinishModule
  <2> QED BY <2>1, KeptSame
<1>17. CASE UNCHANGED vars
  <2>1. KeptInRecords' /\ KeptInMem' /\ KeptInMemory'
    BY <1>17 DEF vars, KeptInv, KeptInRecords, KeptInMem, KeptInMemory, Unstored, Current, Key
  <2> QED BY <2>1 DEF KeptInv
<1> QED
  BY <1>1, <1>2, <1>3, <1>4, <1>5, <1>8, <1>9, <1>10, <1>11, <1>12, <1>13, <1>14, <1>15,
     <1>16, <1>17 DEF Next

(***************************************************************************)
(* Everything that is kept is where a deployment finds it (KeptInv is      *)
(* inductive): in the state of its module (getStateIfExist), or in         *)
(* moduleState.                                                            *)
(***************************************************************************)
THEOREM KeptIsFound == Spec => []KeptInv
<1>1. Init => KeptInv
  <2> SUFFICES ASSUME Init PROVE KeptInv
    OBVIOUS
  <2>1. kept = {} /\ phase = "down"
    BY DEF Init
  <2> QED BY <2>1, TypeInit
          DEF KeptInv, KeptInRecords, KeptInMem, KeptInMemory, Loaded
<1>2. KeptInv /\ [Next]_vars => KeptInv'
  BY KeptStep, TypeStep DEF KeptInv
<1> QED BY <1>1, <1>2, PTL DEF Spec

(***************************************************************************)
(* The only step that creates a contract during a process is Create.       *)
(***************************************************************************)
LEMMA OnlyCreate ==
  ASSUME TypeOK, [Next]_vars, phase # "down", Len(chain'[network]) > Len(chain[network])
  PROVE  Create
<1>1. chain' # chain
  BY KeyTyped DEF TypeOK
<1>2. ~\E n \in Networks : Reset(n)
  BY DEF Reset
<1> QED
  BY <1>1, <1>2
     DEF Next, Launch, Exit, Tear, EndProcess, RemoveTorn, Migrate, DeployCall, DeployTask,
         Begin, DiffCall, GenTypesCall, Look, DiffTask, GenTypesTask, SetupFails, Skip,
         Initialize, InitializeFails, ReadFails, Abort, Resolve, ResolveFails, StoreStates,
         ArgumentFails, StoreCreated, Fail, FinishModule, EndTask, vars, external

(***************************************************************************)
(* Whatever processes, tasks, failures and crashes follow, a contract that *)
(* a module has created on a network (or that was migrated) is not created *)
(* there again for that module, unless something has undone it, among this *)
(* the redeployment of what is built from it: _executeSync skips what has  *)
(* an address, the stores keep that, and resolve takes addresses away only *)
(* from the arguments of what it deploys again (NotInvalidated).           *)
(***************************************************************************)
THEOREM NotCreatedTwice == Spec => CreatedOnce
<1>1. KeptInv /\ [Next]_vars =>
        [phase # "down" /\ Len(chain'[network]) > Len(chain[network]) =>
           <<Current, Key, Last(chain'[network])>> \notin kept]_vars
  <2> SUFFICES ASSUME KeptInv, [Next]_vars, phase # "down",
                      Len(chain'[network]) > Len(chain[network])
               PROVE  <<Current, Key, Last(chain'[network])>> \notin kept
    OBVIOUS
  <2>1. TypeOK /\ Create
    BY OnlyCreate DEF KeptInv
  <2>2. /\ Last(chain'[network]) = NextToDeploy /\ mem[NextToDeploy] = None /\ phase = "execute"
        /\ NextToDeploy \in Range(Bindings[Current])
    BY <2>1, CreateChanges
  <2> QED BY <2>2, Typed DEF KeptInv, KeptInMem, Loaded
<1> QED BY <1>1, KeptIsFound, PTL DEF Spec, CreatedOnce

-----------------------------------------------------------------------------
(* The addresses of the states are those of their contracts.               *)

LEMMA RightOfNothing == \A n : Right(Nothing, n)
BY Typed DEF Right

LEMMA RightSame ==
  ASSUME RightInv, TypeOK', UNCHANGED <<records, chain, reset, network, test, excluded, finished>>,
         declined => declined', initialized \subseteq initialized', ~Loaded',
         phase # "down", phase' # "down", Deploying' => Current' \in initialized' \ finished
  PROVE  RightInv'
<1>1. ElsewhereThere' /\ FilesRight'
  BY DEF RightInv, ElsewhereThere, FilesRight, Right
<1>2. MemoryRight'
  BY DEF RightInv, MemoryRight, Right
<1>3. MemRight' /\ MemStored'
  BY DEF Loaded, MemRight, MemStored
<1>4. Key' = Key
  BY DEF Key
<1>5. \A u, c : RightAddress(u, c) => RightAddress(u, c)'
  BY <1>4 DEF RightAddress, HasCode
<1>6. FinishedRight'
  BY <1>4, <1>5 DEF RightInv, FinishedRight
<1> QED BY <1>1, <1>2, <1>3, <1>6 DEF RightInv

(***************************************************************************)
(* Between the processes only the states and the chains matter.            *)
(***************************************************************************)
LEMMA RightDown ==
  ASSUME ElsewhereThere', FilesRight', TypeOK', phase' = "down", finished' = {},
         \A m \in Modules : records'[<<m, Memory>>] = Nothing
  PROVE  RightInv'
<1>1. test' = FALSE
  BY DEF TypeOK
<1>2. MemoryRight'
  BY <1>1 DEF MemoryRight
<1>3. MemRight' /\ MemStored' /\ FinishedRight'
  BY DEF MemRight, MemStored, FinishedRight, Deploying, Loaded
<1> QED BY <1>2, <1>3 DEF RightInv

LEMMA RightLaunch ==
  ASSUME RightInv, TypeOK', NEW n \in Networks, NEW t \in BOOLEAN, Launch(n, t)
  PROVE  RightInv'
<1>1. /\ phase = "down" /\ phase' = "idle" /\ network' = n /\ test' = t /\ finished' = finished
      /\ UNCHANGED <<records, chain, reset>>
  BY DEF Launch, Parameters, external
<1>2. ~test /\ finished = {} /\ \A m \in Modules : records[<<m, Memory>>] = Nothing
  BY <1>1 DEF RightInv, TypeOK, MemoryRight, FinishedRight
<1>3. ElsewhereThere' /\ FilesRight'
  BY <1>1 DEF RightInv, ElsewhereThere, FilesRight, Right
<1>4. \A m \in Modules : Right(records[<<m, Memory>>], n)'
  BY <1>1, <1>2, RightOfNothing DEF Right
<1>5. MemoryRight'
  BY <1>1, <1>2, <1>4, Typed DEF MemoryRight, Right
<1>6. MemRight' /\ MemStored' /\ FinishedRight'
  BY <1>1, <1>2 DEF MemRight, MemStored, FinishedRight, Deploying, Loaded
<1> QED BY <1>3, <1>5, <1>6 DEF RightInv

LEMMA RightReset ==
  ASSUME RightInv, TypeOK', NEW n \in Networks, Reset(n)
  PROVE  RightInv'
<1>1. /\ phase = "down" /\ phase' = "down" /\ finished' = finished
      /\ chain' = [chain EXCEPT ![n] = <<>>] /\ reset' = reset \cup {n} /\ records' = records
  BY DEF Reset
<1>2. finished = {} /\ ~test /\ \A m \in Modules : records[<<m, Memory>>] = Nothing
  BY <1>1 DEF RightInv, TypeOK, MemoryRight, FinishedRight
<1>3. \A k \in Networks \ reset' : k \in Networks \ reset /\ chain'[k] = chain[k]
  BY <1>1 DEF RightInv, TypeOK
<1>4. ElsewhereThere'
  BY <1>1, <1>3 DEF RightInv, ElsewhereThere
<1>5. FilesRight'
  BY <1>1, <1>3 DEF RightInv, FilesRight, Right
<1> QED BY <1>1, <1>2, <1>4, <1>5, RightDown

LEMMA RightEnds == RightInv /\ TypeOK' /\ (Exit \/ Tear) => RightInv'
<1> SUFFICES ASSUME RightInv, TypeOK', Exit \/ Tear PROVE RightInv'
  OBVIOUS
<1>1. phase' = "down" /\ finished' = {} /\ UNCHANGED <<chain, reset>>
  BY DEF Exit, Tear, EndProcess, external
<1>2. PICK after :
        /\ \/ after = records
           \/ after = [records EXCEPT ![<<Current, Key>>] = Torn]
        /\ records' = [mk \in DOMAIN after |-> IF mk[2] = Memory THEN Nothing ELSE after[mk]]
  BY DEF Exit, Tear, EndProcess
<1>3. \A m \in Modules : records'[<<m, Memory>>] = Nothing
  BY <1>2, Typed DEF RightInv, TypeOK
<1>4. \A m \in Modules, n \in Networks :
        records'[<<m, n>>] = records[<<m, n>>] \/ records'[<<m, n>>] = Torn
  BY <1>2, Typed DEF RightInv, TypeOK
<1>5. FilesRight'
  BY <1>1, <1>4 DEF RightInv, FilesRight, Right
<1>6. ElsewhereThere'
  BY <1>1 DEF RightInv, ElsewhereThere
<1> QED BY <1>1, <1>3, <1>5, <1>6, RightDown

LEMMA RightRemoveTorn ==
  ASSUME RightInv, TypeOK', NEW m \in Modules, NEW k \in Keys, RemoveTorn(m, k)
  PROVE  RightInv'
<1>1. /\ phase = "down" /\ phase' = "down" /\ finished' = finished /\ UNCHANGED <<chain, reset>>
      /\ records' = [records EXCEPT ![<<m, k>>] = Nothing]
  BY DEF RemoveTorn, external
<1>2. finished = {} /\ ~test /\ \A n \in Modules : records[<<n, Memory>>] = Nothing
  BY <1>1 DEF RightInv, TypeOK, MemoryRight, FinishedRight
<1>3. \A mk \in Modules \X Keys : records'[mk] = records[mk] \/ records'[mk] = Nothing
  BY <1>1 DEF RightInv, TypeOK
<1>4. \A n \in Modules : records'[<<n, Memory>>] = Nothing
  BY <1>2, <1>3, Typed
<1>5. \A n : Right(Nothing, n)'
  BY Typed DEF Right, Nothing
<1>6. FilesRight'
  <2> SUFFICES ASSUME NEW n \in Modules, NEW j \in Networks \ reset, records'[<<n, j>>] # Torn
               PROVE  Right(records[<<n, j>>], j)'
    BY <1>1 DEF FilesRight
  <2>1. CASE records'[<<n, j>>] = records[<<n, j>>]
    BY <1>1, <2>1 DEF RightInv, FilesRight, Right
  <2>2. CASE records'[<<n, j>>] = Nothing
    BY <1>5, <2>2 DEF Right
  <2> QED BY <1>3, <2>1, <2>2, Typed
<1>7. ElsewhereThere'
  BY <1>1 DEF RightInv, ElsewhereThere
<1> QED BY <1>1, <1>2, <1>4, <1>6, <1>7, RightDown

LEMMA RightMigrate ==
  ASSUME RightInv, TypeOK', NEW kind, NEW m \in Modules, Migrate(kind, m)
  PROVE  RightInv'
<1> DEFINE found == Found(kind)
<1>1. PICK written \in SUBSET {f[1] : f \in found} :
        records' = [mk \in DOMAIN records |->
          IF mk[1] = m /\ mk[2] \in written THEN Migrated(found, mk[2]) ELSE records[mk]]
  BY DEF Migrate
<1>2. phase = "down" /\ phase' = "down" /\ finished' = finished /\ UNCHANGED <<chain, reset>>
  BY DEF Migrate, external
<1>3. finished = {} /\ ~test /\ \A n \in Modules : records[<<n, Memory>>] = Nothing
  BY <1>2 DEF RightInv, TypeOK, MemoryRight, FinishedRight
<1>4. Memory \notin written
  BY FoundTyped
<1>5. \A n \in Modules : records'[<<n, Memory>>] = Nothing
  BY <1>1, <1>3, <1>4, Typed DEF RightInv, TypeOK
<1>6. ASSUME NEW n \in Networks \ reset PROVE Right(Migrated(found, n), n)
  <2> SUFFICES ASSUME NEW c \in Contracts, Migrated(found, n)[c] > None
               PROVE  /\ Migrated(found, n)[c] <= Len(chain[n])
                      /\ chain[n][Migrated(found, n)[c]] = c
    BY DEF Right
  <2>1. PICK f \in found : f[1] = n /\ f[2] = c /\ Migrated(found, n)[c] = f[3]
    BY MigratedTyped, Typed
  <2>2. f[3] \in DOMAIN Elsewhere[n] /\ Elsewhere[n][f[3]] = c
    BY <2>1, FoundTyped
  <2>3. Elsewhere[n] \in Seq(Contracts) /\ f[3] \in 1 .. Len(Elsewhere[n])
    BY <2>2, ProjectAssumption
  <2>4. Len(Elsewhere[n]) <= Len(chain[n]) /\ chain[n][f[3]] = Elsewhere[n][f[3]]
    BY <2>2 DEF RightInv, ElsewhereThere
  <2>5. Len(chain[n]) \in Nat /\ Len(Elsewhere[n]) \in Nat
    BY <2>3 DEF RightInv, TypeOK
  <2> QED BY <2>1, <2>2, <2>3, <2>4, <2>5
<1> HIDE DEF found
<1>7. FilesRight'
  <2> SUFFICES ASSUME NEW n \in Modules, NEW j \in Networks \ reset, records'[<<n, j>>] # Torn
               PROVE  Right(records[<<n, j>>], j)'
    BY <1>2 DEF FilesRight
  <2>1. CASE n = m /\ j \in written
    <3>1. records'[<<n, j>>] = Migrated(found, j)
      BY <1>1, <2>1, Typed DEF RightInv, TypeOK
    <3> QED BY <1>2, <1>6, <3>1 DEF Right
  <2>2. CASE ~(n = m /\ j \in written)
    <3>1. records'[<<n, j>>] = records[<<n, j>>]
      BY <1>1, <2>2, Typed DEF RightInv, TypeOK
    <3> QED BY <1>2, <3>1 DEF RightInv, FilesRight, Right
  <2> QED BY <2>1, <2>2
<1>8. ElsewhereThere'
  BY <1>2 DEF RightInv, ElsewhereThere
<1> QED BY <1>2, <1>3, <1>5, <1>7, <1>8, RightDown

(***************************************************************************)
(* What resolve keeps of a state has code, unless the user declined.       *)
(***************************************************************************)
LEMMA ResolvedHasCode ==
  ASSUME TypeOK, Current \in Modules, phase # "down",
         NEW state \in [Contracts -> Addresses], NEW always \in BOOLEAN,
         Missing(state) = {} \/ always,
         NEW c \in Range(Bindings[Current]) \ Dropped(state, always), state[c] > None
  PROVE  state[c] <= Len(chain[network])
<1>1. PICK i \in DOMAIN Bindings[Current] : c = Bindings[Current][i]
  BY DEF Range
<1>2. SUFFICES ASSUME i \in Missing(state) PROVE FALSE
  <2>1. HasCode(state[c])
    BY <1>1, <1>2 DEF Missing
  <2> QED BY <2>1 DEF HasCode
<1>3. Missing(state) \in SUBSET Nat /\ Missing(state) # {}
  BY <1>2, BindingsTyped DEF Missing
<1>4. /\ FirstMissing(state) \in Missing(state)
      /\ \A j \in Missing(state) : FirstMissing(state) <= j
  BY <1>3, LeastOf DEF FirstMissing
<1>5. i > FirstMissing(state) \/ i = FirstMissing(state)
  BY <1>2, <1>3, <1>4
<1>6. c \in Dropped(state, always)
  BY <1>1, <1>2, <1>3, <1>5 DEF Dropped
<1> QED BY <1>6

LEMMA RightResolve ==
  ASSUME RightInv, TypeOK', NEW always \in BOOLEAN, NEW redo, Resolve(always, redo)
  PROVE  RightInv'
<1> DEFINE state == records[<<Current, Key>>]
           dropped == Dropped(state, always)
           known == (Range(Bindings[Current]) \ dropped)
                      \ Invalidated(state, Again(state, always, redo))
<1>1. /\ mem' = [c \in Contracts |->
                   IF c \in known /\ state[c] # Absent THEN state[c] ELSE None]
      /\ declined' = (declined \/ (Missing(state) # {} /\ ~always))
      /\ state # Torn /\ phase = "resolve" /\ phase' = "store"
      /\ UNCHANGED <<records, chain, reset, network, test, excluded, rest, initialized, finished>>
      /\ Current' = Current /\ Key' = Key
  BY DEF Resolve, external, process, task, Current, Key
<1>2. Current \in Modules /\ Key \in Keys /\ network \in Networks
  BY <1>1, KeyTyped DEF RightInv, TypeOK, Deploying
<1>3. state \in [Contracts -> Addresses]
  BY <1>1, <1>2 DEF RightInv, TypeOK
<1>4. network \notin reset => Right(state, network)
  BY <1>1, <1>2, KeyTyped DEF RightInv, FilesRight, MemoryRight
<1>5. ASSUME ~declined'
      PROVE  \A c \in Range(Bindings[Current]) : mem'[c] > None => mem'[c] <= Len(chain[network])
  <2> SUFFICES ASSUME NEW c \in Range(Bindings[Current]), mem'[c] > None
               PROVE  mem'[c] <= Len(chain[network])
    OBVIOUS
  <2>1. c \in Contracts
    BY <1>2, BindingsTyped
  <2>2. c \notin dropped /\ mem'[c] = state[c]
    BY <1>1, <2>1, Typed
  <2>3. Missing(state) = {} \/ always
    BY <1>1, <1>5
  <2> QED BY <1>1, <1>2, <1>3, <2>2, <2>3, ResolvedHasCode DEF RightInv
<1>6. network \notin reset =>
        \A c \in Contracts : mem'[c] > None =>
          mem'[c] <= Len(chain[network]) /\ chain[network][mem'[c]] = c
  <2> HIDE DEF known
  <2>1. \A c \in Contracts : mem'[c] > None => mem'[c] = state[c]
    BY <1>1, Typed
  <2> QED BY <1>4, <2>1 DEF Right
<1> HIDE DEF state, dropped, known
<1>7. MemRight'
  BY <1>1, <1>5, <1>6 DEF MemRight, Right
<1>8. ElsewhereThere' /\ FilesRight' /\ MemoryRight'
  BY <1>1 DEF RightInv, ElsewhereThere, FilesRight, MemoryRight, Right
<1>9. \A u, c : RightAddress(u, c) => RightAddress(u, c)'
  BY <1>1 DEF RightAddress, HasCode
<1>10. FinishedRight' /\ MemStored'
  BY <1>1, <1>9 DEF RightInv, FinishedRight, MemStored, Deploying
<1> QED BY <1>7, <1>8, <1>10 DEF RightInv

LEMMA RightStored == RightInv /\ TypeOK' /\ (StoreStates \/ StoreCreated) => RightInv'
<1> SUFFICES ASSUME RightInv, TypeOK', StoreStates \/ StoreCreated PROVE RightInv'
  OBVIOUS
<1>1. /\ records' = [records EXCEPT ![<<Current, Key>>] = mem]
      /\ phase \in {"store", "mined"} /\ phase' = "execute"
      /\ UNCHANGED <<chain, reset, mem, network, test, excluded, rest, initialized, finished,
                     declined>>
      /\ Current' = Current /\ Key' = Key
  BY DEF StoreStates, StoreCreated, external, process, task, Current, Key
<1>2. /\ Current \in Modules /\ Key \in Keys /\ network \in Networks /\ Loaded
      /\ (test => Key = Memory) /\ (~test => Key = network)
  BY <1>1, KeyTyped DEF RightInv, TypeOK, Deploying, Loaded
<1>3. /\ records'[<<Current, Key>>] = mem
      /\ \A mk \in Modules \X Keys : mk # <<Current, Key>> => records'[mk] = records[mk]
  BY <1>1, <1>2 DEF RightInv, TypeOK
<1>4. network \notin reset => Right(mem, network)
  BY <1>2 DEF RightInv, MemRight
<1>5. FilesRight'
  <2> SUFFICES ASSUME NEW m \in Modules, NEW n \in Networks \ reset, records'[<<m, n>>] # Torn
               PROVE  Right(records[<<m, n>>], n)'
    BY <1>1 DEF FilesRight
  <2>1. CASE <<m, n>> = <<Current, Key>>
    <3>1. n = network /\ records'[<<m, n>>] = mem
      BY <1>2, <1>3, <2>1, Typed
    <3> QED BY <1>1, <1>4, <3>1 DEF Right
  <2>2. CASE <<m, n>> # <<Current, Key>>
    <3>1. records'[<<m, n>>] = records[<<m, n>>]
      BY <1>3, <2>2, Typed
    <3> QED BY <1>1, <3>1 DEF RightInv, FilesRight, Right
  <2> QED BY <2>1, <2>2
<1>6. MemoryRight'
  <2>1. CASE test
    <3> SUFFICES ASSUME NEW m \in Modules
                 PROVE  /\ records'[<<m, Memory>>] \in [Contracts -> Addresses]
                        /\ network \notin reset => Right(records[<<m, Memory>>], network)'
      BY <1>1, <2>1 DEF MemoryRight, Right
    <3>1. records'[<<m, Memory>>] = mem \/ records'[<<m, Memory>>] = records[<<m, Memory>>]
      BY <1>3, Typed
    <3>2. /\ records[<<m, Memory>>] \in [Contracts -> Addresses]
          /\ network \notin reset => Right(records[<<m, Memory>>], network)
      BY <2>1 DEF RightInv, MemoryRight
    <3>3. mem \in [Contracts -> Addresses]
      BY DEF RightInv, TypeOK
    <3> QED BY <1>1, <1>4, <3>1, <3>2, <3>3 DEF Right
  <2>2. CASE ~test
    <3>1. \A m \in Modules : records'[<<m, Memory>>] = records[<<m, Memory>>]
      BY <1>2, <1>3, <2>2, Typed
    <3> QED BY <1>1, <2>2, <3>1 DEF RightInv, MemoryRight
  <2> QED BY <2>1, <2>2
<1>7. ElsewhereThere' /\ MemRight'
  BY <1>1, <1>2 DEF RightInv, ElsewhereThere, MemRight, Right
<1>8. MemStored'
  BY <1>1, <1>3 DEF MemStored
<1>9. ASSUME NEW u \in finished
      PROVE  records'[<<u, Key>>] = records[<<u, Key>>]
             /\ \A c : RightAddress(u, c) => RightAddress(u, c)'
  <2>1. u \in Modules /\ u # Current
    BY <1>2 DEF RightInv, FinishedRight, Deploying
  <2>2. records'[<<u, Key>>] = records[<<u, Key>>]
    BY <1>2, <1>3, <2>1
  <2> QED BY <1>1, <2>2 DEF RightAddress, HasCode
<1>10. FinishedRight'
  BY <1>1, <1>2, <1>9 DEF RightInv, FinishedRight, Deploying
<1> QED BY <1>5, <1>6, <1>7, <1>8, <1>10 DEF RightInv

(***************************************************************************)
(* Creating a contract moves no address.                                   *)
(***************************************************************************)
LEMMA RightAppended ==
  ASSUME TypeOK, Create, NEW n \in Networks, NEW state \in [Contracts -> Addresses],
         Right(state, n)
  PROVE  \A c \in Contracts :
           state[c] > None => state[c] <= Len(chain'[n]) /\ chain'[n][state[c]] = c
<1> SUFFICES ASSUME NEW c \in Contracts, state[c] > None
             PROVE  state[c] <= Len(chain'[n]) /\ chain'[n][state[c]] = c
  OBVIOUS
<1>1. state[c] \in 1 .. Len(chain[n]) /\ chain[n][state[c]] = c /\ chain[n] \in Seq(Contracts)
  <2>1. chain[n] \in Seq(Contracts) /\ Len(chain[n]) \in Nat
    BY DEF TypeOK
  <2>2. state[c] \in Nat /\ state[c] # 0
    BY DEF Addresses, Absent, None
  <2>3. state[c] <= Len(chain[n]) /\ chain[n][state[c]] = c
    BY DEF Right
  <2> QED BY <2>1, <2>2, <2>3
<1>2. chain'[n] = chain[n] \/ chain'[n] = Append(chain[n], NextToDeploy)
  BY CreateChanges DEF TypeOK
<1> QED BY <1>1, <1>2

LEMMA RightCreate == RightInv /\ TypeOK' /\ Create => RightInv'
<1> SUFFICES ASSUME RightInv, TypeOK', Create PROVE RightInv'
  OBVIOUS
<1>1. TypeOK /\ Loaded
  BY CreateChanges DEF RightInv, Loaded
<1>2. /\ network \in Networks /\ Current \in Modules /\ NextToDeploy \in Contracts
      /\ chain[network] \in Seq(Contracts)
      /\ chain'[network] = Append(chain[network], NextToDeploy)
      /\ mem' = [mem EXCEPT ![NextToDeploy] = Len(chain'[network])]
      /\ phase' = "mined"
      /\ UNCHANGED <<records, reset, network, test, excluded, initialized, finished, declined,
                     rest>>
      /\ Current' = Current /\ Key' = Key
  BY <1>1, CreateChanges DEF TypeOK
<1>3. /\ Len(chain'[network]) = Len(chain[network]) + 1 /\ Len(chain[network]) \in Nat
      /\ chain'[network][Len(chain'[network])] = NextToDeploy
  BY <1>1, CreateChanges
<1>4. \A n \in Networks : chain'[n] = chain[n] \/ chain'[n] = Append(chain[n], NextToDeploy)
  BY <1>1, CreateChanges DEF TypeOK
<1>5. ElsewhereThere'
  <2> SUFFICES ASSUME NEW n \in Networks \ reset
               PROVE  /\ Len(Elsewhere[n]) <= Len(chain'[n])
                      /\ \A i \in DOMAIN Elsewhere[n] : chain'[n][i] = Elsewhere[n][i]
    BY <1>2 DEF ElsewhereThere
  <2>1. /\ Elsewhere[n] \in Seq(Contracts) /\ chain[n] \in Seq(Contracts)
        /\ Len(Elsewhere[n]) <= Len(chain[n])
        /\ \A i \in DOMAIN Elsewhere[n] : chain[n][i] = Elsewhere[n][i]
    BY <1>1, ProjectAssumption DEF RightInv, ElsewhereThere, TypeOK
  <2>2. DOMAIN Elsewhere[n] = 1 .. Len(Elsewhere[n]) /\ Len(Elsewhere[n]) \in Nat
    BY <2>1
  <2>3. chain'[n] = chain[n] \/ chain'[n] = Append(chain[n], NextToDeploy)
    BY <1>4
  <2>4. ASSUME NEW i \in DOMAIN Elsewhere[n] PROVE chain'[n][i] = Elsewhere[n][i]
    <3>1. i \in 1 .. Len(chain[n]) /\ chain[n][i] = Elsewhere[n][i]
      BY <2>1, <2>2
    <3> QED BY <2>1, <2>3, <3>1
  <2>5. Len(chain'[n]) >= Len(chain[n]) /\ Len(chain'[n]) \in Nat /\ Len(chain[n]) \in Nat
    BY <1>2, <2>1, <2>3
  <2> QED BY <2>1, <2>2, <2>4, <2>5
<1>6. FilesRight'
  <2> SUFFICES ASSUME NEW m \in Modules, NEW n \in Networks \ reset, records[<<m, n>>] # Torn
               PROVE  Right(records[<<m, n>>], n)'
    BY <1>2 DEF FilesRight
  <2>1. records[<<m, n>>] \in [Contracts -> Addresses] /\ Right(records[<<m, n>>], n)
    BY <1>1, Typed DEF RightInv, FilesRight, TypeOK
  <2>2. \A c \in Contracts : records[<<m, n>>][c] > None =>
          records[<<m, n>>][c] <= Len(chain'[n]) /\ chain'[n][records[<<m, n>>][c]] = c
    BY <1>1, <2>1, RightAppended
  <2>3. records' = records
    BY <1>2
  <2> QED BY <2>2, <2>3 DEF Right
<1>7. MemoryRight'
  <2>1. CASE test
    <3> SUFFICES ASSUME NEW m \in Modules
                 PROVE  /\ records[<<m, Memory>>] \in [Contracts -> Addresses]
                        /\ network \notin reset => Right(records[<<m, Memory>>], network)'
      BY <1>2, <2>1 DEF MemoryRight, Right
    <3>1. /\ records[<<m, Memory>>] \in [Contracts -> Addresses]
          /\ network \notin reset => Right(records[<<m, Memory>>], network)
      BY <2>1 DEF RightInv, MemoryRight
    <3>2. ASSUME network \notin reset
          PROVE  \A c \in Contracts : records[<<m, Memory>>][c] > None =>
                   /\ records[<<m, Memory>>][c] <= Len(chain'[network])
                   /\ chain'[network][records[<<m, Memory>>][c]] = c
      BY <1>1, <1>2, <3>1, <3>2, RightAppended
    <3>3. records' = records /\ network' = network
      BY <1>2
    <3> QED BY <3>1, <3>2, <3>3 DEF Right
  <2>2. CASE ~test
    BY <1>2, <2>2 DEF RightInv, MemoryRight
  <2> QED BY <2>1, <2>2
<1>8. MemRight'
  <2>1. mem \in [Contracts -> Addresses]
    BY <1>1 DEF TypeOK
  <2>2. mem'[NextToDeploy] = Len(chain'[network])
        /\ \A c \in Contracts : c # NextToDeploy => mem'[c] = mem[c]
    BY <1>2, <2>1
  <2>3. ASSUME network \notin reset PROVE Right(mem, network)'
    <3>1. \A c \in Contracts : mem[c] > None =>
            mem[c] <= Len(chain'[network]) /\ chain'[network][mem[c]] = c
      BY <1>1, <1>2, <2>1, <2>3, RightAppended DEF RightInv, MemRight
    <3>2. ASSUME NEW c \in Contracts, mem'[c] > None
          PROVE  mem'[c] <= Len(chain'[network]) /\ chain'[network][mem'[c]] = c
      <4>1. CASE c = NextToDeploy
        BY <1>3, <2>2, <4>1
      <4>2. CASE c # NextToDeploy
        BY <2>2, <3>1, <3>2, <4>2
      <4> QED BY <4>1, <4>2
    <3> QED BY <1>2, <3>2 DEF Right
  <2>4. ASSUME ~declined, NEW c \in Range(Bindings[Current]), mem'[c] > None
        PROVE  mem'[c] <= Len(chain'[network])
    <3>1. c \in Contracts
      BY <1>2, BindingsTyped
    <3>2. CASE c = NextToDeploy
      BY <1>3, <2>2, <3>2
    <3>3. CASE c # NextToDeploy
      <4>1. mem[c] <= Len(chain[network]) /\ mem[c] \in Nat /\ mem'[c] = mem[c]
        BY <1>1, <2>1, <2>2, <2>4, <3>1, <3>3 DEF RightInv, MemRight, TypeOK
      <4> QED BY <1>3, <4>1
    <3> QED BY <3>2, <3>3
  <2> QED BY <1>2, <2>3, <2>4 DEF MemRight
<1>9. MemStored'
  BY <1>2 DEF MemStored
<1>10. FinishedRight'
  <2> SUFFICES ASSUME NEW u \in finished, NEW c \in Range(Bindings[u])
               PROVE  RightAddress(u, c)'
    BY <1>1, <1>2 DEF RightInv, FinishedRight, Deploying
  <2> DEFINE a == records[<<u, Key>>][c]
  <2>1. u \in Modules /\ records[<<u, Key>>] \in [Contracts -> Addresses] /\ RightAddress(u, c)
    BY DEF RightInv, FinishedRight
  <2> SUFFICES ASSUME a # None PROVE RightAddress(u, c)'
    BY <1>2, <2>1 DEF RightAddress
  <2>2. a \in Nat /\ a # None
    BY <2>1, BindingsTyped, Typed DEF RightAddress
  <2>3. HasCode(a) => a \in 1 .. Len(chain[network])
    BY <1>3, <2>2 DEF HasCode, None
  <2>4. HasCode(a) => HasCode(a)' /\ chain'[network][a] = chain[network][a]
    BY <1>2, <1>3, <2>2, <2>3 DEF HasCode
  <2> QED BY <1>2, <2>1, <2>4 DEF RightAddress
<1> QED BY <1>5, <1>6, <1>7, <1>8, <1>9, <1>10 DEF RightInv

LEMMA RightFinished == RightInv /\ TypeOK' /\ FinishModule => RightInv'
<1> SUFFICES ASSUME RightInv, TypeOK', FinishModule PROVE RightInv'
  OBVIOUS
<1>1. /\ phase = "execute" /\ phase' = "next" /\ Undeployed = {}
      /\ finished' = finished \cup {Current}
      /\ UNCHANGED <<records, chain, reset, network, test, excluded, initialized, declined>>
      /\ Key' = Key
  BY DEF FinishModule, external, process, Key
<1>2. Current \in Modules /\ network \in Networks /\ mem \in [Contracts -> Addresses]
      /\ records[<<Current, Key>>] = mem
  BY <1>1, KeyTyped DEF RightInv, TypeOK, Deploying, Loaded, MemStored
<1>3. ASSUME NEW c \in Range(Bindings[Current]) PROVE RightAddress(Current, c)
  <2>1. c \in Contracts
    BY <1>2, BindingsTyped
  <2>2. mem[c] \in Nat /\ (mem[c] = None => <<Current, c>> \in excluded)
    BY <1>1, <2>1 DEF Undeployed, Range, RightInv, TypeOK, Loaded
  <2> SUFFICES ASSUME mem[c] > None PROVE RightAddress(Current, c)
    BY <1>2, <2>2, Typed DEF RightAddress
  <2>3. network \notin reset => chain[network][mem[c]] = c
    BY <1>1, <2>1, <2>2 DEF RightInv, MemRight, Right, Loaded
  <2>4. ~declined => mem[c] <= Len(chain[network])
    BY <1>1, <2>2 DEF RightInv, MemRight, Loaded
  <2> QED BY <1>2, <2>2, <2>3, <2>4, Typed DEF RightAddress, HasCode
<1>4. ElsewhereThere' /\ FilesRight' /\ MemoryRight' /\ MemRight' /\ MemStored'
  BY <1>1 DEF RightInv, ElsewhereThere, FilesRight, MemoryRight, MemRight, MemStored, Right,
              Loaded
<1>5. \A u, c : RightAddress(u, c) => RightAddress(u, c)'
  BY <1>1 DEF RightAddress, HasCode
<1>6. Current \in initialized
  BY <1>1 DEF RightInv, FinishedRight, Deploying, Loaded
<1>7. FinishedRight'
  BY <1>1, <1>2, <1>3, <1>5, <1>6 DEF RightInv, FinishedRight, Deploying, Loaded
<1> QED BY <1>4, <1>7 DEF RightInv

LEMMA RightStep == RightInv /\ TypeOK' /\ [Next]_vars => RightInv'
<1> SUFFICES ASSUME RightInv, TypeOK', [Next]_vars PROVE RightInv'
  OBVIOUS
<1> USE DEF external, process, task, bounds, Loaded, Deploying
<1>1. ASSUME NEW n \in Networks, NEW t \in BOOLEAN, Launch(n, t) PROVE RightInv'
  BY <1>1, RightLaunch
<1>2. ASSUME NEW n \in Networks, Reset(n) PROVE RightInv'
  BY <1>2, RightReset
<1>3. CASE Exit \/ Tear
  BY <1>3, RightEnds
<1>4. ASSUME NEW m \in Modules, NEW k \in Keys, RemoveTorn(m, k) PROVE RightInv'
  BY <1>4, RightRemoveTorn
<1>5. ASSUME NEW kind, NEW m \in Modules, Migrate(kind, m) PROVE RightInv'
  BY <1>5, RightMigrate
<1>6. ASSUME NEW ms, Begin(ms) PROVE RightInv'
  <2>1. /\ phase = "idle" /\ phase' = "next"
        /\ UNCHANGED <<records, chain, reset, network, test, excluded, initialized, finished,
                       declined>>
    BY <1>6 DEF Begin, Ready
  <2> QED BY <2>1, RightSame
<1>7. ASSUME NEW m \in Modules, NEW r, Look(m, r) PROVE RightInv'
  <2>1. /\ phase = "idle" /\ phase' = phase
        /\ UNCHANGED <<records, chain, reset, network, test, excluded, finished, declined>>
    BY <1>7 DEF Look, Ready
  <2>2. initialized \subseteq initialized'
    BY <1>7, InitializedModules DEF Look
  <2> QED BY <2>1, <2>2, RightSame
<1>8. ASSUME NEW m \in Modules, DeployCall(m) \/ DiffCall(m) \/ GenTypesCall(m)
      PROVE  RightInv'
  BY <1>6, <1>7, <1>8 DEF DeployCall, DiffCall, GenTypesCall
<1>9. ASSUME NEW file \in Exports, DeployTask(file) PROVE RightInv'
  BY <1>6, <1>9 DEF DeployTask
<1>10. CASE DiffTask \/ GenTypesTask \/ SetupFails
  <2>1. /\ phase = "idle" /\ phase' = phase
        /\ UNCHANGED <<records, chain, reset, network, test, excluded, initialized, finished,
                       declined>>
    BY <1>10 DEF DiffTask, GenTypesTask, SetupFails
  <2> QED BY <2>1, RightSame
<1>11. CASE Skip \/ EndTask
  <2>1. /\ phase = "next" /\ phase' \in {"next", "idle"}
        /\ UNCHANGED <<records, chain, reset, network, test, excluded, initialized, finished,
                       declined>>
    BY <1>11 DEF Skip, EndTask
  <2> QED BY <2>1, RightSame
<1>12. CASE Initialize
  <2>1. /\ phase = "next" /\ phase' = "resolve" /\ rest # <<>> /\ Current' = Current
        /\ UNCHANGED <<records, chain, reset, network, test, excluded, finished, declined>>
        /\ Current \notin initialized /\ Initialized(Current, initialized).ok
        /\ initialized' = Initialized(Current, initialized).done
    BY <1>12 DEF Initialize, Current
  <2>2. Current \in Modules
    BY <2>1, KeyTyped DEF RightInv
  <2>3. initialized \subseteq initialized' /\ Current \in initialized'
    BY <2>1, <2>2, InitializedModules, UsedByModules
  <2>4. Current \notin finished
    BY <2>1 DEF RightInv, FinishedRight
  <2> QED BY <2>1, <2>3, <2>4, RightSame
<1>13. ASSUME NEW redo,
              InitializeFails \/ ReadFails \/ ResolveFails(redo) \/ ArgumentFails \/ Fail
       PROVE  RightInv'
  <2>1. /\ phase # "down" /\ phase' = "idle"
        /\ UNCHANGED <<records, chain, reset, network, test, excluded, finished, declined>>
    BY <1>13 DEF InitializeFails, ReadFails, ResolveFails, ArgumentFails, Fail, Abort
  <2>2. CASE InitializeFails
    <3>1. Current \in Modules
      BY <2>2, KeyTyped DEF RightInv, InitializeFails
    <3>2. initialized \subseteq initialized'
      BY <2>2, <3>1, InitializedModules DEF InitializeFails
    <3> QED BY <2>1, <3>2, RightSame
  <2>3. CASE ReadFails \/ ResolveFails(redo) \/ ArgumentFails \/ Fail
    <3>1. initialized' = initialized
      BY <2>3 DEF ReadFails, ResolveFails, ArgumentFails, Fail
    <3> QED BY <2>1, <3>1, RightSame
  <2> QED BY <1>13, <2>2, <2>3
<1>14. ASSUME NEW always \in BOOLEAN, NEW redo, Resolve(always, redo) PROVE RightInv'
  BY <1>14, RightResolve
<1>15. CASE StoreStates \/ StoreCreated
  BY <1>15, RightStored
<1>16. CASE Create
  BY <1>16, RightCreate
<1>17. CASE FinishModule
  BY <1>17, RightFinished
<1>18. CASE UNCHANGED vars
  <2>1. /\ UNCHANGED <<records, chain, reset, network, test, excluded, initialized, finished,
                        declined, rest, phase, mem>>
        /\ Current' = Current /\ Key' = Key
    BY <1>18 DEF vars, Current, Key
  <2>2. \A u, c : RightAddress(u, c) => RightAddress(u, c)'
    BY <2>1 DEF RightAddress, HasCode
  <2>3. ElsewhereThere' /\ FilesRight' /\ MemoryRight'
    BY <2>1 DEF RightInv, ElsewhereThere, FilesRight, MemoryRight, Right
  <2>4. MemRight' /\ MemStored'
    BY <2>1 DEF RightInv, MemRight, MemStored, Right
  <2>5. FinishedRight'
    BY <2>1, <2>2 DEF RightInv, FinishedRight
  <2> QED BY <2>3, <2>4, <2>5 DEF RightInv
<1> QED
  BY <1>1, <1>2, <1>3, <1>4, <1>5, <1>8, <1>9, <1>10, <1>11, <1>12, <1>13, <1>14, <1>15,
     <1>16, <1>17, <1>18 DEF Next

(***************************************************************************)
(* Every address in the state files, in memory and in moduleState is that  *)
(* of its contract on the network, unless that was started again, and the  *)
(* modules whose deployment succeeded have an address for all contracts    *)
(* that their configs do not exclude (RightInv is inductive).              *)
(***************************************************************************)
THEOREM AddressesRight == Spec => []RightInv
<1>1. Init => RightInv
  <2> SUFFICES ASSUME Init PROVE RightInv
    OBVIOUS
  <2>1. /\ chain = Elsewhere /\ finished = {} /\ phase = "down" /\ ~test
        /\ records = [mk \in Modules \X Keys |-> Nothing]
    BY DEF Init
  <2>2. TypeOK
    BY TypeInit
  <2>3. ElsewhereThere
    <3>1. \A n \in Networks : Len(Elsewhere[n]) \in Nat
      BY ProjectAssumption
    <3> QED BY <2>1, <3>1 DEF ElsewhereThere
  <2>4. FilesRight /\ MemoryRight
    BY <2>1, RightOfNothing, Typed DEF FilesRight, MemoryRight
  <2>5. MemRight /\ MemStored /\ FinishedRight
    BY <2>1 DEF MemRight, MemStored, FinishedRight, Deploying, Loaded
  <2> QED BY <2>2, <2>3, <2>4, <2>5 DEF RightInv
<1>2. RightInv /\ [Next]_vars => RightInv'
  BY RightStep, TypeStep DEF RightInv
<1> QED BY <1>1, <1>2, PTL DEF Spec

-----------------------------------------------------------------------------
(* What a task was asked for is deployed when it returns.                  *)

LEMMA AskedStep == RightInv /\ AskedDeployed /\ [Next]_vars => AskedDeployed'
<1> SUFFICES ASSUME RightInv, AskedDeployed, [Next]_vars PROVE AskedDeployed'
  OBVIOUS
<1> USE DEF external, process, task, bounds, Loaded, Deploying
<1>1. TypeOK
  BY DEF RightInv
<1>2. ASSUME phase' = "down", outcome' = "none" PROVE AskedDeployed'
  BY <1>2 DEF AskedDeployed
<1>3. CASE Exit \/ Tear
  BY <1>2, <1>3 DEF Exit, Tear, EndProcess
<1>4. ASSUME NEW n \in Networks, NEW t \in BOOLEAN, Launch(n, t) PROVE AskedDeployed'
  BY <1>4 DEF Launch, AskedDeployed
<1>5. ASSUME phase = "down", phase' = "down", outcome' = outcome PROVE AskedDeployed'
  BY <1>5 DEF AskedDeployed
<1>6. ASSUME NEW n \in Networks, Reset(n) PROVE AskedDeployed'
  BY <1>5, <1>6 DEF Reset
<1>7. ASSUME NEW m \in Modules,
             (\E k \in Keys : RemoveTorn(m, k)) \/ Migrate("truffle", m) \/ Migrate("hardhat", m)
      PROVE  AskedDeployed'
  BY <1>5, <1>7 DEF RemoveTorn, Migrate
<1>8. ASSUME NEW ms, Begin(ms) PROVE AskedDeployed'
  <2>1. /\ asked' = Range(ms) /\ rest' = ms /\ phase' = "next" /\ outcome' = "none"
        /\ skipsUnfinished' = (asked' \cap (initialized \ Deployed(finished)) # {})
        /\ initialized' = initialized /\ finished' = finished
    BY <1>8 DEF Begin
  <2>2. Deployed(finished)' = Deployed(finished)
    BY <2>1 DEF Deployed
  <2> QED BY <2>1, <2>2 DEF AskedDeployed
<1>9. ASSUME phase = "idle", phase' = "idle", outcome' # "done" PROVE AskedDeployed'
  BY <1>9 DEF AskedDeployed
<1>10. ASSUME NEW m \in Modules, DeployCall(m) \/ DiffCall(m) \/ GenTypesCall(m)
       PROVE  AskedDeployed'
  BY <1>8, <1>9, <1>10 DEF DeployCall, DiffCall, GenTypesCall, Look, Ready
<1>11. ASSUME NEW file \in Exports, DeployTask(file) PROVE AskedDeployed'
  BY <1>8, <1>11 DEF DeployTask
<1>12. CASE DiffTask \/ GenTypesTask \/ SetupFails
  BY <1>9, <1>12 DEF DiffTask, GenTypesTask, SetupFails
<1>13. ASSUME NEW redo,
              InitializeFails \/ ReadFails \/ ResolveFails(redo) \/ ArgumentFails \/ Fail
       PROVE  AskedDeployed'
  BY <1>13 DEF InitializeFails, ReadFails, ResolveFails, ArgumentFails, Fail, Abort,
                AskedDeployed
<1>14. CASE Skip
  <2>1. /\ phase = "next" /\ phase' = "next" /\ rest # <<>> /\ Current \in initialized
        /\ rest' = Tail(rest)
        /\ UNCHANGED <<initialized, finished, asked, skipsUnfinished, outcome>>
    BY <1>14 DEF Skip
  <2>2. \A x : x \in Range(rest) => x = Current \/ x \in Range(rest')
    BY <1>1, <2>1, RangeOfTail DEF TypeOK, Current
  <2>3. Deployed(finished)' = Deployed(finished)
    BY <2>1 DEF Deployed
  <2> QED BY <2>1, <2>2, <2>3 DEF AskedDeployed
<1>15. CASE Initialize
  <2>1. /\ phase = "next" /\ phase' = "resolve" /\ rest # <<>>
        /\ Initialized(Current, initialized).ok
        /\ initialized' = Initialized(Current, initialized).done
        /\ UNCHANGED <<rest, finished, asked, skipsUnfinished, outcome>> /\ Current' = Current
    BY <1>15 DEF Initialize, Current
  <2>2. Current \in Modules
    BY <1>1, <2>1, KeyTyped
  <2>3. initialized' = initialized \cup UsedBy(Current)
    BY <2>1, <2>2, InitializedModules
  <2>4. Deployed(finished)' = Deployed(finished) /\ UsedBy(Current)' = UsedBy(Current)
    BY <2>1 DEF Deployed, UsedBy
  <2> QED BY <2>1, <2>3, <2>4 DEF AskedDeployed
<1>16. ASSUME Deploying, Deploying',
              UNCHANGED <<initialized, rest, finished, asked, skipsUnfinished, outcome>>
       PROVE  AskedDeployed'
  <2>1. Deployed(finished)' = Deployed(finished) /\ UsedBy(Current)' = UsedBy(Current)
        /\ Range(rest)' = Range(rest)
    BY <1>16 DEF Deployed, UsedBy, Current
  <2> QED BY <1>16, <2>1 DEF AskedDeployed
<1>17. CASE (\E redo, always : Resolve(always, redo)) \/ StoreStates \/ Create \/ StoreCreated
  BY <1>16, <1>17 DEF Resolve, StoreStates, Create, StoreCreated
<1>18. CASE FinishModule
  <2>1. /\ phase = "execute" /\ phase' = "next" /\ finished' = finished \cup {Current}
        /\ rest' = Tail(rest) /\ rest # <<>>
        /\ UNCHANGED <<initialized, asked, skipsUnfinished, outcome>>
    BY <1>1, <1>18 DEF FinishModule, TypeOK
  <2>2. \A x : x \in Range(rest) => x = Current \/ x \in Range(rest')
    BY <1>1, <2>1, RangeOfTail DEF TypeOK, Current
  <2>3. Current \in UsedBy(Current)
    BY <1>1, <2>1, KeyTyped, UsedByModules
  <2>4. \A x : x \in Deployed(finished) \/ x \in UsedBy(Current) => x \in Deployed(finished)'
    BY <2>1 DEF Deployed
  <2> QED BY <2>1, <2>2, <2>3, <2>4 DEF AskedDeployed
<1>19. CASE EndTask
  <2>1. /\ phase = "next" /\ phase' = "idle" /\ rest = <<>> /\ outcome' = "done"
        /\ UNCHANGED <<finished, asked, skipsUnfinished>>
    BY <1>19 DEF EndTask
  <2>2. Range(rest) = {} /\ Deployed(finished)' = Deployed(finished)
    BY <2>1 DEF Range, Deployed
  <2> QED BY <2>1, <2>2 DEF AskedDeployed
<1>20. CASE UNCHANGED vars
  BY <1>20 DEF vars, AskedDeployed, Deployed, UsedBy, Current
<1> QED
  BY <1>3, <1>4, <1>6, <1>7, <1>10, <1>11, <1>12, <1>13, <1>14, <1>15, <1>17, <1>18, <1>19,
     <1>20 DEF Next

(***************************************************************************)
(* When a deploy task or call returns without an error, every contract of  *)
(* every module it was asked for is recorded with an address where that    *)
(* contract is (AskedDeployed is inductive with RightInv).  The exceptions *)
(* are those of the property: the config may exclude a contract, what an   *)
(* unsuccessful call has initialized is skipped, and the user may say that *)
(* an address without code is kept.                                        *)
(***************************************************************************)
THEOREM TaskDeploys == Spec => []TaskMeansDeployed
<1>1. Init => AskedDeployed
  BY DEF Init, AskedDeployed
<1>2. RightInv /\ AskedDeployed /\ [Next]_vars => AskedDeployed'
  BY AskedStep
<1>3. RightInv /\ AskedDeployed => TaskMeansDeployed
  <2> SUFFICES ASSUME RightInv, AskedDeployed, outcome = "done", ~skipsUnfinished,
                      NEW m \in asked
               PROVE  \E user \in finished :
                        m \in UsedBy(user) /\ \A c \in Range(Bindings[m]) : RightAddress(user, c)
    BY DEF TaskMeansDeployed
  <2>1. PICK user \in finished : m \in UsedBy(user)
    BY DEF AskedDeployed, Deployed
  <2>2. user \in Modules /\ \A c \in Range(Bindings[user]) : RightAddress(user, c)
    BY DEF RightInv, FinishedRight
  <2>3. Range(Bindings[m]) \subseteq Range(Bindings[user])
    BY <2>1, <2>2, BindingsOfUsed
  <2> QED BY <2>1, <2>2, <2>3
<1> QED BY <1>1, <1>2, <1>3, AddressesRight, PTL DEF Spec

=============================================================================
