---------------------------- MODULE L1CacheProofs ----------------------------
(***************************************************************************)
(* BlocksAreExclusive for the three L1 caches, of every size, for every    *)
(* list of requests and every list of control requests.                    *)
(*                                                                         *)
(* The counts of a block say little by themselves: that an unlock or a     *)
(* decrement is right depends on where every transaction is.  Good says of *)
(* a cache that                                                            *)
(*   - a queue holds no transaction twice (OnceEach);                      *)
(*   - the queues in front, the directory, the MSHR and the bank hold      *)
(*     different transactions, a fetch on its way whose transaction is not *)
(*     finished is of a transaction in the MSHR, and no line has two       *)
(*     entries in the MSHR (Located);                                      *)
(*   - the transactions that fill a block, those in the MSHR included, and *)
(*     those that read it are as many as its lock and its count say, among *)
(*     those that were given it since the last Directory.Reset (Exclusive).*)
(* Each function of a stage keeps it, so a tick does, whatever the order   *)
(* and the number of times that RunPipeline runs the stages in.            *)
(***************************************************************************)
EXTENDS L1Cache, FiniteSetTheorems, SequenceTheorems, NaturalsInduction,
        WellFoundedInduction, TLAPS

-----------------------------------------------------------------------------
(* Queues: a list of any kind of element, perhaps without repetitions *)
IsSeq(q) == q \in Seq(Elements(q))

Once(q) == \A i, j \in DOMAIN q : q[i] = q[j] => i = j

LEMMA EmptyOf == IsSeq(<< >>) /\ Elements(<< >>) = {} /\ Once(<< >>)
<1>1. DOMAIN << >> = {} /\ << >> \in Seq({})
  <2>1. << >> \in Seq({}) /\ Len(<< >>) = 0
    OBVIOUS
  <2> QED  BY <2>1
<1>2. Elements(<< >>) = {}
  BY <1>1 DEF Elements
<1>3. IsSeq(<< >>)
  BY <1>1, <1>2, Zenon DEF IsSeq
<1>4. Once(<< >>)
  BY <1>1 DEF Once
<1> QED  BY <1>2, <1>3, <1>4

(* The places of a queue and its elements. *)
LEMMA SeqShape ==
    ASSUME NEW q, IsSeq(q)
    PROVE  /\ Len(q) \in Nat /\ DOMAIN q = 1..Len(q)
           /\ \A i \in 1..Len(q) : q[i] \in Elements(q)
           /\ \A x \in Elements(q) : \E i \in 1..Len(q) : q[i] = x
           /\ q # << >> => Len(q) > 0 /\ Head(q) = q[1]
BY DEF IsSeq, Elements

LEMMA IsSeqBy ==
    ASSUME NEW S, NEW q \in Seq(S)
    PROVE  IsSeq(q)
<1>1. Len(q) \in Nat /\ DOMAIN q = 1..Len(q) /\ q = [i \in 1..Len(q) |-> q[i]]
  OBVIOUS
<1>2. \A i \in 1..Len(q) : q[i] \in Elements(q)
  BY <1>1 DEF Elements
<1> QED  BY <1>1, <1>2 DEF IsSeq

(* Retrieving the first element. *)
LEMMA TailOf ==
    ASSUME NEW q, IsSeq(q), q # << >>
    PROVE  /\ IsSeq(Tail(q))
           /\ Head(q) \in Elements(q)
           /\ Elements(q) = {Head(q)} \cup Elements(Tail(q))
           /\ Once(q) => /\ Once(Tail(q)) /\ Head(q) \notin Elements(Tail(q))
                         /\ Elements(Tail(q)) = Elements(q) \ {Head(q)}
<1>1. /\ Len(q) \in Nat /\ Len(q) > 0 /\ DOMAIN q = 1..Len(q) /\ Head(q) = q[1]
  BY SeqShape
<1>2. /\ Tail(q) \in Seq(Elements(q)) /\ Len(Tail(q)) = Len(q) - 1
      /\ DOMAIN Tail(q) = 1..(Len(q) - 1)
      /\ \A i \in 1..(Len(q) - 1) : Tail(q)[i] = q[i + 1]
  BY <1>1 DEF IsSeq
<1>3. IsSeq(Tail(q))
  BY <1>2, IsSeqBy
<1>4. ASSUME NEW x \in Elements(q) PROVE x = Head(q) \/ x \in Elements(Tail(q))
  <2>1. PICK i \in 1..Len(q) : x = q[i]
    BY <1>1 DEF Elements
  <2>2. CASE i # 1
    <3>1. i - 1 \in 1..(Len(q) - 1) /\ Tail(q)[i - 1] = q[(i - 1) + 1] /\ (i - 1) + 1 = i
      BY <1>1, <1>2, <2>1, <2>2
    <3> QED  BY <1>2, <2>1, <3>1 DEF Elements
  <2> QED  BY <1>1, <2>1, <2>2
<1>5. ASSUME NEW x \in Elements(Tail(q)) PROVE \E i \in 2..Len(q) : x = q[i]
  <2>1. PICK i \in 1..(Len(q) - 1) : x = Tail(q)[i]
    BY <1>2 DEF Elements
  <2> QED  BY <1>1, <1>2, <2>1
<1>6. Elements(q) = {Head(q)} \cup Elements(Tail(q)) /\ Head(q) \in Elements(q)
  <2>1. Elements(Tail(q)) \subseteq Elements(q)
    BY <1>1, <1>5 DEF Elements
  <2>2. Head(q) \in Elements(q)
    BY SeqShape
  <2> QED  BY <1>4, <2>1, <2>2
<1>7. ASSUME Once(q) PROVE Once(Tail(q)) /\ Head(q) \notin Elements(Tail(q))
  <2>1. Head(q) \notin Elements(Tail(q))
    BY <1>1, <1>5, <1>7 DEF Once
  <2>2. ASSUME NEW i \in 1..(Len(q) - 1), NEW j \in 1..(Len(q) - 1), Tail(q)[i] = Tail(q)[j]
        PROVE  i = j
    <3>1. i + 1 \in 1..Len(q) /\ j + 1 \in 1..Len(q) /\ q[i + 1] = q[j + 1]
      BY <1>1, <1>2, <2>2
    <3>2. i + 1 = j + 1
      BY <1>1, <1>7, <3>1 DEF Once
    <3> QED  BY <3>2
  <2> QED  BY <1>2, <2>1, <2>2 DEF Once
<1> QED  BY <1>3, <1>6, <1>7

(* Adding one at the end. *)
LEMMA AppendOf ==
    ASSUME NEW q, IsSeq(q), NEW x
    PROVE  /\ IsSeq(Append(q, x))
           /\ Elements(Append(q, x)) = Elements(q) \cup {x}
           /\ Once(q) /\ x \notin Elements(q) => Once(Append(q, x))
<1>1. /\ Append(q, x) \in Seq(Elements(q) \cup {x})
      /\ Len(q) \in Nat /\ DOMAIN q = 1..Len(q)
      /\ DOMAIN Append(q, x) = 1..(Len(q) + 1)
      /\ \A i \in 1..Len(q) : Append(q, x)[i] = q[i]
      /\ Append(q, x)[Len(q) + 1] = x
  <2>1. q \in Seq(Elements(q) \cup {x})
    BY DEF IsSeq
  <2> QED  BY <2>1
<1>2. Elements(Append(q, x)) = Elements(q) \cup {x}
  <2>1. 1..(Len(q) + 1) = 1..Len(q) \cup {Len(q) + 1}
    BY <1>1
  <2> QED  BY <1>1, <2>1 DEF Elements
<1>3. ASSUME Once(q), x \notin Elements(q) PROVE Once(Append(q, x))
  BY <1>1, <1>3 DEF Once, Elements
<1> QED  BY <1>1, <1>2, <1>3, IsSeqBy

(* Adding several, as a pipeline does in a tick. *)
LEMMA ConcatOf ==
    ASSUME NEW p, NEW q, IsSeq(p), IsSeq(q)
    PROVE  /\ IsSeq(p \o q)
           /\ Elements(p \o q) = Elements(p) \cup Elements(q)
           /\ Once(p) /\ Once(q) /\ Elements(p) \cap Elements(q) = {} => Once(p \o q)
<1> DEFINE r == p \o q
<1>1. /\ r \in Seq(Elements(p) \cup Elements(q))
      /\ Len(p) \in Nat /\ DOMAIN p = 1..Len(p) /\ Len(q) \in Nat /\ DOMAIN q = 1..Len(q)
      /\ DOMAIN r = 1..(Len(p) + Len(q))
      /\ \A i \in 1..Len(p) : r[i] = p[i]
      /\ \A i \in (Len(p) + 1)..(Len(p) + Len(q)) : r[i] = q[i - Len(p)]
  <2>1. p \in Seq(Elements(p) \cup Elements(q)) /\ q \in Seq(Elements(p) \cup Elements(q))
    BY DEF IsSeq
  <2> QED  BY <2>1
<1>2. \A i \in 1..Len(q) : /\ i + Len(p) \in (Len(p) + 1)..(Len(p) + Len(q))
                           /\ i + Len(p) - Len(p) = i
  BY <1>1
<1>3. Elements(r) = Elements(p) \cup Elements(q)
  <2>1. ASSUME NEW i \in 1..Len(q) PROVE q[i] \in Elements(r)
    <3>1. i + Len(p) \in DOMAIN r /\ r[i + Len(p)] = q[i]
      BY <1>1, <1>2
    <3> HIDE DEF r
    <3> QED  BY <3>1 DEF Elements
  <2>2. Elements(p) \subseteq Elements(r)
    BY <1>1 DEF Elements
  <2>3. ASSUME NEW i \in 1..(Len(p) + Len(q)) PROVE r[i] \in Elements(p) \cup Elements(q)
    <3>1. CASE i \in 1..Len(p)
      BY <1>1, <3>1 DEF Elements
    <3>2. CASE i \in (Len(p) + 1)..(Len(p) + Len(q))
      BY <1>1, <3>2 DEF Elements
    <3> QED  BY <1>1, <3>1, <3>2
  <2>4. Elements(q) \subseteq Elements(r)
    BY <1>1, <2>1 DEF Elements
  <2>5. Elements(r) \subseteq Elements(p) \cup Elements(q)
    <3> HIDE DEF r
    <3> QED  BY <1>1, <2>3 DEF Elements
  <2> QED  BY <2>2, <2>4, <2>5
<1>4. ASSUME Once(p), Once(q), Elements(p) \cap Elements(q) = {} PROVE Once(r)
  <2>1. ASSUME NEW i \in 1..(Len(p) + Len(q)), NEW j \in 1..(Len(p) + Len(q)), r[i] = r[j]
        PROVE  i = j
    <3>1. CASE i \in 1..Len(p) /\ j \in 1..Len(p)
      BY <1>1, <1>4, <2>1, <3>1 DEF Once
    <3>2. CASE i \notin 1..Len(p) /\ j \notin 1..Len(p)
      <4>1. i - Len(p) \in 1..Len(q) /\ j - Len(p) \in 1..Len(q)
        BY <1>1, <3>2
      <4>2. q[i - Len(p)] = q[j - Len(p)]
        BY <1>1, <2>1, <3>2
      <4>3. i - Len(p) = j - Len(p)
        BY <1>1, <1>4, <4>1, <4>2 DEF Once
      <4> QED  BY <1>1, <4>3
    <3>3. ASSUME NEW a \in 1..Len(p), NEW b \in (Len(p) + 1)..(Len(p) + Len(q))
          PROVE  r[a] # r[b]
      <4>1. b - Len(p) \in 1..Len(q) /\ r[a] = p[a] /\ r[b] = q[b - Len(p)]
        BY <1>1, <3>3
      <4> HIDE DEF r
      <4>2. r[a] \in Elements(p) /\ r[b] \in Elements(q)
        BY <1>1, <3>3, <4>1 DEF Elements
      <4> QED  BY <4>2, <1>4
    <3> QED  BY <1>1, <2>1, <3>1, <3>2, <3>3
  <2> QED  BY <1>1, <2>1 DEF Once
<1> QED  BY <1>1, <1>3, <1>4, IsSeqBy
(* A set of numbers has a least one. *)
LEMMA FirstNat ==
    ASSUME NEW T \in SUBSET Nat, T # {}
    PROVE  \E x \in T : \A y \in T : x <= y
<1>1. IsWellFoundedOn(OpToRel(<, Nat), Nat)
  BY NatLessThanWellFounded
<1>2. PICK x \in T : \A y \in T : ~ (<<y, x>> \in OpToRel(<, Nat))
  BY <1>1, WFMin
<1>3. \A y \in T : ~(y < x)
  BY <1>2 DEF OpToRel
<1> QED
  BY <1>3

(* Induction on 0..N, for the numbers of a set. *)
LEMMA UpTo ==
    ASSUME NEW N \in Nat, NEW G, 0 \in G,
           \A i \in 1..N : i - 1 \in G => i \in G
    PROVE  \A i \in 0..N : i \in G
<1> DEFINE Bad == {i \in 0..N : i \notin G}
<1>1. SUFFICES ASSUME Bad # {} PROVE FALSE
  OBVIOUS
<1>2. Bad \in SUBSET Nat
  OBVIOUS
<1>3. PICK n \in Bad : \A y \in Bad : n <= y
  <2> HIDE DEF Bad
  <2> QED
    BY <1>1, <1>2, FirstNat
<1>4. n \in 0..N /\ n \notin G
  OBVIOUS
<1>5. n \in 1..N /\ n - 1 \in 0..N /\ ~(n <= n - 1)
  BY <1>4
<1>6. n - 1 \in G
  BY <1>3, <1>5
<1> QED
  BY <1>4, <1>5, <1>6

-----------------------------------------------------------------------------
(* A pipeline of a given width and number of stages. *)
Pipes(width, numStage) == [1..width -> [1..numStage -> Nat]]

(* No item is in two stages. *)
OnceInPipe(p) ==
    \A l, k \in DOMAIN p : \A i \in DOMAIN p[l], j \in DOMAIN p[k] :
        p[l][i] = p[k][j] /\ p[l][i] # Bubble => l = k /\ i = j

InStages(x, p, w, n) == \E l \in 1..w, i \in 1..n : p[l][i] = x

(* Lanes, stages and what is in them. *)
LEMMA PipeShape ==
    ASSUME NEW w \in Nat \ {0}, NEW n \in Nat, NEW p \in Pipes(w, n)
    PROVE  /\ DOMAIN p = 1..w /\ Len(p) = w
           /\ \A l \in 1..w : /\ DOMAIN p[l] = 1..n /\ Len(p[l]) = n
                            /\ Last(p[l]) = p[l][n]
                            /\ \A i \in 1..n : p[l][i] \in Nat
           /\ \A x : x \in PipeItems(p) <=> x # Bubble /\ InStages(x, p, w, n)
<1>1. DOMAIN p = 1..w /\ \A l \in 1..w : p[l] \in [1..n -> Nat]
  BY DEF Pipes
<1>2. ASSUME NEW l \in 1..w PROVE Len(p[l]) = n /\ DOMAIN p[l] = 1..n
  <2>1. p[l] \in Seq(Nat)
    BY <1>1
  <2> QED  BY <1>1, <2>1
<1>3. p \in Seq([1..n -> Nat])
  BY SeqDef DEF Pipes
<1>4. Len(p) = w
  BY <1>1, <1>3
<1>5. 1 \in 1..w
  OBVIOUS
<1>6. /\ Len(p[1]) = n
      /\ \A l \in 1..w : Last(p[l]) = p[l][n] /\ \A i \in 1..n : p[l][i] \in Nat
  BY <1>1, <1>2, <1>5 DEF Last
<1>7. \A x : x \in PipeItems(p) <=> x # Bubble /\ InStages(x, p, w, n)
  BY <1>1, <1>6 DEF PipeItems, InStages
<1> QED  BY <1>1, <1>2, <1>4, <1>6, <1>7

LEMMA OnceMeans ==
    ASSUME NEW w \in Nat \ {0}, NEW n \in Nat, NEW p \in Pipes(w, n)
    PROVE  OnceInPipe(p) <=>
             \A l, k \in 1..w : \A i, j \in 1..n :
                p[l][i] = p[k][j] /\ p[l][i] # Bubble => l = k /\ i = j
<1>1. DOMAIN p = 1..w /\ \A l \in 1..w : DOMAIN p[l] = 1..n
  BY PipeShape
<1>2. ASSUME OnceInPipe(p), NEW l \in 1..w, NEW k \in 1..w, NEW i \in 1..n, NEW j \in 1..n,
             p[l][i] = p[k][j], p[l][i] # Bubble
      PROVE  l = k /\ i = j
  <2>1. i \in DOMAIN p[l] /\ j \in DOMAIN p[k]
    BY <1>1
  <2> QED  BY <1>1, <1>2, <2>1 DEF OnceInPipe
<1>3. ASSUME \A l, k \in 1..w : \A i, j \in 1..n :
                p[l][i] = p[k][j] /\ p[l][i] # Bubble => l = k /\ i = j
      PROVE  OnceInPipe(p)
  <2>1. ASSUME NEW l \in 1..w, NEW k \in 1..w, NEW i \in DOMAIN p[l], NEW j \in DOMAIN p[k],
               p[l][i] = p[k][j], p[l][i] # Bubble
        PROVE  l = k /\ i = j
    <3>1. i \in 1..n /\ j \in 1..n
      BY <1>1, <2>1
    <3> QED  BY <1>3, <2>1, <3>1
  <2> QED  BY <1>1, <2>1 DEF OnceInPipe
<1> QED  BY <1>2, <1>3

(* A pipeline that was cleared. *)
LEMMA EmptyPipeOf ==
    ASSUME NEW w \in Nat \ {0}, NEW n \in Nat
    PROVE  /\ EmptyPipe(w, n) \in Pipes(w, n)
           /\ OnceInPipe(EmptyPipe(w, n)) /\ PipeItems(EmptyPipe(w, n)) = {}
<1>1. EmptyPipe(w, n) \in Pipes(w, n)
  BY DEF EmptyPipe, Pipes, Bubble
<1>2. PipeItems(EmptyPipe(w, n)) = {}
  BY <1>1, PipeShape DEF EmptyPipe, InStages
<1>3. OnceInPipe(EmptyPipe(w, n))
  BY DEF EmptyPipe, OnceInPipe
<1> QED  BY <1>1, <1>2, <1>3

(* The item enters the first stage of a lane where there was none. *)
LEMMA AcceptOf ==
    ASSUME NEW w \in Nat \ {0}, NEW n \in Nat \ {0}, NEW p \in Pipes(w, n),
           CanAccept(p), NEW x \in Nat \ {0}, x \notin PipeItems(p)
    PROVE  /\ Accept(p, x) \in Pipes(w, n)
           /\ PipeItems(Accept(p, x)) = PipeItems(p) \cup {x}
           /\ OnceInPipe(p) => OnceInPipe(Accept(p, x))
<1> DEFINE L == CHOOSE l \in FreeLanes(p) : \A k \in FreeLanes(p) : l <= k
           q == Accept(p, x)
<1>1. /\ DOMAIN p = 1..w
      /\ \A l \in 1..w : DOMAIN p[l] = 1..n /\ \A i \in 1..n : p[l][i] \in Nat
      /\ \A y : y \in PipeItems(p) <=> y # Bubble /\ InStages(y, p, w, n)
  BY PipeShape
<1>2. L \in 1..w /\ p[L][1] = Bubble
  <2>1. FreeLanes(p) \subseteq Nat /\ FreeLanes(p) # {}
    BY <1>1 DEF CanAccept, FreeLanes
  <2>2. \E l \in FreeLanes(p) : \A k \in FreeLanes(p) : l <= k
    BY <2>1, FirstNat
  <2>3. L \in FreeLanes(p)
    BY <2>2
  <2> QED  BY <1>1, <2>3 DEF FreeLanes
<1>3. q = [p EXCEPT ![L] = [p[L] EXCEPT ![1] = x]]
  BY DEF Accept
<1> HIDE DEF L, q
<1>4. p[L] \in [1..n -> Nat] /\ 1 \in 1..n
  BY <1>2 DEF Pipes
<1>5. q \in Pipes(w, n)
  BY <1>2, <1>3, <1>4 DEF Pipes
<1>6. /\ DOMAIN q = 1..w
      /\ \A l \in 1..w : DOMAIN q[l] = 1..n
      /\ \A y : y \in PipeItems(q) <=> y # Bubble /\ InStages(y, q, w, n)
  BY <1>5, PipeShape
<1>7. \A l \in 1..w, i \in 1..n :
         q[l][i] = IF l = L /\ i = 1 THEN x ELSE p[l][i]
  BY <1>1, <1>2, <1>3
<1>8. PipeItems(q) = PipeItems(p) \cup {x}
  <2>1. ASSUME NEW y \in PipeItems(q) PROVE y \in PipeItems(p) \cup {x}
    <3>1. PICK l \in 1..w, i \in 1..n : y = q[l][i] /\ y # Bubble
      BY <1>6, <2>1 DEF InStages
    <3>2. y = x \/ y = p[l][i]
      BY <1>7, <3>1
    <3> QED  BY <1>1, <3>1, <3>2 DEF InStages
  <2>2. ASSUME NEW y \in PipeItems(p) PROVE y \in PipeItems(q)
    <3>1. PICK l \in 1..w, i \in 1..n : y = p[l][i] /\ y # Bubble
      BY <1>1, <2>2 DEF InStages
    <3>2. q[l][i] = y
      BY <1>2, <1>7, <3>1
    <3> QED  BY <1>6, <3>1, <3>2 DEF InStages
  <2>3. q[L][1] = x /\ x # Bubble
    BY <1>2, <1>4, <1>7 DEF Bubble
  <2> QED  BY <1>2, <1>4, <1>6, <2>1, <2>2, <2>3 DEF InStages
<1>9. ASSUME OnceInPipe(p) PROVE OnceInPipe(q)
  <2>1. ASSUME NEW l \in 1..w, NEW k \in 1..w, NEW i \in 1..n, NEW j \in 1..n,
               q[l][i] = q[k][j], q[l][i] # Bubble
        PROVE  l = k /\ i = j
    <3>1. \A a \in 1..w, b \in 1..n : p[a][b] # x
      <4>1. x # Bubble
        BY DEF Bubble
      <4> QED  BY <1>1, <4>1 DEF InStages
    <3>2. CASE p[l][i] = q[l][i] /\ p[k][j] = q[k][j]
      BY <1>9, <2>1, <3>2, OnceMeans
    <3> QED  BY <1>7, <2>1, <3>1, <3>2
  <2> QED  BY <1>5, <2>1, OnceMeans
<1> QED  BY <1>5, <1>8, <1>9 DEF q

(* The lane l of those that give away their last item if they are in A: the *)
(* items up to stage m, which is free or becomes free, move up by one.       *)
Shifted(lane, n, l, A, m) ==
    /\ m # 0 => lane[m] = Bubble \/ (m = n /\ l \in A)
    /\ lane[n] = Bubble \/ l \in A => m = n
    /\ MoveLane(lane, l \in A) \in [1..n -> Nat]
    /\ \A i \in 1..n : MoveLane(lane, l \in A)[i] =
          IF i > m THEN lane[i] ELSE IF i = 1 THEN Bubble ELSE lane[i - 1]

LEMMA MoveLaneOf ==
    ASSUME NEW n \in Nat \ {0}, NEW lane \in [1..n -> Nat], NEW l, NEW A
    PROVE  \E m \in 0..n : Shifted(lane, n, l, A, m)
<1> DEFINE free == {i \in 1..n : lane[i] = Bubble} \cup (IF l \in A THEN {n} ELSE {})
           Behind == {n - i : i \in free}
<1>1. DOMAIN lane = 1..n /\ Len(lane) = n
  <2>1. lane \in Seq(Nat)
    BY SeqDef
  <2> QED  BY <2>1
<1>2. MoveLane(lane, l \in A) =
        [i \in 1..n |-> IF \A j \in free : j < i THEN lane[i]
                       ELSE IF i = 1 THEN Bubble ELSE lane[i - 1]]
  BY <1>1 DEF MoveLane
<1>2a. MoveLane(lane, l \in A) \in [1..n -> Nat]
  <2>1. \A i \in 1..n : i # 1 => i - 1 \in 1..n
    OBVIOUS
  <2> HIDE DEF free
  <2> QED  BY <1>2, <2>1 DEF Bubble
<1>f. \A i : i \in free <=> i \in 1..n /\ (lane[i] = Bubble \/ (i = n /\ l \in A))
  <2>1. CASE l \in A
    BY <2>1
  <2>2. CASE l \notin A
    BY <2>2
  <2> QED  BY <2>1, <2>2
<1> HIDE DEF free
<1>3. free \subseteq 1..n
  BY <1>f
<1>4. CASE free = {}
  <2>1. lane[n] # Bubble /\ l \notin A
    BY <1>4, <1>f
  <2>2. \A i \in 1..n : i > 0 /\ \A j \in free : j < i
    BY <1>4
  <2>3. \A i \in 1..n : MoveLane(lane, l \in A)[i] = lane[i]
    BY <1>2, <2>2
  <2>4. \A i \in 1..n : MoveLane(lane, l \in A)[i] =
           IF i > 0 THEN lane[i] ELSE IF i = 1 THEN Bubble ELSE lane[i - 1]
    BY <2>2, <2>3
  <2>5. Shifted(lane, n, l, A, 0)
    BY <1>2a, <2>1, <2>4 DEF Shifted
  <2> QED  BY <2>5
<1>5. /\ \A j \in free : lane[j] = Bubble \/ (j = n /\ l \in A)
      /\ lane[n] = Bubble \/ l \in A => n \in free
      /\ Behind \in SUBSET Nat /\ \A j \in free : n - j \in Behind
      /\ \A b \in Behind : \E m \in free : b = n - m
  <2>1. \A j \in free : lane[j] = Bubble \/ (j = n /\ l \in A)
    BY <1>f
  <2>2. lane[n] = Bubble \/ l \in A => n \in free
    BY <1>f
  <2> HIDE DEF free
  <2>3. Behind \in SUBSET Nat /\ \A j \in free : n - j \in Behind
    BY <1>3
  <2>4. \A b \in Behind : \E m \in free : b = n - m
    OBVIOUS
  <2> QED  BY <2>1, <2>2, <2>3, <2>4
<1> HIDE DEF free, Behind
<1>6. CASE free # {}
  <2>1. PICK b \in Behind : \A a \in Behind : b <= a
    <3>1. Behind # {}
      BY <1>5, <1>6
    <3> QED  BY <1>5, <3>1, FirstNat
  <2>2. PICK m \in free : b = n - m
    BY <1>5
  <2>3. m \in 1..n
    BY <1>3, <2>2
  <2>4. ASSUME NEW j \in free PROVE j <= m /\ j \in Nat
    <3>1. n - j \in Behind
      BY <1>5
    <3>2. n - m <= n - j
      BY <2>1, <2>2, <3>1
    <3>3. j \in 1..n
      BY <1>3
    <3> QED  BY <2>3, <3>2, <3>3
  <2>5. lane[m] = Bubble \/ (m = n /\ l \in A)
    BY <1>5, <2>2
  <2>6. lane[n] = Bubble \/ l \in A => m = n
    BY <1>5, <2>3, <2>4
  <2>7. ASSUME NEW i \in 1..n PROVE (\A j \in free : j < i) <=> i > m
    BY <2>2, <2>3, <2>4
  <2>8. \A i \in 1..n : MoveLane(lane, l \in A)[i] =
           IF i > m THEN lane[i] ELSE IF i = 1 THEN Bubble ELSE lane[i - 1]
    <3>1. SUFFICES ASSUME NEW i \in 1..n
                   PROVE  MoveLane(lane, l \in A)[i] =
                            IF i > m THEN lane[i]
                            ELSE IF i = 1 THEN Bubble ELSE lane[i - 1]
      OBVIOUS
    <3>2. MoveLane(lane, l \in A)[i] =
            IF \A j \in free : j < i THEN lane[i]
            ELSE IF i = 1 THEN Bubble ELSE lane[i - 1]
      BY <1>2
    <3>3. CASE i > m
      <4>1. \A j \in free : j < i
        BY <2>7, <3>3
      <4> QED  BY <3>2, <3>3, <4>1
    <3>4. CASE ~(i > m)
      <4>1. ~\A j \in free : j < i
        BY <2>7, <3>4
      <4> QED  BY <3>2, <3>4, <4>1
    <3> QED  BY <3>3, <3>4
  <2>9. m \in 0..n
    BY <2>3
  <2>10. Shifted(lane, n, l, A, m)
    BY <1>2a, <2>3, <2>5, <2>6, <2>8 DEF Shifted
  <2> QED  BY <2>9, <2>10
<1> QED  BY <1>4, <1>6

(* What has left the first l lanes, given what left the ones before. *)
OutAt(p, room, l, prev) ==
    IF l \in Leaving(p, room) THEN Append(prev, Last(p[l])) ELSE prev

(* The recursive function in PipeOut exists and is what its equations say. *)
LEMMA PipeOutRecursion ==
    ASSUME NEW p, NEW room, Len(p) \in Nat
    PROVE  \E f : /\ PipeOut(p, room) = f[Len(p)]
                  /\ f[0] = << >>
                  /\ \A l \in 1..Len(p) : f[l] = OutAt(p, room, l, f[l - 1])
<1> DEFINE Rec(f, n) == f = [l \in 0..n |->
                              IF l = 0 THEN << >>
                              ELSE IF l \in Leaving(p, room)
                                   THEN Append(f[l - 1], Last(p[l]))
                              ELSE f[l - 1]]
           G == {n \in Nat : \E f : Rec(f, n)}
<1>2. 0 \in G
  <2>1. Rec([l \in 0..0 |-> << >>], 0)
    OBVIOUS
  <2> QED  BY <2>1
<1>3. ASSUME NEW n \in 1..Len(p), n - 1 \in G PROVE n \in G
  <2>1. PICK f : Rec(f, n - 1)
    BY <1>3
  <2>2. n \in Nat /\ n # 0 /\ n - 1 \in 0..n-1
    OBVIOUS
  <2> DEFINE g == [l \in 0..n |->
                     IF l < n THEN f[l] ELSE OutAt(p, room, n, f[n - 1])]
  <2>3. /\ \A l \in 0..n-1 : g[l] = f[l]
        /\ g[n] = OutAt(p, room, n, f[n - 1])
    BY <2>2
  <2>4. \A l \in 0..n-1 : f[l] = IF l = 0 THEN << >> ELSE OutAt(p, room, l, f[l - 1])
    BY <2>1, Zenon DEF OutAt
  <2>5. ASSUME NEW l \in 0..n
        PROVE  g[l] = IF l = 0 THEN << >> ELSE OutAt(p, room, l, g[l - 1])
    <3> HIDE DEF g
    <3>1. CASE l = 0
      BY <2>2, <2>3, <2>4, <3>1
    <3>2. CASE l # 0 /\ l # n
      <4>1. l \in 0..n-1 /\ l - 1 \in 0..n-1
        BY <2>2, <3>2
      <4> QED  BY <2>3, <2>4, <3>2, <4>1, Zenon
    <3>3. CASE l = n
      BY <2>2, <2>3, <3>3, Zenon
    <3> QED  BY <3>1, <3>2, <3>3
  <2>6. Rec(g, n)
    BY <2>5, Zenon DEF OutAt
  <2> HIDE DEF g
  <2> QED  BY <2>2, <2>6
<1>4. \E f : Rec(f, Len(p))
  <2>1. Len(p) \in G
    <3> HIDE DEF G
    <3>1. \A l \in 0..Len(p) : l \in G
      BY <1>2, <1>3, UpTo
    <3> QED  BY <3>1
  <2> QED  BY <2>1
<1> DEFINE h == CHOOSE f : Rec(f, Len(p))
<1>5. Rec(h, Len(p))
  BY <1>4, Zenon
<1>6. PipeOut(p, room) = h[Len(p)]
  BY Zenon DEF PipeOut
<1> HIDE DEF h
<1>7. \A l \in 0..Len(p) : h[l] = IF l = 0 THEN << >> ELSE OutAt(p, room, l, h[l - 1])
  BY <1>5, Zenon DEF OutAt
<1>8. h[0] = << >> /\ \A l \in 1..Len(p) : h[l] = OutAt(p, room, l, h[l - 1])
  BY <1>7
<1> QED  BY <1>6, <1>8, Zenon

(* The last items of the lanes that give theirs away, each once. *)
LEMMA PipeOutOf ==
    ASSUME NEW w \in Nat \ {0}, NEW n \in Nat \ {0}, NEW p \in Pipes(w, n), NEW room
    PROVE  /\ IsSeq(PipeOut(p, room))
           /\ Elements(PipeOut(p, room)) = {p[l][n] : l \in Leaving(p, room)}
           /\ OnceInPipe(p) => Once(PipeOut(p, room))
           /\ \A l \in Leaving(p, room) : l \in 1..w /\ p[l][n] # Bubble
<1>1. /\ DOMAIN p = 1..w /\ Len(p) = w
      /\ \A l \in 1..w : Last(p[l]) = p[l][n]
  BY PipeShape
<1>2. \A l \in Leaving(p, room) : l \in 1..w /\ p[l][n] # Bubble
  BY <1>1 DEF Leaving
<1>3. PICK f : /\ PipeOut(p, room) = f[w] /\ f[0] = << >>
               /\ \A l \in 1..w : f[l] = OutAt(p, room, l, f[l - 1])
  BY <1>1, PipeOutRecursion
<1> DEFINE Gone(l) == {p[k][n] : k \in {x \in Leaving(p, room) : x <= l}}
           Right(l) == /\ IsSeq(f[l]) /\ Elements(f[l]) = Gone(l)
                       /\ OnceInPipe(p) => Once(f[l])
           T == {l \in Nat : Right(l)}
<1>4. 0 \in T
  <2>1. Gone(0) = {}
    BY <1>2
  <2> QED  BY <1>3, <2>1, EmptyOf
<1>5. ASSUME NEW l \in 1..w, l - 1 \in T PROVE l \in T
  <2>1. Right(l - 1) /\ l \in Nat /\ l - 1 \in Nat
    BY <1>5
  <2>2. f[l] = OutAt(p, room, l, f[l - 1])
    BY <1>3
  <2>3. CASE l \notin Leaving(p, room)
    <3>1. f[l] = f[l - 1]
      BY <2>2, <2>3 DEF OutAt
    <3>2. \A x \in Leaving(p, room) : x <= l <=> x <= l - 1
      BY <1>2, <2>3
    <3>3. Gone(l) = Gone(l - 1)
      BY <3>2
    <3> HIDE DEF Gone
    <3> QED  BY <2>1, <3>1, <3>3
  <2>4. CASE l \in Leaving(p, room)
    <3>1. f[l] = Append(f[l - 1], p[l][n])
      BY <1>1, <2>2, <2>4 DEF OutAt
    <3>2. \A x \in Leaving(p, room) : x <= l <=> (x <= l - 1 \/ x = l)
      BY <1>2, <2>4
    <3>3. Gone(l) = Gone(l - 1) \cup {p[l][n]}
      BY <2>4, <3>2
    <3>4. ASSUME OnceInPipe(p) PROVE p[l][n] \notin Gone(l - 1)
      <4>1. SUFFICES ASSUME NEW k \in Leaving(p, room), k <= l - 1, p[k][n] = p[l][n]
                     PROVE  FALSE
        OBVIOUS
      <4>2. k \in 1..w /\ k # l /\ p[k][n] # Bubble /\ n \in 1..n
        BY <1>2, <4>1
      <4> QED  BY <3>4, <4>1, <4>2, OnceMeans
    <3> HIDE DEF Gone
    <3> QED  BY <2>1, <3>1, <3>3, <3>4, AppendOf
  <2> QED  BY <2>3, <2>4
<1>6. \A l \in 0..w : l \in T
  <2> HIDE DEF T
  <2> QED  BY <1>4, <1>5, UpTo
<1>7. Right(w)
  BY <1>6
<1>8. Gone(w) = {p[l][n] : l \in Leaving(p, room)}
  <2>1. \A x \in Leaving(p, room) : x <= w
    BY <1>2
  <2> QED  BY <2>1
<1> HIDE DEF Gone
<1> QED  BY <1>2, <1>3, <1>7, <1>8

(* Tick: the items stay in the pipeline or leave it, none is doubled. *)
LEMMA PipeTickOf ==
    ASSUME NEW w \in Nat \ {0}, NEW n \in Nat \ {0}, NEW p \in Pipes(w, n), NEW room
    PROVE  /\ PipeTick(p, room) \in Pipes(w, n)
           /\ IsSeq(PipeOut(p, room))
           /\ PipeItems(p) = PipeItems(PipeTick(p, room)) \cup Elements(PipeOut(p, room))
           /\ OnceInPipe(p) =>
                /\ OnceInPipe(PipeTick(p, room)) /\ Once(PipeOut(p, room))
                /\ PipeItems(PipeTick(p, room)) \cap Elements(PipeOut(p, room)) = {}
<1> DEFINE A == Leaving(p, room)
           q == PipeTick(p, room)
           mm == [l \in 1..w |-> CHOOSE m \in 0..n : Shifted(p[l], n, l, A, m)]
<1>1. /\ DOMAIN p = 1..w /\ \A l \in 1..w : p[l] \in [1..n -> Nat]
      /\ \A x : x \in PipeItems(p) <=> x # Bubble /\ InStages(x, p, w, n)
  <2> HIDE DEF mm, q
  <2>1. \A l \in 1..w : p[l] \in [1..n -> Nat]
    BY DEF Pipes
  <2> QED  BY <2>1, PipeShape
<1>2. \A l \in 1..w : \E m \in 0..n : Shifted(p[l], n, l, A, m)
  <2> HIDE DEF mm, q, A
  <2> QED  BY <1>1, MoveLaneOf
<1>3. \A l \in 1..w : mm[l] \in 0..n /\ Shifted(p[l], n, l, A, mm[l])
  BY <1>2
<1>4. q = [l \in 1..w |-> MoveLane(p[l], l \in A)]
  BY <1>1 DEF PipeTick
<1> HIDE DEF mm, q
<1>5. q \in Pipes(w, n)
  <2>1. DOMAIN q = 1..w /\ q = [l \in 1..w |-> q[l]]
    BY <1>4
  <2>2. \A l \in 1..w : q[l] \in [1..n -> Nat]
    BY <1>3, <1>4 DEF Shifted
  <2>3. q \in [1..w -> [1..n -> Nat]]
    <3> DEFINE N == [1..n -> Nat]
    <3>1. \A l \in 1..w : q[l] \in N
      BY <2>2
    <3> HIDE DEF N
    <3>2. q \in [1..w -> N]
      BY <2>1, <3>1
    <3> QED  BY <3>2 DEF N
  <2> QED  BY <2>3 DEF Pipes
<1>6. \A x : x \in PipeItems(q) <=> x # Bubble /\ InStages(x, q, w, n)
  BY <1>5, PipeShape
<1>7. \A l \in 1..w, i \in 1..n :
         q[l][i] = IF i > mm[l] THEN p[l][i] ELSE IF i = 1 THEN Bubble ELSE p[l][i - 1]
  BY <1>3, <1>4 DEF Shifted
<1>8. /\ IsSeq(PipeOut(p, room))
      /\ Elements(PipeOut(p, room)) = {p[l][n] : l \in A}
      /\ OnceInPipe(p) => Once(PipeOut(p, room))
      /\ \A l \in A : l \in 1..w /\ p[l][n] # Bubble
  BY PipeOutOf
<1> DEFINE From(l, i, j) ==
             /\ j \in 1..n /\ p[l][j] = q[l][i]
             /\ (i > mm[l] /\ j = i) \/ (i <= mm[l] /\ j = i - 1)
<1>9. ASSUME NEW l \in 1..w, NEW i \in 1..n, q[l][i] # Bubble
      PROVE  \E j \in 1..n : From(l, i, j) /\ ~(l \in A /\ j = n)
  <2>1. mm[l] \in 0..n /\ (l \in A => mm[l] = n)
    BY <1>3 DEF Shifted
  <2>2. CASE i > mm[l]
    <3>1. From(l, i, i)
      BY <1>7, <2>1, <2>2
    <3> QED  BY <2>1, <2>2, <3>1
  <2>3. CASE ~(i > mm[l])
    <3>1. i # 1 /\ q[l][i] = p[l][i - 1]
      BY <1>7, <1>9, <2>1, <2>3
    <3>2. i - 1 \in 1..n /\ i <= mm[l] /\ i - 1 # n
      BY <2>1, <2>3, <3>1
    <3>3. From(l, i, i - 1)
      BY <3>1, <3>2
    <3> QED  BY <3>2, <3>3
  <2> QED  BY <2>2, <2>3
<1>10. ASSUME NEW l \in 1..w, NEW j \in 1..n, p[l][j] # Bubble, ~(l \in A /\ j = n)
       PROVE  \E i \in 1..n : q[l][i] = p[l][j]
  <2>1. /\ mm[l] \in 0..n
        /\ mm[l] # 0 => p[l][mm[l]] = Bubble \/ (mm[l] = n /\ l \in A)
    BY <1>3 DEF Shifted
  <2>2. CASE j > mm[l]
    BY <1>7, <2>1, <2>2
  <2>3. CASE ~(j > mm[l])
    <3>1. j # mm[l]
      BY <1>10, <2>1
    <3>2. j + 1 \in 1..n /\ ~(j + 1 > mm[l]) /\ j + 1 # 1 /\ (j + 1) - 1 = j
      BY <2>1, <2>3, <3>1
    <3>3. q[l][j + 1] = p[l][(j + 1) - 1]
      BY <1>7, <3>2
    <3> QED  BY <3>2, <3>3
  <2> QED  BY <2>2, <2>3
<1>11. PipeItems(p) = PipeItems(q) \cup Elements(PipeOut(p, room))
  <2>1. ASSUME NEW x \in PipeItems(q) PROVE x \in PipeItems(p)
    <3>1. PICK l \in 1..w, i \in 1..n : x = q[l][i] /\ x # Bubble
      BY <1>6, <2>1 DEF InStages
    <3>2. PICK j \in 1..n : From(l, i, j)
      BY <1>9, <3>1
    <3> QED  BY <1>1, <3>1, <3>2 DEF InStages
  <2>2. ASSUME NEW x \in Elements(PipeOut(p, room)) PROVE x \in PipeItems(p)
    <3>1. PICK l \in A : x = p[l][n]
      BY <1>8, <2>2
    <3>2. l \in 1..w /\ n \in 1..n /\ x # Bubble
      BY <1>8, <3>1
    <3> QED  BY <1>1, <3>1, <3>2 DEF InStages
  <2>3. ASSUME NEW x \in PipeItems(p)
        PROVE  x \in PipeItems(q) \cup Elements(PipeOut(p, room))
    <3>1. PICK l \in 1..w, j \in 1..n : x = p[l][j] /\ x # Bubble
      BY <1>1, <2>3 DEF InStages
    <3>2. CASE l \in A /\ j = n
      BY <1>8, <3>1, <3>2
    <3>3. CASE ~(l \in A /\ j = n)
      <4>1. PICK i \in 1..n : q[l][i] = x
        BY <1>10, <3>1, <3>3
      <4> QED  BY <1>6, <3>1, <4>1 DEF InStages
    <3> QED  BY <3>2, <3>3
  <2> QED  BY <2>1, <2>2, <2>3
<1>12. ASSUME OnceInPipe(p)
       PROVE  OnceInPipe(q) /\ PipeItems(q) \cap Elements(PipeOut(p, room)) = {}
  <2>1. \A l, k \in 1..w : \A i, j \in 1..n :
           p[l][i] = p[k][j] /\ p[l][i] # Bubble => l = k /\ i = j
    BY <1>12, OnceMeans
  <2>2. ASSUME NEW l \in 1..w, NEW k \in 1..w, NEW i \in 1..n, NEW j \in 1..n,
               q[l][i] = q[k][j], q[l][i] # Bubble
        PROVE  l = k /\ i = j
    <3>1. PICK a \in 1..n : From(l, i, a)
      BY <1>9, <2>2
    <3>2. PICK b \in 1..n : From(k, j, b)
      BY <1>9, <2>2
    <3>3. l = k /\ a = b
      BY <2>1, <2>2, <3>1, <3>2
    <3>4. mm[l] \in 0..n
      BY <1>3
    <3> QED  BY <3>1, <3>2, <3>3, <3>4
  <2>3. ASSUME NEW x \in PipeItems(q), x \in Elements(PipeOut(p, room)) PROVE FALSE
    <3>1. PICK l \in 1..w, i \in 1..n : x = q[l][i] /\ x # Bubble
      BY <1>6, <2>3 DEF InStages
    <3>2. PICK j \in 1..n : From(l, i, j) /\ ~(l \in A /\ j = n)
      BY <1>9, <3>1
    <3>3. PICK k \in A : x = p[k][n]
      BY <1>8, <2>3
    <3>4. k \in 1..w /\ n \in 1..n
      BY <1>8, <3>3
    <3>5. l = k /\ j = n
      BY <2>1, <3>1, <3>2, <3>3, <3>4
    <3> QED  BY <3>2, <3>3, <3>5
  <2> QED  BY <1>5, <2>2, <2>3, OnceMeans
<1> QED  BY <1>5, <1>8, <1>11, <1>12 DEF q

-----------------------------------------------------------------------------
(* A buffer, a pipeline and the buffer behind it. *)
IsLine(w, n, buf, pipe, post) == IsSeq(buf) /\ pipe \in Pipes(w, n) /\ IsSeq(post)

InLine(buf, pipe, post) == Elements(buf) \cup PipeItems(pipe) \cup Elements(post)

OnceInLine(buf, pipe, post) ==
    /\ Once(buf) /\ OnceInPipe(pipe) /\ Once(post)
    /\ Elements(buf) \cap PipeItems(pipe) = {}
    /\ Elements(buf) \cap Elements(post) = {}
    /\ PipeItems(pipe) \cap Elements(post) = {}

LEMMA LineEmpty ==
    ASSUME NEW w \in Nat \ {0}, NEW n \in Nat
    PROVE  /\ IsLine(w, n, << >>, EmptyPipe(w, n), << >>)
           /\ InLine(<< >>, EmptyPipe(w, n), << >>) = {}
           /\ OnceInLine(<< >>, EmptyPipe(w, n), << >>)
BY EmptyOf, EmptyPipeOf DEF IsLine, InLine, OnceInLine

LEMMA LineAppend ==
    ASSUME NEW w \in Nat \ {0}, NEW n \in Nat, NEW buf, NEW pipe, NEW post,
           IsLine(w, n, buf, pipe, post), OnceInLine(buf, pipe, post),
           NEW x, x \notin InLine(buf, pipe, post)
    PROVE  /\ IsLine(w, n, Append(buf, x), pipe, post)
           /\ InLine(Append(buf, x), pipe, post) = InLine(buf, pipe, post) \cup {x}
           /\ OnceInLine(Append(buf, x), pipe, post)
BY AppendOf DEF IsLine, InLine, OnceInLine

(* From the buffer into the pipeline, or past it where there is none. *)
LEMMA LineEnter ==
    ASSUME NEW w \in Nat \ {0}, NEW n \in Nat, NEW buf, NEW pipe, NEW post,
           IsLine(w, n, buf, pipe, post), OnceInLine(buf, pipe, post),
           buf # << >>, InLine(buf, pipe, post) \subseteq Nat \ {0}
    PROVE  /\ n # 0 /\ CanAccept(pipe) =>
                LET entered == Accept(pipe, Head(buf))
                IN  /\ IsLine(w, n, Tail(buf), entered, post)
                    /\ InLine(Tail(buf), entered, post) = InLine(buf, pipe, post)
                    /\ OnceInLine(Tail(buf), entered, post)
           /\ IsLine(w, n, Tail(buf), pipe, Append(post, Head(buf)))
           /\ InLine(Tail(buf), pipe, Append(post, Head(buf))) = InLine(buf, pipe, post)
           /\ OnceInLine(Tail(buf), pipe, Append(post, Head(buf)))
<1> DEFINE x == Head(buf)
<1>1. /\ IsSeq(Tail(buf)) /\ x \in Elements(buf) /\ Once(Tail(buf))
      /\ x \notin Elements(Tail(buf)) /\ Elements(Tail(buf)) = Elements(buf) \ {x}
  BY TailOf DEF IsLine, OnceInLine
<1>2. /\ pipe \in Pipes(w, n) /\ IsSeq(post) /\ IsSeq(buf)
      /\ x \notin PipeItems(pipe) /\ x \notin Elements(post) /\ x \in Nat \ {0}
  BY <1>1 DEF IsLine, OnceInLine, InLine
<1> HIDE DEF x
<1>3. ASSUME n # 0, CanAccept(pipe)
      PROVE  /\ IsLine(w, n, Tail(buf), Accept(pipe, x), post)
             /\ InLine(Tail(buf), Accept(pipe, x), post) = InLine(buf, pipe, post)
             /\ OnceInLine(Tail(buf), Accept(pipe, x), post)
  <2>1. /\ Accept(pipe, x) \in Pipes(w, n)
        /\ PipeItems(Accept(pipe, x)) = PipeItems(pipe) \cup {x}
        /\ OnceInPipe(Accept(pipe, x))
    BY <1>2, <1>3, AcceptOf DEF OnceInLine
  <2>2. InLine(Tail(buf), Accept(pipe, x), post) = InLine(buf, pipe, post)
    BY <1>1, <2>1 DEF InLine
  <2> QED  BY <1>1, <1>2, <2>1, <2>2 DEF IsLine, OnceInLine
<1>4. /\ IsSeq(Append(post, x)) /\ Elements(Append(post, x)) = Elements(post) \cup {x}
      /\ Once(Append(post, x))
  BY <1>2, AppendOf DEF OnceInLine
<1>5. InLine(Tail(buf), pipe, Append(post, x)) = InLine(buf, pipe, post)
  BY <1>1, <1>4 DEF InLine
<1>6. OnceInLine(Tail(buf), pipe, Append(post, x))
  BY <1>1, <1>2, <1>4 DEF OnceInLine
<1>7. IsLine(w, n, Tail(buf), pipe, Append(post, x))
  BY <1>1, <1>2, <1>4 DEF IsLine
<1> QED  BY <1>3, <1>5, <1>6, <1>7 DEF x

(* From the buffer straight to the one behind. *)
LEMMA LinePass ==
    ASSUME NEW w \in Nat \ {0}, NEW n \in Nat, NEW buf, NEW pipe, NEW post,
           IsLine(w, n, buf, pipe, post), OnceInLine(buf, pipe, post),
           buf # << >>, InLine(buf, pipe, post) \subseteq Nat \ {0}
    PROVE  /\ IsLine(w, n, Tail(buf), pipe, Append(post, Head(buf)))
           /\ InLine(Tail(buf), pipe, Append(post, Head(buf))) = InLine(buf, pipe, post)
           /\ OnceInLine(Tail(buf), pipe, Append(post, Head(buf)))
BY LineEnter

(* The pipeline ticks. *)
LEMMA LineTick ==
    ASSUME NEW w \in Nat \ {0}, NEW n \in Nat \ {0}, NEW buf, NEW pipe, NEW post, NEW room,
           IsLine(w, n, buf, pipe, post), OnceInLine(buf, pipe, post)
    PROVE  LET moved == PipeTick(pipe, room)
               out == post \o PipeOut(pipe, room)
           IN  /\ IsLine(w, n, buf, moved, out)
               /\ InLine(buf, moved, out) = InLine(buf, pipe, post)
               /\ OnceInLine(buf, moved, out)
<1> DEFINE moved == PipeTick(pipe, room)
           left == PipeOut(pipe, room)
<1>1. /\ moved \in Pipes(w, n) /\ IsSeq(left) /\ OnceInPipe(moved) /\ Once(left)
      /\ PipeItems(pipe) = PipeItems(moved) \cup Elements(left)
      /\ PipeItems(moved) \cap Elements(left) = {}
  BY PipeTickOf DEF IsLine, OnceInLine
<1> HIDE DEF moved, left
<1>2. /\ IsSeq(post \o left) /\ Elements(post \o left) = Elements(post) \cup Elements(left)
      /\ Once(post \o left)
  BY <1>1, ConcatOf DEF IsLine, OnceInLine
<1>3. IsLine(w, n, buf, moved, post \o left)
  BY <1>1, <1>2 DEF IsLine
<1>4. InLine(buf, moved, post \o left) = InLine(buf, pipe, post)
  BY <1>1, <1>2 DEF InLine
<1>5. OnceInLine(buf, moved, post \o left)
  BY <1>1, <1>2 DEF OnceInLine
<1> QED  BY <1>3, <1>4, <1>5 DEF moved, left

(* The first item behind the pipeline is taken. *)
LEMMA LineLeave ==
    ASSUME NEW w \in Nat \ {0}, NEW n \in Nat, NEW buf, NEW pipe, NEW post,
           IsLine(w, n, buf, pipe, post), OnceInLine(buf, pipe, post), post # << >>
    PROVE  /\ IsLine(w, n, buf, pipe, Tail(post))
           /\ Head(post) \in InLine(buf, pipe, post)
           /\ InLine(buf, pipe, Tail(post)) = InLine(buf, pipe, post) \ {Head(post)}
           /\ OnceInLine(buf, pipe, Tail(post))
<1>1. /\ IsSeq(Tail(post)) /\ Head(post) \in Elements(post) /\ Once(Tail(post))
      /\ Elements(Tail(post)) = Elements(post) \ {Head(post)}
  BY TailOf DEF IsLine, OnceInLine
<1> QED  BY <1>1 DEF IsLine, InLine, OnceInLine

-----------------------------------------------------------------------------
(* The blocks, the transactions that fill them and those that read them. *)
At(T, trans, resets, s) == {t \in T : trans[t].block = s /\ trans[t].resets = resets}

(* F fill and R read: each locked block has one that fills it, readCount     *)
(* counts those that read it, and no block has both.  A transaction that got *)
(* its block before the last reset does not count.                           *)
Excl(F, R, trans, resets, blocks) ==
    /\ IsFiniteSet(R)
    /\ \A t \in F \cup R : trans[t].resets <= resets
    /\ \A s \in Slots :
          /\ IF blocks[s].locked THEN \E t : At(F, trans, resets, s) = {t}
             ELSE At(F, trans, resets, s) = {}
          /\ Cardinality(At(R, trans, resets, s)) = blocks[s].readCount
          /\ blocks[s].locked => blocks[s].readCount = 0

LEMMA ExclSame ==
    ASSUME NEW F, NEW R, NEW trans, NEW resets, NEW blocks, NEW transX, NEW blocksX,
           Excl(F, R, trans, resets, blocks),
           \A t \in F \cup R : /\ transX[t].block = trans[t].block
                              /\ transX[t].resets = trans[t].resets,
           \A s \in Slots : /\ blocksX[s].locked = blocks[s].locked
                            /\ blocksX[s].readCount = blocks[s].readCount
    PROVE  Excl(F, R, transX, resets, blocksX)
<1>1. \A s : /\ At(F, transX, resets, s) = At(F, trans, resets, s)
             /\ At(R, transX, resets, s) = At(R, trans, resets, s)
  BY DEF At
<1> QED  BY <1>1 DEF Excl

(* A transaction starts to fill a block that is not in use. *)
FillStarts(F, R, trans, resets, blocks, transX, blocksX, t, s) ==
    /\ resets \in Nat /\ Excl(F, R, trans, resets, blocks)
    /\ t \notin F \cup R
    /\ s \in Slots => ~blocks[s].locked /\ blocks[s].readCount = 0
    /\ \A x \in F \cup R : transX[x].block = trans[x].block /\ transX[x].resets = trans[x].resets
    /\ transX[t].block = s /\ transX[t].resets = resets
    /\ \A x \in Slots \ {s} : /\ blocksX[x].locked = blocks[x].locked
                              /\ blocksX[x].readCount = blocks[x].readCount
    /\ s \in Slots => blocksX[s].locked /\ blocksX[s].readCount = 0

(* The block is then locked by it alone. *)
LEMMA ExclFill ==
    ASSUME NEW F, NEW R, NEW trans, NEW resets, NEW blocks, NEW transX, NEW blocksX, NEW t, NEW s,
           FillStarts(F, R, trans, resets, blocks, transX, blocksX, t, s)
    PROVE  Excl(F \cup {t}, R, transX, resets, blocksX)
<1> USE DEF FillStarts
<1>1. \A x : At(R, transX, resets, x) = At(R, trans, resets, x)
  BY DEF At
<1>2. \A x : x # s => At(F \cup {t}, transX, resets, x) = At(F, trans, resets, x)
  BY DEF At
<1>3. At(F \cup {t}, transX, resets, s) = At(F, trans, resets, s) \cup {t}
  BY DEF At
<1>4. s \in Slots => At(F \cup {t}, transX, resets, s) = {t}
  BY <1>3 DEF Excl
<1>5. IsFiniteSet(R) /\ \A x \in F \cup {t} \cup R : transX[x].resets <= resets
  BY DEF Excl
<1>6. ASSUME NEW x \in Slots
      PROVE  /\ IF blocksX[x].locked THEN \E y : At(F \cup {t}, transX, resets, x) = {y}
                ELSE At(F \cup {t}, transX, resets, x) = {}
             /\ Cardinality(At(R, transX, resets, x)) = blocksX[x].readCount
             /\ blocksX[x].locked => blocksX[x].readCount = 0
  <2>1. CASE x = s
    <3>1. blocksX[x].locked /\ blocksX[x].readCount = 0
      BY <2>1
    <3>2. At(F \cup {t}, transX, resets, x) = {t}
      BY <1>4, <2>1
    <3>3. Cardinality(At(R, transX, resets, x)) = 0
      BY <1>1, <2>1 DEF Excl
    <3> QED  BY <3>1, <3>2, <3>3
  <2>2. CASE x # s
    <3>1. /\ blocksX[x].locked = blocks[x].locked
          /\ blocksX[x].readCount = blocks[x].readCount
      BY <2>2
    <3>2. /\ At(F \cup {t}, transX, resets, x) = At(F, trans, resets, x)
          /\ At(R, transX, resets, x) = At(R, trans, resets, x)
      BY <1>1, <1>2, <2>2
    <3> QED  BY <3>1, <3>2 DEF Excl
  <2> QED  BY <2>1, <2>2
<1> QED  BY <1>5, <1>6 DEF Excl

(* It is done and unlocks the block, unless the blocks were reset. *)
LEMMA ExclFilled ==
    ASSUME NEW F, NEW R, NEW trans, NEW resets \in Nat, NEW blocks, NEW blocksX,
           Excl(F, R, trans, resets, blocks), NEW t \in F, t \notin R,
           \A x \in Slots :
              IF x = trans[t].block /\ trans[t].resets = resets
              THEN ~blocksX[x].locked /\ blocksX[x].readCount = blocks[x].readCount
              ELSE /\ blocksX[x].locked = blocks[x].locked
                   /\ blocksX[x].readCount = blocks[x].readCount
    PROVE  Excl(F \ {t}, R, trans, resets, blocksX)
<1>1. \A x : At(F \ {t}, trans, resets, x) = At(F, trans, resets, x) \ {t}
  BY DEF At
<1>2. \A x : t \in At(F, trans, resets, x) <=> x = trans[t].block /\ trans[t].resets = resets
  BY DEF At
<1>3. ASSUME NEW x \in Slots
      PROVE  /\ IF blocksX[x].locked THEN \E y : At(F \ {t}, trans, resets, x) = {y}
                ELSE At(F \ {t}, trans, resets, x) = {}
             /\ Cardinality(At(R, trans, resets, x)) = blocksX[x].readCount
             /\ blocksX[x].locked => blocksX[x].readCount = 0
  <2>1. CASE x = trans[t].block /\ trans[t].resets = resets
    <3>1. t \in At(F, trans, resets, x)
      BY <1>2, <2>1
    <3>2. At(F, trans, resets, x) = {t}
      BY <3>1 DEF Excl
    <3> QED  BY <1>1, <2>1, <3>2 DEF Excl
  <2>2. CASE ~(x = trans[t].block /\ trans[t].resets = resets)
    <3>1. At(F \ {t}, trans, resets, x) = At(F, trans, resets, x)
      BY <1>1, <1>2, <2>2
    <3> QED  BY <2>2, <3>1 DEF Excl
  <2> QED  BY <2>1, <2>2
<1> QED  BY <1>3 DEF Excl

(* A transaction starts to read a block that is not being filled. *)
ReadStarts(F, R, trans, resets, blocks, transX, blocksX, t, s) ==
    /\ resets \in Nat /\ Excl(F, R, trans, resets, blocks)
    /\ t \notin F \cup R
    /\ s \in Slots => ~blocks[s].locked
    /\ \A x \in F \cup R : transX[x].block = trans[x].block /\ transX[x].resets = trans[x].resets
    /\ transX[t].block = s /\ transX[t].resets = resets
    /\ \A x \in Slots : blocksX[x].locked = blocks[x].locked
    /\ \A x \in Slots \ {s} : blocksX[x].readCount = blocks[x].readCount
    /\ s \in Slots => blocksX[s].readCount = blocks[s].readCount + 1

(* It then counts in readCount. *)
LEMMA ExclRead ==
    ASSUME NEW F, NEW R, NEW trans, NEW resets, NEW blocks, NEW transX, NEW blocksX, NEW t, NEW s,
           ReadStarts(F, R, trans, resets, blocks, transX, blocksX, t, s)
    PROVE  Excl(F, R \cup {t}, transX, resets, blocksX)
<1> USE DEF ReadStarts
<1>1. \A x : At(F, transX, resets, x) = At(F, trans, resets, x)
  BY DEF At
<1>2. \A x : x # s => At(R \cup {t}, transX, resets, x) = At(R, trans, resets, x)
  BY DEF At
<1>3. At(R \cup {t}, transX, resets, s) = At(R, trans, resets, s) \cup {t}
  BY DEF At
<1>4. IsFiniteSet(R)
  BY DEF Excl
<1>5. IsFiniteSet(R \cup {t}) /\ IsFiniteSet(At(R, trans, resets, s))
  <2>1. At(R, trans, resets, s) \subseteq R
    BY DEF At
  <2> QED  BY <1>4, <2>1, FS_AddElement, FS_Subset
<1>6. Cardinality(At(R \cup {t}, transX, resets, s)) = Cardinality(At(R, trans, resets, s)) + 1
  <2>1. t \notin At(R, trans, resets, s)
    BY DEF At
  <2> QED  BY <1>3, <1>5, <2>1, FS_AddElement
<1>7. \A x \in F \cup (R \cup {t}) : transX[x].resets <= resets
  BY DEF Excl
<1>8. ASSUME NEW x \in Slots
      PROVE  /\ IF blocksX[x].locked THEN \E y : At(F, transX, resets, x) = {y}
                ELSE At(F, transX, resets, x) = {}
             /\ Cardinality(At(R \cup {t}, transX, resets, x)) = blocksX[x].readCount
             /\ blocksX[x].locked => blocksX[x].readCount = 0
  <2>1. CASE x = s
    BY <1>1, <1>6, <2>1 DEF Excl
  <2>2. CASE x # s
    BY <1>1, <1>2, <2>2 DEF Excl
  <2> QED  BY <2>1, <2>2
<1> QED  BY <1>5, <1>7, <1>8 DEF Excl

(* It is done and counts itself out, unless the blocks were reset. *)
LEMMA ExclReadDone ==
    ASSUME NEW F, NEW R, NEW trans, NEW resets \in Nat, NEW blocks, NEW blocksX,
           Excl(F, R, trans, resets, blocks), NEW t \in R,
           \A x \in Slots : blocksX[x].locked = blocks[x].locked,
           \A x \in Slots :
              blocksX[x].readCount = IF x = trans[t].block /\ trans[t].resets = resets
                                     THEN blocks[x].readCount - 1 ELSE blocks[x].readCount
    PROVE  Excl(F, R \ {t}, trans, resets, blocksX)
<1>1. \A x : At(R \ {t}, trans, resets, x) = At(R, trans, resets, x) \ {t}
  BY DEF At
<1>2. \A x : t \in At(R, trans, resets, x) <=> x = trans[t].block /\ trans[t].resets = resets
  BY DEF At
<1>3. IsFiniteSet(R) /\ IsFiniteSet(R \ {t})
  BY FS_RemoveElement DEF Excl
<1>4. ASSUME NEW x \in Slots
      PROVE  /\ Cardinality(At(R \ {t}, trans, resets, x)) = blocksX[x].readCount
             /\ blocksX[x].locked => blocksX[x].readCount = 0
  <2>1. /\ IsFiniteSet(At(R, trans, resets, x))
        /\ Cardinality(At(R, trans, resets, x)) = blocks[x].readCount
    <3>1. At(R, trans, resets, x) \subseteq R
      BY DEF At
    <3> QED  BY <1>3, <3>1, FS_Subset DEF Excl
  <2>2. CASE x = trans[t].block /\ trans[t].resets = resets
    <3>1. t \in At(R, trans, resets, x)
      BY <1>2, <2>2
    <3>6. Cardinality(At(R, trans, resets, x)) # 0
      BY <2>1, <3>1, FS_EmptySet
    <3>7. Cardinality(At(R, trans, resets, x) \ {t}) = Cardinality(At(R, trans, resets, x)) - 1
      BY <2>1, <3>1, FS_RemoveElement
    <3>2. /\ Cardinality(At(R, trans, resets, x) \ {t}) = blocks[x].readCount - 1
          /\ blocks[x].readCount # 0
      BY <2>1, <3>6, <3>7
    <3>3. ~blocks[x].locked
      BY <3>2 DEF Excl
    <3>4. blocksX[x].readCount = blocks[x].readCount - 1 /\ ~blocksX[x].locked
      BY <2>2, <3>3
    <3>5. At(R \ {t}, trans, resets, x) = At(R, trans, resets, x) \ {t}
      BY <1>1
    <3>8. Cardinality(At(R \ {t}, trans, resets, x)) = blocksX[x].readCount
      BY <3>2, <3>4, <3>5
    <3> QED  BY <3>4, <3>8
  <2>3. CASE ~(x = trans[t].block /\ trans[t].resets = resets)
    <3>1. At(R \ {t}, trans, resets, x) = At(R, trans, resets, x)
      BY <1>1, <1>2, <2>3
    <3> QED  BY <2>3, <3>1 DEF Excl
  <2> QED  BY <2>2, <2>3
<1>5. \A x \in F \cup (R \ {t}) : trans[x].resets <= resets
  BY DEF Excl
<1> QED  BY <1>3, <1>4, <1>5 DEF Excl

(* Directory.Reset: nobody fills or reads the new blocks. *)
LEMMA ExclReset ==
    ASSUME NEW F, NEW R, NEW trans, NEW resets \in Nat, NEW blocks, NEW blocksX,
           Excl(F, R, trans, resets, blocks),
           \A t \in F \cup R : trans[t].resets \in Nat,
           \A s \in Slots : ~blocksX[s].locked /\ blocksX[s].readCount = 0,
           NEW G \in SUBSET F, NEW Q \in SUBSET R
    PROVE  Excl(G, Q, trans, resets + 1, blocksX)
<1>1. \A t \in G \cup Q : trans[t].resets <= resets + 1 /\ trans[t].resets # resets + 1
  BY DEF Excl
<1>2. \A s : At(G, trans, resets + 1, s) = {} /\ At(Q, trans, resets + 1, s) = {}
  BY <1>1 DEF At
<1>3. IsFiniteSet(Q)
  BY FS_Subset DEF Excl
<1> QED  BY <1>1, <1>2, <1>3, FS_EmptySet DEF Excl

-----------------------------------------------------------------------------
(* The inductive invariant *)

CacheFields == {"panic", "progress", "isPaused", "flushes", "topPort", "bottomPort",
    "ctrlPort", "toTop", "toBottom", "transactions", "toCoalesce", "postCoalesce",
    "group", "done", "data", "dirBuf", "dirPost", "dirPipe", "bankBuf", "bankPost",
    "bankPipe", "mshr", "requests", "trans", "blocks", "lru", "storage", "resets",
    "currFlushReq", "dropped"}
TransFields == {"action", "block", "resets", "data", "fetchAndWrite", "wroteBottom"}
BlockFields == {"tag", "pid", "valid", "locked", "readCount"}

(* The fields of the cache, of its transactions and of its blocks; queues are *)
(* lists and pipelines have their widths.                                     *)
Typed(c) ==
    /\ DOMAIN c = CacheFields
    /\ IsSeq(c.topPort) /\ IsSeq(c.toCoalesce) /\ IsSeq(c.toBottom) /\ IsSeq(c.bottomPort)
    /\ IsLine(NumReqPerCycle, DirLatency[policy], c.dirBuf, c.dirPipe, c.dirPost)
    /\ IsLine(NumReqPerCycle, BankLatency, c.bankBuf, c.bankPipe, c.bankPost)
    /\ c.resets \in Nat
    /\ DOMAIN c.trans = DOMAIN script
    /\ \A t \in DOMAIN script : /\ DOMAIN c.trans[t] = TransFields
                               /\ c.trans[t].resets \in Nat
    /\ DOMAIN c.blocks = Slots
    /\ \A s \in Slots : DOMAIN c.blocks[s] = BlockFields

(* The transactions in the stage of the directory and in that of the bank. *)
InDirectory(c) == InLine(c.dirBuf, c.dirPipe, c.dirPost)
BankOf(c) == InLine(c.bankBuf, c.bankPipe, c.bankPost)

(* No queue holds a transaction twice. *)
OnceEach(c) ==
    /\ Once(c.topPort)
    /\ OnceInLine(c.dirBuf, c.dirPipe, c.dirPost)
    /\ OnceInLine(c.bankBuf, c.bankPipe, c.bankPost)

(* The transactions whose fetch is on its way down, with the memory or on its *)
(* way up.                                                                    *)
Asked(q) == {m.trans : m \in {x \in Elements(q) : x.op # "write"}}
Ready(q) == {m.to : m \in {x \in Elements(q) : x.op # "write"}}
Fetched(c) == Asked(c.toBottom) \cup Asked(below) \cup Ready(c.bottomPort)

(* Transactions at the port, coalesced, in the directory, in the bank, in the *)
(* MSHR, past the coalescer and being fetched: see above.                     *)
Apart(top, coal, D, B, M, P, Fe) ==
    /\ top \cup coal \cup D \cup B \cup M \cup P \cup Fe \subseteq 1..sent
    /\ (top \cup coal) \cap (D \cup B \cup M \cup P \cup Fe) = {}
    /\ top \cap coal = {}
    /\ D \cap (M \cup B) = {} /\ M \cap B = {}
    /\ Fe \cap P \subseteq M
    /\ \A d, e \in M : Line(d) = Line(e) => d = e

Located(c) ==
    Apart(Elements(c.topPort), Elements(c.toCoalesce), InDirectory(c), BankOf(c),
          c.mshr, c.postCoalesce, Fetched(c))

(* A transaction in the MSHR fills its block from the moment it asks for the   *)
(* line; one in the bank fills or reads it according to its action.            *)
Fillers(c) == c.mshr \cup {t \in BankOf(c) : c.trans[t].action # "readHit"}
BankReaders(c) == {t \in BankOf(c) : c.trans[t].action = "readHit"}

Exclusive(c) ==
    /\ \A t \in BankOf(c) : c.trans[t].action \in {"readHit", "write", "writeFetched"}
    /\ Excl(Fillers(c), BankReaders(c), c.trans, c.resets, c.blocks)

Good(c) == Typed(c) /\ OnceEach(c) /\ Located(c) /\ Exclusive(c)

(* What a function of a stage leaves alone. *)
SamePorts(c, d) ==
    /\ d.topPort = c.topPort /\ d.toCoalesce = c.toCoalesce
    /\ d.toBottom = c.toBottom /\ d.bottomPort = c.bottomPort
SameDir(c, d) == d.dirBuf = c.dirBuf /\ d.dirPipe = c.dirPipe /\ d.dirPost = c.dirPost
SameBank(c, d) == d.bankBuf = c.bankBuf /\ d.bankPipe = c.bankPipe /\ d.bankPost = c.bankPost
SameSets(c, d) == d.mshr = c.mshr /\ d.postCoalesce = c.postCoalesce
SameBlocks(c, d) == d.trans = c.trans /\ d.resets = c.resets /\ d.blocks = c.blocks

(* Good speaks of these fields only. *)
LEMMA Frame ==
    ASSUME NEW c, NEW d, Good(c), DOMAIN d = CacheFields, SamePorts(c, d), SameDir(c, d),
           SameBank(c, d), SameSets(c, d), SameBlocks(c, d)
    PROVE  Good(d)
BY DEF Good, Typed, OnceEach, Located, Exclusive, InDirectory, BankOf, Fetched,
       Fillers, BankReaders, SamePorts, SameDir, SameBank, SameSets, SameBlocks

-----------------------------------------------------------------------------
(* The stages in front of the directory and the pipelines *)

LEMMA RespondStageGood == ASSUME NEW c, Good(c) PROVE Good(RespondStage(c))
<1> DEFINE d == RespondStage(c)
<1>1. DOMAIN c = CacheFields
  BY DEF Good, Typed
<1>2. /\ DOMAIN d = CacheFields /\ SamePorts(c, d) /\ SameDir(c, d)
      /\ SameBank(c, d) /\ SameSets(c, d) /\ SameBlocks(c, d)
  BY <1>1 DEF RespondStage, CacheFields, SamePorts, SameDir, SameBank, SameSets, SameBlocks
<1> HIDE DEF d
<1> QED  BY <1>2, Frame DEF d

LEMMA PanicGood == ASSUME NEW c, Good(c), NEW why PROVE Good(Panic(c, why))
<1> DEFINE d == Panic(c, why)
<1>1. DOMAIN c = CacheFields
  BY DEF Good, Typed
<1>2. /\ DOMAIN d = CacheFields /\ SamePorts(c, d) /\ SameDir(c, d)
      /\ SameBank(c, d) /\ SameSets(c, d) /\ SameBlocks(c, d)
  BY <1>1 DEF Panic, CacheFields, SamePorts, SameDir, SameBank, SameSets, SameBlocks
<1> HIDE DEF d
<1> QED  BY <1>2, Frame DEF d

LEMMA Widths == NumReqPerCycle \in Nat \ {0} /\ BankLatency \in Nat \ {0}
BY L1Assumption

(* Transactions move on in the bank, or in the directory. *)
LEMMA BankMoved ==
    ASSUME NEW c, NEW d, Good(c), DOMAIN d = CacheFields, SamePorts(c, d), SameDir(c, d),
           SameSets(c, d), SameBlocks(c, d), BankOf(d) = BankOf(c),
           IsLine(NumReqPerCycle, BankLatency, d.bankBuf, d.bankPipe, d.bankPost),
           OnceInLine(d.bankBuf, d.bankPipe, d.bankPost)
    PROVE  Good(d)
BY DEF Good, Typed, OnceEach, Located, Exclusive, InDirectory, Fetched,
       Fillers, BankReaders, SamePorts, SameDir, SameSets, SameBlocks

LEMMA DirMoved ==
    ASSUME NEW c, NEW d, Good(c), DOMAIN d = CacheFields, SamePorts(c, d), SameBank(c, d),
           SameSets(c, d), SameBlocks(c, d), InDirectory(d) = InDirectory(c),
           IsLine(NumReqPerCycle, DirLatency[policy], d.dirBuf, d.dirPipe, d.dirPost),
           OnceInLine(d.dirBuf, d.dirPipe, d.dirPost)
    PROVE  Good(d)
BY DEF Good, Typed, OnceEach, Located, Exclusive, BankOf, Fetched,
       Fillers, BankReaders, SamePorts, SameBank, SameSets, SameBlocks

LEMMA BankPipelineGood == ASSUME NEW c, Good(c) PROVE Good(BankPipeline(c))
<1> DEFINE room == NumReqPerCycle - Len(c.bankPost)
           d == BankPipeline(c)
<1>1. DOMAIN c = CacheFields
  BY DEF Good, Typed
<1>2. /\ DOMAIN d = CacheFields /\ SamePorts(c, d) /\ SameDir(c, d)
      /\ SameSets(c, d) /\ SameBlocks(c, d)
      /\ d.bankBuf = c.bankBuf /\ d.bankPipe = PipeTick(c.bankPipe, room)
      /\ d.bankPost = c.bankPost \o PipeOut(c.bankPipe, room)
  BY <1>1 DEF BankPipeline, CacheFields, SamePorts, SameDir, SameSets, SameBlocks
<1> HIDE DEF d, room
<1>3. /\ IsLine(NumReqPerCycle, BankLatency, c.bankBuf, c.bankPipe, c.bankPost)
      /\ OnceInLine(c.bankBuf, c.bankPipe, c.bankPost)
  BY DEF Good, Typed, OnceEach
<1>4. /\ IsLine(NumReqPerCycle, BankLatency, d.bankBuf, d.bankPipe, d.bankPost)
      /\ OnceInLine(d.bankBuf, d.bankPipe, d.bankPost) /\ BankOf(d) = BankOf(c)
  BY <1>2, <1>3, LineTick, Widths DEF BankOf
<1> QED  BY <1>2, <1>4, BankMoved DEF d

(* Transactions are named by requests, which are not Bubble. *)
LEMMA NamesPositive ==
    ASSUME NEW c, Good(c)
    PROVE  InDirectory(c) \subseteq Nat \ {0} /\ BankOf(c) \subseteq Nat \ {0}
<1>1. InDirectory(c) \cup BankOf(c) \subseteq 1..sent
  BY DEF Good, Located, Apart
<1>2. 1..sent \subseteq Nat \ {0}
  OBVIOUS
<1> QED  BY <1>1, <1>2

LEMMA ExtractFromBufGood == ASSUME NEW c, Good(c) PROVE Good(ExtractFromBuf(c))
<1> DEFINE d == ExtractFromBuf(c)
<1>1. DOMAIN c = CacheFields
  BY DEF Good, Typed
<1>2. CASE c.bankBuf = << >> \/ ~CanAccept(c.bankPipe)
  BY <1>2 DEF ExtractFromBuf
<1>3. CASE c.bankBuf # << >> /\ CanAccept(c.bankPipe)
  <2>1. /\ DOMAIN d = CacheFields /\ SamePorts(c, d) /\ SameDir(c, d)
        /\ SameSets(c, d) /\ SameBlocks(c, d)
        /\ d.bankBuf = Tail(c.bankBuf) /\ d.bankPipe = Accept(c.bankPipe, Head(c.bankBuf))
        /\ d.bankPost = c.bankPost
    BY <1>1, <1>3 DEF ExtractFromBuf, CacheFields, SamePorts, SameDir, SameSets, SameBlocks
  <2> HIDE DEF d
  <2>2. /\ IsLine(NumReqPerCycle, BankLatency, c.bankBuf, c.bankPipe, c.bankPost)
        /\ OnceInLine(c.bankBuf, c.bankPipe, c.bankPost)
        /\ InLine(c.bankBuf, c.bankPipe, c.bankPost) \subseteq Nat \ {0}
    BY NamesPositive DEF Good, Typed, OnceEach, BankOf
  <2>3. /\ IsLine(NumReqPerCycle, BankLatency, d.bankBuf, d.bankPipe, d.bankPost)
        /\ OnceInLine(d.bankBuf, d.bankPipe, d.bankPost) /\ BankOf(d) = BankOf(c)
    BY <1>3, <2>1, <2>2, LineEnter, Widths DEF BankOf
  <2> QED  BY <2>1, <2>3, BankMoved DEF d
<1> QED  BY <1>2, <1>3

LEMMA EnterDirPipelineGood ==
    ASSUME policy \in Policies, NEW c, Good(c) PROVE Good(EnterDirPipeline(c))
<1> DEFINE d == EnterDirPipeline(c)
           popped == [c EXCEPT !.dirBuf = Tail(@), !.progress = TRUE]
           n == DirLatency[policy]
<1>1. DOMAIN c = CacheFields /\ n \in Nat
  BY L1Assumption DEF Good, Typed
<1>2. /\ IsLine(NumReqPerCycle, n, c.dirBuf, c.dirPipe, c.dirPost)
      /\ OnceInLine(c.dirBuf, c.dirPipe, c.dirPost)
      /\ InLine(c.dirBuf, c.dirPipe, c.dirPost) \subseteq Nat \ {0}
  BY NamesPositive DEF Good, Typed, OnceEach, InDirectory
<1>3. CASE d = c
  BY <1>3
<1>4. CASE /\ c.dirBuf # << >> /\ n = 0
           /\ d = [popped EXCEPT !.dirPost = Append(@, Head(c.dirBuf))]
  <2>1. /\ DOMAIN d = CacheFields /\ SamePorts(c, d) /\ SameBank(c, d)
        /\ SameSets(c, d) /\ SameBlocks(c, d)
        /\ d.dirBuf = Tail(c.dirBuf) /\ d.dirPipe = c.dirPipe
        /\ d.dirPost = Append(c.dirPost, Head(c.dirBuf))
    <3> HIDE DEF d
    <3> QED  BY <1>1, <1>4 DEF CacheFields, SamePorts, SameBank, SameSets, SameBlocks
  <2> HIDE DEF d, n
  <2>2. /\ IsLine(NumReqPerCycle, n, d.dirBuf, d.dirPipe, d.dirPost)
        /\ OnceInLine(d.dirBuf, d.dirPipe, d.dirPost) /\ InDirectory(d) = InDirectory(c)
    BY <1>1, <1>2, <1>4, <2>1, LinePass, Widths DEF InDirectory
  <2> QED  BY <2>1, <2>2, DirMoved DEF d, n
<1>5. CASE /\ c.dirBuf # << >> /\ n # 0 /\ CanAccept(c.dirPipe)
           /\ d = [popped EXCEPT !.dirPipe = Accept(@, Head(c.dirBuf))]
  <2>1. /\ DOMAIN d = CacheFields /\ SamePorts(c, d) /\ SameBank(c, d)
        /\ SameSets(c, d) /\ SameBlocks(c, d)
        /\ d.dirBuf = Tail(c.dirBuf) /\ d.dirPost = c.dirPost
        /\ d.dirPipe = Accept(c.dirPipe, Head(c.dirBuf))
    <3> HIDE DEF d
    <3> QED  BY <1>1, <1>5 DEF CacheFields, SamePorts, SameBank, SameSets, SameBlocks
  <2> HIDE DEF d, n
  <2>2. /\ IsLine(NumReqPerCycle, n, d.dirBuf, d.dirPipe, d.dirPost)
        /\ OnceInLine(d.dirBuf, d.dirPipe, d.dirPost) /\ InDirectory(d) = InDirectory(c)
    BY <1>1, <1>2, <1>5, <2>1, LineEnter, Widths DEF InDirectory
  <2> QED  BY <2>1, <2>2, DirMoved DEF d, n
<1> QED  BY <1>3, <1>4, <1>5 DEF EnterDirPipeline

LEMMA DirPipelineGood ==
    ASSUME policy \in Policies, NEW c, Good(c) PROVE Good(DirPipeline(c))
<1> DEFINE d == DirPipeline(c)
           n == DirLatency[policy]
           room == NumReqPerCycle - Len(c.dirPost)
<1>1. DOMAIN c = CacheFields /\ n \in Nat
  BY L1Assumption DEF Good, Typed
<1>2. CASE n = 0
  BY <1>2 DEF DirPipeline
<1>3. CASE n # 0
  <2>1. /\ DOMAIN d = CacheFields /\ SamePorts(c, d) /\ SameBank(c, d)
        /\ SameSets(c, d) /\ SameBlocks(c, d)
        /\ d.dirBuf = c.dirBuf /\ d.dirPipe = PipeTick(c.dirPipe, room)
        /\ d.dirPost = c.dirPost \o PipeOut(c.dirPipe, room)
    BY <1>1, <1>3 DEF DirPipeline, CacheFields, SamePorts, SameBank, SameSets, SameBlocks
  <2> HIDE DEF d, room, n
  <2>2. /\ IsLine(NumReqPerCycle, n, c.dirBuf, c.dirPipe, c.dirPost)
        /\ OnceInLine(c.dirBuf, c.dirPipe, c.dirPost)
    BY DEF Good, Typed, OnceEach, n
  <2>3. /\ IsLine(NumReqPerCycle, n, d.dirBuf, d.dirPipe, d.dirPost)
        /\ OnceInLine(d.dirBuf, d.dirPipe, d.dirPost) /\ InDirectory(d) = InDirectory(c)
    BY <1>1, <1>3, <2>1, <2>2, LineTick, Widths DEF InDirectory
  <2> QED  BY <2>1, <2>3, DirMoved DEF d, n
<1> QED  BY <1>2, <1>3

(* An answer from below is taken: transactions stop to wait. *)
LEMMA FewerWait ==
    ASSUME NEW c, NEW d, Good(c), DOMAIN d = CacheFields,
           d.topPort = c.topPort, d.toCoalesce = c.toCoalesce, d.toBottom = c.toBottom,
           IsSeq(d.bottomPort), Ready(d.bottomPort) \subseteq Ready(c.bottomPort),
           SameDir(c, d), SameBank(c, d), SameBlocks(c, d),
           d.mshr = c.mshr, d.postCoalesce \subseteq c.postCoalesce
    PROVE  Good(d)
<1>1. Typed(d) /\ OnceEach(d) /\ Exclusive(d)
  BY DEF Good, Typed, OnceEach, Exclusive, BankOf, Fillers, BankReaders,
         SameDir, SameBank, SameBlocks
<1>2. InDirectory(d) = InDirectory(c) /\ BankOf(d) = BankOf(c) /\ Fetched(d) \subseteq Fetched(c)
  BY DEF InDirectory, BankOf, Fetched, SameDir, SameBank
<1>3. Located(d)
  BY <1>2 DEF Good, Located, Apart
<1> QED  BY <1>1, <1>3 DEF Good

LEMMA ReadyOfTail ==
    ASSUME NEW q, IsSeq(q), q # << >>
    PROVE  /\ Ready(Tail(q)) \subseteq Ready(q)
           /\ Head(q).op # "write" => Head(q).to \in Ready(q)
<1>1. Elements(q) = {Head(q)} \cup Elements(Tail(q))
  BY TailOf
<1> QED  BY <1>1 DEF Ready

(* Taking the answer at the port. *)
LEMMA RetrievedIs ==
    ASSUME NEW c, Good(c), c.bottomPort # << >>, NEW P, P \subseteq c.postCoalesce,
           NEW d, DOMAIN d = CacheFields, d.bottomPort = Tail(c.bottomPort),
           d.topPort = c.topPort, d.toCoalesce = c.toCoalesce, d.toBottom = c.toBottom,
           SameDir(c, d), SameBank(c, d), SameBlocks(c, d),
           d.mshr = c.mshr, d.postCoalesce = P
    PROVE  Good(d)
<1>1. IsSeq(c.bottomPort)
  BY DEF Good, Typed
<1>2. IsSeq(d.bottomPort) /\ Ready(d.bottomPort) \subseteq Ready(c.bottomPort)
  BY <1>1, TailOf, ReadyOfTail
<1> QED  BY <1>2, FewerWait

LEMMA ProcessDoneRspGood ==
    ASSUME NEW c, Good(c), c.bottomPort # << >>, NEW t
    PROVE  Good(ProcessDoneRsp(c, t)) /\ Good(Retrieved(c))
<1> DEFINE d == ProcessDoneRsp(c, t)
           r == Retrieved(c)
<1>1. DOMAIN c = CacheFields
  BY DEF Good, Typed
<1>2. /\ DOMAIN r = CacheFields /\ r.bottomPort = Tail(c.bottomPort)
      /\ r.topPort = c.topPort /\ r.toCoalesce = c.toCoalesce /\ r.toBottom = c.toBottom
      /\ SameDir(c, r) /\ SameBank(c, r) /\ SameBlocks(c, r)
      /\ r.mshr = c.mshr /\ r.postCoalesce = c.postCoalesce
      /\ r.data = c.data /\ r.done = c.done
  BY <1>1 DEF Retrieved, CacheFields, SameDir, SameBank, SameBlocks
<1> HIDE DEF r
<1>3. Good(r)
  BY <1>2, RetrievedIs
<1>4. CASE d = r
  BY <1>3, <1>4 DEF r
<1>5. CASE d = Finished([r EXCEPT !.postCoalesce = @ \ {t}], Elements(c.group[t]), Zeros)
  <2>1. /\ DOMAIN d = CacheFields /\ d.bottomPort = Tail(c.bottomPort)
        /\ d.topPort = c.topPort /\ d.toCoalesce = c.toCoalesce /\ d.toBottom = c.toBottom
        /\ SameDir(c, d) /\ SameBank(c, d) /\ SameBlocks(c, d)
        /\ d.mshr = c.mshr /\ d.postCoalesce = c.postCoalesce \ {t}
    <3> HIDE DEF d
    <3> QED  BY <1>2, <1>5 DEF Finished, CacheFields, SameDir, SameBank, SameBlocks
  <2> HIDE DEF d
  <2>2. c.postCoalesce \ {t} \subseteq c.postCoalesce
    OBVIOUS
  <2>3. Good(d)
    BY <2>1, <2>2, RetrievedIs
  <2> QED  BY <1>3, <2>3 DEF d, r
<1> QED  BY <1>3, <1>4, <1>5 DEF ProcessDoneRsp, r

(* What the actions do not change, and the requests made so far. *)
Setting == policy \in Policies /\ script \in Seq(Requests) /\ sent \in 0..Len(script)

LEMMA SentInScript == ASSUME Setting PROVE 1..sent \subseteq DOMAIN script
<1>1. Len(script) \in Nat /\ DOMAIN script = 1..Len(script)
  BY DEF Setting
<1> QED  BY <1>1 DEF Setting

(* A transaction joins the bank, out of its MSHR entry or the directory. *)
Joined(T, t, new) == IF new THEN (T \ {t}) \cup {t} ELSE T \ {t}

LEMMA JoinsBank ==
    ASSUME Setting, NEW c, NEW d, Good(c), DOMAIN d = CacheFields, NEW t \in 1..sent,
           t \notin Elements(c.topPort) \cup Elements(c.toCoalesce),
           t \notin InDirectory(c) \cup BankOf(c),
           d.topPort = c.topPort, d.toCoalesce = c.toCoalesce, IsSeq(d.toBottom),
           IsSeq(d.bottomPort), Fetched(d) \subseteq Fetched(c), SameDir(c, d),
           d.bankBuf = Append(c.bankBuf, t), d.bankPipe = c.bankPipe, d.bankPost = c.bankPost,
           d.mshr = c.mshr \ {t}, d.postCoalesce \subseteq c.postCoalesce,
           t \in c.mshr => t \notin d.postCoalesce,
           d.resets = c.resets,
           DOMAIN d.trans = DOMAIN script,
           \A x \in DOMAIN script : DOMAIN d.trans[x] = TransFields /\ d.trans[x].resets \in Nat,
           \A x \in DOMAIN script \ {t} : d.trans[x] = c.trans[x],
           d.trans[t].action \in {"readHit", "write", "writeFetched"},
           DOMAIN d.blocks = Slots, \A s \in Slots : DOMAIN d.blocks[s] = BlockFields,
           Excl(Joined(Fillers(c), t, d.trans[t].action # "readHit"),
                Joined(BankReaders(c), t, d.trans[t].action = "readHit"),
                d.trans, d.resets, d.blocks)
    PROVE  Good(d)
<1>1. /\ IsLine(NumReqPerCycle, BankLatency, d.bankBuf, d.bankPipe, d.bankPost)
      /\ OnceInLine(d.bankBuf, d.bankPipe, d.bankPost) /\ BankOf(d) = BankOf(c) \cup {t}
  <2>1. /\ IsLine(NumReqPerCycle, BankLatency, c.bankBuf, c.bankPipe, c.bankPost)
        /\ OnceInLine(c.bankBuf, c.bankPipe, c.bankPost)
        /\ t \notin InLine(c.bankBuf, c.bankPipe, c.bankPost)
    BY DEF Good, Typed, OnceEach, BankOf
  <2> QED  BY <2>1, LineAppend, Widths DEF BankOf
<1>2. Typed(d) /\ OnceEach(d)
  BY <1>1 DEF Good, Typed, OnceEach, SameDir
<1>3. InDirectory(d) = InDirectory(c)
  BY DEF InDirectory, SameDir
<1>4. Located(d)
  BY <1>1, <1>3 DEF Good, Located, Apart
<1>5. t \notin BankOf(c) /\ \A x \in BankOf(c) \cup c.mshr : x \in DOMAIN script
  <2>1. BankOf(c) \cup c.mshr \subseteq 1..sent
    BY DEF Good, Located, Apart
  <2> QED  BY <2>1, SentInScript
<1>6. Fillers(d) = Joined(Fillers(c), t, d.trans[t].action # "readHit")
  BY <1>1, <1>5 DEF Fillers, Joined
<1>7. BankReaders(d) = Joined(BankReaders(c), t, d.trans[t].action = "readHit")
  BY <1>1, <1>5 DEF BankReaders, Joined
<1>8. Exclusive(d)
  BY <1>1, <1>5, <1>6, <1>7 DEF Good, Exclusive
<1> QED  BY <1>2, <1>4, <1>8 DEF Good

(* The data of a line arrives: its transaction goes on to the bank. *)
LEMMA DataReadyGood ==
    ASSUME Setting,
           NEW c, Good(c), c.bottomPort # << >>, Head(c.bottomPort).op # "write",
           NEW t, t = Head(c.bottomPort).to, NEW data
    PROVE  Good(ProcessDataReady(c, t, data))
<1> DEFINE d == ProcessDataReady(c, t, data)
           e == CHOOSE x \in Entries(c, Line(t)) : TRUE
           merged == MergeMSHRData(c, e, data)
           f == Finished(Retrieved(c), Elements(Attached(c, e)), merged)
           gone == Elements(c.requests[e]) \cup {t}
<1>1. /\ DOMAIN c = CacheFields /\ DOMAIN c.trans = DOMAIN script /\ IsSeq(c.bottomPort)
      /\ \A x \in DOMAIN script : DOMAIN c.trans[x] = TransFields
  BY DEF Good, Typed
<1>2. CASE d = Retrieved(c)
  BY <1>2, ProcessDoneRspGood
<1>3. CASE d = c
  BY <1>3
<1>4. CASE d = Panic(c, "no MSHR entry")
  BY <1>4, PanicGood
<1>5. CASE /\ t \in c.postCoalesce /\ Entries(c, Line(t)) # {}
           /\ d = [f EXCEPT !.mshr = @ \ {e}, !.postCoalesce = @ \ gone,
                            !.trans[t].action = "writeFetched", !.trans[t].data = merged,
                            !.bankBuf = Append(@, t)]
  <2>1. t \in c.mshr /\ t \in 1..sent /\ t \notin BankOf(c)
    <3>1. t \in Fetched(c)
      BY <1>1, ReadyOfTail DEF Fetched
    <3> QED  BY <1>5, <3>1 DEF Good, Located, Apart
  <2>2. e = t
    <3>1. e \in Entries(c, Line(t))
      BY <1>5
    <3>2. e \in c.mshr /\ Line(e) = Line(t)
      BY <3>1 DEF Entries
    <3> HIDE DEF e
    <3> QED  BY <2>1, <3>2 DEF Good, Located, Apart
  <2>3. t \in DOMAIN script
    BY <2>1, SentInScript
  <2> HIDE DEF e, merged, gone
  <2>4. /\ DOMAIN f = CacheFields /\ f.bottomPort = Tail(c.bottomPort)
        /\ f.topPort = c.topPort /\ f.toCoalesce = c.toCoalesce /\ f.toBottom = c.toBottom
        /\ SameDir(c, f) /\ SameBank(c, f) /\ SameBlocks(c, f) /\ SameSets(c, f)
    BY <1>1 DEF Finished, Retrieved, CacheFields, SameDir, SameBank, SameBlocks, SameSets
  <2> HIDE DEF f, d
  <2>5. /\ DOMAIN d = CacheFields /\ d.bottomPort = Tail(c.bottomPort)
        /\ d.topPort = c.topPort /\ d.toCoalesce = c.toCoalesce /\ d.toBottom = c.toBottom
        /\ SameDir(c, d) /\ d.resets = c.resets /\ d.blocks = c.blocks
        /\ d.bankBuf = Append(c.bankBuf, t) /\ d.bankPipe = c.bankPipe
        /\ d.bankPost = c.bankPost
        /\ d.mshr = c.mshr \ {t} /\ d.postCoalesce = c.postCoalesce \ gone
        /\ d.trans = [c.trans EXCEPT ![t] = [[@ EXCEPT !.action = "writeFetched"]
                                                 EXCEPT !.data = merged]]
    BY <1>5, <2>2, <2>3, <1>1, <2>4
       DEF CacheFields, SameDir, SameBank, SameBlocks, SameSets
  <2>6. /\ DOMAIN d.trans = DOMAIN script /\ DOMAIN d.trans[t] = TransFields
        /\ \A x \in DOMAIN script \ {t} : d.trans[x] = c.trans[x]
        /\ d.trans[t].action = "writeFetched" /\ d.trans[t].block = c.trans[t].block
        /\ d.trans[t].resets = c.trans[t].resets
    BY <1>1, <2>3, <2>5 DEF TransFields
  <2>7. /\ IsSeq(d.bottomPort) /\ Fetched(d) \subseteq Fetched(c)
        /\ IsSeq(d.toBottom)
    <3>1. IsSeq(d.bottomPort) /\ Ready(d.bottomPort) \subseteq Ready(c.bottomPort)
      BY <1>1, <2>5, TailOf, ReadyOfTail
    <3> QED  BY <2>5, <3>1 DEF Fetched, Good, Typed
  <2>8. /\ t \in Fillers(c) /\ t \notin BankReaders(c)
        /\ \A x \in Fillers(c) \cup BankReaders(c) : x \in DOMAIN script
    <3>1. c.mshr \cup BankOf(c) \subseteq 1..sent
      BY DEF Good, Located, Apart
    <3> QED  BY <2>1, <3>1, SentInScript DEF Fillers, BankReaders
  <2>9. Excl(Fillers(c), BankReaders(c), d.trans, d.resets, d.blocks)
    <3>1. \A x \in Fillers(c) \cup BankReaders(c) :
            d.trans[x].block = c.trans[x].block /\ d.trans[x].resets = c.trans[x].resets
      BY <2>6, <2>8
    <3>2. Excl(Fillers(c), BankReaders(c), c.trans, c.resets, c.blocks)
      BY DEF Good, Exclusive
    <3>3. Excl(Fillers(c), BankReaders(c), d.trans, c.resets, c.blocks)
      BY <3>1, <3>2, ExclSame
    <3> QED  BY <2>5, <3>3
  <2>10. /\ Joined(Fillers(c), t, d.trans[t].action # "readHit") = Fillers(c)
         /\ Joined(BankReaders(c), t, d.trans[t].action = "readHit") = BankReaders(c)
    BY <2>6, <2>8 DEF Joined
  <2>11. t \notin Elements(c.topPort) \cup Elements(c.toCoalesce) /\ t \notin InDirectory(c)
    BY <2>1 DEF Good, Located, Apart
  <2>12. /\ DOMAIN d.blocks = Slots /\ \A s \in Slots : DOMAIN d.blocks[s] = BlockFields
         /\ \A x \in DOMAIN script : DOMAIN d.trans[x] = TransFields /\ d.trans[x].resets \in Nat
    BY <2>3, <2>5, <2>6 DEF Good, Typed
  <2>13. t \notin d.postCoalesce /\ d.postCoalesce \subseteq c.postCoalesce
    BY <2>5 DEF gone
  <2>14. Good(d)
    BY <2>1, <2>5, <2>6, <2>7, <2>9, <2>10, <2>11, <2>12, <2>13, JoinsBank
  <2> QED  BY <2>14 DEF d
<1> QED  BY <1>2, <1>3, <1>4, <1>5 DEF ProcessDataReady

LEMMA BottomParserGood == ASSUME Setting, NEW c, Good(c) PROVE Good(BottomParser(c))
<1>1. CASE c.bottomPort = << >>
  BY <1>1 DEF BottomParser
<1>2. CASE c.bottomPort # << >> /\ Head(c.bottomPort).op = "write"
  BY <1>2, ProcessDoneRspGood DEF BottomParser
<1>3. CASE c.bottomPort # << >> /\ Head(c.bottomPort).op # "write"
  BY <1>3, DataReadyGood DEF BottomParser
<1> QED  BY <1>1, <1>2, <1>3

-----------------------------------------------------------------------------
(* The bank is done with a transaction. *)
LEMMA LeavesBank ==
    ASSUME NEW c, NEW d, Good(c), DOMAIN d = CacheFields, c.bankPost # << >>,
           NEW t, t = Head(c.bankPost),
           SamePorts(c, d), SameDir(c, d), d.mshr = c.mshr,
           d.postCoalesce \subseteq c.postCoalesce,
           d.bankBuf = c.bankBuf, d.bankPipe = c.bankPipe, d.bankPost = Tail(c.bankPost),
           d.trans = c.trans, d.resets = c.resets,
           DOMAIN d.blocks = Slots, \A s \in Slots : DOMAIN d.blocks[s] = BlockFields,
           Excl(Fillers(c) \ {t}, BankReaders(c) \ {t}, c.trans, c.resets, d.blocks)
    PROVE  Good(d)
<1>1. /\ IsLine(NumReqPerCycle, BankLatency, d.bankBuf, d.bankPipe, d.bankPost)
      /\ OnceInLine(d.bankBuf, d.bankPipe, d.bankPost)
      /\ t \in BankOf(c) /\ BankOf(d) = BankOf(c) \ {t}
  <2>1. /\ IsLine(NumReqPerCycle, BankLatency, c.bankBuf, c.bankPipe, c.bankPost)
        /\ OnceInLine(c.bankBuf, c.bankPipe, c.bankPost)
    BY DEF Good, Typed, OnceEach
  <2> QED  BY <2>1, LineLeave, Widths DEF BankOf
<1>2. Typed(d) /\ OnceEach(d)
  BY <1>1 DEF Good, Typed, OnceEach, SameDir, SamePorts
<1>3. InDirectory(d) = InDirectory(c) /\ Fetched(d) = Fetched(c)
  BY DEF InDirectory, SameDir, Fetched, SamePorts
<1>4. Located(d) /\ t \notin c.mshr
  BY <1>1, <1>3 DEF Good, Located, Apart, SamePorts
<1>5. Fillers(d) = Fillers(c) \ {t} /\ BankReaders(d) = BankReaders(c) \ {t}
  BY <1>1, <1>4 DEF Fillers, BankReaders
<1>6. Exclusive(d)
  BY <1>1, <1>5 DEF Good, Exclusive
<1> QED  BY <1>2, <1>4, <1>6 DEF Good

(* FinalizeTrans of a read, and of what locked the block. *)
LEMMA CountDown ==
    ASSUME NEW blocks, DOMAIN blocks = Slots, NEW s, NEW x \in Slots,
           DOMAIN blocks[x] = BlockFields,
           NEW new,
           new = [blocks EXCEPT ![s] = [blocks[s] EXCEPT !.readCount = blocks[s].readCount - 1]]
    PROVE  /\ DOMAIN new = Slots /\ DOMAIN new[x] = BlockFields
           /\ new[x].locked = blocks[x].locked
           /\ new[x].readCount = IF x = s THEN blocks[x].readCount - 1 ELSE blocks[x].readCount
<1>1. CASE x = s
  <2>1. new[x] = [blocks[x] EXCEPT !.readCount = blocks[x].readCount - 1]
    BY <1>1
  <2>2. DOMAIN new[x] = BlockFields /\ new[x].locked = blocks[x].locked
    BY <2>1 DEF BlockFields
  <2>3. new[x].readCount = blocks[x].readCount - 1
    BY <2>1 DEF BlockFields
  <2> QED  BY <1>1, <2>2, <2>3
<1>2. CASE x # s
  <2>1. new[x] = blocks[x]
    BY <1>2
  <2> QED  BY <1>2, <2>1
<1> QED  BY <1>1, <1>2

LEMMA Unlocking ==
    ASSUME NEW blocks, DOMAIN blocks = Slots, NEW s, NEW x \in Slots,
           DOMAIN blocks[x] = BlockFields,
           NEW new, new = [blocks EXCEPT ![s] = Unlocked(@)]
    PROVE  /\ DOMAIN new = Slots /\ DOMAIN new[x] = BlockFields
           /\ x = s => ~new[x].locked
           /\ x # s => new[x].locked = blocks[x].locked
           /\ new[x].readCount = blocks[x].readCount
<1>1. CASE x = s
  <2>1. new[x] = [blocks[x] EXCEPT !.locked = FALSE]
    BY <1>1 DEF Unlocked
  <2>2. DOMAIN new[x] = BlockFields /\ new[x].readCount = blocks[x].readCount
    BY <2>1 DEF BlockFields
  <2>3. new[x].locked = FALSE
    BY <2>1 DEF BlockFields
  <2> QED  BY <1>1, <2>2, <2>3
<1>2. CASE x # s
  <2>1. new[x] = blocks[x]
    BY <1>2
  <2> QED  BY <1>2, <2>1
<1> QED  BY <1>1, <1>2

LEMMA FinalizeTransGood == ASSUME NEW c, Good(c) PROVE Good(FinalizeTrans(c))
<1> DEFINE t == Head(c.bankPost)
           s == c.trans[t].block
           d == FinalizeTrans(c)
           live == c.trans[t].resets = c.resets
           done == [c EXCEPT !.bankPost = Tail(@), !.progress = TRUE]
<1>1. CASE c.bankPost = << >>
  BY <1>1 DEF FinalizeTrans
<1>2. CASE c.bankPost # << >>
  <2>1. /\ DOMAIN c = CacheFields /\ DOMAIN c.blocks = Slots /\ c.resets \in Nat
        /\ \A x \in Slots : DOMAIN c.blocks[x] = BlockFields
    BY DEF Good, Typed
  <2>2. t \in BankOf(c) /\ t \notin c.mshr
    <3>1. t \in Elements(c.bankPost)
      BY <1>2, TailOf DEF Good, Typed, IsLine
    <3>2. t \in BankOf(c)
      BY <3>1 DEF BankOf, InLine
    <3> QED  BY <3>2 DEF Good, Located, Apart
  <2>3. c.trans[t].action \in {"readHit", "write", "writeFetched"}
    BY <2>2 DEF Good, Exclusive
  <2>4. Excl(Fillers(c), BankReaders(c), c.trans, c.resets, c.blocks)
    BY DEF Good, Exclusive
  <2>5. /\ DOMAIN done = CacheFields
        /\ SamePorts(c, done) /\ SameDir(c, done) /\ SameSets(c, done) /\ SameBlocks(c, done)
        /\ done.bankBuf = c.bankBuf /\ done.bankPipe = c.bankPipe
        /\ done.bankPost = Tail(c.bankPost)
    BY <2>1 DEF CacheFields, SamePorts, SameDir, SameSets, SameBlocks
  <2> HIDE DEF done
  <2>6. CASE c.trans[t].action = "readHit"
    <3>1. d = FinalizeReadHit(done, t)
      BY <1>2, <2>6 DEF FinalizeTrans, done
    <3> HIDE DEF d
    <3>2. /\ DOMAIN d = CacheFields
          /\ SamePorts(c, d) /\ SameDir(c, d) /\ d.mshr = c.mshr
          /\ d.postCoalesce \subseteq c.postCoalesce
          /\ d.bankBuf = c.bankBuf /\ d.bankPipe = c.bankPipe
          /\ d.bankPost = Tail(c.bankPost) /\ d.trans = c.trans /\ d.resets = c.resets
          /\ d.blocks = IF live
                        THEN [c.blocks EXCEPT ![s] =
                                [c.blocks[s] EXCEPT !.readCount = c.blocks[s].readCount - 1]]
                        ELSE c.blocks
      <4> DEFINE new == SetBlock(done, t, LAMBDA b : [b EXCEPT !.readCount = @ - 1])
      <4>1. d = Finished([new EXCEPT !.postCoalesce = @ \ {t}],
                         Elements(done.group[t]), done.storage[s])
        BY <2>5, <3>1 DEF FinalizeReadHit, SameBlocks
      <4>2. /\ DOMAIN new = CacheFields
            /\ SamePorts(c, new) /\ SameDir(c, new) /\ SameSets(c, new)
            /\ new.bankBuf = c.bankBuf /\ new.bankPipe = c.bankPipe
            /\ new.bankPost = Tail(c.bankPost) /\ new.trans = c.trans /\ new.resets = c.resets
            /\ new.done = done.done /\ new.data = done.data
            /\ new.blocks = IF live
                        THEN [c.blocks EXCEPT ![s] =
                                [c.blocks[s] EXCEPT !.readCount = c.blocks[s].readCount - 1]]
                        ELSE c.blocks
        <5>1. CASE live
          BY <2>5, <5>1 DEF SetBlock, CacheFields, SamePorts, SameDir, SameSets, SameBlocks
        <5>2. CASE ~live
          BY <2>5, <5>2 DEF SetBlock, CacheFields, SamePorts, SameDir, SameSets, SameBlocks
        <5> QED  BY <5>1, <5>2
      <4> HIDE DEF new, live
      <4> QED  BY <4>1, <4>2 DEF Finished, CacheFields, SamePorts, SameDir, SameSets
    <3>3. /\ DOMAIN d.blocks = Slots /\ \A x \in Slots : DOMAIN d.blocks[x] = BlockFields
          /\ \A x \in Slots : /\ d.blocks[x].locked = c.blocks[x].locked
                              /\ d.blocks[x].readCount = IF x = s /\ live
                                    THEN c.blocks[x].readCount - 1 ELSE c.blocks[x].readCount
      <4>1. CASE live
        <5>1. d.blocks = [c.blocks EXCEPT ![s] =
                            [c.blocks[s] EXCEPT !.readCount = c.blocks[s].readCount - 1]]
          BY <3>2, <4>1
        <5> HIDE DEF s
        <5> QED  BY <2>1, <4>1, <5>1, CountDown
      <4>2. CASE ~live
        BY <2>1, <3>2, <4>2
      <4> QED  BY <4>1, <4>2
    <3>4. t \in BankReaders(c) /\ Fillers(c) \ {t} = Fillers(c)
      BY <2>2, <2>6 DEF BankReaders, Fillers
    <3>5. Excl(Fillers(c), BankReaders(c) \ {t}, c.trans, c.resets, d.blocks)
      BY <2>1, <2>4, <3>3, <3>4, ExclReadDone
    <3>6. Good(d)
      BY <1>2, <3>2, <3>3, <3>4, <3>5, LeavesBank
    <3> QED  BY <3>6 DEF d
  <2>7. CASE c.trans[t].action # "readHit"
    <3>1. d = FinalizeWrite(done, t) \/ d = FinalizeWriteFetched(done, t)
      BY <1>2, <2>3, <2>7 DEF FinalizeTrans, done
    <3> HIDE DEF d
    <3>2. /\ DOMAIN d = CacheFields
          /\ SamePorts(c, d) /\ SameDir(c, d) /\ d.mshr = c.mshr
          /\ d.postCoalesce \subseteq c.postCoalesce
          /\ d.bankBuf = c.bankBuf /\ d.bankPipe = c.bankPipe
          /\ d.bankPost = Tail(c.bankPost) /\ d.trans = c.trans /\ d.resets = c.resets
          /\ d.blocks = IF live THEN [c.blocks EXCEPT ![s] = Unlocked(@)] ELSE c.blocks
      <4>0. PICK mid : /\ d = SetBlock(mid, t, Unlocked)
                       /\ \E storage : mid = [done EXCEPT !.storage = storage]
        <5>1. CASE d = FinalizeWrite(done, t)
          <6>1. [done EXCEPT !.storage[done.trans[t].block] = Overwrite(@, done.group[t])] =
                  [done EXCEPT !.storage = [done.storage EXCEPT ![done.trans[t].block] =
                                              Overwrite(@, done.group[t])]]
            OBVIOUS
          <6> QED  BY <5>1, <6>1 DEF FinalizeWrite
        <5>2. CASE d = FinalizeWriteFetched(done, t)
          <6>1. [done EXCEPT !.storage[done.trans[t].block] = done.trans[t].data] =
                  [done EXCEPT !.storage = [done.storage EXCEPT ![done.trans[t].block] =
                                              done.trans[t].data]]
            OBVIOUS
          <6> QED  BY <5>2, <6>1 DEF FinalizeWriteFetched
        <5> QED  BY <3>1, <5>1, <5>2
      <4>3. /\ DOMAIN mid = CacheFields
            /\ SamePorts(c, mid) /\ SameDir(c, mid) /\ SameSets(c, mid) /\ SameBlocks(c, mid)
            /\ mid.bankBuf = c.bankBuf /\ mid.bankPipe = c.bankPipe
            /\ mid.bankPost = Tail(c.bankPost)
        BY <2>5, <4>0 DEF CacheFields, SamePorts, SameDir, SameSets, SameBlocks
      <4>1. CASE live
        <5>1. d = [mid EXCEPT !.blocks[s] = Unlocked(@)]
          BY <4>0, <4>1, <4>3 DEF SetBlock, SameBlocks
        <5> QED  BY <4>1, <4>3, <5>1 DEF CacheFields, SamePorts, SameDir, SameSets, SameBlocks
      <4>2. CASE ~live
        <5>1. d = mid
          BY <4>0, <4>2, <4>3 DEF SetBlock, SameBlocks
        <5> QED  BY <4>2, <4>3, <5>1 DEF SamePorts, SameDir, SameSets, SameBlocks
      <4> QED  BY <4>1, <4>2
    <3>3. /\ DOMAIN d.blocks = Slots /\ \A x \in Slots : DOMAIN d.blocks[x] = BlockFields
          /\ \A x \in Slots :
                IF x = s /\ live
                THEN ~d.blocks[x].locked /\ d.blocks[x].readCount = c.blocks[x].readCount
                ELSE /\ d.blocks[x].locked = c.blocks[x].locked
                     /\ d.blocks[x].readCount = c.blocks[x].readCount
      <4>1. CASE live
        <5>1. d.blocks = [c.blocks EXCEPT ![s] = Unlocked(@)]
          BY <3>2, <4>1
        <5> HIDE DEF s
        <5> QED  BY <2>1, <4>1, <5>1, Unlocking
      <4>2. CASE ~live
        BY <2>1, <3>2, <4>2
      <4> QED  BY <4>1, <4>2
    <3>4. t \in Fillers(c) /\ t \notin BankReaders(c) /\ BankReaders(c) \ {t} = BankReaders(c)
      BY <2>2, <2>7 DEF BankReaders, Fillers
    <3>5. Excl(Fillers(c) \ {t}, BankReaders(c), c.trans, c.resets, d.blocks)
      BY <2>1, <2>4, <3>3, <3>4, ExclFilled
    <3>6. Good(d)
      BY <1>2, <3>2, <3>3, <3>4, <3>5, LeavesBank
    <3> QED  BY <3>6 DEF d
  <2> QED  BY <2>6, <2>7
<1> QED  BY <1>1, <1>2

-----------------------------------------------------------------------------
(* The stage of the directory.  What follows does not depend on what is      *)
(* written below or on the contents, tags and validity of the blocks.         *)
LEMMA Adorned ==
    ASSUME NEW c, NEW d, Good(c), DOMAIN d = CacheFields,
           d.topPort = c.topPort, d.toCoalesce = c.toCoalesce, d.bottomPort = c.bottomPort,
           IsSeq(d.toBottom), Asked(d.toBottom) \subseteq Asked(c.toBottom),
           SameDir(c, d), SameBank(c, d), SameSets(c, d), d.resets = c.resets,
           DOMAIN d.trans = DOMAIN script,
           \A x \in DOMAIN script : /\ DOMAIN d.trans[x] = TransFields
                                    /\ d.trans[x].action = c.trans[x].action
                                    /\ d.trans[x].block = c.trans[x].block
                                    /\ d.trans[x].resets = c.trans[x].resets,
           DOMAIN d.blocks = Slots,
           \A x \in Slots : /\ DOMAIN d.blocks[x] = BlockFields
                            /\ d.blocks[x].locked = c.blocks[x].locked
                            /\ d.blocks[x].readCount = c.blocks[x].readCount,
           Setting
    PROVE  Good(d)
<1>1. Typed(d) /\ OnceEach(d)
  BY DEF Good, Typed, OnceEach, SameDir, SameBank
<1>2. /\ InDirectory(d) = InDirectory(c) /\ BankOf(d) = BankOf(c)
      /\ Fetched(d) \subseteq Fetched(c)
  BY DEF InDirectory, BankOf, Fetched, SameDir, SameBank
<1>3. Located(d)
  BY <1>2 DEF Good, Located, Apart, SameSets
<1>4. BankOf(c) \cup c.mshr \subseteq DOMAIN script
  <2>1. BankOf(c) \cup c.mshr \subseteq 1..sent
    BY DEF Good, Located, Apart
  <2> QED  BY <2>1, SentInScript
<1>5. Fillers(d) = Fillers(c) /\ BankReaders(d) = BankReaders(c)
  BY <1>2, <1>4 DEF Fillers, BankReaders, SameSets
<1>6. Excl(Fillers(c), BankReaders(c), d.trans, c.resets, d.blocks)
  <2>1. Excl(Fillers(c), BankReaders(c), c.trans, c.resets, c.blocks)
    BY DEF Good, Exclusive
  <2>2. \A x \in Fillers(c) \cup BankReaders(c) : x \in DOMAIN script
    BY <1>4 DEF Fillers, BankReaders
  <2>3. \A x \in Fillers(c) \cup BankReaders(c) :
          d.trans[x].block = c.trans[x].block /\ d.trans[x].resets = c.trans[x].resets
    BY <2>2
  <2> QED  BY <2>1, <2>3, ExclSame
<1>7. Exclusive(d)
  BY <1>2, <1>4, <1>5, <1>6 DEF Good, Exclusive
<1> QED  BY <1>1, <1>3, <1>7 DEF Good

(* A transaction that is in no queue. *)
Floating(c, t) ==
    /\ t \in 1..sent /\ t \in DOMAIN script
    /\ t \notin Elements(c.topPort) \cup Elements(c.toCoalesce)
    /\ t \notin InDirectory(c) \cup BankOf(c) \cup c.mshr

(* The directory takes the first transaction behind its pipeline. *)
LEMMA Popped ==
    ASSUME Setting, NEW c, Good(c), c.dirPost # << >>, NEW d, DOMAIN d = CacheFields,
           SamePorts(c, d), d.dirBuf = c.dirBuf, d.dirPipe = c.dirPipe,
           d.dirPost = Tail(c.dirPost), SameBank(c, d), SameSets(c, d), SameBlocks(c, d)
    PROVE  Good(d) /\ Floating(d, Head(c.dirPost))
<1> DEFINE t == Head(c.dirPost)
<1>1. /\ IsLine(NumReqPerCycle, DirLatency[policy], d.dirBuf, d.dirPipe, d.dirPost)
      /\ OnceInLine(d.dirBuf, d.dirPipe, d.dirPost)
      /\ t \in InDirectory(c) /\ InDirectory(d) = InDirectory(c) \ {t}
  <2>1. /\ IsLine(NumReqPerCycle, DirLatency[policy], c.dirBuf, c.dirPipe, c.dirPost)
        /\ OnceInLine(c.dirBuf, c.dirPipe, c.dirPost) /\ DirLatency[policy] \in Nat
    BY L1Assumption DEF Good, Typed, OnceEach, Setting
  <2> QED  BY <2>1, LineLeave, Widths DEF InDirectory
<1>2. Typed(d) /\ OnceEach(d)
  BY <1>1 DEF Good, Typed, OnceEach, SamePorts, SameBank, SameBlocks
<1>3. BankOf(d) = BankOf(c) /\ Fetched(d) = Fetched(c)
  BY DEF BankOf, Fetched, SameBank, SamePorts
<1>4. Located(d)
  BY <1>1, <1>3 DEF Good, Located, Apart, SamePorts, SameSets
<1>5. Exclusive(d)
  BY <1>3 DEF Good, Exclusive, Fillers, BankReaders, SameSets, SameBlocks
<1>6. t \in 1..sent /\ t \in DOMAIN script
  BY <1>1, SentInScript DEF Good, Located, Apart
<1>7. Floating(d, t)
  BY <1>1, <1>3, <1>6 DEF Good, Located, Apart, Floating, SamePorts, SameSets
<1> QED  BY <1>2, <1>4, <1>5, <1>7 DEF Good

LEMMA PopDirGood ==
    ASSUME Setting, NEW c, Good(c), c.dirPost # << >>
    PROVE  Good(PopDir(c)) /\ Floating(PopDir(c), Head(c.dirPost))
<1> DEFINE d == PopDir(c)
<1>1. DOMAIN c = CacheFields
  BY DEF Good, Typed
<1>2. /\ DOMAIN d = CacheFields
      /\ SamePorts(c, d) /\ d.dirBuf = c.dirBuf /\ d.dirPipe = c.dirPipe
      /\ d.dirPost = Tail(c.dirPost) /\ SameBank(c, d) /\ SameSets(c, d) /\ SameBlocks(c, d)
  BY <1>1 DEF PopDir, CacheFields, SamePorts, SameBank, SameSets, SameBlocks
<1> HIDE DEF d
<1> QED  BY <1>2, Popped DEF d

LEMMA AskedOfAppend ==
    ASSUME NEW q, IsSeq(q), NEW m
    PROVE  /\ IsSeq(Append(q, m))
           /\ Asked(Append(q, m)) = Asked(q) \cup (IF m.op # "write" THEN {m.trans} ELSE {})
<1>1. IsSeq(Append(q, m)) /\ Elements(Append(q, m)) = Elements(q) \cup {m}
  BY AppendOf
<1> QED  BY <1>1 DEF Asked

(* A write goes below; nothing is asked for. *)
LEMMA WriteBottomGood ==
    ASSUME Setting, NEW c, Good(c), NEW t
    PROVE  Good(WriteBottom(c, t)) /\ WriteBottom(c, t).dirPost = c.dirPost
<1> DEFINE d == WriteBottom(c, t)
           m == [op |-> "write", trans |-> t]
<1>1. /\ DOMAIN c = CacheFields /\ DOMAIN c.trans = DOMAIN script /\ IsSeq(c.toBottom)
      /\ \A x \in DOMAIN script : DOMAIN c.trans[x] = TransFields
      /\ DOMAIN c.blocks = Slots /\ \A x \in Slots : DOMAIN c.blocks[x] = BlockFields
  BY DEF Good, Typed
<1>2. /\ DOMAIN d = CacheFields
      /\ d.topPort = c.topPort /\ d.toCoalesce = c.toCoalesce /\ d.bottomPort = c.bottomPort
      /\ d.toBottom = Append(c.toBottom, m)
      /\ SameDir(c, d) /\ SameBank(c, d) /\ SameSets(c, d)
      /\ d.resets = c.resets /\ d.blocks = c.blocks
      /\ d.trans = [c.trans EXCEPT ![t].wroteBottom = TRUE]
  BY <1>1 DEF WriteBottom, CacheFields, SameDir, SameBank, SameSets
<1> HIDE DEF d
<1>3. /\ DOMAIN d.trans = DOMAIN script
      /\ \A x \in DOMAIN script : /\ DOMAIN d.trans[x] = TransFields
                                   /\ d.trans[x].action = c.trans[x].action
                                   /\ d.trans[x].block = c.trans[x].block
                                   /\ d.trans[x].resets = c.trans[x].resets
  BY <1>1, <1>2 DEF TransFields
<1>4. IsSeq(d.toBottom) /\ Asked(d.toBottom) \subseteq Asked(c.toBottom)
  <2>1. m.op = "write"
    OBVIOUS
  <2> HIDE DEF m
  <2> QED  BY <1>1, <1>2, <2>1, AskedOfAppend
<1>5. Good(d)
  BY <1>1, <1>2, <1>3, <1>4, Adorned
<1> QED  BY <1>2, <1>5 DEF d, SameDir

(* A victim that is not in use is neither locked nor read. *)
LEMMA NotInUse ==
    ASSUME NEW c, Good(c), NEW s \in Slots, ~InUse(c.blocks[s])
    PROVE  ~c.blocks[s].locked /\ c.blocks[s].readCount = 0
<1>1. Excl(Fillers(c), BankReaders(c), c.trans, c.resets, c.blocks)
  BY DEF Good, Exclusive
<1>2. /\ IsFiniteSet(BankReaders(c))
      /\ Cardinality(At(BankReaders(c), c.trans, c.resets, s)) = c.blocks[s].readCount
  BY <1>1 DEF Excl
<1>3. At(BankReaders(c), c.trans, c.resets, s) \subseteq BankReaders(c)
  BY DEF At
<1>4. Cardinality(At(BankReaders(c), c.trans, c.resets, s)) \in Nat
  BY <1>2, <1>3, FS_Subset, FS_CardinalityType
<1>5. c.blocks[s].readCount \in Nat
  BY <1>2, <1>4
<1> QED  BY <1>5 DEF InUse

(* Block s is locked, the others are as they were. *)
Locks(blocks, new, s) ==
    /\ DOMAIN new = Slots
    /\ \A x \in Slots : /\ DOMAIN new[x] = BlockFields
                        /\ new[x].readCount = blocks[x].readCount
                        /\ x = s => new[x].locked
                        /\ x # s => new[x].locked = blocks[x].locked

LEMMA Locking ==
    ASSUME NEW blocks, DOMAIN blocks = Slots, \A x \in Slots : DOMAIN blocks[x] = BlockFields,
           NEW s, NEW new, NEW b, new = [blocks EXCEPT ![s] = b],
           DOMAIN b = DOMAIN blocks[s], b.locked = TRUE, b.readCount = blocks[s].readCount
    PROVE  Locks(blocks, new, s)
<1>1. ASSUME NEW x \in Slots
      PROVE  /\ DOMAIN new[x] = BlockFields /\ new[x].readCount = blocks[x].readCount
             /\ x = s => new[x].locked
             /\ x # s => new[x].locked = blocks[x].locked
  <2>1. CASE x = s
    BY <2>1
  <2>2. CASE x # s
    BY <2>2
  <2> QED  BY <2>1, <2>2
<1> QED  BY <1>1 DEF Locks

(* One transaction is assigned to. *)
LEMMA TransChanges ==
    ASSUME Setting, NEW c, Good(c), NEW t \in DOMAIN script, NEW trans, NEW b,
           trans = [c.trans EXCEPT ![t] = b], DOMAIN b = TransFields, b.resets \in Nat
    PROVE  /\ DOMAIN trans = DOMAIN script /\ trans[t] = b
           /\ \A x \in DOMAIN script : DOMAIN trans[x] = TransFields /\ trans[x].resets \in Nat
           /\ \A x \in DOMAIN script \ {t} : trans[x] = c.trans[x]
           /\ \A x \in Fillers(c) \cup BankReaders(c) :
                 x # t => trans[x].block = c.trans[x].block /\ trans[x].resets = c.trans[x].resets
<1>1. /\ DOMAIN c.trans = DOMAIN script
      /\ \A x \in DOMAIN script : DOMAIN c.trans[x] = TransFields /\ c.trans[x].resets \in Nat
  BY DEF Good, Typed
<1>2. DOMAIN trans = DOMAIN script /\ trans[t] = b /\ \A x \in DOMAIN script \ {t} : trans[x] = c.trans[x]
  BY <1>1
<1>3. \A x \in Fillers(c) \cup BankReaders(c) : x \in DOMAIN script
  <2>1. c.mshr \cup BankOf(c) \subseteq 1..sent
    BY DEF Good, Located, Apart
  <2> QED  BY <2>1, SentInScript DEF Fillers, BankReaders
<1>4. \A x \in DOMAIN script : DOMAIN trans[x] = TransFields /\ trans[x].resets \in Nat
  BY <1>1, <1>2
<1> QED  BY <1>2, <1>3, <1>4

(* A transaction locks a block, enters the MSHR and asks for its line. *)
LEMMA StartsFetch ==
    ASSUME Setting, NEW c, Good(c), NEW t, Floating(c, t), NEW s,
           s \in Slots => ~InUse(c.blocks[s]), Entries(c, Line(t)) = {},
           NEW d, DOMAIN d = CacheFields,
           d.topPort = c.topPort, d.toCoalesce = c.toCoalesce, d.bottomPort = c.bottomPort,
           d.toBottom = Append(c.toBottom, [op |-> "read", trans |-> t]),
           SameDir(c, d), SameBank(c, d), d.resets = c.resets,
           d.mshr = c.mshr \cup {t}, d.postCoalesce = c.postCoalesce,
           NEW b, d.trans = [c.trans EXCEPT ![t] = b], DOMAIN b = TransFields,
           b.block = s, b.resets = c.resets,
           Locks(c.blocks, d.blocks, s)
    PROVE  Good(d)
<1> DEFINE m == [op |-> "read", trans |-> t]
<1>1. IsSeq(d.toBottom) /\ Asked(d.toBottom) = Asked(c.toBottom) \cup {t}
  <2>1. m.op # "write" /\ m.trans = t
    OBVIOUS
  <2>2. IsSeq(c.toBottom) /\ d.toBottom = Append(c.toBottom, m)
    BY DEF Good, Typed
  <2> HIDE DEF m
  <2>3. /\ IsSeq(Append(c.toBottom, m))
        /\ Asked(Append(c.toBottom, m)) =
             Asked(c.toBottom) \cup (IF m.op # "write" THEN {m.trans} ELSE {})
    BY <2>2, AskedOfAppend
  <2> QED  BY <2>1, <2>2, <2>3
<1>2. c.resets \in Nat /\ t \in DOMAIN script
  BY DEF Good, Typed, Floating
<1>3. /\ DOMAIN d.trans = DOMAIN script /\ d.trans[t] = b
      /\ \A x \in DOMAIN script : DOMAIN d.trans[x] = TransFields /\ d.trans[x].resets \in Nat
      /\ \A x \in DOMAIN script \ {t} : d.trans[x] = c.trans[x]
      /\ \A x \in Fillers(c) \cup BankReaders(c) :
            x # t => d.trans[x].block = c.trans[x].block /\ d.trans[x].resets = c.trans[x].resets
  BY <1>2, TransChanges
<1>4. Typed(d) /\ OnceEach(d)
  BY <1>1, <1>3 DEF Good, Typed, OnceEach, SameDir, SameBank, Locks
<1>5. InDirectory(d) = InDirectory(c) /\ BankOf(d) = BankOf(c) /\ Fetched(d) = Fetched(c) \cup {t}
  BY <1>1 DEF InDirectory, BankOf, Fetched, SameDir, SameBank
<1>6. Located(d)
  <2>1. \A x, y \in d.mshr : Line(x) = Line(y) => x = y
    BY DEF Entries, Good, Located, Apart
  <2> QED  BY <1>5, <2>1 DEF Good, Located, Apart, Floating
<1>7. BankOf(c) \subseteq DOMAIN script \ {t}
  <2>1. BankOf(c) \subseteq 1..sent
    BY DEF Good, Located, Apart
  <2> QED  BY <2>1, SentInScript DEF Floating
<1>8. Fillers(d) = Fillers(c) \cup {t} /\ BankReaders(d) = BankReaders(c)
  BY <1>3, <1>5, <1>7 DEF Fillers, BankReaders
<1>9. t \notin Fillers(c) \cup BankReaders(c)
  BY <1>7 DEF Fillers, BankReaders, Floating
<1>10. s \in Slots => ~c.blocks[s].locked /\ c.blocks[s].readCount = 0
  BY NotInUse
<1>11. Excl(Fillers(c) \cup {t}, BankReaders(c), d.trans, c.resets, d.blocks)
  <2>1. Excl(Fillers(c), BankReaders(c), c.trans, c.resets, c.blocks)
    BY DEF Good, Exclusive
  <2>2. \A x \in Fillers(c) \cup BankReaders(c) :
          d.trans[x].block = c.trans[x].block /\ d.trans[x].resets = c.trans[x].resets
    BY <1>3, <1>9
  <2>3. /\ \A x \in Slots \ {s} : /\ d.blocks[x].locked = c.blocks[x].locked
                                   /\ d.blocks[x].readCount = c.blocks[x].readCount
        /\ s \in Slots => d.blocks[s].locked /\ d.blocks[s].readCount = 0
    BY <1>10 DEF Locks
  <2>4. d.trans[t].block = s /\ d.trans[t].resets = c.resets
    BY <1>3
  <2>5. FillStarts(Fillers(c), BankReaders(c), c.trans, c.resets, c.blocks, d.trans, d.blocks, t, s)
    BY <1>2, <1>9, <1>10, <2>1, <2>2, <2>3, <2>4 DEF FillStarts
  <2> QED  BY <2>5, ExclFill
<1>12. Exclusive(d)
  BY <1>3, <1>5, <1>7, <1>8, <1>11 DEF Good, Exclusive
<1> QED  BY <1>4, <1>6, <1>12 DEF Good

(* It goes to the bank, to write or to read its block. *)
Begins(action, blocks, new, s) ==
    \/ /\ action = "write" /\ (s \in Slots => ~InUse(blocks[s]))
       /\ Locks(blocks, new, s)
    \/ /\ action = "readHit" /\ (s \in Slots => ~blocks[s].locked)
       /\ DOMAIN new = Slots
       /\ \A x \in Slots :
             /\ DOMAIN new[x] = BlockFields /\ new[x].locked = blocks[x].locked
             /\ new[x].readCount = IF x = s THEN blocks[x].readCount + 1
                                   ELSE blocks[x].readCount

ToBankOf(c, t, s, b, d) ==
    /\ DOMAIN d = CacheFields /\ SamePorts(c, d) /\ SameDir(c, d) /\ SameSets(c, d)
    /\ d.resets = c.resets
    /\ d.bankBuf = Append(c.bankBuf, t) /\ d.bankPipe = c.bankPipe /\ d.bankPost = c.bankPost
    /\ d.trans = [c.trans EXCEPT ![t] = b]
    /\ DOMAIN b = TransFields /\ b.block = s /\ b.resets = c.resets
    /\ Begins(b.action, c.blocks, d.blocks, s)

(* A transaction that is in no queue is given its block and joins the bank. *)
LEMMA StartsInBank ==
    ASSUME Setting, NEW c, Good(c), NEW t, Floating(c, t), NEW s, NEW b, NEW d,
           ToBankOf(c, t, s, b, d)
    PROVE  Good(d)
<1> USE DEF ToBankOf
<1>1. c.resets \in Nat /\ t \in DOMAIN script /\ t \in 1..sent
  BY DEF Good, Typed, Floating
<1>2. /\ DOMAIN d.trans = DOMAIN script /\ d.trans[t] = b
      /\ \A x \in DOMAIN script : DOMAIN d.trans[x] = TransFields /\ d.trans[x].resets \in Nat
      /\ \A x \in DOMAIN script \ {t} : d.trans[x] = c.trans[x]
      /\ \A x \in Fillers(c) \cup BankReaders(c) :
            x # t => d.trans[x].block = c.trans[x].block /\ d.trans[x].resets = c.trans[x].resets
  BY <1>1, TransChanges
<1>3. t \notin Fillers(c) \cup BankReaders(c)
  BY DEF Fillers, BankReaders, Floating
<1>4. /\ \A x \in Fillers(c) \cup BankReaders(c) :
            d.trans[x].block = c.trans[x].block /\ d.trans[x].resets = c.trans[x].resets
      /\ d.trans[t].block = s /\ d.trans[t].resets = c.resets /\ d.trans[t].action = b.action
  BY <1>2, <1>3
<1>5. Excl(Fillers(c), BankReaders(c), c.trans, c.resets, c.blocks)
  BY DEF Good, Exclusive
<1>6. /\ DOMAIN d.blocks = Slots /\ \A x \in Slots : DOMAIN d.blocks[x] = BlockFields
      /\ b.action \in {"readHit", "write"}
  BY DEF Locks, Begins
<1>7. Excl(Joined(Fillers(c), t, b.action # "readHit"),
           Joined(BankReaders(c), t, b.action = "readHit"), d.trans, c.resets, d.blocks)
  <2>1. CASE b.action = "write"
    <3>1. (s \in Slots => ~InUse(c.blocks[s])) /\ Locks(c.blocks, d.blocks, s)
      BY <2>1 DEF Begins
    <3>2. s \in Slots => ~c.blocks[s].locked /\ c.blocks[s].readCount = 0
      BY <3>1, NotInUse
    <3>3. /\ \A x \in Slots \ {s} : /\ d.blocks[x].locked = c.blocks[x].locked
                                     /\ d.blocks[x].readCount = c.blocks[x].readCount
          /\ s \in Slots => d.blocks[s].locked /\ d.blocks[s].readCount = 0
      BY <3>1, <3>2 DEF Locks
    <3>4. Excl(Fillers(c) \cup {t}, BankReaders(c), d.trans, c.resets, d.blocks)
      <4>1. FillStarts(Fillers(c), BankReaders(c), c.trans, c.resets, c.blocks,
                       d.trans, d.blocks, t, s)
        BY <1>1, <1>3, <1>4, <1>5, <3>2, <3>3 DEF FillStarts
      <4> QED  BY <4>1, ExclFill
    <3>5. /\ Joined(Fillers(c), t, b.action # "readHit") = Fillers(c) \cup {t}
          /\ Joined(BankReaders(c), t, b.action = "readHit") = BankReaders(c)
      BY <1>3, <2>1 DEF Joined
    <3> QED  BY <3>4, <3>5
  <2>2. CASE b.action = "readHit"
    <3>1. /\ s \in Slots => ~c.blocks[s].locked
          /\ \A x \in Slots :
                /\ d.blocks[x].locked = c.blocks[x].locked
                /\ d.blocks[x].readCount = IF x = s THEN c.blocks[x].readCount + 1
                                           ELSE c.blocks[x].readCount
      BY <2>2 DEF Begins
    <3>2. /\ \A x \in Slots : d.blocks[x].locked = c.blocks[x].locked
          /\ \A x \in Slots \ {s} : d.blocks[x].readCount = c.blocks[x].readCount
          /\ s \in Slots => d.blocks[s].readCount = c.blocks[s].readCount + 1
      BY <3>1
    <3>3. Excl(Fillers(c), BankReaders(c) \cup {t}, d.trans, c.resets, d.blocks)
      <4>1. ReadStarts(Fillers(c), BankReaders(c), c.trans, c.resets, c.blocks,
                       d.trans, d.blocks, t, s)
        BY <1>1, <1>3, <1>4, <1>5, <3>1, <3>2 DEF ReadStarts
      <4> QED  BY <4>1, ExclRead
    <3>4. /\ Joined(Fillers(c), t, b.action # "readHit") = Fillers(c)
          /\ Joined(BankReaders(c), t, b.action = "readHit") = BankReaders(c) \cup {t}
      BY <1>3, <2>2 DEF Joined
    <3> QED  BY <3>3, <3>4
  <2> QED  BY <1>6, <2>1, <2>2
<1>8. Fetched(d) = Fetched(c) /\ IsSeq(d.toBottom) /\ IsSeq(d.bottomPort)
  BY DEF Fetched, SamePorts, Good, Typed
<1>9. /\ t \notin Elements(c.topPort) \cup Elements(c.toCoalesce)
      /\ t \notin InDirectory(c) \cup BankOf(c)
      /\ t \notin c.mshr /\ d.mshr = c.mshr \ {t} /\ d.postCoalesce = c.postCoalesce
      /\ d.topPort = c.topPort /\ d.toCoalesce = c.toCoalesce
  BY DEF Floating, SameSets, SamePorts
<1> QED  BY <1>1, <1>2, <1>4, <1>6, <1>7, <1>8, <1>9, JoinsBank

-----------------------------------------------------------------------------
(* The functions of the directory stage *)

(* A transaction that joins an entry of the MSHR is in no queue any more: it is *)
(* answered with the entry.                                                     *)
LEMMA ProcessMSHRHitGood ==
    ASSUME Setting, NEW c, Good(c), c.dirPost # << >>, NEW t, NEW e
    PROVE  Good(ProcessMSHRHit(c, t, e))
<1> DEFINE d == ProcessMSHRHit(c, t, e)
<1>1. DOMAIN c = CacheFields
  BY DEF Good, Typed
<1>2. /\ DOMAIN d = CacheFields
      /\ SamePorts(c, d) /\ d.dirBuf = c.dirBuf /\ d.dirPipe = c.dirPipe
      /\ d.dirPost = Tail(c.dirPost) /\ SameBank(c, d) /\ SameSets(c, d) /\ SameBlocks(c, d)
  BY <1>1 DEF ProcessMSHRHit, PopDir, CacheFields, SamePorts, SameBank, SameSets, SameBlocks
<1> HIDE DEF d
<1> QED  BY <1>2, Popped DEF d

(* ToBank as an update of one transaction. *)
SentTo(old, s, action, resets) ==
    [[[old EXCEPT !.action = action] EXCEPT !.block = s] EXCEPT !.resets = resets]

TransTo(trans, t, s, action, resets) ==
    [trans EXCEPT ![t] = SentTo(trans[t], s, action, resets)]

LEMMA ToBankFields ==
    ASSUME NEW c, Good(c), NEW t, NEW s, NEW action
    PROVE  LET w == ToBank(c, t, s, action)
           IN  /\ DOMAIN w = CacheFields /\ SamePorts(c, w) /\ SameDir(c, w) /\ SameSets(c, w)
               /\ w.bankBuf = Append(c.bankBuf, t) /\ w.bankPipe = c.bankPipe
               /\ w.bankPost = c.bankPost /\ w.resets = c.resets /\ w.blocks = c.blocks
               /\ w.trans = TransTo(c.trans, t, s, action, c.resets)
<1> DEFINE w == ToBank(c, t, s, action)
<1> DEFINE v == Visit(c, Line(t), s)
<1>1. DOMAIN c = CacheFields
  BY DEF Good, Typed
<1>2. /\ DOMAIN v = CacheFields /\ SamePorts(c, v) /\ SameDir(c, v) /\ SameBank(c, v)
      /\ SameSets(c, v) /\ SameBlocks(c, v)
  BY <1>1 DEF Visit, CacheFields, SamePorts, SameDir, SameBank, SameSets, SameBlocks
<1>3. w = [v EXCEPT !.trans[t].action = action, !.trans[t].block = s,
                    !.trans[t].resets = c.resets, !.bankBuf = Append(@, t)]
  BY DEF ToBank
<1> HIDE DEF v, w
<1>4. /\ DOMAIN w = CacheFields /\ SamePorts(c, w) /\ SameDir(c, w) /\ SameSets(c, w)
  BY <1>2, <1>3 DEF CacheFields, SamePorts, SameDir, SameSets
<1>5. /\ w.bankBuf = Append(c.bankBuf, t) /\ w.bankPipe = c.bankPipe
      /\ w.bankPost = c.bankPost /\ w.resets = c.resets /\ w.blocks = c.blocks
  BY <1>2, <1>3 DEF CacheFields, SameBank, SameBlocks
<1>6. w.trans = TransTo(c.trans, t, s, action, c.resets)
  BY <1>2, <1>3 DEF CacheFields, SameBlocks, SentTo, TransTo
<1> QED  BY <1>4, <1>5, <1>6 DEF w

(* What PopDir(Step(c)) does, where Step leaves the buffers in front alone, *)
(* Step does to PopDir(c).                                                  *)
LEMMA ProcessReadHitGood ==
    ASSUME Setting, NEW c, Good(c), c.dirPost # << >>, NEW s
    PROVE  Good(ProcessReadHit(c, Head(c.dirPost), s))
<1> DEFINE t == Head(c.dirPost)
           d == ProcessReadHit(c, t, s)
           p == PopDir(c)
           b == SentTo(c.trans[t], s, "readHit", c.resets)
<1>1. CASE d = c
  BY <1>1
<1>2. CASE /\ ~c.blocks[s].locked
           /\ d = PopDir([ToBank(c, t, s, "readHit") EXCEPT !.blocks[s].readCount = @ + 1])
  <2>1. /\ DOMAIN c = CacheFields /\ DOMAIN c.trans = DOMAIN script
        /\ \A x \in DOMAIN script : DOMAIN c.trans[x] = TransFields
        /\ DOMAIN c.blocks = Slots /\ \A x \in Slots : DOMAIN c.blocks[x] = BlockFields
    BY DEF Good, Typed
  <2>2. Good(p) /\ Floating(p, t)
    BY PopDirGood
  <2>3. /\ SamePorts(c, p) /\ SameBank(c, p) /\ SameSets(c, p) /\ SameBlocks(c, p)
        /\ p.dirBuf = c.dirBuf /\ p.dirPipe = c.dirPipe /\ p.dirPost = Tail(c.dirPost)
    BY <2>1 DEF PopDir, CacheFields, SamePorts, SameBank, SameSets, SameBlocks
  <2> HIDE DEF p, d
  <2>4. /\ DOMAIN d = CacheFields
        /\ SamePorts(p, d) /\ SameDir(p, d) /\ SameSets(p, d)
        /\ d.bankBuf = Append(p.bankBuf, t) /\ d.bankPipe = p.bankPipe
        /\ d.bankPost = p.bankPost /\ d.resets = p.resets
        /\ d.trans = [p.trans EXCEPT ![t] = b]
        /\ d.blocks = [p.blocks EXCEPT ![s].readCount = @ + 1]
    <3> DEFINE w == ToBank(c, t, s, "readHit")
    <3>1. /\ DOMAIN w = CacheFields /\ SamePorts(c, w) /\ SameDir(c, w) /\ SameSets(c, w)
          /\ w.bankBuf = Append(c.bankBuf, t) /\ w.bankPipe = c.bankPipe
          /\ w.bankPost = c.bankPost /\ w.resets = c.resets /\ w.blocks = c.blocks
          /\ w.trans = [c.trans EXCEPT ![t] = b]
      <4>1. /\ DOMAIN w = CacheFields /\ SamePorts(c, w) /\ SameDir(c, w) /\ SameSets(c, w)
            /\ w.bankBuf = Append(c.bankBuf, t) /\ w.bankPipe = c.bankPipe
            /\ w.bankPost = c.bankPost /\ w.resets = c.resets /\ w.blocks = c.blocks
            /\ w.trans = TransTo(c.trans, t, s, "readHit", c.resets)
        BY ToBankFields
      <4> QED  BY <4>1 DEF TransTo
    <3> HIDE DEF w, b, t
    <3>2. d = PopDir([w EXCEPT !.blocks[s].readCount = @ + 1])
      BY <1>2 DEF w
    <3>3. /\ DOMAIN d = CacheFields
          /\ SamePorts(p, d) /\ SameDir(p, d) /\ SameSets(p, d)
      BY <2>3, <3>1, <3>2 DEF PopDir, CacheFields, SamePorts, SameDir, SameSets
    <3>4. /\ d.bankBuf = Append(p.bankBuf, t) /\ d.bankPipe = p.bankPipe
          /\ d.bankPost = p.bankPost
      BY <2>3, <3>1, <3>2 DEF PopDir, CacheFields, SameBank
    <3>6. d.resets = p.resets /\ d.trans = [p.trans EXCEPT ![t] = b]
      BY <2>3, <3>1, <3>2 DEF PopDir, CacheFields, SameBlocks
    <3>5. d.blocks = [p.blocks EXCEPT ![s].readCount = @ + 1]
      BY <2>3, <3>1, <3>2 DEF PopDir, CacheFields, SameBlocks
    <3> QED  BY <3>3, <3>4, <3>5, <3>6
  <2>5. t \in DOMAIN script
    BY <2>2 DEF Floating
  <2>6. DOMAIN b = TransFields /\ b.block = s /\ b.resets = p.resets /\ b.action = "readHit"
    BY <2>1, <2>3, <2>5 DEF TransFields, SameBlocks, SentTo
  <2>7. \A x \in Slots :
           /\ DOMAIN d.blocks[x] = BlockFields /\ d.blocks[x].locked = p.blocks[x].locked
           /\ d.blocks[x].readCount = IF x = s THEN p.blocks[x].readCount + 1
                                      ELSE p.blocks[x].readCount
    <3> TAKE x \in Slots
    <3>1. DOMAIN p.blocks = Slots /\ DOMAIN p.blocks[x] = BlockFields
      BY <2>1, <2>3 DEF SameBlocks
    <3>2. CASE x = s
      <4>1. d.blocks[x] = [p.blocks[x] EXCEPT !.readCount = p.blocks[x].readCount + 1]
        BY <2>4, <3>1, <3>2
      <4> QED  BY <3>1, <3>2, <4>1 DEF BlockFields
    <3>3. CASE x # s
      <4>1. d.blocks[x] = p.blocks[x]
        BY <2>4, <3>1, <3>3
      <4> QED  BY <3>1, <3>3, <4>1
    <3> QED  BY <3>2, <3>3
  <2>8. DOMAIN d.blocks = Slots /\ ~p.blocks[s].locked
    BY <1>2, <2>1, <2>3, <2>4 DEF SameBlocks
  <2> HIDE DEF b, t
  <2>9. Begins(b.action, p.blocks, d.blocks, s)
    BY <2>6, <2>7, <2>8 DEF Begins
  <2>10. Good(d)
    <3>1. ToBankOf(p, t, s, b, d)
      BY <2>4, <2>6, <2>9 DEF ToBankOf
    <3> QED  BY <2>2, <3>1, StartsInBank
  <2> QED  BY <2>10 DEF d, t
<1> QED  BY <1>1, <1>2 DEF ProcessReadHit

LEMMA FetchFromBottomGood ==
    ASSUME Setting, NEW c, Good(c), c.dirPost # << >>, NEW s,
           s \in Slots => ~InUse(c.blocks[s])
    PROVE  Good(PopDir(FetchFromBottom(c, Head(c.dirPost), s)))
<1> DEFINE t == Head(c.dirPost)
           f == FetchFromBottom(c, t, s)
           d == PopDir(f)
           p == PopDir(c)
           b == [[c.trans[t] EXCEPT !.block = s] EXCEPT !.resets = c.resets]
<1>1. /\ DOMAIN c = CacheFields /\ DOMAIN c.trans = DOMAIN script
      /\ \A x \in DOMAIN script : DOMAIN c.trans[x] = TransFields
      /\ DOMAIN c.blocks = Slots /\ \A x \in Slots : DOMAIN c.blocks[x] = BlockFields
  BY DEF Good, Typed
<1>2. CASE Entries(c, Line(t)) # {}
  <2>1. f = Panic(c, "entry already in mshr")
    BY <1>2 DEF FetchFromBottom
  <2>2. Good(f)
    BY <2>1, PanicGood
  <2>3. f.dirPost = c.dirPost
    BY <1>1, <2>1 DEF Panic, CacheFields
  <2> QED  BY <2>2, <2>3, PopDirGood
<1>3. CASE Entries(c, Line(t)) = {}
  <2>2. Good(p) /\ Floating(p, t)
    BY PopDirGood
  <2>3. /\ SamePorts(c, p) /\ SameBank(c, p) /\ SameSets(c, p) /\ SameBlocks(c, p)
        /\ p.dirBuf = c.dirBuf /\ p.dirPipe = c.dirPipe /\ p.dirPost = Tail(c.dirPost)
    BY <1>1 DEF PopDir, CacheFields, SamePorts, SameBank, SameSets, SameBlocks
  <2> HIDE DEF p
  <2>4. /\ DOMAIN d = CacheFields
        /\ d.topPort = p.topPort /\ d.toCoalesce = p.toCoalesce /\ d.bottomPort = p.bottomPort
        /\ d.toBottom = Append(p.toBottom, [op |-> "read", trans |-> t])
        /\ SameDir(p, d) /\ SameBank(p, d) /\ d.resets = p.resets
        /\ d.mshr = p.mshr \cup {t} /\ d.postCoalesce = p.postCoalesce
        /\ d.trans = [p.trans EXCEPT ![t] = b]
        /\ d.blocks = [p.blocks EXCEPT ![s] =
                [p.blocks[s] EXCEPT !.tag = Line(t), !.pid = PID, !.valid = TRUE, !.locked = TRUE]]
    <3>1. f = [Visit(c, Line(t), s) EXCEPT
                 !.toBottom = Append(@, [op |-> "read", trans |-> t]),
                 !.trans[t].block = s, !.trans[t].resets = c.resets,
                 !.mshr = @ \cup {t}, !.requests[t] = <<t>>,
                 !.blocks[s] = [@ EXCEPT !.tag = Line(t), !.pid = PID, !.valid = TRUE,
                                         !.locked = TRUE]]
      BY <1>3 DEF FetchFromBottom
    <3> HIDE DEF f, t
    <3>2. /\ DOMAIN f = CacheFields
          /\ f.topPort = c.topPort /\ f.toCoalesce = c.toCoalesce /\ f.bottomPort = c.bottomPort
          /\ f.toBottom = Append(c.toBottom, [op |-> "read", trans |-> t])
          /\ SameDir(c, f) /\ SameBank(c, f) /\ f.resets = c.resets
          /\ f.mshr = c.mshr \cup {t} /\ f.postCoalesce = c.postCoalesce
      BY <1>1, <3>1 DEF Visit, CacheFields, SameDir, SameBank
    <3>3. f.trans = [c.trans EXCEPT ![t] = b]
      BY <1>1, <3>1 DEF Visit, CacheFields
    <3>4. f.blocks = [c.blocks EXCEPT ![s] =
                [c.blocks[s] EXCEPT !.tag = Line(t), !.pid = PID, !.valid = TRUE, !.locked = TRUE]]
      BY <1>1, <3>1 DEF Visit, CacheFields
    <3> HIDE DEF b
    <3> QED  BY <1>1, <2>3, <3>2, <3>3, <3>4
                DEF PopDir, CacheFields, SamePorts, SameDir, SameBank, SameSets, SameBlocks
  <2> HIDE DEF d
  <2>5. t \in DOMAIN script
    BY <2>2 DEF Floating
  <2>6. DOMAIN b = TransFields /\ b.block = s /\ b.resets = p.resets
    BY <1>1, <2>3, <2>5 DEF TransFields, SameBlocks
  <2>7. /\ (s \in Slots => ~InUse(p.blocks[s])) /\ Entries(p, Line(t)) = {}
        /\ DOMAIN p.blocks = Slots /\ \A x \in Slots : DOMAIN p.blocks[x] = BlockFields
    BY <1>1, <1>3, <2>3 DEF SameBlocks, SameSets, Entries
  <2>8. Locks(p.blocks, d.blocks, s)
    <3>1. CASE s \in Slots
      <4> DEFINE new == [p.blocks[s] EXCEPT !.tag = Line(t), !.pid = PID, !.valid = TRUE,
                                           !.locked = TRUE]
      <4>1. /\ DOMAIN new = DOMAIN p.blocks[s] /\ new.locked = TRUE
            /\ new.readCount = p.blocks[s].readCount
        BY <2>7, <3>1 DEF BlockFields
      <4>2. d.blocks = [p.blocks EXCEPT ![s] = new]
        BY <2>4
      <4> HIDE DEF new
      <4> QED  BY <2>7, <4>1, <4>2, Locking
    <3>2. CASE s \notin Slots
      BY <2>4, <2>7, <3>2 DEF Locks
    <3> QED  BY <3>1, <3>2
  <2> HIDE DEF b, t
  <2>9. Good(d)
    BY <2>2, <2>4, <2>6, <2>7, <2>8, StartsFetch
  <2> QED  BY <2>9 DEF d, t
<1> QED  BY <1>2, <1>3

LEMMA ProcessReadGood ==
    ASSUME Setting, NEW c, Good(c), c.dirPost # << >>
    PROVE  Good(ProcessRead(c, Head(c.dirPost)))
<1> DEFINE t == Head(c.dirPost)
<1>1. ASSUME NEW s PROVE Good(ProcessReadHit(c, t, s))
  BY ProcessReadHitGood
<1>2. ASSUME NEW e PROVE Good(ProcessMSHRHit(c, t, e))
  BY ProcessMSHRHitGood
<1>3. Good(ProcessReadMiss(c, t))
  <2> DEFINE s == FindVictim(c, Line(t))
  <2>1. ~InUse(c.blocks[s]) => Good(PopDir(FetchFromBottom(c, t, s)))
    BY FetchFromBottomGood
  <2> HIDE DEF s, t
  <2> QED  BY <2>1 DEF ProcessReadMiss, s
<1> HIDE DEF t
<1> QED  BY <1>1, <1>2, <1>3 DEF ProcessRead, t

LEMMA WriteToBankGood ==
    ASSUME Setting, NEW c, Good(c), c.dirPost # << >>, NEW s, ~InUse(c.blocks[s])
    PROVE  Good(PopDir([ToBank(c, Head(c.dirPost), s, "write") EXCEPT
                          !.blocks[s] = [@ EXCEPT !.locked = TRUE, !.valid = TRUE,
                                                  !.tag = Line(Head(c.dirPost))]]))
<1> DEFINE t == Head(c.dirPost)
           d == PopDir([ToBank(c, t, s, "write") EXCEPT
                          !.blocks[s] = [@ EXCEPT !.locked = TRUE, !.valid = TRUE,
                                                  !.tag = Line(t)]])
           p == PopDir(c)
           b == SentTo(c.trans[t], s, "write", c.resets)
<1>1. /\ DOMAIN c = CacheFields /\ DOMAIN c.trans = DOMAIN script
      /\ \A x \in DOMAIN script : DOMAIN c.trans[x] = TransFields
      /\ DOMAIN c.blocks = Slots /\ \A x \in Slots : DOMAIN c.blocks[x] = BlockFields
  BY DEF Good, Typed
<1>2. Good(p) /\ Floating(p, t)
  BY PopDirGood
<1>3. /\ SamePorts(c, p) /\ SameBank(c, p) /\ SameSets(c, p) /\ SameBlocks(c, p)
      /\ p.dirBuf = c.dirBuf /\ p.dirPipe = c.dirPipe /\ p.dirPost = Tail(c.dirPost)
  BY <1>1 DEF PopDir, CacheFields, SamePorts, SameBank, SameSets, SameBlocks
<1> HIDE DEF p
<1>4. /\ DOMAIN d = CacheFields
      /\ SamePorts(p, d) /\ SameDir(p, d) /\ SameSets(p, d)
      /\ d.bankBuf = Append(p.bankBuf, t) /\ d.bankPipe = p.bankPipe
      /\ d.bankPost = p.bankPost /\ d.resets = p.resets
      /\ d.trans = [p.trans EXCEPT ![t] = b]
      /\ d.blocks = [p.blocks EXCEPT ![s] =
              [p.blocks[s] EXCEPT !.locked = TRUE, !.valid = TRUE, !.tag = Line(t)]]
  <2> DEFINE w == ToBank(c, t, s, "write")
  <2>1. /\ DOMAIN w = CacheFields /\ SamePorts(c, w) /\ SameDir(c, w) /\ SameSets(c, w)
        /\ w.bankBuf = Append(c.bankBuf, t) /\ w.bankPipe = c.bankPipe
        /\ w.bankPost = c.bankPost /\ w.resets = c.resets /\ w.blocks = c.blocks
        /\ w.trans = [c.trans EXCEPT ![t] = b]
    <3>1. /\ DOMAIN w = CacheFields /\ SamePorts(c, w) /\ SameDir(c, w) /\ SameSets(c, w)
          /\ w.bankBuf = Append(c.bankBuf, t) /\ w.bankPipe = c.bankPipe
          /\ w.bankPost = c.bankPost /\ w.resets = c.resets /\ w.blocks = c.blocks
          /\ w.trans = TransTo(c.trans, t, s, "write", c.resets)
      BY ToBankFields
    <3> QED  BY <3>1 DEF TransTo
  <2>2. d = PopDir([w EXCEPT !.blocks[s] =
              [@ EXCEPT !.locked = TRUE, !.valid = TRUE, !.tag = Line(t)]])
    OBVIOUS
  <2> HIDE DEF d, w, b, t
  <2>3. /\ DOMAIN d = CacheFields
        /\ SamePorts(p, d) /\ SameDir(p, d) /\ SameSets(p, d)
    BY <1>3, <2>1, <2>2 DEF PopDir, CacheFields, SamePorts, SameDir, SameSets
  <2>4. /\ d.bankBuf = Append(p.bankBuf, t) /\ d.bankPipe = p.bankPipe
        /\ d.bankPost = p.bankPost
    BY <1>3, <2>1, <2>2 DEF PopDir, CacheFields, SameBank
  <2>6. d.resets = p.resets /\ d.trans = [p.trans EXCEPT ![t] = b]
    BY <1>3, <2>1, <2>2 DEF PopDir, CacheFields, SameBlocks
  <2>5. d.blocks = [p.blocks EXCEPT ![s] =
              [p.blocks[s] EXCEPT !.locked = TRUE, !.valid = TRUE, !.tag = Line(t)]]
    BY <1>3, <2>1, <2>2 DEF PopDir, CacheFields, SameBlocks
  <2> QED  BY <2>3, <2>4, <2>5, <2>6
<1> HIDE DEF d
<1>5. t \in DOMAIN script
  BY <1>2 DEF Floating
<1>6. DOMAIN b = TransFields /\ b.block = s /\ b.resets = p.resets /\ b.action = "write"
  BY <1>1, <1>3, <1>5 DEF TransFields, SameBlocks, SentTo
<1>7. /\ ~InUse(p.blocks[s])
      /\ DOMAIN p.blocks = Slots /\ \A x \in Slots : DOMAIN p.blocks[x] = BlockFields
  BY <1>1, <1>3 DEF SameBlocks
<1>8. Locks(p.blocks, d.blocks, s)
  <2>1. CASE s \in Slots
    <3> DEFINE new == [p.blocks[s] EXCEPT !.locked = TRUE, !.valid = TRUE, !.tag = Line(t)]
    <3>1. /\ DOMAIN new = DOMAIN p.blocks[s] /\ new.locked = TRUE
          /\ new.readCount = p.blocks[s].readCount
      BY <1>7, <2>1 DEF BlockFields
    <3>2. d.blocks = [p.blocks EXCEPT ![s] = new]
      BY <1>4
    <3> HIDE DEF new
    <3> QED  BY <1>7, <3>1, <3>2, Locking
  <2>2. CASE s \notin Slots
    BY <1>4, <1>7, <2>2 DEF Locks
  <2> QED  BY <2>1, <2>2
<1> HIDE DEF b, t
<1>9. ToBankOf(p, t, s, b, d)
  BY <1>4, <1>6, <1>7, <1>8 DEF ToBankOf, Begins
<1>10. Good(d)
  BY <1>2, <1>9, StartsInBank
<1> QED  BY <1>10 DEF d, t

LEMMA EvictGood ==
    ASSUME Setting, NEW c, Good(c), c.dirPost # << >>, NEW s
    PROVE  Good(PopDir([c EXCEPT !.blocks[s].valid = FALSE]))
<1> DEFINE d == [c EXCEPT !.blocks[s].valid = FALSE]
<1>1. /\ DOMAIN c = CacheFields /\ DOMAIN c.trans = DOMAIN script /\ IsSeq(c.toBottom)
      /\ \A x \in DOMAIN script : DOMAIN c.trans[x] = TransFields
      /\ DOMAIN c.blocks = Slots /\ \A x \in Slots : DOMAIN c.blocks[x] = BlockFields
  BY DEF Good, Typed
<1>2. /\ DOMAIN d = CacheFields
      /\ SamePorts(c, d) /\ SameDir(c, d) /\ SameBank(c, d) /\ SameSets(c, d)
      /\ d.resets = c.resets /\ d.trans = c.trans
      /\ d.blocks = [c.blocks EXCEPT ![s].valid = FALSE]
  BY <1>1 DEF CacheFields, SamePorts, SameDir, SameBank, SameSets
<1> HIDE DEF d
<1>3. /\ DOMAIN d.blocks = Slots
      /\ \A x \in Slots : /\ DOMAIN d.blocks[x] = BlockFields
                           /\ d.blocks[x].locked = c.blocks[x].locked
                           /\ d.blocks[x].readCount = c.blocks[x].readCount
  BY <1>1, <1>2 DEF BlockFields
<1>4. Good(d) /\ d.dirPost = c.dirPost
  BY <1>1, <1>2, <1>3, Adorned DEF SamePorts, SameDir
<1>5. Good(PopDir(d))
  BY <1>4, PopDirGood
<1> QED  BY <1>5 DEF d

LEMMA WrittenBelow ==
    ASSUME Setting, NEW c, Good(c), NEW t
    PROVE  /\ Good(WriteBottom(c, t))
           /\ WriteBottom(c, t).dirPost = c.dirPost /\ WriteBottom(c, t).blocks = c.blocks
<1>1. DOMAIN c = CacheFields
  BY DEF Good, Typed
<1>2. WriteBottom(c, t).blocks = c.blocks
  BY <1>1 DEF WriteBottom, CacheFields
<1> QED  BY <1>2, WriteBottomGood

LEMMA ProcessWriteHitGood ==
    ASSUME Setting, NEW c, Good(c), c.dirPost # << >>, NEW s
    PROVE  Good(ProcessWriteHit(c, Head(c.dirPost), s))
<1> DEFINE t == Head(c.dirPost)
           wrote == IF c.trans[t].wroteBottom THEN c ELSE WriteBottom(c, t)
           d == ProcessWriteHit(c, t, s)
<1>1. Good(wrote) /\ wrote.dirPost = c.dirPost /\ wrote.blocks = c.blocks
  BY WrittenBelow
<1>2. CASE d = c
  BY <1>2
<1>3. CASE d = PopDir([wrote EXCEPT !.blocks[s].valid = FALSE])
  <2> HIDE DEF wrote, d
  <2>1. Good(d)
    BY <1>1, <1>3, EvictGood
  <2> QED  BY <2>1 DEF d
<1>4. CASE /\ ~InUse(c.blocks[s])
           /\ d = PopDir([ToBank(wrote, t, s, "write") EXCEPT
                       !.blocks[s] = [@ EXCEPT !.locked = TRUE, !.valid = TRUE,
                                               !.tag = Line(t)]])
  <2> HIDE DEF wrote, d
  <2>1. ~InUse(wrote.blocks[s]) /\ t = Head(wrote.dirPost)
    BY <1>1, <1>4
  <2>2. Good(d)
    BY <1>1, <1>4, <2>1, WriteToBankGood
  <2> QED  BY <2>2 DEF d
<1> QED  BY <1>2, <1>3, <1>4 DEF ProcessWriteHit

LEMMA PartialWriteMissGood ==
    ASSUME Setting, NEW c, Good(c), c.dirPost # << >>
    PROVE  Good(PartialWriteMiss(c, Head(c.dirPost)))
<1> DEFINE t == Head(c.dirPost)
           marked == [c EXCEPT !.trans[t].fetchAndWrite = TRUE]
           s == FindVictim(c, Line(t))
           wrote == IF c.trans[t].wroteBottom THEN marked
                    ELSE [WriteBottom(marked, t) EXCEPT !.progress = TRUE]
           d == PartialWriteMiss(c, t)
<1>1. /\ DOMAIN c = CacheFields /\ DOMAIN c.trans = DOMAIN script /\ IsSeq(c.toBottom)
      /\ \A x \in DOMAIN script : DOMAIN c.trans[x] = TransFields
      /\ DOMAIN c.blocks = Slots /\ \A x \in Slots : DOMAIN c.blocks[x] = BlockFields
  BY DEF Good, Typed
<1>2. /\ DOMAIN marked = CacheFields
      /\ SamePorts(c, marked) /\ SameDir(c, marked) /\ SameBank(c, marked)
      /\ SameSets(c, marked) /\ marked.resets = c.resets /\ marked.blocks = c.blocks
      /\ marked.trans = [c.trans EXCEPT ![t].fetchAndWrite = TRUE]
  BY <1>1 DEF CacheFields, SamePorts, SameDir, SameBank, SameSets
<1>3. Good(marked) /\ marked.dirPost = c.dirPost
  <2> HIDE DEF marked
  <2>1. /\ DOMAIN marked.trans = DOMAIN script
        /\ \A x \in DOMAIN script : /\ DOMAIN marked.trans[x] = TransFields
                                     /\ marked.trans[x].action = c.trans[x].action
                                     /\ marked.trans[x].block = c.trans[x].block
                                     /\ marked.trans[x].resets = c.trans[x].resets
    BY <1>1, <1>2 DEF TransFields
  <2> QED  BY <1>1, <1>2, <2>1, Adorned DEF SamePorts, SameDir
<1> HIDE DEF marked
<1>4. Good(wrote) /\ wrote.dirPost = c.dirPost /\ wrote.blocks = c.blocks
  <2> DEFINE w == WriteBottom(marked, t)
             v == [w EXCEPT !.progress = TRUE]
  <2>1. Good(w) /\ w.dirPost = c.dirPost /\ w.blocks = c.blocks
    BY <1>2, <1>3, WrittenBelow
  <2> HIDE DEF w
  <2>2. DOMAIN w = CacheFields
    BY <2>1 DEF Good, Typed
  <2>3. /\ DOMAIN v = CacheFields /\ SamePorts(w, v) /\ SameDir(w, v)
        /\ SameBank(w, v) /\ SameSets(w, v) /\ SameBlocks(w, v)
    BY <2>2 DEF CacheFields, SamePorts, SameDir, SameBank, SameSets, SameBlocks
  <2> HIDE DEF v
  <2>4. Good(v) /\ v.dirPost = c.dirPost /\ v.blocks = c.blocks
    BY <2>1, <2>3, Frame DEF SameDir, SameBlocks
  <2> QED  BY <1>2, <1>3, <2>4 DEF v, w
<1> HIDE DEF wrote
<1>5. ~InUse(c.blocks[s]) => Good(PopDir(FetchFromBottom(wrote, t, s)))
  <2> HIDE DEF s
  <2> QED  BY <1>4, FetchFromBottomGood
<1> HIDE DEF s, t
<1> QED  BY <1>3, <1>4, <1>5 DEF PartialWriteMiss, marked, wrote, s, t

LEMMA ProcessWriteGood ==
    ASSUME Setting, NEW c, Good(c), c.dirPost # << >>
    PROVE  Good(ProcessWrite(c, Head(c.dirPost)))
<1> DEFINE t == Head(c.dirPost)
           w == WriteBottom(c, t)
<1>1. ASSUME NEW s PROVE Good(ProcessWriteHit(c, t, s))
  BY ProcessWriteHitGood
<1>2. Good(w) /\ w.dirPost = c.dirPost
  BY WriteBottomGood
<1>3. ASSUME NEW e PROVE Good(ProcessMSHRHit(w, t, e))
  <2> HIDE DEF w
  <2> QED  BY <1>2, ProcessMSHRHitGood
<1>4. Good(WriteMiss(c, t))
  <2>1. Good(PopDir(w))
    <3> HIDE DEF w
    <3> QED  BY <1>2, PopDirGood
  <2> QED  BY <2>1 DEF WriteMiss
<1>5. Good(PartialWriteMiss(c, t))
  BY PartialWriteMissGood
<1> HIDE DEF t
<1> QED  BY <1>1, <1>3, <1>4, <1>5 DEF ProcessWrite, t

LEMMA ProcessTransactionGood == ASSUME Setting, NEW c, Good(c) PROVE Good(ProcessTransaction(c))
<1>1. CASE c.dirPost = << >>
  BY <1>1 DEF ProcessTransaction
<1>2. CASE c.dirPost # << >>
  BY <1>2, ProcessReadGood, ProcessWriteGood DEF ProcessTransaction
<1> QED  BY <1>1, <1>2

-----------------------------------------------------------------------------
(* The coalescer *)
LEMMA TakenGood ==
    ASSUME Setting, NEW c, Good(c), c.topPort # << >>
    PROVE  /\ Good(Taken(c, Head(c.topPort)))
           /\ Taken(c, Head(c.topPort)).toCoalesce # << >>
<1> DEFINE r == Head(c.topPort)
           d == Taken(c, r)
<1>1. DOMAIN c = CacheFields /\ IsSeq(c.topPort) /\ Once(c.topPort) /\ IsSeq(c.toCoalesce)
  BY DEF Good, Typed, OnceEach
<1>2. /\ DOMAIN d = CacheFields
      /\ d.topPort = Tail(c.topPort) /\ d.toCoalesce = Append(c.toCoalesce, r)
      /\ d.toBottom = c.toBottom /\ d.bottomPort = c.bottomPort
      /\ SameDir(c, d) /\ SameBank(c, d) /\ SameSets(c, d) /\ SameBlocks(c, d)
  BY <1>1 DEF Taken, CacheFields, SameDir, SameBank, SameSets, SameBlocks
<1> HIDE DEF d
<1>3. /\ IsSeq(d.topPort) /\ Once(d.topPort) /\ r \in Elements(c.topPort)
      /\ Elements(d.topPort) = Elements(c.topPort) \ {r}
  BY <1>1, <1>2, TailOf
<1> HIDE DEF r
<1>4. IsSeq(d.toCoalesce) /\ Elements(d.toCoalesce) = Elements(c.toCoalesce) \cup {r}
  BY <1>1, <1>2, AppendOf
<1>5. Typed(d) /\ OnceEach(d) /\ Exclusive(d)
  BY <1>2, <1>3, <1>4 DEF Good, Typed, OnceEach, Exclusive, BankOf, Fillers, BankReaders,
                          SameDir, SameBank, SameSets, SameBlocks
<1>6. InDirectory(d) = InDirectory(c) /\ BankOf(d) = BankOf(c) /\ Fetched(d) = Fetched(c)
  BY <1>2 DEF InDirectory, BankOf, Fetched, SameDir, SameBank
<1>7. Located(d)
  BY <1>2, <1>3, <1>4, <1>6 DEF Good, Located, Apart, SameSets
<1>8. d.toCoalesce # << >>
  BY <1>4, EmptyOf
<1> QED  BY <1>5, <1>7, <1>8 DEF Good, d, r

LEMMA CoalesceAndSendGood ==
    ASSUME Setting, NEW c, Good(c), c.toCoalesce # << >>
    PROVE  Good(CoalesceAndSend(c)) /\ CoalesceAndSend(c).topPort = c.topPort
<1> DEFINE t == Head(c.toCoalesce)
           d == CoalesceAndSend(c)
           n == DirLatency[policy]
<1>1. DOMAIN c = CacheFields /\ IsSeq(c.toCoalesce) /\ n \in Nat
  BY L1Assumption DEF Good, Typed, Setting
<1>2. CASE d = Panic(c, "nil dereference")
  <2>1. d.topPort = c.topPort
    BY <1>1, <1>2 DEF Panic, CacheFields
  <2> QED  BY <1>2, <2>1, PanicGood
<1>3. CASE d = [c EXCEPT !.group[t] = c.toCoalesce, !.dirBuf = Append(@, t),
                         !.postCoalesce = @ \cup {t}, !.toCoalesce = << >>,
                         !.progress = TRUE]
  <2> HIDE DEF d
  <2>1. /\ DOMAIN d = CacheFields
        /\ d.topPort = c.topPort /\ d.toCoalesce = << >>
        /\ d.toBottom = c.toBottom /\ d.bottomPort = c.bottomPort
        /\ d.dirBuf = Append(c.dirBuf, t) /\ d.dirPipe = c.dirPipe /\ d.dirPost = c.dirPost
        /\ SameBank(c, d) /\ SameBlocks(c, d)
        /\ d.mshr = c.mshr /\ d.postCoalesce = c.postCoalesce \cup {t}
    BY <1>1, <1>3 DEF CacheFields, SameBank, SameBlocks
  <2>2. t \in Elements(c.toCoalesce)
    BY <1>1, TailOf
  <2> HIDE DEF t, n
  <2>3. /\ t \in 1..sent /\ t \notin Elements(c.topPort) /\ t \notin InDirectory(c)
        /\ t \notin BankOf(c) \cup c.mshr /\ t \notin Fetched(c)
    BY <2>2 DEF Good, Located, Apart
  <2>4. /\ IsLine(NumReqPerCycle, n, d.dirBuf, d.dirPipe, d.dirPost)
        /\ OnceInLine(d.dirBuf, d.dirPipe, d.dirPost)
        /\ InDirectory(d) = InDirectory(c) \cup {t}
    <3>1. /\ IsLine(NumReqPerCycle, n, c.dirBuf, c.dirPipe, c.dirPost)
          /\ OnceInLine(c.dirBuf, c.dirPipe, c.dirPost)
          /\ t \notin InLine(c.dirBuf, c.dirPipe, c.dirPost)
      BY <2>3 DEF Good, Typed, OnceEach, InDirectory, n
    <3> QED  BY <1>1, <2>1, <3>1, LineAppend, Widths DEF InDirectory
  <2>5. Typed(d) /\ OnceEach(d)
    BY <2>1, <2>4, EmptyOf DEF Good, Typed, OnceEach, SameBank, SameBlocks, n
  <2>6. BankOf(d) = BankOf(c) /\ Fetched(d) = Fetched(c) /\ Elements(d.toCoalesce) = {}
    BY <2>1, EmptyOf DEF BankOf, Fetched, SameBank
  <2>7. Located(d)
    BY <2>1, <2>3, <2>4, <2>6 DEF Good, Located, Apart
  <2>8. Exclusive(d)
    BY <2>1, <2>6 DEF Good, Exclusive, Fillers, BankReaders, SameBlocks
  <2> QED  BY <2>1, <2>5, <2>7, <2>8 DEF Good, d
<1> QED  BY <1>2, <1>3 DEF CoalesceAndSend

LEMMA ProcessReqGood ==
    ASSUME Setting, NEW c, Good(c), c.topPort # << >>
    PROVE  Good(ProcessReq(c, Head(c.topPort)))
<1> DEFINE r == Head(c.topPort)
           sends == CoalesceAndSend(c)
<1>1. Good(Taken(c, r)) /\ Good(CoalesceAndSend(Taken(c, r)))
  BY TakenGood, CoalesceAndSendGood
<1>2. ASSUME ~CanReqCoalesce(c, r)
      PROVE  Good(sends) /\ Good(Taken(sends, r)) /\ Good(CoalesceAndSend(Taken(sends, r)))
  <2>1. c.toCoalesce # << >>
    BY <1>2 DEF CanReqCoalesce
  <2>2. Good(sends) /\ sends.topPort = c.topPort
    BY <2>1, CoalesceAndSendGood
  <2> HIDE DEF sends
  <2>3. Good(Taken(sends, r)) /\ Taken(sends, r).toCoalesce # << >>
    BY <2>2, TakenGood
  <2> QED  BY <2>2, <2>3, CoalesceAndSendGood
<1> HIDE DEF r, sends
<1> QED  BY <1>1, <1>2 DEF ProcessReq, r, sends

(* A directory that was reset, and with it the queues that are cleared. *)
LEMMA ResetGood ==
    ASSUME Setting, NEW c, Good(c), NEW d, DOMAIN d = CacheFields,
           IsSeq(d.topPort), Once(d.topPort), Elements(d.topPort) \subseteq Elements(c.topPort),
           IsSeq(d.toCoalesce), Elements(d.toCoalesce) \subseteq Elements(c.toCoalesce),
           IsSeq(d.bottomPort), Ready(d.bottomPort) \subseteq Ready(c.bottomPort),
           d.toBottom = c.toBottom,
           d.dirBuf \in {c.dirBuf, << >>}, d.dirPipe = c.dirPipe, d.dirPost = c.dirPost,
           \/ SameBank(c, d) /\ SameSets(c, d)
           \/ /\ d.bankBuf = << >> /\ d.bankPipe = EmptyPipe(NumReqPerCycle, BankLatency)
              /\ d.bankPost = << >> /\ d.mshr = {} /\ d.postCoalesce = {},
           d.trans = c.trans, d.resets = c.resets + 1, d.blocks = [s \in Slots |-> NewBlock]
    PROVE  Good(d)
<1>1. /\ IsLine(NumReqPerCycle, DirLatency[policy], d.dirBuf, d.dirPipe, d.dirPost)
      /\ OnceInLine(d.dirBuf, d.dirPipe, d.dirPost) /\ InDirectory(d) \subseteq InDirectory(c)
  BY EmptyOf DEF Good, Typed, OnceEach, IsLine, OnceInLine, InDirectory, InLine
<1>2. /\ IsLine(NumReqPerCycle, BankLatency, d.bankBuf, d.bankPipe, d.bankPost)
      /\ OnceInLine(d.bankBuf, d.bankPipe, d.bankPost)
      /\ \/ BankOf(d) = BankOf(c) /\ SameSets(c, d)
         \/ BankOf(d) = {} /\ d.mshr = {} /\ d.postCoalesce = {}
  <2>1. CASE SameBank(c, d) /\ SameSets(c, d)
    BY <2>1 DEF Good, Typed, OnceEach, BankOf, SameBank
  <2>2. CASE /\ d.bankBuf = << >> /\ d.bankPipe = EmptyPipe(NumReqPerCycle, BankLatency)
             /\ d.bankPost = << >> /\ d.mshr = {} /\ d.postCoalesce = {}
    BY <2>2, LineEmpty, Widths DEF BankOf
  <2> QED  BY <2>1, <2>2
<1>3. /\ DOMAIN d.blocks = Slots
      /\ \A s \in Slots : /\ DOMAIN d.blocks[s] = BlockFields
                          /\ ~d.blocks[s].locked /\ d.blocks[s].readCount = 0
  BY DEF NewBlock, BlockFields
<1>4. c.resets \in Nat /\ c.resets + 1 \in Nat
  BY DEF Good, Typed
<1>5. Typed(d) /\ OnceEach(d)
  BY <1>1, <1>2, <1>3, <1>4 DEF Good, Typed, OnceEach
<1>6. Fetched(d) \subseteq Fetched(c)
  BY DEF Fetched
<1>7. Located(d)
  <2>1. CASE BankOf(d) = BankOf(c) /\ SameSets(c, d)
    BY <1>1, <1>6, <2>1 DEF Good, Located, Apart, SameSets
  <2>2. CASE BankOf(d) = {} /\ d.mshr = {} /\ d.postCoalesce = {}
    BY <1>1, <1>6, <2>2 DEF Good, Located, Apart
  <2> QED  BY <1>2, <2>1, <2>2
<1>8. BankOf(d) \subseteq BankOf(c) /\ d.mshr \subseteq c.mshr
  BY <1>2 DEF SameSets
<1>9. Fillers(d) \in SUBSET Fillers(c) /\ BankReaders(d) \in SUBSET BankReaders(c)
  BY <1>8 DEF Fillers, BankReaders
<1>10. \A t \in Fillers(c) \cup BankReaders(c) : c.trans[t].resets \in Nat
  <2>1. c.mshr \cup BankOf(c) \subseteq 1..sent
    BY DEF Good, Located, Apart
  <2>2. \A t \in Fillers(c) \cup BankReaders(c) : t \in DOMAIN script
    BY <2>1, SentInScript DEF Fillers, BankReaders
  <2> QED  BY <2>2 DEF Good, Typed
<1>11. Excl(Fillers(d), BankReaders(d), c.trans, c.resets + 1, d.blocks)
  <2>1. Excl(Fillers(c), BankReaders(c), c.trans, c.resets, c.blocks)
    BY DEF Good, Exclusive
  <2> QED  BY <1>3, <1>4, <1>9, <1>10, <2>1, ExclReset
<1>12. Exclusive(d)
  BY <1>8, <1>11 DEF Good, Exclusive
<1> QED  BY <1>5, <1>7, <1>12 DEF Good

(* Which fields the reset leaves. *)
LEMMA ResetFields ==
    ASSUME NEW c, Good(c)
    PROVE  LET r == ResetDirectory(c)
           IN  /\ DOMAIN r = CacheFields
               /\ SamePorts(c, r) /\ SameDir(c, r) /\ SameBank(c, r) /\ SameSets(c, r)
               /\ r.trans = c.trans /\ r.resets = c.resets + 1
               /\ r.blocks = [s \in Slots |-> NewBlock]
<1>1. DOMAIN c = CacheFields
  BY DEF Good, Typed
<1> DEFINE r == ResetDirectory(c)
<1>2. DOMAIN r = CacheFields /\ r.trans = c.trans /\ r.resets = c.resets + 1
  BY <1>1 DEF ResetDirectory, CacheFields
<1>3. r.blocks = [s \in Slots |-> NewBlock]
  BY <1>1 DEF ResetDirectory, CacheFields
<1>4. SamePorts(c, r) /\ SameDir(c, r) /\ SameBank(c, r) /\ SameSets(c, r)
  BY <1>1 DEF ResetDirectory, CacheFields, SamePorts, SameDir, SameBank, SameSets
<1> QED  BY <1>2, <1>3, <1>4

LEMMA ProcessGL0InvalidateReqGood ==
    ASSUME Setting, NEW c, Good(c), c.topPort # << >>, NEW r
    PROVE  Good(ProcessGL0InvalidateReq(c, r))
<1> DEFINE d == ProcessGL0InvalidateReq(c, r)
<1>1. /\ DOMAIN c = CacheFields /\ IsSeq(c.topPort) /\ Once(c.topPort) /\ IsSeq(c.toCoalesce)
      /\ IsSeq(c.bottomPort)
  BY DEF Good, Typed, OnceEach
<1>2. CASE d = Panic(c, "unknown type")
  BY <1>2, PanicGood
<1>3. CASE \/ d = ResetDirectory(c)
           \/ d = [ResetDirectory(c) EXCEPT !.toTop = Append(@, [to |-> r, data |-> Zeros]),
                                            !.topPort = Tail(@), !.progress = TRUE]
  <2> HIDE DEF d
  <2>1. /\ DOMAIN d = CacheFields
        /\ d.topPort = c.topPort \/ d.topPort = Tail(c.topPort)
        /\ d.toCoalesce = c.toCoalesce /\ d.toBottom = c.toBottom
        /\ d.bottomPort = c.bottomPort
        /\ SameDir(c, d) /\ SameBank(c, d) /\ SameSets(c, d)
        /\ d.trans = c.trans /\ d.resets = c.resets + 1
        /\ d.blocks = [s \in Slots |-> NewBlock]
    <3> DEFINE new == ResetDirectory(c)
    <3>1. /\ DOMAIN new = CacheFields
          /\ SamePorts(c, new) /\ SameDir(c, new) /\ SameBank(c, new) /\ SameSets(c, new)
          /\ new.trans = c.trans /\ new.resets = c.resets + 1
          /\ new.blocks = [s \in Slots |-> NewBlock]
      BY ResetFields
    <3> HIDE DEF new
    <3>2. CASE d = new
      BY <3>1, <3>2 DEF SamePorts
    <3>3. CASE d = [new EXCEPT !.toTop = Append(@, [to |-> r, data |-> Zeros]),
                               !.topPort = Tail(@), !.progress = TRUE]
      BY <3>1, <3>3 DEF CacheFields, SamePorts, SameDir, SameBank, SameSets
    <3> QED  BY <1>3, <3>2, <3>3 DEF new
  <2>2. /\ IsSeq(d.topPort) /\ Once(d.topPort)
        /\ Elements(d.topPort) \subseteq Elements(c.topPort)
    BY <1>1, <2>1, TailOf
  <2>3. Good(d)
    BY <1>1, <2>1, <2>2, ResetGood DEF SameDir
  <2> QED  BY <2>3 DEF d
<1> QED  BY <1>2, <1>3 DEF ProcessGL0InvalidateReq

LEMMA CoalescerGood == ASSUME Setting, NEW c, Good(c) PROVE Good(Coalescer(c))
<1>1. CASE c.topPort = << >>
  BY <1>1 DEF Coalescer
<1>2. CASE c.topPort # << >>
  BY <1>2, ProcessReqGood, ProcessGL0InvalidateReqGood DEF Coalescer
<1> QED  BY <1>1, <1>2

-----------------------------------------------------------------------------
(* The control stage *)
LEMMA ProcessCurrentFlushGood ==
    ASSUME Setting, NEW c, Good(c) PROVE Good(ProcessCurrentFlush(c))
<1> DEFINE d == ProcessCurrentFlush(c)
           req == Head(c.currFlushReq)
<1>1. DOMAIN c = CacheFields
  BY DEF Good, Typed
<1>2. CASE d = c
  BY <1>2
<1>3. CASE d = [HardReset(c) EXCEPT !.isPaused = @ \/ req.pause, !.currFlushReq = << >>,
                                    !.flushes = @ + 1, !.progress = TRUE]
  <2> HIDE DEF d, req
  <2>1. /\ DOMAIN d = CacheFields
        /\ d.topPort = << >> /\ d.bottomPort = << >> /\ d.toCoalesce = << >>
        /\ d.toBottom = c.toBottom
        /\ d.dirBuf = << >> /\ d.dirPipe = c.dirPipe /\ d.dirPost = c.dirPost
        /\ d.bankBuf = << >> /\ d.bankPipe = EmptyPipe(NumReqPerCycle, BankLatency)
        /\ d.bankPost = << >> /\ d.mshr = {} /\ d.postCoalesce = {}
        /\ d.trans = c.trans /\ d.resets = c.resets + 1
        /\ d.blocks = [s \in Slots |-> NewBlock]
    <3> DEFINE new == ResetDirectory(c)
    <3>1. /\ DOMAIN new = CacheFields
          /\ SamePorts(c, new) /\ SameDir(c, new)
          /\ new.trans = c.trans /\ new.resets = c.resets + 1
          /\ new.blocks = [s \in Slots |-> NewBlock]
      BY ResetFields
    <3> HIDE DEF new
    <3>2. HardReset(c) =
            [new EXCEPT
               !.topPort = << >>, !.bottomPort = << >>, !.dirBuf = << >>, !.bankBuf = << >>,
               !.mshr = {}, !.toCoalesce = << >>,
               !.bankPipe = EmptyPipe(NumReqPerCycle, BankLatency), !.bankPost = << >>,
               !.transactions = << >>, !.postCoalesce = {},
               !.dropped = @ \cup Elements(c.transactions) \cup Elements(c.topPort)]
      BY DEF HardReset, new
    <3> DEFINE h == HardReset(c)
    <3> HIDE DEF h
    <3>3. /\ DOMAIN h = CacheFields
          /\ h.topPort = << >> /\ h.bottomPort = << >> /\ h.toCoalesce = << >>
      <4>1. DOMAIN h = DOMAIN new
        BY <3>2 DEF h
      <4>2. h.topPort = << >> /\ h.bottomPort = << >> /\ h.toCoalesce = << >>
        BY <3>1, <3>2 DEF h, CacheFields
      <4> QED  BY <3>1, <4>1, <4>2
    <3>10. /\ h.toBottom = c.toBottom
           /\ h.dirBuf = << >> /\ h.dirPipe = c.dirPipe /\ h.dirPost = c.dirPost
      BY <3>1, <3>2 DEF h, CacheFields, SamePorts, SameDir
    <3>4. /\ h.bankBuf = << >> /\ h.bankPipe = EmptyPipe(NumReqPerCycle, BankLatency)
          /\ h.bankPost = << >> /\ h.mshr = {} /\ h.postCoalesce = {}
      BY <3>1, <3>2 DEF h, CacheFields
    <3>5. /\ h.trans = c.trans /\ h.resets = c.resets + 1
          /\ h.blocks = [s \in Slots |-> NewBlock]
      BY <3>1, <3>2 DEF h, CacheFields
    <3>6. d = [h EXCEPT !.isPaused = @ \/ req.pause, !.currFlushReq = << >>,
                        !.flushes = @ + 1, !.progress = TRUE]
      BY <1>3 DEF h
    <3> HIDE DEF req
    <3>7. /\ DOMAIN d = CacheFields
          /\ d.topPort = << >> /\ d.bottomPort = << >> /\ d.toCoalesce = << >>
          /\ d.toBottom = c.toBottom
          /\ d.dirBuf = << >> /\ d.dirPipe = c.dirPipe /\ d.dirPost = c.dirPost
      BY <3>3, <3>6, <3>10 DEF CacheFields
    <3>8. /\ d.bankBuf = << >> /\ d.bankPipe = EmptyPipe(NumReqPerCycle, BankLatency)
          /\ d.bankPost = << >> /\ d.mshr = {} /\ d.postCoalesce = {}
      BY <3>3, <3>4, <3>6 DEF CacheFields
    <3>9. /\ d.trans = c.trans /\ d.resets = c.resets + 1
          /\ d.blocks = [s \in Slots |-> NewBlock]
      BY <3>3, <3>5, <3>6 DEF CacheFields
    <3> QED  BY <3>7, <3>8, <3>9
  <2>2. Ready(d.bottomPort) = {} /\ Elements(d.topPort) = {} /\ Elements(d.toCoalesce) = {}
    BY <2>1, EmptyOf DEF Ready
  <2>3. Good(d)
    BY <2>1, <2>2, EmptyOf, ResetGood
  <2> QED  BY <2>3 DEF d
<1> QED  BY <1>2, <1>3 DEF ProcessCurrentFlush

LEMMA ProcessNewRequestGood == ASSUME NEW c, Good(c) PROVE Good(ProcessNewRequest(c))
<1> DEFINE d == ProcessNewRequest(c)
<1>1. DOMAIN c = CacheFields
  BY DEF Good, Typed
<1>2. CASE d = c
  BY <1>2
<1>3. CASE d = DoCacheRestart(c)
  <2> HIDE DEF d
  <2>1. /\ DOMAIN d = CacheFields
        /\ d.topPort = << >> /\ d.bottomPort = << >> /\ d.toCoalesce = c.toCoalesce
        /\ d.toBottom = c.toBottom
        /\ SameDir(c, d) /\ SameBank(c, d) /\ SameSets(c, d) /\ SameBlocks(c, d)
    BY <1>1, <1>3 DEF DoCacheRestart, CacheFields, SameDir, SameBank, SameSets, SameBlocks
  <2>2. Ready(d.bottomPort) = {} /\ Elements(d.topPort) = {}
    BY <2>1, EmptyOf DEF Ready
  <2>3. Typed(d) /\ OnceEach(d) /\ Exclusive(d)
    BY <2>1, EmptyOf DEF Good, Typed, OnceEach, Exclusive, BankOf, Fillers, BankReaders,
                         SameDir, SameBank, SameSets, SameBlocks
  <2>4. /\ InDirectory(d) = InDirectory(c) /\ BankOf(d) = BankOf(c)
        /\ Fetched(d) \subseteq Fetched(c)
    BY <2>1, <2>2 DEF InDirectory, BankOf, Fetched, SameDir, SameBank
  <2>5. Located(d)
    BY <2>1, <2>2, <2>4 DEF Good, Located, Apart, SameSets
  <2> QED  BY <2>3, <2>5 DEF Good, d
<1>4. CASE d = [c EXCEPT !.currFlushReq = <<Head(c.ctrlPort)>>, !.ctrlPort = Tail(@),
                         !.progress = TRUE]
  <2> HIDE DEF d
  <2>1. /\ DOMAIN d = CacheFields /\ SamePorts(c, d) /\ SameDir(c, d)
        /\ SameBank(c, d) /\ SameSets(c, d) /\ SameBlocks(c, d)
    BY <1>1, <1>4 DEF CacheFields, SamePorts, SameDir, SameBank, SameSets, SameBlocks
  <2> QED  BY <2>1, Frame DEF d
<1> QED  BY <1>2, <1>3, <1>4 DEF ProcessNewRequest

-----------------------------------------------------------------------------
(* Cache.Tick *)
LEMMA BankStageGood == ASSUME NEW c, Good(c) PROVE Good(BankStage(c))
<1>1. Good(Repeat(c, FinalizeTrans))
  BY FinalizeTransGood DEF Repeat, After
<1> DEFINE a == Repeat(c, FinalizeTrans)
           b == After(a, BankPipeline)
<1> HIDE DEF a
<1>2. Good(b)
  BY <1>1, BankPipelineGood DEF After, a
<1> HIDE DEF b
<1>3. Good(Repeat(b, ExtractFromBuf))
  BY <1>2, ExtractFromBufGood DEF Repeat, After
<1> QED  BY <1>3 DEF BankStage, a, b

LEMMA DirectoryStageGood == ASSUME Setting, NEW c, Good(c) PROVE Good(DirectoryStage(c))
<1> DEFINE a == Repeat(c, EnterDirPipeline)
           b == After(a, DirPipeline)
<1>1. Good(a)
  BY EnterDirPipelineGood DEF Repeat, After, Setting
<1> HIDE DEF a
<1>2. Good(b)
  BY <1>1, DirPipelineGood DEF After, Setting
<1> HIDE DEF b
<1>3. Good(Repeat(b, ProcessTransaction))
  BY <1>2, ProcessTransactionGood DEF Repeat, After
<1> QED  BY <1>3 DEF DirectoryStage, a, b

LEMMA RunPipelineGood == ASSUME Setting, NEW c, Good(c) PROVE Good(RunPipeline(c))
<1> DEFINE r == Repeat(c, RespondStage)
           parsed == Repeat(r, BottomParser)
           banks == After(parsed, BankStage)
           first == Repeat(banks, DirectoryStage)
           second == After(banks, DirectoryStage)
<1>1. Good(r)
  BY RespondStageGood DEF Repeat, After
<1> HIDE DEF r
<1>2. Good(parsed)
  BY <1>1, BottomParserGood DEF Repeat, After
<1> HIDE DEF parsed
<1>3. Good(banks)
  BY <1>2, BankStageGood DEF After
<1> HIDE DEF banks
<1>4. Good(first) /\ Good(second)
  BY <1>3, DirectoryStageGood DEF Repeat, After
<1> HIDE DEF first, second
<1>5. Good(After(first, Coalescer)) /\ Good(Repeat(second, Coalescer))
  BY <1>4, CoalescerGood DEF Repeat, After
<1> QED  BY <1>5 DEF RunPipeline, r, parsed, banks, first, second

LEMMA TickedGood == ASSUME Setting, NEW c, Good(c) PROVE Good(Ticked(c))
<1> DEFINE a == After(c, RunUnlessPaused)
           b == After(a, ProcessNewRequest)
<1>1. Good(a)
  BY RunPipelineGood DEF RunUnlessPaused, After
<1> HIDE DEF a
<1>2. Good(b)
  BY <1>1, ProcessNewRequestGood DEF After
<1> HIDE DEF b
<1>3. Good(After(b, ProcessCurrentFlush))
  BY <1>2, ProcessCurrentFlushGood DEF After
<1> QED  BY <1>3 DEF Ticked, a, b

-----------------------------------------------------------------------------
(* The actions *)
Inv == Setting /\ IsSeq(below) /\ Good(cache)

LEMMA SameGood ==
    ASSUME NEW d, Good(d), cache' = d, UNCHANGED <<policy, script, below, sent>>
    PROVE  Good(cache)'
BY DEF Good, Typed, OnceEach, Located, Exclusive, Apart, Fetched, Fillers, BankReaders,
       InDirectory, BankOf, Line

LEMMA TickGood == ASSUME Inv, Tick PROVE Inv'
<1> DEFINE c == Ticked(cache)
           d == [c EXCEPT !.progress = FALSE]
<1>1. cache' = d /\ UNCHANGED <<policy, script, below, sent>>
  BY DEF Tick
<1>2. Good(c) /\ DOMAIN c = CacheFields
  <2>1. Good(c)
    BY TickedGood DEF Inv
  <2> HIDE DEF c
  <2> QED  BY <2>1 DEF Good, Typed
<1> HIDE DEF c
<1>3. /\ DOMAIN d = CacheFields /\ SamePorts(c, d) /\ SameDir(c, d)
      /\ SameBank(c, d) /\ SameSets(c, d) /\ SameBlocks(c, d)
  BY <1>2 DEF CacheFields, SamePorts, SameDir, SameBank, SameSets, SameBlocks
<1> HIDE DEF d
<1>4. Good(d)
  BY <1>2, <1>3, Frame
<1>5. Good(cache)'
  BY <1>1, <1>4, SameGood
<1>6. Setting' /\ IsSeq(below)'
  BY <1>1 DEF Inv, Setting
<1> QED  BY <1>5, <1>6 DEF Inv

(* What the requester and the memory do between two ticks. *)
LEMMA BetweenTicks ==
    ASSUME Good(cache), UNCHANGED <<policy, script, sent>>, DOMAIN cache' = CacheFields,
           cache'.topPort = cache.topPort, cache'.toCoalesce = cache.toCoalesce,
           IsSeq(cache'.toBottom), IsSeq(cache'.bottomPort),
           Asked(cache'.toBottom) \cup Asked(below') \cup Ready(cache'.bottomPort)
              \subseteq Fetched(cache),
           SameDir(cache, cache'), SameBank(cache, cache'), SameSets(cache, cache'),
           SameBlocks(cache, cache')
    PROVE  Good(cache)'
<1>1. InDirectory(cache)' = InDirectory(cache) /\ BankOf(cache)' = BankOf(cache)
  BY DEF InDirectory, BankOf, SameDir, SameBank
<1>2. Fetched(cache)' \subseteq Fetched(cache)
  BY DEF Fetched
<1>3. Typed(cache)' /\ OnceEach(cache)'
  BY DEF Good, Typed, OnceEach, SameDir, SameBank, SameBlocks
<1>4. Located(cache)'
  BY <1>1, <1>2 DEF Good, Located, Apart, Line, SameSets
<1>5. Exclusive(cache)'
  BY <1>1 DEF Good, Exclusive, Fillers, BankReaders, SameSets, SameBlocks
<1> QED  BY <1>3, <1>4, <1>5 DEF Good

LEMMA SendRequestGood == ASSUME Inv, SendRequest PROVE Inv'
<1>1. /\ DOMAIN cache = CacheFields /\ IsSeq(cache.topPort) /\ Once(cache.topPort)
      /\ sent \in Nat /\ Len(script) \in Nat /\ sent <= Len(script)
  BY DEF Inv, Good, Typed, OnceEach, Setting
<1>2. /\ UNCHANGED <<policy, script, below>> /\ sent' = sent + 1 /\ sent < Len(script)
      /\ cache' = [cache EXCEPT !.topPort = Append(@, sent + 1)]
  BY DEF SendRequest
<1>3. /\ DOMAIN cache' = CacheFields
      /\ cache'.topPort = Append(cache.topPort, sent + 1)
      /\ cache'.toCoalesce = cache.toCoalesce
      /\ cache'.toBottom = cache.toBottom /\ cache'.bottomPort = cache.bottomPort
      /\ SameDir(cache, cache') /\ SameBank(cache, cache') /\ SameSets(cache, cache')
      /\ SameBlocks(cache, cache')
  BY <1>1, <1>2 DEF CacheFields, SameDir, SameBank, SameSets, SameBlocks
<1>4. /\ Elements(cache.topPort) \subseteq 1..sent /\ sent + 1 \notin 1..sent
      /\ 1..sent' = 1..sent \cup {sent + 1}
  BY <1>1, <1>2 DEF Inv, Good, Located, Apart
<1>5. /\ IsSeq(cache'.topPort) /\ Once(cache'.topPort)
      /\ Elements(cache'.topPort) = Elements(cache.topPort) \cup {sent + 1}
  BY <1>1, <1>3, <1>4, AppendOf
<1>6. /\ InDirectory(cache)' = InDirectory(cache) /\ BankOf(cache)' = BankOf(cache)
      /\ Fetched(cache)' = Fetched(cache)
  BY <1>2, <1>3 DEF InDirectory, BankOf, Fetched, SameDir, SameBank
<1>7. Typed(cache)' /\ OnceEach(cache)'
  BY <1>2, <1>3, <1>5 DEF Inv, Good, Typed, OnceEach, SameDir, SameBank, SameBlocks
<1>8. Located(cache)'
  <2> DEFINE rest == InDirectory(cache) \cup BankOf(cache) \cup cache.mshr
                        \cup cache.postCoalesce \cup Fetched(cache)
  <2>1. /\ Elements(cache.topPort) \cup Elements(cache.toCoalesce) \cup rest \subseteq 1..sent
        /\ (Elements(cache.topPort) \cup Elements(cache.toCoalesce)) \cap rest = {}
        /\ Elements(cache.topPort) \cap Elements(cache.toCoalesce) = {}
        /\ InDirectory(cache) \cap (cache.mshr \cup BankOf(cache)) = {}
        /\ cache.mshr \cap BankOf(cache) = {}
        /\ Fetched(cache) \cap cache.postCoalesce \subseteq cache.mshr
        /\ \A d, e \in cache.mshr : script[d].line = script[e].line => d = e
    BY DEF Inv, Good, Located, Apart, Line
  <2>2. rest' = rest
    BY <1>3, <1>6 DEF SameSets
  <2> HIDE DEF rest
  <2>3. sent + 1 \notin rest /\ sent + 1 \notin Elements(cache.toCoalesce)
    BY <1>4, <2>1
  <2>4. /\ Elements(cache'.topPort) \cup Elements(cache'.toCoalesce) \cup rest' \subseteq 1..sent'
        /\ (Elements(cache'.topPort) \cup Elements(cache'.toCoalesce)) \cap rest' = {}
        /\ Elements(cache'.topPort) \cap Elements(cache'.toCoalesce) = {}
    BY <1>3, <1>4, <1>5, <2>1, <2>2, <2>3
  <2>5. /\ \A d, e \in cache'.mshr : script'[d].line = script'[e].line => d = e
        /\ cache'.mshr = cache.mshr /\ cache'.postCoalesce = cache.postCoalesce
    BY <1>2, <1>3, <2>1 DEF SameSets
  <2> QED  BY <1>6, <2>1, <2>4, <2>5 DEF Located, Apart, Line, rest
<1>9. Exclusive(cache)'
  BY <1>2, <1>3, <1>6 DEF Inv, Good, Exclusive, Fillers, BankReaders, SameSets, SameBlocks
<1>10. Setting' /\ IsSeq(below)'
  BY <1>1, <1>2 DEF Inv, Setting
<1> QED  BY <1>7, <1>8, <1>9, <1>10 DEF Inv, Good

(* The requester and the memory touch the ports of the cache only. *)
LEMMA PortsOnly ==
    ASSUME Inv, UNCHANGED <<policy, script, below, sent>>,
           \/ \E q : cache' = [cache EXCEPT !.toTop = q]
           \/ \E q : cache' = [cache EXCEPT !.ctrlPort = q]
    PROVE  Inv'
<1>1. DOMAIN cache = CacheFields
  BY DEF Inv, Good, Typed
<1>2. /\ DOMAIN cache' = CacheFields /\ SamePorts(cache, cache') /\ SameDir(cache, cache')
      /\ SameBank(cache, cache') /\ SameSets(cache, cache') /\ SameBlocks(cache, cache')
  BY <1>1 DEF CacheFields, SamePorts, SameDir, SameBank, SameSets, SameBlocks
<1>3. Good(cache)'
  BY <1>2, BetweenTicks DEF SamePorts, Inv, Good, Typed, Fetched
<1> QED  BY <1>3 DEF Inv, Setting

LEMMA TakeRequestGood == ASSUME Inv, TakeRequest PROVE Inv'
<1>1. /\ DOMAIN cache = CacheFields /\ IsSeq(cache.toBottom) /\ IsSeq(below)
      /\ IsSeq(cache.bottomPort) /\ cache.toBottom # << >>
  BY DEF Inv, Good, Typed, TakeRequest
<1>2. /\ UNCHANGED <<policy, script, sent>>
      /\ below' = Append(below, Head(cache.toBottom))
      /\ cache' = [cache EXCEPT !.toBottom = Tail(@)]
  BY DEF TakeRequest
<1>3. /\ DOMAIN cache' = CacheFields
      /\ cache'.topPort = cache.topPort /\ cache'.toCoalesce = cache.toCoalesce
      /\ cache'.toBottom = Tail(cache.toBottom) /\ cache'.bottomPort = cache.bottomPort
      /\ SameDir(cache, cache') /\ SameBank(cache, cache') /\ SameSets(cache, cache')
      /\ SameBlocks(cache, cache')
  BY <1>1, <1>2 DEF CacheFields, SameDir, SameBank, SameSets, SameBlocks
<1>4. /\ IsSeq(cache'.toBottom)
      /\ Elements(cache.toBottom) = {Head(cache.toBottom)} \cup Elements(cache'.toBottom)
  BY <1>1, <1>3, TailOf
<1>5. IsSeq(below') /\ Elements(below') = Elements(below) \cup {Head(cache.toBottom)}
  BY <1>1, <1>2, AppendOf
<1>6. Asked(cache'.toBottom) \cup Asked(below') \cup Ready(cache'.bottomPort)
        \subseteq Fetched(cache)
  BY <1>3, <1>4, <1>5 DEF Asked, Fetched
<1>7. Good(cache)'
  BY <1>1, <1>2, <1>3, <1>4, <1>6, BetweenTicks DEF Inv
<1> QED  BY <1>2, <1>5, <1>7 DEF Inv, Setting

(* The memory serves any of the requests below. *)
LEMMA RemoveAtOf ==
    ASSUME NEW q, IsSeq(q), NEW i \in DOMAIN q
    PROVE  IsSeq(RemoveAt(q, i)) /\ Elements(RemoveAt(q, i)) \subseteq Elements(q)
<1>1. /\ Len(q) \in Nat /\ DOMAIN q = 1..Len(q) /\ i \in 1..Len(q) /\ q \in Seq(Elements(q))
  BY SeqShape DEF IsSeq
<1>2. RemoveAt(q, i) \in Seq(Elements(q))
  BY <1>1 DEF RemoveAt
<1> HIDE DEF RemoveAt
<1>3. IsSeq(RemoveAt(q, i))
  BY <1>2, IsSeqBy
<1>4. \A j \in DOMAIN RemoveAt(q, i) : RemoveAt(q, i)[j] \in Elements(q)
  BY <1>2
<1> QED  BY <1>3, <1>4 DEF Elements

LEMMA ServeMemoryGood == ASSUME Inv, ServeMemory PROVE Inv'
<1>1. /\ DOMAIN cache = CacheFields /\ IsSeq(cache.toBottom) /\ IsSeq(below)
      /\ IsSeq(cache.bottomPort)
  BY DEF Inv, Good, Typed
<1>2. PICK i \in DOMAIN below :
        /\ UNCHANGED <<policy, script, sent>>
        /\ below' = RemoveAt(below, i)
        /\ \E data : cache' = [cache EXCEPT !.bottomPort =
              Append(@, [op |-> below[i].op, to |-> below[i].trans, data |-> data])]
  BY DEF ServeMemory
<1>3. PICK data : cache' = [cache EXCEPT !.bottomPort =
              Append(@, [op |-> below[i].op, to |-> below[i].trans, data |-> data])]
  BY <1>2
<1> DEFINE m == [op |-> below[i].op, to |-> below[i].trans, data |-> data]
<1>4. /\ DOMAIN cache' = CacheFields
      /\ cache'.topPort = cache.topPort /\ cache'.toCoalesce = cache.toCoalesce
      /\ cache'.toBottom = cache.toBottom /\ cache'.bottomPort = Append(cache.bottomPort, m)
      /\ SameDir(cache, cache') /\ SameBank(cache, cache') /\ SameSets(cache, cache')
      /\ SameBlocks(cache, cache')
  BY <1>1, <1>3 DEF CacheFields, SameDir, SameBank, SameSets, SameBlocks
<1>5. m.op = below[i].op /\ m.to = below[i].trans
  OBVIOUS
<1> HIDE DEF m
<1>6. IsSeq(below') /\ Elements(below') \subseteq Elements(below) /\ below[i] \in Elements(below)
  BY <1>1, <1>2, RemoveAtOf DEF Elements
<1>7. /\ IsSeq(cache'.bottomPort)
      /\ Elements(cache'.bottomPort) = Elements(cache.bottomPort) \cup {m}
  BY <1>1, <1>4, AppendOf
<1>8. Asked(cache'.toBottom) \cup Asked(below') \cup Ready(cache'.bottomPort)
        \subseteq Fetched(cache)
  <2>1. Asked(below') \subseteq Asked(below)
    BY <1>6 DEF Asked
  <2>2. Ready(cache'.bottomPort) \subseteq Ready(cache.bottomPort) \cup Asked(below)
    BY <1>5, <1>6, <1>7 DEF Asked, Ready
  <2> QED  BY <1>4, <2>1, <2>2 DEF Fetched
<1>9. Good(cache)'
  BY <1>1, <1>2, <1>4, <1>7, <1>8, BetweenTicks DEF Inv
<1> QED  BY <1>2, <1>6, <1>9 DEF Inv, Setting

-----------------------------------------------------------------------------
LEMMA InitGood == ASSUME Init PROVE Inv
<1>1. /\ policy \in Policies /\ script \in Seq(Requests) /\ sent = 0 /\ below = << >>
  BY L1Assumption DEF Init
<1>2. Setting /\ IsSeq(below)
  BY <1>1, EmptyOf DEF Setting
<1> DEFINE n == DirLatency[policy]
<1>3. n \in Nat
  BY <1>1, L1Assumption
<1>4. /\ DOMAIN cache = CacheFields
      /\ cache.topPort = << >> /\ cache.toCoalesce = << >>
      /\ cache.toBottom = << >> /\ cache.bottomPort = << >>
      /\ cache.dirBuf = << >> /\ cache.dirPipe = EmptyPipe(NumReqPerCycle, n)
      /\ cache.dirPost = << >>
      /\ cache.bankBuf = << >> /\ cache.bankPipe = EmptyPipe(NumReqPerCycle, BankLatency)
      /\ cache.bankPost = << >> /\ cache.mshr = {} /\ cache.postCoalesce = {}
      /\ cache.resets = 0 /\ cache.blocks = [s \in Slots |-> NewBlock]
      /\ cache.trans = [t \in DOMAIN script |->
                       [action |-> "none", block |-> None, resets |-> 0, data |-> Zeros,
                        fetchAndWrite |-> FALSE, wroteBottom |-> FALSE]]
  BY DEF Init, CacheFields
<1>5. /\ IsLine(NumReqPerCycle, n, cache.dirBuf, cache.dirPipe, cache.dirPost)
      /\ OnceInLine(cache.dirBuf, cache.dirPipe, cache.dirPost) /\ InDirectory(cache) = {}
      /\ IsLine(NumReqPerCycle, BankLatency, cache.bankBuf, cache.bankPipe, cache.bankPost)
      /\ OnceInLine(cache.bankBuf, cache.bankPipe, cache.bankPost) /\ BankOf(cache) = {}
  <2> HIDE DEF n
  <2> QED  BY <1>3, <1>4, LineEmpty, Widths DEF InDirectory, BankOf
<1>6. /\ DOMAIN cache.trans = DOMAIN script
      /\ \A t \in DOMAIN script : /\ DOMAIN cache.trans[t] = TransFields
                                  /\ cache.trans[t].resets \in Nat
  BY <1>4 DEF TransFields
<1>7. /\ DOMAIN cache.blocks = Slots
      /\ \A s \in Slots : /\ DOMAIN cache.blocks[s] = BlockFields
                          /\ cache.blocks[s].locked = FALSE /\ cache.blocks[s].readCount = 0
  BY <1>4 DEF NewBlock, BlockFields
<1>8. Typed(cache) /\ OnceEach(cache)
  BY <1>4, <1>5, <1>6, <1>7, EmptyOf DEF Typed, OnceEach
<1>9. Located(cache)
  <2>1. /\ Elements(cache.topPort) = {} /\ Elements(cache.toCoalesce) = {}
        /\ Fetched(cache) = {}
    BY <1>1, <1>4, EmptyOf DEF Fetched, Asked, Ready
  <2> QED  BY <1>4, <1>5, <2>1 DEF Located, Apart
<1>10. Exclusive(cache)
  <2>1. Fillers(cache) = {} /\ BankReaders(cache) = {}
    BY <1>4, <1>5 DEF Fillers, BankReaders
  <2>2. \A s : At({}, cache.trans, cache.resets, s) = {}
    BY DEF At
  <2>3. Excl({}, {}, cache.trans, cache.resets, cache.blocks)
    BY <1>7, <2>2, FS_EmptySet DEF Excl
  <2> QED  BY <1>5, <2>1, <2>3 DEF Exclusive
<1> QED  BY <1>2, <1>8, <1>9, <1>10 DEF Inv, Good

LEMMA NextGood == ASSUME Inv, [Next]_vars PROVE Inv'
<1>1. CASE Tick
  BY <1>1, TickGood
<1>2. CASE SendRequest
  BY <1>2, SendRequestGood
<1>3. CASE ReceiveResponse
  BY <1>3, PortsOnly DEF ReceiveResponse
<1>4. CASE SendControl
  BY <1>4, PortsOnly DEF SendControl
<1>5. CASE TakeRequest
  BY <1>5, TakeRequestGood
<1>6. CASE ServeMemory
  BY <1>6, ServeMemoryGood
<1>7. CASE UNCHANGED vars
  <2>1. cache' = cache /\ UNCHANGED <<policy, script, below, sent>>
    BY <1>7 DEF vars
  <2>2. Good(cache)'
    BY <2>1, SameGood DEF Inv
  <2> QED  BY <2>1, <2>2 DEF Inv, Setting
<1> QED  BY <1>1, <1>2, <1>3, <1>4, <1>5, <1>6, <1>7 DEF Next

LEMMA GoodIsExclusive == ASSUME Inv PROVE BlocksAreExclusive
<1> DEFINE F == Fillers(cache)
           R == BankReaders(cache)
<1>1. Excl(F, R, cache.trans, cache.resets, cache.blocks)
  BY DEF Inv, Good, Exclusive
<1>2. InBank = BankOf(cache)
  BY DEF InBank, BankOf, InLine
<1>3. ASSUME NEW s \in Slots
      PROVE  /\ Holders(s) = At(F, cache.trans, cache.resets, s)
             /\ Readers(s) = At(R, cache.trans, cache.resets, s)
  BY <1>2 DEF Holders, Readers, At, Fillers, BankReaders
<1> HIDE DEF F, R
<1>4. ASSUME NEW s \in Slots
      PROVE  /\ Cardinality(Holders(s)) = IF cache.blocks[s].locked THEN 1 ELSE 0
             /\ Cardinality(Readers(s)) = cache.blocks[s].readCount
             /\ cache.blocks[s].locked => cache.blocks[s].readCount = 0
  <2>1. CASE cache.blocks[s].locked
    <3>1. PICK t : Holders(s) = {t}
      BY <1>1, <1>3, <2>1 DEF Excl
    <3>2. Cardinality(Holders(s)) = 1
      BY <3>1, FS_Singleton
    <3> QED  BY <1>1, <1>3, <2>1, <3>2 DEF Excl
  <2>2. CASE ~cache.blocks[s].locked
    <3>1. Holders(s) = {}
      BY <1>1, <1>3, <2>2 DEF Excl
    <3>2. Cardinality(Holders(s)) = 0
      BY <3>1, FS_EmptySet
    <3> QED  BY <1>1, <1>3, <2>2, <3>2 DEF Excl
  <2> QED  BY <2>1, <2>2
<1> QED  BY <1>4 DEF BlocksAreExclusive

(* A block is locked exactly while one transaction fetches or writes its     *)
(* line, its read count counts the reads in the bank, and the two exclude    *)
(* each other, for each of the three caches, for every size of it, every     *)
(* sequence of requests and every control request, those that discard or     *)
(* pause included.                                                           *)
THEOREM BlocksAlwaysExclusive == Spec => []BlocksAreExclusive
<1>1. Init => Inv
  BY InitGood
<1>2. Inv /\ [Next]_vars => Inv'
  BY NextGood
<1>3. Inv => BlocksAreExclusive
  BY GoodIsExclusive
<1> QED  BY <1>1, <1>2, <1>3, PTL DEF Spec
=============================================================================
