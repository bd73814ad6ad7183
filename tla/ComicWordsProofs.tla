-------------------------- MODULE ComicWordsProofs --------------------------
(***************************************************************************)
(* Proofs about ComicWords for any texts, sizes and limits: splitting      *)
(* loses nothing, chunks fit, only a long word is refused, and a row has   *)
(* all the words of its text.  What a recursive function computes is       *)
(* proved by induction in its set form, which needs no operator parameter. *)
(***************************************************************************)
EXTENDS ComicWords, FiniteSetTheorems, TLAPS

(***************************************************************************)
(* Induction and recursion over numbers                                    *)
(***************************************************************************)
(* the initial segments of Nat that a set of numbers bounds have a smallest *)
LEMMA LeastNumber ==
  ASSUME NEW T \in SUBSET Nat, T # {}
  PROVE  \E m \in T : \A k \in T : m <= k
<1>. DEFINE Below == {1 .. m : m \in T}
<1>1. IsWellFoundedOn(StrictSubsetOrdering(Nat), FiniteSubsetsOf(Nat))
  BY FS_StrictSubsetOrderingWellFounded
<1>2. Below # {} /\ Below \subseteq FiniteSubsetsOf(Nat)
  <2>1. \A m \in T : IsFiniteSet(1 .. m) /\ 1 .. m \in SUBSET Nat
    BY FS_Interval
  <2>. QED
    BY <2>1 DEF FiniteSubsetsOf
<1>. HIDE DEF Below
<1>3. PICK U \in Below : \A V \in Below : <<V, U>> \notin StrictSubsetOrdering(Nat)
  BY <1>1, <1>2, WFMin
<1>4. PICK m \in T : U = 1 .. m
  BY DEF Below
<1>5. ASSUME NEW k \in T, k < m PROVE FALSE
  <2>1. 1 .. k \in Below
    BY DEF Below
  <2>2. 1 .. k \subseteq 1 .. m /\ m \in 1 .. m /\ m \notin 1 .. k
    BY <1>5
  <2>3. <<1 .. k, U>> \in StrictSubsetOrdering(Nat)
    BY <1>4, <2>2 DEF StrictSubsetOrdering
  <2>. QED
    BY <1>3, <2>1, <2>3
<1>. QED
  BY <1>5

(* the numbers a statement holds for are a set *)
LEMMA Induction ==
  ASSUME NEW n \in Nat, NEW S, 0 \in S, \A k \in 0 .. n - 1 : k \in S => k + 1 \in S
  PROVE  0 .. n \subseteq S
<1>. DEFINE T == (0 .. n) \ S
<1>. SUFFICES ASSUME T # {} PROVE FALSE
  OBVIOUS
<1>1. T \in SUBSET Nat
  OBVIOUS
<1>2. PICK m \in T : \A k \in T : m <= k
  <2>. HIDE DEF T
  <2>. QED
    BY <1>1, LeastNumber
<1>3. m - 1 \in 0 .. n - 1 /\ m - 1 \in S
  BY <1>2
<1>. QED
  BY <1>2, <1>3

(* f is computed from base by n steps *)
Iterates(f, n, base, step, V) ==
    /\ f \in [0 .. n -> V] /\ f[0] = base
    /\ \A k \in 1 .. n : f[k] = step[<<f[k - 1], k>>]

(* such an f exists *)
LEMMA RecursionExists ==
  ASSUME NEW V, NEW base \in V, NEW n \in Nat, NEW step \in [V \X (1 .. n) -> V]
  PROVE  \E f : Iterates(f, n, base, step, V)
<1>. DEFINE F(m) == {f \in [0 .. m -> V] :
                        f[0] = base /\ \A k \in 1 .. m : f[k] = step[<<f[k - 1], k>>]}
            S == {m \in 0 .. n : F(m) # {}}
<1>1. 0 \in S
  <2>1. [k \in 0 .. 0 |-> base] \in F(0)
    OBVIOUS
  <2>. QED
    BY <2>1
<1>2. ASSUME NEW m \in 0 .. n - 1, m \in S PROVE m + 1 \in S
  <2>1. PICK f \in F(m) : TRUE
    BY <1>2
  <2>2. f[m] \in V /\ m + 1 \in 1 .. n /\ step[<<f[m], m + 1>>] \in V
    BY <2>1
  <2>. DEFINE g == [k \in 0 .. m + 1 |-> IF k = m + 1 THEN step[<<f[m], m + 1>>] ELSE f[k]]
  <2>3. g \in [0 .. m + 1 -> V] /\ g[0] = base
    BY <2>1, <2>2
  <2>4. ASSUME NEW k \in 1 .. m + 1 PROVE g[k] = step[<<g[k - 1], k>>]
    <3>1. CASE k = m + 1
      <4>1. g[m + 1] = step[<<f[m], m + 1>>] /\ g[m] = f[m]
        OBVIOUS
      <4>2. k - 1 = m
        BY <3>1
      <4>. QED
        BY <3>1, <4>1, <4>2
    <3>2. CASE k \in 1 .. m
      <4>1. g[k] = f[k] /\ g[k - 1] = f[k - 1]
        BY <3>2
      <4>. QED
        BY <2>1, <3>2, <4>1
    <3>. QED
      BY <3>1, <3>2
  <2>5. g \in F(m + 1)
    BY <2>3, <2>4
  <2>6. m + 1 \in 0 .. n
    OBVIOUS
  <2>. HIDE DEF F
  <2>. QED
    BY <2>5, <2>6
<1>. HIDE DEF S
<1>3. n \in S
  BY <1>1, <1>2, Induction
<1>. QED
  BY <1>3 DEF S, Iterates

(* f and g take the same n steps from the same base *)
SameSteps(f, g, n) ==
    /\ f[0] = g[0]
    /\ \A k \in 1 .. n : f[k - 1] = g[k - 1] => f[k] = g[k]

(* and then they arrive at the same value *)
LEMMA RecursionUnique ==
  ASSUME NEW n \in Nat, NEW f, NEW g, SameSteps(f, g, n)
  PROVE  f[n] = g[n]
<1>. USE DEF SameSteps
<1>. DEFINE S == {k \in 0 .. n : f[k] = g[k]}
<1>1. \A k \in 0 .. n - 1 : k \in S => k + 1 \in S
  <2>1. ASSUME NEW k \in 0 .. n - 1, f[k] = g[k] PROVE f[k + 1] = g[k + 1]
    <3>1. k + 1 \in 1 .. n /\ (k + 1) - 1 = k
      OBVIOUS
    <3>. QED
      BY <2>1, <3>1
  <2>. QED
    BY <2>1
<1>2. 0 \in S
  OBVIOUS
<1>. HIDE DEF S
<1>3. 0 .. n \subseteq S
  BY <1>1, <1>2, Induction
<1>. QED
  BY <1>3 DEF S

(***************************************************************************)
(* Bytes: the size of a chunk                                              *)
(***************************************************************************)
(* what a token adds to the chunk it is put into *)
Adds(chunk, k) == Size[chunk[k]] + (IF k = 1 THEN 0 ELSE 1)

(* Bytes is the last of the sums of what the tokens add *)
LEMMA BytesIsSum ==
  ASSUME NEW chunk \in Seq(Tokens)
  PROVE  \E f \in [0 .. Len(chunk) -> Nat] :
            /\ f[0] = 0
            /\ \A k \in 1 .. Len(chunk) : f[k] = f[k - 1] + Adds(chunk, k)
            /\ Bytes(chunk) = f[Len(chunk)]
<1>. DEFINE n == Len(chunk)
            Solves(f) == f = [k \in 0 .. n |->
                IF k = 0 THEN 0
                ELSE f[k - 1] + Size[chunk[k]] + (IF k = 1 THEN 0 ELSE 1)]
            step == [p \in Nat \X (1 .. n) |-> p[1] + Adds(chunk, p[2])]
<1>0. n \in Nat
  OBVIOUS
<1>1. \A k \in 1 .. n : Size[chunk[k]] \in Nat
  BY SizeAssumption
<1>2. step \in [Nat \X (1 .. n) -> Nat]
  BY <1>1 DEF Adds
<1>3. PICK f : Iterates(f, n, 0, step, Nat)
  <2>1. 0 \in Nat
    OBVIOUS
  <2>. HIDE DEF step, n
  <2>. QED
    BY <1>0, <1>2, <2>1, RecursionExists
<1>. USE DEF Iterates
<1>4. \A k \in 1 .. n : f[k - 1] \in Nat /\ f[k] = f[k - 1] + Adds(chunk, k)
  <2>1. ASSUME NEW k \in 1 .. n PROVE f[k - 1] \in Nat /\ f[k] = f[k - 1] + Adds(chunk, k)
    <3>1. f[k - 1] \in Nat
      BY <1>0, <1>3
    <3>. QED
      BY <1>3, <3>1
  <2>. QED
    BY <2>1
<1>5. Solves(f)
  <2>1. \A k \in 0 .. n : f[k] = IF k = 0 THEN 0
                                 ELSE f[k - 1] + Size[chunk[k]] + (IF k = 1 THEN 0 ELSE 1)
    <3>1. ASSUME NEW k \in 1 .. n
          PROVE  f[k] = f[k - 1] + Size[chunk[k]] + (IF k = 1 THEN 0 ELSE 1)
      <4>1. Size[chunk[k]] \in Nat /\ f[k - 1] \in Nat /\ f[k] = f[k - 1] + Adds(chunk, k)
        BY <1>1, <1>4
      <4>. QED
        BY <4>1 DEF Adds
    <3>. QED
      BY <1>0, <1>3, <3>1
  <2>. QED
    BY <1>3, <2>1
<1>. DEFINE g == CHOOSE h : Solves(h)
<1>6. Solves(g)
  BY <1>5
<1>7. Bytes(chunk) = g[n]
  BY DEF Bytes
<1>8. SameSteps(f, g, n)
  <2>. HIDE DEF g
  <2>1. \A k \in 0 .. n : g[k] = IF k = 0 THEN 0
                                 ELSE g[k - 1] + Size[chunk[k]] + (IF k = 1 THEN 0 ELSE 1)
    BY <1>6
  <2>2. \A k \in 0 .. n : f[k] = IF k = 0 THEN 0
                                 ELSE f[k - 1] + Size[chunk[k]] + (IF k = 1 THEN 0 ELSE 1)
    BY <1>5
  <2>. QED
    BY <1>0, <2>1, <2>2 DEF SameSteps
<1>9. f[n] = g[n]
  <2>. HIDE DEF g, n
  <2>. QED
    BY <1>0, <1>8, RecursionUnique
<1>. QED
  BY <1>3, <1>4, <1>7, <1>9

LEMMA BytesEmpty == Bytes(<<>>) = 0
<1>1. <<>> \in Seq(Tokens) /\ Len(<<>>) = 0
  OBVIOUS
<1>. QED
  BY <1>1, BytesIsSum

LEMMA BytesType ==
  ASSUME NEW chunk \in Seq(Tokens)
  PROVE  Bytes(chunk) \in Nat
<1>. QED
  BY BytesIsSum

(* a token more, and a space unless it is the first *)
LEMMA BytesAppend ==
  ASSUME NEW chunk \in Seq(Tokens), NEW t \in Tokens
  PROVE  Bytes(Append(chunk, t)) = Bytes(chunk) + Size[t] + (IF chunk = <<>> THEN 0 ELSE 1)
<1>. DEFINE n    == Len(chunk)
            more == Append(chunk, t)
<1>0. n \in Nat
  OBVIOUS
<1>1. /\ more \in Seq(Tokens) /\ Len(more) = n + 1 /\ more[n + 1] = t
      /\ n = 0 <=> chunk = <<>>
      /\ \A k \in 1 .. n : more[k] = chunk[k]
  OBVIOUS
<1>2. PICK f : /\ f \in [0 .. n -> Nat] /\ f[0] = 0 /\ Bytes(chunk) = f[n]
               /\ \A k \in 1 .. n : f[k] = f[k - 1] + Adds(chunk, k)
  BY BytesIsSum
<1>3. PICK g : /\ g \in [0 .. n + 1 -> Nat] /\ g[0] = 0 /\ Bytes(more) = g[n + 1]
               /\ \A k \in 1 .. n + 1 : g[k] = g[k - 1] + Adds(more, k)
  <2>. HIDE DEF more
  <2>. QED
    BY <1>1, BytesIsSum
<1>. HIDE DEF more, n
<1>4. \A k \in 1 .. n : Adds(more, k) = Adds(chunk, k)
  BY <1>1 DEF Adds
<1>5. SameSteps(f, g, n)
  BY <1>0, <1>2, <1>3, <1>4 DEF SameSteps
<1>6. f[n] = g[n]
  BY <1>0, <1>5, RecursionUnique
<1>7. g[n + 1] = g[n] + Adds(more, n + 1) /\ g[n] \in Nat
  BY <1>0, <1>1, <1>3
<1>8. Size[t] \in Nat
  BY SizeAssumption
<1>. QED
  BY <1>0, <1>1, <1>2, <1>3, <1>6, <1>7, <1>8 DEF Adds, more

(* a chunk of one token has the size of the token *)
LEMMA BytesSingle ==
  ASSUME NEW t \in Tokens
  PROVE  Bytes(Append(<<>>, t)) = Size[t]
<1>1. <<>> \in Seq(Tokens) /\ Size[t] \in Nat
  BY SizeAssumption
<1>2. Bytes(Append(<<>>, t)) = Bytes(<<>>) + Size[t] + (IF <<>> = <<>> THEN 0 ELSE 1)
  BY <1>1, BytesAppend
<1>. QED
  BY <1>1, <1>2, BytesEmpty

(* a chunk is no smaller than any of its tokens *)
LEMMA BytesCoverToken ==
  ASSUME NEW chunk \in Seq(Tokens), NEW t, Holds(chunk, t)
  PROVE  Size[t] <= Bytes(chunk)
<1>. DEFINE n == Len(chunk)
<1>1. PICK f : /\ f \in [0 .. n -> Nat] /\ f[0] = 0 /\ Bytes(chunk) = f[n]
               /\ \A k \in 1 .. n : f[k] = f[k - 1] + Adds(chunk, k)
  BY BytesIsSum
<1>2. n \in Nat /\ \A k \in 1 .. n : Size[chunk[k]] \in Nat
  BY SizeAssumption
<1>. DEFINE S == {k \in 0 .. n : \A j \in 1 .. k : Size[chunk[j]] <= f[k]}
<1>3. 0 \in S
  BY <1>2
<1>4. ASSUME NEW k \in 0 .. n - 1, k \in S PROVE k + 1 \in S
  <2>1. /\ k + 1 \in 1 .. n /\ f[k] \in Nat /\ f[k + 1] \in Nat
        /\ f[k + 1] = f[k] + Adds(chunk, k + 1)
    BY <1>1, <1>2
  <2>2. f[k + 1] >= f[k] /\ f[k + 1] >= Size[chunk[k + 1]]
    BY <1>2, <2>1 DEF Adds
  <2>3. ASSUME NEW j \in 1 .. k + 1 PROVE Size[chunk[j]] <= f[k + 1]
    <3>1. CASE j = k + 1
      BY <2>2, <3>1
    <3>2. CASE j \in 1 .. k
      <4>1. Size[chunk[j]] <= f[k] /\ j \in 1 .. n
        BY <1>4, <3>2
      <4>. QED
        BY <1>2, <2>1, <2>2, <4>1
    <3>. QED
      BY <3>1, <3>2
  <2>. QED
    BY <1>2, <2>3
<1>5. n \in S
  <2>. HIDE DEF S, n
  <2>1. 0 .. n \subseteq S
    BY <1>2, <1>3, <1>4, Induction
  <2>. QED
    BY <1>2, <2>1
<1>6. PICK j \in 1 .. n : chunk[j] = t
  BY DEF Holds
<1>. QED
  BY <1>1, <1>5, <1>6

(***************************************************************************)
(* FlattenSeq: the tokens of all chunks                                    *)
(***************************************************************************)
(* FlattenSeq is computed chunk by chunk from the empty sequence *)
LEMMA FlattenIterates ==
  ASSUME NEW list \in Seq(Seq(Tokens))
  PROVE  \E f : /\ f \in [0 .. Len(list) -> Seq(Tokens)] /\ f[0] = <<>>
                /\ \A k \in 1 .. Len(list) : f[k] = f[k - 1] \o list[k]
                /\ Lists!FlattenSeq(list) = f[Len(list)]
<1>. DEFINE n == Len(list)
            V == Seq(Tokens)
            Solves(f) == f = [i \in 1 .. n |-> IF i = 1 THEN list[i] ELSE f[i - 1] \o list[i]]
            step == [p \in V \X (1 .. n) |-> p[1] \o list[p[2]]]
<1>0. n \in Nat
  OBVIOUS
<1>1. <<>> \in V /\ step \in [V \X (1 .. n) -> V]
  OBVIOUS
<1>2. PICK f : Iterates(f, n, <<>>, step, V)
  <2>. HIDE DEF step, n, V
  <2>. QED
    BY <1>0, <1>1, RecursionExists
<1>. USE DEF Iterates
<1>3. \A k \in 1 .. n : f[k - 1] \in V /\ f[k] = f[k - 1] \o list[k]
  <2>1. ASSUME NEW k \in 1 .. n PROVE f[k - 1] \in V /\ f[k] = f[k - 1] \o list[k]
    <3>1. k - 1 \in 0 .. n /\ f \in [0 .. n -> V]
      BY <1>0, <1>2
    <3>2. f[k - 1] \in V
      <4>. HIDE DEF V, n
      <4>. QED
        BY <3>1
    <3>3. step[<<f[k - 1], k>>] = f[k - 1] \o list[k]
      BY <3>2
    <3>. QED
      BY <1>2, <3>2, <3>3
  <2>. QED
    BY <2>1
<1>4. CASE n = 0
  <2>1. list = <<>>
    BY <1>4
  <2>. QED
    BY <1>2, <1>3, <1>4, <2>1 DEF Lists!FlattenSeq
<1>5. CASE n # 0
  <2>. DEFINE h == [i \in 1 .. n |-> f[i]]
              g == CHOOSE e : Solves(e)
  <2>1. Solves(h)
    <3>1. ASSUME NEW i \in 1 .. n
          PROVE  h[i] = IF i = 1 THEN list[i] ELSE h[i - 1] \o list[i]
      <4>1. CASE i = 1
        <5>1. <<>> \o list[1] = list[1]
          BY <1>5
        <5>2. 1 \in 1 .. n /\ 1 - 1 = 0
          BY <1>0, <1>5
        <5>3. f[1] = f[0] \o list[1] /\ f[0] = <<>>
          BY <1>2, <1>3, <5>2
        <5>. QED
          BY <4>1, <5>1, <5>3
      <4>2. CASE i # 1
        <5>1. i - 1 \in 1 .. n
          BY <1>0, <4>2
        <5>. QED
          BY <1>3, <4>2, <5>1
      <4>. QED
        BY <4>1, <4>2
    <3>. QED
      BY <3>1
  <2>2. Solves(g)
    BY <2>1
  <2>3. Lists!FlattenSeq(list) = g[n]
    BY <1>5 DEF Lists!FlattenSeq
  <2>. DEFINE e == [k \in 0 .. n |-> IF k = 0 THEN <<>> ELSE g[k]]
  <2>4. SameSteps(f, e, n)
    <3>. HIDE DEF g
    <3>1. \A i \in 1 .. n : g[i] = IF i = 1 THEN list[i] ELSE g[i - 1] \o list[i]
      BY <2>2
    <3>2. ASSUME NEW k \in 1 .. n, f[k - 1] = e[k - 1] PROVE f[k] = e[k]
      <4>. DEFINE rest == f[k - 1]
      <4>1. f[k] = rest \o list[k] /\ rest = e[k - 1]
        BY <1>3, <3>2
      <4>2. e[k] = g[k]
        OBVIOUS
      <4>3. g[k] = IF k = 1 THEN list[k] ELSE g[k - 1] \o list[k]
        BY <3>1
      <4>4. e[k - 1] = IF k = 1 THEN <<>> ELSE g[k - 1]
        <5>1. k - 1 \in 0 .. n /\ (k - 1 = 0 <=> k = 1)
          BY <1>0
        <5>. QED
          BY <5>1
      <4>5. <<>> \o list[k] = list[k]
        OBVIOUS
      <4>. HIDE DEF rest, e
      <4>. QED
        BY <4>1, <4>2, <4>3, <4>4, <4>5
    <3>3. f[0] = e[0]
      BY <1>0, <1>2
    <3>. HIDE DEF e
    <3>. QED
      BY <3>2, <3>3 DEF SameSteps
  <2>5. f[n] = e[n]
    <3>. HIDE DEF e, n
    <3>. QED
      BY <1>0, <2>4, RecursionUnique
  <2>6. e[n] = g[n]
    BY <1>0, <1>5
  <2>. QED
    BY <1>2, <1>3, <2>3, <2>5, <2>6
<1>. QED
  BY <1>4, <1>5

LEMMA FlattenEmpty == Lists!FlattenSeq(<<>>) = <<>>
<1>. QED
  BY DEF Lists!FlattenSeq

LEMMA FlattenAppend ==
  ASSUME NEW list \in Seq(Seq(Tokens)), NEW chunk \in Seq(Tokens)
  PROVE  /\ Lists!FlattenSeq(list) \in Seq(Tokens)
         /\ Lists!FlattenSeq(Append(list, chunk)) = Lists!FlattenSeq(list) \o chunk
<1>. DEFINE n    == Len(list)
            more == Append(list, chunk)
<1>0. n \in Nat
  OBVIOUS
<1>1. /\ more \in Seq(Seq(Tokens)) /\ Len(more) = n + 1 /\ more[n + 1] = chunk
      /\ \A k \in 1 .. n : more[k] = list[k]
  OBVIOUS
<1>2. PICK f : /\ f \in [0 .. n -> Seq(Tokens)] /\ f[0] = <<>>
               /\ \A k \in 1 .. n : f[k] = f[k - 1] \o list[k]
               /\ Lists!FlattenSeq(list) = f[n]
  BY FlattenIterates
<1>3. PICK g : /\ g \in [0 .. n + 1 -> Seq(Tokens)] /\ g[0] = <<>>
               /\ \A k \in 1 .. n + 1 : g[k] = g[k - 1] \o more[k]
               /\ Lists!FlattenSeq(more) = g[n + 1]
  <2>. HIDE DEF more
  <2>. QED
    BY <1>1, FlattenIterates
<1>. HIDE DEF more, n
<1>4. SameSteps(f, g, n)
  <2>1. ASSUME NEW k \in 1 .. n, f[k - 1] = g[k - 1] PROVE f[k] = g[k]
    <3>1. k \in 1 .. n + 1
      BY <1>0
    <3>2. g[k] = g[k - 1] \o more[k]
      BY <1>3, <3>1
    <3>3. f[k] = f[k - 1] \o list[k] /\ more[k] = list[k]
      BY <1>1, <1>2
    <3>. QED
      BY <2>1, <3>2, <3>3
  <2>2. f[0] = g[0]
    BY <1>2, <1>3
  <2>. QED
    BY <2>1, <2>2 DEF SameSteps
<1>5. f[n] = g[n]
  BY <1>0, <1>4, RecursionUnique
<1>6. g[n + 1] = g[n] \o more[n + 1]
  <2>1. n + 1 \in 1 .. n + 1 /\ (n + 1) - 1 = n
    BY <1>0
  <2>2. g[n + 1] = g[(n + 1) - 1] \o more[n + 1]
    BY <1>3, <2>1
  <2>. QED
    BY <2>1, <2>2
<1>7. f[n] \in Seq(Tokens)
  BY <1>0, <1>2
<1>. QED
  BY <1>1, <1>2, <1>3, <1>5, <1>6, <1>7 DEF more

(***************************************************************************)
(* Orderings: lists of a finite set                                        *)
(***************************************************************************)
LEMMA OrderingLists ==
  ASSUME NEW S, IsFiniteSet(S), NEW before, NEW s \in Orderings(S, before)
  PROVE  /\ Cardinality(S) \in Nat /\ s \in [1 .. Cardinality(S) -> S]
         /\ s \in Seq(S) /\ Len(s) = Cardinality(S)
         /\ \A i, j \in 1 .. Cardinality(S) : i # j => s[i] # s[j]
         /\ \A x \in S : Holds(s, x)
<1>. DEFINE n == Cardinality(S)
<1>1. n \in Nat
  BY FS_CardinalityType
<1>2. s \in [1 .. n -> S] /\ \A i, j \in 1 .. n : i < j => s[i] # s[j]
  BY DEF Orderings
<1>. HIDE DEF n
<1>3. \A i, j \in 1 .. n : i # j => s[i] # s[j]
  <2>1. ASSUME NEW i \in 1 .. n, NEW j \in 1 .. n, i # j PROVE s[i] # s[j]
    <3>1. i < j \/ j < i
      BY <1>1, <2>1
    <3>. QED
      BY <1>2, <3>1
  <2>. QED
    BY <2>1
<1>4. s \in Injection(1 .. n, S)
  BY <1>2, <1>3 DEF Injection, IsInjective
<1>5. IsFiniteSet(1 .. n) /\ Cardinality(1 .. n) = n
  BY <1>1, FS_Interval
<1>6. s \in Surjection(1 .. n, S)
  BY <1>4, <1>5, FS_Injection DEF n
<1>7. \A x \in S : \E k \in 1 .. n : s[k] = x
  BY <1>6 DEF Surjection
<1>8. s \in Seq(S) /\ Len(s) = n /\ DOMAIN s = 1 .. n
  BY <1>1, <1>2
<1>. QED
  BY <1>1, <1>2, <1>3, <1>7, <1>8 DEF n, Holds

(* what the words service answers: the words of the chunk's tokens, each once *)
LEMMA NormAnswers ==
  ASSUME NEW chunk \in Seq(Tokens), NEW answer \in Norm(chunk)
  PROVE  /\ answer \in Seq(AllWords)
         /\ \A w : Holds(answer, w) <=> \E t : Holds(chunk, t) /\ w \in NormWords[t]
         /\ \A i, j \in DOMAIN answer : i # j => answer[i] # answer[j]
<1>. DEFINE W == UNION {NormWords[t] : t \in Tokenset(chunk)}
<1>1. Tokenset(chunk) \subseteq Tokens /\ IsFiniteSet(Tokenset(chunk))
  <2>1. Tokenset(chunk) \subseteq Tokens
    BY DEF Tokenset
  <2>2. DOMAIN chunk = 1 .. Len(chunk) /\ Len(chunk) \in Nat
    OBVIOUS
  <2>3. IsFiniteSet(DOMAIN chunk)
    BY <2>2, FS_Interval
  <2>4. [k \in DOMAIN chunk |-> chunk[k]] \in Surjection(DOMAIN chunk, Tokenset(chunk))
    BY DEF Tokenset, Surjection
  <2>. QED
    BY <2>1, <2>3, <2>4, FS_Surjection
<1>2. IsFiniteSet(W)
  <2>. DEFINE sets == {NormWords[t] : t \in Tokenset(chunk)}
  <2>1. [t \in Tokenset(chunk) |-> NormWords[t]] \in Surjection(Tokenset(chunk), sets)
    BY DEF Surjection
  <2>2. IsFiniteSet(sets)
    BY <1>1, <2>1, FS_Surjection
  <2>3. \A T \in sets : IsFiniteSet(T)
    BY <1>1, NormAssumption
  <2>. QED
    BY <2>2, <2>3, FS_UNION
<1>3. answer \in Orderings(W, {})
  BY DEF Norm
<1>4. W \subseteq AllWords
  BY <1>1 DEF AllWords
<1>5. \A w : w \in W <=> \E t : Holds(chunk, t) /\ w \in NormWords[t]
  BY DEF Tokenset, Holds
<1>. HIDE DEF W
<1>6. /\ Cardinality(W) \in Nat /\ answer \in Seq(W) /\ Len(answer) = Cardinality(W)
      /\ \A i, j \in 1 .. Cardinality(W) : i # j => answer[i] # answer[j]
      /\ \A x \in W : Holds(answer, x)
  BY <1>2, <1>3, OrderingLists
<1>7. answer \in Seq(AllWords) /\ DOMAIN answer = 1 .. Cardinality(W)
  BY <1>4, <1>6
<1>8. \A w : Holds(answer, w) => w \in W
  BY <1>6 DEF Holds
<1>. QED
  BY <1>5, <1>6, <1>7, <1>8

(***************************************************************************)
(* The inductive invariant, comic by comic.  Its parts speak of the values *)
(* the variables have for one comic, so that the lemmas about a turn of a  *)
(* loop need no state: the text txt of which n tokens are read, the chunks *)
(* list, the chunk cur being filled, the words wds of n answers.           *)
(***************************************************************************)
Lossless(txt, n, list, cur) == Lists!FlattenSeq(list) \o cur = SubSeq(txt, 1, n)

(* the tokens read are those of the chunks *)
Placed(txt, n, list, cur) ==
    \A t \in Tokens :
        (\E i \in 1 .. n : txt[i] = t)
            <=> Holds(cur, t) \/ \E k \in DOMAIN list : Holds(list[k], t)

Fits(chunk) == Bytes(chunk) <= MaxChunk \/ Len(chunk) = 1

(* what has been cut off was full for the token that came next *)
FullFor(chunk, next) == Bytes(chunk) + 1 + Size[Head(next)] > MaxChunk

Snug(list) ==
    \A k \in DOMAIN list :
        Fits(list[k]) /\ (k < Len(list) => FullFor(list[k], list[k + 1]))

SnugSoFar(list, cur) ==
    /\ Snug(list) /\ Fits(cur)
    /\ list # <<>> /\ cur # <<>> => FullFor(list[Len(list)], cur)

(* the first n chunks were accepted and answered, a single one without doubles *)
Answered(list, n, wds) ==
    /\ \A k \in 1 .. n : Bytes(list[k]) <= MaxPhrase
    /\ \A w \in AllWords :
        Holds(wds, w) <=> \E k \in 1 .. n, t \in Tokens : Holds(list[k], t) /\ w \in NormWords[t]
    /\ n <= 1 => \A i, j \in DOMAIN wds : i # j => wds[i] # wds[j]

Progress(st, txt, n, cur, list, m, wds) ==
    /\ st = "split" => m = 0 /\ wds = <<>> /\ (list # <<>> => cur # <<>>)
    /\ st # "split" => n = Len(txt) /\ cur = <<>>
    /\ st = "stored" => m = Len(list)
    /\ st = "refused" => m < Len(list) /\ Bytes(list[m + 1]) > MaxPhrase

ComicInv(st, txt, n, cur, list, m, wds) ==
    /\ Lossless(txt, n, list, cur)
    /\ Placed(txt, n, list, cur)
    /\ SnugSoFar(list, cur)
    /\ Answered(list, m, wds)
    /\ Progress(st, txt, n, cur, list, m, wds)

IInv ==
    /\ TypeOK
    /\ \A c \in Comics :
        ComicInv(stage[c], text[c], read[c], current[c], chunks[c], normed[c], words[c])

(***************************************************************************)
(* One turn of a loop                                                      *)
(***************************************************************************)
LEMMA AppendHolds ==
  ASSUME NEW X, NEW s \in Seq(X), NEW x \in X, NEW y
  PROVE  Holds(Append(s, x), y) <=> Holds(s, y) \/ x = y
<1>. DEFINE more == Append(s, x)
<1>1. /\ DOMAIN s = 1 .. Len(s) /\ Len(s) \in Nat /\ DOMAIN more = 1 .. Len(s) + 1
      /\ more[Len(s) + 1] = x /\ \A k \in 1 .. Len(s) : more[k] = s[k]
  OBVIOUS
<1>. HIDE DEF more
<1>2. Holds(more, y) => Holds(s, y) \/ x = y
  <2>. SUFFICES ASSUME NEW k \in 1 .. Len(s) + 1, more[k] = y, x # y PROVE Holds(s, y)
    BY <1>1 DEF Holds
  <2>1. k \in 1 .. Len(s)
    BY <1>1
  <2>. QED
    BY <1>1, <2>1 DEF Holds
<1>3. Holds(s, y) => Holds(more, y)
  <2>. SUFFICES ASSUME NEW k \in 1 .. Len(s), s[k] = y PROVE Holds(more, y)
    BY <1>1 DEF Holds
  <2>. QED
    BY <1>1 DEF Holds
<1>4. x = y => Holds(more, y)
  <2>1. Len(s) + 1 \in 1 .. Len(s) + 1
    BY <1>1
  <2>. QED
    BY <1>1, <2>1 DEF Holds
<1>. QED
  BY <1>2, <1>3, <1>4 DEF more

(* the same of a list of chunks *)
LEMMA AppendChunk ==
  ASSUME NEW list \in Seq(Seq(Tokens)), NEW chunk \in Seq(Tokens), NEW t
  PROVE  (\E k \in DOMAIN Append(list, chunk) : Holds(Append(list, chunk)[k], t))
            <=> Holds(chunk, t) \/ \E k \in DOMAIN list : Holds(list[k], t)
<1>. DEFINE more == Append(list, chunk)
<1>1. /\ DOMAIN list = 1 .. Len(list) /\ Len(list) \in Nat /\ DOMAIN more = 1 .. Len(list) + 1
      /\ more[Len(list) + 1] = chunk /\ \A k \in 1 .. Len(list) : more[k] = list[k]
  OBVIOUS
<1>. HIDE DEF more
<1>2. ASSUME NEW k \in DOMAIN more, Holds(more[k], t)
      PROVE  Holds(chunk, t) \/ \E j \in DOMAIN list : Holds(list[j], t)
  <2>1. k = Len(list) + 1 \/ k \in 1 .. Len(list)
    BY <1>1
  <2>. QED
    BY <1>1, <1>2, <2>1
<1>3. ASSUME NEW k \in DOMAIN list, Holds(list[k], t)
      PROVE  \E j \in DOMAIN more : Holds(more[j], t)
  <2>1. k \in DOMAIN more /\ more[k] = list[k]
    BY <1>1
  <2>. QED
    BY <1>3, <2>1
<1>4. ASSUME Holds(chunk, t) PROVE \E j \in DOMAIN more : Holds(more[j], t)
  <2>1. Len(list) + 1 \in DOMAIN more
    BY <1>1
  <2>. QED
    BY <1>1, <1>4, <2>1
<1>. QED
  BY <1>2, <1>3, <1>4 DEF more

LEMMA TokenAdded ==
  ASSUME NEW txt \in Seq(Tokens), NEW n \in 0 .. Len(txt) - 1,
         NEW list \in Seq(Seq(Tokens)), NEW cur \in Seq(Tokens),
         Lossless(txt, n, list, cur), Placed(txt, n, list, cur)
  PROVE  /\ Lossless(txt, n + 1, list, Append(cur, txt[n + 1]))
         /\ Placed(txt, n + 1, list, Append(cur, txt[n + 1]))
<1>. DEFINE t == txt[n + 1]
<1>1. n + 1 \in 1 .. Len(txt) /\ n \in Nat /\ t \in Tokens
  OBVIOUS
<1>2. Lossless(txt, n + 1, list, Append(cur, t))
  <2>. DEFINE flat == Lists!FlattenSeq(list)
  <2>1. flat \in Seq(Tokens)
    BY FlattenAppend
  <2>2. flat \o Append(cur, t) = Append(flat \o cur, t)
    <3>. HIDE DEF flat, t
    <3>. QED
      BY <1>1, <2>1
  <2>3. SubSeq(txt, 1, n + 1) = Append(SubSeq(txt, 1, n), t)
    BY <1>1
  <2>. QED
    BY <2>2, <2>3 DEF Lossless
<1>3. Placed(txt, n + 1, list, Append(cur, t))
  <2>. SUFFICES ASSUME NEW u \in Tokens
                PROVE  (\E i \in 1 .. n + 1 : txt[i] = u)
                          <=> Holds(Append(cur, t), u) \/ \E k \in DOMAIN list : Holds(list[k], u)
    BY DEF Placed
  <2>1. (\E i \in 1 .. n + 1 : txt[i] = u) <=> (\E i \in 1 .. n : txt[i] = u) \/ t = u
    <3>1. \A i : i \in 1 .. n + 1 <=> i \in 1 .. n \/ i = n + 1
      BY <1>1
    <3>. QED
      BY <3>1
  <2>2. Holds(Append(cur, t), u) <=> Holds(cur, u) \/ t = u
    BY <1>1, AppendHolds
  <2>3. (\E i \in 1 .. n : txt[i] = u) <=> Holds(cur, u) \/ \E k \in DOMAIN list : Holds(list[k], u)
    BY DEF Placed
  <2>. HIDE DEF t
  <2>. QED
    BY <2>1, <2>2, <2>3
<1>. QED
  BY <1>2, <1>3

LEMMA ChunkCut ==
  ASSUME NEW txt, NEW n, NEW list \in Seq(Seq(Tokens)), NEW cur \in Seq(Tokens),
         Lossless(txt, n, list, cur), Placed(txt, n, list, cur)
  PROVE  /\ Lossless(txt, n, Append(list, cur), <<>>)
         /\ Placed(txt, n, Append(list, cur), <<>>)
<1>1. Lossless(txt, n, Append(list, cur), <<>>)
  <2>1. /\ Lists!FlattenSeq(list) \in Seq(Tokens)
        /\ Lists!FlattenSeq(Append(list, cur)) = Lists!FlattenSeq(list) \o cur
    BY FlattenAppend
  <2>2. \A s \in Seq(Tokens) : s \o <<>> = s
    OBVIOUS
  <2>. QED
    BY <2>1, <2>2 DEF Lossless
<1>2. Placed(txt, n, Append(list, cur), <<>>)
  <2>1. \A t : ~Holds(<<>>, t)
    BY DEF Holds
  <2>. QED
    BY <2>1, AppendChunk DEF Placed
<1>. QED
  BY <1>1, <1>2

LEMMA SnugAppend ==
  ASSUME NEW list \in Seq(Seq(Tokens)), NEW cur \in Seq(Tokens), cur # <<>>,
         SnugSoFar(list, cur)
  PROVE  Snug(Append(list, cur))
<1>. DEFINE more == Append(list, cur)
            n    == Len(list)
<1>1. /\ n \in Nat /\ Len(more) = n + 1 /\ DOMAIN more = 1 .. n + 1 /\ DOMAIN list = 1 .. n
      /\ more[n + 1] = cur /\ \A k \in 1 .. n : more[k] = list[k]
      /\ n # 0 => list # <<>>
  OBVIOUS
<1>. HIDE DEF more, n
<1>2. Snug(list) /\ Fits(cur) /\ (list # <<>> => FullFor(list[n], cur))
  BY DEF SnugSoFar, n
<1>3. ASSUME NEW k \in 1 .. n + 1
      PROVE  Fits(more[k]) /\ (k < n + 1 => FullFor(more[k], more[k + 1]))
  <2>1. CASE k = n + 1
    BY <1>1, <1>2, <2>1
  <2>2. CASE k = n
    <3>1. k \in 1 .. n /\ n # 0
      BY <1>1, <2>2
    <3>. QED
      BY <1>1, <1>2, <2>2, <3>1 DEF Snug
  <2>3. CASE k \in 1 .. n - 1
    <3>1. k \in 1 .. n /\ k + 1 \in 1 .. n /\ k < n
      BY <1>1, <2>3
    <3>2. Fits(list[k]) /\ FullFor(list[k], list[k + 1])
      BY <1>1, <1>2, <3>1 DEF Snug, n
    <3>. QED
      BY <1>1, <3>1, <3>2
  <2>. QED
    BY <1>1, <2>1, <2>2, <2>3
<1>. QED
  BY <1>1, <1>3 DEF Snug, more

(* the chunk grows by a token it has room for, or its first *)
LEMMA SnugGrows ==
  ASSUME NEW list \in Seq(Seq(Tokens)), NEW cur \in Seq(Tokens), NEW t \in Tokens,
         SnugSoFar(list, cur), list # <<>> => cur # <<>>,
         cur = <<>> \/ Bytes(cur) + Size[t] + 1 <= MaxChunk
  PROVE  SnugSoFar(list, Append(cur, t))
<1>1. CASE cur = <<>>
  <2>1. Len(Append(cur, t)) = 1
    BY <1>1
  <2>. QED
    BY <1>1, <2>1 DEF SnugSoFar, Fits
<1>2. CASE cur # <<>>
  <2>1. Head(Append(cur, t)) = Head(cur)
    BY <1>2
  <2>2. Bytes(Append(cur, t)) = Bytes(cur) + Size[t] + 1 /\ Bytes(cur) \in Nat /\ Size[t] \in Nat
    BY <1>2, BytesAppend, BytesType, SizeAssumption
  <2>3. Bytes(Append(cur, t)) <= MaxChunk
    BY <1>2, <2>2
  <2>. QED
    BY <1>2, <2>1, <2>3 DEF SnugSoFar, Fits, FullFor
<1>. QED
  BY <1>1, <1>2

(* the chunk is cut off and the token that had no room opens the next *)
LEMMA SnugCut ==
  ASSUME NEW list \in Seq(Seq(Tokens)), NEW cur \in Seq(Tokens), NEW t \in Tokens,
         SnugSoFar(list, cur), cur # <<>>, Bytes(cur) + Size[t] + 1 > MaxChunk
  PROVE  SnugSoFar(Append(list, cur), <<t>>)
<1>1. Snug(Append(list, cur))
  BY SnugAppend
<1>2. Len(<<t>>) = 1 /\ Head(<<t>>) = t
  OBVIOUS
<1>3. Append(list, cur)[Len(Append(list, cur))] = cur
  OBVIOUS
<1>4. FullFor(cur, <<t>>)
  BY <1>2, BytesType, SizeAssumption, LimitsAssumption DEF FullFor
<1>. QED
  BY <1>1, <1>2, <1>3, <1>4 DEF SnugSoFar, Fits

LEMMA AnsweredNone ==
  ASSUME NEW list
  PROVE  Answered(list, 0, <<>>)
<1>. QED
  BY DEF Answered, Holds

LEMMA JoinHolds ==
  ASSUME NEW X, NEW s \in Seq(X), NEW t \in Seq(X), NEW y
  PROVE  Holds(s \o t, y) <=> Holds(s, y) \/ Holds(t, y)
<1>. DEFINE m == Len(s)
            n == Len(t)
            both == s \o t
<1>1. /\ m \in Nat /\ n \in Nat /\ DOMAIN s = 1 .. m /\ DOMAIN t = 1 .. n
      /\ DOMAIN both = 1 .. m + n
      /\ \A k \in 1 .. m + n : both[k] = IF k <= m THEN s[k] ELSE t[k - m]
  OBVIOUS
<1>. HIDE DEF both, m, n
<1>2. ASSUME NEW k \in 1 .. m, s[k] = y PROVE Holds(both, y)
  <2>1. k \in 1 .. m + n /\ both[k] = s[k]
    BY <1>1
  <2>. QED
    BY <1>1, <1>2, <2>1 DEF Holds
<1>3. ASSUME NEW k \in 1 .. n, t[k] = y PROVE Holds(both, y)
  <2>1. k + m \in 1 .. m + n /\ ~(k + m <= m) /\ (k + m) - m = k
    BY <1>1
  <2>2. both[k + m] = t[k]
    BY <1>1, <2>1
  <2>. QED
    BY <1>1, <1>3, <2>1, <2>2 DEF Holds
<1>4. ASSUME NEW k \in 1 .. m + n, both[k] = y PROVE Holds(s, y) \/ Holds(t, y)
  <2>1. CASE k <= m
    <3>1. k \in 1 .. m /\ both[k] = s[k]
      BY <1>1, <2>1
    <3>. QED
      BY <1>1, <1>4, <3>1 DEF Holds
  <2>2. CASE ~(k <= m)
    <3>1. k - m \in 1 .. n /\ both[k] = t[k - m]
      BY <1>1, <2>2
    <3>. QED
      BY <1>1, <1>4, <3>1 DEF Holds
  <2>. QED
    BY <2>1, <2>2
<1>5. /\ Holds(s, y) <=> \E k \in 1 .. m : s[k] = y
      /\ Holds(t, y) <=> \E k \in 1 .. n : t[k] = y
      /\ Holds(both, y) <=> \E k \in 1 .. m + n : both[k] = y
  BY <1>1 DEF Holds
<1>. QED
  BY <1>2, <1>3, <1>4, <1>5 DEF both

LEMMA AnsweredNext ==
  ASSUME NEW list \in Seq(Seq(Tokens)), NEW n \in 0 .. Len(list) - 1,
         NEW wds \in Seq(AllWords), NEW answer \in Norm(list[n + 1]),
         Answered(list, n, wds), Bytes(list[n + 1]) <= MaxPhrase
  PROVE  wds \o answer \in Seq(AllWords) /\ Answered(list, n + 1, wds \o answer)
<1>1. n \in Nat /\ list[n + 1] \in Seq(Tokens)
  OBVIOUS
<1>2. /\ answer \in Seq(AllWords)
      /\ \A w : Holds(answer, w) <=> \E t : Holds(list[n + 1], t) /\ w \in NormWords[t]
      /\ \A i, j \in DOMAIN answer : i # j => answer[i] # answer[j]
  BY <1>1, NormAnswers
<1>3. \A k : k \in 1 .. n + 1 <=> k \in 1 .. n \/ k = n + 1
  BY <1>1
<1>4. \A k \in 1 .. n + 1 : Bytes(list[k]) <= MaxPhrase
  BY <1>3 DEF Answered
<1>5. ASSUME NEW w \in AllWords
      PROVE  Holds(wds \o answer, w)
                <=> \E k \in 1 .. n + 1, t \in Tokens : Holds(list[k], t) /\ w \in NormWords[t]
  <2>1. Holds(wds \o answer, w) <=> Holds(wds, w) \/ Holds(answer, w)
    BY <1>2, JoinHolds
  <2>2. Holds(wds, w) <=> \E k \in 1 .. n, t \in Tokens : Holds(list[k], t) /\ w \in NormWords[t]
    BY DEF Answered
  <2>3. \A t : Holds(list[n + 1], t) => t \in Tokens
    BY <1>1 DEF Holds
  <2>. QED
    BY <1>2, <1>3, <2>1, <2>2, <2>3
<1>6. ASSUME n + 1 <= 1
      PROVE  \A i, j \in DOMAIN (wds \o answer) : i # j => (wds \o answer)[i] # (wds \o answer)[j]
  <2>1. n = 0
    BY <1>1, <1>6
  <2>2. \A w \in AllWords : ~Holds(wds, w)
    BY <2>1 DEF Answered
  <2>3. wds = <<>>
    <3>. SUFFICES ASSUME wds # <<>> PROVE FALSE
      OBVIOUS
    <3>1. 1 \in DOMAIN wds /\ wds[1] \in AllWords
      OBVIOUS
    <3>. QED
      BY <2>2, <3>1 DEF Holds
  <2>4. wds \o answer = answer
    BY <1>2, <2>3
  <2>. QED
    BY <1>2, <2>4
<1>7. wds \o answer \in Seq(AllWords)
  BY <1>2
<1>. QED
  BY <1>4, <1>5, <1>6, <1>7 DEF Answered

(* the text is split anew *)
LEMMA Afresh ==
  ASSUME NEW txt \in Seq(Tokens)
  PROVE  ComicInv("split", txt, 0, <<>>, <<>>, 0, <<>>)
<1>1. Lossless(txt, 0, <<>>, <<>>)
  <2>1. SubSeq(txt, 1, 0) = <<>> /\ <<>> \o <<>> = <<>>
    OBVIOUS
  <2>. QED
    BY <2>1, FlattenEmpty DEF Lossless
<1>2. Placed(txt, 0, <<>>, <<>>)
  BY DEF Placed, Holds
<1>3. SnugSoFar(<<>>, <<>>)
  BY BytesEmpty, LimitsAssumption DEF SnugSoFar, Snug, Fits
<1>. QED
  BY <1>1, <1>2, <1>3, AnsweredNone DEF ComicInv, Progress

(***************************************************************************)
(* The steps                                                               *)
(***************************************************************************)
LEMMA InitIInv == Init => IInv
<1>. SUFFICES ASSUME Init PROVE IInv
  OBVIOUS
<1>1. \A c \in Comics : text[c] \in Seq(Tokens) /\ Len(text[c]) \in Nat
  BY TextsAssumption DEF Init
<1>2. TypeOK
  <2>1. <<>> \in Seq(Tokens) /\ <<>> \in Seq(Seq(Tokens) \ {<<>>}) /\ <<>> \in Seq(AllWords)
    OBVIOUS
  <2>. QED
    BY <1>1, <2>1 DEF Init, TypeOK
<1>. QED
  BY <1>1, <1>2, Afresh DEF Init, IInv

(* one comic gets new values, the others keep theirs *)
Becomes(c, st, n, cur, list, m, wds) ==
    /\ UNCHANGED text
    /\ stage' = [stage EXCEPT ![c] = st]
    /\ read' = [read EXCEPT ![c] = n]
    /\ current' = [current EXCEPT ![c] = cur]
    /\ chunks' = [chunks EXCEPT ![c] = list]
    /\ normed' = [normed EXCEPT ![c] = m]
    /\ words' = [words EXCEPT ![c] = wds]

LEMMA ComicStep ==
  ASSUME IInv, NEW c \in Comics,
         NEW st \in {"split", "norm", "stored", "failed", "refused"},
         NEW n \in Nat, NEW cur \in Seq(Tokens), NEW list \in Seq(Seq(Tokens) \ {<<>>}),
         NEW m \in Nat, NEW wds \in Seq(AllWords),
         n <= Len(text[c]), m <= Len(list),
         Becomes(c, st, n, cur, list, m, wds),
         ComicInv(st, text[c], n, cur, list, m, wds)
  PROVE  IInv'
<1>1. /\ text \in [Comics -> Texts] /\ read \in [Comics -> Nat]
      /\ stage \in [Comics -> {"split", "norm", "stored", "failed", "refused"}]
      /\ current \in [Comics -> Seq(Tokens)]
      /\ chunks \in [Comics -> Seq(Seq(Tokens) \ {<<>>})]
      /\ normed \in [Comics -> Nat] /\ words \in [Comics -> Seq(AllWords)]
  BY DEF IInv, TypeOK
<1>2. ASSUME NEW d \in Comics
      PROVE  /\ text'[d] = text[d]
             /\ stage'[d] = IF d = c THEN st ELSE stage[d]
             /\ read'[d] = IF d = c THEN n ELSE read[d]
             /\ current'[d] = IF d = c THEN cur ELSE current[d]
             /\ chunks'[d] = IF d = c THEN list ELSE chunks[d]
             /\ normed'[d] = IF d = c THEN m ELSE normed[d]
             /\ words'[d] = IF d = c THEN wds ELSE words[d]
  BY <1>1 DEF Becomes
<1>3. TypeOK'
  <2>1. /\ text' \in [Comics -> Texts] /\ read' \in [Comics -> Nat]
        /\ stage' \in [Comics -> {"split", "norm", "stored", "failed", "refused"}]
    BY <1>1 DEF Becomes
  <2>2. current' \in [Comics -> Seq(Tokens)] /\ chunks' \in [Comics -> Seq(Seq(Tokens) \ {<<>>})]
    BY <1>1 DEF Becomes
  <2>3. normed' \in [Comics -> Nat] /\ words' \in [Comics -> Seq(AllWords)]
    BY <1>1 DEF Becomes
  <2>4. \A d \in Comics : read'[d] <= Len(text'[d]) /\ normed'[d] <= Len(chunks'[d])
    BY <1>2 DEF IInv, TypeOK
  <2>. QED
    BY <2>1, <2>2, <2>3, <2>4 DEF TypeOK
<1>4. ASSUME NEW d \in Comics
      PROVE  ComicInv(stage'[d], text'[d], read'[d], current'[d], chunks'[d], normed'[d], words'[d])
  <2>1. CASE d = c
    BY <1>2, <2>1
  <2>2. CASE d # c
    BY <1>2, <2>2 DEF IInv
  <2>. QED
    BY <2>1, <2>2
<1>. QED
  BY <1>3, <1>4 DEF IInv

(* the values of a comic, and what is known of them *)
LEMMA ComicValues ==
  ASSUME IInv, NEW c \in Comics
  PROVE  /\ text[c] \in Seq(Tokens) /\ Len(text[c]) \in Nat
         /\ stage[c] \in {"split", "norm", "stored", "failed", "refused"}
         /\ read[c] \in Nat /\ read[c] <= Len(text[c])
         /\ current[c] \in Seq(Tokens)
         /\ chunks[c] \in Seq(Seq(Tokens) \ {<<>>}) /\ chunks[c] \in Seq(Seq(Tokens))
         /\ normed[c] \in Nat /\ normed[c] <= Len(chunks[c]) /\ Len(chunks[c]) \in Nat
         /\ words[c] \in Seq(AllWords)
         /\ ComicInv(stage[c], text[c], read[c], current[c], chunks[c], normed[c], words[c])
<1>1. /\ text[c] \in Texts
      /\ chunks[c] \in Seq(Seq(Tokens) \ {<<>>})
  BY DEF IInv, TypeOK
<1>2. text[c] \in Seq(Tokens) /\ Len(text[c]) \in Nat
  BY <1>1, TextsAssumption
<1>3. chunks[c] \in Seq(Seq(Tokens)) /\ Len(chunks[c]) \in Nat
  BY <1>1
<1>. QED
  BY <1>1, <1>2, <1>3 DEF IInv, TypeOK

(* a variable that a step leaves alone gets its own value at c *)
LEMMA SameValues ==
  ASSUME IInv
  PROVE  /\ \A c \in Comics : stage = [stage EXCEPT ![c] = stage[c]]
         /\ \A c \in Comics : read = [read EXCEPT ![c] = read[c]]
         /\ \A c \in Comics : current = [current EXCEPT ![c] = current[c]]
         /\ \A c \in Comics : chunks = [chunks EXCEPT ![c] = chunks[c]]
         /\ \A c \in Comics : normed = [normed EXCEPT ![c] = normed[c]]
         /\ \A c \in Comics : words = [words EXCEPT ![c] = words[c]]
<1>. QED
  BY DEF IInv, TypeOK

LEMMA PackStep ==
  ASSUME IInv, NEW c \in Comics, Pack(c)
  PROVE  IInv'
<1>. DEFINE txt  == text[c]
            n    == read[c]
            cur  == current[c]
            list == chunks[c]
            t    == txt[n + 1]
<1>1. /\ txt \in Seq(Tokens) /\ n \in Nat /\ cur \in Seq(Tokens) /\ list \in Seq(Seq(Tokens))
      /\ list \in Seq(Seq(Tokens) \ {<<>>}) /\ normed[c] \in Nat /\ words[c] \in Seq(AllWords)
      /\ ComicInv(stage[c], txt, n, cur, list, normed[c], words[c])
  BY ComicValues
<1>2. stage[c] = "split" /\ n < Len(txt)
  BY DEF Pack
<1>3. normed[c] = 0 /\ words[c] = <<>> /\ (list # <<>> => cur # <<>>)
  BY <1>1, <1>2 DEF ComicInv, Progress
<1>4. n \in 0 .. Len(txt) - 1 /\ n + 1 \in Nat /\ n + 1 <= Len(txt) /\ t \in Tokens
  BY <1>1, <1>2
<1>5. CASE Overflows(c, t)
  <2>1. cur # <<>> /\ Bytes(cur) + Size[t] + 1 > MaxChunk
    BY <1>5 DEF Overflows
  <2>. DEFINE more == Append(list, cur)
  <2>2. more \in Seq(Seq(Tokens) \ {<<>>}) /\ more \in Seq(Seq(Tokens)) /\ Len(more) \in Nat
    BY <1>1, <2>1
  <2>3. Becomes(c, "split", n + 1, <<t>>, more, normed[c], words[c])
    BY <1>2, <1>5, SameValues DEF Pack, Becomes
  <2>4. Lossless(txt, n, more, <<>>) /\ Placed(txt, n, more, <<>>)
    BY <1>1, ChunkCut DEF ComicInv
  <2>5. Append(<<>>, t) = <<t>> /\ <<t>> \in Seq(Tokens) /\ <<t>> # <<>> /\ <<>> \in Seq(Tokens)
    BY <1>4
  <2>6. Lossless(txt, n + 1, more, <<t>>) /\ Placed(txt, n + 1, more, <<t>>)
    <3>. HIDE DEF more
    <3>1. /\ Lossless(txt, n + 1, more, Append(<<>>, txt[n + 1]))
          /\ Placed(txt, n + 1, more, Append(<<>>, txt[n + 1]))
      BY <1>1, <1>4, <2>2, <2>4, <2>5, TokenAdded
    <3>. QED
      BY <2>5, <3>1
  <2>7. SnugSoFar(more, <<t>>)
    BY <1>1, <1>4, <2>1, SnugCut DEF ComicInv
  <2>8. ComicInv("split", txt, n + 1, <<t>>, more, normed[c], words[c])
    BY <1>3, <2>5, <2>6, <2>7, AnsweredNone DEF ComicInv, Progress
  <2>9. normed[c] <= Len(more)
    BY <1>3, <2>2
  <2>. HIDE DEF more, t, list, cur, n, txt
  <2>. QED
    BY <1>1, <1>4, <2>2, <2>3, <2>5, <2>8, <2>9, ComicStep DEF txt
<1>6. CASE ~Overflows(c, t)
  <2>1. cur = <<>> \/ Bytes(cur) + Size[t] + 1 <= MaxChunk
    <3>1. Bytes(cur) \in Nat /\ Size[t] \in Nat
      BY <1>1, <1>4, BytesType, SizeAssumption
    <3>. QED
      BY <1>6, <3>1, LimitsAssumption DEF Overflows
  <2>. DEFINE grown == Append(cur, t)
  <2>2. grown \in Seq(Tokens) /\ grown # <<>>
    BY <1>1, <1>4
  <2>3. Becomes(c, "split", n + 1, grown, list, normed[c], words[c])
    BY <1>2, <1>6, SameValues DEF Pack, Becomes
  <2>4. Lossless(txt, n + 1, list, grown) /\ Placed(txt, n + 1, list, grown)
    BY <1>1, <1>4, TokenAdded DEF ComicInv
  <2>5. SnugSoFar(list, grown)
    BY <1>1, <1>3, <1>4, <2>1, SnugGrows DEF ComicInv
  <2>6. ComicInv("split", txt, n + 1, grown, list, normed[c], words[c])
    BY <1>3, <2>2, <2>4, <2>5, AnsweredNone DEF ComicInv, Progress
  <2>7. normed[c] <= Len(list)
    BY <1>1, <1>3
  <2>. HIDE DEF grown, t, list, cur, n, txt
  <2>. QED
    BY <1>1, <1>4, <2>2, <2>3, <2>6, <2>7, ComicStep DEF txt
<1>. QED
  BY <1>5, <1>6

LEMMA SplitDoneStep ==
  ASSUME IInv, NEW c \in Comics, SplitDone(c)
  PROVE  IInv'
<1>. DEFINE txt  == text[c]
            n    == read[c]
            cur  == current[c]
            list == chunks[c]
            all  == IF cur = <<>> THEN list ELSE Append(list, cur)
<1>1. /\ txt \in Seq(Tokens) /\ n \in Nat /\ cur \in Seq(Tokens) /\ list \in Seq(Seq(Tokens))
      /\ list \in Seq(Seq(Tokens) \ {<<>>}) /\ normed[c] \in Nat /\ words[c] \in Seq(AllWords)
      /\ ComicInv(stage[c], txt, n, cur, list, normed[c], words[c])
  BY ComicValues
<1>2. stage[c] = "split" /\ n = Len(txt)
  BY DEF SplitDone
<1>3. normed[c] = 0 /\ words[c] = <<>>
  BY <1>1, <1>2 DEF ComicInv, Progress
<1>4. all \in Seq(Seq(Tokens) \ {<<>>}) /\ Len(all) \in Nat
  BY <1>1
<1>5. Becomes(c, "norm", n, <<>>, all, normed[c], words[c])
  BY <1>2, SameValues DEF SplitDone, Becomes
<1>6. Lossless(txt, n, all, <<>>) /\ Placed(txt, n, all, <<>>)
  BY <1>1, ChunkCut DEF ComicInv
<1>7. SnugSoFar(all, <<>>)
  <2>1. Fits(<<>>)
    BY BytesEmpty, LimitsAssumption DEF Fits
  <2>2. Snug(all)
    BY <1>1, SnugAppend DEF ComicInv, SnugSoFar
  <2>. QED
    BY <2>1, <2>2 DEF SnugSoFar
<1>8. ComicInv("norm", txt, n, <<>>, all, normed[c], words[c])
  BY <1>2, <1>3, <1>6, <1>7, AnsweredNone DEF ComicInv, Progress
<1>9. normed[c] <= Len(all) /\ n <= Len(txt) /\ <<>> \in Seq(Tokens)
  BY <1>1, <1>2, <1>3, <1>4
<1>. HIDE DEF all, list, cur, n, txt
<1>. QED
  BY <1>1, <1>4, <1>5, <1>8, <1>9, ComicStep DEF txt

LEMMA NormChunkStep ==
  ASSUME IInv, NEW c \in Comics, NormChunk(c)
  PROVE  IInv'
<1>. DEFINE list == chunks[c]
            m    == normed[c]
            wds  == words[c]
<1>1. /\ text[c] \in Seq(Tokens) /\ read[c] \in Nat /\ read[c] <= Len(text[c])
      /\ current[c] \in Seq(Tokens) /\ list \in Seq(Seq(Tokens))
      /\ list \in Seq(Seq(Tokens) \ {<<>>}) /\ m \in Nat /\ wds \in Seq(AllWords)
      /\ Len(list) \in Nat
      /\ ComicInv(stage[c], text[c], read[c], current[c], list, m, wds)
  BY ComicValues
<1>2. stage[c] = "norm" /\ m < Len(list) /\ Bytes(list[m + 1]) <= MaxPhrase
  BY DEF NormChunk
<1>3. PICK answer \in Norm(list[m + 1]) : words' = [words EXCEPT ![c] = @ \o answer]
  BY DEF NormChunk
<1>4. m \in 0 .. Len(list) - 1 /\ m + 1 \in Nat /\ m + 1 <= Len(list)
  BY <1>1, <1>2
<1>5. wds \o answer \in Seq(AllWords) /\ Answered(list, m + 1, wds \o answer)
  <2>. HIDE DEF list, m, wds
  <2>. QED
    BY <1>1, <1>2, <1>3, <1>4, AnsweredNext DEF ComicInv
<1>6. Becomes(c, "norm", read[c], current[c], list, m + 1, wds \o answer)
  BY <1>2, <1>3, SameValues DEF NormChunk, Becomes
<1>7. ComicInv("norm", text[c], read[c], current[c], list, m + 1, wds \o answer)
  BY <1>1, <1>2, <1>5 DEF ComicInv, Progress
<1>. HIDE DEF list, m, wds
<1>. QED
  BY <1>1, <1>4, <1>5, <1>6, <1>7, ComicStep

(* only the stage changes *)
LEMMA StageStep ==
  ASSUME IInv, NEW c \in Comics, PhraseRefused(c) \/ JobFails(c) \/ AddRow(c)
  PROVE  IInv'
<1>. DEFINE Leads(st) ==
       /\ st \in {"stored", "failed", "refused"}
       /\ Becomes(c, st, read[c], current[c], chunks[c], normed[c], words[c])
       /\ Progress(st, text[c], read[c], current[c], chunks[c], normed[c], words[c])
<1>1. /\ read[c] \in Nat /\ read[c] <= Len(text[c]) /\ current[c] \in Seq(Tokens)
      /\ chunks[c] \in Seq(Seq(Tokens) \ {<<>>}) /\ normed[c] \in Nat
      /\ normed[c] <= Len(chunks[c]) /\ words[c] \in Seq(AllWords)
      /\ ComicInv(stage[c], text[c], read[c], current[c], chunks[c], normed[c], words[c])
  BY ComicValues
<1>2. stage[c] = "norm" /\ read[c] = Len(text[c]) /\ current[c] = <<>>
  BY <1>1 DEF PhraseRefused, JobFails, AddRow, ComicInv, Progress
<1>3. PICK st : Leads(st)
  <2>1. CASE PhraseRefused(c)
    <3>1. Leads("refused")
      BY <1>2, <2>1, SameValues DEF PhraseRefused, Becomes, Progress
    <3>. QED
      BY <3>1
  <2>2. CASE JobFails(c)
    <3>1. Leads("failed")
      BY <1>2, <2>2, SameValues DEF JobFails, Becomes, Progress
    <3>. QED
      BY <3>1
  <2>3. CASE AddRow(c)
    <3>1. Leads("stored")
      BY <1>2, <2>3, SameValues DEF AddRow, Becomes, Progress
    <3>. QED
      BY <3>1
  <2>. QED
    BY <2>1, <2>2, <2>3
<1>4. ComicInv(st, text[c], read[c], current[c], chunks[c], normed[c], words[c])
  BY <1>1, <1>3 DEF ComicInv
<1>5. st \in {"split", "norm", "stored", "failed", "refused"}
  BY <1>3
<1>. QED
  BY <1>1, <1>3, <1>4, <1>5, ComicStep

LEMMA NextUpdateStep ==
  ASSUME IInv, NEW c \in Comics, NextUpdate(c)
  PROVE  IInv'
<1>1. text[c] \in Seq(Tokens) /\ 0 <= Len(text[c])
  BY ComicValues
<1>2. Becomes(c, "split", 0, <<>>, <<>>, 0, <<>>)
  BY DEF NextUpdate, Becomes
<1>3. ComicInv("split", text[c], 0, <<>>, <<>>, 0, <<>>)
  BY <1>1, Afresh
<1>4. /\ <<>> \in Seq(Tokens) /\ <<>> \in Seq(Seq(Tokens) \ {<<>>}) /\ <<>> \in Seq(AllWords)
      /\ 0 \in Nat /\ 0 <= Len(<<>>)
  OBVIOUS
<1>. QED
  BY <1>1, <1>2, <1>3, <1>4, ComicStep

LEMMA NextIInv == IInv /\ [Next]_vars => IInv'
<1>. SUFFICES ASSUME IInv, [Next]_vars PROVE IInv'
  OBVIOUS
<1>1. CASE UNCHANGED vars
  BY <1>1 DEF vars, IInv, TypeOK
<1>2. ASSUME NEW c \in Comics,
             \/ Pack(c) \/ SplitDone(c) \/ NormChunk(c) \/ PhraseRefused(c)
             \/ JobFails(c) \/ AddRow(c) \/ NextUpdate(c)
      PROVE  IInv'
  BY <1>2, PackStep, SplitDoneStep, NormChunkStep, StageStep, NextUpdateStep
<1>. QED
  BY <1>1, <1>2 DEF Next

LEMMA IInvariant == Spec => []IInv
<1>. QED
  BY InitIInv, NextIInv, PTL DEF Spec

(***************************************************************************)
(* The two searches                                                        *)
(***************************************************************************)
(* without doubles, counting the places of words is counting the words *)
LEMMA CountsAgree ==
  ASSUME NEW list \in Seq(AllWords), NEW query, IsFiniteSet(query),
         \A i, j \in DOMAIN list : i # j => list[i] # list[j]
  PROVE  /\ Occurrences(list, query) = DistinctHits(list, query)
         /\ DistinctHits(list, query) \in Nat
         /\ DistinctHits(list, query) <= Cardinality(query)
<1>. DEFINE places == {k \in DOMAIN list : list[k] \in query}
            found  == {w \in query : Holds(list, w)}
            at     == [k \in places |-> list[k]]
<1>1. IsFiniteSet(places)
  <2>1. DOMAIN list = 1 .. Len(list) /\ Len(list) \in Nat
    OBVIOUS
  <2>2. IsFiniteSet(DOMAIN list)
    BY <2>1, FS_Interval
  <2>. QED
    BY <2>2, FS_Subset
<1>2. at \in Surjection(places, found)
  BY DEF Surjection, Holds
<1>3. at \in Injection(places, found)
  BY <1>2 DEF Surjection, Injection, IsInjective
<1>4. Cardinality(found) = Cardinality(places)
  BY <1>1, <1>2, <1>3, FS_Surjection
<1>5. Cardinality(found) \in Nat /\ Cardinality(found) <= Cardinality(query)
  BY FS_Subset, FS_CardinalityType
<1>. QED
  BY <1>4, <1>5 DEF Occurrences, DistinctHits

(* s lists each of S once, never a smaller key before a larger one *)
Falling(s, S, key) ==
    LET n == Cardinality(S)
    IN  /\ s \in [1 .. n -> S]
        /\ \A i, j \in 1 .. n : i # j => s[i] # s[j]
        /\ \A x \in S : \E k \in 1 .. n : s[k] = x
        /\ \A i, j \in 1 .. n : i <= j => key[s[i]] >= key[s[j]]

(* Where t shows a key, s shows none that is smaller: what t lists up to     *)
(* there would have to stand in s before.                                    *)
LEMMA NoSmallerKey ==
  ASSUME NEW S, IsFiniteSet(S), NEW key, \A x \in S : key[x] \in Nat,
         NEW s, Falling(s, S, key), NEW t, Falling(t, S, key),
         NEW k \in 1 .. Cardinality(S)
  PROVE  key[s[k]] >= key[t[k]]
<1>. DEFINE n == Cardinality(S)
            place == [i \in 1 .. k |-> CHOOSE j \in 1 .. n : s[j] = t[i]]
<1>. SUFFICES ASSUME key[s[k]] < key[t[k]] PROVE FALSE
  <2>1. s[k] \in S /\ t[k] \in S
    BY DEF Falling
  <2>. QED
    BY <2>1
<1>1. n \in Nat /\ k \in Nat
  BY FS_CardinalityType
<1>2. ASSUME NEW i \in 1 .. k
      PROVE  place[i] \in 1 .. k - 1 /\ s[place[i]] = t[i]
  <2>1. i \in 1 .. n /\ i <= k
    BY <1>1
  <2>2. t[i] \in S /\ t[k] \in S /\ s[k] \in S /\ key[t[i]] >= key[t[k]]
    BY <2>1 DEF Falling
  <2>3. place[i] \in 1 .. n /\ s[place[i]] = t[i]
    <3>1. \E j \in 1 .. n : s[j] = t[i]
      BY <2>2 DEF Falling
    <3>. QED
      BY <3>1
  <2>. DEFINE j == place[i]
  <2>. HIDE DEF place, j
  <2>4. j >= k => key[s[k]] >= key[s[j]]
    BY <2>3 DEF Falling, j
  <2>5. ~(j >= k)
    BY <2>2, <2>3, <2>4 DEF j
  <2>. QED
    BY <1>1, <2>3, <2>5 DEF j
<1>. HIDE DEF place
<1>3. place \in [1 .. k -> 1 .. k - 1]
  BY <1>2 DEF place
<1>4. /\ IsFiniteSet(1 .. k) /\ IsFiniteSet(1 .. k - 1)
      /\ Cardinality(1 .. k) = k /\ Cardinality(1 .. k - 1) = k - 1
  <2>1. 1 \in Int /\ k \in Int /\ k - 1 \in Int /\ k >= 1
    BY <1>1
  <2>2. IsFiniteSet(1 .. k) /\ Cardinality(1 .. k) = IF 1 > k THEN 0 ELSE k - 1 + 1
    BY <2>1, FS_Interval
  <2>3. /\ IsFiniteSet(1 .. k - 1)
        /\ Cardinality(1 .. k - 1) = IF 1 > k - 1 THEN 0 ELSE (k - 1) - 1 + 1
    BY <2>1, FS_Interval
  <2>. QED
    BY <2>1, <2>2, <2>3
<1>5. PICK i \in 1 .. k, j \in 1 .. k : i # j /\ place[i] = place[j]
  <2>1. Cardinality(1 .. k - 1) < Cardinality(1 .. k)
    BY <1>1, <1>4
  <2>. QED
    BY <1>3, <1>4, <2>1, FS_PigeonHole
<1>6. t[i] = t[j] /\ i \in 1 .. n /\ j \in 1 .. n
  BY <1>1, <1>2, <1>5
<1>. QED
  BY <1>5, <1>6 DEF Falling

(* so two such lists show the same keys, and still do when both are cut *)
LEMMA SameKeys ==
  ASSUME NEW S, IsFiniteSet(S), NEW key, \A x \in S : key[x] \in Nat,
         NEW s, Falling(s, S, key), NEW t, Falling(t, S, key), NEW limit \in Nat
  PROVE  [k \in DOMAIN Cut(s, limit) |-> key[Cut(s, limit)[k]]]
            = [k \in DOMAIN Cut(t, limit) |-> key[Cut(t, limit)[k]]]
<1>. DEFINE n == Cardinality(S)
            m == IF limit < n THEN limit ELSE n
<1>1. n \in Nat /\ m \in 0 .. n
  BY FS_CardinalityType
<1>2. ASSUME NEW u, Falling(u, S, key)
      PROVE  DOMAIN Cut(u, limit) = 1 .. m /\ \A k \in 1 .. m : Cut(u, limit)[k] = u[k]
  <2>1. u \in Seq(S) /\ Len(u) = n
    BY <1>1, <1>2 DEF Falling
  <2>. HIDE DEF n
  <2>2. Cut(u, limit) = SubSeq(u, 1, m)
    BY <2>1 DEF Cut
  <2>. QED
    BY <1>1, <2>1, <2>2
<1>3. ASSUME NEW k \in 1 .. m PROVE key[s[k]] = key[t[k]]
  <2>1. k \in 1 .. n
    BY <1>1
  <2>2. s[k] \in S /\ t[k] \in S
    BY <2>1 DEF Falling
  <2>3. key[s[k]] >= key[t[k]] /\ key[t[k]] >= key[s[k]]
    BY <2>1, NoSmallerKey
  <2>. QED
    BY <2>2, <2>3
<1>. HIDE DEF m
<1>4. /\ DOMAIN Cut(s, limit) = 1 .. m /\ \A k \in 1 .. m : Cut(s, limit)[k] = s[k]
      /\ DOMAIN Cut(t, limit) = 1 .. m /\ \A k \in 1 .. m : Cut(t, limit)[k] = t[k]
  BY <1>2
<1>5. \A k \in 1 .. m : key[Cut(s, limit)[k]] = key[Cut(t, limit)[k]]
  BY <1>3, <1>4
<1>. QED
  BY <1>4, <1>5

(* what has no pair the wrong way round falls *)
LEMMA OrderingsFall ==
  ASSUME NEW S, IsFiniteSet(S), NEW key, \A x \in S : key[x] \in Nat,
         NEW before, \A x, y \in S : key[x] > key[y] => <<x, y>> \in before,
         NEW s \in Orderings(S, before)
  PROVE  Falling(s, S, key)
<1>. DEFINE n == Cardinality(S)
<1>1. /\ n \in Nat /\ s \in [1 .. n -> S] /\ DOMAIN s = 1 .. n
      /\ \A i, j \in 1 .. n : i # j => s[i] # s[j]
      /\ \A x \in S : \E k \in DOMAIN s : s[k] = x
  BY OrderingLists DEF Holds
<1>2. ASSUME NEW i \in 1 .. n, NEW j \in 1 .. n, i <= j PROVE key[s[i]] >= key[s[j]]
  <2>1. s[i] \in S /\ s[j] \in S
    BY <1>1
  <2>2. CASE i = j
    BY <2>1, <2>2
  <2>3. CASE i < j
    <3>1. <<s[j], s[i]>> \notin before
      BY <2>3 DEF Orderings
    <3>. QED
      BY <2>1, <3>1
  <2>. QED
    BY <1>1, <1>2, <2>2, <2>3
<1>. QED
  BY <1>1, <1>2 DEF Falling

(***************************************************************************)
(* The theorems                                                            *)
(***************************************************************************)
(* every variable keeps its type, whatever the texts and limits are *)
THEOREM TypeCorrect == Spec => []TypeOK
<1>. QED
  BY IInvariant, PTL DEF IInv

(* Splitting loses, doubles and reorders no token, at any size of chunk. *)
THEOREM SplittingIsLossless == Spec => []NoTokenLost
<1>1. IInv => NoTokenLost
  BY DEF IInv, ComicInv, Lossless, NoTokenLost
<1>. QED
  BY <1>1, IInvariant, PTL

(* No chunk is over the limit but a single long word, and none was cut off   *)
(* while it had room for the word that came next.                            *)
THEOREM ChunksAreSnug == Spec => []ChunksFit
<1>1. IInv => ChunksFit
  BY DEF IInv, ComicInv, SnugSoFar, Snug, Fits, FullFor, ChunksFit
<1>. QED
  BY <1>1, IInvariant, PTL

(* With limits that agree, the words service refuses a comic exactly for a   *)
(* word that no split could have made acceptable.                            *)
THEOREM RefusalsAreJust == Spec => []RefusedForLongWord
<1>1. ASSUME IInv PROVE RefusedForLongWord
  <2>. SUFFICES ASSUME NEW c \in Comics
                PROVE  LET oversized == \E t \in Tokenset(text[c]) : Size[t] > MaxPhrase
                       IN  /\ stage[c] = "refused" => oversized
                           /\ stage[c] = "stored" => ~oversized
    BY DEF RefusedForLongWord
  <2>. DEFINE list == chunks[c]
  <2>1. /\ text[c] \in Seq(Tokens) /\ list \in Seq(Seq(Tokens)) /\ Len(list) \in Nat
        /\ normed[c] \in Nat
        /\ ComicInv(stage[c], text[c], read[c], current[c], list, normed[c], words[c])
    BY <1>1, ComicValues
  <2>2. \A t \in Tokens : t \in Tokenset(text[c]) <=> \E i \in 1 .. Len(text[c]) : text[c][i] = t
    BY <2>1 DEF Tokenset
  <2>3. ASSUME stage[c] \in {"refused", "stored"}
        PROVE  \A t \in Tokens :
                  t \in Tokenset(text[c]) <=> \E k \in 1 .. Len(list) : Holds(list[k], t)
    <3>1. Placed(text[c], Len(text[c]), list, <<>>)
      BY <2>1, <2>3 DEF ComicInv, Progress
    <3>2. \A t : ~Holds(<<>>, t)
      BY DEF Holds
    <3>3. DOMAIN list = 1 .. Len(list)
      BY <2>1
    <3>. QED
      BY <2>2, <3>1, <3>2, <3>3 DEF Placed
  <2>4. ASSUME stage[c] = "refused" PROVE \E t \in Tokenset(text[c]) : Size[t] > MaxPhrase
    <3>. DEFINE k     == normed[c] + 1
                chunk == list[k]
                t     == chunk[1]
    <3>1. k \in 1 .. Len(list) /\ Bytes(chunk) > MaxPhrase
      BY <2>1, <2>4 DEF ComicInv, Progress
    <3>2. chunk \in Seq(Tokens) /\ k \in DOMAIN list
      BY <2>1, <3>1
    <3>3. Bytes(chunk) <= MaxChunk \/ Len(chunk) = 1
      BY <2>1, <3>2 DEF ComicInv, SnugSoFar, Snug, Fits
    <3>4. Len(chunk) = 1
      <4>1. Bytes(chunk) \in Nat
        BY <3>2, BytesType
      <4>. QED
        BY <3>1, <3>3, <4>1, LimitsAssumption
    <3>5. t \in Tokens /\ chunk = Append(<<>>, t) /\ Holds(chunk, t)
      BY <3>2, <3>4 DEF Holds
    <3>6. Bytes(chunk) = Size[t]
      <4>. HIDE DEF k, chunk, t
      <4>. QED
        BY <3>5, BytesSingle
    <3>. HIDE DEF k, chunk, t
    <3>. QED
      BY <2>3, <2>4, <3>1, <3>5, <3>6 DEF chunk
  <2>5. ASSUME stage[c] = "stored", NEW t \in Tokenset(text[c]) PROVE ~(Size[t] > MaxPhrase)
    <3>1. t \in Tokens
      BY <2>1 DEF Tokenset
    <3>2. PICK k \in 1 .. Len(list) : Holds(list[k], t)
      BY <2>3, <2>5, <3>1
    <3>3. Bytes(list[k]) <= MaxPhrase
      BY <2>1, <2>5 DEF ComicInv, Progress, Answered
    <3>4. list[k] \in Seq(Tokens)
      BY <2>1
    <3>5. Size[t] <= Bytes(list[k]) /\ Bytes(list[k]) \in Nat /\ Size[t] \in Nat
      BY <3>1, <3>2, <3>4, BytesCoverToken, BytesType, SizeAssumption
    <3>. QED
      BY <3>3, <3>5, LimitsAssumption
  <2>. QED
    BY <2>4, <2>5
<1>. QED
  BY <1>1, IInvariant, PTL

(* The row has the words of the whole text and no others, wherever the       *)
(* chunks were cut.                                                          *)
THEOREM RowsAreComplete == Spec => []RowHasAllWords
<1>1. ASSUME IInv PROVE RowHasAllWords
  <2>. SUFFICES ASSUME NEW c \in Comics, stage[c] = "stored"
                PROVE  Tokenset(words[c]) = UNION {NormWords[t] : t \in Tokenset(text[c])}
    BY DEF RowHasAllWords
  <2>. DEFINE list == chunks[c]
  <2>1. /\ text[c] \in Seq(Tokens) /\ list \in Seq(Seq(Tokens)) /\ words[c] \in Seq(AllWords)
        /\ ComicInv("stored", text[c], read[c], current[c], list, normed[c], words[c])
    BY <1>1, ComicValues
  <2>2. \A t \in Tokens : t \in Tokenset(text[c]) <=> \E k \in 1 .. Len(list) : Holds(list[k], t)
    <3>1. Placed(text[c], Len(text[c]), list, <<>>)
      BY <2>1 DEF ComicInv, Progress
    <3>2. DOMAIN list = 1 .. Len(list) /\ DOMAIN text[c] = 1 .. Len(text[c])
      BY <2>1
    <3>. QED
      BY <3>1, <3>2 DEF Placed, Holds, Tokenset
  <2>3. \A w \in AllWords :
           Holds(words[c], w)
              <=> \E k \in 1 .. Len(list), t \in Tokens : Holds(list[k], t) /\ w \in NormWords[t]
    BY <2>1 DEF ComicInv, Progress, Answered
  <2>4. Tokenset(words[c]) \subseteq AllWords /\ Tokenset(text[c]) \subseteq Tokens
    BY <2>1 DEF Tokenset
  <2>5. UNION {NormWords[t] : t \in Tokenset(text[c])} \subseteq AllWords
    BY <2>4 DEF AllWords
  <2>6. \A w : w \in Tokenset(words[c]) <=> Holds(words[c], w)
    BY DEF Tokenset, Holds
  <2>7. \A w \in AllWords : w \in Tokenset(words[c])
                              <=> \E t \in Tokenset(text[c]) : w \in NormWords[t]
    <3>. HIDE DEF list
    <3>. QED
      BY <2>2, <2>3, <2>4, <2>6
  <2>. QED
    BY <2>4, <2>5, <2>7
<1>. QED
  BY <1>1, IInvariant, PTL

(* Neither search hides a better comic than the other shows: over comics of  *)
(* one chunk they answer the same numbers of matched words, place by place.  *)
THEOREM SearchesShowEquals == Spec => []SearchesAgree
<1>1. ASSUME IInv PROVE SearchesAgree
  <2>. SUFFICES ASSUME \A c \in Stored : Len(chunks[c]) <= 1,
                       NEW q \in Queries, NEW limit \in Limits,
                       NEW found \in FindResults(Stored, words, q, limit),
                       NEW ranked \in RankResults(Stored,
                              [c \in Comics |-> DistinctHits(words[c], q)], limit)
                PROVE  LET hits == [c \in Comics |-> DistinctHits(words[c], q)]
                       IN  [k \in DOMAIN found |-> hits[found[k]]]
                             = [k \in DOMAIN ranked |-> hits[ranked[k]]]
    BY DEF SearchesAgree
  <2>. DEFINE hits == [c \in Comics |-> DistinctHits(words[c], q)]
              S    == {c \in Stored : hits[c] > 0}
  <2>1. limit \in Nat /\ IsFiniteSet(q)
    BY SearchAssumption
  <2>2. ASSUME NEW c \in Stored
        PROVE  /\ c \in Comics /\ hits[c] = Occurrences(words[c], q)
               /\ hits[c] \in Nat /\ hits[c] <= Cardinality(q)
    <3>1. c \in Comics /\ stage[c] = "stored"
      BY DEF Stored
    <3>2. /\ words[c] \in Seq(AllWords) /\ Len(chunks[c]) <= 1
          /\ ComicInv(stage[c], text[c], read[c], current[c], chunks[c], normed[c], words[c])
      BY <1>1, <3>1, ComicValues
    <3>3. \A i, j \in DOMAIN words[c] : i # j => words[c][i] # words[c][j]
      BY <3>1, <3>2 DEF ComicInv, Progress, Answered
    <3>. QED
      BY <2>1, <3>1, <3>2, <3>3, CountsAgree
  <2>3. /\ S \subseteq Stored /\ IsFiniteSet(S) /\ \A c \in S : hits[c] \in Nat
        /\ S = Matching(Stored, words, q)
    <3>1. Stored \subseteq Comics
      BY DEF Stored
    <3>2. IsFiniteSet(S)
      BY <3>1, ComicsAssumption, FS_Subset
    <3>. QED
      BY <2>2, <3>2 DEF Matching
  <2>4. PICK s : Falling(s, S, hits) /\ found = Cut(s, limit)
    <3>. DEFINE before == {p \in S \X S : FindPrecedes(words[p[1]], words[p[2]], q)}
    <3>1. PICK s \in Orderings(S, before) : found = Cut(s, limit)
      BY <2>3 DEF FindResults
    <3>2. ASSUME NEW x \in S, NEW y \in S, hits[x] > hits[y] PROVE <<x, y>> \in before
      <4>1. Cardinality(q) \in Nat
        BY <2>1, FS_CardinalityType
      <4>2. /\ hits[x] = Occurrences(words[x], q) /\ hits[y] = Occurrences(words[y], q)
            /\ hits[x] \in Nat /\ hits[y] \in Nat /\ hits[x] <= Cardinality(q)
        BY <2>2, <2>3
      <4>3. Occurrences(words[y], q) # Cardinality(q)
        BY <3>2, <4>1, <4>2
      <4>4. Occurrences(words[x], q) > Occurrences(words[y], q)
        BY <3>2, <4>2
      <4>5. FindPrecedes(words[x], words[y], q)
        BY <4>3, <4>4 DEF FindPrecedes
      <4>. QED
        BY <4>5
    <3>. HIDE DEF before, S, hits
    <3>3. Falling(s, S, hits)
      BY <2>3, <3>1, <3>2, OrderingsFall
    <3>. QED
      BY <3>1, <3>3
  <2>5. PICK t : Falling(t, S, hits) /\ ranked = Cut(t, limit)
    <3>. DEFINE before == {p \in S \X S : \/ hits[p[1]] > hits[p[2]]
                                          \/ hits[p[1]] = hits[p[2]] /\ p[1] < p[2]}
    <3>1. PICK t \in Orderings(S, before) : ranked = Cut(t, limit)
      BY DEF RankResults
    <3>2. \A x, y \in S : hits[x] > hits[y] => <<x, y>> \in before
      <4>. HIDE DEF hits, S
      <4>. QED
        OBVIOUS
    <3>. HIDE DEF before, S, hits
    <3>3. Falling(t, S, hits)
      BY <2>3, <3>1, <3>2, OrderingsFall
    <3>. QED
      BY <3>1, <3>3
  <2>6. [k \in DOMAIN found |-> hits[found[k]]] = [k \in DOMAIN ranked |-> hits[ranked[k]]]
    <3>. HIDE DEF hits, S
    <3>. QED
      BY <2>1, <2>3, <2>4, <2>5, SameKeys
  <2>. QED
    BY <2>6
<1>. QED
  BY <1>1, IInvariant, PTL
=============================================================================
