--------------------------- MODULE ExtractionProofs ---------------------------
(***************************************************************************)
(* Proofs about the extraction of an invoice, for any files, any limits of   *)
(* a question, a request and a job, and any answers of the models.          *)
(***************************************************************************)
EXTENDS TextCascade, FiniteSetTheorems, SequenceTheorems, WellFoundedInduction, TLAPS

-----------------------------------------------------------------------------
(* Recursive functions over the natural numbers *)

(* A set of naturals with no gap above it has them all. *)
LEMMA Induction ==
    ASSUME NEW S, 0 \in S, \A n \in Nat : n \in S => n + 1 \in S
    PROVE  \A n \in Nat : n \in S
<1> DEFINE R == OpToRel(<, Nat)
<1>1. IsWellFoundedOn(R, Nat)
  BY NatLessThanWellFounded
<1>2. \A x, y \in Nat : <<y, x>> \in R <=> y < x
  BY DEF OpToRel
<1> HIDE DEF R
<1> SUFFICES ASSUME NEW n \in Nat, n \notin S PROVE FALSE
  OBVIOUS
<1> DEFINE out == {m \in Nat : m \notin S}
<1>0. out \in SUBSET Nat /\ n \in out
  OBVIOUS
<1>3. PICK x \in out : \A y \in out : ~ (<<y, x>> \in R)
  <2> HIDE DEF out
  <2> QED BY <1>0, <1>1, WFMin
<1>4. \A y \in out : ~ (y < x)
  BY <1>2, <1>3
<1>5. x \in Nat /\ x # 0 /\ x - 1 \in Nat /\ x - 1 < x
  BY <1>3
<1> DEFINE k == x - 1
<1>6. k \in Nat /\ k < x /\ k + 1 = x
  BY <1>5
<1> HIDE DEF k
<1>7. k \in S
  BY <1>4, <1>6
<1>8. k + 1 \in S
  BY <1>6, <1>7
<1> QED BY <1>3, <1>6, <1>8

LEMMA LeastIs ==
    ASSUME NEW S \in SUBSET Nat, S # {}
    PROVE  Min(S) \in S /\ \A y \in S : Min(S) <= y
<1> DEFINE R == OpToRel(<, Nat)
<1>1. IsWellFoundedOn(R, Nat)
  BY NatLessThanWellFounded
<1>2. \A x, y \in Nat : <<y, x>> \in R <=> y < x
  BY DEF OpToRel
<1> HIDE DEF R
<1>3. PICK x \in S : \A y \in S : ~ (<<y, x>> \in R)
  BY <1>1, WFMin
<1>4. \A y \in S : y \in Nat /\ x \in Nat /\ ~ (y < x)
  BY <1>2, <1>3
<1>5. \A y \in S : x <= y
  BY <1>4
<1> QED BY <1>5 DEF Min

(* A value and a step give a function of the number of steps. *)
Runs(f, n, a, step) == f[0] = a /\ \A k \in 0 .. n - 1 : f[k + 1] = step[k + 1][f[k]]

LEMMA RunExists ==
    ASSUME NEW V, NEW a \in V, NEW step \in [Nat -> [V -> V]]
    PROVE  \A n \in Nat : \E f \in [0 .. n -> V] : Runs(f, n, a, step)
<1> DEFINE T == {n \in Nat : \E f \in [0 .. n -> V] : Runs(f, n, a, step)}
<1>1. 0 \in T
  <2>1. [k \in 0 .. 0 |-> a] \in [0 .. 0 -> V] /\ Runs([k \in 0 .. 0 |-> a], 0, a, step)
    BY DEF Runs
  <2> QED BY <2>1
<1>2. ASSUME NEW n \in Nat, n \in T PROVE n + 1 \in T
  <2>1. PICK f \in [0 .. n -> V] : Runs(f, n, a, step)
    BY <1>2
  <2> DEFINE g == [k \in 0 .. n + 1 |-> IF k <= n THEN f[k] ELSE step[n + 1][f[n]]]
  <2>2. step[n + 1] \in [V -> V] /\ f[n] \in V
    OBVIOUS
  <2>3. g \in [0 .. n + 1 -> V]
    BY <2>2
  <2>4. g[0] = a
    BY <2>1 DEF Runs
  <2>5. ASSUME NEW k \in 0 .. n PROVE g[k + 1] = step[k + 1][g[k]]
    <3>1. CASE k = n
      BY <3>1
    <3>2. CASE k # n
      <4>1. k \in 0 .. n - 1 /\ g[k] = f[k] /\ g[k + 1] = f[k + 1]
        BY <3>2
      <4> QED BY <2>1, <4>1 DEF Runs
    <3> QED BY <3>1, <3>2
  <2>6. (n + 1) - 1 = n
    OBVIOUS
  <2> HIDE DEF g
  <2>7. Runs(g, n + 1, a, step)
    BY <2>4, <2>5, <2>6 DEF Runs
  <2> QED BY <2>3, <2>7
<1> HIDE DEF T
<1>3. \A n \in Nat : n \in T
  BY <1>1, <1>2, Induction
<1> QED BY <1>3 DEF T

LEMMA RunsAgree ==
    ASSUME NEW a, NEW step, NEW f, NEW g, NEW n \in Nat, Runs(f, n, a, step), NEW m \in Nat, Runs(g, m, a, step)
    PROVE  \A k \in Nat : k <= n /\ k <= m => f[k] = g[k]
<1> DEFINE T == {k \in Nat : k <= n /\ k <= m => f[k] = g[k]}
<1>1. 0 \in T
  BY DEF Runs
<1>2. ASSUME NEW k \in Nat, k \in T PROVE k + 1 \in T
  <2> SUFFICES ASSUME k + 1 <= n, k + 1 <= m PROVE f[k + 1] = g[k + 1]
    OBVIOUS
  <2>1. f[k] = g[k] /\ k \in 0 .. n - 1 /\ k \in 0 .. m - 1
    BY <1>2
  <2> QED BY <2>1 DEF Runs
<1> HIDE DEF T
<1>3. \A k \in Nat : k \in T
  BY <1>1, <1>2, Induction
<1> QED BY <1>3 DEF T

Iterates(f, a, step) == f[0] = a /\ \A n \in Nat : f[n + 1] = step[n + 1][f[n]]

LEMMA Iteration ==
    ASSUME NEW V, NEW a, a \in V, NEW step, step \in [Nat -> [V -> V]]
    PROVE  \E f \in [Nat -> V] : Iterates(f, a, step)
<1> DEFINE run(n) == CHOOSE f \in [0 .. n -> V] : Runs(f, n, a, step)
           f == [n \in Nat |-> run(n)[n]]
<1>1. \A n \in Nat : run(n) \in [0 .. n -> V] /\ Runs(run(n), n, a, step)
  BY RunExists
<1> HIDE DEF run
<1>2. f \in [Nat -> V]
  BY <1>1
<1>3. f[0] = a
  BY <1>1 DEF Runs
<1>4. ASSUME NEW n \in Nat PROVE f[n + 1] = step[n + 1][f[n]]
  <2>1. n + 1 \in Nat /\ n \in 0 .. (n + 1) - 1 /\ n <= n /\ n <= n + 1
    OBVIOUS
  <2>2. run(n + 1)[n + 1] = step[n + 1][run(n + 1)[n]]
    BY <1>1, <2>1 DEF Runs
  <2>3. run(n + 1)[n] = run(n)[n]
    BY <1>1, <2>1, RunsAgree
  <2> QED BY <2>1, <2>2, <2>3
<1> QED BY <1>2, <1>3, <1>4 DEF Iterates

(* A recursive definition over the numbers up to a bound is the function it defines. *)
Climbs(f, L, a, step) == f[0] = a /\ \A n \in 1 .. L : f[n] = step[n][f[n - 1]]

LEMMA BoundedIteration ==
    ASSUME NEW V, NEW L, L \in Nat, NEW a, a \in V, NEW step, step \in [1 .. L -> [V -> V]]
    PROVE  \E f \in [0 .. L -> V] : Climbs(f, L, a, step)
<1> DEFINE all == [n \in Nat |-> IF n \in 1 .. L THEN step[n] ELSE [v \in V |-> v]]
<1>1. all \in [Nat -> [V -> V]]
  OBVIOUS
<1>2. \A n \in 1 .. L : all[n] = step[n]
  OBVIOUS
<1> HIDE DEF all
<1>3. PICK f \in [Nat -> V] : Iterates(f, a, all)
  BY <1>1, Iteration
<1> DEFINE g == [n \in 0 .. L |-> f[n]]
<1>4. g \in [0 .. L -> V] /\ g[0] = a
  BY <1>3 DEF Iterates
<1>5. ASSUME NEW n \in 1 .. L PROVE g[n] = step[n][g[n - 1]]
  <2> DEFINE k == n - 1
  <2>1. k \in Nat /\ k \in 0 .. L /\ k + 1 = n /\ n \in 0 .. L
    OBVIOUS
  <2> HIDE DEF k
  <2>2. f[n] = step[n][f[k]]
    BY <1>2, <1>3, <2>1 DEF Iterates
  <2>3. g[n] = step[n][g[k]]
    BY <2>1, <2>2
  <2> QED BY <2>3 DEF k
<1> HIDE DEF g
<1> QED BY <1>4, <1>5 DEF Climbs

-----------------------------------------------------------------------------
(* Sequences *)

(* A flattened sequence of sequences has the elements of them all. *)
LEMMA FlattenIs ==
    ASSUME NEW S, NEW seqs \in Seq(Seq(S))
    PROVE  /\ FlattenSeq(seqs) \in Seq(S)
           /\ Range(FlattenSeq(seqs)) = UNION {Range(seqs[i]) : i \in 1 .. Len(seqs)}
<1>1. CASE Len(seqs) = 0
  <2>1. seqs = <<>> /\ FlattenSeq(seqs) = <<>>
    BY <1>1 DEF FlattenSeq
  <2>2. \A i \in 1 .. Len(seqs) : FALSE
    BY <1>1
  <2>3. Range(<<>>) = {} /\ <<>> \in Seq(S)
    BY DEF Range
  <2> QED BY <2>1, <2>2, <2>3
<1>2. CASE Len(seqs) # 0
  <2> DEFINE L == Len(seqs)
             V == Seq(S)
             Sound(h) == h = [i \in 1 .. L |-> IF i = 1 THEN seqs[i] ELSE h[i - 1] \o seqs[i]]
             step == [n \in 1 .. L |-> [v \in V |-> v \o seqs[n]]]
             empty == <<>>
  <2>1. L \in Nat /\ L >= 1 /\ \A n \in 1 .. L : seqs[n] \in V
    BY <1>2
  <2>2. step \in [1 .. L -> [V -> V]]
    <3> SUFFICES ASSUME NEW n \in 1 .. L, NEW v \in V PROVE v \o seqs[n] \in V
      OBVIOUS
    <3>1. v \in Seq(S) /\ seqs[n] \in Seq(S)
      BY <2>1
    <3> QED BY <3>1, ConcatProperties
  <2>3. empty \in V
    OBVIOUS
  <2>4. PICK f \in [0 .. L -> V] : Climbs(f, L, empty, step)
    <3> HIDE DEF step, V, L, empty
    <3> QED BY <2>1, <2>2, <2>3, BoundedIteration
  <2>5. ASSUME NEW i \in 1 .. L PROVE f[i] = IF i = 1 THEN seqs[i] ELSE f[i - 1] \o seqs[i]
    <3>0. i - 1 \in 0 .. L
      BY <2>1
    <3>1. f[i - 1] \in V /\ seqs[i] \in V
      <4> HIDE DEF V, L, step, empty
      <4> QED BY <2>1, <3>0
    <3>2. f[i] = f[i - 1] \o seqs[i]
      BY <2>4, <3>1 DEF Climbs
    <3>3. i = 1 => f[i - 1] = <<>>
      BY <2>4 DEF Climbs
    <3>4. <<>> \o seqs[i] = seqs[i]
      BY <3>1, ConcatEmptySeq
    <3> QED BY <3>2, <3>3, <3>4
  <2> HIDE DEF step, empty
  <2> DEFINE g == [i \in 1 .. L |-> f[i]]
  <2>6. Sound(g)
    <3>1. \A i \in 1 .. L : i # 1 => i - 1 \in 1 .. L
      BY <2>1
    <3>2. \A i \in 1 .. L : g[i] = IF i = 1 THEN seqs[i] ELSE g[i - 1] \o seqs[i]
      BY <2>5, <3>1
    <3> QED BY <3>2
  <2> DEFINE h == CHOOSE flatten : Sound(flatten)
  <2>7. Sound(h)
    BY <2>6
  <2>8. FlattenSeq(seqs) = h[L]
    BY <1>2, Zenon DEF FlattenSeq
  <2>9. h = [i \in 1 .. L |-> IF i = 1 THEN seqs[i] ELSE h[i - 1] \o seqs[i]]
    BY <2>7
  <2> HIDE DEF h, g
  <2> DEFINE Good(n) == h[n] \in Seq(S) /\ Range(h[n]) = UNION {Range(seqs[i]) : i \in 1 .. n}
             T == {n \in Nat : n \in 1 .. L => Good(n)}
  <2>10. 0 \in T
    OBVIOUS
  <2>11. ASSUME NEW n \in Nat, n \in T PROVE n + 1 \in T
    <3> DEFINE m == n + 1
    <3> SUFFICES ASSUME m \in 1 .. L PROVE Good(m)
      OBVIOUS
    <3>1. CASE n = 0
      <4>1. m = 1 /\ 1 .. 1 = {1} /\ h[1] = seqs[1] /\ seqs[1] \in Seq(S)
        BY <2>1, <2>9, <3>1
      <4> QED BY <4>1
    <3>2. CASE n # 0
      <4>1. n \in 1 .. L /\ m # 1 /\ m - 1 = n /\ 1 .. m = (1 .. n) \cup {m}
        BY <2>1, <3>2
      <4>2. Good(n)
        BY <2>11, <4>1
      <4> HIDE DEF m
      <4>3. h[m] = h[n] \o seqs[m] /\ seqs[m] \in Seq(S) /\ h[n] \in Seq(S)
        BY <2>1, <2>9, <4>1, <4>2
      <4>4. h[m] \in Seq(S)
        BY <4>3, ConcatProperties
      <4>5. Range(h[m]) = Range(h[n]) \cup Range(seqs[m])
        BY <4>3, RangeConcatenation
      <4>6. UNION {Range(seqs[i]) : i \in 1 .. m} = (UNION {Range(seqs[i]) : i \in 1 .. n}) \cup Range(seqs[m])
        BY <4>1
      <4> QED BY <4>2, <4>4, <4>5, <4>6
    <3> QED BY <3>1, <3>2
  <2> HIDE DEF T
  <2>12. \A n \in Nat : n \in T
    BY <2>10, <2>11, Induction
  <2>13. L \in T
    BY <2>1, <2>12
  <2> QED BY <2>1, <2>8, <2>13 DEF T
<1> QED BY <1>1, <1>2

(* A function over an initial segment of the numbers is a sequence of its values. *)
LEMMA Sequence ==
    ASSUME NEW n \in Nat, NEW f, f = [i \in 1 .. n |-> f[i]]
    PROVE  f \in Seq(Range(f)) /\ Len(f) = n /\ DOMAIN f = 1 .. n
<1>1. DOMAIN f = 1 .. n
  OBVIOUS
<1>2. \A i \in 1 .. n : f[i] \in Range(f)
  BY <1>1 DEF Range
<1>3. f \in [1 .. n -> Range(f)]
  BY <1>2
<1> HIDE DEF Range
<1>4. f \in Seq(Range(f))
  BY <1>3
<1> QED BY <1>1, <1>4

-----------------------------------------------------------------------------
(* The next request *)

LEMMA FirstIs ==
    ASSUME NEW S, NEW place, S # {}, \A q \in S : place[q] \in Nat
    PROVE  First(S, place) \in S
<1> DEFINE P == {place[q] : q \in S}
<1>1. P \in SUBSET Nat /\ P # {}
  OBVIOUS
<1>2. Min(P) \in P /\ \A y \in P : Min(P) <= y
  <2> HIDE DEF P
  <2> QED BY <1>1, LeastIs
<1>3. PICK q \in S : place[q] = Min(P)
  BY <1>2
<1>4. \A r \in S : place[q] <= place[r]
  BY <1>2, <1>3
<1> QED BY <1>4 DEF First

LEMMA OpenIs ==
    ASSUME NEW q, NEW left, NEW answers, Open(q, left, answers) # {}
    PROVE  /\ Min(Open(q, left, answers)) \in Open(q, left, answers)
           /\ DOMAIN GroupRequest(q, left, answers) \notin DOMAIN answers
<1>1. Open(q, left, answers) \in SUBSET Nat
  BY DEF Open, Groups
<1>2. Min(Open(q, left, answers)) \in Open(q, left, answers)
  BY <1>1, LeastIs
<1> DEFINE g == Min(Open(q, left, answers))
<1>3. DOMAIN GroupRequest(q, left, answers) = {GroupId(q, left, g)}
  BY DEF GroupRequest
<1>4. {GroupId(q, left, g)} \notin DOMAIN answers
  BY <1>2 DEF Open
<1> QED BY <1>2, <1>3, <1>4

(* The batches of a set of questions are some of its parts, with nothing in common, *)
(* and none is empty.                                                             *)
Apart(parts) == \A b, c \in parts : b = c \/ b \cap c = {}

LEMMA PackedIs ==
    ASSUME NEW S, NEW place
    PROVE  /\ \A b \in Packed(S, place) : b \subseteq S /\ b # {}
           /\ Apart(Packed(S, place))
           /\ UNION Packed(S, place)
                = UNION {{q \in S : (Rank(q, S, place) - 1) \div MaxQuestions = k} : k \in 0 .. Cardinality(S) \div MaxQuestions}
<1> DEFINE V == SUBSET SUBSET S
           chunk(k) == {q \in S : (Rank(q, S, place) - 1) \div MaxQuestions = k}
           a == {chunk(k) : k \in 0 .. Cardinality(S) \div MaxQuestions}
           step == [n \in Nat |-> [v \in V |-> UNION {Halves(c, place) : c \in v}]]
           Sound(h) == h = [n \in Nat |-> IF n = 0 THEN a ELSE UNION {Halves(c, place) : c \in h[n - 1]}]
<1>1. a \in V
  OBVIOUS
<1>2. step \in [Nat -> [V -> V]]
  <2> SUFFICES ASSUME NEW v \in V PROVE UNION {Halves(c, place) : c \in v} \in V
    OBVIOUS
  <2>1. \A c \in v : Halves(c, place) \in V
    BY DEF Halves
  <2> QED BY <2>1
<1>3. PICK f \in [Nat -> V] : Iterates(f, a, step)
  <2> HIDE DEF V, a, step
  <2> QED BY <1>1, <1>2, Iteration
<1>4. ASSUME NEW n \in Nat PROVE f[n] = IF n = 0 THEN a ELSE UNION {Halves(c, place) : c \in f[n - 1]}
  <2> HIDE DEF a
  <2>1. CASE n = 0
    BY <1>3, <2>1 DEF Iterates
  <2>2. CASE n # 0
    <3> DEFINE k == n - 1
    <3>1. k \in Nat /\ k + 1 = n
      BY <2>2
    <3> HIDE DEF k
    <3>2. f[n] = step[n][f[k]] /\ f[k] \in V
      <4> HIDE DEF step, V
      <4> QED BY <1>3, <3>1 DEF Iterates
    <3>3. f[n] = UNION {Halves(c, place) : c \in f[k]}
      <4> HIDE DEF V
      <4> QED BY <3>2
    <3> QED BY <2>2, <3>3 DEF k
  <2> QED BY <2>1, <2>2
<1>5. Sound(f)
  <2> HIDE DEF a, step
  <2> QED BY <1>4
<1> DEFINE h == CHOOSE cut : Sound(cut)
<1>6. Sound(h)
  BY <1>5
<1>7. Packed(S, place) = h[MaxQuestions] \ {{}}
  BY Zenon DEF Packed
<1>12. Apart(a)
  BY DEF Apart
<1> HIDE DEF h, a, step, V
<1> DEFINE T == {n \in Nat : h[n] \in V /\ UNION h[n] = UNION a /\ Apart(h[n])}
<1>8. 0 \in T
  BY <1>1, <1>6, <1>12
<1>9. ASSUME NEW n \in Nat, n \in T PROVE n + 1 \in T
  <2>1. h[n + 1] = UNION {Halves(c, place) : c \in h[n]}
    <3>1. n + 1 \in Nat /\ n + 1 # 0 /\ (n + 1) - 1 = n
      OBVIOUS
    <3>2. h[n + 1] = UNION {Halves(c, place) : c \in h[(n + 1) - 1]}
      BY <1>6, <3>1
    <3> QED BY <3>1, <3>2
  <2>2. \A c \in h[n] : Halves(c, place) \in V
    BY <1>9 DEF Halves, V
  <2>3. \A c : UNION Halves(c, place) = c
    BY DEF Halves
  <2>4. UNION h[n + 1] = UNION h[n]
    <3>1. UNION h[n + 1] = UNION {UNION Halves(c, place) : c \in h[n]}
      <4> DEFINE halves(c) == Halves(c, place)
                 H == h[n]
      <4>1. h[n + 1] = UNION {halves(c) : c \in H}
        BY <2>1
      <4> HIDE DEF halves, H
      <4>2. UNION (UNION {halves(c) : c \in H}) = UNION {UNION halves(c) : c \in H}
        OBVIOUS
      <4> QED BY <4>1, <4>2 DEF halves, H
    <3>2. {UNION Halves(c, place) : c \in h[n]} = h[n]
      BY <2>3
    <3> QED BY <3>1, <3>2
  <2>5. Apart(h[n + 1])
    <3> DEFINE halves(d) == Halves(d, place)
               H == h[n + 1]
    <3> SUFFICES ASSUME NEW b \in H, NEW c \in H PROVE b = c \/ b \cap c = {}
      BY DEF Apart
    <3>1. \A d : Apart(halves(d)) /\ \A e \in halves(d) : e \subseteq d
      BY DEF Halves, Apart
    <3>2. H = UNION {halves(d) : d \in h[n]} /\ Apart(h[n])
      BY <1>9, <2>1
    <3> HIDE DEF halves, T, H
    <3>3. PICK d \in h[n] : b \in halves(d)
      BY <3>2
    <3>4. PICK e \in h[n] : c \in halves(e)
      BY <3>2
    <3>5. CASE d = e
      BY <3>1, <3>3, <3>4, <3>5 DEF Apart
    <3>6. CASE d \cap e = {}
      <4>1. b \subseteq d /\ c \subseteq e
        BY <3>1, <3>3, <3>4
      <4> QED BY <3>6, <4>1
    <3>7. d = e \/ d \cap e = {}
      <4> DEFINE G == h[n]
      <4>1. Apart(G) /\ d \in G /\ e \in G
        BY <3>2
      <4> HIDE DEF G
      <4> QED BY <4>1 DEF Apart
    <3> QED BY <3>5, <3>6, <3>7
  <2>6. h[n + 1] \in V /\ UNION h[n + 1] = UNION a /\ n + 1 \in Nat
    BY <1>9, <2>1, <2>2, <2>4 DEF V
  <2> QED BY <2>5, <2>6
<1> HIDE DEF T
<1>10. MaxQuestions \in T
  BY <1>8, <1>9, Induction, LimitsValid
<1>11. UNION (h[MaxQuestions] \ {{}}) = UNION h[MaxQuestions]
  OBVIOUS
<1> QED BY <1>7, <1>10, <1>11 DEF T, V, a, Apart

LEMMA Quotients ==
    ASSUME NEW x \in Nat, NEW y \in Nat, x <= y, NEW m \in Nat, m >= 1
    PROVE  x \div m \in 0 .. y \div m
<1> DEFINE a == x \div m
           b == y \div m
<1>1. a \in Nat /\ b \in Nat /\ a * m <= x /\ y < (b + 1) * m
  BY SMT
<1> HIDE DEF a, b
<1>2. a * m < (b + 1) * m
  BY <1>1
<1>3. a < b + 1
  BY <1>1, <1>2
<1> QED BY <1>1, <1>3 DEF a, b

(* Every question that is sent is in one of the batches. *)
LEMMA PackedCovers ==
    ASSUME NEW S, IsFiniteSet(S), NEW place, \A q \in S : place[q] \in Nat
    PROVE  UNION Packed(S, place) = S
<1>1. ASSUME NEW q \in S PROVE (Rank(q, S, place) - 1) \div MaxQuestions \in 0 .. Cardinality(S) \div MaxQuestions
  <2> DEFINE before == {r \in S : place[r] <= place[q]}
  <2>1. before \subseteq S /\ q \in before
    OBVIOUS
  <2> HIDE DEF before
  <2>2. IsFiniteSet(before) /\ Cardinality(before) <= Cardinality(S)
    BY <2>1, FS_Subset
  <2>3. Cardinality(before) \in Nat /\ Cardinality(S) \in Nat
    BY <2>2, FS_CardinalityType
  <2>4. Cardinality(before) # 0
    BY <2>1, <2>2, FS_EmptySet
  <2> DEFINE x == Cardinality(before) - 1
             y == Cardinality(S)
  <2>5. x \in Nat /\ y \in Nat /\ x <= y
    BY <2>2, <2>3, <2>4
  <2> HIDE DEF x, y
  <2>6. x \div MaxQuestions \in 0 .. y \div MaxQuestions
    BY <2>5, Quotients, LimitsValid
  <2> QED BY <2>6 DEF x, y, before, Rank
<1> QED BY <1>1, PackedIs

Sending(unsent, place) == CHOOSE b \in unsent : First(UNION unsent, place) \in b

LEMMA UnsentIs ==
    ASSUME NEW left, NEW place, NEW answers, \A q \in DOMAIN left : place[q] \in Nat,
           NEW unsent, unsent = {b \in BatchesOf(left, place) : Ids(b) \notin DOMAIN answers}, unsent # {}
    PROVE  Sending(unsent, place) \in unsent
<1>1. \A b \in unsent : b \subseteq DOMAIN left /\ b # {}
  <2> DEFINE S == {q \in DOMAIN left : Undecided(left[q]) = NULL}
  <2>1. \A b \in BatchesOf(left, place) : b \in Packed(S, place)
    BY DEF BatchesOf
  <2>2. S \subseteq DOMAIN left
    OBVIOUS
  <2> HIDE DEF S
  <2> QED BY <2>1, <2>2, PackedIs
<1>2. UNION unsent # {} /\ \A q \in UNION unsent : place[q] \in Nat
  BY <1>1
<1>3. First(UNION unsent, place) \in UNION unsent
  BY <1>2, FirstIs
<1> QED BY <1>3 DEF Sending

LEMMA NextRequestIs ==
    ASSUME NEW left, NEW place, NEW answers, \A q \in DOMAIN left : place[q] \in Nat,
           NEW next, next = NextRequest(left, place, BatchesOf(left, place), answers), next # <<>>
    PROVE  DOMAIN next \notin DOMAIN answers
<1> DEFINE playing == {q \in DOMAIN left : Open(q, left[q], answers) # {}}
           unsent  == {b \in BatchesOf(left, place) : Ids(b) \notin DOMAIN answers}
           f == First(playing, place)
           b == Sending(unsent, place)
<1>1. next = IF playing # {} THEN GroupRequest(f, left[f], answers)
             ELSE IF unsent # {} THEN BatchRequest(b, left) ELSE <<>>
  BY DEF NextRequest, Sending
<1>2. CASE playing # {}
  <2>1. f \in playing
    <3>1. \A q \in playing : place[q] \in Nat
      OBVIOUS
    <3> HIDE DEF playing
    <3> QED BY <1>2, <3>1, FirstIs
  <2>2. Open(f, left[f], answers) # {}
    BY <2>1
  <2> HIDE DEF f
  <2>3. DOMAIN GroupRequest(f, left[f], answers) \notin DOMAIN answers
    BY <2>2, OpenIs
  <2> HIDE DEF playing, unsent, b
  <2> QED BY <1>1, <1>2, <2>3
<1>3. CASE playing = {} /\ unsent # {}
  <2>1. b \in unsent
    <3>1. unsent = {c \in BatchesOf(left, place) : Ids(c) \notin DOMAIN answers}
      OBVIOUS
    <3> HIDE DEF unsent
    <3> QED BY <1>3, <3>1, UnsentIs
  <2>2. DOMAIN BatchRequest(b, left) = Ids(b)
    BY DEF BatchRequest
  <2>3. Ids(b) \notin DOMAIN answers
    BY <2>1
  <2> HIDE DEF playing, unsent, b
  <2> QED BY <1>1, <1>3, <2>2, <2>3
<1> HIDE DEF playing, unsent
<1> QED BY <1>1, <1>2, <1>3

(* What a sequence of questions comes to. *)
LEMMA AskedIs ==
    ASSUME NEW questions, NEW lines, NEW answers
    PROVE  Asked(questions, lines, answers)
             = Sent(Played(questions, lines, answers), Places(questions), answers)
<1> DEFINE left == Played(questions, lines, answers)
           place == Places(questions)
<1> HIDE DEF left, place
<1>1. {Sent(l, p, answers) : l \in {left}, p \in {place}} = {Sent(left, place, answers)}
  OBVIOUS
<1> QED BY <1>1 DEF Asked, left, place

LEMMA PlacesAre ==
    ASSUME NEW questions, questions \in Seq(Range(questions))
    PROVE  \A q \in Range(questions) : Places(questions)[q] \in Nat
<1>1. \A q \in Range(questions) : \E n \in DOMAIN questions : questions[n] = q
  BY DEF Range
<1>2. DOMAIN questions \subseteq Nat
  OBVIOUS
<1> QED BY <1>1, <1>2 DEF Places

LEMMA AskedIsUnheard ==
    ASSUME NEW questions, questions \in Seq(Range(questions)), NEW lines, NEW answers,
           Asked(questions, lines, answers).next # <<>>
    PROVE  DOMAIN Asked(questions, lines, answers).next \notin DOMAIN answers
<1> DEFINE left == Played(questions, lines, answers)
           place == Places(questions)
           next == NextRequest(left, place, BatchesOf(left, place), answers)
<1>1. DOMAIN left = Range(questions)
  BY DEF Played
<1>2. \A q \in DOMAIN left : place[q] \in Nat
  BY <1>1, PlacesAre
<1>3. Asked(questions, lines, answers).next = next
  BY AskedIs DEF Sent
<1> HIDE DEF left, place
<1>4. next # <<>> => DOMAIN next \notin DOMAIN answers
  <2> HIDE DEF next
  <2> SUFFICES ASSUME next # <<>> PROVE DOMAIN next \notin DOMAIN answers
    OBVIOUS
  <2> QED BY <1>2, NextRequestIs DEF next
<1> QED BY <1>3, <1>4

IsReading(lines) == lines \in Seq(Range(lines)) /\ \A l \in Range(lines) : IsLine(l)

LEMMA FirstQuestionsAre ==
    ASSUME NEW lines, lines \in Seq(Range(lines))
    PROVE  /\ FirstQuestions(lines) \in Seq(Range(FirstQuestions(lines)))
           /\ Range(FirstQuestions(lines))
                = {<<f, 0>> : f \in Range(FieldOrder)} \cup {<<"document_type", 0>>}
                  \cup {<<"role", i>> : i \in DOMAIN lines}
<1> DEFINE fields == [n \in DOMAIN FieldOrder |-> <<FieldOrder[n], 0>>]
           type   == <<<<"document_type", 0>>>>
           roles  == [i \in DOMAIN lines |-> <<"role", i>>]
           Q == Range(fields) \cup Range(type) \cup Range(roles)
<1>1. fields \in Seq(Q)
  <2>1. DOMAIN FieldOrder = 1 .. 11
    BY DEF FieldOrder
  <2>2. fields = [n \in 1 .. 11 |-> fields[n]]
    BY <2>1
  <2>3. fields \in Seq(Range(fields))
    <3> HIDE DEF fields
    <3> QED BY <2>2, Sequence
  <2> HIDE DEF fields, type, roles
  <2> QED BY <2>3, SeqMonotonic
<1>2. type \in Seq(Q)
  BY DEF Range
<1>3. roles \in Seq(Q)
  <2>1. roles = [i \in 1 .. Len(lines) |-> roles[i]] /\ Len(lines) \in Nat
    OBVIOUS
  <2>2. roles \in Seq(Range(roles))
    <3> HIDE DEF roles
    <3> QED BY <2>1, Sequence
  <2> HIDE DEF fields, type, roles
  <2> QED BY <2>2, SeqMonotonic
<1>4. FirstQuestions(lines) = fields \o type \o roles
  BY DEF FirstQuestions
<1>5. /\ Range(fields) = {<<f, 0>> : f \in Range(FieldOrder)}
      /\ Range(type) = {<<"document_type", 0>>}
      /\ Range(roles) = {<<"role", i>> : i \in DOMAIN lines}
  <2>1. Range(fields) = {<<f, 0>> : f \in Range(FieldOrder)}
    BY DEF Range
  <2>2. Range(type) = {<<"document_type", 0>>}
    BY DEF Range
  <2>3. Range(roles) = {<<"role", i>> : i \in DOMAIN lines}
    BY DEF Range
  <2> QED BY <2>1, <2>2, <2>3
<1> HIDE DEF fields, type, roles, Q
<1>6. fields \o type \in Seq(Q)
  BY <1>1, <1>2, ConcatProperties
<1>7. FirstQuestions(lines) \in Seq(Q)
  BY <1>3, <1>4, <1>6, ConcatProperties
<1>8. Range(FirstQuestions(lines)) = Range(fields) \cup Range(type) \cup Range(roles)
  <2> DEFINE head == fields \o type
  <2>1. head \in Seq(Q) /\ FirstQuestions(lines) = head \o roles
    BY <1>4, <1>6
  <2>2. Range(head) = Range(fields) \cup Range(type)
    BY <1>1, <1>2, RangeConcatenation
  <2> HIDE DEF head
  <2>3. Range(head \o roles) = Range(head) \cup Range(roles)
    BY <1>3, <2>1, RangeConcatenation
  <2> QED BY <2>1, <2>2, <2>3
<1>9. FirstQuestions(lines) \in Seq(Range(FirstQuestions(lines)))
  BY <1>7, RangeOfSeq, SeqOfRange
<1> QED BY <1>5, <1>8, <1>9

(* The questions about rows are the fields of the lines that have a role with fields. *)
LEMMA RowQuestionsAre ==
    ASSUME NEW lines, lines \in Seq(Range(lines)), NEW answers
    PROVE  /\ RowQuestions(lines, answers) \in Seq(Range(RowQuestions(lines, answers)))
           /\ Range(RowQuestions(lines, answers))
                = UNION {{<<f, i>> : f \in Range(RowFields(answers[<<"role", i>>]))} : i \in DOMAIN lines}
<1> DEFINE fields(i) == RowFields(answers[<<"role", i>>])
           part(i)   == [n \in DOMAIN fields(i) |-> <<fields(i)[n], i>>]
           parts     == [i \in DOMAIN lines |-> part(i)]
           asked(i)  == {<<f, i>> : f \in Range(fields(i))}
           Q         == UNION {asked(i) : i \in DOMAIN lines}
<1>0. DOMAIN lines = 1 .. Len(lines) /\ Len(lines) \in Nat
  OBVIOUS
<1>1. ASSUME NEW i PROVE part(i) \in Seq(Range(part(i))) /\ Range(part(i)) = asked(i)
  <2>1. PICK n \in Nat : DOMAIN fields(i) = 1 .. n
    <3>1. DOMAIN fields(i) = 1 .. 3 \/ DOMAIN fields(i) = 1 .. 0
      BY DEF RowFields
    <3> QED BY <3>1
  <2>2. part(i) = [k \in 1 .. n |-> part(i)[k]]
    BY <2>1
  <2>3. part(i) \in Seq(Range(part(i)))
    <3> HIDE DEF part
    <3> QED BY <2>2, Sequence
  <2>4. Range(part(i)) = asked(i)
    <3> HIDE DEF fields
    <3> QED BY DEF Range
  <2> QED BY <2>3, <2>4
<1> HIDE DEF part, asked
<1>2. ASSUME NEW i \in DOMAIN lines PROVE part(i) \in Seq(Q)
  <2>1. asked(i) \subseteq Q
    OBVIOUS
  <2> HIDE DEF Q
  <2> QED BY <1>1, <2>1, SeqMonotonic
<1>3. parts \in Seq(Seq(Q)) /\ DOMAIN parts = DOMAIN lines /\ Len(parts) = Len(lines)
  <2>1. parts = [i \in 1 .. Len(lines) |-> parts[i]] /\ Range(parts) \subseteq Seq(Q)
    BY <1>0, <1>2 DEF Range
  <2> HIDE DEF parts, Q
  <2>2. parts \in Seq(Range(parts)) /\ Len(parts) = Len(lines) /\ DOMAIN parts = 1 .. Len(lines)
    BY <1>0, <2>1, Sequence
  <2> QED BY <1>0, <2>1, <2>2, SeqMonotonic
<1>4. RowQuestions(lines, answers) = FlattenSeq(parts)
  BY DEF RowQuestions, part
<1>5. Range(FlattenSeq(parts)) = Q
  <2>1. \A i \in 1 .. Len(parts) : Range(parts[i]) = asked(i)
    BY <1>0, <1>1, <1>3
  <2>2. Range(FlattenSeq(parts)) = UNION {Range(parts[i]) : i \in 1 .. Len(parts)}
    <3> HIDE DEF parts, Q
    <3> QED BY <1>3, FlattenIs
  <2> HIDE DEF parts
  <2> QED BY <1>0, <1>3, <2>1, <2>2
<1>6. FlattenSeq(parts) \in Seq(Q)
  <2> HIDE DEF parts, Q
  <2> QED BY <1>3, FlattenIs
<1> QED BY <1>4, <1>5, <1>6 DEF asked

LEMMA ConversationIs ==
    ASSUME NEW lines, NEW answers
    PROVE  Conversation(lines, answers)
             = Continued(Asked(FirstQuestions(lines), lines, answers), lines, answers)
<1> DEFINE first == Asked(FirstQuestions(lines), lines, answers)
<1> HIDE DEF first
<1>1. {Continued(f, lines, answers) : f \in {first}} = {Continued(first, lines, answers)}
  OBVIOUS
<1> QED BY <1>1 DEF Conversation, first

(* The request that comes next has no kept answer. *)
LEMMA NextIsUnheard ==
    ASSUME NEW lines, lines \in Seq(Range(lines)), NEW answers, Conversation(lines, answers).next # <<>>
    PROVE  DOMAIN Conversation(lines, answers).next \notin DOMAIN answers
<1> DEFINE first == Asked(FirstQuestions(lines), lines, answers)
           questions == RowQuestions(lines, first.answers)
           rows == Asked(questions, lines, answers)
<1>1. CASE first.next # <<>>
  <2>1. Conversation(lines, answers) = first
    BY <1>1, ConversationIs DEF Continued
  <2>2. DOMAIN first.next \notin DOMAIN answers
    BY <1>1, FirstQuestionsAre, AskedIsUnheard
  <2> QED BY <2>1, <2>2
<1>2. CASE first.next = <<>>
  <2>1. Conversation(lines, answers).next = rows.next
    BY <1>2, ConversationIs DEF Continued
  <2>2. questions \in Seq(Range(questions))
    <3> HIDE DEF first
    <3> QED BY RowQuestionsAre
  <2>3. DOMAIN rows.next \notin DOMAIN answers
    <3> HIDE DEF questions
    <3> QED BY <2>1, <2>2, AskedIsUnheard
  <2> QED BY <2>1, <2>3
<1> QED BY <1>1, <1>2

-----------------------------------------------------------------------------
(* What is read is a sequence of lines *)

LEMMA ReadingsAre ==
    ASSUME NEW lines, IsReading(lines)
    PROVE  /\ \A reading \in VisionReadings(lines) : IsReading(reading)
           /\ \A reading \in Corrections(lines) : IsReading(reading)
<1>0. DOMAIN lines = 1 .. Len(lines) /\ Len(lines) \in Nat /\ lines \in Seq(Range(lines))
  BY DEF IsReading
<1>1. ASSUME NEW i \in DOMAIN lines, NEW new, IsLine(new)
      PROVE  IsReading([lines EXCEPT ![i] = new])
  <2> DEFINE f == [lines EXCEPT ![i] = new]
  <2>1. f = [k \in 1 .. Len(lines) |-> f[k]]
    BY <1>0
  <2>2. \A k \in 1 .. Len(lines) : IsLine(f[k])
    <3>1. \A k \in 1 .. Len(lines) : f[k] = new \/ f[k] = lines[k]
      BY <1>0
    <3>2. \A k \in 1 .. Len(lines) : IsLine(lines[k])
      BY <1>0 DEF IsReading, Range
    <3> HIDE DEF f
    <3> QED BY <1>1, <3>1, <3>2
  <2> HIDE DEF f
  <2>3. f \in Seq(Range(f)) /\ DOMAIN f = 1 .. Len(lines)
    BY <1>0, <2>1, Sequence
  <2>4. \A l \in Range(f) : IsLine(l)
    BY <2>2, <2>3 DEF Range
  <2> QED BY <2>3, <2>4 DEF IsReading, f
<1>2. ASSUME NEW l, IsLine(l), NEW v
      PROVE  /\ IsLine([l EXCEPT !.uncertain = v])
             /\ IsLine([l EXCEPT !.uncertain = v, !.numbers = <<>>])
  <2>1. <<>> \in Seq([w : WrittenNumbers, rate : BOOLEAN])
    OBVIOUS
  <2> QED BY <1>2, <2>1, Zenon DEF IsLine
<1>3. \A i \in DOMAIN lines : IsLine(lines[i])
  BY DEF IsReading, Range
<1>4. ASSUME NEW i \in DOMAIN lines, NEW v
      PROVE  /\ IsReading([lines EXCEPT ![i].uncertain = v])
             /\ IsReading([lines EXCEPT ![i].uncertain = v, ![i].numbers = <<>>])
  <2>1. [lines EXCEPT ![i].uncertain = v] = [lines EXCEPT ![i] = [lines[i] EXCEPT !.uncertain = v]]
    BY Zenon
  <2>2. [lines EXCEPT ![i].uncertain = v, ![i].numbers = <<>>]
          = [lines EXCEPT ![i] = [lines[i] EXCEPT !.uncertain = v, !.numbers = <<>>]]
    BY Zenon
  <2> QED BY <1>1, <1>2, <1>3, <2>1, <2>2
<1>5. ASSUME NEW i \in DOMAIN lines PROVE IsReading(RemoveAt(lines, i))
  <2> DEFINE before == SubSeq(lines, 1, i - 1)
             after  == SubSeq(lines, i + 1, Len(lines))
             S      == Range(lines)
  <2>0. i \in Nat /\ \A k \in 1 .. Len(lines) : lines[k] \in S
    BY <1>0 DEF Range
  <2>1. before \in Seq(S) /\ after \in Seq(S)
    <3> HIDE DEF S
    <3>1. \A k \in 1 .. i - 1 : lines[k] \in S
      BY <1>0, <2>0
    <3>2. \A k \in i + 1 .. Len(lines) : lines[k] \in S
      BY <1>0, <2>0
    <3> QED BY <1>0, <2>0, <3>1, <3>2, SubSeqProperties
  <2>2. RemoveAt(lines, i) = before \o after
    BY DEF RemoveAt
  <2> HIDE DEF before, after
  <2>3. RemoveAt(lines, i) \in Seq(S)
    BY <2>1, <2>2, ConcatProperties
  <2> HIDE DEF S
  <2>4. RemoveAt(lines, i) \in Seq(Range(RemoveAt(lines, i))) /\ Range(RemoveAt(lines, i)) \subseteq S
    BY <2>3, SeqOfRange, RangeOfSeq
  <2> QED BY <2>4 DEF IsReading, S
<1> DEFINE marked(i, v) == [lines EXCEPT ![i].uncertain = v]
           emptied(i) == [lines EXCEPT ![i].uncertain = FALSE, ![i].numbers = <<>>]
<1>6. VisionReadings(lines) = {lines} \cup {marked(i, TRUE) : i \in DOMAIN lines} \cup {RemoveAt(lines, i) : i \in DOMAIN lines}
  BY DEF VisionReadings
<1>7. Corrections(lines) = {lines} \cup {marked(i, FALSE) : i \in Doubted(lines)} \cup {emptied(i) : i \in Doubted(lines)}
  BY DEF Corrections
<1>8. \A i \in DOMAIN lines : IsReading(marked(i, TRUE)) /\ IsReading(marked(i, FALSE)) /\ IsReading(emptied(i))
  BY <1>4
<1>9. Doubted(lines) \subseteq DOMAIN lines
  BY DEF Doubted
<1> HIDE DEF marked, emptied
<1> QED BY <1>5, <1>6, <1>7, <1>8, <1>9

Readings ==
    /\ IsReading(file.printed) /\ \A l \in Range(file.printed) : IsPrinted(l)
    /\ IsReading(text) /\ mode.interpreter \in {"deepseek", "jev"}

(* Every file is, and stays, a sequence of lines, and so is every reading of it. *)
THEOREM ReadingsStayReadings == SpecCascade => []Readings
<1>1. InitCascade => Readings
  <2> SUFFICES ASSUME InitCascade PROVE Readings
    OBVIOUS
  <2>1. PICK b \in Batches : file = [printed |-> b.printed, layer |-> b.layer]
                             /\ mode = [cascade |-> b.cascade, interpreter |-> b.interpreter]
    BY DEF InitCascade
  <2>2. file.printed = b.printed /\ mode.interpreter = b.interpreter
    BY <2>1
  <2>3. IsReading(<<>>)
    BY DEF IsReading, Range
  <2>4. text = <<>>
    BY DEF InitCascade
  <2>5. IsReading(b.printed) /\ \A l \in Range(b.printed) : IsPrinted(l)
    BY BatchesAssumption DEF IsReading, IsPrinted
  <2> QED BY <2>2, <2>3, <2>4, <2>5, BatchesAssumption DEF Readings
<1>2. Readings /\ [NextCascade]_cascadeVars => Readings'
  <2> SUFFICES ASSUME Readings, [NextCascade]_cascadeVars PROVE Readings'
    OBVIOUS
  <2>1. file' = file /\ mode' = mode
    BY DEF NextCascade, cascadeVars, InvalidFile, NoText, VisionFails, DeepSeekReads, InterpreterFails,
           Interpret, JevEnds, RetryFile, Native, VisionReads, Correct
  <2>2. IsReading(text')
    <3>1. CASE \E reading \in VisionReadings(file.printed) : VisionReads(reading)
      <4>1. PICK reading \in VisionReadings(file.printed) : VisionReads(reading)
        BY <3>1
      <4>2. IsReading(reading)
        BY ReadingsAre DEF Readings
      <4>3. text' = text \/ text' = reading
        BY <4>1 DEF VisionReads, BeginInterpretation, jevVars
      <4> QED BY <4>2, <4>3 DEF Readings
    <3>2. CASE outcome.read /\ \E reading \in Corrections(ReadBefore) : Correct(reading)
      <4>1. PICK reading \in Corrections(ReadBefore) : Correct(reading)
        BY <3>2
      <4>2. IsReading(reading)
        BY ReadingsAre DEF Readings, ReadBefore
      <4>3. text' = reading
        BY <4>1 DEF Correct, BeginInterpretation
      <4> QED BY <4>2, <4>3
    <3>3. CASE text' = text
      BY <3>3 DEF Readings
    <3>4. NextJev => text' = text
      BY DEF NextJev, NextAttempt, Attempt, Lose, Overflow, NativeNotStored, CompleteInterpretation, Buy, Refuse
    <3>5. RetryJob => text' = text
      BY DEF RetryJob
    <3> QED BY <3>1, <3>2, <3>3, <3>4, <3>5
          DEF NextCascade, cascadeVars, jevVars, InvalidFile, NoText, VisionFails, DeepSeekReads, InterpreterFails,
              Interpret, JevEnds, RetryFile, Native
  <2> QED BY <2>1, <2>2 DEF Readings
<1> QED BY <1>1, <1>2, PTL DEF SpecCascade

-----------------------------------------------------------------------------
(* What is paid *)

LEMMA AnswersAnswer ==
    ASSUME NEW request, NEW lines, NEW answer \in Answers(request, Plain(request, lines))
    PROVE  DOMAIN answer = DOMAIN request
<1> DEFINE plain == Plain(request, lines)
<1>1. DOMAIN plain = DOMAIN request
  BY DEF Plain
<1> HIDE DEF plain
<1>2. answer \in {plain} \cup UNION {{[plain EXCEPT ![id] = c] : c \in OddChoices(id, request[id])} : id \in DOMAIN request}
  BY Zenon DEF Answers, plain
<1> QED BY <1>1, <1>2

IsJob == job = [state |-> job.state, attempts |-> job.attempts, consents |-> job.consents,
                odd |-> job.odd, code |-> job.code]

(* A request without a kept answer was paid once for each consent, and once more *)
(* while nobody has accepted that its outcome is unknown.                        *)
PaidOnce ==
    /\ IsJob /\ job.consents \in Nat
    /\ \A r \in DOMAIN paid :
          /\ paid[r] \in Nat
          /\ paid[r] <= job.consents + (IF r \in DOMAIN heard \/ job.state = "unknown" THEN 1 ELSE 0)

LEMMA JevPaysOnce ==
    ASSUME PaidOnce, IsReading(text), NextJev
    PROVE  PaidOnce'
<1> USE DEF PaidOnce
<1>1. ASSUME NEW state, NEW code, End(state, code), UNCHANGED <<text, heard, paid>>, Running PROVE PaidOnce'
  <2>1. job'.consents = job.consents /\ IsJob'
    BY <1>1 DEF End, IsJob
  <2>2. heard' = heard /\ paid' = paid /\ job.state # "unknown"
    BY <1>1 DEF Running
  <2> QED BY <2>1, <2>2
<1>2. CASE NextAttempt
  <2>1. job.state = "retry_wait" /\ job' = [job EXCEPT !.state = "running", !.attempts = @ + 1, !.code = NULL]
    BY <1>2 DEF NextAttempt
  <2>2. job'.consents = job.consents /\ job'.state = "running" /\ IsJob'
    BY <2>1 DEF IsJob
  <2>3. heard' = heard /\ paid' = paid
    BY <1>2 DEF NextAttempt
  <2> QED BY <2>1, <2>2, <2>3
<1>3. ASSUME Running, Attempt(Conversation(text, heard)) PROVE PaidOnce'
  <2> DEFINE turn == Conversation(text, heard)
             r == DOMAIN turn.next
  <2>1. turn.next # <<>> => r \notin DOMAIN heard
    BY NextIsUnheard DEF IsReading
  <2>2. r \notin DOMAIN heard => \A s \in DOMAIN More(paid, r) :
          /\ More(paid, r)[s] \in Nat
          /\ More(paid, r)[s] <= job.consents + (IF s = r \/ s \in DOMAIN heard THEN 1 ELSE 0)
    <3> HIDE DEF r
    <3> QED BY <1>3 DEF More, Count, Running
  <2> HIDE DEF turn
  <2>3. CASE Lose(turn)
    <3>1. job'.state = "unknown" /\ job'.consents = job.consents /\ IsJob'
      BY <2>3 DEF Lose, End, IsJob
    <3>2. heard' = heard /\ paid' = More(paid, r) /\ turn.next # <<>>
      BY <2>3 DEF Lose, Asking
    <3> HIDE DEF r
    <3> QED BY <2>1, <2>2, <3>1, <3>2
  <2>4. CASE Overflow(turn) \/ NativeNotStored(turn)
    BY <1>1, <1>3, <2>4 DEF Overflow, NativeNotStored
  <2>5. CASE CompleteInterpretation(turn)
    BY <1>1, <1>3, <2>5 DEF CompleteInterpretation
  <2>6. CASE \E code \in {"provider_http_error", "invalid_response"} : Refuse(turn, code)
    BY <1>1, <1>3, <2>6 DEF Refuse
  <2>7. CASE Asking(turn) /\ \E plain \in {Plain(turn.next, text)} :
                        \E answer \in Answers(turn.next, plain) : Buy(turn, answer, plain)
    <3>1. PICK answer \in Answers(turn.next, Plain(turn.next, text)) : Buy(turn, answer, Plain(turn.next, text))
      BY <2>7
    <3>2. DOMAIN answer = r
      BY AnswersAnswer
    <3>3. DOMAIN heard' = DOMAIN heard \cup {r} /\ paid' = More(paid, r)
      BY <3>1, <3>2 DEF Buy
    <3>4. job'.consents = job.consents /\ IsJob' /\ job'.state = job.state
      BY <3>1 DEF Buy, IsJob
    <3>5. turn.next # <<>>
      BY <2>7 DEF Asking
    <3> HIDE DEF r
    <3> QED BY <1>3, <2>1, <2>2, <3>3, <3>4, <3>5 DEF Running
  <2> QED BY <1>3, <2>3, <2>4, <2>5, <2>6, <2>7 DEF Attempt, turn
<1> QED BY <1>2, <1>3 DEF NextJev

LEMMA StaysPaidOnce == SpecCascade => []PaidOnce
<1>1. InitCascade => PaidOnce
  BY DEF InitCascade, InitJev, NoJob, PaidOnce, IsJob
<1>2. PaidOnce /\ Readings /\ [NextCascade]_cascadeVars => PaidOnce'
  <2> SUFFICES ASSUME PaidOnce, Readings, [NextCascade]_cascadeVars PROVE PaidOnce'
    OBVIOUS
  <2>1. CASE NextJev
    BY <2>1, JevPaysOnce DEF Readings
  <2>2. CASE UNCHANGED <<heard, paid, job>>
    BY <2>2 DEF PaidOnce, IsJob
  <2>3. ASSUME NEW lines, NEW misread, BeginInterpretation(lines, misread) PROVE PaidOnce'
    <3>1. job' = [job EXCEPT !.state = "running", !.attempts = 1, !.consents = 0, !.code = NULL,
                             !.odd = IF misread THEN MaxOdd ELSE @] /\ IsJob
      BY <2>3 DEF BeginInterpretation, PaidOnce
    <3>2. job'.consents = 0 /\ IsJob'
      <4> DEFINE odd == IF misread THEN MaxOdd ELSE job.odd
      <4>1. job' = [job EXCEPT !.state = "running", !.attempts = 1, !.consents = 0, !.code = NULL, !.odd = odd]
        BY <3>1, Zenon
      <4> HIDE DEF odd
      <4> QED BY <3>1, <4>1 DEF IsJob
    <3>3. paid' = <<>>
      BY <2>3 DEF BeginInterpretation
    <3> QED BY <3>2, <3>3 DEF PaidOnce
  <2>4. CASE RetryJob
    <3>1. job'.consents = (IF job.state = "unknown" THEN job.consents + 1
                           ELSE IF job.state = "needs_review" THEN 0 ELSE job.consents)
          /\ IsJob' /\ job'.state = "running"
      BY <2>4 DEF RetryJob, PaidOnce, IsJob
    <3>2. job.state \in {"failed", "unknown"} => heard' = heard /\ paid' = paid
      BY <2>4 DEF RetryJob, Remembered
    <3>3. job.state \notin {"failed", "unknown"} => job.state = "needs_review" /\ paid' = <<>>
      BY <2>4 DEF RetryJob
    <3> QED BY <3>1, <3>2, <3>3 DEF PaidOnce
  <2> QED BY <2>1, <2>2, <2>3, <2>4
        DEF NextCascade, cascadeVars, jevVars, InvalidFile, NoText, VisionFails, DeepSeekReads, InterpreterFails,
            Interpret, JevEnds, RetryFile, Native, VisionReads, Correct
<1> QED BY <1>1, <1>2, ReadingsStayReadings, PTL DEF SpecCascade

(* Whatever fails in between, a request is paid once for each consent and once.   *)
THEOREM AnswersAreBoughtOnce == SpecCascade => []AnswersBoughtOnce
<1>1. PaidOnce => AnswersBoughtOnce
  BY DEF PaidOnce, AnswersBoughtOnce
<1> QED BY <1>1, StaysPaidOnce, PTL

-----------------------------------------------------------------------------
(* The invoice of the text layer *)

(* What has an index has finitely many values. *)
LEMMA IndexedIsFinite ==
    ASSUME NEW n \in Nat, NEW f, DOMAIN f = 1 .. n, f = [i \in 1 .. n |-> f[i]]
    PROVE  IsFiniteSet({f[i] : i \in 1 .. n})
<1> DEFINE T == {f[i] : i \in 1 .. n}
<1>1. f \in [1 .. n -> T] /\ \A t \in T : \E i \in 1 .. n : f[i] = t
  OBVIOUS
<1> HIDE DEF T
<1>2. f \in Surjection(1 .. n, T)
  BY <1>1 DEF Surjection
<1>3. \E k \in Nat : ExistsSurjection(1 .. k, T)
  BY <1>2 DEF ExistsSurjection
<1> QED BY <1>3, FS_NatSurjection DEF T

UNTOUCHED == Scalars \ {"issue_date", "taxable_base", "total"}
Rewritten(field, v) == IF field.v = NULL THEN field ELSE [field EXCEPT !.v = v]
IsInvoice(raw) ==
    DOMAIN raw = Scalars \cup {"rows", "taxes", "issues"} /\ raw = [f \in DOMAIN raw |-> raw[f]]

LEMMA NormalizedIs ==
    ASSUME NEW raw, IsInvoice(raw)
    PROVE  LET normal == NormalizeInvoice(raw)
           IN  /\ \A f \in UNTOUCHED : normal[f] = raw[f]
               /\ normal.issue_date = Rewritten(raw.issue_date, NormalizeDate(raw.issue_date.v))
               /\ \A f \in {"taxable_base", "total"} : normal[f] = Rewritten(raw[f], NormalizeDecimal(raw[f].v))
               /\ \A f \in {"rows", "taxes"} : normal[f] = [i \in DOMAIN raw[f] |-> RereadRow(raw[f][i])]
               /\ IsInvoice(normal)
<1> DEFINE date == Rewritten(raw.issue_date, NormalizeDate(raw.issue_date.v))
           base == Rewritten(raw.taxable_base, NormalizeDecimal(raw.taxable_base.v))
           total == Rewritten(raw.total, NormalizeDecimal(raw.total.v))
           rows == [i \in DOMAIN raw.rows |-> RereadRow(raw.rows[i])]
           taxes == [i \in DOMAIN raw.taxes |-> RereadRow(raw.taxes[i])]
           normal == [raw EXCEPT !.issue_date = date, !.taxable_base = base, !.total = total,
                                 !.rows = rows, !.taxes = taxes]
<1>1. PICK issues : NormalizeInvoice(raw) = [normal EXCEPT !.issues = issues]
  BY Zenon DEF NormalizeInvoice, Reread, Rewritten
<1> HIDE DEF date, base, total, rows, taxes
<1>2. normal = [f \in DOMAIN raw |-> IF f = "issue_date" THEN date ELSE IF f = "taxable_base" THEN base
                   ELSE IF f = "total" THEN total ELSE IF f = "rows" THEN rows
                   ELSE IF f = "taxes" THEN taxes ELSE raw[f]]
  BY DEF IsInvoice
<1> HIDE DEF normal
<1>3. NormalizeInvoice(raw) = [f \in DOMAIN raw |-> IF f = "issues" THEN issues ELSE normal[f]]
  BY <1>1, <1>2
<1> QED BY <1>2, <1>3 DEF IsInvoice, Scalars, UNTOUCHED, date, base, total, rows, taxes

LEMMA WrittenIs ==
    ASSUME NEW raw, IsInvoice(raw)
    PROVE  LET written == Written(raw)
           IN  /\ \A f \in UNTOUCHED : written[f] = raw[f]
               /\ written.issue_date = Rewritten(raw.issue_date, IsoDate(raw.issue_date.v))
               /\ \A f \in {"taxable_base", "total"} : written[f] = Rewritten(raw[f], Printed(raw[f].v))
               /\ \A f \in {"rows", "taxes"} : written[f] = [i \in DOMAIN raw[f] |-> WriteRow(raw[f][i])]
               /\ IsInvoice(written)
<1> DEFINE date == Rewritten(raw.issue_date, IsoDate(raw.issue_date.v))
           base == Rewritten(raw.taxable_base, Printed(raw.taxable_base.v))
           total == Rewritten(raw.total, Printed(raw.total.v))
           rows == [i \in DOMAIN raw.rows |-> WriteRow(raw.rows[i])]
           taxes == [i \in DOMAIN raw.taxes |-> WriteRow(raw.taxes[i])]
           written == [raw EXCEPT !.issue_date = date, !.taxable_base = base, !.total = total,
                                  !.rows = rows, !.taxes = taxes]
<1>1. Written(raw) = written
  BY Zenon DEF Written, Reread, Rewritten
<1> HIDE DEF date, base, total, rows, taxes
<1>2. written = [f \in DOMAIN raw |-> IF f = "issue_date" THEN date ELSE IF f = "taxable_base" THEN base
                    ELSE IF f = "total" THEN total ELSE IF f = "rows" THEN rows
                    ELSE IF f = "taxes" THEN taxes ELSE raw[f]]
  BY DEF IsInvoice
<1> HIDE DEF written
<1> QED BY <1>1, <1>2 DEF IsInvoice, Scalars, UNTOUCHED, date, base, total, rows, taxes

LEMMA ExtractedIs ==
    ASSUME NEW lines
    PROVE  /\ IsInvoice(Extract(lines))
           /\ \A f \in UNTOUCHED : NormalizeInvoice(Written(Extract(lines)))[f] = Extract(lines)[f]
<1>1. IsInvoice(Extract(lines))
  BY DEF IsInvoice, Extract, Scalars
<1> DEFINE raw == Extract(lines)
<1> HIDE DEF raw
<1>2. IsInvoice(raw)
  BY <1>1 DEF raw
<1>3. IsInvoice(Written(raw)) /\ \A f \in UNTOUCHED : Written(raw)[f] = raw[f]
  BY <1>2, WrittenIs
<1>4. \A f \in UNTOUCHED : NormalizeInvoice(Written(raw))[f] = raw[f]
  BY <1>3, NormalizedIs
<1> QED BY <1>1, <1>4 DEF raw

(* The value of the field is the only one that the lines have. *)
TheValues(vals)  == UNION {vals[i] : i \in DOMAIN vals}
TheValue(vals, i) == IF vals[i] = {} THEN NULL ELSE CHOOSE v \in TheValues(vals) : TRUE
TheHaving(vals)  == {i \in DOMAIN vals : TheValue(vals, i) # NULL}
TheOnly(vals) ==
    IF Cardinality(TheValues(vals)) # 1 THEN Gap
    ELSE IF TheHaving(vals) = {} THEN Gap
    ELSE Field(TheValue(vals, Min(TheHaving(vals))), {Min(TheHaving(vals))})

LEMMA OnlyOne ==
    ASSUME NEW n \in Nat, NEW vals, vals = [i \in 1 .. n |-> vals[i]], \A i \in 1 .. n : IsFiniteSet(vals[i]),
           TheOnly(vals).v # NULL
    PROVE  TheValues(vals) = {TheOnly(vals).v}
<1>1. IsFiniteSet(TheValues(vals))
  <2>1. IsFiniteSet({vals[i] : i \in 1 .. n})
    BY IndexedIsFinite
  <2>2. \A T \in {vals[i] : i \in 1 .. n} : IsFiniteSet(T)
    OBVIOUS
  <2>3. DOMAIN vals = 1 .. n
    OBVIOUS
  <2> QED BY <2>1, <2>2, <2>3, FS_UNION DEF TheValues
<1>2. Gap.v = NULL
  BY DEF Gap, Field
<1>3. Cardinality(TheValues(vals)) = 1 /\ TheHaving(vals) # {}
  BY <1>2 DEF TheOnly
<1>4. PICK x : TheValues(vals) = {x}
  BY <1>1, <1>3, FS_Singleton
<1>5. TheHaving(vals) \in SUBSET Nat
  BY DEF TheHaving
<1>6. Min(TheHaving(vals)) \in TheHaving(vals)
  BY <1>3, <1>5, LeastIs
<1>7. TheOnly(vals).v = TheValue(vals, Min(TheHaving(vals)))
  BY <1>3 DEF TheOnly, Field
<1>8. TheValue(vals, Min(TheHaving(vals))) = x
  BY <1>4, <1>6 DEF TheHaving, TheValue
<1> QED BY <1>4, <1>7, <1>8

LEMMA OnlyOrderAccountAndTax ==
    ASSUME NEW lines, IsReading(lines)
    PROVE  LET read == Extract(lines)
           IN  /\ read.order_reference.v # NULL => Distinct(lines, LAMBDA l : l.orders) = {read.order_reference.v}
               /\ read.iban.v # NULL => Distinct(lines, LAMBDA l : l.ibans) = {read.iban.v}
               /\ read.supplier_tax.v # NULL =>
                     Distinct(lines, LAMBDA l : SupplierTaxes(lines, l)) = {read.supplier_tax.v}
<1>0. DOMAIN lines = 1 .. Len(lines) /\ Len(lines) \in Nat /\ \A i \in 1 .. Len(lines) : IsLine(lines[i])
  BY DEF IsReading, Range
<1> DEFINE read == Extract(lines)
<1>1. read.order_reference.v # NULL => Distinct(lines, LAMBDA l : l.orders) = {read.order_reference.v}
  <2> DEFINE vals == [i \in DOMAIN lines |-> lines[i].orders]
  <2>1. DOMAIN vals = DOMAIN lines /\ vals = [i \in 1 .. Len(lines) |-> vals[i]]
    BY <1>0
  <2>2. \A i \in DOMAIN lines : vals[i] = lines[i].orders
    OBVIOUS
  <2>3. \A i \in 1 .. Len(lines) : IsFiniteSet(vals[i])
    BY <1>0, <2>2 DEF IsLine
  <2> HIDE DEF vals
  <2>4. Distinct(lines, LAMBDA l : l.orders) = TheValues(vals)
    BY <2>1, <2>2 DEF Distinct, TheValues
  <2>5. \A i \in DOMAIN lines : TheValue(vals, i)
                = (IF lines[i].orders = {} THEN NULL ELSE CHOOSE v \in TheValues(vals) : TRUE)
    BY <2>2 DEF TheValue
  <2>6. read.order_reference = TheOnly(vals)
    <3> DEFINE all == Distinct(lines, LAMBDA l : l.orders)
               having == {i \in DOMAIN lines : (IF lines[i].orders = {} THEN NULL ELSE CHOOSE v \in all : TRUE) # NULL}
               at == Min(having)
    <3>1. read.order_reference = IF Cardinality(all) # 1 THEN Gap ELSE IF having = {} THEN Gap
                              ELSE Field(IF lines[at].orders = {} THEN NULL ELSE CHOOSE v \in all : TRUE, {at})
      BY DEF Extract, OnlyValue, FirstValue
    <3>2. having = TheHaving(vals) /\ having \in SUBSET Nat
      <4>1. all = TheValues(vals)
        BY <2>4
      <4> HIDE DEF all
      <4>2. \A i \in DOMAIN lines : TheValue(vals, i)
                = (IF lines[i].orders = {} THEN NULL ELSE CHOOSE v \in all : TRUE)
        BY <2>5, <4>1
      <4>3. having = {i \in DOMAIN lines : TheValue(vals, i) # NULL}
        BY <4>2
      <4> HIDE DEF having
      <4> QED BY <1>0, <2>1, <4>3 DEF TheHaving
    <3>3. having # {} => at \in DOMAIN lines
      <4> HIDE DEF having
      <4>1. having # {} => Min(having) \in having
        BY <3>2, LeastIs
      <4> QED BY <2>1, <3>2, <4>1 DEF TheHaving
    <3>4. having # {} => TheValue(vals, at) = IF lines[at].orders = {} THEN NULL ELSE CHOOSE v \in all : TRUE
      BY <2>4, <2>5, <3>3
    <3>5. all = TheValues(vals)
      BY <2>4
    <3> HIDE DEF all, having
    <3> QED BY <3>1, <3>2, <3>4, <3>5 DEF TheOnly
  <2> QED BY <1>0, <2>1, <2>3, <2>4, <2>6, OnlyOne
<1>2. read.iban.v # NULL => Distinct(lines, LAMBDA l : l.ibans) = {read.iban.v}
  <2> DEFINE vals == [i \in DOMAIN lines |-> lines[i].ibans]
  <2>1. DOMAIN vals = DOMAIN lines /\ vals = [i \in 1 .. Len(lines) |-> vals[i]]
    BY <1>0
  <2>2. \A i \in DOMAIN lines : vals[i] = lines[i].ibans
    OBVIOUS
  <2>3. \A i \in 1 .. Len(lines) : IsFiniteSet(vals[i])
    BY <1>0, <2>2 DEF IsLine
  <2> HIDE DEF vals
  <2>4. Distinct(lines, LAMBDA l : l.ibans) = TheValues(vals)
    BY <2>1, <2>2 DEF Distinct, TheValues
  <2>5. \A i \in DOMAIN lines : TheValue(vals, i)
                = (IF lines[i].ibans = {} THEN NULL ELSE CHOOSE v \in TheValues(vals) : TRUE)
    BY <2>2 DEF TheValue
  <2>6. read.iban = TheOnly(vals)
    <3> DEFINE all == Distinct(lines, LAMBDA l : l.ibans)
               having == {i \in DOMAIN lines : (IF lines[i].ibans = {} THEN NULL ELSE CHOOSE v \in all : TRUE) # NULL}
               at == Min(having)
    <3>1. read.iban = IF Cardinality(all) # 1 THEN Gap ELSE IF having = {} THEN Gap
                              ELSE Field(IF lines[at].ibans = {} THEN NULL ELSE CHOOSE v \in all : TRUE, {at})
      BY DEF Extract, OnlyValue, FirstValue
    <3>2. having = TheHaving(vals) /\ having \in SUBSET Nat
      <4>1. all = TheValues(vals)
        BY <2>4
      <4> HIDE DEF all
      <4>2. \A i \in DOMAIN lines : TheValue(vals, i)
                = (IF lines[i].ibans = {} THEN NULL ELSE CHOOSE v \in all : TRUE)
        BY <2>5, <4>1
      <4>3. having = {i \in DOMAIN lines : TheValue(vals, i) # NULL}
        BY <4>2
      <4> HIDE DEF having
      <4> QED BY <1>0, <2>1, <4>3 DEF TheHaving
    <3>3. having # {} => at \in DOMAIN lines
      <4> HIDE DEF having
      <4>1. having # {} => Min(having) \in having
        BY <3>2, LeastIs
      <4> QED BY <2>1, <3>2, <4>1 DEF TheHaving
    <3>4. having # {} => TheValue(vals, at) = IF lines[at].ibans = {} THEN NULL ELSE CHOOSE v \in all : TRUE
      BY <2>4, <2>5, <3>3
    <3>5. all = TheValues(vals)
      BY <2>4
    <3> HIDE DEF all, having
    <3> QED BY <3>1, <3>2, <3>4, <3>5 DEF TheOnly
  <2> QED BY <1>0, <2>1, <2>3, <2>4, <2>6, OnlyOne
<1>4. \A i \in 1 .. Len(lines) : IsFiniteSet(SupplierTaxes(lines, lines[i]))
  <2> SUFFICES ASSUME NEW i \in 1 .. Len(lines) PROVE IsFiniteSet(SupplierTaxes(lines, lines[i]))
    OBVIOUS
  <2>1. lines[i].taxes \in Seq(Range(lines[i].taxes))
    BY <1>0 DEF IsLine
  <2> DEFINE taxes == lines[i].taxes
  <2>2. Len(taxes) \in Nat /\ DOMAIN taxes = 1 .. Len(taxes) /\ taxes = [k \in 1 .. Len(taxes) |-> taxes[k]]
    BY <2>1
  <2> HIDE DEF taxes
  <2>3. IsFiniteSet(ToSet(taxes))
    BY <2>2, IndexedIsFinite DEF ToSet
  <2>4. SupplierTaxes(lines, lines[i]) \subseteq ToSet(taxes)
    BY DEF SupplierTaxes, taxes
  <2> QED BY <2>3, <2>4, FS_Subset
<1>5. read.supplier_tax.v # NULL => Distinct(lines, LAMBDA l : SupplierTaxes(lines, l)) = {read.supplier_tax.v}
  <2> DEFINE vals == [i \in DOMAIN lines |-> SupplierTaxes(lines, lines[i])]
  <2>1. DOMAIN vals = DOMAIN lines /\ vals = [i \in 1 .. Len(lines) |-> vals[i]]
    BY <1>0
  <2>2. \A i \in DOMAIN lines : vals[i] = SupplierTaxes(lines, lines[i])
    OBVIOUS
  <2>3. \A i \in 1 .. Len(lines) : IsFiniteSet(vals[i])
    BY <1>0, <1>4, <2>2
  <2> HIDE DEF vals
  <2>4. Distinct(lines, LAMBDA l : SupplierTaxes(lines, l)) = TheValues(vals)
    BY <2>1, <2>2 DEF Distinct, TheValues
  <2>5. \A i \in DOMAIN lines : TheValue(vals, i)
                = (IF SupplierTaxes(lines, lines[i]) = {} THEN NULL ELSE CHOOSE v \in TheValues(vals) : TRUE)
    BY <2>2 DEF TheValue
  <2>6. read.supplier_tax = TheOnly(vals)
    <3> DEFINE all == Distinct(lines, LAMBDA l : SupplierTaxes(lines, l))
               having == {i \in DOMAIN lines : (IF SupplierTaxes(lines, lines[i]) = {} THEN NULL ELSE CHOOSE v \in all : TRUE) # NULL}
               at == Min(having)
    <3>1. read.supplier_tax = IF Cardinality(all) # 1 THEN Gap ELSE IF having = {} THEN Gap
                              ELSE Field(IF SupplierTaxes(lines, lines[at]) = {} THEN NULL ELSE CHOOSE v \in all : TRUE, {at})
      BY DEF Extract, OnlyValue, FirstValue
    <3>2. having = TheHaving(vals) /\ having \in SUBSET Nat
      <4>1. all = TheValues(vals)
        BY <2>4
      <4> HIDE DEF all
      <4>2. \A i \in DOMAIN lines : TheValue(vals, i)
                = (IF SupplierTaxes(lines, lines[i]) = {} THEN NULL ELSE CHOOSE v \in all : TRUE)
        BY <2>5, <4>1
      <4>3. having = {i \in DOMAIN lines : TheValue(vals, i) # NULL}
        BY <4>2
      <4> HIDE DEF having
      <4> QED BY <1>0, <2>1, <4>3 DEF TheHaving
    <3>3. having # {} => at \in DOMAIN lines
      <4> HIDE DEF having
      <4>1. having # {} => Min(having) \in having
        BY <3>2, LeastIs
      <4> QED BY <2>1, <3>2, <4>1 DEF TheHaving
    <3>4. having # {} => TheValue(vals, at) = IF SupplierTaxes(lines, lines[at]) = {} THEN NULL ELSE CHOOSE v \in all : TRUE
      BY <2>4, <2>5, <3>3
    <3>5. all = TheValues(vals)
      BY <2>4
    <3> HIDE DEF all, having
    <3> QED BY <3>1, <3>2, <3>4, <3>5 DEF TheOnly
  <2> QED BY <1>0, <2>1, <2>3, <2>4, <2>6, OnlyOne
<1> QED BY <1>1, <1>2, <1>5

LEMMA NativeIs == NativeInvoice = NormalizeInvoice(Written(Extract(file.printed)))
<1> DEFINE raw == Written(Extract(file.printed))
<1> HIDE DEF raw
<1>1. {NormalizeInvoice(r) : r \in {raw}} = {NormalizeInvoice(raw)}
  OBVIOUS
<1> QED BY <1>1 DEF NativeInvoice, raw

(* A file that ended on its own text layer has the invoice that the gate accepted. *)
FromTheText ==
    stage = "done" /\ outcome.route = "deterministic" =>
        outcome.invoice = NativeInvoice /\ Accept(NativeInvoice, file.printed)

LEMMA TextIsAccepted == SpecCascade => []FromTheText
<1>1. InitCascade => FromTheText
  BY DEF InitCascade, FromTheText
<1>2. FromTheText /\ [NextCascade]_cascadeVars => FromTheText'
  <2> SUFFICES ASSUME FromTheText, [NextCascade]_cascadeVars PROVE FromTheText'
    OBVIOUS
  <2> DEFINE Unread == stage' # "done" \/ (stage' = stage /\ outcome' = outcome) \/ outcome'.route = "vision"
  <2>1. file' = file
    BY DEF NextCascade, cascadeVars, InvalidFile, NoText, VisionFails, DeepSeekReads, InterpreterFails,
           Interpret, JevEnds, RetryFile, Native, VisionReads, Correct
  <2>2. NativeInvoice' = NativeInvoice
    BY <2>1, NativeIs DEF NativeInvoice
  <2>3. ASSUME NEW reading \in LocalEnds, NEW fields \in LocalEnds, Native(reading, fields) PROVE FromTheText'
    <3> DEFINE first == IF reading # "ok" THEN reading ELSE fields
    <3>1. CASE first = "ok" /\ Accept(NativeInvoice, file.printed)
      <4>1. outcome' = Outcome("completed", NULL, "deterministic", NativeInvoice, TRUE)
        BY <2>3, <3>1 DEF Native, Publish
      <4>2. outcome'.invoice = NativeInvoice
        BY <4>1 DEF Outcome
      <4> HIDE DEF NativeInvoice
      <4> QED BY <2>1, <2>2, <3>1, <4>2 DEF FromTheText
    <3>2. CASE ~ (first = "ok" /\ Accept(NativeInvoice, file.printed)) /\ first \in {"ok", "held"}
      <4>1. stage' = "vision"
        BY <2>3, <3>2 DEF Native
      <4> QED BY <4>1 DEF FromTheText
    <3>3. CASE ~ (first = "ok" /\ Accept(NativeInvoice, file.printed)) /\ first \notin {"ok", "held"}
      <4>1. Fail(first)
        BY <2>3, <3>3 DEF Native
      <4>2. outcome'.route = "vision"
        BY <4>1 DEF Fail, Publish, Outcome
      <4> QED BY <4>2 DEF FromTheText
    <3> QED BY <3>1, <3>2, <3>3
  <2>4. ASSUME NEW code, Fail(code) PROVE outcome'.route = "vision"
    BY <2>4 DEF Fail, Publish, Outcome
  <2>5. CASE Unread
    <3> HIDE DEF NativeInvoice
    <3> QED BY <2>1, <2>2, <2>5 DEF FromTheText
  <2>6. InvalidFile \/ VisionFails \/ InterpreterFails => Unread
    BY <2>4 DEF InvalidFile, VisionFails, InterpreterFails
  <2>7. DeepSeekReads \/ JevEnds => Unread
    BY <2>4 DEF DeepSeekReads, JevEnds, Publish, Outcome
  <2>8. NoText \/ Interpret \/ RetryFile => Unread
    BY DEF NoText, Interpret, RetryFile
  <2>9. ASSUME NEW reading, VisionReads(reading) PROVE Unread
    BY <2>4, <2>9 DEF VisionReads
  <2>10. ASSUME NEW reading, Correct(reading) PROVE Unread
    BY <2>10 DEF Correct
  <2>11. UNCHANGED cascadeVars => Unread
    BY DEF cascadeVars
  <2> HIDE DEF Unread
  <2> QED BY <2>3, <2>5, <2>6, <2>7, <2>8, <2>9, <2>10, <2>11 DEF NextCascade
<1> QED BY <1>1, <1>2, PTL DEF SpecCascade

LEMMA AcceptedIsUnambiguous ==
    ASSUME Readings, Accept(NativeInvoice, file.printed)
    PROVE  LET lines == file.printed read == NativeInvoice
           IN  /\ Distinct(lines, LAMBDA l : l.orders) = {read.order_reference.v}
               /\ Distinct(lines, LAMBDA l : l.ibans) = {read.iban.v}
               /\ read.supplier_tax.v # read.customer_tax.v
               /\ \A i \in DOMAIN lines : \A k \in DOMAIN lines[i].taxes :
                     \/ lines[i].taxes[k] \in {read.supplier_tax.v, read.customer_tax.v}
                     \/ lines[i].cliente \/ lines[i].opens = "cliente"
<1> DEFINE lines == file.printed
           read == NativeInvoice
           raw == Extract(lines)
<1>1. /\ read.order_reference = raw.order_reference /\ read.iban = raw.iban
      /\ read.supplier_tax = raw.supplier_tax /\ read.customer_tax = CustomerTax(lines)
  <2>1. \A f \in UNTOUCHED : read[f] = raw[f]
    BY NativeIs, ExtractedIs
  <2>2. {"order_reference", "iban", "supplier_tax", "customer_tax"} \subseteq UNTOUCHED
    BY DEF UNTOUCHED, Scalars
  <2>3. raw.customer_tax = CustomerTax(lines)
    BY DEF Extract
  <2> HIDE DEF read, raw
  <2> QED BY <2>1, <2>2, <2>3
<1>2. \A f \in {"order_reference", "iban", "supplier_tax"} : read[f].v # NULL
  <2>1. \A f \in GATE_POINTERS : read[f].v # NULL
    BY DEF Accept, Reasons
  <2> HIDE DEF read
  <2> QED BY <2>1 DEF GATE_POINTERS
<1>3. IsReading(lines)
  BY DEF Readings
<1> HIDE DEF lines, read
<1>4. /\ Distinct(lines, LAMBDA l : l.orders) = {read.order_reference.v}
      /\ Distinct(lines, LAMBDA l : l.ibans) = {read.iban.v}
      /\ Distinct(lines, LAMBDA l : SupplierTaxes(lines, l)) = {read.supplier_tax.v}
  <2>1. raw.order_reference.v # NULL /\ raw.iban.v # NULL /\ raw.supplier_tax.v # NULL
    BY <1>1, <1>2
  <2> QED BY <1>1, <1>3, <2>1, OnlyOrderAccountAndTax
<1>5. \A i \in DOMAIN lines : SupplierTaxes(lines, lines[i]) \subseteq {read.supplier_tax.v}
  BY <1>4 DEF Distinct
<1>6. \E i \in DOMAIN lines : read.supplier_tax.v \in SupplierTaxes(lines, lines[i])
  BY <1>4 DEF Distinct
<1>7. read.supplier_tax.v # read.customer_tax.v
  BY <1>1, <1>6 DEF SupplierTaxes
<1>8. ASSUME NEW i \in DOMAIN lines, NEW k \in DOMAIN lines[i].taxes
      PROVE  \/ lines[i].taxes[k] \in {read.supplier_tax.v, read.customer_tax.v}
             \/ lines[i].cliente \/ lines[i].opens = "cliente"
  BY <1>1, <1>5 DEF SupplierTaxes, ToSet
<1> QED BY <1>4, <1>7, <1>8 DEF lines, read

(* A file that never went to a model names one supplier, one order and one        *)
(* account, and its tax identifier is not the customer's, for any printed lines.   *)
THEOREM NativeInvoicesAreUnambiguous == SpecCascade => []NativeIsUnambiguous
<1>1. Readings /\ FromTheText => NativeIsUnambiguous
  <2> SUFFICES ASSUME Readings, stage = "done", outcome.route = "deterministic",
                      outcome.invoice = NativeInvoice, Accept(NativeInvoice, file.printed)
               PROVE  NativeIsUnambiguous
    BY DEF FromTheText, NativeIsUnambiguous
  <2> HIDE DEF NativeInvoice
  <2> QED BY AcceptedIsUnambiguous DEF NativeIsUnambiguous
<1> QED BY <1>1, ReadingsStayReadings, TextIsAccepted, PTL

-----------------------------------------------------------------------------
(* Written numbers *)

LEMMA NumberIs ==
    ASSUME NEW w \in WrittenNumbers
    PROVE  LET n == Len(w.groups)
           IN  /\ n \in Nat /\ n >= 1 /\ DOMAIN w.groups = 1 .. n /\ Len(w.lens) = n /\ (w.seps = <<>> \/ n >= 2)
               /\ \A i \in 1 .. n : w.groups[i] \in Nat
               /\ \A i \in 2 .. n : w.lens[i] \in 1 .. 3
<1> DEFINE groups == w.groups
           seps == w.seps
<1>1. /\ groups \in Seq(Nat) /\ seps \in Seq({".", ","})
      /\ Len(groups) = Len(seps) + 1 /\ Len(w.lens) = Len(groups)
      /\ \A i \in 2 .. Len(w.lens) : w.lens[i] \in 1 .. 3
  BY DEF WrittenNumbers
<1> HIDE DEF groups, seps
<1>2. Len(groups) \in Nat /\ DOMAIN groups = 1 .. Len(groups) /\ \A i \in 1 .. Len(groups) : groups[i] \in Nat
  <2>1. groups \in Seq(Nat)
    BY <1>1
  <2> QED BY <2>1, LenProperties, ElementOfSeq
<1>3. Len(seps) \in Nat /\ (seps # <<>> => Len(seps) # 0)
  BY <1>1, EmptySeq, LenProperties
<1>4. Len(groups) >= 1 /\ (seps = <<>> \/ Len(groups) >= 2)
  <2>1. Len(groups) = Len(seps) + 1
    BY <1>1
  <2> QED BY <1>3, <2>1
<1> QED BY <1>1, <1>2, <1>4 DEF groups, seps

LEMMA JoinedIs ==
    ASSUME NEW w \in WrittenNumbers
    PROVE  /\ w.groups # <<>> /\ Joined(w, 1) = w.groups[1]
           /\ \A i \in 1 .. Len(w.groups) : Joined(w, i) \in Nat
<1> DEFINE L == Len(w.groups)
           D == DOMAIN w.groups
           Sound(h) == h = [i \in D |-> IF i = 1 THEN w.groups[1] ELSE h[i - 1] * Tens[w.lens[i]] + w.groups[i]]
           K == L - 1
           a == w.groups[1]
           step == [n \in 1 .. K |-> [v \in Nat |-> v * Tens[w.lens[n + 1]] + w.groups[n + 1]]]
<1>1. /\ L \in Nat /\ L >= 1 /\ K \in Nat /\ D = 1 .. L /\ L = K + 1
      /\ \A i \in 1 .. L : w.groups[i] \in Nat
      /\ \A i \in 2 .. L : w.lens[i] \in 1 .. 3
  BY NumberIs
<1>2. \A k \in 1 .. 3 : Tens[k] \in Nat
  BY DEF Tens
<1> HIDE DEF L, K, D
<1>3. a \in Nat /\ step \in [1 .. K -> [Nat -> Nat]]
  <2> SUFFICES ASSUME NEW n \in 1 .. K, NEW v \in Nat
               PROVE  a \in Nat /\ v * Tens[w.lens[n + 1]] + w.groups[n + 1] \in Nat
    BY <1>1
  <2>1. n + 1 \in 2 .. L /\ n + 1 \in 1 .. L
    BY <1>1
  <2>2. Tens[w.lens[n + 1]] \in Nat /\ w.groups[n + 1] \in Nat
    BY <1>1, <1>2, <2>1
  <2>3. a \in Nat
    BY <1>1
  <2> QED BY <2>2, <2>3
<1>4. PICK f \in [0 .. K -> Nat] : Climbs(f, K, a, step)
  <2> HIDE DEF a, step
  <2> QED BY <1>1, <1>3, BoundedIteration
<1> DEFINE g == [i \in D |-> f[i - 1]]
<1>5. Sound(g)
  <2>1. ASSUME NEW i \in D PROVE g[i] = IF i = 1 THEN w.groups[1] ELSE g[i - 1] * Tens[w.lens[i]] + w.groups[i]
    <3>1. CASE i = 1
      BY <1>4, <3>1 DEF Climbs
    <3>2. CASE i # 1
      <4> DEFINE n == i - 1
      <4>1. n \in 1 .. K /\ n \in D /\ n + 1 = i /\ n - 1 \in 0 .. K /\ g[n] = f[n - 1] /\ g[i] = f[n]
        BY <1>1, <3>2
      <4> HIDE DEF n, g
      <4>2. f[n] = step[n][f[n - 1]] /\ f[n - 1] \in Nat
        BY <1>4, <4>1 DEF Climbs
      <4>3. f[n] = f[n - 1] * Tens[w.lens[n + 1]] + w.groups[n + 1]
        BY <4>1, <4>2
      <4> QED BY <3>2, <4>1, <4>3 DEF n
    <3> QED BY <3>1, <3>2
  <2> QED BY <2>1
<1> DEFINE h == CHOOSE joined : Sound(joined)
<1>6. Sound(h)
  BY <1>5
<1>7. \A i : Joined(w, i) = h[i]
  BY Zenon DEF Joined, D
<1> HIDE DEF h, g, a, step
<1> DEFINE T == {n \in Nat : n \in 1 .. L => h[n] \in Nat}
<1>8. 0 \in T
  OBVIOUS
<1>9. ASSUME NEW n \in Nat, n \in T PROVE n + 1 \in T
  <2> SUFFICES ASSUME n + 1 \in 1 .. L PROVE h[n + 1] \in Nat
    OBVIOUS
  <2>1. CASE n = 0
    BY <1>1, <1>6, <2>1
  <2>2. CASE n # 0
    <3> DEFINE m == n + 1
    <3>1. n \in 1 .. L /\ m \in 2 .. L /\ m \in D /\ m - 1 = n /\ h[n] \in Nat
      BY <1>1, <1>9, <2>2
    <3> HIDE DEF m
    <3>2. h[m] = h[n] * Tens[w.lens[m]] + w.groups[m]
      <4>1. m # 1
        BY <3>1
      <4>2. h[m] = h[m - 1] * Tens[w.lens[m]] + w.groups[m]
        BY <1>6, <3>1, <4>1
      <4> QED BY <3>1, <4>2
    <3>3. Tens[w.lens[m]] \in Nat /\ w.groups[m] \in Nat
      BY <1>1, <1>2, <3>1
    <3>4. h[m] \in Nat
      BY <3>1, <3>2, <3>3
    <3> QED BY <3>4 DEF m
  <2> QED BY <2>1, <2>2
<1> HIDE DEF T
<1>10. \A n \in Nat : n \in T
  BY <1>8, <1>9, Induction
<1>11. h[1] = w.groups[1]
  BY <1>1, <1>6
<1>12. w.groups # <<>>
  BY <1>1 DEF L
<1>13. \A i \in 1 .. L : h[i] \in Nat
  BY <1>1, <1>10 DEF T
<1> QED BY <1>7, <1>11, <1>12, <1>13 DEF L

LEMMA AmountIs ==
    ASSUME NEW w \in WrittenNumbers
    PROVE  /\ Amount(w) \in Nat
           /\ \/ Amount(w) = NormalizeDecimal(w)
              \/ NormalizeDecimal(w) = NULL \/ Last(w.lens) = 3
<1> DEFINE n == Len(w.groups)
<1>1. /\ n \in Nat /\ n >= 1 /\ Len(w.lens) = n /\ (w.seps = <<>> \/ n >= 2)
      /\ \A i \in 1 .. n : w.groups[i] \in Nat
      /\ \A i \in 2 .. n : w.lens[i] \in 1 .. 3
  BY NumberIs
<1>2. \A i \in 1 .. n : Joined(w, i) \in Nat
  BY JoinedIs
<1>3. Whole(w) \in Nat
  BY <1>1, <1>2 DEF Whole
<1>4. n >= 2 => Fractional(w) \in Nat /\ w.lens[n] = Last(w.lens) /\ Last(w.lens) \in 1 .. 3
  <2> SUFFICES ASSUME n >= 2 PROVE Fractional(w) \in Nat /\ w.lens[n] = Last(w.lens) /\ Last(w.lens) \in 1 .. 3
    OBVIOUS
  <2>1. w.lens[n] \in 1 .. 3 /\ w.groups[n] \in Nat /\ Joined(w, n - 1) \in Nat
    BY <1>1, <1>2
  <2>2. 1000 \div Tens[w.lens[n]] \in Nat
    BY <2>1 DEF Tens
  <2>3. w.groups[n] * (1000 \div Tens[w.lens[n]]) \in Nat
    BY <2>1, <2>2
  <2> QED BY <1>1, <2>1, <2>3 DEF Fractional, Last
<1>5. Amount(w) \in Nat
  BY <1>1, <1>3, <1>4 DEF Amount
<1>6. CASE w.seps = <<>>
  BY <1>5, <1>6 DEF Amount, NormalizeDecimal
<1>7. CASE w.seps # <<>> /\ Last(w.lens) \in {1, 2}
  <2>1. n \in 2 .. Len(w.lens) /\ w.lens[n] # 3
    BY <1>1, <1>4, <1>7
  <2> QED BY <1>5, <1>7, <2>1 DEF Amount, NormalizeDecimal
<1> QED BY <1>1, <1>4, <1>5, <1>6, <1>7

LEMMA PrintedIs ==
    ASSUME NEW v \in Nat
    PROVE  NormalizeDecimal(Printed(v)) = v
<1> DEFINE frac == v % 1000
           q == v \div 1000
           size == IF frac % 100 = 0 THEN 1 ELSE IF frac % 10 = 0 THEN 2 ELSE 3
           unit == 1000 \div Tens[size]
           w == Printed(v)
<1>1. q \in Nat /\ frac \in 0 .. 999 /\ v = 1000 * q + frac
  OBVIOUS
<1>2. size \in 1 .. 3 /\ unit \in Nat /\ frac \div unit \in Nat /\ (frac \div unit) * unit = frac
  BY <1>1 DEF Tens
<1> HIDE DEF q, frac, size
<1>3. CASE frac = 0
  <2>1. w.groups = <<q>> /\ w.lens = <<4>> /\ w.seps = <<>>
    BY <1>3 DEF Printed, q, frac
  <2>2. w \in WrittenNumbers
    <3>1. <<q>> \in Seq(Nat) /\ <<4>> \in Seq(Nat) /\ <<>> \in Seq({".", ","})
      BY <1>1
    <3>2. w = [groups |-> <<q>>, lens |-> <<4>>, seps |-> <<>>]
      BY <1>3 DEF Printed, q, frac
    <3>3. w \in [groups : Seq(Nat), lens : Seq(Nat), seps : Seq({".", ","})]
      BY <3>1, <3>2
    <3>4. Len(w.groups) = Len(w.seps) + 1 /\ Len(w.lens) = Len(w.groups) /\ Len(w.lens) = 1
      BY <2>1
    <3>5. \A i \in 2 .. Len(w.lens) : w.lens[i] \in 1 .. 3
      BY <3>4
    <3> QED BY <3>3, <3>4, <3>5, Zenon DEF WrittenNumbers
  <2> HIDE DEF w
  <2>3. NormalizeDecimal(w) = Whole(w) /\ Len(w.groups) = 1
    BY <2>1 DEF NormalizeDecimal
  <2>4. Whole(w) = 1000 * q
    BY <2>1, <2>2, <2>3, JoinedIs DEF Whole
  <2> QED BY <1>1, <1>3, <2>3, <2>4 DEF w
<1>4. CASE frac # 0
  <2>1. w = [groups |-> <<q, frac \div unit>>, lens |-> <<4, size>>, seps |-> <<".">>]
    BY <1>4 DEF Printed, q, frac, size
  <2> HIDE DEF unit, w
  <2>2. w.groups = <<q, frac \div unit>> /\ w.lens = <<4, size>> /\ w.seps = <<".">>
    BY <2>1
  <2>3. w \in WrittenNumbers
    <3>1. frac \div unit \in Nat
      BY <1>2 DEF unit
    <3> DEFINE rest == frac \div unit
    <3> HIDE DEF rest
    <3>2. <<q, rest>> \in Seq(Nat) /\ <<4, size>> \in Seq(Nat) /\ <<".">> \in Seq({".", ","})
      BY <1>1, <1>2, <3>1 DEF rest
    <3>3. w \in [groups : Seq(Nat), lens : Seq(Nat), seps : Seq({".", ","})]
      BY <2>1, <3>2 DEF rest
    <3>4. /\ Len(w.groups) = Len(w.seps) + 1 /\ Len(w.lens) = Len(w.groups)
          /\ Len(w.lens) = 2 /\ w.lens[2] = size
      BY <2>2
    <3>5. \A i \in 2 .. Len(w.lens) : w.lens[i] \in 1 .. 3
      <4>1. \A i \in 2 .. 2 : i = 2
        OBVIOUS
      <4>2. size \in 1 .. 3
        BY <1>2
      <4> QED BY <3>4, <4>1, <4>2
    <3> QED BY <3>3, <3>4, <3>5, Zenon DEF WrittenNumbers
  <2>4. DOMAIN w.seps = {1} /\ {i \in DOMAIN w.seps : w.seps[i] = ","} = {} /\ w.seps # <<>>
    <3>1. DOMAIN w.seps = 1 .. 1 /\ w.seps[1] = "." /\ Len(w.seps) = 1
      BY <2>2
    <3>2. 1 .. 1 = {1} /\ "." # ","
      OBVIOUS
    <3>3. w.seps # <<>>
      <4>1. Len(<<>>) = 0
        OBVIOUS
      <4> QED BY <3>1, <4>1
    <3>4. \A i \in DOMAIN w.seps : w.seps[i] # ","
      BY <3>1, <3>2
    <3> QED BY <3>1, <3>2, <3>3, <3>4
  <2>5. Cardinality({1}) = 1
    BY FS_Singleton
  <2>6. NormalizeDecimal(w) = Fractional(w)
    BY <2>4, <2>5 DEF NormalizeDecimal
  <2>7. Fractional(w) = 1000 * q + (frac \div unit) * unit
    BY <2>2, <2>3, JoinedIs DEF Fractional, unit
  <2> QED BY <1>1, <1>2, <2>6, <2>7 DEF w
<1> QED BY <1>3, <1>4

(* A field of an amount links to one line that has the number, and is its value. *)
Read(field, lines, i) ==
    /\ i \in DOMAIN lines /\ field.at = {i}
    /\ \E n \in Range(lines[i].numbers) : ~n.rate /\ field = Field(Amount(n.w), {i})

LEMMA ReadingIs ==
    ASSUME NEW lines, IsReading(lines)
    PROVE  /\ Len(lines) \in Nat /\ DOMAIN lines = 1 .. Len(lines) /\ DOMAIN lines \subseteq Nat
           /\ \A i \in DOMAIN lines : IsLine(lines[i])
<1>1. lines \in Seq(Range(lines))
  BY DEF IsReading
<1>2. Len(lines) \in Nat /\ DOMAIN lines = 1 .. Len(lines)
  BY <1>1, LenProperties
<1>3. \A i \in DOMAIN lines : IsLine(lines[i])
  BY DEF IsReading, Range
<1> QED BY <1>2, <1>3

LEMMA NumbersAreWritten ==
    ASSUME NEW lines, IsReading(lines), NEW i \in DOMAIN lines, NEW n \in Range(lines[i].numbers)
    PROVE  n.w \in WrittenNumbers
<1>1. IsLine(lines[i])
  BY DEF IsReading, Range
<1>2. lines[i].numbers \in Seq([w : WrittenNumbers, rate : BOOLEAN])
  BY <1>1 DEF IsLine
<1>3. n \in [w : WrittenNumbers, rate : BOOLEAN]
  <2> DEFINE S == [w : WrittenNumbers, rate : BOOLEAN]
             numbers == lines[i].numbers
  <2>1. numbers \in Seq(S) /\ n \in Range(numbers)
    BY <1>2
  <2> HIDE DEF S, numbers
  <2>2. n \in S
    BY <2>1, RangeOfSeq
  <2> QED BY <2>2 DEF S
<1> QED BY <1>3

LEMMA FirstAmountIs ==
    ASSUME NEW numbers, numbers \in Seq([w : WrittenNumbers, rate : BOOLEAN]), FirstAmount(numbers) # NULL
    PROVE  \E n \in Range(numbers) : ~n.rate /\ FirstAmount(numbers) = Amount(n.w)
<1> DEFINE amounts == {i \in DOMAIN numbers : ~numbers[i].rate}
<1>1. amounts # {} /\ FirstAmount(numbers) = Amount(numbers[Min(amounts)].w)
  BY DEF FirstAmount
<1>2. amounts \in SUBSET Nat
  OBVIOUS
<1>3. Min(amounts) \in amounts
  <2> HIDE DEF amounts
  <2> QED BY <1>1, <1>2, LeastIs
<1> QED BY <1>1, <1>3 DEF Range

LEMMA LabelledIs ==
    ASSUME NEW lines, IsReading(lines), NEW labels, labels \in {BASE_LABELS, TOTAL_LABELS},
           LabelValue(lines, labels).v # NULL
    PROVE  \E i \in DOMAIN lines : Read(LabelValue(lines, labels), lines, i)
<1>0. /\ DOMAIN lines \subseteq Nat
      /\ \A i \in DOMAIN lines : lines[i].numbers \in Seq([w : WrittenNumbers, rate : BOOLEAN])
  BY ReadingIs DEF IsLine
<1>1. Gap.v = NULL
  BY DEF Gap, Field
<1> DEFINE Value(label, i) == IF OpenLabel(lines[i], label) THEN FirstAmount(lines[i].numbers) ELSE NULL
           having(label) == {i \in DOMAIN lines : Value(label, i) # NULL}
           Of(label) == IF having(label) = {} THEN Gap
                        ELSE Field(Value(label, Min(having(label))), {Min(having(label))})
           found == {n \in DOMAIN labels : Of(labels[n]) # Gap}
<1>2. LabelValue(lines, labels) = IF found = {} THEN Gap ELSE Of(labels[Min(found)])
  BY DEF LabelValue, FirstValue
<1>3. DOMAIN labels \subseteq Nat
  <2>1. DOMAIN BASE_LABELS = 1 .. 4 /\ DOMAIN TOTAL_LABELS = 1 .. 4
    <3>1. \A a, b, c, d : DOMAIN <<a, b, c, d>> = 1 .. 4
      OBVIOUS
    <3> QED BY <3>1, Zenon DEF BASE_LABELS, TOTAL_LABELS
  <2>2. DOMAIN labels = 1 .. 4
    BY <2>1, Zenon
  <2> QED BY <2>2
<1>4. found # {} /\ Min(found) \in found
  <2>1. found # {}
    BY <1>1, <1>2
  <2>2. found \in SUBSET Nat
    BY <1>3
  <2> HIDE DEF found
  <2> QED BY <2>1, <2>2, LeastIs
<1> DEFINE label == labels[Min(found)]
           i == Min(having(label))
<1>5. LabelValue(lines, labels) = Of(label) /\ Of(label) # Gap
  BY <1>2, <1>4
<1> HIDE DEF label
<1>6. having(label) # {} /\ having(label) \in SUBSET Nat
  BY <1>0, <1>5
<1>7. i \in having(label)
  <2> HIDE DEF having
  <2> QED BY <1>6, LeastIs
<1>8. LabelValue(lines, labels) = Field(Value(label, i), {i})
  BY <1>5, <1>6
<1> HIDE DEF i
<1>9. Value(label, i) = FirstAmount(lines[i].numbers) /\ FirstAmount(lines[i].numbers) # NULL /\ i \in DOMAIN lines
  BY <1>7
<1>10. PICK n \in Range(lines[i].numbers) : ~n.rate /\ FirstAmount(lines[i].numbers) = Amount(n.w)
  BY <1>0, <1>9, FirstAmountIs
<1>11. LabelValue(lines, labels) = Field(Amount(n.w), {i})
  BY <1>8, <1>9, <1>10
<1>12. LabelValue(lines, labels).at = {i}
  BY <1>11 DEF Field
<1> HIDE DEF Value, having, Of, found
<1>13. Read(LabelValue(lines, labels), lines, i)
  BY <1>9, <1>10, <1>11, <1>12 DEF Read
<1> QED BY <1>9, <1>13

LEMMA TaxedIs ==
    ASSUME NEW lines, IsReading(lines), TaxRow(lines) # <<>>
    PROVE  /\ DOMAIN TaxRow(lines) = {1} /\ DOMAIN TaxRow(lines)[1] = {"amount", "rate"}
           /\ \E i \in DOMAIN lines : Read(TaxRow(lines)[1].amount, lines, i)
<1>0. /\ DOMAIN lines \subseteq Nat
      /\ \A i \in DOMAIN lines : lines[i].numbers \in Seq([w : WrittenNumbers, rate : BOOLEAN])
  BY ReadingIs DEF IsLine
<1> DEFINE Value(i) == IF lines[i].iva THEN FirstAmount(lines[i].numbers) ELSE NULL
           having == {i \in DOMAIN lines : Value(i) # NULL}
           amount == IF having = {} THEN Gap ELSE Field(Value(Min(having)), {Min(having)})
           i == Min(having)
<1>1. TaxRow(lines) = IF amount = Gap THEN <<>>
                      ELSE LET k == CHOOSE k \in amount.at : TRUE
                           IN  <<[amount |-> amount, rate |-> Field(FirstRate(lines[k].numbers), {k})]>>
  BY DEF TaxRow, FirstValue
<1> HIDE DEF amount
<1>2. PICK rate : amount # Gap /\ TaxRow(lines) = <<[amount |-> amount, rate |-> rate]>>
  BY <1>1
<1> USE DEF amount
<1>3. having # {} /\ having \in SUBSET Nat
  BY <1>0, <1>2
<1>4. i \in having
  <2> HIDE DEF having
  <2> QED BY <1>3, LeastIs
<1>5. amount = Field(Value(i), {i})
  BY <1>3
<1> HIDE DEF i, amount
<1>6. Value(i) = FirstAmount(lines[i].numbers) /\ FirstAmount(lines[i].numbers) # NULL /\ i \in DOMAIN lines
  BY <1>4
<1>7. PICK n \in Range(lines[i].numbers) : ~n.rate /\ FirstAmount(lines[i].numbers) = Amount(n.w)
  BY <1>0, <1>6, FirstAmountIs
<1>8. Read(amount, lines, i)
  BY <1>5, <1>6, <1>7 DEF Read, Field
<1>9. TaxRow(lines)[1] = [amount |-> amount, rate |-> rate] /\ DOMAIN TaxRow(lines) = {1}
  BY <1>2
<1> QED BY <1>6, <1>8, <1>9

(* What the reader wrote for an amount is read back as that amount. *)
LEMMA ReadBack ==
    ASSUME NEW lines, IsReading(lines), NEW i, NEW field, Read(field, lines, i),
           NEW written, written = Rewritten(field, Printed(field.v)),
           NEW again, again = Rewritten(written, NormalizeDecimal(written.v)), again.v # NULL
    PROVE  again = field /\ ReadsLike(again, lines)
<1>1. PICK n \in Range(lines[i].numbers) : ~n.rate /\ field = Field(Amount(n.w), {i})
  BY DEF Read
<1>2. i \in DOMAIN lines
  BY DEF Read
<1>3. n.w \in WrittenNumbers
  BY <1>2, NumbersAreWritten
<1>4. field = [v |-> Amount(n.w), at |-> {i}] /\ Amount(n.w) \in Nat
  BY <1>1, <1>3, AmountIs DEF Field
<1>5. NormalizeDecimal(Printed(Amount(n.w))) = Amount(n.w)
  BY <1>4, PrintedIs
<1>6. again = field
  BY <1>4, <1>5 DEF Rewritten
<1>7. n \in Numbers(lines, {i})
  BY <1>1 DEF Numbers
<1>8. again.at = {i} /\ again.v = Amount(n.w)
  BY <1>4, <1>6
<1>9. Last(n.w.lens) = 3 => Amount(n.w) = Whole(n.w)
  BY DEF Amount
<1>10. Amount(n.w) = NormalizeDecimal(n.w) \/ NormalizeDecimal(n.w) = NULL \/ Last(n.w.lens) = 3
  BY <1>3, AmountIs
<1> QED BY <1>1, <1>6, <1>7, <1>8, <1>9, <1>10 DEF ReadsLike

LEMMA DatedIs ==
    ASSUME NEW lines, IsReading(lines), Extract(lines).issue_date.v # NULL
    PROVE  \E i \in DOMAIN lines : \E k \in DOMAIN lines[i].dates :
              /\ lines[i].dates[k] \in WrittenDates /\ DayFirst(lines[i].dates[k]) # NULL
              /\ Extract(lines).issue_date = Field(DayFirst(lines[i].dates[k]), {i})
<1>1. Gap.v = NULL
  BY DEF Gap, Field
<1> DEFINE Value(i) == IF lines[i].fecha THEN FirstDate(lines[i].dates) ELSE NULL
           having == {i \in DOMAIN lines : Value(i) # NULL}
           i == Min(having)
           dates == lines[i].dates
           real == {k \in DOMAIN dates : DayFirst(dates[k]) # NULL}
           at == Min(real)
<1>2. Extract(lines).issue_date = IF having = {} THEN Gap ELSE Field(Value(i), {i})
  BY DEF Extract, FirstValue
<1>3. having # {} /\ having \in SUBSET Nat
  BY <1>1, <1>2, ReadingIs
<1>4. i \in having
  <2> HIDE DEF having
  <2> QED BY <1>3, LeastIs
<1>5. i \in DOMAIN lines /\ Value(i) = FirstDate(dates) /\ FirstDate(dates) # NULL
  BY <1>4
<1>6. dates \in Seq(WrittenDates)
  BY <1>5, ReadingIs DEF IsLine
<1>7. Extract(lines).issue_date = Field(FirstDate(dates), {i})
  BY <1>2, <1>3, <1>5
<1> HIDE DEF i
<1> HIDE DEF dates
<1>8. real # {} /\ FirstDate(dates) = DayFirst(dates[at])
  BY <1>5 DEF FirstDate
<1>9. real \in SUBSET Nat
  BY <1>6
<1>10. at \in real
  <2> HIDE DEF real
  <2> QED BY <1>8, <1>9, LeastIs
<1>11. at \in DOMAIN dates /\ dates[at] \in WrittenDates /\ DayFirst(dates[at]) # NULL
  BY <1>6, <1>10
<1> HIDE DEF at
<1> QED BY <1>5, <1>7, <1>8, <1>11 DEF dates

LEMMA DateBack ==
    ASSUME NEW d \in WrittenDates, DayFirst(d) # NULL
    PROVE  /\ NormalizeDate(IsoDate(DayFirst(d))) = DayFirst(d)
           /\ NormalizeDate(d) \in {NULL, DayFirst(d)}
<1>1. d.a \in Nat /\ d.b \in Nat /\ d.order \in {"dmy", "ymd", "long"}
  BY DEF WrittenDates
<1>2. d.b \in 1 .. 12 /\ d.a \in 1 .. 31 /\ DayFirst(d) = <<d.year, d.b, d.a>>
  BY DEF DayFirst, Calendar
<1> DEFINE iso == IsoDate(DayFirst(d))
<1>3. iso = [order |-> "ymd", a |-> d.a, b |-> d.b, year |-> d.year]
  BY <1>2 DEF IsoDate
<1> HIDE DEF iso
<1>4. NormalizeDate(iso) = DayFirst(d)
  BY <1>2, <1>3 DEF NormalizeDate, DayFirst, Calendar
<1>5. NormalizeDate(d) \in {NULL, DayFirst(d)}
  BY <1>1, <1>2 DEF NormalizeDate, DayFirst, Calendar
<1> QED BY <1>4, <1>5 DEF iso

LEMMA AcceptedReadsAlike ==
    ASSUME Readings, Accept(NativeInvoice, file.printed)
    PROVE  LET lines == file.printed read == NativeInvoice
           IN  /\ \A f \in {read.taxable_base, read.total, read.taxes[1].amount}
                             \union {read.rows[i].amount : i \in DOMAIN read.rows} : ReadsLike(f, lines)
               /\ \E i \in read.issue_date.at : \E k \in DOMAIN lines[i].dates :
                     NormalizeDate(lines[i].dates[k]) \in {NULL, read.issue_date.v}
<1> DEFINE lines == file.printed
           read == NativeInvoice
           raw == Extract(lines)
           written == Written(raw)
<1>1. /\ \A f \in {"taxable_base", "total", "issue_date"} : read[f].v # NULL
      /\ read.taxes # <<>> /\ read.taxes[1].amount.v # NULL
      /\ \A i \in DOMAIN read.rows : read.rows[i].amount.v # NULL
  <2> HIDE DEF read
  <2>1. \A f \in GATE_POINTERS : read[f].v # NULL
    BY DEF Accept, Reasons, read
  <2>2. read.taxes # <<>> /\ read.taxes[1].amount.v # NULL
    BY DEF Accept, Reasons, read
  <2>3. Failing(read, lines) = {}
    BY DEF Accept, Reasons, read
  <2>4. \A i \in DOMAIN read.rows : read.rows[i].amount.v # NULL
    BY <2>3 DEF Failing
  <2> QED BY <2>1, <2>2, <2>4 DEF GATE_POINTERS
<1>2. IsReading(lines) /\ \A l \in Range(lines) : IsPrinted(l)
  BY DEF Readings
<1>3. read = NormalizeInvoice(written)
  BY NativeIs
<1> HIDE DEF lines, read
<1>4. IsInvoice(raw)
  BY ExtractedIs
<1> HIDE DEF raw
<1>5. /\ written.issue_date = Rewritten(raw.issue_date, IsoDate(raw.issue_date.v))
      /\ \A f \in {"taxable_base", "total"} : written[f] = Rewritten(raw[f], Printed(raw[f].v))
      /\ \A f \in {"rows", "taxes"} : written[f] = [i \in DOMAIN raw[f] |-> WriteRow(raw[f][i])]
      /\ IsInvoice(written)
  BY <1>4, WrittenIs
<1> HIDE DEF written
<1>6. /\ read.issue_date = Rewritten(written.issue_date, NormalizeDate(written.issue_date.v))
      /\ \A f \in {"taxable_base", "total"} : read[f] = Rewritten(written[f], NormalizeDecimal(written[f].v))
      /\ \A f \in {"rows", "taxes"} : read[f] = [i \in DOMAIN written[f] |-> RereadRow(written[f][i])]
  BY <1>3, <1>5, NormalizedIs
<1>7. ASSUME NEW f \in {"taxable_base", "total"} PROVE ReadsLike(read[f], lines)
  <2>1. raw[f].v # NULL
    BY <1>1, <1>5, <1>6 DEF Rewritten
  <2>2. \E labels \in {BASE_LABELS, TOTAL_LABELS} : raw[f] = LabelValue(lines, labels)
    <3>1. raw.taxable_base = LabelValue(lines, BASE_LABELS) /\ raw.total = LabelValue(lines, TOTAL_LABELS)
      BY DEF raw, Extract
    <3>2. f = "taxable_base" \/ f = "total"
      OBVIOUS
    <3> QED BY <3>1, <3>2, Zenon
  <2>3. PICK i \in DOMAIN lines : Read(raw[f], lines, i)
    BY <1>2, <2>1, <2>2, LabelledIs
  <2>4. written[f] = Rewritten(raw[f], Printed(raw[f].v)) /\ read[f] = Rewritten(written[f], NormalizeDecimal(written[f].v))
    BY <1>5, <1>6
  <2> QED BY <1>1, <1>2, <2>3, <2>4, ReadBack
<1>8. ASSUME NEW row, "amount" \in DOMAIN row,
             NEW i, Read(row.amount, lines, i), RereadRow(WriteRow(row)).amount.v # NULL
      PROVE  ReadsLike(RereadRow(WriteRow(row)).amount, lines)
  <2>1. DOMAIN WriteRow(row) = DOMAIN row /\ WriteRow(row).amount = Rewritten(row.amount, Printed(row.amount.v))
    BY <1>8 DEF WriteRow, Reread, Rewritten
  <2> DEFINE new == WriteRow(row)
  <2> HIDE DEF new
  <2>2. RereadRow(new).amount = Rewritten(new.amount, NormalizeDecimal(new.amount.v))
    BY <1>8, <2>1 DEF RereadRow, Reread, Rewritten, new
  <2> QED BY <1>2, <1>8, <2>1, <2>2, ReadBack DEF new
<1>9. ReadsLike(read.taxes[1].amount, lines)
  <2>1. raw.taxes = TaxRow(lines)
    BY DEF raw, Extract
  <2>2. DOMAIN read.taxes = DOMAIN raw.taxes /\ \A i \in DOMAIN raw.taxes : read.taxes[i] = RereadRow(WriteRow(raw.taxes[i]))
    BY <1>5, <1>6
  <2>3. raw.taxes # <<>>
    <3> SUFFICES ASSUME raw.taxes = <<>> PROVE read.taxes = <<>>
      BY <1>1
    <3> QED BY <1>5, <1>6
  <2>4. /\ DOMAIN raw.taxes = {1} /\ DOMAIN raw.taxes[1] = {"amount", "rate"}
        /\ \E i \in DOMAIN lines : Read(raw.taxes[1].amount, lines, i)
    BY <1>2, <2>1, <2>3, TaxedIs
  <2>5. read.taxes[1] = RereadRow(WriteRow(raw.taxes[1]))
    BY <2>2, <2>4
  <2> QED BY <1>1, <1>8, <2>4, <2>5
<1>10. ASSUME NEW i \in DOMAIN read.rows PROVE ReadsLike(read.rows[i].amount, lines)
  <2>1. raw.rows = Rows(lines)
    BY DEF raw, Extract
  <2>2. i \in DOMAIN raw.rows /\ read.rows[i] = RereadRow(WriteRow(raw.rows[i]))
    BY <1>5, <1>6
  <2>3. /\ i \in DOMAIN lines /\ lines[i].item # NULL
        /\ raw.rows[i] = [amount |-> Field(Amount(lines[i].item.amount), {i}), quantity |-> Field(lines[i].item.quantity, {i})]
    BY <2>1, <2>2 DEF Rows, ItemLines
  <2>4. \E n \in Range(lines[i].numbers) : n.w = lines[i].item.amount /\ ~n.rate
    BY <1>2, <2>3 DEF Range, IsPrinted
  <2>5. Read(raw.rows[i].amount, lines, i)
    <3>1. PICK n \in Range(lines[i].numbers) : n.w = lines[i].item.amount /\ ~n.rate
      BY <2>4
    <3>2. raw.rows[i].amount = Field(Amount(n.w), {i})
      BY <2>3, <3>1
    <3>3. raw.rows[i].amount.at = {i}
      BY <3>2 DEF Field
    <3> QED BY <2>3, <3>1, <3>2, <3>3 DEF Read
  <2>6. DOMAIN raw.rows[i] = {"amount", "quantity"}
    BY <2>3
  <2> QED BY <1>1, <1>8, <2>2, <2>5, <2>6
<1>11. \E i \in read.issue_date.at : \E k \in DOMAIN lines[i].dates :
          NormalizeDate(lines[i].dates[k]) \in {NULL, read.issue_date.v}
  <2>1. raw.issue_date.v # NULL
    BY <1>1, <1>5, <1>6 DEF Rewritten
  <2>0. PICK i \in DOMAIN lines : \E k \in DOMAIN lines[i].dates :
              /\ lines[i].dates[k] \in WrittenDates /\ DayFirst(lines[i].dates[k]) # NULL
              /\ raw.issue_date = Field(DayFirst(lines[i].dates[k]), {i})
    BY <1>2, <2>1, DatedIs DEF raw
  <2>2. PICK k \in DOMAIN lines[i].dates :
              /\ lines[i].dates[k] \in WrittenDates /\ DayFirst(lines[i].dates[k]) # NULL
              /\ raw.issue_date = Field(DayFirst(lines[i].dates[k]), {i})
    BY <2>0
  <2> DEFINE d == lines[i].dates[k]
             v == DayFirst(d)
  <2>3. NormalizeDate(IsoDate(v)) = v /\ NormalizeDate(d) \in {NULL, v}
    BY <2>2, DateBack
  <2> HIDE DEF v
  <2>4. raw.issue_date = [v |-> v, at |-> {i}] /\ v # NULL
    BY <2>2 DEF Field, v
  <2>5. read.issue_date.at = {i} /\ read.issue_date.v = v
    BY <1>1, <1>5, <1>6, <2>3, <2>4 DEF Rewritten
  <2> QED BY <2>2, <2>3, <2>5 DEF v
<1> QED BY <1>7, <1>9, <1>10, <1>11 DEF lines, read

(* What the text layer says is what a model's choice of the same text would have said,  *)
(* for any printed numbers and dates.                                                  *)
THEOREM TheRoutesReadAlike == SpecCascade => []RoutesReadAlike
<1>1. Readings /\ FromTheText => RoutesReadAlike
  <2> SUFFICES ASSUME Readings, stage = "done", outcome.route = "deterministic",
                      outcome.invoice = NativeInvoice, Accept(NativeInvoice, file.printed)
               PROVE  RoutesReadAlike
    BY DEF FromTheText, RoutesReadAlike
  <2> HIDE DEF NativeInvoice
  <2> QED BY AcceptedReadsAlike DEF RoutesReadAlike
<1> QED BY <1>1, ReadingsStayReadings, TextIsAccepted, PTL

-----------------------------------------------------------------------------
(* Options *)

LEMMA OnlyIs ==
    ASSUME NEW U, NEW s \in Seq(U), NEW S
    PROVE  /\ Only(s, S) \in Seq(S) /\ Len(Only(s, S)) <= Len(s)
           /\ Range(Only(s, S)) = Range(s) \cap S
<1> DEFINE V == Seq(S)
           L == Len(s)
           empty == <<>>
           step == [n \in Nat |-> [v \in V |-> IF s[n] \in S THEN Append(v, s[n]) ELSE v]]
           Sound(h) == h = [n \in Nat |-> IF n = 0 THEN <<>>
                              ELSE IF s[n] \in S THEN Append(h[n - 1], s[n]) ELSE h[n - 1]]
<1>1. empty \in V /\ L \in Nat /\ DOMAIN s = 1 .. L
  OBVIOUS
<1>2. step \in [Nat -> [V -> V]]
  <2> SUFFICES ASSUME NEW n \in Nat, NEW v \in V PROVE (IF s[n] \in S THEN Append(v, s[n]) ELSE v) \in V
    OBVIOUS
  <2> QED BY AppendProperties
<1>3. PICK f \in [Nat -> V] : Iterates(f, empty, step)
  <2> HIDE DEF V, empty, step
  <2> QED BY <1>1, <1>2, Iteration
<1>4. ASSUME NEW n \in Nat
      PROVE  f[n] = IF n = 0 THEN <<>> ELSE IF s[n] \in S THEN Append(f[n - 1], s[n]) ELSE f[n - 1]
  <2>1. CASE n = 0
    BY <1>3, <2>1 DEF Iterates
  <2>2. CASE n # 0
    <3> DEFINE k == n - 1
    <3>1. k \in Nat /\ k + 1 = n
      BY <2>2
    <3> HIDE DEF k
    <3>2. f[n] = step[n][f[k]] /\ f[k] \in V
      <4> HIDE DEF step, V
      <4> QED BY <1>3, <3>1 DEF Iterates
    <3>3. f[n] = IF s[n] \in S THEN Append(f[k], s[n]) ELSE f[k]
      <4> HIDE DEF V
      <4> QED BY <3>2
    <3> QED BY <2>2, <3>3 DEF k
  <2> QED BY <2>1, <2>2
<1>5. Sound(f)
  <2> HIDE DEF step
  <2> QED BY <1>4
<1> DEFINE h == CHOOSE only : Sound(only)
<1>6. Sound(h)
  BY <1>5
<1>7. Only(s, S) = h[L]
  BY Zenon DEF Only
<1> HIDE DEF h, step
<1> DEFINE Good(n) == /\ h[n] \in Seq(S) /\ Len(h[n]) <= n
                      /\ Range(h[n]) = {s[i] : i \in 1 .. n} \cap S
           T == {n \in Nat : Good(n)}
<1>8. 0 \in T
  <2>1. h[0] = <<>>
    BY <1>6
  <2>2. Range(<<>>) = {} /\ <<>> \in Seq(S) /\ Len(<<>>) = 0
    BY DEF Range
  <2>3. {s[i] : i \in 1 .. 0} = {}
    OBVIOUS
  <2>4. h[0] \in Seq(S) /\ Range(h[0]) = {s[i] : i \in 1 .. 0} \cap S
    BY <2>1, <2>2, <2>3
  <2>5. Len(h[0]) <= 0
    BY <2>1, <2>2
  <2> QED BY <2>4, <2>5
<1>9. ASSUME NEW n \in Nat, n \in T PROVE n + 1 \in T
  <2> DEFINE m == n + 1
             x == s[m]
             before == h[n]
             seen == {s[i] : i \in 1 .. n}
  <2>1. m \in Nat /\ m # 0 /\ m - 1 = n
    OBVIOUS
  <2>2. 1 .. m = (1 .. n) \cup {m}
    OBVIOUS
  <2>3. before \in Seq(S) /\ Len(before) <= n /\ Range(before) = seen \cap S
    BY <1>9
  <2>4. {s[i] : i \in 1 .. m} = seen \cup {x}
    BY <2>2
  <2> HIDE DEF m
  <2>5. h[m] = IF x \in S THEN Append(before, x) ELSE before
    BY <1>6, <2>1
  <2> HIDE DEF x, before, seen
  <2>6. Len(before) \in Nat
    BY <2>3, LenProperties
  <2>7. CASE x \in S
    <3>1. Append(before, x) \in Seq(S) /\ Len(Append(before, x)) = Len(before) + 1
      BY <2>3, <2>7, AppendProperties
    <3>2. Range(Append(before, x)) = Range(before) \cup {x}
      <4> DEFINE k == Len(before)
                 more == Append(before, x)
      <4>1. /\ k \in Nat /\ DOMAIN before = 1 .. k /\ more[k + 1] = x
            /\ \A i \in 1 .. k : more[i] = before[i]
        BY <2>3, <2>7, LenProperties, AppendProperties
      <4>2. DOMAIN more = 1 .. k + 1
        BY <3>1, LenProperties
      <4>3. 1 .. k + 1 = (1 .. k) \cup {k + 1}
        <5>1. k \in Nat
          BY <4>1
        <5> HIDE DEF k
        <5> QED BY <5>1
      <4> HIDE DEF more, k
      <4>4. Range(before) = {before[i] : i \in 1 .. k} /\ Range(more) = {more[i] : i \in 1 .. k + 1}
        BY <4>1, <4>2 DEF Range
      <4>5. {more[i] : i \in 1 .. k + 1} = {more[i] : i \in 1 .. k} \cup {more[k + 1]}
        BY <4>3
      <4>6. {more[i] : i \in 1 .. k} = {before[i] : i \in 1 .. k}
        BY <4>1
      <4> QED BY <4>1, <4>4, <4>5, <4>6 DEF more
    <3>3. Len(before) + 1 <= n + 1
      BY <2>3, <2>6
    <3>4. (seen \cup {x}) \cap S = (seen \cap S) \cup {x}
      BY <2>7
    <3>5. Good(m)
      BY <2>3, <2>4, <2>5, <2>7, <3>1, <3>2, <3>3, <3>4 DEF m
    <3> QED BY <2>1, <3>5 DEF m
  <2>8. CASE x \notin S
    <3>1. Len(before) <= n + 1
      BY <2>3, <2>6
    <3>2. (seen \cup {x}) \cap S = seen \cap S
      BY <2>8
    <3>3. Good(m)
      BY <2>3, <2>4, <2>5, <2>8, <3>1, <3>2 DEF m
    <3> QED BY <2>1, <3>3 DEF m
  <2> QED BY <2>7, <2>8
<1> HIDE DEF T
<1>10. \A n \in Nat : n \in T
  BY <1>8, <1>9, Induction
<1>11. L \in T
  BY <1>1, <1>10
<1>12. Range(s) = {s[i] : i \in 1 .. L}
  BY <1>1 DEF Range
<1> QED BY <1>7, <1>11, <1>12 DEF T

LEMMA FlattenedIs ==
    ASSUME NEW N, N \in Nat, NEW parts, parts = [n \in 1 .. N |-> parts[n]],
           \A n \in 1 .. N : parts[n] \in Seq(Range(parts[n]))
    PROVE  /\ FlattenSeq(parts) \in Seq(Range(FlattenSeq(parts)))
           /\ Range(FlattenSeq(parts)) = UNION {Range(parts[n]) : n \in 1 .. N}
<1> DEFINE S == UNION {Range(parts[n]) : n \in 1 .. N}
<1>1. ASSUME NEW n \in 1 .. N PROVE parts[n] \in Seq(S)
  <2> DEFINE part == parts[n]
  <2>1. part \in Seq(Range(part)) /\ Range(part) \subseteq S
    OBVIOUS
  <2> HIDE DEF part, S
  <2>2. part \in Seq(S)
    BY <2>1, SeqMonotonic
  <2> QED BY <2>2 DEF part
<1>2. parts \in [1 .. N -> Seq(S)]
  <2> HIDE DEF S
  <2> QED BY <1>1
<1>3. parts \in Seq(Seq(S)) /\ Len(parts) = N
  <2> HIDE DEF S
  <2> QED BY <1>2
<1>4. FlattenSeq(parts) \in Seq(S) /\ Range(FlattenSeq(parts)) = UNION {Range(parts[i]) : i \in 1 .. Len(parts)}
  <2> HIDE DEF S
  <2> QED BY <1>3, FlattenIs
<1> QED BY <1>3, <1>4, SeqOfRange

KindSet == Range(KINDS)

LEMMA KindsAre ==
    /\ KindSet = {"text", "name", "identifier", "order", "iban", "date", "currency", "tax_id", "amount"}
    /\ KINDS \in Seq(KindSet)
<1>1. \A a, b, c, d, e, f, g, h, i : Range(<<a, b, c, d, e, f, g, h, i>>) = {a, b, c, d, e, f, g, h, i}
  BY DEF Range
<1>2. \A a, b, c, d, e, f, g, h, i :
        <<a, b, c, d, e, f, g, h, i>> \in Seq({a, b, c, d, e, f, g, h, i})
  OBVIOUS
<1>3. KINDS = <<"text", "name", "identifier", "order", "iban", "date", "currency", "tax_id", "amount">>
  BY Zenon DEF KINDS
<1>4. KindSet = {"text", "name", "identifier", "order", "iban", "date", "currency", "tax_id", "amount"}
  BY <1>1, <1>3, SMT DEF KindSet
<1>5. KINDS \in Seq({"text", "name", "identifier", "order", "iban", "date", "currency", "tax_id", "amount"})
  BY <1>2, <1>3, SMT
<1> QED BY <1>4, <1>5, Zenon

LEMMA SpanCountIs ==
    ASSUME NEW l, IsLine(l), NEW kind \in KindSet
    PROVE  SpanCount(l)[kind] \in Nat
<1>1. Cardinality(l.orders) \in Nat /\ Cardinality(l.ibans) \in Nat /\ Cardinality(l.coins) \in Nat
  BY FS_CardinalityType DEF IsLine
<1>2. Len(l.taxes) \in Nat /\ Len(l.dates) \in Nat /\ Len(l.numbers) \in Nat
  BY LenProperties DEF IsLine
<1> DEFINE orders == Cardinality(l.orders)
           ibans  == Cardinality(l.ibans)
           coins  == Cardinality(l.coins)
           taxes  == Len(l.taxes)
           dates  == Len(l.dates)
           numbers == Len(l.numbers)
           name   == IF l.name # NULL THEN 1 ELSE 0
           token  == IF l.token # NULL THEN 1 ELSE 0
<1>3. name \in Nat /\ token \in Nat
  OBVIOUS
<1>4. SpanCount(l) = [text |-> 1, name |-> name, identifier |-> token, order |-> orders, iban |-> ibans,
                      date |-> dates, currency |-> coins, tax_id |-> taxes, amount |-> numbers]
  BY DEF SpanCount
<1> HIDE DEF orders, ibans, coins, taxes, dates, numbers, name, token
<1> USE DEF orders, ibans, coins, taxes, dates, numbers
<1>5. orders \in Nat /\ ibans \in Nat /\ coins \in Nat /\ taxes \in Nat /\ dates \in Nat /\ numbers \in Nat
  BY <1>1, <1>2
<1> HIDE DEF orders, ibans, coins, taxes, dates, numbers
<1> QED BY <1>3, <1>4, <1>5, KindsAre

LEMMA LineCandidatesAre ==
    ASSUME NEW l, IsLine(l), NEW i, NEW kinds, kinds \in Seq(KindSet)
    PROVE  /\ LineCandidates(l, i, kinds) \in Seq(Range(LineCandidates(l, i, kinds)))
           /\ Range(LineCandidates(l, i, kinds))
                = UNION {{<<kind, i, k>> : k \in 1 .. SpanCount(l)[kind]} : kind \in Range(kinds)}
<1> DEFINE N == Len(kinds)
           spans(kind) == {<<kind, i, k>> : k \in 1 .. SpanCount(l)[kind]}
           parts == [n \in DOMAIN kinds |-> [k \in 1 .. SpanCount(l)[kinds[n]] |-> <<kinds[n], i, k>>]]
<1>1. N \in Nat /\ DOMAIN kinds = 1 .. N /\ \A n \in 1 .. N : kinds[n] \in KindSet
  <2>1. N \in Nat /\ DOMAIN kinds = 1 .. N
    BY LenProperties
  <2>2. \A n \in 1 .. N : kinds[n] \in KindSet
    BY ElementOfSeq
  <2> QED BY <2>1, <2>2
<1>2. parts = [n \in 1 .. N |-> parts[n]]
  BY <1>1
<1>3. ASSUME NEW n \in 1 .. N PROVE parts[n] \in Seq(Range(parts[n])) /\ Range(parts[n]) = spans(kinds[n])
  <2> DEFINE count == SpanCount(l)[kinds[n]]
             part  == [k \in 1 .. count |-> <<kinds[n], i, k>>]
  <2>1. count \in Nat /\ parts[n] = part
    BY <1>1, SpanCountIs
  <2> HIDE DEF count
  <2>2. part = [k \in 1 .. count |-> part[k]] /\ Range(part) = {<<kinds[n], i, k>> : k \in 1 .. count}
    BY DEF Range
  <2> HIDE DEF part
  <2>3. part \in Seq(Range(part))
    BY <2>1, <2>2, Sequence
  <2> HIDE DEF parts
  <2> QED BY <2>1, <2>2, <2>3 DEF count
<1>4. LineCandidates(l, i, kinds) = FlattenSeq(parts)
  BY DEF LineCandidates
<1> HIDE DEF parts, spans
<1>5. /\ FlattenSeq(parts) \in Seq(Range(FlattenSeq(parts)))
      /\ Range(FlattenSeq(parts)) = UNION {Range(parts[n]) : n \in 1 .. N}
  <2> HIDE DEF N
  <2> QED BY <1>1, <1>2, <1>3, FlattenedIs
<1>6. UNION {Range(parts[n]) : n \in 1 .. N} = UNION {spans(kind) : kind \in Range(kinds)}
  <2>1. Range(kinds) = {kinds[n] : n \in 1 .. N}
    BY <1>1 DEF Range
  <2>2. \A n \in 1 .. N : Range(parts[n]) = spans(kinds[n])
    BY <1>3
  <2> HIDE DEF N
  <2>3. {Range(parts[n]) : n \in 1 .. N} = {spans(kinds[n]) : n \in 1 .. N}
    BY <2>2, Zenon
  <2>4. {spans(kind) : kind \in Range(kinds)} = {spans(kinds[n]) : n \in 1 .. N}
    BY <2>1
  <2> QED BY <2>3, <2>4
<1> QED BY <1>4, <1>5, <1>6 DEF spans

LEMMA CandidatesAre ==
    ASSUME NEW lines, IsReading(lines), NEW kinds, kinds \in Seq(KindSet)
    PROVE  /\ Candidates(lines, kinds) \in Seq(Range(Candidates(lines, kinds)))
           /\ Range(Candidates(lines, kinds))
                = UNION {Range(LineCandidates(lines[i], i, kinds)) : i \in DOMAIN lines}
<1> DEFINE N == Len(lines)
           parts == [i \in DOMAIN lines |-> LineCandidates(lines[i], i, kinds)]
<1>1. N \in Nat /\ DOMAIN lines = 1 .. N /\ \A i \in DOMAIN lines : IsLine(lines[i])
  BY ReadingIs
<1>2. parts = [i \in 1 .. N |-> parts[i]] /\ \A i \in 1 .. N : parts[i] = LineCandidates(lines[i], i, kinds)
  BY <1>1
<1> HIDE DEF parts, N
<1>3. \A i \in 1 .. N : parts[i] \in Seq(Range(parts[i]))
  BY <1>1, <1>2, LineCandidatesAre
<1>4. /\ FlattenSeq(parts) \in Seq(Range(FlattenSeq(parts)))
      /\ Range(FlattenSeq(parts)) = UNION {Range(parts[i]) : i \in 1 .. N}
  BY <1>1, <1>2, <1>3, FlattenedIs
<1>5. Candidates(lines, kinds) = FlattenSeq(parts)
  BY DEF Candidates, parts
<1> QED BY <1>1, <1>2, <1>4, <1>5

Fields   == {"invoice_number", "issue_date", "currency", "supplier_tax", "customer_tax", "iban",
             "taxable_base", "total", "order_reference", "supplier_name", "customer_name"}
RowNames == {"description", "label", "quantity", "rate", "amount"}
IsQuestion(q, lines) ==
    \/ \E f \in Fields : q = <<f, 0>>
    \/ q = <<"document_type", 0>>
    \/ \E i \in DOMAIN lines : q = <<"role", i>>
    \/ \E f \in RowNames, i \in DOMAIN lines : q = <<f, i>>

LEMMA FieldsAre == Range(FieldOrder) = Fields
<1>1. \A a, b, c, d, e, f, g, h, i, j, k :
        Range(<<a, b, c, d, e, f, g, h, i, j, k>>) = {a, b, c, d, e, f, g, h, i, j, k}
  BY DEF Range
<1>2. FieldOrder = <<"invoice_number", "issue_date", "currency", "supplier_tax", "customer_tax", "iban",
                     "taxable_base", "total", "order_reference", "supplier_name", "customer_name">>
  BY Zenon DEF FieldOrder
<1> QED BY <1>1, <1>2, SMT DEF Fields

LEMMA QuestionsAre ==
    ASSUME NEW lines, IsReading(lines)
    PROVE  /\ \A q \in Range(FirstQuestions(lines)) : IsQuestion(q, lines)
           /\ \A answers : \A q \in Range(RowQuestions(lines, answers)) : IsQuestion(q, lines)
<1>1. lines \in Seq(Range(lines))
  BY DEF IsReading
<1>2. ASSUME NEW q \in Range(FirstQuestions(lines)) PROVE IsQuestion(q, lines)
  BY <1>1, FirstQuestionsAre, FieldsAre DEF IsQuestion
<1>3. ASSUME NEW answers, NEW q \in Range(RowQuestions(lines, answers)) PROVE IsQuestion(q, lines)
  <2>1. PICK i \in DOMAIN lines : q \in {<<f, i>> : f \in Range(RowFields(answers[<<"role", i>>]))}
    <3> DEFINE asked(i) == {<<f, i>> : f \in Range(RowFields(answers[<<"role", i>>]))}
    <3>1. Range(RowQuestions(lines, answers)) = UNION {asked(i) : i \in DOMAIN lines}
      BY <1>1, RowQuestionsAre
    <3> HIDE DEF asked
    <3>2. PICK i \in DOMAIN lines : q \in asked(i)
      BY <3>1
    <3> QED BY <3>2 DEF asked
  <2>2. \A role : Range(RowFields(role)) \subseteq RowNames
    <3>1. \A a, b, c : Range(<<a, b, c>>) = {a, b, c}
      BY DEF Range
    <3>2. Range(<<>>) = {}
      BY DEF Range
    <3> QED BY <3>1, <3>2 DEF RowFields, RowNames
  <2> QED BY <2>1, <2>2 DEF IsQuestion
<1> QED BY <1>2, <1>3

LEMMA FieldKindsAre == \A f \in Fields : FieldKinds[f] \in Seq(KindSet)
<1>1. \A a, b, c, d \in KindSet : <<a>> \in Seq(KindSet) /\ <<a, b, c>> \in Seq(KindSet) /\ <<a, b, c, d>> \in Seq(KindSet)
  OBVIOUS
<1>2. \A f \in Fields : FieldKinds[f] \in {<<"text", "name", "identifier", "order">>, <<"text", "name", "order">>,
                                           <<"date">>, <<"currency">>, <<"tax_id">>, <<"iban">>, <<"amount">>}
  BY DEF FieldKinds, Fields
<1>3. {"text", "name", "identifier", "order", "date", "currency", "tax_id", "iban", "amount"} \subseteq KindSet
  BY KindsAre
<1>4. {<<"text", "name", "identifier", "order">>, <<"text", "name", "order">>, <<"date">>, <<"currency">>,
       <<"tax_id">>, <<"iban">>, <<"amount">>} \subseteq Seq(KindSet)
  <2>1. /\ "text" \in KindSet /\ "name" \in KindSet /\ "identifier" \in KindSet /\ "order" \in KindSet
        /\ "date" \in KindSet /\ "currency" \in KindSet /\ "tax_id" \in KindSet /\ "iban" \in KindSet
        /\ "amount" \in KindSet
    BY <1>3
  <2>2. <<"date">> \in Seq(KindSet) /\ <<"currency">> \in Seq(KindSet) /\ <<"tax_id">> \in Seq(KindSet)
        /\ <<"iban">> \in Seq(KindSet) /\ <<"amount">> \in Seq(KindSet)
    BY <1>1, <2>1, Zenon
  <2>3. <<"text", "name", "order">> \in Seq(KindSet) /\ <<"text", "name", "identifier", "order">> \in Seq(KindSet)
    BY <1>1, <2>1, Zenon
  <2> QED BY <2>2, <2>3, Zenon
<1> QED BY <1>2, <1>4, Zenon

(* Every question offers a sequence of options. *)
LEMMA OptionsAre ==
    ASSUME NEW lines, IsReading(lines), NEW q, IsQuestion(q, lines)
    PROVE  OptionsOf(q, lines) \in Seq(Range(OptionsOf(q, lines)))
<1>1. CASE \E f \in Fields : q = <<f, 0>>
  <2>1. PICK f \in Fields : q = <<f, 0>>
    BY <1>1
  <2>2. OptionsOf(q, lines) = Candidates(lines, FieldKinds[f])
    BY <2>1 DEF OptionsOf, Fields
  <2> QED BY <2>2, FieldKindsAre, CandidatesAre
<1>2. CASE q = <<"document_type", 0>> \/ \E i \in DOMAIN lines : q = <<"role", i>>
  <2>1. \A a, b, c, d : <<a, b, c, d>> \in Seq(Range(<<a, b, c, d>>))
    BY DEF Range
  <2>2. OptionsOf(q, lines) = Types \/ OptionsOf(q, lines) = Roles
    BY <1>2 DEF OptionsOf
  <2> QED BY <2>1, <2>2, Zenon DEF Types, Roles
<1>3. CASE \E f \in RowNames, i \in DOMAIN lines : q = <<f, i>>
  <2>1. PICK f \in RowNames, i \in DOMAIN lines : q = <<f, i>>
    BY <1>3
  <2>2. IsLine(lines[i]) /\ i # 0
    BY ReadingIs
  <2> DEFINE amounts == LineCandidates(lines[i], i, <<"amount">>)
             legible == Legible(lines, i)
  <2>3. \/ OptionsOf(q, lines) = Only(amounts, legible)
        \/ OptionsOf(q, lines) = LineCandidates(lines[i], i, KINDS)
    BY <2>1, <2>2 DEF OptionsOf, RowNames
  <2>4. <<"amount">> \in Seq(KindSet) /\ KINDS \in Seq(KindSet)
    BY KindsAre
  <2>5. amounts \in Seq(Range(amounts))
    BY <2>2, <2>4, LineCandidatesAre
  <2> HIDE DEF amounts, legible
  <2>6. Only(amounts, legible) \in Seq(legible)
    BY <2>5, OnlyIs
  <2>7. Only(amounts, legible) \in Seq(Range(Only(amounts, legible)))
    BY <2>6, SeqOfRange
  <2> QED BY <2>2, <2>3, <2>4, <2>7, LineCandidatesAre
<1> QED BY <1>1, <1>2, <1>3 DEF IsQuestion

(* What the model has answered was offered to it. *)
Offered(answers, lines) ==
    \A asked \in DOMAIN answers : \A id \in asked :
        /\ id \in DOMAIN answers[asked]
        /\ answers[asked][id] \in Range(OptionsOf(<<id[1], id[2]>>, lines)) \cup Sentinels(<<id[1], id[2]>>)

LEMMA SentinelsAre == \A q : Sentinels(q) \subseteq ABSTENTIONS
  BY DEF Sentinels, ABSTENTIONS

LEMMA WidthIs == \A q : Width(q) \in Nat /\ Width(q) >= 1 /\ Width(q) >= 2
<1>1. \A a, b, c : Cardinality({}) = 0 /\ Cardinality({a}) = 1 /\ Cardinality({a, b, c}) \in Nat /\ Cardinality({a, b, c}) <= 3
  <2> TAKE a, b, c
  <2>1. IsFiniteSet({}) /\ Cardinality({}) = 0
    BY FS_EmptySet
  <2>2. IsFiniteSet({a}) /\ Cardinality({a}) = 1
    BY FS_Singleton
  <2>3. IsFiniteSet({a} \cup {b}) /\ Cardinality({a} \cup {b}) \in {1, 2}
    BY <2>2, FS_AddElement
  <2>4. Cardinality(({a} \cup {b}) \cup {c}) \in {1, 2, 3}
    <3> DEFINE S == {a} \cup {b}
    <3> HIDE DEF S
    <3>1. Cardinality(S \cup {c}) = Cardinality(S) \/ Cardinality(S \cup {c}) = Cardinality(S) + 1
      BY <2>3, FS_AddElement DEF S
    <3>2. Cardinality(S) \in {1, 2}
      BY <2>3 DEF S
    <3>3. Cardinality(S \cup {c}) \in {1, 2, 3}
      BY <3>1, <3>2
    <3> QED BY <3>3 DEF S
  <2>5. ({a} \cup {b}) \cup {c} = {a, b, c}
    OBVIOUS
  <2> QED BY <2>1, <2>2, <2>4, <2>5
<1>2. \A q : Cardinality(Sentinels(q)) \in Nat /\ Cardinality(Sentinels(q)) <= 3
  <2>1. Cardinality(ABSTENTIONS) \in Nat /\ Cardinality(ABSTENTIONS) <= 3
    BY <1>1, Zenon DEF ABSTENTIONS
  <2>2. \A q : Sentinels(q) \in {{}, {AMBIGUOUS}, ABSTENTIONS}
    BY Zenon DEF Sentinels
  <2>3. Cardinality({}) = 0 /\ Cardinality({AMBIGUOUS}) = 1
    BY <1>1
  <2> QED BY <2>1, <2>2, <2>3
<1> QED BY <1>2, LimitsValid DEF Width

Lefts(options) == [round : Nat \ {0}, entries : Seq(Range(options)), said : SUBSET ABSTENTIONS]

LEMMA GroupsAre ==
    ASSUME NEW q, NEW options, NEW left \in Lefts(options)
    PROVE  \E n \in Nat : Groups(q, left) = 1 .. n /\ n * Width(q) <= Len(left.entries) + Width(q) - 1
<1> DEFINE W == Width(q)
           L == Len(left.entries)
           n == (L + W - 1) \div W
<1>1. W \in Nat /\ W >= 1 /\ L \in Nat
  BY WidthIs, LenProperties DEF Lefts
<1>2. Groups(q, left) = 1 .. n
  BY DEF Groups
<1> HIDE DEF W, L
<1>3. n \in Nat /\ n * W <= L + W - 1
  BY <1>1
<1> HIDE DEF n
<1> QED BY <1>2, <1>3 DEF W, L

LEMMA NextRoundIs ==
    ASSUME NEW lines, NEW q, q = <<q[1], q[2]>>, NEW answers, Offered(answers, lines),
           NEW left \in Lefts(OptionsOf(q, lines))
    PROVE  NextRound(q, left, answers) \in Lefts(OptionsOf(q, lines))
<1> DEFINE options == OptionsOf(q, lines)
           groups  == Groups(q, left)
           choices == [g \in groups |-> answers[{GroupId(q, left, g)}][GroupId(q, left, g)]]
           won     == Range(choices) \ ABSTENTIONS
           next    == [round |-> left.round + 1, entries |-> Only(choices, won),
                       said |-> left.said \cup (Range(choices) \cap ABSTENTIONS)]
<1>1. NextRound(q, left, answers) = IF Few(q, left) \/ Open(q, left, answers) # {} THEN left ELSE next
  BY DEF NextRound
<1>2. CASE ~ Few(q, left) /\ Open(q, left, answers) = {}
  <2>1. ASSUME NEW g \in groups PROVE choices[g] \in Range(options) \cup ABSTENTIONS
    <3> DEFINE id == GroupId(q, left, g)
    <3>1. {id} \in DOMAIN answers
      BY <1>2 DEF Open
    <3>2. <<id[1], id[2]>> = q
      BY DEF GroupId
    <3> HIDE DEF id
    <3>3. answers[{id}][id] \in Range(OptionsOf(<<id[1], id[2]>>, lines)) \cup Sentinels(<<id[1], id[2]>>)
      BY <3>1 DEF Offered
    <3>4. answers[{id}][id] \in Range(options) \cup ABSTENTIONS
      BY <3>2, <3>3, SentinelsAre
    <3>5. choices[g] = answers[{id}][id]
      BY DEF id
    <3> QED BY <3>4, <3>5
  <2>2. PICK n \in Nat : groups = 1 .. n
    BY GroupsAre
  <2>3. won \subseteq Range(options)
    <3> HIDE DEF groups, options
    <3>1. Range(choices) = {choices[g] : g \in groups}
      BY DEF Range
    <3> HIDE DEF choices
    <3> QED BY <2>1, <3>1
  <2>4. choices \in Seq(Range(choices))
    <3>1. choices = [g \in 1 .. n |-> choices[g]]
      BY <2>2
    <3> HIDE DEF choices
    <3> QED BY <3>1, Sequence
  <2> HIDE DEF choices, groups, options, won
  <2>5. Only(choices, won) \in Seq(won)
    BY <2>4, OnlyIs
  <2>6. Only(choices, won) \in Seq(Range(options))
    BY <2>3, <2>5, SeqMonotonic
  <2>7. left.round + 1 \in Nat \ {0} /\ left.said \subseteq ABSTENTIONS
    BY DEF Lefts
  <2>8. next \in Lefts(options)
    BY <2>6, <2>7 DEF Lefts
  <2> QED BY <1>1, <1>2, <2>8 DEF options
<1>3. CASE Few(q, left) \/ Open(q, left, answers) # {}
  BY <1>1, <1>3
<1> QED BY <1>2, <1>3

(* The rounds of a question, whose last one is Rounds. *)
Play(q, options, answers) ==
    CHOOSE play : play = [n \in Nat |-> IF n = 0 THEN [round |-> 1, entries |-> options, said |-> {}]
                                        ELSE NextRound(q, play[n - 1], answers)]
Fuel(q, options) == IF Len(options) > Width(q) THEN Len(options) - Width(q) ELSE 0

LEMMA PlayIs ==
    ASSUME NEW lines, NEW q, q = <<q[1], q[2]>>, NEW answers, Offered(answers, lines),
           OptionsOf(q, lines) \in Seq(Range(OptionsOf(q, lines)))
    PROVE  LET play == Play(q, OptionsOf(q, lines), answers)
           IN  /\ play[0] = [round |-> 1, entries |-> OptionsOf(q, lines), said |-> {}]
               /\ \A n \in Nat : play[n + 1] = NextRound(q, play[n], answers)
               /\ \A n \in Nat : play[n] \in Lefts(OptionsOf(q, lines))
               /\ Rounds(q, OptionsOf(q, lines), answers) = play[Fuel(q, OptionsOf(q, lines))]
               /\ Fuel(q, OptionsOf(q, lines)) \in Nat
<1> DEFINE options == OptionsOf(q, lines)
           V == Lefts(options)
           a == [round |-> 1, entries |-> options, said |-> {}]
           step == [n \in Nat |-> [v \in V |-> NextRound(q, v, answers)]]
           Sound(h) == h = [n \in Nat |-> IF n = 0 THEN [round |-> 1, entries |-> options, said |-> {}]
                                          ELSE NextRound(q, h[n - 1], answers)]
<1>1. a \in V
  <2> HIDE DEF options
  <2> QED BY DEF Lefts, options
<1>2. step \in [Nat -> [V -> V]]
  <2>1. \A v \in V : NextRound(q, v, answers) \in V
    <3> HIDE DEF options
    <3> QED BY NextRoundIs DEF options
  <2> QED BY <2>1
<1>3. PICK f \in [Nat -> V] : Iterates(f, a, step)
  <2> HIDE DEF V, a, step
  <2> QED BY <1>1, <1>2, Iteration
<1>4. ASSUME NEW n \in Nat PROVE f[n] = IF n = 0 THEN a ELSE NextRound(q, f[n - 1], answers)
  <2> HIDE DEF a
  <2>1. CASE n = 0
    BY <1>3, <2>1 DEF Iterates
  <2>2. CASE n # 0
    <3> DEFINE k == n - 1
    <3>1. k \in Nat /\ k + 1 = n
      BY <2>2
    <3> HIDE DEF k
    <3>2. f[n] = step[n][f[k]] /\ f[k] \in V
      <4> HIDE DEF step, V
      <4> QED BY <1>3, <3>1 DEF Iterates
    <3>3. f[n] = NextRound(q, f[k], answers)
      <4> HIDE DEF V
      <4> QED BY <3>2
    <3> QED BY <2>2, <3>3 DEF k
  <2> QED BY <2>1, <2>2
<1>5. Sound(f)
  <2> HIDE DEF step, options, V
  <2> QED BY <1>4
<1> DEFINE h == Play(q, options, answers)
           last == Fuel(q, options)
<1>6. Sound(h)
  BY <1>5 DEF Play
<1>7. Rounds(q, options, answers) = h[last]
  BY Zenon DEF Rounds, Play, Fuel
<1>8. last \in Nat
  BY WidthIs, LenProperties DEF Fuel
<1> HIDE DEF h, step, options, last, V
<1> DEFINE T == {n \in Nat : h[n] \in V}
<1>9. 0 \in T
  BY <1>1, <1>6
<1>10. ASSUME NEW n \in Nat PROVE h[n + 1] = NextRound(q, h[n], answers)
  <2>1. n + 1 \in Nat /\ n + 1 # 0 /\ (n + 1) - 1 = n
    OBVIOUS
  <2> QED BY <1>6, <2>1
<1>11. ASSUME NEW n \in Nat, n \in T PROVE n + 1 \in T
  <2>1. h[n] \in V
    BY <1>11
  <2> HIDE DEF T
  <2>2. NextRound(q, h[n], answers) \in V
    BY <2>1, NextRoundIs DEF V, options
  <2> QED BY <1>10, <2>2 DEF T
<1> HIDE DEF T
<1>12. \A n \in Nat : n \in T
  BY <1>9, <1>11, Induction
<1>13. h[0] = a
  BY <1>6
<1> QED BY <1>7, <1>8, <1>10, <1>12, <1>13 DEF T, V, options, h, last, a

(* What the rounds of a question leave is some of its options. *)
LEMMA RoundsAre ==
    ASSUME NEW lines, NEW q, q = <<q[1], q[2]>>, NEW answers, Offered(answers, lines),
           OptionsOf(q, lines) \in Seq(Range(OptionsOf(q, lines)))
    PROVE  Rounds(q, OptionsOf(q, lines), answers) \in Lefts(OptionsOf(q, lines))
BY PlayIs

LEMMA GroupIs ==
    ASSUME NEW q, NEW options, NEW left \in Lefts(options), NEW g \in Groups(q, left)
    PROVE  Group(q, left, g) \in Seq(Range(options))
<1> DEFINE W == Width(q)
           L == Len(left.entries)
           entries == left.entries
           from == (g - 1) * W + 1
           to == IF g * W < L THEN g * W ELSE L
<1>1. W \in Nat /\ W >= 1 /\ entries \in Seq(Range(options))
  BY WidthIs DEF Lefts
<1>2. g \in Nat /\ g >= 1
  BY GroupsAre
<1>3. L \in Nat /\ \A i \in 1 .. L : entries[i] \in Range(options)
  BY <1>1, LenProperties, ElementOfSeq
<1>4. Group(q, left, g) = SubSeq(entries, from, to)
  BY DEF Group
<1> HIDE DEF W, L, entries
<1>5. (g - 1) * W \in Nat /\ g * W \in Nat
  BY <1>1, <1>2
<1>6. from \in Int /\ to \in Int /\ \A i \in from .. to : i \in 1 .. L
  BY <1>3, <1>5
<1> HIDE DEF from, to
<1>7. SubSeq(entries, from, to) \in Seq(Range(options))
  BY <1>3, <1>6, SubSeqProperties
<1> QED BY <1>4, <1>7

LEMMA QuestionIs ==
    ASSUME NEW lines, NEW q, IsQuestion(q, lines)
    PROVE  q = <<q[1], q[2]>> /\ <<Final(q)[1], Final(q)[2]>> = q
BY DEF IsQuestion, Final

(* What the rounds have left of the questions, and what is asked next. *)
LeftOf(left, lines) ==
    \A q \in DOMAIN left : IsQuestion(q, lines) /\ left[q] \in Lefts(OptionsOf(q, lines))

LEMMA PlayedIs ==
    ASSUME NEW lines, IsReading(lines), NEW questions, \A q \in Range(questions) : IsQuestion(q, lines),
           NEW answers, Offered(answers, lines)
    PROVE  /\ DOMAIN Played(questions, lines, answers) = Range(questions)
           /\ LeftOf(Played(questions, lines, answers), lines)
<1>1. ASSUME NEW q \in Range(questions)
      PROVE  Rounds(q, OptionsOf(q, lines), answers) \in Lefts(OptionsOf(q, lines))
  <2>1. OptionsOf(q, lines) \in Seq(Range(OptionsOf(q, lines)))
    BY OptionsAre
  <2>2. q = <<q[1], q[2]>>
    BY QuestionIs
  <2> QED BY <2>1, <2>2, RoundsAre
<1> QED BY <1>1 DEF Played, LeftOf

LEMMA NextRequestOffers ==
    ASSUME NEW lines, NEW left, LeftOf(left, lines), NEW place, \A q \in DOMAIN left : place[q] \in Nat,
           NEW answers, NEW next, next = NextRequest(left, place, BatchesOf(left, place), answers)
    PROVE  /\ \A id \in DOMAIN next : next[id] \in Seq(Range(OptionsOf(<<id[1], id[2]>>, lines)))
           /\ next = <<>> => /\ \A q \in DOMAIN left : Open(q, left[q], answers) = {}
                             /\ \A b \in BatchesOf(left, place) : Ids(b) \in DOMAIN answers
<1> DEFINE playing == {q \in DOMAIN left : Open(q, left[q], answers) # {}}
           unsent  == {b \in BatchesOf(left, place) : Ids(b) \notin DOMAIN answers}
           f == First(playing, place)
           b == Sending(unsent, place)
<1>1. next = IF playing # {} THEN GroupRequest(f, left[f], answers)
             ELSE IF unsent # {} THEN BatchRequest(b, left) ELSE <<>>
  BY DEF NextRequest, Sending
<1>2. CASE playing # {}
  <2>1. f \in playing
    <3>1. \A q \in playing : place[q] \in Nat
      OBVIOUS
    <3> HIDE DEF playing
    <3> QED BY <1>2, <3>1, FirstIs
  <2>2. f \in DOMAIN left /\ Open(f, left[f], answers) # {}
    BY <2>1
  <2> HIDE DEF f
  <2> DEFINE g == Min(Open(f, left[f], answers))
             id == GroupId(f, left[f], g)
             group == Group(f, left[f], g)
  <2>3. g \in Groups(f, left[f])
    <3>1. g \in Open(f, left[f], answers)
      BY <2>2, OpenIs
    <3> QED BY <3>1 DEF Open
  <2>4. GroupRequest(f, left[f], answers) = [i \in {id} |-> group]
    BY DEF GroupRequest
  <2>5. <<id[1], id[2]>> = f
    BY <2>2, QuestionIs DEF GroupId, LeftOf
  <2>6. group \in Seq(Range(OptionsOf(f, lines)))
    BY <2>2, <2>3, GroupIs DEF LeftOf
  <2> HIDE DEF playing, unsent, b, group, id, g
  <2>7. next = [i \in {id} |-> group]
    BY <1>1, <1>2, <2>4
  <2>8. next # <<>>
    BY <2>7
  <2> QED BY <2>5, <2>6, <2>7, <2>8
<1>3. CASE playing = {} /\ unsent # {}
  <2>1. b \in unsent
    <3>1. unsent = {c \in BatchesOf(left, place) : Ids(c) \notin DOMAIN answers}
      OBVIOUS
    <3> HIDE DEF unsent
    <3> QED BY <1>3, <3>1, UnsentIs
  <2>2. b \subseteq DOMAIN left /\ b # {}
    <3> DEFINE S == {q \in DOMAIN left : Undecided(left[q]) = NULL}
    <3>1. b \in Packed(S, place) /\ S \subseteq DOMAIN left
      BY <2>1 DEF BatchesOf
    <3> HIDE DEF S, b
    <3> QED BY <3>1, PackedIs
  <2> HIDE DEF playing, unsent, b
  <2>3. next = [id \in Ids(b) |-> left[<<id[1], id[2]>>].entries]
    BY <1>1, <1>3 DEF BatchRequest
  <2>4. next # <<>>
    BY <2>2, <2>3 DEF Ids
  <2>5. ASSUME NEW id \in DOMAIN next PROVE next[id] \in Seq(Range(OptionsOf(<<id[1], id[2]>>, lines)))
    <3>1. PICK q \in b : id = Final(q)
      BY <2>3 DEF Ids
    <3>2. <<id[1], id[2]>> = q /\ left[q] \in Lefts(OptionsOf(q, lines))
      BY <2>2, <3>1, QuestionIs DEF LeftOf
    <3>3. left[q].entries \in Seq(Range(OptionsOf(q, lines)))
      BY <3>2 DEF Lefts
    <3> QED BY <2>3, <3>2, <3>3
  <2> QED BY <2>4, <2>5
<1>4. CASE playing = {} /\ unsent = {}
  <2>1. next = <<>>
    BY <1>1, <1>4
  <2> QED BY <1>4, <2>1
<1> HIDE DEF playing, unsent
<1> QED BY <1>2, <1>3, <1>4

LEMMA SaidIs ==
    ASSUME NEW lines, NEW left, LeftOf(left, lines), IsFiniteSet(DOMAIN left),
           NEW place, \A q \in DOMAIN left : place[q] \in Nat, NEW answers, Offered(answers, lines),
           \A b \in BatchesOf(left, place) : Ids(b) \in DOMAIN answers, NEW q \in DOMAIN left
    PROVE  Said(q, left, BatchesOf(left, place), answers) \in Range(OptionsOf(q, lines)) \cup ABSTENTIONS
<1> DEFINE S == {r \in DOMAIN left : Undecided(left[r]) = NULL}
           batches == BatchesOf(left, place)
           b == CHOOSE c \in batches : q \in c
<1>1. CASE Undecided(left[q]) # NULL
  <2>1. Undecided(left[q]) \in ABSTENTIONS \cup {NULL}
    BY DEF Undecided, ABSTENTIONS
  <2> QED BY <1>1, <2>1 DEF Said
<1>2. CASE Undecided(left[q]) = NULL
  <2>1. q \in S /\ batches = Packed(S, place) /\ S \subseteq DOMAIN left
    BY <1>2 DEF BatchesOf
  <2> HIDE DEF S
  <2>2. IsFiniteSet(S) /\ \A r \in S : place[r] \in Nat
    BY <2>1, FS_Subset
  <2>3. UNION batches = S
    BY <2>1, <2>2, PackedCovers
  <2>4. b \in batches /\ q \in b
    BY <2>1, <2>3
  <2>5. Ids(b) \in DOMAIN answers /\ Final(q) \in Ids(b)
    BY <2>4 DEF Ids
  <2>6. Said(q, left, batches, answers) = answers[Ids(b)][Final(q)]
    BY <1>2 DEF Said
  <2> HIDE DEF b, batches
  <2>7. answers[Ids(b)][Final(q)] \in Range(OptionsOf(<<Final(q)[1], Final(q)[2]>>, lines))
                                      \cup Sentinels(<<Final(q)[1], Final(q)[2]>>)
    BY <2>5 DEF Offered
  <2>8. <<Final(q)[1], Final(q)[2]>> = q
    BY QuestionIs DEF LeftOf
  <2> QED BY <2>6, <2>7, <2>8, SentinelsAre DEF batches
<1> QED BY <1>1, <1>2

(* A turn offers options of its questions; the last one answers them all. *)
Turn(turn, questions, lines) ==
    /\ \A id \in DOMAIN turn.next : turn.next[id] \in Seq(Range(OptionsOf(<<id[1], id[2]>>, lines)))
    /\ turn.next = <<>> =>
          /\ DOMAIN turn.answers = questions
          /\ \A q \in questions : turn.answers[q] \in Range(OptionsOf(q, lines)) \cup ABSTENTIONS

LEMMA AskedOffers ==
    ASSUME NEW lines, IsReading(lines), NEW questions, questions \in Seq(Range(questions)),
           \A q \in Range(questions) : IsQuestion(q, lines), NEW answers, Offered(answers, lines)
    PROVE  Turn(Asked(questions, lines, answers), Range(questions), lines)
<1> DEFINE left == Played(questions, lines, answers)
           place == Places(questions)
           batches == BatchesOf(left, place)
           next == NextRequest(left, place, batches, answers)
           turn == Asked(questions, lines, answers)
<1>1. DOMAIN left = Range(questions) /\ LeftOf(left, lines)
  BY PlayedIs
<1>2. \A q \in DOMAIN left : place[q] \in Nat
  BY <1>1, PlacesAre
<1>3. IsFiniteSet(DOMAIN left)
  <2> DEFINE n == Len(questions)
  <2>1. Range(questions) = {questions[i] : i \in 1 .. n}
    BY RangeEquality
  <2>2. n \in Nat /\ DOMAIN questions = 1 .. n /\ questions = [i \in 1 .. n |-> questions[i]]
    BY LenProperties
  <2> HIDE DEF n
  <2>3. IsFiniteSet({questions[i] : i \in 1 .. n})
    BY <2>2, IndexedIsFinite
  <2> QED BY <1>1, <2>1, <2>3
<1>4. turn = [next |-> next,
              answers |-> IF next # <<>> THEN <<>> ELSE [q \in DOMAIN left |-> Said(q, left, batches, answers)]]
  <2> HIDE DEF left, place
  <2> QED BY AskedIs DEF Sent, left, place
<1> HIDE DEF left, place
<1>5. /\ \A id \in DOMAIN next : next[id] \in Seq(Range(OptionsOf(<<id[1], id[2]>>, lines)))
      /\ next = <<>> => \A b \in batches : Ids(b) \in DOMAIN answers
  BY <1>1, <1>2, NextRequestOffers
<1>6. CASE next = <<>>
  <2>1. \A q \in DOMAIN left : Said(q, left, batches, answers) \in Range(OptionsOf(q, lines)) \cup ABSTENTIONS
    BY <1>1, <1>2, <1>3, <1>5, <1>6, SaidIs
  <2> HIDE DEF next, batches
  <2> QED BY <1>1, <1>4, <1>5, <1>6, <2>1 DEF Turn
<1>7. CASE next # <<>>
  <2> HIDE DEF next, batches
  <2> QED BY <1>4, <1>5, <1>7 DEF Turn
<1> QED BY <1>6, <1>7

(* The whole conversation: once it is over, every field and every row is answered. *)
LEMMA ConversationOffers ==
    ASSUME NEW lines, IsReading(lines), NEW answers, Offered(answers, lines)
    PROVE  LET turn == Conversation(lines, answers) IN
             /\ \A id \in DOMAIN turn.next : turn.next[id] \in Seq(Range(OptionsOf(<<id[1], id[2]>>, lines)))
             /\ turn.next = <<>> =>
                  /\ \A q \in Range(FirstQuestions(lines)) : q \in DOMAIN turn.answers
                  /\ \A i \in DOMAIN lines : \A f \in Range(RowFields(turn.answers[<<"role", i>>])) :
                        <<f, i>> \in DOMAIN turn.answers
                  /\ \A q \in DOMAIN turn.answers : turn.answers[q] \in Range(OptionsOf(q, lines)) \cup ABSTENTIONS
<1> DEFINE asked == FirstQuestions(lines)
           first == Asked(asked, lines, answers)
           questions == RowQuestions(lines, first.answers)
           rows == Asked(questions, lines, answers)
           turn == Conversation(lines, answers)
<1>1. lines \in Seq(Range(lines))
  BY DEF IsReading
<1>2. Turn(first, Range(asked), lines)
  <2> HIDE DEF asked
  <2> QED BY <1>1, FirstQuestionsAre, QuestionsAre, AskedOffers DEF asked
<1>3. Turn(rows, Range(questions), lines)
  <2> DEFINE said == first.answers
  <2> HIDE DEF said
  <2>1. /\ RowQuestions(lines, said) \in Seq(Range(RowQuestions(lines, said)))
        /\ \A q \in Range(RowQuestions(lines, said)) : IsQuestion(q, lines)
    BY <1>1, RowQuestionsAre, QuestionsAre
  <2>2. questions \in Seq(Range(questions)) /\ \A q \in Range(questions) : IsQuestion(q, lines)
    BY <2>1 DEF said
  <2> HIDE DEF questions
  <2> QED BY <2>2, AskedOffers
<1>4. turn = IF first.next # <<>> THEN first
             ELSE [next |-> rows.next, answers |-> IF rows.next # <<>> THEN <<>> ELSE Both(first.answers, rows.answers)]
  <2> HIDE DEF first
  <2> QED BY ConversationIs DEF Continued, first
<1> HIDE DEF turn
<1>5. CASE first.next # <<>>
  <2> HIDE DEF first, rows, questions
  <2> QED BY <1>2, <1>4, <1>5 DEF Turn, turn
<1>6. CASE first.next = <<>> /\ rows.next # <<>>
  <2> HIDE DEF first, rows, questions
  <2> QED BY <1>3, <1>4, <1>6 DEF Turn, turn
<1>7. CASE first.next = <<>> /\ rows.next = <<>>
  <2> DEFINE said == turn.answers
  <2>1. turn.next = <<>> /\ said = Both(first.answers, rows.answers)
    <3> HIDE DEF first, rows, questions
    <3> QED BY <1>4, <1>7
  <2>2. DOMAIN first.answers = Range(asked) /\ DOMAIN rows.answers = Range(questions)
    <3> HIDE DEF first, rows, questions
    <3> QED BY <1>2, <1>3, <1>7 DEF Turn
  <2>3. said = [q \in Range(asked) \cup Range(questions) |-> IF q \in Range(asked) THEN first.answers[q] ELSE rows.answers[q]]
    <3> HIDE DEF first, rows, questions, asked
    <3> QED BY <2>1, <2>2 DEF Both
  <2>4. ASSUME NEW q \in DOMAIN said PROVE said[q] \in Range(OptionsOf(q, lines)) \cup ABSTENTIONS
    <3> HIDE DEF first, rows, questions, asked, said
    <3> QED BY <1>2, <1>3, <1>7, <2>3 DEF Turn
  <2>5. ASSUME NEW i \in DOMAIN lines, NEW f \in Range(RowFields(said[<<"role", i>>])) PROVE <<f, i>> \in DOMAIN said
    <3>1. <<"role", i>> \in Range(asked)
      BY <1>1, FirstQuestionsAre
    <3>2. said[<<"role", i>>] = first.answers[<<"role", i>>]
      <4> HIDE DEF first, rows, questions, asked, said
      <4> QED BY <2>3, <3>1
    <3>3. <<f, i>> \in Range(questions)
      <4> DEFINE heardOf == first.answers
                 of(j) == {<<e, j>> : e \in Range(RowFields(heardOf[<<"role", j>>]))}
      <4>1. f \in Range(RowFields(heardOf[<<"role", i>>]))
        BY <3>2
      <4> HIDE DEF first, said
      <4>2. <<f, i>> \in of(i)
        BY <4>1
      <4> HIDE DEF heardOf
      <4>3. Range(RowQuestions(lines, heardOf)) = UNION {of(j) : j \in DOMAIN lines}
        BY <1>1, RowQuestionsAre
      <4> HIDE DEF of
      <4>4. <<f, i>> \in Range(RowQuestions(lines, heardOf))
        BY <4>2, <4>3
      <4> QED BY <4>4 DEF heardOf
    <3> HIDE DEF first, rows, questions, asked, said
    <3> QED BY <2>3, <3>3
  <2> HIDE DEF first, rows, questions, asked
  <2>6. \A q \in Range(asked) : q \in DOMAIN said
    <3> HIDE DEF said
    <3> QED BY <2>3
  <2> QED BY <2>1, <2>4, <2>5, <2>6 DEF turn, asked
<1> QED BY <1>5, <1>6, <1>7

(* The model chooses one of the options, or abstains where it may. *)
Choice(id, lines) == Range(OptionsOf(<<id[1], id[2]>>, lines)) \cup Sentinels(<<id[1], id[2]>>)

LEMMA SaysIs ==
    ASSUME NEW lines, NEW id, NEW options, options \in Seq(Range(OptionsOf(<<id[1], id[2]>>, lines)))
    PROVE  Says(id, options, lines) \in Choice(id, lines)
<1> DEFINE meant(c) ==
               CASE id[1] = "document_type" -> c = Word("invoice")
                 [] id[1] = "role" -> c[1] \in lines[id[2]].says
                 [] id[1] = "amount" -> c = Last(options)
                 [] id[2] # 0 -> id[1] \in {"description", "label"}
                 [] OTHER -> c[2] # 0 /\ id[1] \in lines[c[2]].says /\ c[1] # "text"
           places == {n \in DOMAIN options : meant(options[n])}
<1>1. Says(id, options, lines) = IF places # {} THEN options[Min(places)]
                                 ELSE IF id[1] = "role" THEN Word("other")
                                 ELSE IF id[1] = "document_type" THEN Word("unknown") ELSE NOT_FOUND
  BY Zenon DEF Says
<1>2. places \subseteq DOMAIN options
  OBVIOUS
<1> HIDE DEF places
<1> DEFINE S == Range(OptionsOf(<<id[1], id[2]>>, lines))
<1>3. CASE places # {}
  <2>1. DOMAIN options \subseteq Nat
    BY LenProperties
  <2>2. Min(places) \in DOMAIN options
    BY <1>2, <1>3, <2>1, LeastIs
  <2> HIDE DEF S
  <2>3. options[Min(places)] \in Range(options)
    BY <2>2 DEF Range
  <2>4. options[Min(places)] \in S
    BY <2>3, RangeOfSeq DEF S
  <2> QED BY <1>1, <1>3, <2>4 DEF Choice, S
<1>4. CASE places = {} /\ id[1] = "role"
  <2>1. \A a, b, c, d : d \in Range(<<a, b, c, d>>)
    BY DEF Range
  <2>2. Word("other") \in Range(Roles)
    BY <2>1, Zenon DEF Roles
  <2>3. OptionsOf(<<id[1], id[2]>>, lines) = Roles
    BY <1>4 DEF OptionsOf
  <2> QED BY <1>1, <1>4, <2>2, <2>3 DEF Choice
<1>5. CASE places = {} /\ id[1] = "document_type"
  <2>1. \A a, b, c, d : d \in Range(<<a, b, c, d>>)
    BY DEF Range
  <2>2. Word("unknown") \in Range(Types)
    BY <2>1, Zenon DEF Types
  <2>3. OptionsOf(<<id[1], id[2]>>, lines) = Types
    BY <1>5 DEF OptionsOf
  <2> QED BY <1>1, <1>5, <2>2, <2>3 DEF Choice
<1>6. CASE places = {} /\ id[1] \notin {"role", "document_type"}
  <2>1. Sentinels(<<id[1], id[2]>>) = ABSTENTIONS
    BY <1>6 DEF Sentinels
  <2>2. NOT_FOUND \in ABSTENTIONS
    BY DEF ABSTENTIONS
  <2> QED BY <1>1, <1>6, <2>1, <2>2 DEF Choice
<1> QED BY <1>3, <1>4, <1>5, <1>6

LEMMA AnswersChoose ==
    ASSUME NEW lines, NEW request,
           \A id \in DOMAIN request : request[id] \in Seq(Range(OptionsOf(<<id[1], id[2]>>, lines))),
           NEW answer \in Answers(request, Plain(request, lines))
    PROVE  \A id \in DOMAIN request : answer[id] \in Choice(id, lines)
<1> DEFINE plain == Plain(request, lines)
<1>1. DOMAIN plain = DOMAIN request
  BY DEF Plain
<1>2. ASSUME NEW id \in DOMAIN request PROVE plain[id] \in Choice(id, lines)
  <2>1. plain[id] = Says(id, request[id], lines)
    BY DEF Plain
  <2> QED BY <2>1, SaysIs
<1>3. ASSUME NEW id \in DOMAIN request, NEW c \in OddChoices(id, request[id]) PROVE c \in Choice(id, lines)
  <2> DEFINE options == request[id]
  <2>1. options \in Seq(Range(OptionsOf(<<id[1], id[2]>>, lines)))
    OBVIOUS
  <2>2. c \in Sentinels(<<id[1], id[2]>>) \/ c \in Range(options)
    <3> HIDE DEF options
    <3> QED BY DEF OddChoices, Range, options
  <2> HIDE DEF options
  <2>3. Range(options) \subseteq Range(OptionsOf(<<id[1], id[2]>>, lines))
    BY <2>1, RangeOfSeq
  <2> QED BY <2>2, <2>3 DEF Choice
<1> HIDE DEF plain
<1>4. answer \in {plain} \cup UNION {{[plain EXCEPT ![id] = c] : c \in OddChoices(id, request[id])} : id \in DOMAIN request}
  BY Zenon DEF Answers, plain
<1>5. CASE answer = plain
  BY <1>2, <1>5
<1>6. CASE answer # plain
  <2> DEFINE odd(id) == {[plain EXCEPT ![id] = c] : c \in OddChoices(id, request[id])}
  <2>1. PICK id \in DOMAIN request : answer \in odd(id)
    <3> HIDE DEF odd
    <3>1. answer \in UNION {odd(id) : id \in DOMAIN request}
      BY <1>4, <1>6 DEF odd
    <3> QED BY <3>1
  <2>2. PICK c \in OddChoices(id, request[id]) : answer = [plain EXCEPT ![id] = c]
    BY <2>1
  <2> QED BY <1>1, <1>2, <1>3, <2>2
<1> QED BY <1>5, <1>6

(* A finished interpretation *)
Over == Conversation(text, heard).next = <<>>

LEMMA JevStays ==
    ASSUME IsJob, IsReading(text), Offered(heard, text), job.state \in {"completed", "needs_review"} => Over, NextJev
    PROVE  Offered(heard', text') /\ (job'.state \in {"completed", "needs_review"} => Over')
<1>1. ASSUME NEW state, NEW code, End(state, code), UNCHANGED <<text, heard, paid>>,
             state \in {"completed", "needs_review"} => Over
      PROVE  Offered(heard', text') /\ (job'.state \in {"completed", "needs_review"} => Over')
  <2>1. job'.state = state
    BY <1>1 DEF End, IsJob
  <2>2. heard' = heard /\ text' = text
    BY <1>1
  <2> QED BY <1>1, <2>1, <2>2 DEF Over
<1>2. CASE NextAttempt
  <2>1. job'.state = "running"
    BY <1>2 DEF NextAttempt, IsJob
  <2>2. heard' = heard /\ text' = text
    BY <1>2 DEF NextAttempt
  <2> QED BY <2>1, <2>2
<1>3. ASSUME Running, Attempt(Conversation(text, heard))
      PROVE  Offered(heard', text') /\ (job'.state \in {"completed", "needs_review"} => Over')
  <2> DEFINE turn == Conversation(text, heard)
  <2>1. \A id \in DOMAIN turn.next : turn.next[id] \in Seq(Range(OptionsOf(<<id[1], id[2]>>, text)))
    BY ConversationOffers
  <2>2. turn.next = <<>> => Over
    BY DEF Over
  <2> HIDE DEF turn
  <2>3. CASE Lose(turn)
    <3>1. PICK code : End("unknown", code)
      BY <2>3 DEF Lose
    <3>2. heard' = heard /\ text' = text /\ job'.state = "unknown"
      BY <2>3, <3>1 DEF Lose, End, IsJob
    <3> QED BY <3>2
  <2>4. CASE Overflow(turn) \/ NativeNotStored(turn)
    BY <1>1, <2>4 DEF Overflow, NativeNotStored
  <2>5. CASE CompleteInterpretation(turn)
    BY <1>1, <2>2, <2>5 DEF CompleteInterpretation
  <2>6. CASE \E code \in {"provider_http_error", "invalid_response"} : Refuse(turn, code)
    BY <1>1, <2>6 DEF Refuse
  <2>7. CASE Asking(turn) /\ \E plain \in {Plain(turn.next, text)} :
                        \E answer \in Answers(turn.next, plain) : Buy(turn, answer, plain)
    <3>1. PICK answer \in Answers(turn.next, Plain(turn.next, text)) : Buy(turn, answer, Plain(turn.next, text))
      BY <2>7
    <3> DEFINE request == turn.next
    <3>2. DOMAIN answer = DOMAIN request
      BY AnswersAnswer
    <3>3. \A id \in DOMAIN request : answer[id] \in Choice(id, text)
      BY <2>1, AnswersChoose
    <3>4. /\ heard' = [r \in DOMAIN heard \cup {DOMAIN answer} |-> IF r \in DOMAIN heard THEN heard[r] ELSE answer]
          /\ text' = text
      BY <3>1 DEF Buy
    <3>5. job'.state = job.state /\ job.state = "running"
      BY <1>3, <3>1 DEF Buy, IsJob, Running
    <3> HIDE DEF request
    <3>6. Offered(heard', text)
      BY <3>2, <3>3, <3>4 DEF Offered, Choice
    <3> QED BY <3>4, <3>5, <3>6
  <2> QED BY <1>3, <2>3, <2>4, <2>5, <2>6, <2>7 DEF Attempt, turn
<1> QED BY <1>2, <1>3 DEF NextJev

Result    == Interpreted(Conversation(text, heard))
Published == stage = "done" /\ outcome.route = "vision" /\ outcome.status = "completed"

(* What is kept was offered, a finished job has heard everything, and what is    *)
(* published is what it heard.                                                 *)
JevOffers ==
    mode.interpreter = "jev" =>
        /\ Offered(heard, text)
        /\ stage = "interpret" /\ job.state \in {"completed", "needs_review"} => Over
        /\ Published => Over /\ outcome.invoice = Result

LEMMA JevKeepsOffering == SpecCascade => []JevOffers
<1>1. InitCascade => JevOffers
  BY DEF InitCascade, InitJev, JevOffers, Offered, Published
<1>2. Readings /\ PaidOnce /\ JevOffers /\ [NextCascade]_cascadeVars => JevOffers'
  <2> SUFFICES ASSUME Readings, PaidOnce, JevOffers, [NextCascade]_cascadeVars, mode.interpreter' = "jev"
               PROVE  JevOffers'
    BY DEF JevOffers
  <2>1. mode' = mode
    BY DEF NextCascade, cascadeVars, InvalidFile, NoText, VisionFails, DeepSeekReads, InterpreterFails,
           Interpret, JevEnds, RetryFile, Native, VisionReads, Correct
  <2>2. /\ mode.interpreter = "jev" /\ Offered(heard, text) /\ IsReading(text) /\ IsJob
        /\ stage = "interpret" /\ job.state \in {"completed", "needs_review"} => Over
        /\ Published => Over /\ outcome.invoice = Result
    BY <2>1 DEF JevOffers, Readings, PaidOnce
  <2>3. Offered(<<>>, text')
    BY DEF Offered
  <2>4. ASSUME UNCHANGED <<text, heard>>
        PROVE  Offered(heard', text') /\ Over' = Over /\ Result' = Result
    <3>1. text' = text /\ heard' = heard
      BY <2>4
    <3> QED BY <2>2, <3>1 DEF Over, Result, Interpreted
  <2>5. ASSUME NEW code, Fail(code) PROVE ~ Published' /\ stage' # "interpret"
    BY <2>5 DEF Fail, Publish, Outcome, ErrorStatus, Published
  <2>6. ASSUME NEW lines, NEW misread, BeginInterpretation(lines, misread), stage' = "interpret" PROVE JevOffers'
    <3>1. heard' = <<>> /\ job'.state = "running"
      BY <2>2, <2>6 DEF BeginInterpretation, IsJob
    <3> QED BY <2>3, <2>6, <3>1 DEF JevOffers, Published
  <2>7. CASE InvalidFile \/ VisionFails
    BY <2>4, <2>5, <2>7 DEF InvalidFile, VisionFails, jevVars, JevOffers
  <2>8. CASE NoText
    BY <2>4, <2>8 DEF NoText, jevVars, JevOffers, Published
  <2>9. CASE \E reading, fields \in LocalEnds : Native(reading, fields)
    <3>1. PICK reading \in LocalEnds, fields \in LocalEnds : Native(reading, fields)
      BY <2>9
    <3> DEFINE ended == IF reading # "ok" THEN reading ELSE fields
    <3>2. UNCHANGED <<text, heard>>
      BY <3>1 DEF Native, jevVars
    <3>3. \/ outcome'.route = "deterministic" /\ stage' = "done"
          \/ stage' = "vision"
          \/ Fail(ended)
      BY <3>1 DEF Native, Publish, Outcome
    <3> QED BY <2>4, <2>5, <3>2, <3>3 DEF JevOffers, Published
  <2>10. CASE \E reading \in VisionReadings(file.printed) : VisionReads(reading)
    <3>1. PICK reading \in VisionReadings(file.printed) : VisionReads(reading)
      BY <2>10
    <3>2. CASE reading = <<>>
      BY <2>4, <2>5, <3>1, <3>2 DEF VisionReads, jevVars, JevOffers
    <3>3. CASE reading # <<>>
      BY <2>2, <2>6, <3>1, <3>3 DEF VisionReads
    <3> QED BY <3>2, <3>3
  <2>11. CASE DeepSeekReads \/ InterpreterFails
    BY <2>2, <2>11 DEF DeepSeekReads, InterpreterFails
  <2>12. CASE Interpret
    <3>1. stage = "interpret" /\ stage' = "interpret" /\ NextJev
      BY <2>12 DEF Interpret
    <3>2. Offered(heard', text') /\ (job'.state \in {"completed", "needs_review"} => Over')
      BY <2>2, <3>1, JevStays
    <3> QED BY <3>1, <3>2 DEF JevOffers, Published
  <2>13. CASE JevEnds
    <3>1. UNCHANGED <<text, heard>> /\ stage = "interpret"
      BY <2>13 DEF JevEnds, jevVars
    <3>2. CASE job.state \in {"completed", "needs_review"} /\ Publish(Outcome(job.state, NULL, "vision", Result, TRUE))
      <4>1. stage' = "done" /\ outcome'.invoice = Result
        BY <3>2 DEF Publish, Outcome
      <4> QED BY <2>2, <2>4, <3>1, <3>2, <4>1 DEF JevOffers
    <3>3. CASE Fail(job.code)
      BY <2>4, <2>5, <3>1, <3>3 DEF JevOffers
    <3> QED BY <2>13, <3>2, <3>3 DEF JevEnds, Result
  <2>14. CASE RetryFile
    <3>1. stage' = "interpret" /\ job'.state = "running" /\ text' = text /\ heard' \in {heard, <<>>}
      BY <2>2, <2>14 DEF RetryFile, RetryJob, Remembered, IsJob
    <3> QED BY <2>2, <2>3, <3>1 DEF JevOffers, Published
  <2>15. CASE \E reading \in Corrections(ReadBefore) : Correct(reading)
    <3>1. PICK reading \in Corrections(ReadBefore) : Correct(reading)
      BY <2>15
    <3> QED BY <2>2, <2>6, <3>1 DEF Correct
  <2>16. CASE UNCHANGED cascadeVars
    BY <2>2, <2>4, <2>16 DEF cascadeVars, jevVars, JevOffers, Published
  <2> QED BY <2>7, <2>8, <2>9, <2>10, <2>11, <2>12, <2>13, <2>14, <2>15, <2>16 DEF NextCascade
<1> QED BY <1>1, <1>2, ReadingsStayReadings, StaysPaidOnce, PTL DEF SpecCascade

-----------------------------------------------------------------------------
(* What was chosen *)

LEMMA SetToSeqIs ==
    ASSUME NEW S, IsFiniteSet(S), NEW k \in 1 .. Cardinality(S)
    PROVE  SetToSeq(S)[k] \in S
<1> DEFINE D == 1 .. Cardinality(S)
<1>1. \E f \in [D -> S] : IsInjective(f)
  BY FS_CardinalityType DEF ExistsBijection, Bijection, Injection, IsInjective
<1>2. SetToSeq(S) \in [D -> S]
  BY <1>1 DEF SetToSeq
<1> QED BY <1>2

LEMMA SpanValueIs ==
    ASSUME NEW lines, NEW c
    PROVE  /\ c[1] = "date"   => SpanValue(c, lines) = lines[c[2]].dates[c[3]]
           /\ c[1] = "tax_id" => SpanValue(c, lines) = lines[c[2]].taxes[c[3]]
           /\ c[1] = "amount" => SpanValue(c, lines) = lines[c[2]].numbers[c[3]].w
           /\ c[1] = "iban"   => SpanValue(c, lines) = SetToSeq(lines[c[2]].ibans)[c[3]]
<1>1. c[1] = "date"   => SpanValue(c, lines) = lines[c[2]].dates[c[3]]
  BY Zenon DEF SpanValue
<1>2. c[1] = "tax_id" => SpanValue(c, lines) = lines[c[2]].taxes[c[3]]
  BY Zenon DEF SpanValue
<1>3. c[1] = "amount" => SpanValue(c, lines) = lines[c[2]].numbers[c[3]].w
  BY Zenon DEF SpanValue
<1>4. c[1] = "iban"   => SpanValue(c, lines) = SetToSeq(lines[c[2]].ibans)[c[3]]
  BY Zenon DEF SpanValue
<1> QED BY <1>1, <1>2, <1>3, <1>4

(* The field is empty or says what a span of its kind says, and links to its line. *)
IsSpan(field, kind, lines) ==
    \/ field = Gap
    \/ \E i \in DOMAIN lines : \E k \in 1 .. SpanCount(lines[i])[kind] :
          field = Field(SpanValue(<<kind, i, k>>, lines), {i})

LEMMA CandidatesOfKind ==
    ASSUME NEW lines, IsReading(lines), NEW kind \in KindSet, NEW c \in Range(Candidates(lines, <<kind>>))
    PROVE  \E i \in DOMAIN lines : \E k \in 1 .. SpanCount(lines[i])[kind] : c = <<kind, i, k>>
<1>1. <<kind>> \in Seq(KindSet) /\ Range(<<kind>>) = {kind}
  BY DEF Range
<1> DEFINE of(i) == Range(LineCandidates(lines[i], i, <<kind>>))
<1>2. Range(Candidates(lines, <<kind>>)) = UNION {of(i) : i \in DOMAIN lines}
  BY <1>1, CandidatesAre
<1> HIDE DEF of
<1>3. PICK i \in DOMAIN lines : c \in of(i)
  BY <1>2
<1>4. of(i) = {<<kind, i, k>> : k \in 1 .. SpanCount(lines[i])[kind]}
  <2> DEFINE spans(x) == {<<x, i, k>> : k \in 1 .. SpanCount(lines[i])[x]}
  <2>1. IsLine(lines[i])
    BY ReadingIs
  <2>2. of(i) = UNION {spans(x) : x \in Range(<<kind>>)}
    BY <1>1, <2>1, LineCandidatesAre DEF of
  <2> HIDE DEF spans
  <2>3. of(i) = spans(kind)
    BY <1>1, <2>2
  <2> QED BY <2>3 DEF spans
<1> QED BY <1>3, <1>4

LEMMA ChosenIs ==
    ASSUME NEW lines, IsReading(lines), NEW kind \in KindSet,
           NEW c \in Range(Candidates(lines, <<kind>>)) \cup ABSTENTIONS
    PROVE  IsSpan(Chosen(c, lines), kind, lines)
<1>1. CASE c \in ABSTENTIONS
  BY <1>1 DEF Chosen, IsSpan
<1>2. CASE c \notin ABSTENTIONS
  <2>0. PICK i \in DOMAIN lines : \E k \in 1 .. SpanCount(lines[i])[kind] : c = <<kind, i, k>>
    BY <1>2, CandidatesOfKind
  <2>1. PICK k \in 1 .. SpanCount(lines[i])[kind] : c = <<kind, i, k>>
    BY <2>0
  <2>2. Chosen(c, lines) = Field(SpanValue(c, lines), {i})
    BY <1>2, <2>1 DEF Chosen
  <2> QED BY <2>1, <2>2 DEF IsSpan
<1> QED BY <1>1, <1>2

LEMMA AssembledIs ==
    ASSUME NEW lines, NEW said
    PROVE  LET raw == Assembled(lines, said)
           IN  /\ IsInvoice(raw)
               /\ \A f \in Scalars \ {"document_type"} :
                     raw[f] = IF f \in Shared(said) \cup Undated(said, lines) THEN Gap ELSE Chosen(said[<<f, 0>>], lines)
               /\ raw.rows = [i \in LinesOf(Word("line"), said, lines) |-> RowOf(i, {"quantity", "amount"}, said, lines)]
<1> DEFINE raw == Assembled(lines, said)
           rows(role, fields) == [i \in LinesOf(role, said, lines) |-> RowOf(i, fields, said, lines)]
           scalar(f) == IF f \in Shared(said) \cup Undated(said, lines) THEN Gap ELSE Chosen(said[<<f, 0>>], lines)
           names == Scalars \cup {"rows", "taxes", "issues"}
           type == Field(said[<<"document_type", 0>>][1], DOMAIN lines)
           lined == rows(Word("line"), {"quantity", "amount"})
           taxed == rows(Word("tax"), {"rate", "amount"})
<1>1. PICK issues : raw = [f \in names |->
            IF f = "document_type" THEN type ELSE IF f = "rows" THEN lined
            ELSE IF f = "taxes" THEN taxed ELSE IF f = "issues" THEN issues ELSE scalar(f)]
  BY Zenon DEF Assembled
<1> HIDE DEF raw, scalar, lined, taxed, type
<1>2. IsInvoice(raw)
  BY <1>1 DEF IsInvoice
<1>3. ASSUME NEW f \in Scalars \ {"document_type"} PROVE raw[f] = scalar(f)
  BY <1>1 DEF Scalars
<1>4. raw.rows = lined
  BY <1>1
<1> QED BY <1>2, <1>3, <1>4 DEF raw, scalar, lined

LEMMA InterpretedIs ==
    ASSUME NEW turn
    PROVE  Interpreted(turn) = NormalizeInvoice(Assembled(text, turn.answers))
<1> DEFINE raw == Assembled(text, turn.answers)
<1> HIDE DEF raw
<1>1. {NormalizeInvoice(r) : r \in {raw}} = {NormalizeInvoice(raw)}
  OBVIOUS
<1> QED BY <1>1 DEF Interpreted, raw

(* What was chosen for a field with spans of one kind. *)
LEMMA ScalarIsSpan ==
    ASSUME NEW lines, IsReading(lines), NEW said,
           \A q \in Range(FirstQuestions(lines)) : q \in DOMAIN said,
           \A q \in DOMAIN said : said[q] \in Range(OptionsOf(q, lines)) \cup ABSTENTIONS,
           NEW f \in Fields, NEW kind \in KindSet, FieldKinds[f] = <<kind>>
    PROVE  IsSpan(Assembled(lines, said)[f], kind, lines)
<1>1. <<f, 0>> \in DOMAIN said
  <2>1. lines \in Seq(Range(lines))
    BY DEF IsReading
  <2>2. <<f, 0>> \in Range(FirstQuestions(lines))
    BY <2>1, FirstQuestionsAre, FieldsAre
  <2> QED BY <2>2
<1>2. OptionsOf(<<f, 0>>, lines) = Candidates(lines, <<kind>>)
  BY DEF OptionsOf, Fields
<1>3. said[<<f, 0>>] \in Range(Candidates(lines, <<kind>>)) \cup ABSTENTIONS
  BY <1>1, <1>2
<1>4. IsSpan(Chosen(said[<<f, 0>>], lines), kind, lines)
  BY <1>3, ChosenIs
<1>5. Assembled(lines, said)[f] = Gap \/ Assembled(lines, said)[f] = Chosen(said[<<f, 0>>], lines)
  <2>1. f \in Scalars \ {"document_type"}
    BY DEF Fields, Scalars
  <2> QED BY <2>1, AssembledIs
<1> QED BY <1>4, <1>5 DEF IsSpan

LEMMA RowIsSpan ==
    ASSUME NEW lines, IsReading(lines), NEW said,
           \A i \in DOMAIN lines : \A f \in Range(RowFields(said[<<"role", i>>])) : <<f, i>> \in DOMAIN said,
           \A q \in DOMAIN said : said[q] \in Range(OptionsOf(q, lines)) \cup ABSTENTIONS,
           NEW i \in DOMAIN Assembled(lines, said).rows
    PROVE  LET row == Assembled(lines, said).rows[i]
           IN  /\ row = [f \in {"quantity", "amount"} |-> row[f]]
               /\ IsSpan(row.amount, "amount", lines)
<1> DEFINE row == Assembled(lines, said).rows[i]
           amounts == LineCandidates(lines[i], i, <<"amount">>)
           legible == Legible(lines, i)
           c == said[<<"amount", i>>]
<1>1. i \in DOMAIN lines /\ said[<<"role", i>>] = Word("line") /\ row = RowOf(i, {"quantity", "amount"}, said, lines)
  <2> DEFINE rows == Assembled(lines, said).rows
             typed == LinesOf(Word("line"), said, lines)
  <2>1. rows = [j \in typed |-> RowOf(j, {"quantity", "amount"}, said, lines)]
    BY AssembledIs
  <2>2. \A j \in typed : j \in DOMAIN lines /\ said[<<"role", j>>] = Word("line")
    BY DEF LinesOf
  <2> HIDE DEF typed
  <2> QED BY <2>1, <2>2
<1>2. row = [f \in {"quantity", "amount"} |-> row[f]] /\ row.amount = Chosen(c, lines)
  BY <1>1 DEF RowOf
<1>3. "amount" \in Range(RowFields(said[<<"role", i>>]))
  <2>1. \A x, y, z : z \in Range(<<x, y, z>>)
    BY DEF Range
  <2> QED BY <1>1, <2>1 DEF RowFields
<1>4. c \in Range(OptionsOf(<<"amount", i>>, lines)) \cup ABSTENTIONS
  BY <1>1, <1>3
<1>5. IsLine(lines[i]) /\ i # 0
  BY <1>1, ReadingIs
<1>6. OptionsOf(<<"amount", i>>, lines) = Only(amounts, legible)
  BY <1>5 DEF OptionsOf
<1>7. "amount" \in KindSet /\ <<"amount">> \in Seq(KindSet) /\ Range(<<"amount">>) = {"amount"}
  BY KindsAre DEF Range
<1>8. Range(amounts) = {<<"amount", i, k>> : k \in 1 .. SpanCount(lines[i])["amount"]} /\ amounts \in Seq(Range(amounts))
  <2> DEFINE spans(x) == {<<x, i, k>> : k \in 1 .. SpanCount(lines[i])[x]}
  <2>1. Range(amounts) = UNION {spans(x) : x \in Range(<<"amount">>)} /\ amounts \in Seq(Range(amounts))
    BY <1>5, <1>7, LineCandidatesAre
  <2> HIDE DEF spans, amounts
  <2>2. Range(amounts) = spans("amount")
    BY <1>7, <2>1
  <2> QED BY <2>1, <2>2 DEF spans
<1> HIDE DEF amounts, legible, row, c
<1>9. Range(Only(amounts, legible)) \subseteq Range(amounts)
  BY <1>8, OnlyIs
<1>10. CASE c \in ABSTENTIONS
  BY <1>2, <1>10 DEF Chosen, IsSpan, row
<1>11. CASE c \notin ABSTENTIONS
  <2>1. PICK k \in 1 .. SpanCount(lines[i])["amount"] : c = <<"amount", i, k>>
    BY <1>4, <1>6, <1>8, <1>9, <1>11
  <2>2. Chosen(c, lines) = Field(SpanValue(c, lines), {i})
    BY <1>11, <2>1 DEF Chosen
  <2>3. IsSpan(row.amount, "amount", lines)
    BY <1>1, <1>2, <2>1, <2>2 DEF IsSpan
  <2> QED BY <1>2, <2>3 DEF row
<1> QED BY <1>10, <1>11

LEMMA AmountReads ==
    ASSUME NEW lines, IsReading(lines), NEW field, IsSpan(field, "amount", lines),
           NEW read, read = Rewritten(field, NormalizeDecimal(field.v)), read.v # NULL
    PROVE  \E n \in Numbers(lines, read.at) : NormalizeDecimal(n.w) = read.v
<1>1. field # Gap
  BY DEF Gap, Field, Rewritten
<1>2. PICK i \in DOMAIN lines : \E k \in 1 .. SpanCount(lines[i])["amount"] :
              field = Field(SpanValue(<<"amount", i, k>>, lines), {i})
  BY <1>1 DEF IsSpan
<1>3. PICK k \in 1 .. SpanCount(lines[i])["amount"] : field = Field(SpanValue(<<"amount", i, k>>, lines), {i})
  BY <1>2
<1>4. k \in DOMAIN lines[i].numbers
  <2>1. IsLine(lines[i])
    BY ReadingIs
  <2>2. SpanCount(lines[i])["amount"] = Len(lines[i].numbers)
    BY DEF SpanCount
  <2>3. DOMAIN lines[i].numbers = 1 .. Len(lines[i].numbers)
    BY <2>1, LenProperties DEF IsLine
  <2> QED BY <2>2, <2>3
<1> DEFINE n == lines[i].numbers[k]
           c == <<"amount", i, k>>
<1>5. c[1] = "amount" /\ c[2] = i /\ c[3] = k
  OBVIOUS
<1> HIDE DEF c
<1>6. SpanValue(c, lines) = n.w
  BY <1>5, SpanValueIs
<1>7. field = Field(n.w, {i})
  BY <1>3, <1>6 DEF c
<1>8. n \in Numbers(lines, {i})
  BY <1>4 DEF Numbers, Range
<1> HIDE DEF n
<1>9. read.at = {i} /\ read.v = NormalizeDecimal(n.w)
  BY <1>7 DEF Rewritten, Field
<1> QED BY <1>8, <1>9

LEMMA DateReads ==
    ASSUME NEW lines, IsReading(lines), NEW field, IsSpan(field, "date", lines),
           NEW read, read = Rewritten(field, NormalizeDate(field.v)), NEW i \in read.at
    PROVE  \E k \in DOMAIN lines[i].dates : NormalizeDate(lines[i].dates[k]) = read.v
<1>1. read.at = field.at
  BY DEF Rewritten, IsSpan, Field, Gap
<1>2. field # Gap
  BY <1>1 DEF Gap, Field
<1>3. PICK j \in DOMAIN lines : \E k \in 1 .. SpanCount(lines[j])["date"] :
              field = Field(SpanValue(<<"date", j, k>>, lines), {j})
  BY <1>2 DEF IsSpan
<1>4. PICK k \in 1 .. SpanCount(lines[j])["date"] : field = Field(SpanValue(<<"date", j, k>>, lines), {j})
  BY <1>3
<1>5. i = j
  BY <1>1, <1>4 DEF Field
<1>6. k \in DOMAIN lines[i].dates /\ lines[i].dates[k] \in WrittenDates
  <2>1. IsLine(lines[i])
    BY <1>5, ReadingIs
  <2>2. SpanCount(lines[i])["date"] = Len(lines[i].dates)
    BY DEF SpanCount
  <2>3. DOMAIN lines[i].dates = 1 .. Len(lines[i].dates)
    BY <2>1, LenProperties DEF IsLine
  <2> DEFINE dates == lines[i].dates
  <2>4. k \in 1 .. Len(dates) /\ dates \in Seq(WrittenDates)
    BY <1>4, <1>5, <2>1, <2>2 DEF IsLine
  <2> HIDE DEF dates
  <2>5. dates[k] \in WrittenDates
    BY <2>4, ElementOfSeq
  <2> QED BY <2>3, <2>4, <2>5 DEF dates
<1> DEFINE d == lines[i].dates[k]
           c == <<"date", i, k>>
<1>7. c[1] = "date" /\ c[2] = i /\ c[3] = k
  OBVIOUS
<1> HIDE DEF c
<1>8. SpanValue(c, lines) = d
  BY <1>7, SpanValueIs
<1>9. field = Field(d, {i})
  BY <1>4, <1>5, <1>8 DEF c
<1>10. d # NULL
  BY <1>6, NullAssumption
<1> HIDE DEF d
<1>11. read.v = NormalizeDate(d)
  BY <1>9, <1>10 DEF Rewritten, Field
<1> QED BY <1>6, <1>11 DEF d

LEMMA TaxReads ==
    ASSUME NEW lines, IsReading(lines), NEW field, IsSpan(field, "tax_id", lines), NEW i \in field.at
    PROVE  field.v \in Range(lines[i].taxes)
<1>1. field # Gap
  BY DEF Gap, Field
<1>2. PICK j \in DOMAIN lines : \E k \in 1 .. SpanCount(lines[j])["tax_id"] :
              field = Field(SpanValue(<<"tax_id", j, k>>, lines), {j})
  BY <1>1 DEF IsSpan
<1>3. PICK k \in 1 .. SpanCount(lines[j])["tax_id"] : field = Field(SpanValue(<<"tax_id", j, k>>, lines), {j})
  BY <1>2
<1>4. i = j
  BY <1>3 DEF Field
<1>5. k \in DOMAIN lines[i].taxes
  <2>1. IsLine(lines[i])
    BY <1>4, ReadingIs
  <2>2. SpanCount(lines[i])["tax_id"] = Len(lines[i].taxes)
    BY DEF SpanCount
  <2> DEFINE taxes == lines[i].taxes
  <2>3. k \in 1 .. Len(taxes) /\ taxes \in Seq(Range(taxes))
    BY <1>3, <1>4, <2>1, <2>2 DEF IsLine
  <2> HIDE DEF taxes
  <2>4. DOMAIN taxes = 1 .. Len(taxes)
    BY <2>3, LenProperties
  <2> QED BY <2>3, <2>4 DEF taxes
<1> DEFINE c == <<"tax_id", i, k>>
<1>6. c[1] = "tax_id" /\ c[2] = i /\ c[3] = k
  OBVIOUS
<1> HIDE DEF c
<1>7. SpanValue(c, lines) = lines[i].taxes[k]
  BY <1>6, SpanValueIs
<1>8. field.v = lines[i].taxes[k]
  BY <1>3, <1>4, <1>7 DEF c, Field
<1> QED BY <1>5, <1>8 DEF Range

LEMMA AccountReads ==
    ASSUME NEW lines, IsReading(lines), NEW field, IsSpan(field, "iban", lines), NEW i \in field.at
    PROVE  field.v \in lines[i].ibans
<1>1. field # Gap
  BY DEF Gap, Field
<1>2. PICK j \in DOMAIN lines : \E k \in 1 .. SpanCount(lines[j])["iban"] :
              field = Field(SpanValue(<<"iban", j, k>>, lines), {j})
  BY <1>1 DEF IsSpan
<1>3. PICK k \in 1 .. SpanCount(lines[j])["iban"] : field = Field(SpanValue(<<"iban", j, k>>, lines), {j})
  BY <1>2
<1>4. i = j
  BY <1>3 DEF Field
<1> DEFINE ibans == lines[i].ibans
           c == <<"iban", i, k>>
<1>5. IsFiniteSet(ibans) /\ k \in 1 .. Cardinality(ibans)
  <2>1. IsLine(lines[i])
    BY <1>4, ReadingIs
  <2>2. SpanCount(lines[i])["iban"] = Cardinality(lines[i].ibans)
    BY DEF SpanCount
  <2> QED BY <1>3, <1>4, <2>1, <2>2 DEF IsLine
<1>6. c[1] = "iban" /\ c[2] = i /\ c[3] = k
  OBVIOUS
<1> HIDE DEF c
<1>7. SpanValue(c, lines) = SetToSeq(ibans)[k]
  BY <1>6, SpanValueIs
<1> HIDE DEF ibans
<1>8. SetToSeq(ibans)[k] \in ibans
  BY <1>5, SetToSeqIs
<1> QED BY <1>3, <1>4, <1>7, <1>8 DEF c, Field, ibans

(* An invoice that was chosen says what the lines it links to say. *)
LEMMA ChosenReads ==
    ASSUME IsReading(text), Offered(heard, text), Over,
           NEW read, read = Interpreted(Conversation(text, heard)),
           NEW said, said = Conversation(text, heard).answers
    PROVE  /\ said[<<"supplier_tax", 0>>] # said[<<"customer_tax", 0>>] \/ read.supplier_tax.v = NULL
           /\ \A i \in read.iban.at : read.iban.v \in text[i].ibans
           /\ \A i \in read.supplier_tax.at : read.supplier_tax.v \in Range(text[i].taxes)
           /\ \A i \in read.issue_date.at :
                 \E k \in DOMAIN text[i].dates : NormalizeDate(text[i].dates[k]) = read.issue_date.v
           /\ \A f \in {read.taxable_base, read.total} \cup {read.rows[k].amount : k \in DOMAIN read.rows} :
                 f.v # NULL => \E n \in Numbers(text, f.at) : NormalizeDecimal(n.w) = f.v
<1> DEFINE raw == Assembled(text, said)
<1>1. /\ \A q \in Range(FirstQuestions(text)) : q \in DOMAIN said
      /\ \A i \in DOMAIN text : \A f \in Range(RowFields(said[<<"role", i>>])) : <<f, i>> \in DOMAIN said
      /\ \A q \in DOMAIN said : said[q] \in Range(OptionsOf(q, text)) \cup ABSTENTIONS
  BY ConversationOffers DEF Over
<1>2. read = NormalizeInvoice(raw)
  BY InterpretedIs
<1>3. IsInvoice(raw)
  BY AssembledIs
<1>4. ASSUME NEW f \in Fields, NEW kind \in KindSet, FieldKinds[f] = <<kind>> PROVE IsSpan(raw[f], kind, text)
  BY <1>1, <1>4, ScalarIsSpan
<1>5. /\ IsSpan(raw.iban, "iban", text) /\ IsSpan(raw.supplier_tax, "tax_id", text)
      /\ IsSpan(raw.issue_date, "date", text)
      /\ IsSpan(raw.taxable_base, "amount", text) /\ IsSpan(raw.total, "amount", text)
  <2>1. /\ "iban" \in Fields /\ "supplier_tax" \in Fields /\ "issue_date" \in Fields /\ "taxable_base" \in Fields
        /\ "total" \in Fields
    BY DEF Fields
  <2>2. "iban" \in KindSet /\ "tax_id" \in KindSet /\ "date" \in KindSet /\ "amount" \in KindSet
    BY KindsAre
  <2>3. /\ FieldKinds["iban"] = <<"iban">> /\ FieldKinds["supplier_tax"] = <<"tax_id">>
        /\ FieldKinds["issue_date"] = <<"date">> /\ FieldKinds["taxable_base"] = <<"amount">>
        /\ FieldKinds["total"] = <<"amount">>
    BY DEF FieldKinds
  <2> HIDE DEF raw
  <2> QED BY <1>4, <2>1, <2>2, <2>3
<1>6. said[<<"supplier_tax", 0>>] = said[<<"customer_tax", 0>>] => raw.supplier_tax = Gap
  <2>1. "supplier_tax" \in Scalars \ {"document_type"}
    BY DEF Scalars
  <2>2. raw.supplier_tax = IF "supplier_tax" \in Shared(said) \cup Undated(said, text) THEN Gap
                           ELSE Chosen(said[<<"supplier_tax", 0>>], text)
    BY <2>1, AssembledIs
  <2>3. said[<<"supplier_tax", 0>>] \in ABSTENTIONS => Chosen(said[<<"supplier_tax", 0>>], text) = Gap
    BY DEF Chosen
  <2>4. said[<<"supplier_tax", 0>>] = said[<<"customer_tax", 0>>] /\ said[<<"supplier_tax", 0>>] \notin ABSTENTIONS
          => "supplier_tax" \in Shared(said)
    BY DEF Shared, Same
  <2> HIDE DEF raw
  <2> QED BY <2>2, <2>3, <2>4
<1>7. ASSUME NEW k \in DOMAIN raw.rows
      PROVE  /\ raw.rows[k] = [f \in {"quantity", "amount"} |-> raw.rows[k][f]]
             /\ IsSpan(raw.rows[k].amount, "amount", text)
  BY <1>1, RowIsSpan
<1> HIDE DEF raw
<1>8. /\ read.iban = raw.iban /\ read.supplier_tax = raw.supplier_tax
      /\ read.issue_date = Rewritten(raw.issue_date, NormalizeDate(raw.issue_date.v))
      /\ read.taxable_base = Rewritten(raw.taxable_base, NormalizeDecimal(raw.taxable_base.v))
      /\ read.total = Rewritten(raw.total, NormalizeDecimal(raw.total.v))
      /\ read.rows = [i \in DOMAIN raw.rows |-> RereadRow(raw.rows[i])]
  <2>1. "iban" \in UNTOUCHED /\ "supplier_tax" \in UNTOUCHED
    BY DEF UNTOUCHED, Scalars
  <2>2. read.issue_date = Rewritten(raw.issue_date, NormalizeDate(raw.issue_date.v))
    BY <1>2, <1>3, NormalizedIs
  <2>3. \A f \in UNTOUCHED : NormalizeInvoice(raw)[f] = raw[f]
    BY <1>3, NormalizedIs, Zenon
  <2>4. \A f \in {"taxable_base", "total"} : read[f] = Rewritten(raw[f], NormalizeDecimal(raw[f].v))
    BY <1>2, <1>3, NormalizedIs
  <2>5. \A f \in {"rows", "taxes"} : NormalizeInvoice(raw)[f] = [i \in DOMAIN raw[f] |-> RereadRow(raw[f][i])]
    BY <1>3, NormalizedIs, Zenon
  <2> QED BY <1>2, <2>1, <2>2, <2>3, <2>4, <2>5
<1>9. ASSUME NEW k \in DOMAIN read.rows
      PROVE  /\ k \in DOMAIN raw.rows
             /\ read.rows[k].amount = Rewritten(raw.rows[k].amount, NormalizeDecimal(raw.rows[k].amount.v))
  <2> DEFINE row == raw.rows[k]
  <2>1. k \in DOMAIN raw.rows /\ read.rows[k] = RereadRow(row)
    BY <1>8
  <2>2. row = [f \in {"quantity", "amount"} |-> row[f]]
    BY <1>7, <2>1
  <2> HIDE DEF row
  <2>3. RereadRow(row).amount = Rewritten(row.amount, NormalizeDecimal(row.amount.v))
    BY <2>2 DEF RereadRow, Reread, Rewritten
  <2> QED BY <2>1, <2>3 DEF row
<1>10. ASSUME NEW f \in {read.taxable_base, read.total} \cup {read.rows[k].amount : k \in DOMAIN read.rows}, f.v # NULL
       PROVE  \E n \in Numbers(text, f.at) : NormalizeDecimal(n.w) = f.v
  <2> DEFINE Rereads(field) == IsSpan(field, "amount", text) /\ f = Rewritten(field, NormalizeDecimal(field.v))
  <2>1. PICK field : Rereads(field)
    <3>1. CASE f = read.taxable_base
      <4>1. Rereads(raw.taxable_base)
        BY <1>5, <1>8, <3>1
      <4> HIDE DEF Rereads
      <4> QED BY <4>1
    <3>2. CASE f = read.total
      <4>1. Rereads(raw.total)
        BY <1>5, <1>8, <3>2
      <4> HIDE DEF Rereads
      <4> QED BY <4>1
    <3>3. CASE \E k \in DOMAIN read.rows : f = read.rows[k].amount
      <4>1. PICK k \in DOMAIN read.rows : f = read.rows[k].amount
        BY <3>3
      <4>2. Rereads(raw.rows[k].amount)
        BY <1>7, <1>9, <4>1
      <4> HIDE DEF Rereads
      <4> QED BY <4>2
    <3> QED BY <1>10, <3>1, <3>2, <3>3
  <2> QED BY <1>10, <2>1, AmountReads
<1>11. \A i \in read.issue_date.at :
          \E k \in DOMAIN text[i].dates : NormalizeDate(text[i].dates[k]) = read.issue_date.v
  <2>1. IsSpan(raw.issue_date, "date", text)
    BY <1>5
  <2>2. read.issue_date = Rewritten(raw.issue_date, NormalizeDate(raw.issue_date.v))
    BY <1>8
  <2> DEFINE field == raw.issue_date
             date  == read.issue_date
  <2>3. IsSpan(field, "date", text) /\ date = Rewritten(field, NormalizeDate(field.v))
    BY <2>1, <2>2
  <2> HIDE DEF field, date
  <2>4. \A i \in date.at : \E k \in DOMAIN text[i].dates : NormalizeDate(text[i].dates[k]) = date.v
    BY <2>3, DateReads
  <2> QED BY <2>4 DEF date
<1>12. /\ \A i \in read.iban.at : read.iban.v \in text[i].ibans
       /\ \A i \in read.supplier_tax.at : read.supplier_tax.v \in Range(text[i].taxes)
  BY <1>5, <1>8, AccountReads, TaxReads
<1>13. said[<<"supplier_tax", 0>>] # said[<<"customer_tax", 0>>] \/ read.supplier_tax.v = NULL
  BY <1>6, <1>8 DEF Gap, Field
<1> QED BY <1>10, <1>11, <1>12, <1>13

(* Whatever the model chooses, a completed interpretation names two parties where *)
(* two places were chosen, and every identifier, date and amount of it is the     *)
(* text of a line that it links to (candidates.py, run of jev.py).                *)
THEOREM EveryChoiceIsASpan == SpecCascade => []ChoicesAreSpans
<1>1. Readings /\ JevOffers => ChoicesAreSpans
  <2> SUFFICES ASSUME Readings, JevOffers, mode.interpreter = "jev", Published PROVE ChoicesAreSpans
    BY DEF ChoicesAreSpans, Published
  <2>1. IsReading(text) /\ Offered(heard, text) /\ Over /\ outcome.invoice = Interpreted(Conversation(text, heard))
    BY DEF Readings, JevOffers, Result
  <2> QED BY <2>1, ChosenReads DEF ChoicesAreSpans
<1> QED BY <1>1, ReadingsStayReadings, JevKeepsOffering, PTL

-----------------------------------------------------------------------------
(* The rounds of a question *)

(* A question can be played: it has options, and what it heard was offered. *)
Playable(q, lines, answers) ==
    /\ q = <<q[1], q[2]>> /\ Offered(answers, lines)
    /\ OptionsOf(q, lines) \in Seq(Range(OptionsOf(q, lines)))

(* A round whose groups are all heard leaves fewer options and what was said in it. *)
LEMMA RoundIs ==
    ASSUME NEW lines, NEW q, NEW answers, Playable(q, lines, answers),
           NEW left \in Lefts(OptionsOf(q, lines)), ~ Few(q, left), Open(q, left, answers) = {}
    PROVE  LET next == NextRound(q, left, answers)
           IN  /\ next.round = left.round + 1
               /\ Len(next.entries) <= Len(left.entries) - 1
               /\ left.said \subseteq next.said
               /\ \A g \in Groups(q, left) :
                     /\ {GroupId(q, left, g)} \in DOMAIN answers
                     /\ answers[{GroupId(q, left, g)}][GroupId(q, left, g)] \in ABSTENTIONS
                          => answers[{GroupId(q, left, g)}][GroupId(q, left, g)] \in next.said
<1> DEFINE groups  == Groups(q, left)
           choices == [g \in groups |-> answers[{GroupId(q, left, g)}][GroupId(q, left, g)]]
           won     == Range(choices) \ ABSTENTIONS
           next    == [round |-> left.round + 1, entries |-> Only(choices, won),
                       said |-> left.said \cup (Range(choices) \cap ABSTENTIONS)]
           W == Width(q)
           L == Len(left.entries)
<1>1. NextRound(q, left, answers) = next
  BY DEF NextRound
<1>2. PICK n \in Nat : groups = 1 .. n /\ n * W <= L + W - 1
  BY GroupsAre
<1>3. choices \in Seq(Range(choices)) /\ Len(choices) = n
  <2>1. choices = [g \in 1 .. n |-> choices[g]]
    BY <1>2
  <2> HIDE DEF choices
  <2> QED BY <2>1, Sequence
<1>4. Len(Only(choices, won)) <= n
  <2> HIDE DEF choices, won
  <2> QED BY <1>3, OnlyIs
<1>5. W \in Nat /\ W >= 2 /\ L \in Nat /\ L > W
  BY WidthIs, LenProperties DEF Lefts, Few
<1> HIDE DEF W, L
<1>6. n <= L - 1
  <2> SUFFICES ASSUME n >= L PROVE FALSE
    BY <1>5
  <2>1. L * W <= n * W
    BY <1>5
  <2>2. L * W <= L + W - 1
    <3> DEFINE x == L * W
               y == n * W
    <3>1. x \in Nat /\ y \in Nat /\ x <= y /\ y <= L + W - 1
      BY <1>2, <1>5, <2>1
    <3> HIDE DEF x, y
    <3>2. x <= L + W - 1
      BY <1>5, <3>1
    <3> QED BY <3>2 DEF x
  <2> DEFINE a == L - 1
             b == W - 1
  <2>3. a \in Nat /\ b \in Nat /\ a >= 1 /\ b >= 1 /\ L = a + 1 /\ W = b + 1
    BY <1>5
  <2> HIDE DEF a, b
  <2>4. (a + 1) * (b + 1) = a * b + a + b + 1
    BY <2>3
  <2>5. a * b >= 1
    BY <2>3
  <2> DEFINE c == a * b
  <2>6. c \in Nat /\ c >= 1 /\ c + a + b + 1 <= a + b + 1
    BY <2>2, <2>3, <2>4, <2>5
  <2> HIDE DEF c
  <2> QED BY <2>3, <2>6
<1>7. Len(Only(choices, won)) \in Nat
  <2> HIDE DEF choices, won
  <2>1. Only(choices, won) \in Seq(won)
    BY <1>3, OnlyIs
  <2> QED BY <2>1, LenProperties
<1>8. Len(next.entries) <= L - 1
  <2> DEFINE len == Len(Only(choices, won))
  <2>1. len \in Nat /\ len <= n
    BY <1>4, <1>7
  <2>2. next.entries = Only(choices, won)
    OBVIOUS
  <2> HIDE DEF len, next
  <2>3. len <= L - 1
    BY <1>5, <1>6, <2>1
  <2> QED BY <2>2, <2>3 DEF len
<1>9. ASSUME NEW g \in groups
      PROVE  /\ {GroupId(q, left, g)} \in DOMAIN answers
             /\ choices[g] \in ABSTENTIONS => choices[g] \in next.said
  <2>1. {GroupId(q, left, g)} \in DOMAIN answers
    BY DEF Open
  <2>2. choices[g] \in Range(choices)
    <3> HIDE DEF groups
    <3> QED BY DEF Range
  <2> HIDE DEF choices
  <2> QED BY <2>1, <2>2
<1>10. next.round = left.round + 1 /\ left.said \subseteq next.said
  OBVIOUS
<1>11. \A g \in groups : choices[g] = answers[{GroupId(q, left, g)}][GroupId(q, left, g)]
  OBVIOUS
<1> HIDE DEF next, choices
<1> QED BY <1>1, <1>8, <1>9, <1>10, <1>11 DEF L

(* The rounds end: few options are left, or a group is open. *)
LEMMA PlayEnds ==
    ASSUME NEW lines, NEW q, NEW answers, Playable(q, lines, answers)
    PROVE  LET last == Rounds(q, OptionsOf(q, lines), answers)
           IN  Few(q, last) \/ Open(q, last, answers) # {}
<1> DEFINE options == OptionsOf(q, lines)
           play == Play(q, options, answers)
           W == Width(q)
           L == Len(options)
           F == Fuel(q, options)
           T == {n \in Nat : Few(q, play[n]) \/ Open(q, play[n], answers) # {} \/ Len(play[n].entries) <= L - n}
<1>1. /\ play[0] = [round |-> 1, entries |-> options, said |-> {}]
      /\ \A n \in Nat : play[n + 1] = NextRound(q, play[n], answers)
      /\ \A n \in Nat : play[n] \in Lefts(options)
      /\ Rounds(q, options, answers) = play[F] /\ F \in Nat
  BY PlayIs DEF Playable
<1>2. L \in Nat /\ W \in Nat
  BY WidthIs, LenProperties DEF Playable
<1> HIDE DEF play
<1>3. 0 \in T
  <2>1. play[0].entries = options
    BY <1>1
  <2>2. Len(play[0].entries) <= L - 0
    <3> HIDE DEF options
    <3> QED BY <1>2, <2>1
  <2> QED BY <2>2
<1>4. ASSUME NEW n \in Nat, n \in T PROVE n + 1 \in T
  <2>1. CASE Few(q, play[n]) \/ Open(q, play[n], answers) # {}
    <3>1. play[n + 1] = play[n]
      BY <1>1, <2>1 DEF NextRound
    <3> QED BY <2>1, <3>1
  <2>2. CASE ~ Few(q, play[n]) /\ Open(q, play[n], answers) = {}
    <3> DEFINE a == Len(play[n].entries)
               b == Len(play[n + 1].entries)
    <3>1. a <= L - n
      BY <1>4, <2>2
    <3>2. play[n] \in Lefts(options) /\ play[n + 1] \in Lefts(options) /\ n + 1 \in Nat
      BY <1>1
    <3>3. a \in Nat /\ b \in Nat
      BY <3>2, LenProperties DEF Lefts
    <3>4. Len(NextRound(q, play[n], answers).entries) <= Len(play[n].entries) - 1
      <4> HIDE DEF T
      <4> QED BY <2>2, <3>2, RoundIs
    <3>6. b <= a - 1
      BY <1>1, <3>4
    <3> HIDE DEF a, b, L
    <3>5. b <= L - (n + 1)
      BY <1>2, <3>1, <3>3, <3>6
    <3> QED BY <3>2, <3>5 DEF b
  <2> QED BY <2>1, <2>2
<1>5. F \in T
  <2> HIDE DEF T, F
  <2> QED BY <1>1, <1>3, <1>4, Induction
<1>6. CASE Len(play[F].entries) <= L - F
  <2>1. L <= W => Len(play[F].entries) <= L
    BY <1>2, <1>6 DEF Fuel
  <2>2. L > W => F = L - W
    BY DEF Fuel
  <2> DEFINE a == Len(play[F].entries)
  <2>3. a \in Nat
    BY <1>1, LenProperties DEF Lefts
  <2>4. a <= W
    <3> HIDE DEF a, L, W, F
    <3>1. CASE L <= W
      BY <1>2, <2>1, <2>3, <3>1 DEF a
    <3>2. CASE L > W
      <4>1. a <= L - F /\ F = L - W
        BY <1>6, <2>2, <3>2 DEF a
      <4> QED BY <1>2, <2>3, <3>2, <4>1
    <3> QED BY <1>2, <3>1, <3>2
  <2> QED BY <1>1, <2>4 DEF Few
<1> QED BY <1>1, <1>5, <1>6

(* Where a question has few options left, or waits for an answer, its rounds stay. *)
LEMMA PlayStays ==
    ASSUME NEW lines, NEW q, NEW answers, Playable(q, lines, answers), NEW n \in Nat, NEW d \in Nat,
           LET left == Play(q, OptionsOf(q, lines), answers)[n] IN Few(q, left) \/ Open(q, left, answers) # {}
    PROVE  Play(q, OptionsOf(q, lines), answers)[n + d] = Play(q, OptionsOf(q, lines), answers)[n]
<1> DEFINE play == Play(q, OptionsOf(q, lines), answers)
           T == {k \in Nat : play[n + k] = play[n]}
<1>1. /\ play[0] = [round |-> 1, entries |-> OptionsOf(q, lines), said |-> {}]
      /\ \A k \in Nat : play[k + 1] = NextRound(q, play[k], answers)
      /\ \A k \in Nat : play[k] \in Lefts(OptionsOf(q, lines))
      /\ Rounds(q, OptionsOf(q, lines), answers) = play[Fuel(q, OptionsOf(q, lines))]
      /\ Fuel(q, OptionsOf(q, lines)) \in Nat
  BY PlayIs DEF Playable
<1>2. NextRound(q, play[n], answers) = play[n]
  BY DEF NextRound
<1> HIDE DEF play
<1>3. 0 \in T
  <2>1. n + 0 = n
    OBVIOUS
  <2>2. play[n + 0] = play[n]
    BY <2>1
  <2> QED BY <2>2
<1>4. ASSUME NEW k \in Nat, k \in T PROVE k + 1 \in T
  <2>1. play[n + k] = play[n] /\ n + k \in Nat /\ n + (k + 1) = (n + k) + 1
    BY <1>4
  <2>2. play[(n + k) + 1] = NextRound(q, play[n + k], answers)
    BY <1>1, <2>1
  <2> QED BY <1>2, <2>1, <2>2
<1>5. d \in T
  <2> HIDE DEF T
  <2> QED BY <1>3, <1>4, Induction
<1> QED BY <1>5 DEF play

(* What was said in a round is kept, and rounds are counted. *)
LEMMA PlayGathers ==
    ASSUME NEW lines, NEW q, NEW answers, Playable(q, lines, answers), NEW n \in Nat, NEW d \in Nat
    PROVE  LET play == Play(q, OptionsOf(q, lines), answers)
           IN  play[n].said \subseteq play[n + d].said /\ play[n].round <= play[n + d].round
<1> DEFINE play == Play(q, OptionsOf(q, lines), answers)
           T == {k \in Nat : play[n].said \subseteq play[n + k].said /\ play[n].round <= play[n + k].round}
<1>1. /\ play[0] = [round |-> 1, entries |-> OptionsOf(q, lines), said |-> {}]
      /\ \A k \in Nat : play[k + 1] = NextRound(q, play[k], answers)
      /\ \A k \in Nat : play[k] \in Lefts(OptionsOf(q, lines))
      /\ Rounds(q, OptionsOf(q, lines), answers) = play[Fuel(q, OptionsOf(q, lines))]
      /\ Fuel(q, OptionsOf(q, lines)) \in Nat
  BY PlayIs DEF Playable
<1>2. \A left \in Lefts(OptionsOf(q, lines)) :
         left.said \subseteq NextRound(q, left, answers).said /\ left.round <= NextRound(q, left, answers).round
  BY DEF NextRound, Lefts
<1> HIDE DEF play
<1>0. \A k \in Nat : play[k].round \in Nat
  BY <1>1 DEF Lefts
<1>3. 0 \in T
  <2>1. n + 0 = n
    OBVIOUS
  <2>2. play[n + 0] = play[n]
    BY <2>1
  <2>3. play[n].said \subseteq play[n + 0].said /\ play[n].round <= play[n + 0].round
    BY <1>0, <2>2
  <2> QED BY <2>3
<1>4. ASSUME NEW k \in Nat, k \in T PROVE k + 1 \in T
  <2>1. n + k \in Nat /\ n + (k + 1) = (n + k) + 1 /\ k + 1 \in Nat
    OBVIOUS
  <2> DEFINE m == n + k
  <2>2. play[n].said \subseteq play[m].said /\ play[n].round <= play[m].round
    BY <1>4
  <2> HIDE DEF m
  <2>3. play[m].said \subseteq play[m + 1].said /\ play[m].round <= play[m + 1].round
    BY <1>1, <1>2, <2>1 DEF m
  <2>4. m \in Nat /\ m + 1 \in Nat
    BY <2>1 DEF m
  <2>5. play[n].round <= play[m + 1].round
    BY <1>0, <2>2, <2>3, <2>4
  <2>6. play[n].said \subseteq play[m + 1].said
    BY <2>2, <2>3
  <2> QED BY <2>1, <2>5, <2>6 DEF m
<1>5. d \in T
  <2> HIDE DEF T
  <2> QED BY <1>3, <1>4, Induction
<1> QED BY <1>5 DEF play

(* Of a question that was played to the end every group is heard, and a group *)
(* without a choice is not forgotten.                                        *)
LEMMA PlayHears ==
    ASSUME NEW lines, NEW q, NEW answers, Playable(q, lines, answers), NEW n \in Nat,
           Few(q, Rounds(q, OptionsOf(q, lines), answers)),
           ~ Few(q, Play(q, OptionsOf(q, lines), answers)[n]),
           NEW g \in Groups(q, Play(q, OptionsOf(q, lines), answers)[n])
    PROVE  LET last == Rounds(q, OptionsOf(q, lines), answers)
               id == GroupId(q, Play(q, OptionsOf(q, lines), answers)[n], g)
           IN  /\ {id} \in DOMAIN answers
               /\ answers[{id}][id] \in ABSTENTIONS => answers[{id}][id] \in last.said /\ last.round # 1
<1> DEFINE options == OptionsOf(q, lines)
           play == Play(q, options, answers)
           F == Fuel(q, options)
           last == Rounds(q, options, answers)
           id == GroupId(q, play[n], g)
<1>0. /\ play[0] = [round |-> 1, entries |-> options, said |-> {}]
      /\ \A k \in Nat : play[k + 1] = NextRound(q, play[k], answers)
      /\ \A k \in Nat : play[k] \in Lefts(options)
      /\ last = play[F] /\ F \in Nat
  BY PlayIs DEF Playable
<1>1. /\ \A k \in Nat : play[k + 1] = NextRound(q, play[k], answers) /\ play[k] \in Lefts(options)
      /\ last = play[F] /\ F \in Nat
  <2> HIDE DEF play, F, last, options
  <2> QED BY <1>0
<1>2. ASSUME F <= n PROVE FALSE
  <2> DEFINE d == n - F
  <2>1. d \in Nat /\ F + d = n
    BY <1>1, <1>2
  <2>2. play[F + d] = play[F]
    <3> HIDE DEF d
    <3>1. Few(q, play[F])
      <4> HIDE DEF play, F, d
      <4> QED BY <1>1 DEF last
    <3>2. \A k, e \in Nat : Few(q, play[k]) => play[k + e] = play[k]
      BY PlayStays
    <3> HIDE DEF F, play
    <3> QED BY <1>1, <2>1, <3>1, <3>2
  <2> HIDE DEF d, F, play, last
  <2> QED BY <1>1, <2>1, <2>2 DEF last, play
<1> DEFINE d == F - (n + 1)
<1>3. d \in Nat /\ F = (n + 1) + d /\ n + 1 \in Nat
  BY <1>1, <1>2
<1>4. Open(q, play[n], answers) = {}
  <2> SUFFICES ASSUME Open(q, play[n], answers) # {} PROVE FALSE
    OBVIOUS
  <2> DEFINE e == d + 1
  <2>1. e \in Nat /\ n + e = F
    BY <1>1, <1>3
  <2>2. play[n + e] = play[n]
    <3> HIDE DEF e
    <3> QED BY <2>1, PlayStays
  <2> HIDE DEF e, F, play, last
  <2> QED BY <1>1, <2>1, <2>2 DEF last, play
<1>5. play[n] \in Lefts(OptionsOf(q, lines))
  BY <1>1
<1> DEFINE next == NextRound(q, play[n], answers)
<1>6. /\ next.round = play[n].round + 1 /\ {id} \in DOMAIN answers
      /\ answers[{id}][id] \in ABSTENTIONS => answers[{id}][id] \in next.said
  <2> DEFINE left == play[n]
  <2>1. left \in Lefts(OptionsOf(q, lines)) /\ ~ Few(q, left) /\ Open(q, left, answers) = {} /\ g \in Groups(q, left)
    BY <1>4, <1>5
  <2> HIDE DEF left
  <2>2. LET after == NextRound(q, left, answers)
        IN  /\ after.round = left.round + 1
            /\ {GroupId(q, left, g)} \in DOMAIN answers
            /\ answers[{GroupId(q, left, g)}][GroupId(q, left, g)] \in ABSTENTIONS
                  => answers[{GroupId(q, left, g)}][GroupId(q, left, g)] \in after.said
    BY <2>1, RoundIs
  <2> QED BY <2>2 DEF left
<1>7. play[n + 1].said \subseteq last.said /\ play[n + 1].round <= last.round
  <2> DEFINE m == n + 1
  <2>1. play[m].said \subseteq play[m + d].said /\ play[m].round <= play[m + d].round
    <3> HIDE DEF m, d
    <3> QED BY <1>3, PlayGathers DEF m
  <2> QED BY <1>1, <1>3, <2>1
<1>8. last.round # 1
  <2>1. play[n + 1].round = play[n].round + 1 /\ play[n].round \in Nat /\ play[n].round >= 1 /\ last.round \in Nat
    <3> HIDE DEF play, F, last, d, next
    <3>1. play[n].round \in Nat /\ play[n].round # 0
      BY <1>5 DEF Lefts
    <3>2. last.round \in Nat
      BY <1>1 DEF Lefts
    <3>3. play[n + 1] = next
      BY <1>1 DEF next
    <3> QED BY <1>6, <3>1, <3>2, <3>3
  <2> HIDE DEF play, F, last, d
  <2> QED BY <1>7, <2>1
<1> HIDE DEF play, F, last, d, id, next
<1>9. play[n + 1] = next
  BY <1>1 DEF next
<1> QED BY <1>6, <1>7, <1>8, <1>9 DEF play, last, id

(* Further answers never undo what the ones before led to. *)
Extends(more, answers) ==
    DOMAIN answers \subseteq DOMAIN more /\ \A r \in DOMAIN answers : more[r] = answers[r]

LEMMA NextRoundGrows ==
    ASSUME NEW q, NEW left, NEW answers, NEW more, Extends(more, answers), Open(q, left, answers) = {}
    PROVE  /\ NextRound(q, left, more) = NextRound(q, left, answers)
           /\ Open(q, left, more) = {}
<1>1. CASE Few(q, left)
  BY <1>1 DEF Open, NextRound
<1>2. CASE ~ Few(q, left)
  <2>1. \A g \in Groups(q, left) : {GroupId(q, left, g)} \in DOMAIN answers
    BY <1>2 DEF Open
  <2>2. \A g \in Groups(q, left) : /\ {GroupId(q, left, g)} \in DOMAIN more
                                   /\ more[{GroupId(q, left, g)}] = answers[{GroupId(q, left, g)}]
    BY <2>1 DEF Extends
  <2>3. Open(q, left, more) = {}
    BY <2>2 DEF Open
  <2> DEFINE choices(a) == [g \in Groups(q, left) |-> a[{GroupId(q, left, g)}][GroupId(q, left, g)]]
             next(c) == [round |-> left.round + 1, entries |-> Only(c, Range(c) \ ABSTENTIONS),
                         said |-> left.said \cup (Range(c) \cap ABSTENTIONS)]
  <2>4. choices(more) = choices(answers)
    BY <2>2
  <2>5. \A a : Open(q, left, a) = {} => NextRound(q, left, a) = next(choices(a))
    BY <1>2 DEF NextRound
  <2> HIDE DEF choices, next
  <2> QED BY <2>3, <2>4, <2>5
<1> QED BY <1>1, <1>2

LEMMA PlayGrows ==
    ASSUME NEW lines, NEW q, NEW answers, Playable(q, lines, answers), NEW more, Playable(q, lines, more),
           Extends(more, answers), NEW n \in Nat
    PROVE  LET before == Play(q, OptionsOf(q, lines), answers)
               after  == Play(q, OptionsOf(q, lines), more)
           IN  \/ after[n] = before[n]
               \/ Open(q, before[n], answers) # {} /\ \E k \in Nat : after[k] = before[n]
<1> DEFINE before == Play(q, OptionsOf(q, lines), answers)
           after  == Play(q, OptionsOf(q, lines), more)
           Kept(k) == \/ after[k] = before[k]
                      \/ Open(q, before[k], answers) # {} /\ \E m \in Nat : after[m] = before[k]
           T == {k \in Nat : Kept(k)}
<1>1. /\ before[0] = [round |-> 1, entries |-> OptionsOf(q, lines), said |-> {}]
      /\ \A k \in Nat : before[k + 1] = NextRound(q, before[k], answers)
      /\ \A k \in Nat : before[k] \in Lefts(OptionsOf(q, lines))
      /\ Rounds(q, OptionsOf(q, lines), answers) = before[Fuel(q, OptionsOf(q, lines))]
      /\ Fuel(q, OptionsOf(q, lines)) \in Nat
  BY PlayIs DEF Playable
<1>2. /\ after[0] = [round |-> 1, entries |-> OptionsOf(q, lines), said |-> {}]
      /\ \A k \in Nat : after[k + 1] = NextRound(q, after[k], more)
      /\ \A k \in Nat : after[k] \in Lefts(OptionsOf(q, lines))
      /\ Rounds(q, OptionsOf(q, lines), more) = after[Fuel(q, OptionsOf(q, lines))]
      /\ Fuel(q, OptionsOf(q, lines)) \in Nat
  BY PlayIs DEF Playable
<1>0. \A left : Open(q, left, answers) = {} => NextRound(q, left, more) = NextRound(q, left, answers)
  BY NextRoundGrows
<1> HIDE DEF before, after
<1>3. 0 \in T
  BY <1>1, <1>2
<1>4. ASSUME NEW k \in Nat, k \in T PROVE k + 1 \in T
  <2>0. k + 1 \in Nat /\ Kept(k)
    BY <1>4
  <2> HIDE DEF T
  <2>1. CASE Open(q, before[k], answers) = {}
    <3>1. after[k] = before[k]
      BY <2>0, <2>1
    <3>2. NextRound(q, before[k], more) = NextRound(q, before[k], answers)
      BY <1>0, <2>1
    <3>3. after[k + 1] = before[k + 1]
      BY <1>1, <1>2, <3>1, <3>2
    <3> QED BY <2>0, <3>3 DEF T
  <2>2. CASE Open(q, before[k], answers) # {}
    <3>1. before[k + 1] = before[k]
      BY <1>1, <2>2 DEF NextRound
    <3>2. \E m \in Nat : after[m] = before[k]
      BY <2>0
    <3>3. Kept(k + 1)
      BY <2>2, <3>1, <3>2
    <3> QED BY <2>0, <3>3 DEF T
  <2> QED BY <2>1, <2>2
<1>5. n \in T
  <2> HIDE DEF T
  <2> QED BY <1>3, <1>4, Induction
<1> QED BY <1>5 DEF before, after

(* A question that waits for nothing is over. *)
LEMMA RoundsGrow ==
    ASSUME NEW lines, NEW q, NEW answers, Playable(q, lines, answers), NEW more, Playable(q, lines, more),
           Extends(more, answers), Open(q, Rounds(q, OptionsOf(q, lines), answers), answers) = {}
    PROVE  Rounds(q, OptionsOf(q, lines), more) = Rounds(q, OptionsOf(q, lines), answers)
<1> DEFINE before == Play(q, OptionsOf(q, lines), answers)
           after  == Play(q, OptionsOf(q, lines), more)
           F == Fuel(q, OptionsOf(q, lines))
<1>1. Rounds(q, OptionsOf(q, lines), answers) = before[F] /\ Rounds(q, OptionsOf(q, lines), more) = after[F] /\ F \in Nat
  BY PlayIs DEF Playable
<1>2. \/ after[F] = before[F]
      \/ Open(q, before[F], answers) # {} /\ \E k \in Nat : after[k] = before[F]
  <2> HIDE DEF F
  <2> QED BY <1>1, PlayGrows
<1> HIDE DEF before, after, F
<1> QED BY <1>1, <1>2

(* The requests that the questions lead to: the groups of their rounds, and the *)
(* batches of what is left once no question waits for a group.                 *)
Askable(questions, lines) ==
    /\ IsReading(lines) /\ questions \in Seq(Range(questions))
    /\ \A q \in Range(questions) : IsQuestion(q, lines)
Grouped(r, questions, lines, answers) ==
    \E q \in Range(questions), n \in Nat :
        /\ ~ Few(q, Play(q, OptionsOf(q, lines), answers)[n])
        /\ \E g \in Groups(q, Play(q, OptionsOf(q, lines), answers)[n]) :
              r = {GroupId(q, Play(q, OptionsOf(q, lines), answers)[n], g)}
Settled(questions, lines, answers) ==
    \A q \in Range(questions) : Open(q, Rounds(q, OptionsOf(q, lines), answers), answers) = {}
Batched(r, questions, lines, answers) ==
    /\ Settled(questions, lines, answers)
    /\ \E b \in BatchesOf(Played(questions, lines, answers), Places(questions)) : r = Ids(b)
Visited(r, questions, lines, answers) ==
    Grouped(r, questions, lines, answers) \/ Batched(r, questions, lines, answers)

LEMMA QuestionPlays ==
    ASSUME NEW questions, NEW lines, Askable(questions, lines), NEW answers, Offered(answers, lines),
           NEW q \in Range(questions)
    PROVE  Playable(q, lines, answers)
BY QuestionIs, OptionsAre DEF Askable, Playable

LEMMA PlayedGrows ==
    ASSUME NEW questions, NEW lines, Askable(questions, lines), NEW answers, Offered(answers, lines),
           NEW more, Offered(more, lines), Extends(more, answers), Settled(questions, lines, answers)
    PROVE  /\ Played(questions, lines, more) = Played(questions, lines, answers)
           /\ Settled(questions, lines, more)
<1>1. ASSUME NEW q \in Range(questions)
      PROVE  /\ Rounds(q, OptionsOf(q, lines), more) = Rounds(q, OptionsOf(q, lines), answers)
             /\ Open(q, Rounds(q, OptionsOf(q, lines), more), more) = {}
  <2>1. Playable(q, lines, answers) /\ Playable(q, lines, more)
    BY QuestionPlays
  <2>2. Open(q, Rounds(q, OptionsOf(q, lines), answers), answers) = {}
    BY DEF Settled
  <2>3. Rounds(q, OptionsOf(q, lines), more) = Rounds(q, OptionsOf(q, lines), answers)
    BY <2>1, <2>2, RoundsGrow
  <2> DEFINE left == Rounds(q, OptionsOf(q, lines), answers)
  <2>4. Open(q, left, answers) = {}
    BY <2>2
  <2> HIDE DEF left
  <2>5. Open(q, left, more) = {}
    BY <2>4, NextRoundGrows
  <2> QED BY <2>3, <2>5 DEF left
<1>2. Settled(questions, lines, more)
  BY <1>1 DEF Settled
<1>3. Played(questions, lines, more) = Played(questions, lines, answers)
  BY <1>1 DEF Played
<1> QED BY <1>2, <1>3

LEMMA VisitedStays ==
    ASSUME NEW questions, NEW lines, Askable(questions, lines), NEW answers, Offered(answers, lines),
           NEW more, Offered(more, lines), Extends(more, answers), NEW r, Visited(r, questions, lines, answers)
    PROVE  Visited(r, questions, lines, more)
<1>1. CASE Grouped(r, questions, lines, answers)
  <2> DEFINE play(a, q) == Play(q, OptionsOf(q, lines), a)
  <2>1. PICK q \in Range(questions) : \E n \in Nat :
                /\ ~ Few(q, play(answers, q)[n])
                /\ \E g \in Groups(q, play(answers, q)[n]) : r = {GroupId(q, play(answers, q)[n], g)}
    BY <1>1 DEF Grouped
  <2>2. PICK n \in Nat :
                /\ ~ Few(q, play(answers, q)[n])
                /\ \E g \in Groups(q, play(answers, q)[n]) : r = {GroupId(q, play(answers, q)[n], g)}
    BY <2>1
  <2>3. \E k \in Nat : play(more, q)[k] = play(answers, q)[n]
    <3>1. Playable(q, lines, answers) /\ Playable(q, lines, more)
      BY QuestionPlays
    <3>2. \/ play(more, q)[n] = play(answers, q)[n]
          \/ Open(q, play(answers, q)[n], answers) # {} /\ \E k \in Nat : play(more, q)[k] = play(answers, q)[n]
      BY <3>1, PlayGrows
    <3> HIDE DEF play
    <3> QED BY <3>2
  <2>4. PICK k \in Nat : play(more, q)[k] = play(answers, q)[n]
    BY <2>3
  <2>5. /\ ~ Few(q, play(more, q)[k])
        /\ \E g \in Groups(q, play(more, q)[k]) : r = {GroupId(q, play(more, q)[k], g)}
    <3> HIDE DEF play
    <3> QED BY <2>2, <2>4
  <2>6. Grouped(r, questions, lines, more)
    BY <2>5 DEF Grouped
  <2> QED BY <2>6 DEF Visited
<1>2. CASE Batched(r, questions, lines, answers)
  <2>1. /\ Played(questions, lines, more) = Played(questions, lines, answers)
        /\ Settled(questions, lines, more)
    BY <1>2, PlayedGrows DEF Batched
  <2>2. Batched(r, questions, lines, more)
    BY <1>2, <2>1 DEF Batched
  <2> QED BY <2>2 DEF Visited
<1> QED BY <1>1, <1>2 DEF Visited

(* A turn either sends one of those requests or has heard them all. *)
LEMMA AskedEnds ==
    ASSUME NEW questions, NEW lines, Askable(questions, lines), NEW answers, Offered(answers, lines)
    PROVE  LET turn == Asked(questions, lines, answers)
               left == Played(questions, lines, answers)
               batches == BatchesOf(left, Places(questions))
           IN  /\ turn.next # <<>> => Visited(DOMAIN turn.next, questions, lines, answers)
               /\ turn.next = <<>> =>
                     /\ Settled(questions, lines, answers)
                     /\ \A b \in batches : Ids(b) \in DOMAIN answers
                     /\ turn.answers = [q \in Range(questions) |-> Said(q, left, batches, answers)]
<1> DEFINE left == Played(questions, lines, answers)
           place == Places(questions)
           batches == BatchesOf(left, place)
           playing == {q \in DOMAIN left : Open(q, left[q], answers) # {}}
           unsent  == {b \in batches : Ids(b) \notin DOMAIN answers}
           f == First(playing, place)
           b == Sending(unsent, place)
           next == NextRequest(left, place, batches, answers)
           turn == Asked(questions, lines, answers)
<1>1. /\ IsReading(lines) /\ questions \in Seq(Range(questions)) /\ \A q \in Range(questions) : IsQuestion(q, lines)
  BY DEF Askable
<1>2. DOMAIN left = Range(questions) /\ LeftOf(left, lines)
  BY <1>1, PlayedIs
<1>3. \A q \in Range(questions) : left[q] = Rounds(q, OptionsOf(q, lines), answers)
  BY DEF Played
<1>4. \A q \in DOMAIN left : place[q] \in Nat
  BY <1>1, <1>2, PlacesAre
<1>5. turn = [next |-> next,
              answers |-> IF next # <<>> THEN <<>> ELSE [q \in DOMAIN left |-> Said(q, left, batches, answers)]]
  <2> HIDE DEF left, place
  <2> QED BY AskedIs DEF Sent, left, place
<1>6. next = IF playing # {} THEN GroupRequest(f, left[f], answers)
             ELSE IF unsent # {} THEN BatchRequest(b, left) ELSE <<>>
  BY DEF NextRequest, Sending
<1>7. Settled(questions, lines, answers) <=> playing = {}
  BY <1>2, <1>3 DEF Settled
<1>8. CASE playing # {}
  <2>1. f \in playing
    <3>1. \A q \in playing : place[q] \in Nat
      BY <1>4
    <3> HIDE DEF playing
    <3> QED BY <1>8, <3>1, FirstIs
  <2>2. f \in Range(questions) /\ Open(f, left[f], answers) # {}
    BY <1>2, <2>1
  <2> HIDE DEF f, playing
  <2> DEFINE g == Min(Open(f, left[f], answers))
  <2>3. DOMAIN GroupRequest(f, left[f], answers) = {GroupId(f, left[f], g)}
    BY DEF GroupRequest
  <2>4. g \in Groups(f, left[f]) /\ ~ Few(f, left[f])
    <3>1. g \in Open(f, left[f], answers)
      BY <2>2, OpenIs
    <3> QED BY <3>1 DEF Open
  <2>5. PICK n \in Nat : left[f] = Play(f, OptionsOf(f, lines), answers)[n]
    <3>1. Playable(f, lines, answers)
      BY <2>2, QuestionPlays
    <3>2. /\ Rounds(f, OptionsOf(f, lines), answers) = Play(f, OptionsOf(f, lines), answers)[Fuel(f, OptionsOf(f, lines))]
          /\ Fuel(f, OptionsOf(f, lines)) \in Nat
      BY <3>1, PlayIs DEF Playable
    <3> QED BY <1>3, <2>2, <3>2
  <2> DEFINE r == {GroupId(f, left[f], g)}
  <2>6. Grouped(r, questions, lines, answers)
    <3> HIDE DEF g, left
    <3>1. /\ ~ Few(f, Play(f, OptionsOf(f, lines), answers)[n])
          /\ g \in Groups(f, Play(f, OptionsOf(f, lines), answers)[n])
          /\ r = {GroupId(f, Play(f, OptionsOf(f, lines), answers)[n], g)}
      BY <2>4, <2>5
    <3> HIDE DEF r
    <3> QED BY <2>2, <3>1 DEF Grouped
  <2> DEFINE request == GroupRequest(f, left[f], answers)
  <2>7. DOMAIN request = r /\ r # {}
    BY <2>3
  <2> HIDE DEF request, r, g, left, unsent, b, batches
  <2>8. next = request
    BY <1>6, <1>8 DEF request
  <2>9. next # <<>>
    BY <2>7, <2>8
  <2> HIDE DEF next
  <2>10. turn.next = next
    BY <1>5
  <2> QED BY <2>6, <2>7, <2>8, <2>9, <2>10 DEF Visited, turn
<1>9. CASE playing = {} /\ unsent # {}
  <2>1. b \in unsent
    <3>1. unsent = {c \in BatchesOf(left, place) : Ids(c) \notin DOMAIN answers}
      OBVIOUS
    <3> HIDE DEF unsent, left, place
    <3> QED BY <1>4, <1>9, <3>1, UnsentIs
  <2>2. b \in batches
    BY <2>1
  <2>3. b # {}
    <3> DEFINE S == {q \in DOMAIN left : Undecided(left[q]) = NULL}
    <3>1. b \in Packed(S, place)
      BY <2>2 DEF BatchesOf
    <3> HIDE DEF S, b
    <3> QED BY <3>1, PackedIs
  <2> HIDE DEF playing, unsent, b
  <2>4. next = [id \in Ids(b) |-> left[<<id[1], id[2]>>].entries]
    BY <1>6, <1>9 DEF BatchRequest
  <2>5. next # <<>> /\ DOMAIN next = Ids(b)
    BY <2>3, <2>4 DEF Ids
  <2> HIDE DEF next
  <2>6. Batched(DOMAIN next, questions, lines, answers)
    BY <1>7, <1>9, <2>2, <2>5 DEF Batched, left, place
  <2>7. turn.next = next
    BY <1>5
  <2> QED BY <2>5, <2>6, <2>7 DEF Visited, turn
<1>10. CASE playing = {} /\ unsent = {}
  <2>1. next = <<>>
    BY <1>6, <1>10
  <2>2. \A c \in batches : Ids(c) \in DOMAIN answers
    BY <1>10
  <2>3. Settled(questions, lines, answers)
    BY <1>7, <1>10
  <2> HIDE DEF next, playing, unsent, b
  <2>4. turn.next = <<>> /\ turn.answers = [q \in Range(questions) |-> Said(q, left, batches, answers)]
    BY <1>2, <1>5, <2>1
  <2> HIDE DEF turn, left, batches, place
  <2> QED BY <2>2, <2>3, <2>4 DEF turn, left, batches, place
<1> QED BY <1>8, <1>9, <1>10

(* What questions came to stays when more is heard. *)
LEMMA AskedStays ==
    ASSUME NEW questions, NEW lines, Askable(questions, lines), NEW answers, Offered(answers, lines),
           NEW more, Offered(more, lines), Extends(more, answers), Asked(questions, lines, answers).next = <<>>
    PROVE  /\ Asked(questions, lines, more).next = <<>>
           /\ Asked(questions, lines, more).answers = Asked(questions, lines, answers).answers
<1> DEFINE left == Played(questions, lines, answers)
           place == Places(questions)
           batches == BatchesOf(left, place)
<1>1. /\ Settled(questions, lines, answers)
      /\ \A b \in batches : Ids(b) \in DOMAIN answers
      /\ Asked(questions, lines, answers).answers = [q \in Range(questions) |-> Said(q, left, batches, answers)]
  BY AskedEnds
<1>2. Played(questions, lines, more) = left /\ Settled(questions, lines, more)
  BY <1>1, PlayedGrows
<1>3. DOMAIN left = Range(questions) /\ LeftOf(left, lines) /\ \A q \in DOMAIN left : place[q] \in Nat
  BY PlayedIs, PlacesAre DEF Askable
<1>4. IsFiniteSet(DOMAIN left)
  <2> DEFINE n == Len(questions)
  <2>0. questions \in Seq(Range(questions))
    BY DEF Askable
  <2>1. Range(questions) = {questions[i] : i \in 1 .. n}
    BY <2>0, RangeEquality
  <2>2. n \in Nat /\ DOMAIN questions = 1 .. n /\ questions = [i \in 1 .. n |-> questions[i]]
    BY <2>0, LenProperties
  <2> HIDE DEF n
  <2>3. IsFiniteSet({questions[i] : i \in 1 .. n})
    BY <2>2, IndexedIsFinite
  <2> QED BY <1>3, <2>1, <2>3
<1>5. \A b \in batches : Ids(b) \in DOMAIN more /\ more[Ids(b)] = answers[Ids(b)]
  BY <1>1 DEF Extends
<1>6. Asked(questions, lines, more)
        = [next |-> NextRequest(left, place, batches, more),
           answers |-> IF NextRequest(left, place, batches, more) # <<>> THEN <<>>
                       ELSE [q \in DOMAIN left |-> Said(q, left, batches, more)]]
  <2> HIDE DEF left, place
  <2>1. Asked(questions, lines, more) = Sent(left, place, more)
    BY <1>2, AskedIs DEF place
  <2> QED BY <2>1 DEF Sent
<1>7. NextRequest(left, place, batches, more) = <<>>
  <2>1. {q \in DOMAIN left : Open(q, left[q], more) # {}} = {}
    <3>1. \A q \in Range(questions) : left[q] = Rounds(q, OptionsOf(q, lines), more)
      BY <1>2 DEF Played
    <3> HIDE DEF left
    <3> QED BY <1>2, <1>3, <3>1 DEF Settled
  <2>2. {b \in batches : Ids(b) \notin DOMAIN more} = {}
    BY <1>5
  <2> HIDE DEF left, place, batches
  <2> QED BY <2>1, <2>2 DEF NextRequest
<1>8. ASSUME NEW q \in Range(questions) PROVE Said(q, left, batches, more) = Said(q, left, batches, answers)
  <2>1. CASE Undecided(left[q]) # NULL
    <3> HIDE DEF left, batches
    <3> QED BY <2>1 DEF Said
  <2>2. CASE Undecided(left[q]) = NULL
    <3> DEFINE S == {r \in DOMAIN left : Undecided(left[r]) = NULL}
               b == CHOOSE c \in batches : q \in c
    <3>1. q \in S /\ batches = Packed(S, place) /\ S \subseteq DOMAIN left
      BY <1>3, <2>2 DEF BatchesOf
    <3> HIDE DEF S, left, place, batches
    <3>2. IsFiniteSet(S) /\ \A r \in S : place[r] \in Nat
      BY <1>3, <1>4, <3>1, FS_Subset
    <3>3. UNION batches = S
      BY <3>1, <3>2, PackedCovers
    <3>4. b \in batches
      BY <3>1, <3>3
    <3>5. \A a : Said(q, left, batches, a) = a[Ids(b)][Final(q)]
      BY <2>2 DEF Said
    <3>6. more[Ids(b)] = answers[Ids(b)]
      BY <1>5, <3>4
    <3> HIDE DEF b
    <3> QED BY <3>5, <3>6
  <2> QED BY <2>1, <2>2
<1> HIDE DEF left, place, batches
<1>9. [q \in DOMAIN left |-> Said(q, left, batches, more)] = [q \in Range(questions) |-> Said(q, left, batches, answers)]
  BY <1>3, <1>8
<1> QED BY <1>1, <1>6, <1>7, <1>9

(* What was asked of a model in a conversation. *)
Known(r, lines, answers) ==
    LET first == Asked(FirstQuestions(lines), lines, answers)
    IN  \/ Visited(r, FirstQuestions(lines), lines, answers)
        \/ first.next = <<>> /\ Visited(r, RowQuestions(lines, first.answers), lines, answers)

LEMMA FirstAreAskable ==
    ASSUME NEW lines, IsReading(lines)
    PROVE  Askable(FirstQuestions(lines), lines)
<1>1. lines \in Seq(Range(lines))
  BY DEF IsReading
<1> QED BY <1>1, FirstQuestionsAre, QuestionsAre DEF Askable

LEMMA RowsAreAskable ==
    ASSUME NEW lines, IsReading(lines), NEW answers
    PROVE  Askable(RowQuestions(lines, answers), lines)
<1>1. lines \in Seq(Range(lines))
  BY DEF IsReading
<1> QED BY <1>1, RowQuestionsAre, QuestionsAre DEF Askable

LEMMA KnownStays ==
    ASSUME NEW lines, IsReading(lines), NEW answers, Offered(answers, lines),
           NEW more, Offered(more, lines), Extends(more, answers), NEW r, Known(r, lines, answers)
    PROVE  Known(r, lines, more)
<1> DEFINE asked == FirstQuestions(lines)
           first == Asked(asked, lines, answers)
<1>1. Askable(asked, lines)
  BY FirstAreAskable
<1>2. CASE Visited(r, asked, lines, answers)
  <2> HIDE DEF asked
  <2>1. Visited(r, asked, lines, more)
    BY <1>1, <1>2, VisitedStays
  <2> QED BY <2>1 DEF Known, asked
<1>3. CASE first.next = <<>> /\ Visited(r, RowQuestions(lines, first.answers), lines, answers)
  <2> DEFINE rows == RowQuestions(lines, first.answers)
  <2>1. Asked(asked, lines, more).next = <<>> /\ Asked(asked, lines, more).answers = first.answers
    <3> HIDE DEF asked
    <3> QED BY <1>1, <1>3, AskedStays
  <2>2. Askable(rows, lines)
    <3> HIDE DEF first
    <3> QED BY RowsAreAskable
  <2>3. Visited(r, rows, lines, more)
    <3> HIDE DEF rows
    <3> QED BY <1>3, <2>2, VisitedStays DEF rows
  <2> HIDE DEF first
  <2> QED BY <2>1, <2>3 DEF Known, asked
<1> QED BY <1>2, <1>3 DEF Known

LEMMA NextIsKnown ==
    ASSUME NEW lines, IsReading(lines), NEW answers, Offered(answers, lines),
           Conversation(lines, answers).next # <<>>
    PROVE  Known(DOMAIN Conversation(lines, answers).next, lines, answers)
<1> DEFINE asked == FirstQuestions(lines)
           first == Asked(asked, lines, answers)
           questions == RowQuestions(lines, first.answers)
           rows == Asked(questions, lines, answers)
<1>1. CASE first.next # <<>>
  <2>1. Conversation(lines, answers) = first
    BY <1>1, ConversationIs DEF Continued
  <2>2. Askable(asked, lines)
    BY FirstAreAskable
  <2>3. Visited(DOMAIN first.next, asked, lines, answers)
    <3> HIDE DEF asked
    <3> QED BY <1>1, <2>2, AskedEnds
  <2> HIDE DEF first
  <2> QED BY <2>1, <2>3 DEF Known
<1>2. CASE first.next = <<>>
  <2>1. Conversation(lines, answers).next = rows.next
    BY <1>2, ConversationIs DEF Continued
  <2>2. Askable(questions, lines)
    <3> HIDE DEF first
    <3> QED BY RowsAreAskable
  <2>3. Visited(DOMAIN rows.next, questions, lines, answers)
    <3> HIDE DEF questions
    <3> QED BY <2>1, <2>2, AskedEnds
  <2> HIDE DEF rows
  <2> QED BY <1>2, <2>1, <2>3 DEF Known
<1> QED BY <1>1, <1>2

-----------------------------------------------------------------------------
(* Doubts *)

(* A doubt that was heard: an abstention of a group counts if it is ambiguous. *)
Unsure(choice, id) == choice = AMBIGUOUS \/ (id[3] = 0 /\ choice = NONE_OF_THE_ABOVE)

LEMMA VisitedIsSaid ==
    ASSUME NEW questions, NEW lines, Askable(questions, lines), NEW answers, Offered(answers, lines),
           Asked(questions, lines, answers).next = <<>>, NEW r, Visited(r, questions, lines, answers),
           NEW id \in r, Unsure(answers[r][id], id)
    PROVE  \E q \in Range(questions) :
              q = <<id[1], id[2]>> /\ Asked(questions, lines, answers).answers[q] = answers[r][id]
<1> DEFINE left == Played(questions, lines, answers)
           place == Places(questions)
           batches == BatchesOf(left, place)
           said == Asked(questions, lines, answers).answers
<1>1. /\ Settled(questions, lines, answers)
      /\ \A b \in batches : Ids(b) \in DOMAIN answers
      /\ said = [q \in Range(questions) |-> Said(q, left, batches, answers)]
  BY AskedEnds
<1>2. DOMAIN left = Range(questions) /\ LeftOf(left, lines)
  BY PlayedIs DEF Askable
<1>3. \A q \in Range(questions) : left[q] = Rounds(q, OptionsOf(q, lines), answers) /\ IsQuestion(q, lines)
  BY DEF Played, Askable
<1>4. AMBIGUOUS \in ABSTENTIONS /\ NULL \notin ABSTENTIONS
  BY ChoiceAssumption DEF ABSTENTIONS
<1> HIDE DEF left, place, batches, said
<1>5. CASE Grouped(r, questions, lines, answers)
  <2> DEFINE play(q) == Play(q, OptionsOf(q, lines), answers)
  <2>1. PICK q \in Range(questions) : \E n \in Nat :
                /\ ~ Few(q, play(q)[n])
                /\ \E g \in Groups(q, play(q)[n]) : r = {GroupId(q, play(q)[n], g)}
    BY <1>5 DEF Grouped
  <2>2. PICK n \in Nat :
                /\ ~ Few(q, play(q)[n])
                /\ \E g \in Groups(q, play(q)[n]) : r = {GroupId(q, play(q)[n], g)}
    BY <2>1
  <2>3. PICK g \in Groups(q, play(q)[n]) : r = {GroupId(q, play(q)[n], g)}
    BY <2>2
  <2> DEFINE last == Rounds(q, OptionsOf(q, lines), answers)
  <2>4. Playable(q, lines, answers)
    BY QuestionPlays
  <2>5. Few(q, last)
    <3>1. Open(q, last, answers) = {}
      BY <1>1 DEF Settled
    <3> QED BY <2>4, <3>1, PlayEnds
  <2>6. answers[{GroupId(q, play(q)[n], g)}][GroupId(q, play(q)[n], g)] \in ABSTENTIONS
           => answers[{GroupId(q, play(q)[n], g)}][GroupId(q, play(q)[n], g)] \in last.said /\ last.round # 1
    BY <2>2, <2>4, <2>5, PlayHears
  <2>7. id = GroupId(q, play(q)[n], g) /\ r = {id}
    BY <2>3
  <2>8. play(q)[n] \in Lefts(OptionsOf(q, lines))
    BY <2>4, PlayIs DEF Playable
  <2> HIDE DEF play, last
  <2>9. id[3] # 0 /\ <<id[1], id[2]>> = q
    <3>1. play(q)[n].round # 0
      BY <2>8 DEF Lefts
    <3>2. id = <<q[1], q[2], play(q)[n].round, g>>
      BY <2>7 DEF GroupId
    <3>3. q = <<q[1], q[2]>>
      BY <2>4 DEF Playable
    <3> QED BY <3>1, <3>2, <3>3
  <2>10. answers[r][id] = AMBIGUOUS
    BY <2>9 DEF Unsure
  <2>11. AMBIGUOUS \in last.said /\ last.round # 1
    BY <1>4, <2>6, <2>7, <2>10
  <2>12. Undecided(left[q]) = AMBIGUOUS
    BY <1>3, <2>11 DEF Undecided, last
  <2>13. Said(q, left, batches, answers) = AMBIGUOUS
    BY <1>4, <2>12 DEF Said
  <2> QED BY <1>1, <2>9, <2>10, <2>13 DEF said
<1>6. CASE Batched(r, questions, lines, answers)
  <2>1. PICK b \in batches : r = Ids(b)
    BY <1>6 DEF Batched, left, place, batches
  <2> DEFINE S == {q \in DOMAIN left : Undecided(left[q]) = NULL}
  <2>2. b \subseteq S /\ Apart(batches)
    <3>1. batches = Packed(S, place)
      BY DEF BatchesOf, batches
    <3> HIDE DEF S
    <3> QED BY <3>1, PackedIs
  <2>3. PICK q \in b : id = Final(q)
    BY <2>1 DEF Ids
  <2>4. q \in Range(questions) /\ Undecided(left[q]) = NULL /\ <<id[1], id[2]>> = q
    BY <1>2, <1>3, <2>2, <2>3, QuestionIs
  <2> HIDE DEF S
  <2> DEFINE c == CHOOSE c \in batches : q \in c
  <2>5. c = b
    <3>1. c \in batches /\ q \in c
      OBVIOUS
    <3> HIDE DEF c
    <3> QED BY <2>2, <3>1 DEF Apart
  <2>6. Said(q, left, batches, answers) = answers[Ids(c)][Final(q)]
    BY <2>4 DEF Said
  <2> HIDE DEF c
  <2> QED BY <1>1, <2>1, <2>3, <2>4, <2>5, <2>6 DEF said
<1> QED BY <1>5, <1>6 DEF Visited

(* Types and roles leave no room for doubt but a role that is ambiguous. *)
LEMMA WordsDiffer ==
    /\ AMBIGUOUS \notin Range(Types) /\ NONE_OF_THE_ABOVE \notin Range(Types)
    /\ NONE_OF_THE_ABOVE \notin Range(Roles) /\ NONE_OF_THE_ABOVE # AMBIGUOUS
<1>1. \A a, b : Word(a) = Word(b) => a = b
  BY DEF Word
<1>2. \A a, b, c, d : Range(<<a, b, c, d>>) = {a, b, c, d}
  BY DEF Range
<1>3. /\ "none of the above" \notin {"line", "tax", "note", "other", "ambiguous", "invoice", "credit_note", "unknown"}
      /\ "ambiguous" \notin {"invoice", "credit_note", "other", "unknown"}
  OBVIOUS
<1>4. Range(Roles) = {Word("line"), Word("tax"), Word("note"), Word("other")}
  BY <1>2, Zenon DEF Roles
<1>5. Range(Types) = {Word("invoice"), Word("credit_note"), Word("other"), Word("unknown")}
  BY <1>2, Zenon DEF Types
<1> QED BY <1>1, <1>3, <1>4, <1>5, Zenon DEF AMBIGUOUS, NONE_OF_THE_ABOVE

(* A doubt among what was said, where it counts. *)
HasDoubt(said, lines) ==
    \/ \E f \in Fields : Doubtful(said[<<f, 0>>])
    \/ \E i \in DOMAIN lines : said[<<"role", i>>] = AMBIGUOUS
    \/ \E i \in DOMAIN lines : \E f \in Range(RowFields(said[<<"role", i>>])) : Doubtful(said[<<f, i>>])

LEMMA UnsureIsDoubtful == \A choice, id : Unsure(choice, id) => Doubtful(choice)
  BY DEF Unsure, Doubtful

(* What was heard in doubt is said in doubt, once the conversation is over. *)
LEMMA KnownIsDoubted ==
    ASSUME NEW lines, IsReading(lines), NEW answers, Offered(answers, lines),
           Conversation(lines, answers).next = <<>>, NEW r \in DOMAIN answers, Known(r, lines, answers),
           NEW id \in r, Unsure(answers[r][id], id)
    PROVE  HasDoubt(Conversation(lines, answers).answers, lines)
<1> DEFINE asked == FirstQuestions(lines)
           first == Asked(asked, lines, answers)
           questions == RowQuestions(lines, first.answers)
           rows == Asked(questions, lines, answers)
           turn == Conversation(lines, answers)
           said == turn.answers
           choice == answers[r][id]
<1>1. lines \in Seq(Range(lines))
  BY DEF IsReading
<1>2. turn = IF first.next # <<>> THEN first
             ELSE [next |-> rows.next, answers |-> IF rows.next # <<>> THEN <<>> ELSE Both(first.answers, rows.answers)]
  <2> HIDE DEF first
  <2> QED BY ConversationIs DEF Continued, first
<1>3. first.next = <<>> /\ rows.next = <<>> /\ said = Both(first.answers, rows.answers)
  <2> HIDE DEF first, rows
  <2> QED BY <1>2
<1>4. Askable(asked, lines) /\ Askable(questions, lines)
  <2>1. Askable(asked, lines)
    BY FirstAreAskable
  <2>2. Askable(questions, lines)
    <3> HIDE DEF first
    <3> QED BY RowsAreAskable
  <2> QED BY <2>1, <2>2
<1>5. DOMAIN first.answers = Range(asked) /\ DOMAIN rows.answers = Range(questions)
  <2> HIDE DEF asked, questions
  <2>1. Turn(first, Range(asked), lines) /\ Turn(rows, Range(questions), lines)
    BY <1>4, AskedOffers DEF Askable
  <2> HIDE DEF first, rows
  <2> QED BY <1>3, <2>1 DEF Turn
<1> SUFFICES HasDoubt(said, lines)
  OBVIOUS
<1> HIDE DEF turn, rows
<1>6. said = [q \in Range(asked) \cup Range(questions) |-> IF q \in Range(asked) THEN first.answers[q] ELSE rows.answers[q]]
  <2> HIDE DEF first, questions, asked, said
  <2> QED BY <1>3, <1>5 DEF Both
<1>7. Range(asked) = {<<f, 0>> : f \in Fields} \cup {<<"document_type", 0>>} \cup {<<"role", i>> : i \in DOMAIN lines}
  BY <1>1, FirstQuestionsAre, FieldsAre
<1>8. choice \in Range(OptionsOf(<<id[1], id[2]>>, lines)) \cup Sentinels(<<id[1], id[2]>>) /\ Doubtful(choice)
  BY UnsureIsDoubtful DEF Offered
<1> HIDE DEF choice
<1>9. CASE Visited(r, asked, lines, answers)
  <2>1. \E q \in Range(asked) : q = <<id[1], id[2]>> /\ first.answers[q] = choice
    <3> HIDE DEF asked
    <3> QED BY <1>3, <1>4, <1>9, VisitedIsSaid DEF first, choice
  <2>2. PICK q \in Range(asked) : q = <<id[1], id[2]>> /\ first.answers[q] = choice
    BY <2>1
  <2> HIDE DEF asked, first, questions, said
  <2>3. said[q] = choice /\ choice \in Range(OptionsOf(q, lines)) \cup Sentinels(q)
    BY <1>6, <1>8, <2>2
  <2>4. CASE q \in {<<f, 0>> : f \in Fields}
    BY <1>8, <2>3, <2>4 DEF HasDoubt
  <2>5. CASE q = <<"document_type", 0>>
    <3>1. OptionsOf(q, lines) = Types /\ Sentinels(q) = {}
      BY <2>5 DEF OptionsOf, Sentinels
    <3> QED BY <1>8, <2>3, <3>1, WordsDiffer DEF Doubtful
  <2>6. CASE q \in {<<"role", i>> : i \in DOMAIN lines}
    <3>1. PICK i \in DOMAIN lines : q = <<"role", i>>
      BY <2>6
    <3>2. OptionsOf(q, lines) = Roles /\ Sentinels(q) = {AMBIGUOUS}
      BY <3>1 DEF OptionsOf, Sentinels
    <3>3. choice = AMBIGUOUS
      BY <1>8, <2>3, <3>2, WordsDiffer DEF Doubtful
    <3> QED BY <2>3, <3>1, <3>3 DEF HasDoubt
  <2> QED BY <1>7, <2>4, <2>5, <2>6
<1>10. CASE Visited(r, questions, lines, answers)
  <2>1. \E q \in Range(questions) : q = <<id[1], id[2]>> /\ rows.answers[q] = choice
    <3> HIDE DEF questions
    <3> QED BY <1>3, <1>4, <1>10, VisitedIsSaid DEF rows, choice
  <2>2. PICK q \in Range(questions) : rows.answers[q] = choice
    BY <2>1
  <2> DEFINE known == first.answers
             of(j) == {<<e, j>> : e \in Range(RowFields(known[<<"role", j>>]))}
  <2>3. Range(RowQuestions(lines, known)) = UNION {of(j) : j \in DOMAIN lines}
    <3> HIDE DEF known
    <3> QED BY <1>1, RowQuestionsAre
  <2>4. PICK i \in DOMAIN lines : q \in of(i)
    <3> HIDE DEF of
    <3> QED BY <2>3
  <2>5. PICK f \in Range(RowFields(known[<<"role", i>>])) : q = <<f, i>>
    BY <2>4
  <2>6. i # 0 /\ f \in RowNames
    <3>1. i # 0
      BY ReadingIs
    <3>2. \A a, b, c : Range(<<a, b, c>>) = {a, b, c}
      BY DEF Range
    <3>3. Range(<<>>) = {}
      BY DEF Range
    <3>4. \A role : Range(RowFields(role)) \subseteq RowNames
      BY <3>2, <3>3 DEF RowFields, RowNames
    <3> QED BY <3>1, <3>4
  <2> HIDE DEF asked, first, questions, said, known, of
  <2>7. q \notin Range(asked)
    BY <1>7, <2>5, <2>6 DEF RowNames
  <2>8. <<"role", i>> \in Range(asked)
    BY <1>7
  <2>9. said[<<"role", i>>] = known[<<"role", i>>]
    BY <1>6, <2>8 DEF known
  <2>10. said[q] = choice
    BY <1>6, <2>2, <2>7
  <2>11. f \in Range(RowFields(said[<<"role", i>>])) /\ Doubtful(said[<<f, i>>])
    BY <1>8, <2>5, <2>9, <2>10
  <2> QED BY <2>11 DEF HasDoubt
<1>11. Visited(r, asked, lines, answers) \/ Visited(r, questions, lines, answers)
  BY DEF Known
<1> QED BY <1>9, <1>10, <1>11

(* What is said in doubt is an issue of the invoice, and stays one. *)
LEMMA DoubtIsAnIssue ==
    ASSUME NEW lines, NEW said, HasDoubt(said, lines)
    PROVE  Assembled(lines, said).issues # {}
<1> DEFINE names == Scalars \cup {"rows", "taxes", "issues"}
           rows(role, fields) == [i \in LinesOf(role, said, lines) |-> RowOf(i, fields, said, lines)]
           scalar(f) == IF f \in Shared(said) \cup Undated(said, lines) THEN Gap ELSE Chosen(said[<<f, 0>>], lines)
           type == Field(said[<<"document_type", 0>>][1], DOMAIN lines)
           lined == rows(Word("line"), {"quantity", "amount"})
           taxed == rows(Word("tax"), {"rate", "amount"})
           fields == {f \in Range(FieldOrder) : Doubtful(said[<<f, 0>>])}
           roles == {f \in {"roles"} : LinesOf(AMBIGUOUS, said, lines) # {}}
           lineIssues == {f \in {"rows"} : RowIssues(Word("line"), "description", said, lines)}
           taxIssues == {f \in {"taxes"} : RowIssues(Word("tax"), "label", said, lines)}
           issues == fields \cup Shared(said) \cup Undated(said, lines) \cup roles \cup lineIssues \cup taxIssues
<1>1. Assembled(lines, said) = [f \in names |->
            IF f = "document_type" THEN type ELSE IF f = "rows" THEN lined
            ELSE IF f = "taxes" THEN taxed ELSE IF f = "issues" THEN issues ELSE scalar(f)]
  BY Zenon DEF Assembled
<1> HIDE DEF type, lined, taxed, scalar
<1>2. Assembled(lines, said).issues = issues
  <2> HIDE DEF issues
  <2> QED BY <1>1
<1>3. CASE \E f \in Fields : Doubtful(said[<<f, 0>>])
  <2>1. fields # {}
    BY <1>3, FieldsAre
  <2> HIDE DEF fields
  <2> QED BY <1>2, <2>1
<1>4. CASE \E i \in DOMAIN lines : said[<<"role", i>>] = AMBIGUOUS
  <2>1. roles # {}
    BY <1>4 DEF LinesOf
  <2> HIDE DEF roles
  <2> QED BY <1>2, <2>1
<1>5. CASE \E i \in DOMAIN lines : \E f \in Range(RowFields(said[<<"role", i>>])) : Doubtful(said[<<f, i>>])
  <2>1. PICK i \in DOMAIN lines : \E f \in Range(RowFields(said[<<"role", i>>])) : Doubtful(said[<<f, i>>])
    BY <1>5
  <2> DEFINE role == said[<<"role", i>>]
  <2>2. PICK f \in Range(RowFields(role)) : Doubtful(said[<<f, i>>])
    BY <2>1
  <2>3. role \in {Word("line"), Word("tax")}
    <3>1. Range(<<>>) = {}
      BY DEF Range
    <3> HIDE DEF role
    <3> QED BY <3>1 DEF RowFields
  <2>4. \A named : RowIssues(role, named, said, lines)
    BY <2>2 DEF RowIssues
  <2> HIDE DEF role
  <2>5. "rows" \in lineIssues \/ "taxes" \in taxIssues
    BY <2>3, <2>4
  <2> HIDE DEF lineIssues, taxIssues
  <2> QED BY <1>2, <2>5
<1> QED BY <1>3, <1>4, <1>5 DEF HasDoubt

LEMMA IssuesStay ==
    ASSUME NEW raw, IsInvoice(raw)
    PROVE  raw.issues \subseteq NormalizeInvoice(raw).issues
<1> DEFINE date == Rewritten(raw.issue_date, NormalizeDate(raw.issue_date.v))
           base == Rewritten(raw.taxable_base, NormalizeDecimal(raw.taxable_base.v))
           total == Rewritten(raw.total, NormalizeDecimal(raw.total.v))
           rows == [i \in DOMAIN raw.rows |-> RereadRow(raw.rows[i])]
           taxes == [i \in DOMAIN raw.taxes |-> RereadRow(raw.taxes[i])]
           normal == [raw EXCEPT !.issue_date = date, !.taxable_base = base, !.total = total,
                                 !.rows = rows, !.taxes = taxes]
           Grown(A, B, C) == normal.issues \cup A \cup B \cup C
<1>1. \E A, B, C : NormalizeInvoice(raw) = [normal EXCEPT !.issues = normal.issues \cup A \cup B \cup C]
  BY Zenon DEF NormalizeInvoice, Reread, Rewritten
<1>2. PICK A, B, C : NormalizeInvoice(raw) = [normal EXCEPT !.issues = Grown(A, B, C)]
  BY <1>1
<1> HIDE DEF date, base, total, rows, taxes
<1>3. DOMAIN normal = DOMAIN raw /\ normal.issues = raw.issues /\ "issues" \in DOMAIN normal
  BY DEF IsInvoice
<1>4. NormalizeInvoice(raw).issues = Grown(A, B, C)
  <2> HIDE DEF normal, Grown
  <2> QED BY <1>2, <1>3
<1> HIDE DEF normal
<1> QED BY <1>3, <1>4

LEMMA DoubtNeedsReview ==
    ASSUME NEW turn, HasDoubt(turn.answers, text)
    PROVE  Status(Interpreted(turn), text) # "completed"
<1> DEFINE raw == Assembled(text, turn.answers)
           invoice == Interpreted(turn)
<1>1. raw.issues # {} /\ IsInvoice(raw) /\ invoice = NormalizeInvoice(raw)
  BY DoubtIsAnIssue, AssembledIs, InterpretedIs
<1> HIDE DEF raw, invoice
<1>2. invoice.issues # {}
  BY <1>1, IssuesStay
<1>3. "invoice_issues_clear" \in Failing(invoice, text)
  BY <1>2, Zenon DEF Failing
<1> QED BY <1>3 DEF Status, invoice

(* Every kept answer belongs to a request of the conversation, and a completed job *)
(* has heard all of it and leaves no issue.                                       *)
AllKnown == \A r \in DOMAIN heard : Known(r, text, heard)
Clear    == job.state = "completed" => Over /\ Status(Result, text) = "completed"

LEMMA JevHearsOn ==
    ASSUME IsJob, IsReading(text), Offered(heard, text), Offered(heard', text'), AllKnown, Clear, NextJev
    PROVE  AllKnown' /\ Clear'
<1>0. ASSUME UNCHANGED <<text, heard>> PROVE AllKnown' /\ Over' = Over /\ Status(Result, text)' = Status(Result, text)
  <2>1. text' = text /\ heard' = heard
    BY <1>0
  <2> QED BY <2>1 DEF AllKnown, Over, Result, Interpreted
<1>1. ASSUME NEW state, NEW code, End(state, code), UNCHANGED <<text, heard, paid>>,
             state = "completed" => Over /\ Status(Result, text) = "completed"
      PROVE  AllKnown' /\ Clear'
  <2>1. job'.state = state
    BY <1>1 DEF End, IsJob
  <2> QED BY <1>0, <1>1, <2>1 DEF Clear
<1>2. CASE NextAttempt
  <2>1. job'.state = "running"
    BY <1>2 DEF NextAttempt, IsJob
  <2>2. heard' = heard /\ text' = text
    BY <1>2 DEF NextAttempt
  <2> QED BY <1>0, <2>1, <2>2 DEF Clear
<1>3. ASSUME Running, Attempt(Conversation(text, heard)) PROVE AllKnown' /\ Clear'
  <2> DEFINE turn == Conversation(text, heard)
  <2>1. turn.next # <<>> => Known(DOMAIN turn.next, text, heard)
    BY NextIsKnown
  <2>2. turn.next = <<>> => Over
    BY DEF Over
  <2>3. Result = Interpreted(turn)
    BY DEF Result
  <2> HIDE DEF turn
  <2>4. CASE Lose(turn)
    <3>1. PICK code : End("unknown", code)
      BY <2>4 DEF Lose
    <3>2. heard' = heard /\ text' = text
      BY <2>4 DEF Lose
    <3>3. job'.state = "unknown"
      BY <3>1 DEF End, IsJob
    <3> QED BY <1>0, <3>2, <3>3 DEF Clear
  <2>5. CASE Overflow(turn) \/ NativeNotStored(turn)
    BY <1>1, <2>5 DEF Overflow, NativeNotStored
  <2>6. CASE CompleteInterpretation(turn)
    <3>1. End(Status(Result, text), NULL) /\ UNCHANGED <<text, heard, paid>> /\ turn.next = <<>>
      BY <2>3, <2>6 DEF CompleteInterpretation
    <3> QED BY <1>1, <2>2, <3>1
  <2>7. CASE \E code \in {"provider_http_error", "invalid_response"} : Refuse(turn, code)
    BY <1>1, <2>7 DEF Refuse
  <2>8. CASE Asking(turn) /\ \E plain \in {Plain(turn.next, text)} :
                        \E answer \in Answers(turn.next, plain) : Buy(turn, answer, plain)
    <3>1. PICK answer \in Answers(turn.next, Plain(turn.next, text)) : Buy(turn, answer, Plain(turn.next, text))
      BY <2>8
    <3> DEFINE request == turn.next
    <3>2. DOMAIN answer = DOMAIN request
      BY AnswersAnswer
    <3>3. /\ heard' = [r \in DOMAIN heard \cup {DOMAIN answer} |-> IF r \in DOMAIN heard THEN heard[r] ELSE answer]
          /\ text' = text
      BY <3>1 DEF Buy
    <3>4. job'.state = job.state /\ job.state = "running"
      BY <1>3, <3>1 DEF Buy, IsJob, Running
    <3>5. Known(DOMAIN request, text, heard)
      BY <2>1, <2>8 DEF Asking
    <3> HIDE DEF request
    <3>6. Extends(heard', heard) /\ DOMAIN heard' = DOMAIN heard \cup {DOMAIN request}
      BY <3>2, <3>3 DEF Extends
    <3>7. \A r : Known(r, text, heard) => Known(r, text, heard')
      <4>1. \A more : Offered(more, text) /\ Extends(more, heard)
                        => \A r : Known(r, text, heard) => Known(r, text, more)
        BY KnownStays
      <4>2. Offered(heard', text)
        BY <3>3
      <4> QED BY <3>6, <4>1, <4>2
    <3>8. AllKnown'
      BY <3>3, <3>5, <3>6, <3>7 DEF AllKnown
    <3> QED BY <3>4, <3>8 DEF Clear
  <2> QED BY <1>3, <2>4, <2>5, <2>6, <2>7, <2>8 DEF Attempt, turn
<1> QED BY <1>2, <1>3 DEF NextJev

JevHears ==
    /\ mode.interpreter # "jev" => job.state # "completed"
    /\ mode.interpreter = "jev" => AllKnown /\ Clear

LEMMA JevKeepsHearing == SpecCascade => []JevHears
<1>1. InitCascade => JevHears
  BY DEF InitCascade, InitJev, NoJob, JevHears, AllKnown, Clear
<1>2. Readings /\ PaidOnce /\ JevOffers /\ JevOffers' /\ JevHears /\ [NextCascade]_cascadeVars => JevHears'
  <2> SUFFICES ASSUME Readings, PaidOnce, JevOffers, JevOffers', JevHears, [NextCascade]_cascadeVars
               PROVE  JevHears'
    OBVIOUS
  <2>1. mode' = mode
    BY DEF NextCascade, cascadeVars, InvalidFile, NoText, VisionFails, DeepSeekReads, InterpreterFails,
           Interpret, JevEnds, RetryFile, Native, VisionReads, Correct
  <2>2. IsReading(text) /\ IsJob
    BY DEF Readings, PaidOnce
  <2>3. ASSUME UNCHANGED <<text, heard, job>> PROVE JevHears'
    <3>1. text' = text /\ heard' = heard /\ job' = job
      BY <2>3
    <3> QED BY <2>1, <3>1 DEF JevHears, AllKnown, Clear, Over, Result, Interpreted
  <2>4. ASSUME UNCHANGED <<heard, paid, job>>, mode.interpreter # "jev" PROVE JevHears'
    BY <2>1, <2>4 DEF JevHears
  <2>5. ASSUME NEW lines, NEW misread, BeginInterpretation(lines, misread) PROVE JevHears'
    <3>1. heard' = <<>> /\ job'.state = "running"
      BY <2>2, <2>5 DEF BeginInterpretation, IsJob
    <3> QED BY <3>1 DEF JevHears, AllKnown, Clear
  <2>6. CASE Interpret
    <3>1. mode.interpreter = "jev" /\ NextJev
      BY <2>6 DEF Interpret
    <3>2. Offered(heard, text) /\ Offered(heard', text') /\ AllKnown /\ Clear
      BY <2>1, <3>1 DEF JevOffers, JevHears
    <3>3. AllKnown' /\ Clear'
      BY <2>2, <3>1, <3>2, JevHearsOn
    <3> QED BY <2>1, <3>1, <3>3 DEF JevHears
  <2>7. CASE RetryFile
    <3>1. job'.state = "running" /\ text' = text /\ heard' \in {heard, <<>>}
      BY <2>2, <2>7 DEF RetryFile, RetryJob, Remembered, IsJob
    <3>2. mode.interpreter = "jev" => AllKnown'
      BY <3>1 DEF JevHears, AllKnown
    <3> QED BY <2>1, <3>1, <3>2 DEF JevHears, Clear
  <2>8. CASE \E reading \in VisionReadings(file.printed) : VisionReads(reading)
    BY <2>3, <2>4, <2>5, <2>8 DEF VisionReads, jevVars
  <2>9. CASE \E reading \in Corrections(ReadBefore) : Correct(reading)
    BY <2>4, <2>5, <2>9 DEF Correct
  <2>10. CASE UNCHANGED jevVars
    BY <2>3, <2>10 DEF jevVars
  <2> QED BY <2>6, <2>7, <2>8, <2>9, <2>10
        DEF NextCascade, cascadeVars, InvalidFile, NoText, VisionFails, DeepSeekReads, InterpreterFails, JevEnds, Native
<1> QED BY <1>1, <1>2, ReadingsStayReadings, StaysPaidOnce, JevKeepsOffering, PTL DEF SpecCascade

(* A completed interpretation has heard no doubt: what the model called ambiguous  *)
(* in any round of a question, or none of the above in its last one, is an issue   *)
(* of the invoice, and an invoice with issues needs review (_ask, run of jev.py).  *)
THEOREM NoDoubtIsLaundered == SpecCascade => []NothingLaundered
<1>1. Readings /\ JevOffers /\ JevHears => NothingLaundered
  <2> SUFFICES ASSUME Readings, JevOffers, JevHears, job.state = "completed",
                      NEW asked \in DOMAIN heard, NEW id \in asked, Unsure(heard[asked][id], id)
               PROVE  FALSE
    BY DEF NothingLaundered, Unsure
  <2> DEFINE turn == Conversation(text, heard)
  <2>1. mode.interpreter = "jev" /\ IsReading(text)
    BY DEF JevHears, Readings
  <2>2. Offered(heard, text) /\ Known(asked, text, heard) /\ turn.next = <<>>
        /\ Status(Interpreted(turn), text) = "completed"
    BY <2>1 DEF JevOffers, JevHears, AllKnown, Clear, Over, Result
  <2>3. HasDoubt(turn.answers, text)
    BY <2>1, <2>2, KnownIsDoubted
  <2> HIDE DEF turn
  <2> QED BY <2>2, <2>3, DoubtNeedsReview
<1> QED BY <1>1, ReadingsStayReadings, JevKeepsOffering, JevKeepsHearing, PTL

=============================================================================
