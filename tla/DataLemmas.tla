----------------------------- MODULE DataLemmas -----------------------------
(***************************************************************************)
(* What the proofs of several components need about data: induction over   *)
(* the natural numbers, functions defined by recursion over an interval,   *)
(* remainders, and messages that move from one queue to another.  They are *)
(* stated about sets, functions and sequences, never about an operator, so *)
(* that a proof can cite them for a recursive function of a model.         *)
(***************************************************************************)
EXTENDS Integers, Sequences, FiniteSets, WellFoundedInduction, SequenceTheorems,
        FiniteSetTheorems, FunctionTheorems, TLAPS

LEMMA LessThan == IsWellFoundedOn({p \in Nat \X Nat : p[1] < p[2]}, Nat)
  BY NatLessThanWellFounded, Zenon DEF OpToRel

(* A set that holds 0, and n + 1 with n, holds every natural number: the   *)
(* least one that it did not hold would have a predecessor it does hold.   *)
LEMMA Induction ==
  ASSUME NEW T, 0 \in T, \A n \in Nat : n \in T => n + 1 \in T
  PROVE  \A n \in Nat : n \in T
  <1> DEFINE R == {p \in Nat \X Nat : p[1] < p[2]}
             U == Nat \ T
  <1>1. ASSUME NEW x \in U PROVE \E y \in U : <<y, x>> \in R
    <2>1. x - 1 \in Nat /\ x # 0 /\ (x - 1) + 1 = x
      OBVIOUS
    <2>2. x - 1 \in U
      BY <2>1
    <2> QED
      BY <2>1, <2>2
  <1>2. IsWellFoundedOn(R, Nat)
    BY LessThan
  <1> HIDE DEF R
  <1>3. U # {} => \E x \in U : \A y \in U : ~ (<<y, x>> \in R)
    BY <1>2, WFMin, Zenon
  <1> QED
    BY <1>1, <1>3

(* A non-empty set of natural numbers has a least element.                 *)
LEMMA LeastElement ==
  ASSUME NEW T, T \subseteq Nat, T # {}
  PROVE  \E m \in T : \A k \in T : m <= k
  <1> DEFINE R == {p \in Nat \X Nat : p[1] < p[2]}
  <1>1. IsWellFoundedOn(R, Nat)
    BY LessThan
  <1>2. \A x, y \in T : ~ (<<y, x>> \in R) => x <= y
    OBVIOUS
  <1> HIDE DEF R
  <1>3. \E x \in T : \A y \in T : ~ (<<y, x>> \in R)
    BY <1>1, WFMin, Zenon
  <1> QED
    BY <1>2, <1>3

(* And, where none is greater than N, a greatest one.                      *)
LEMMA GreatestElement ==
  ASSUME NEW N \in Nat, NEW T, T \subseteq 0 .. N, T # {}
  PROVE  \E m \in T : \A k \in T : k <= m
  <1> DEFINE U == {N - k : k \in T}
  <1>1. U \subseteq Nat /\ U # {}
    <2>1. ASSUME NEW k \in T PROVE N - k \in Nat
      <3>1. k \in 0 .. N
        OBVIOUS
      <3> QED
        BY <3>1
    <2>2. PICK k : k \in T
      OBVIOUS
    <2>3. N - k \in U
      BY <2>2, Zenon
    <2>4. \A u \in U : \E j \in T : u = N - j
      BY Zenon
    <2> HIDE DEF U
    <2> QED
      BY <2>1, <2>3, <2>4
  <1>2. PICK u \in U : \A v \in U : u <= v
    BY <1>1, LeastElement
  <1>3. PICK m \in T : u = N - m
    BY <1>2
  <1>4. ASSUME NEW k \in T PROVE k <= m
    <2>1. N - k \in U
      BY Zenon
    <2> HIDE DEF U
    <2>2. N - m <= N - k
      BY <1>2, <1>3, <2>1
    <2>3. k \in 0 .. N /\ m \in 0 .. N
      BY <1>3
    <2> QED
      BY <2>2, <2>3
  <1> QED
    BY <1>3, <1>4

(* The remainder of the next lap around n.                                 *)
LEMMA Remainder ==
  ASSUME NEW n \in Nat \ {0}
  PROVE  /\ \A a \in Nat : a % n \in 0 .. n - 1
         /\ \A a \in 0 .. n - 1 : a % n = a
         /\ \A a \in n .. 2 * n - 1 : a % n = a - n
  OBVIOUS

(* f follows from c through the steps of h. *)
Follows(f, S, c, N, h) ==
  /\ f \in [0 .. N -> S]
  /\ f[0] = c
  /\ \A n \in 1 .. N : f[n] = h[n][f[n - 1]]

(* Where every step is total, so is the recursion over them.               *)
LEMMA Recursion ==
  ASSUME NEW S, NEW c \in S, NEW N \in Nat, NEW h,
         \A n \in 1 .. N, v \in S : h[n][v] \in S
  PROVE  \E f : Follows(f, S, c, N, h)
  <1> DEFINE T == {m \in Nat : m <= N => \E f : Follows(f, S, c, m, h)}
  <1>1. 0 \in T
    <2>1. Follows([n \in 0 .. 0 |-> c], S, c, 0, h)
      BY DEF Follows
    <2> QED
      BY <2>1
  <1>2. ASSUME NEW m \in Nat, m \in T, m + 1 <= N
        PROVE  \E g : Follows(g, S, c, m + 1, h)
    <2>1. PICK f : Follows(f, S, c, m, h)
      BY <1>2
    <2> DEFINE g == [n \in 0 .. m + 1 |-> IF n = m + 1 THEN h[m + 1][f[m]] ELSE f[n]]
    <2>2. f[m] \in S
      BY <1>2, <2>1 DEF Follows
    <2>3. h[m + 1][f[m]] \in S
      BY <1>2, <2>2
    <2>4. g \in [0 .. m + 1 -> S] /\ g[0] = c
      BY <2>1, <2>3 DEF Follows
    <2>5. ASSUME NEW n \in 1 .. m + 1 PROVE g[n] = h[n][g[n - 1]]
      <3>1. CASE n = m + 1
        <4>1. g[n] = h[m + 1][f[m]] /\ g[n - 1] = f[m]
          BY <3>1
        <4> QED
          BY <3>1, <4>1
      <3>2. CASE n \in 1 .. m
        <4>1. g[n] = f[n] /\ g[n - 1] = f[n - 1]
          BY <3>2
        <4> QED
          BY <3>2, <4>1, <2>1 DEF Follows
      <3> QED
        BY <3>1, <3>2
    <2> HIDE DEF g
    <2>6. Follows(g, S, c, m + 1, h)
      BY <2>4, <2>5 DEF Follows
    <2> QED
      BY <2>6
  <1>3. ASSUME NEW m \in Nat, m \in T PROVE m + 1 \in T
    BY <1>2, <1>3
  <1> HIDE DEF T
  <1>4. N \in T
    BY <1>1, <1>3, Induction
  <1> QED
    BY <1>4 DEF T

(* A number read from the highest of its 31 bits down, as Num of BitFields *)
(* reads it.                                                               *)
LEMMA BitsRead ==
  ASSUME NEW b
  PROVE  \E f \in [0 .. 31 -> Nat] :
           /\ f = CHOOSE g : g = [k \in 0 .. 31 |->
                     IF k = 0 THEN 0 ELSE 2 * g[k - 1] + (IF 31 - k \in b THEN 1 ELSE 0)]
           /\ f[0] = 0
           /\ \A k \in 1 .. 31 : f[k] = 2 * f[k - 1] + (IF 31 - k \in b THEN 1 ELSE 0)
  <1> DEFINE bit(k)   == IF 31 - k \in b THEN 1 ELSE 0
             Reads(g) == g = [k \in 0 .. 31 |-> IF k = 0 THEN 0 ELSE 2 * g[k - 1] + bit(k)]
             from     == CHOOSE g : Reads(g)
             h        == [k \in 1 .. 31 |-> [v \in Nat |-> 2 * v + bit(k)]]
  <1>1. PICK f : Follows(f, Nat, 0, 31, h)
    <2>1. \A k \in 1 .. 31 : bit(k) \in Nat
      OBVIOUS
    <2> HIDE DEF bit
    <2>2. ASSUME NEW k \in 1 .. 31, NEW v \in Nat PROVE h[k][v] \in Nat
      <3>1. h[k][v] = 2 * v + bit(k)
        OBVIOUS
      <3>2. 2 * v + bit(k) \in Nat
        BY <2>1
      <3> HIDE DEF h
      <3> QED
        BY <3>1, <3>2
    <2> HIDE DEF h
    <2> QED
      BY <2>2, Recursion
  <1>2. /\ f \in [0 .. 31 -> Nat] /\ f[0] = 0
        /\ \A k \in 1 .. 31 : f[k] = 2 * f[k - 1] + bit(k)
    <2>1. ASSUME NEW k \in 1 .. 31 PROVE f[k - 1] \in Nat
      BY <1>1 DEF Follows
    <2> QED
      BY <1>1, <2>1 DEF Follows
  <1>3. Reads(f)
    <2>1. ASSUME NEW k \in 0 .. 31 PROVE f[k] = IF k = 0 THEN 0 ELSE 2 * f[k - 1] + bit(k)
      BY <1>2
    <2> QED
      BY <1>2, <2>1
  <1>4. Reads(from)
    <2> HIDE DEF Reads
    <2> QED
      BY <1>3
  <1> HIDE DEF from, h
  <1>5. /\ from[0] = 0
        /\ \A k \in 1 .. 31 : from[k] = 2 * from[k - 1] + bit(k)
    BY <1>4
  <1>6. from \in [0 .. 31 -> Nat]
    <2> DEFINE T == {n \in Nat : n <= 31 => from[n] \in Nat}
    <2>1. 0 \in T
      BY <1>5
    <2>2. ASSUME NEW n \in Nat, n \in T PROVE n + 1 \in T
      <3>1. n + 1 <= 31 => from[n + 1] = 2 * from[n] + bit(n + 1)
        <4>1. n + 1 <= 31 => n + 1 \in 1 .. 31 /\ (n + 1) - 1 = n
          OBVIOUS
        <4> QED
          BY <1>5, <4>1
      <3>2. bit(n + 1) \in Nat
        OBVIOUS
      <3> HIDE DEF bit
      <3> QED
        BY <2>2, <3>1, <3>2
    <2> HIDE DEF T
    <2>3. \A n \in Nat : n \in T
      BY <2>1, <2>2, Induction
    <2>4. \A n \in 0 .. 31 : from[n] \in Nat
      BY <2>3 DEF T
    <2>5. from = [k \in 0 .. 31 |-> from[k]]
      BY <1>4
    <2> QED
      BY <2>4, <2>5
  <1> QED
    BY <1>5, <1>6 DEF from

-----------------------------------------------------------------------------
(* Queues. *)

LEMMA HeadAndTail ==
  ASSUME NEW S, NEW t \in Seq(S), t # <<>>
  PROVE  /\ Head(t) \in S /\ Tail(t) \in Seq(S) /\ <<Head(t)>> \in Seq(S)
         /\ t = <<Head(t)>> \o Tail(t)
  <1>1. /\ Head(t) \in S /\ Tail(t) \in Seq(S) /\ Len(Tail(t)) = Len(t) - 1
        /\ \A i \in 1 .. Len(Tail(t)) : Tail(t)[i] = t[i + 1]
    BY HeadTailProperties
  <1>2. Len(t) \in Nat \ {0} /\ Head(t) = t[1]
    BY EmptySeq
  <1>3. <<Head(t)>> \in Seq(S) /\ Len(<<Head(t)>>) = 1 /\ <<Head(t)>>[1] = Head(t)
    BY <1>1
  <1> DEFINE u == <<Head(t)>> \o Tail(t)
  <1>4. /\ u \in Seq(S) /\ Len(u) = 1 + Len(Tail(t))
        /\ \A i \in 1 .. 1 + Len(Tail(t)) :
             u[i] = IF i <= 1 THEN <<Head(t)>>[i] ELSE Tail(t)[i - 1]
    BY <1>1, <1>3, ConcatProperties
  <1> HIDE DEF u
  <1>5. Len(u) = Len(t)
    BY <1>1, <1>2, <1>4
  <1>6. ASSUME NEW i \in 1 .. Len(t) PROVE u[i] = t[i]
    <2>1. CASE i = 1
      BY <1>2, <1>3, <1>4, <1>5, <2>1
    <2>2. CASE i # 1
      <3>1. i - 1 \in 1 .. Len(Tail(t)) /\ (i - 1) + 1 = i /\ i \in 1 .. 1 + Len(Tail(t))
        BY <1>1, <1>2, <2>2
      <3>2. u[i] = Tail(t)[i - 1]
        BY <1>4, <2>2, <3>1
      <3> QED
        BY <1>1, <3>1, <3>2
    <2> QED
      BY <2>1, <2>2
  <1>7. u = t
    BY <1>4, <1>5, <1>6, SeqEqual
  <1> QED
    BY <1>1, <1>3, <1>7 DEF u

(* The first message of t goes to the end of s: nothing else moves.        *)
LEMMA MoveFirst ==
  ASSUME NEW S, NEW s \in Seq(S), NEW t \in Seq(S), t # <<>>
  PROVE  Append(s, Head(t)) \o Tail(t) = s \o t
  <1>1. /\ Head(t) \in S /\ Tail(t) \in Seq(S) /\ <<Head(t)>> \in Seq(S)
        /\ t = <<Head(t)>> \o Tail(t)
    BY HeadAndTail
  <1>2. Append(s, Head(t)) = s \o <<Head(t)>>
    BY <1>1, AppendIsConcat
  <1>3. (s \o <<Head(t)>>) \o Tail(t) = s \o (<<Head(t)>> \o Tail(t))
    BY <1>1, ConcatAssociative
  <1> QED
    BY <1>1, <1>2, <1>3

LEMMA AppendToLast ==
  ASSUME NEW S, NEW s \in Seq(S), NEW t \in Seq(S), NEW e \in S
  PROVE  s \o Append(t, e) = Append(s \o t, e)
  <1>1. <<e>> \in Seq(S) /\ s \o t \in Seq(S)
    BY ConcatProperties
  <1>2. Append(t, e) = t \o <<e>> /\ Append(s \o t, e) = (s \o t) \o <<e>>
    BY <1>1, AppendIsConcat
  <1>3. (s \o t) \o <<e>> = s \o (t \o <<e>>)
    BY <1>1, ConcatAssociative
  <1> QED
    BY <1>2, <1>3

(* A sequence is what comes before and after a cut.                        *)
LEMMA Divided ==
  ASSUME NEW S, NEW s \in Seq(S), NEW k \in 0 .. Len(s)
  PROVE  /\ SubSeq(s, 1, k) \in Seq(S) /\ SubSeq(s, k + 1, Len(s)) \in Seq(S)
         /\ s = SubSeq(s, 1, k) \o SubSeq(s, k + 1, Len(s))
  <1> DEFINE a == SubSeq(s, 1, k)
             b == SubSeq(s, k + 1, Len(s))
             u == a \o b
  <1>1. Len(s) \in Nat /\ \A i \in 1 .. Len(s) : s[i] \in S
    BY LenProperties, ElementOfSeq
  <1>2. a \in Seq(S) /\ Len(a) = k /\ \A i \in 1 .. k : a[i] = s[i]
    BY <1>1
  <1>3. b \in Seq(S) /\ Len(b) = Len(s) - k /\ \A i \in 1 .. Len(s) - k : b[i] = s[k + i]
    BY <1>1
  <1>4. /\ u \in Seq(S) /\ Len(u) = Len(a) + Len(b)
        /\ \A i \in 1 .. Len(a) + Len(b) : u[i] = IF i <= Len(a) THEN a[i] ELSE b[i - Len(a)]
    <2> HIDE DEF a, b
    <2> QED
      BY <1>2, <1>3, ConcatProperties
  <1> HIDE DEF a, b, u
  <1>5. Len(u) = Len(s)
    BY <1>1, <1>2, <1>3, <1>4
  <1>6. ASSUME NEW i \in 1 .. Len(s) PROVE u[i] = s[i]
    <2>1. CASE i <= k
      BY <1>1, <1>2, <1>3, <1>4, <2>1
    <2>2. CASE ~ (i <= k)
      <3>1. i - k \in 1 .. Len(s) - k /\ k + (i - k) = i
        BY <1>1, <2>2
      <3> QED
        BY <1>1, <1>2, <1>3, <1>4, <2>2, <3>1
    <2> QED
      BY <2>1, <2>2
  <1>7. u = s
    BY <1>4, <1>5, <1>6, SeqEqual
  <1> QED
    BY <1>2, <1>3, <1>7 DEF a, b, u

(* The parts of a message, appended one after the other as FlattenSeq of   *)
(* SequencesExt appends them.                                              *)
LEMMA PartsAppended ==
  ASSUME NEW S, NEW parts \in Seq(Seq(S)), parts # <<>>
  PROVE  \E f \in [0 .. Len(parts) -> Seq(S)] :
           /\ f[0] = <<>>
           /\ f[Len(parts)] = (CHOOSE g : g = [i \in 1 .. Len(parts) |->
                 IF i = 1 THEN parts[i] ELSE g[i - 1] \o parts[i]])[Len(parts)]
           /\ \A n \in 1 .. Len(parts) : f[n] = f[n - 1] \o parts[n]
  <1> DEFINE N == Len(parts)
             Joins(f) == f = [i \in 1 .. N |-> IF i = 1 THEN parts[i] ELSE f[i - 1] \o parts[i]]
             flat == CHOOSE f : Joins(f)
             h == [n \in 1 .. N |-> [v \in Seq(S) |-> v \o parts[n]]]
  <1>1. N \in Nat \ {0} /\ \A n \in 1 .. N : parts[n] \in Seq(S)
    BY EmptySeq, ElementOfSeq
  <1>2. PICK f : Follows(f, Seq(S), <<>>, N, h)
    <2>1. \A n \in 1 .. N, v \in Seq(S) : h[n][v] \in Seq(S)
      BY <1>1, ConcatProperties
    <2>2. <<>> \in Seq(S) /\ N \in Nat
      BY <1>1, EmptySeq
    <2> HIDE DEF h, N
    <2> QED
      BY <2>1, <2>2, Recursion, Zenon
  <1>3. /\ f \in [0 .. N -> Seq(S)] /\ f[0] = <<>>
        /\ \A n \in 1 .. N : f[n] = f[n - 1] \o parts[n]
    <2>1. ASSUME NEW n \in 1 .. N PROVE f[n - 1] \in Seq(S)
      BY <1>1, <1>2 DEF Follows
    <2> QED
      BY <1>2, <2>1 DEF Follows
  <1> HIDE DEF h
  <1> DEFINE g == [i \in 1 .. N |-> f[i]]
  <1>4. Joins(g)
    <2>1. ASSUME NEW i \in 1 .. N
          PROVE  f[i] = IF i = 1 THEN parts[i] ELSE g[i - 1] \o parts[i]
      <3>1. CASE i = 1
        <4>1. 1 \in 1 .. N /\ 1 - 1 = 0
          BY <1>1
        <4>2. f[1] = f[1 - 1] \o parts[1] /\ f[1 - 1] = <<>>
          BY <1>3, <4>1
        <4> QED
          BY <1>1, <3>1, <4>1, <4>2, ConcatEmptySeq
      <3>2. CASE i # 1
        <4>1. i - 1 \in 1 .. N
          BY <1>1, <3>2
        <4> QED
          BY <1>3, <3>2, <4>1
      <3> QED
        BY <3>1, <3>2
    <2> QED
      BY <2>1
  <1>5. Joins(flat)
    <2> HIDE DEF Joins
    <2> QED
      BY <1>4
  <1> HIDE DEF flat, g
  <1>6. ASSUME NEW i \in 1 .. N
        PROVE  flat[i] = IF i = 1 THEN parts[i] ELSE flat[i - 1] \o parts[i]
    BY <1>5
  <1>7. \A n \in Nat : n + 1 <= N => flat[n + 1] = f[n + 1]
    <2> DEFINE T == {n \in Nat : n + 1 <= N => flat[n + 1] = f[n + 1]}
    <2>1. 0 \in T
      <3>1. 1 \in 1 .. N /\ 1 - 1 = 0 /\ parts[1] \in Seq(S)
        BY <1>1
      <3>2. f[1] = f[1 - 1] \o parts[1] /\ f[1 - 1] = <<>> /\ flat[1] = parts[1]
        BY <1>3, <1>6, <3>1
      <3>3. f[1] = parts[1]
        BY <3>1, <3>2, ConcatEmptySeq
      <3> QED
        BY <3>2, <3>3
    <2>2. ASSUME NEW n \in Nat, n \in T PROVE n + 1 \in T
      <3>1. ASSUME (n + 1) + 1 <= N PROVE flat[(n + 1) + 1] = f[(n + 1) + 1]
        <4> DEFINE k == (n + 1) + 1
        <4>1. k \in 1 .. N /\ k # 1 /\ k - 1 = n + 1 /\ n + 1 <= N
          BY <1>1, <3>1
        <4>2. flat[n + 1] = f[n + 1]
          BY <2>2, <4>1
        <4> HIDE DEF k
        <4>3. flat[k] = flat[k - 1] \o parts[k] /\ f[k] = f[k - 1] \o parts[k]
          BY <1>3, <1>6, <4>1
        <4>4. flat[k] = f[k]
          BY <4>1, <4>2, <4>3
        <4> QED
          BY <4>4 DEF k
      <3> QED
        BY <3>1
    <2> HIDE DEF T
    <2>3. \A n \in Nat : n \in T
      BY <2>1, <2>2, Induction
    <2> QED
      BY <2>3 DEF T
  <1>8. flat[N] = f[N]
    <2>1. N - 1 \in Nat /\ (N - 1) + 1 = N /\ (N - 1) + 1 <= N
      BY <1>1
    <2> QED
      BY <1>7, <2>1
  <1> QED
    BY <1>3, <1>8 DEF flat

-----------------------------------------------------------------------------
(* Counting. *)

LEMMA OneToOne ==
  ASSUME NEW S, NEW T, IsFiniteSet(S), NEW f \in [S -> T],
         \A a, b \in S : f[a] = f[b] => a = b, \A t \in T : \E s \in S : f[s] = t
  PROVE  IsFiniteSet(T) /\ Cardinality(T) = Cardinality(S)
  <1>1. f \in Bijection(S, T)
    BY Fun_IsBij
  <1>2. ExistsBijection(S, T)
    BY <1>1 DEF ExistsBijection
  <1> QED
    BY <1>2, FS_Bijection

(* The n-th member of a finite set of numbers is the one with n - 1 below. *)
LEMMA Ranks ==
  ASSUME NEW S, S \subseteq Nat, IsFiniteSet(S)
  PROVE  /\ Cardinality(S) \in Nat
         /\ \A i \in S : Cardinality({j \in S : j < i}) + 1 \in 1 .. Cardinality(S)
         /\ \A i, k \in S : Cardinality({j \in S : j < i}) = Cardinality({j \in S : j < k}) => i = k
         /\ \A n \in 1 .. Cardinality(S) : \E i \in S : Cardinality({j \in S : j < i}) = n - 1
  <1> DEFINE Below(i) == {j \in S : j < i}
             K == Cardinality(S)
             rank == [i \in S |-> Cardinality(Below(i)) + 1]
  <1>1. K \in Nat
    BY FS_CardinalityType
  <1>2. ASSUME NEW i \in S PROVE IsFiniteSet(Below(i)) /\ Cardinality(Below(i)) \in Nat
    <2>1. IsFiniteSet(Below(i))
      BY FS_Subset
    <2> HIDE DEF Below
    <2> QED
      BY <2>1, FS_CardinalityType
  <1>3. ASSUME NEW i \in S PROVE Cardinality(Below(i)) + 1 \in 1 .. K
    <2>1. IsFiniteSet(S \ {i}) /\ Cardinality(S \ {i}) = K - 1
      BY FS_RemoveElement
    <2>2. Below(i) \in SUBSET (S \ {i})
      OBVIOUS
    <2>3. Cardinality(Below(i)) <= K - 1
      <3> HIDE DEF Below
      <3> QED
        BY <2>1, <2>2, FS_Subset
    <2> QED
      BY <1>1, <1>2, <2>3
  <1>4. ASSUME NEW i \in S, NEW k \in S, i < k
        PROVE  Cardinality(Below(i)) < Cardinality(Below(k))
    <2>1. i \notin Below(i) /\ Below(i) \cup {i} \in SUBSET Below(k)
      <3>1. i \in Nat /\ k \in Nat /\ \A j \in S : j \in Nat
        OBVIOUS
      <3>2. \A j \in S : j < i => j < k
        BY <1>4, <3>1
      <3>3. i \notin Below(i)
        BY <3>1
      <3>4. \A j \in Below(i) \cup {i} : j \in Below(k)
        BY <1>4, <3>2
      <3> HIDE DEF Below
      <3> QED
        BY <3>3, <3>4
    <2> HIDE DEF Below
    <2>2. Cardinality(Below(i) \cup {i}) = Cardinality(Below(i)) + 1
      BY <1>2, <2>1, FS_AddElement
    <2>3. Cardinality(Below(i) \cup {i}) <= Cardinality(Below(k))
      BY <1>2, <2>1, FS_Subset
    <2>4. Cardinality(Below(i)) \in Nat /\ Cardinality(Below(k)) \in Nat
      BY <1>2
    <2> QED
      BY <2>2, <2>3, <2>4
  <1>5. ASSUME NEW i \in S, NEW k \in S, Cardinality(Below(i)) = Cardinality(Below(k))
        PROVE  i = k
    <2>1. i \in Nat /\ k \in Nat
      OBVIOUS
    <2>2. ~ (i < k) /\ ~ (k < i)
      <3> HIDE DEF Below
      <3> QED
        BY <1>2, <1>4, <1>5
    <2> QED
      BY <2>1, <2>2
  <1> HIDE DEF Below
  <1>6. rank \in [S -> 1 .. K]
    BY <1>3
  <1>7. \A i, k \in S : rank[i] = rank[k] => i = k
    BY <1>2, <1>5
  <1>8. rank \in Injection(S, 1 .. K)
    <2> HIDE DEF rank
    <2> QED
      BY <1>6, <1>7, Fun_IsInj
  <1>9. IsFiniteSet(1 .. K) /\ Cardinality(1 .. K) = K
    BY <1>1, FS_Interval
  <1>10. rank \in Surjection(S, 1 .. K)
    <2> HIDE DEF rank
    <2> QED
      BY <1>8, <1>9, FS_Injection
  <1>11. \A n \in 1 .. K : \E i \in S : rank[i] = n
    <2> HIDE DEF rank
    <2> QED
      BY <1>10, Fun_SurjectionProperties
  <1>12. \A n \in 1 .. K : \E i \in S : Cardinality(Below(i)) = n - 1
    BY <1>1, <1>2, <1>11
  <1> QED
    BY <1>1, <1>3, <1>5, <1>12 DEF Below
=============================================================================
