-------------------------- MODULE ClientLinks_proofs --------------------------
(***************************************************************************)
(* What the scripts achieve, for every finite set of VLANs and any number  *)
(* of runs, wherever they are broken off.                                  *)
(*                                                                         *)
(* A script is the concatenation of walks over one sorted list.  The proof *)
(* that a set of numbers has such a list comes first.                      *)
(***************************************************************************)
EXTENDS ClientLinks, FiniteSetTheorems, TLAPS
-----------------------------------------------------------------------------
(* sorted().                                                               *)

\* A finite set of numbers can be listed in their order, each one once.
LEMMA Enumerated ==
  ASSUME NEW S \in SUBSET Nat, IsFiniteSet(S)
  PROVE  \E s \in [1..Cardinality(S) -> S] :
            /\ \A i, j \in 1..Cardinality(S) : i < j => s[i] < s[j]
            /\ \A i, j \in 1..Cardinality(S) : i # j => s[i] # s[j]
<1> DEFINE N == Cardinality(S)
           upTo(x) == {y \in S : y <= x}
           rank == [x \in S |-> Cardinality(upTo(x))]
           s == [i \in 1..N |-> CHOOSE x \in S : rank[x] = i]
<1>0. \A x \in S : x \in Nat
  OBVIOUS
<1>1. N \in Nat
  BY FS_CardinalityType
<1>2. ASSUME NEW x \in S
      PROVE  upTo(x) \in SUBSET S /\ IsFiniteSet(upTo(x)) /\ Cardinality(upTo(x)) \in 1..N
  <2>1. upTo(x) \in SUBSET S /\ x \in upTo(x)
    OBVIOUS
  <2>2. IsFiniteSet(upTo(x)) /\ Cardinality(upTo(x)) <= N
    BY <2>1, FS_Subset
  <2>3. Cardinality(upTo(x)) \in Nat /\ Cardinality(upTo(x)) # 0
    BY <2>1, <2>2, FS_CardinalityType, FS_EmptySet
  <2> QED
    BY <1>1, <2>1, <2>2, <2>3
<1>3. rank \in [S -> 1..N] /\ \A x \in S : rank[x] = Cardinality(upTo(x))
  BY <1>2
<1>4. ASSUME NEW x \in S, NEW y \in S, x < y
      PROVE  rank[x] < rank[y]
  <2>1. upTo(x) \in SUBSET upTo(y) /\ y \in upTo(y) /\ y \notin upTo(x)
    <3>1. x \in Nat /\ y \in Nat
      BY <1>0
    <3>2. \A z \in upTo(x) : z \in S /\ z \in Nat /\ z <= x
      BY <1>0
    <3>3. \A z \in upTo(x) : z \in upTo(y)
      BY <1>4, <3>1, <3>2
    <3>4. y \in upTo(y) /\ y \notin upTo(x)
      BY <1>4, <3>1
    <3> QED
      BY <3>3, <3>4
  <2>2. Cardinality(upTo(x)) <= Cardinality(upTo(y)) /\ Cardinality(upTo(x)) # Cardinality(upTo(y))
    BY <2>1, <1>2, FS_Subset
  <2> QED
    BY <2>2, <1>2, <1>3
<1>5. \A x, y \in S : rank[x] = rank[y] => x = y
  <2> SUFFICES ASSUME NEW x \in S, NEW y \in S, rank[x] = rank[y] PROVE x = y
    OBVIOUS
  <2>1. rank[x] \in Int /\ rank[y] \in Int
    BY <1>1, <1>3
  <2>2. ~(x < y) /\ ~(y < x)
    BY <1>4, <2>1
  <2> QED
    BY <1>0, <2>2
<1>6. rank \in Injection(S, 1..N)
  BY <1>3, <1>5 DEF Injection, IsInjective
<1>7. IsFiniteSet(1..N) /\ Cardinality(1..N) = N
  BY <1>1, FS_Interval
<1>8. rank \in Surjection(S, 1..N)
  BY <1>6, <1>7, FS_Injection
<1>9. \A i \in 1..N : \E x \in S : rank[x] = i
  BY <1>8 DEF Surjection
<1>10. \A i \in 1..N : s[i] \in S /\ rank[s[i]] = i
  BY <1>9
<1>11. s \in [1..N -> S]
  BY <1>10
<1> HIDE DEF s, rank
<1>12. ASSUME NEW i \in 1..N, NEW j \in 1..N, i < j
       PROVE  s[i] < s[j]
  <2>1. s[i] \in S /\ s[j] \in S /\ rank[s[i]] = i /\ rank[s[j]] = j
    BY <1>10
  <2>2. ~(s[j] < s[i])
    <3> SUFFICES ASSUME s[j] < s[i] PROVE FALSE
      OBVIOUS
    <3>1. rank[s[j]] < rank[s[i]]
      BY <2>1, <1>4
    <3> QED
      BY <3>1, <2>1, <1>12, <1>1
  <2>3. s[i] # s[j]
    <3> SUFFICES ASSUME s[i] = s[j] PROVE FALSE
      OBVIOUS
    <3> QED
      BY <2>1, <1>12, <1>1
  <2>4. s[i] \in Nat /\ s[j] \in Nat
    BY <1>0, <2>1
  <2> QED
    BY <2>2, <2>3, <2>4
<1>13. \A i, j \in 1..N : i # j => s[i] # s[j]
  BY <1>10
<1> QED
  BY <1>11, <1>12, <1>13

\* A list of a finite set without repetitions misses nothing.
LEMMA ListsAll ==
  ASSUME NEW S, IsFiniteSet(S), NEW s \in [1..Cardinality(S) -> S],
         \A i, j \in 1..Cardinality(S) : i # j => s[i] # s[j]
  PROVE  /\ \A x \in S : \E i \in 1..Cardinality(S) : s[i] = x
         /\ Len(s) = Cardinality(S) /\ Len(s) \in Nat /\ s \in Seq(S)
<1>1. Cardinality(S) \in Nat
  BY FS_CardinalityType
<1>2. s \in Injection(1..Cardinality(S), S)
  BY DEF Injection, IsInjective
<1>3. IsFiniteSet(1..Cardinality(S)) /\ Cardinality(1..Cardinality(S)) = Cardinality(S)
  BY <1>1, FS_Interval
<1>4. s \in Surjection(1..Cardinality(S), S)
  BY <1>2, <1>3, FS_Injection
<1>5. \A x \in S : \E i \in 1..Cardinality(S) : s[i] = x
  BY <1>4 DEF Surjection
<1>6. Len(s) = Cardinality(S) /\ s \in Seq(S)
  BY <1>1
<1> QED
  BY <1>1, <1>5, <1>6

\* sorted() of configure_vlans.py.
LEMMA SortedRange ==
  ASSUME NEW S \in SUBSET Nat, IsFiniteSet(S)
  PROVE  /\ Sorted(S) \in [1..Cardinality(S) -> S]
         /\ Len(Sorted(S)) = Cardinality(S)
         /\ \A i, j \in 1..Cardinality(S) : i < j => Sorted(S)[i] < Sorted(S)[j]
         /\ \A x \in S : \E i \in 1..Cardinality(S) : Sorted(S)[i] = x
<1> DEFINE good(s) == /\ s \in SetToSeqs(S)
                      /\ \A i, j \in 1..Len(s) : i < j => s[i] < s[j]
<1>1. SetToSeqs(S) = {f \in [1..Cardinality(S) -> S] :
                        \A i, j \in 1..Cardinality(S) : i # j => f[i] # f[j]}
  BY DEF SetToSeqs
<1>2. PICK s \in [1..Cardinality(S) -> S] :
         /\ \A i, j \in 1..Cardinality(S) : i < j => s[i] < s[j]
         /\ \A i, j \in 1..Cardinality(S) : i # j => s[i] # s[j]
  BY Enumerated
<1>3. Len(s) = Cardinality(S)
  BY <1>2, ListsAll
<1>4. good(s)
  BY <1>1, <1>2, <1>3
<1>5. Sorted(S) = CHOOSE q \in SetToSeqs(S) : \A i, j \in 1..Len(q) : i < j => q[i] < q[j]
  BY DEF Sorted, IsSorted
<1>6. good(Sorted(S))
  BY <1>4, <1>5
<1>7. /\ Sorted(S) \in [1..Cardinality(S) -> S]
      /\ \A i, j \in 1..Cardinality(S) : i # j => Sorted(S)[i] # Sorted(S)[j]
  BY <1>1, <1>6
<1>8. /\ Len(Sorted(S)) = Cardinality(S)
      /\ \A x \in S : \E i \in 1..Cardinality(S) : Sorted(S)[i] = x
  BY <1>7, ListsAll
<1>9. \A i, j \in 1..Cardinality(S) : i < j => Sorted(S)[i] < Sorted(S)[j]
  BY <1>6, <1>8
<1> QED
  BY <1>7, <1>8, <1>9

-----------------------------------------------------------------------------
(* The scripts.                                                            *)

\* One sequence after another.
LEMMA ConcatFacts ==
  ASSUME NEW T, NEW s \in Seq(T), NEW u \in Seq(T)
  PROVE  /\ s \o u \in Seq(T)
         /\ Len(s \o u) = Len(s) + Len(u)
         /\ \A n \in 1..Len(s) : (s \o u)[n] = s[n]
         /\ \A n \in 1..Len(u) : (s \o u)[Len(s) + n] = u[n]
  OBVIOUS

\* The VLANs of a run.
LEMMA RangeFacts ==
  ASSUME NEW range \in SUBSET Vlan
  PROVE  /\ Cardinality(range) \in Nat
         /\ Sorted(range) \in [1..Cardinality(range) -> range]
         /\ Len(Sorted(range)) = Cardinality(range)
         /\ \A i, j \in 1..Cardinality(range) : Sorted(range)[i] = Sorted(range)[j] => i = j
         /\ \A x \in range : \E i \in 1..Cardinality(range) : Sorted(range)[i] = x
<1>1. range \in SUBSET Nat /\ IsFiniteSet(range)
  <2>1. IsFiniteSet(1..4094)
    <3> DEFINE n == 4094
    <3>1. n \in Nat
      OBVIOUS
    <3> HIDE DEF n
    <3>2. IsFiniteSet(1..n)
      BY <3>1, FS_Interval
    <3> QED
      BY <3>2 DEF n
  <2>2. range \in SUBSET (1..4094) /\ \A x \in range : x \in Nat
    BY LinksAssumption
  <2>3. IsFiniteSet(range)
    <3> DEFINE S == 1..4094
    <3>1. IsFiniteSet(S) /\ range \in SUBSET S
      BY <2>1, <2>2
    <3> HIDE DEF S
    <3> QED
      BY <3>1, FS_Subset
  <2> QED
    BY <2>2, <2>3
<1>2. Cardinality(range) \in Nat
  BY <1>1, FS_CardinalityType
<1>3. /\ Sorted(range) \in [1..Cardinality(range) -> range]
      /\ \A i, j \in 1..Cardinality(range) : i < j => Sorted(range)[i] < Sorted(range)[j]
  BY <1>1, SortedRange
<1>4. ASSUME NEW i \in 1..Cardinality(range), NEW j \in 1..Cardinality(range),
             Sorted(range)[i] = Sorted(range)[j]
      PROVE  i = j
  <2>1. Sorted(range)[i] \in Nat /\ Sorted(range)[j] \in Nat
    BY <1>1, <1>3
  <2>2. ~(i < j) /\ ~(j < i)
    BY <1>3, <1>4, <2>1
  <2> QED
    BY <1>2, <2>2
<1> QED
  BY <1>1, <1>2, <1>3, <1>4, SortedRange

\* Lines of one kind: one per VLAN.
LEMMA OneEach ==
  ASSUME NEW range \in SUBSET Vlan, NEW does, NEW b
  PROVE  LET m == Cardinality(range)
             L == Lines(range, <<does>>, b)
         IN  /\ Len(L) = m /\ L \in Seq({does} \X range \X {b})
             /\ \A j \in 1..m : L[j] = <<does, Sorted(range)[j], b>>
<1> DEFINE m == Cardinality(range)
           srt == Sorted(range)
           L == Lines(range, <<does>>, b)
<1>1. m \in Nat /\ srt \in [1..m -> range] /\ Len(srt) = m
  BY RangeFacts
<1>2. Len(<<does>>) = 1 /\ <<does>>[1] = does
  OBVIOUS
<1>3. L = [n \in 1..(Len(<<does>>) * Len(srt)) |->
             <<<<does>>[((n - 1) % Len(<<does>>)) + 1], srt[((n - 1) \div Len(<<does>>)) + 1], b>>]
  BY DEF Lines
<1> HIDE DEF m, srt, L
<1>4. L = [n \in 1..m |-> <<<<does>>[((n - 1) % 1) + 1], srt[((n - 1) \div 1) + 1], b>>]
  BY <1>1, <1>2, <1>3
<1>5. \A n \in 1..m : ((n - 1) % 1) + 1 = 1 /\ ((n - 1) \div 1) + 1 = n
  BY <1>1
<1>6. \A j \in 1..m : L[j] = <<does, srt[j], b>> /\ srt[j] \in range
  BY <1>1, <1>2, <1>4, <1>5
<1>7. L = [n \in 1..m |-> <<does, srt[n], b>>]
  BY <1>4, <1>6
<1>8. L \in Seq({does} \X range \X {b}) /\ Len(L) = m
  BY <1>1, <1>6, <1>7
<1> QED
  BY <1>6, <1>8 DEF m, srt, L

\* L has the three lines x, y, z for every VLAN of the range, in order.
Threes(L, range, x, y, z, b) ==
  LET m   == Cardinality(range)
      srt == Sorted(range)
  IN  /\ Len(L) = 3 * m /\ L \in Seq({x, y, z} \X range \X {b})
      /\ \A j \in 1..m : /\ L[3 * j - 2] = <<x, srt[j], b>>
                         /\ L[3 * j - 1] = <<y, srt[j], b>>
                         /\ L[3 * j] = <<z, srt[j], b>>

\* Three lines for every VLAN.
LEMMA ThreeEach ==
  ASSUME NEW range \in SUBSET Vlan, NEW x, NEW y, NEW z, NEW b
  PROVE  Threes(Lines(range, <<x, y, z>>, b), range, x, y, z, b)
<1> DEFINE m == Cardinality(range)
           srt == Sorted(range)
           L == Lines(range, <<x, y, z>>, b)
<1>1. m \in Nat /\ srt \in [1..m -> range] /\ Len(srt) = m
  BY RangeFacts
<1>2. Len(<<x, y, z>>) = 3 /\ <<x, y, z>>[1] = x /\ <<x, y, z>>[2] = y /\ <<x, y, z>>[3] = z
  OBVIOUS
<1>3. L = [n \in 1..(Len(<<x, y, z>>) * Len(srt)) |->
             <<<<x, y, z>>[((n - 1) % Len(<<x, y, z>>)) + 1],
               srt[((n - 1) \div Len(<<x, y, z>>)) + 1], b>>]
  BY DEF Lines
<1> HIDE DEF m, srt, L
<1>4. L = [n \in 1..(3 * m) |->
             <<<<x, y, z>>[((n - 1) % 3) + 1], srt[((n - 1) \div 3) + 1], b>>]
  BY <1>1, <1>2, <1>3
<1>5. ASSUME NEW n \in 1..(3 * m)
      PROVE  L[n] \in {x, y, z} \X range \X {b}
  <2>1. ((n - 1) % 3) + 1 \in {1, 2, 3} /\ ((n - 1) \div 3) + 1 \in 1..m
    BY <1>1
  <2>2. <<x, y, z>>[((n - 1) % 3) + 1] \in {x, y, z}
    BY <1>2, <2>1
  <2>3. srt[((n - 1) \div 3) + 1] \in range
    BY <1>1, <2>1
  <2> QED
    BY <1>4, <2>2, <2>3
<1>6. ASSUME NEW j \in 1..m
      PROVE  /\ L[3 * j - 2] = <<x, srt[j], b>>
             /\ L[3 * j - 1] = <<y, srt[j], b>>
             /\ L[3 * j] = <<z, srt[j], b>>
  <2>1. 3 * j - 2 \in 1..(3 * m) /\ 3 * j - 1 \in 1..(3 * m) /\ 3 * j \in 1..(3 * m)
    BY <1>1
  <2>2. (((3 * j - 2) - 1) % 3) + 1 = 1 /\ (((3 * j - 2) - 1) \div 3) + 1 = j
    BY <1>1
  <2>3. (((3 * j - 1) - 1) % 3) + 1 = 2 /\ (((3 * j - 1) - 1) \div 3) + 1 = j
    BY <1>1
  <2>4. ((3 * j - 1) % 3) + 1 = 3 /\ ((3 * j - 1) \div 3) + 1 = j
    BY <1>1
  <2>5. L[3 * j - 2] = <<x, srt[j], b>>
    BY <1>2, <1>4, <2>1, <2>2
  <2>6. L[3 * j - 1] = <<y, srt[j], b>>
    BY <1>2, <1>4, <2>1, <2>3
  <2>7. L[3 * j] = <<z, srt[j], b>>
    BY <1>2, <1>4, <2>1, <2>4
  <2> QED
    BY <2>5, <2>6, <2>7
<1>7. Len(L) = 3 * m
  BY <1>1, <1>4
<1>8. L \in Seq({x, y, z} \X range \X {b})
  <2>1. L \in [1..(3 * m) -> {x, y, z} \X range \X {b}] /\ 3 * m \in Nat
    BY <1>1, <1>4, <1>5
  <2> QED
    BY <2>1
<1> QED
  BY <1>6, <1>7, <1>8 DEF m, srt, L, Threes

Batch4 == {"links", "addresses", "alone", "deletes"}

\* Where the line is that does d for the j-th of m VLANs.
Place(d, j, m) ==
  CASE d = "add"     -> 3 * j - 2
    [] d = "mac"     -> 3 * j - 1
    [] d = "up"      -> 3 * j
    [] d = "address" -> 3 * m + j
    [] d = "quiet"   -> 4 * m + j

\* The script F does each of D once for every VLAN of the range.
Walks(F, range, D) ==
  /\ F \in Seq(D \X range \X Batch4)
  /\ \A d \in D : \A j \in 1..Cardinality(range) :
       LET n == Place(d, j, Cardinality(range))
       IN  n \in 1..Len(F) /\ F[n][1] = d /\ F[n][2] = Sorted(range)[j]
  /\ \A n \in 1..Len(F) : \E d \in D : \E j \in 1..Cardinality(range) :
       n = Place(d, j, Cardinality(range))

\* The places of the lines that setup and trigger begin with.
LEMMA FirstPlaces ==
  ASSUME NEW m \in Nat, NEW n \in 1..(4 * m)
  PROVE  \E d \in {"add", "mac", "up", "address"} : \E j \in 1..m : n = Place(d, j, m)
<1>1. CASE n <= 3 * m
  <2>1. PICK j \in 1..m : n = 3 * j - 2 \/ n = 3 * j - 1 \/ n = 3 * j
    <3>1. ((n + 2) \div 3) \in 1..m
      BY <1>1
    <3>2. n = 3 * ((n + 2) \div 3) - 2 \/ n = 3 * ((n + 2) \div 3) - 1 \/ n = 3 * ((n + 2) \div 3)
      BY <1>1
    <3> QED
      BY <3>1, <3>2
  <2> QED
    BY <2>1 DEF Place
<1>2. CASE n > 3 * m
  <2>1. n - 3 * m \in 1..m /\ n = 3 * m + (n - 3 * m)
    BY <1>2
  <2>2. n = Place("address", n - 3 * m, m)
    BY <2>1 DEF Place
  <2> QED
    BY <2>1, <2>2
<1> QED
  BY <1>1, <1>2

\* What the lines of a trigger and of a setup do.
TriggerDoes == {"add", "mac", "up", "address"}
SetupDoes   == TriggerDoes \cup {"quiet"}

\* F is the part that setup and trigger begin with.
Begins(F, range, b, c) ==
  LET m   == Cardinality(range)
      srt == Sorted(range)
  IN  /\ F \in Seq(TriggerDoes \X range \X {b, c}) /\ Len(F) = 4 * m /\ m \in Nat
      /\ \A d \in TriggerDoes : \A j \in 1..m :
           LET n == Place(d, j, m)
           IN  n \in 1..(4 * m) /\ F[n][1] = d /\ F[n][2] = srt[j]

\* What setup and trigger have in common.
LEMMA BeginningWalks ==
  ASSUME NEW range \in SUBSET Vlan, NEW b \in Batch4, NEW c \in Batch4
  PROVE  Begins(Lines(range, <<"add", "mac", "up">>, b)
                \o Lines(range, <<"address">>, c), range, b, c)
<1> DEFINE m == Cardinality(range)
           srt == Sorted(range)
           A == Lines(range, <<"add", "mac", "up">>, b)
           B == Lines(range, <<"address">>, c)
           F == A \o B
           D == {"add", "mac", "up", "address"}
           U == D \X range \X {b, c}
<1>1. m \in Nat
  BY RangeFacts
<1>2. /\ Len(A) = 3 * m /\ A \in Seq({"add", "mac", "up"} \X range \X {b})
      /\ \A j \in 1..m : /\ A[3 * j - 2] = <<"add", srt[j], b>>
                         /\ A[3 * j - 1] = <<"mac", srt[j], b>>
                         /\ A[3 * j] = <<"up", srt[j], b>>
  <2>1. Threes(A, range, "add", "mac", "up", b)
    BY ThreeEach
  <2> QED
    BY <2>1 DEF Threes
<1>3. /\ Len(B) = m /\ B \in Seq({"address"} \X range \X {c})
      /\ \A j \in 1..m : B[j] = <<"address", srt[j], c>>
  BY OneEach
<1> HIDE DEF m, srt, A, B
<1>4. A \in Seq(U) /\ B \in Seq(U)
  <2>1. \A n \in 1..Len(A) : A[n] \in U
    BY <1>2
  <2>2. \A n \in 1..Len(B) : B[n] \in U
    BY <1>3
  <2> QED
    BY <1>2, <1>3, <2>1, <2>2
<1> HIDE DEF U
<1>5. /\ F \in Seq(U) /\ Len(F) = Len(A) + Len(B)
      /\ \A n \in 1..Len(A) : F[n] = A[n]
      /\ \A n \in 1..Len(B) : F[Len(A) + n] = B[n]
  BY <1>4, ConcatFacts
<1> HIDE DEF F
<1>6. Len(F) = 4 * m
  BY <1>1, <1>2, <1>3, <1>5
<1>7. ASSUME NEW j \in 1..m
      PROVE  /\ 3 * j - 2 \in 1..(3 * m) /\ 3 * j - 1 \in 1..(3 * m) /\ 3 * j \in 1..(3 * m)
             /\ 3 * m + j \in 1..(4 * m)
  BY <1>1
<1>8. ASSUME NEW d \in D, NEW j \in 1..m
      PROVE  Place(d, j, m) \in 1..(4 * m) /\ F[Place(d, j, m)][1] = d /\ F[Place(d, j, m)][2] = srt[j]
  <2>1. CASE d = "add"
    <3>1. Place(d, j, m) = 3 * j - 2
      BY <2>1 DEF Place
    <3>2. F[3 * j - 2] = <<"add", srt[j], b>>
      BY <1>2, <1>5, <1>7
    <3> QED
      BY <1>1, <1>7, <2>1, <3>1, <3>2
  <2>2. CASE d = "mac"
    <3>1. Place(d, j, m) = 3 * j - 1
      BY <2>2 DEF Place
    <3>2. F[3 * j - 1] = <<"mac", srt[j], b>>
      BY <1>2, <1>5, <1>7
    <3> QED
      BY <1>1, <1>7, <2>2, <3>1, <3>2
  <2>3. CASE d = "up"
    <3>1. Place(d, j, m) = 3 * j
      BY <2>3 DEF Place
    <3>2. F[3 * j] = <<"up", srt[j], b>>
      BY <1>2, <1>5, <1>7
    <3> QED
      BY <1>1, <1>7, <2>3, <3>1, <3>2
  <2>4. CASE d = "address"
    <3>1. Place(d, j, m) = 3 * m + j
      BY <2>4 DEF Place
    <3>2. F[3 * m + j] = <<"address", srt[j], c>>
      BY <1>2, <1>3, <1>5
    <3> QED
      BY <1>7, <2>4, <3>1, <3>2
  <2> QED
    BY <2>1, <2>2, <2>3, <2>4
<1>9. Begins(F, range, b, c)
  BY <1>1, <1>5, <1>6, <1>8 DEF Begins, TriggerDoes, m, srt, U
<1> QED
  BY <1>9 DEF F, A, B

\* The trigger script, each line of which is on its own.
LEMMA TriggerWalks ==
  ASSUME NEW range \in SUBSET Vlan
  PROVE  LET F == Trigger(range)
         IN  Walks(F, range, TriggerDoes) /\ \A n \in 1..Len(F) : F[n][3] = "alone"
<1> DEFINE m == Cardinality(range)
           srt == Sorted(range)
           F == Trigger(range)
           D == TriggerDoes
<1>1. F = Lines(range, <<"add", "mac", "up">>, "alone")
          \o Lines(range, <<"address">>, "alone")
  BY DEF Trigger
<1>2. /\ F \in Seq(D \X range \X {"alone", "alone"}) /\ Len(F) = 4 * m /\ m \in Nat
      /\ \A d \in D : \A j \in 1..m :
            Place(d, j, m) \in 1..(4 * m) /\ F[Place(d, j, m)][1] = d /\ F[Place(d, j, m)][2] = srt[j]
  <2>1. Begins(F, range, "alone", "alone")
    BY <1>1, BeginningWalks DEF Batch4
  <2> QED
    BY <2>1 DEF Begins
<1> HIDE DEF m, srt, F, D
<1>3. \A n \in 1..(4 * m) : F[n] \in D \X range \X {"alone"}
  BY <1>2
<1>4. F \in Seq(D \X range \X Batch4) /\ \A n \in 1..Len(F) : F[n][3] = "alone"
  <2>1. \A n \in 1..Len(F) : F[n] \in D \X range \X Batch4 /\ F[n][3] = "alone"
    BY <1>2, <1>3 DEF Batch4
  <2> QED
    BY <1>2, <2>1
<1>5. \A n \in 1..(4 * m) : \E d \in D : \E j \in 1..m : n = Place(d, j, m)
  BY <1>2, FirstPlaces DEF D, TriggerDoes
<1>6. Walks(F, range, D)
  BY <1>2, <1>4, <1>5 DEF Walks, m, srt
<1> QED
  BY <1>4, <1>6 DEF F, D

\* The setup script; only the lines that switch IPv6 off are on their own.
LEMMA SetupWalks ==
  ASSUME NEW range \in SUBSET Vlan
  PROVE  LET F == Setup(range)
         IN  /\ Walks(F, range, SetupDoes)
             /\ \A n \in 1..Len(F) : F[n][3] = "alone" <=> F[n][1] = "quiet"
<1> DEFINE m == Cardinality(range)
           srt == Sorted(range)
           F == Setup(range)
           A == Lines(range, <<"add", "mac", "up">>, "links")
                \o Lines(range, <<"address">>, "addresses")
           Q == Lines(range, <<"quiet">>, "alone")
           D == SetupDoes
           U == D \X range \X Batch4
<1>1. F = A \o Q
  BY DEF Setup
<1>2. /\ A \in Seq(TriggerDoes \X range \X {"links", "addresses"}) /\ Len(A) = 4 * m /\ m \in Nat
      /\ \A d \in TriggerDoes : \A j \in 1..m :
            Place(d, j, m) \in 1..(4 * m) /\ A[Place(d, j, m)][1] = d /\ A[Place(d, j, m)][2] = srt[j]
  <2>1. Begins(A, range, "links", "addresses")
    BY BeginningWalks DEF Batch4
  <2> QED
    BY <2>1 DEF Begins
<1>3. /\ Len(Q) = m /\ Q \in Seq({"quiet"} \X range \X {"alone"})
      /\ \A j \in 1..m : Q[j] = <<"quiet", srt[j], "alone">>
  BY OneEach
<1>4. srt \in [1..m -> range]
  BY RangeFacts
<1> HIDE DEF m, srt, F, A, Q
<1>5. /\ \A n \in 1..Len(A) : A[n] \in U /\ A[n][1] # "quiet" /\ A[n][3] # "alone"
      /\ \A n \in 1..Len(Q) : Q[n] \in U /\ Q[n][1] = "quiet" /\ Q[n][3] = "alone"
  <2>1. \A n \in 1..Len(A) : A[n] \in TriggerDoes \X range \X {"links", "addresses"}
    BY <1>2
  <2>2. \A n \in 1..Len(Q) : Q[n] \in {"quiet"} \X range \X {"alone"}
    BY <1>3
  <2> QED
    BY <2>1, <2>2 DEF TriggerDoes, SetupDoes, Batch4
<1> HIDE DEF D, U
<1>6. A \in Seq(U) /\ Q \in Seq(U)
  BY <1>2, <1>3, <1>5
<1>7. /\ F \in Seq(U) /\ Len(F) = Len(A) + Len(Q)
      /\ \A n \in 1..Len(A) : F[n] = A[n]
      /\ \A n \in 1..Len(Q) : F[Len(A) + n] = Q[n]
  BY <1>1, <1>6, ConcatFacts
<1>8. Len(F) = 5 * m
  BY <1>2, <1>3, <1>7
<1>9. \A n \in 1..Len(F) : n \in 1..Len(A) \/ (n - 4 * m \in 1..Len(Q) /\ n = Len(A) + (n - 4 * m))
  BY <1>2, <1>3, <1>8
<1>10. \A n \in 1..Len(F) : F[n][3] = "alone" <=> F[n][1] = "quiet"
  <2> SUFFICES ASSUME NEW n \in 1..Len(F) PROVE F[n][3] = "alone" <=> F[n][1] = "quiet"
    OBVIOUS
  <2>1. CASE n \in 1..Len(A)
    BY <1>5, <1>7, <2>1
  <2>2. CASE n - 4 * m \in 1..Len(Q) /\ n = Len(A) + (n - 4 * m)
    <3>1. F[n] = Q[n - 4 * m]
      BY <1>7, <2>2
    <3> QED
      BY <1>5, <2>2, <3>1
  <2> QED
    BY <1>9, <2>1, <2>2
<1>11. ASSUME NEW d \in D, NEW j \in 1..m
       PROVE  Place(d, j, m) \in 1..Len(F) /\ F[Place(d, j, m)][1] = d /\ F[Place(d, j, m)][2] = srt[j]
  <2>1. CASE d \in TriggerDoes
    <3>1. Place(d, j, m) \in 1..(4 * m) /\ A[Place(d, j, m)][1] = d /\ A[Place(d, j, m)][2] = srt[j]
      BY <1>2, <2>1
    <3>2. Place(d, j, m) \in 1..Len(A) /\ Place(d, j, m) \in 1..Len(F)
      BY <1>2, <1>8, <3>1
    <3> QED
      BY <1>7, <3>1, <3>2
  <2>2. CASE d = "quiet"
    <3>1. Place(d, j, m) = 4 * m + j
      BY <2>2 DEF Place
    <3>2. j \in 1..Len(Q) /\ 4 * m + j = Len(A) + j /\ 4 * m + j \in 1..Len(F)
      BY <1>2, <1>3, <1>8
    <3>3. F[4 * m + j] = <<"quiet", srt[j], "alone">>
      BY <1>3, <1>7, <3>2
    <3> QED
      BY <2>2, <3>1, <3>2, <3>3
  <2> QED
    BY <2>1, <2>2 DEF D, SetupDoes
<1>12. ASSUME NEW n \in 1..Len(F)
       PROVE  \E d \in D : \E j \in 1..m : n = Place(d, j, m)
  <2>1. CASE n \in 1..(4 * m)
    <3>1. \E d \in TriggerDoes : \E j \in 1..m : n = Place(d, j, m)
      BY <1>2, <2>1, FirstPlaces DEF TriggerDoes
    <3> QED
      BY <3>1 DEF D, SetupDoes
  <2>2. CASE n \notin 1..(4 * m)
    <3>1. n - 4 * m \in 1..m /\ n = 4 * m + (n - 4 * m)
      BY <1>2, <1>8, <2>2
    <3>2. n = Place("quiet", n - 4 * m, m) /\ "quiet" \in D
      BY <3>1 DEF Place, D, SetupDoes
    <3> QED
      BY <3>1, <3>2
  <2> QED
    BY <2>1, <2>2
<1>13. Walks(F, range, D)
  BY <1>7, <1>11, <1>12 DEF Walks, m, srt, U
<1> QED
  BY <1>10, <1>13 DEF F, D

\* In such a script every VLAN has each line once, the one that adds it first.
LEMMA WalkFacts ==
  ASSUME NEW range \in SUBSET Vlan, NEW D \in SUBSET SetupDoes, "add" \in D,
         NEW F, Walks(F, range, D)
  PROVE  /\ \A n \in 1..Len(F) : F[n][1] \in D /\ F[n][2] \in range
         /\ \A n \in 1..Len(F) : F[n][1] # "add" =>
              \E a \in 1..(n - 1) : F[a][1] = "add" /\ F[a][2] = F[n][2]
         /\ \A i, n \in 1..Len(F) : F[i][1] = F[n][1] /\ F[i][2] = F[n][2] => i = n
<1> DEFINE m == Cardinality(range)
           srt == Sorted(range)
<1>1. /\ m \in Nat /\ srt \in [1..m -> range]
      /\ \A i, j \in 1..m : srt[i] = srt[j] => i = j
  BY RangeFacts
<1>2. /\ F \in Seq(D \X range \X Batch4)
      /\ \A d \in D : \A j \in 1..m : Place(d, j, m) \in 1..Len(F)
           /\ F[Place(d, j, m)][1] = d /\ F[Place(d, j, m)][2] = srt[j]
      /\ \A n \in 1..Len(F) : \E d \in D : \E j \in 1..m : n = Place(d, j, m)
  BY DEF Walks
<1> HIDE DEF m, srt
<1>3. \A n \in 1..Len(F) : F[n][1] \in D /\ F[n][2] \in range
  <2>1. \A n \in 1..Len(F) : F[n] \in D \X range \X Batch4
    BY <1>2
  <2> QED
    BY <2>1
<1>4. ASSUME NEW n \in 1..Len(F), F[n][1] # "add"
      PROVE  \E a \in 1..(n - 1) : F[a][1] = "add" /\ F[a][2] = F[n][2]
  <2>1. PICK d \in D, j \in 1..m : n = Place(d, j, m)
    BY <1>2
  <2>2. F[n][1] = d /\ F[n][2] = srt[j] /\ d # "add"
    BY <1>2, <1>4, <2>1
  <2>3. /\ Place("add", j, m) = 3 * j - 2
        /\ Place("add", j, m) \in 1..Len(F)
        /\ F[Place("add", j, m)][1] = "add" /\ F[Place("add", j, m)][2] = srt[j]
    BY <1>2 DEF Place
  <2>4. n = 3 * j - 1 \/ n = 3 * j \/ n = 3 * m + j \/ n = 4 * m + j
    BY <2>1, <2>2 DEF Place, SetupDoes, TriggerDoes
  <2>5. 3 * j - 2 \in 1..(n - 1)
    BY <1>1, <2>4
  <2> QED
    BY <2>2, <2>3, <2>5
<1>5. ASSUME NEW i \in 1..Len(F), NEW n \in 1..Len(F), F[i][1] = F[n][1], F[i][2] = F[n][2]
      PROVE  i = n
  <2>1. PICK d \in D, j \in 1..m : i = Place(d, j, m)
    BY <1>2
  <2>2. PICK e \in D, l \in 1..m : n = Place(e, l, m)
    BY <1>2
  <2>a. F[i][1] = d /\ F[i][2] = srt[j]
    BY <1>2, <2>1
  <2>b. F[n][1] = e /\ F[n][2] = srt[l]
    BY <1>2, <2>2
  <2>3. d = e /\ srt[j] = srt[l]
    BY <1>5, <2>a, <2>b
  <2> QED
    BY <1>1, <2>1, <2>2, <2>3
<1> QED
  BY <1>3, <1>4, <1>5

\* Every VLAN has each of the lines.
LEMMA WalkReaches ==
  ASSUME NEW range \in SUBSET Vlan, NEW D \in SUBSET SetupDoes, "add" \in D,
         NEW F, Walks(F, range, D), NEW v \in range, NEW d \in D
  PROVE  \E n \in 1..Len(F) : F[n][1] = d /\ F[n][2] = v
<1> DEFINE m == Cardinality(range)
           srt == Sorted(range)
<1>1. \A w \in range : \E j \in 1..m : srt[j] = w
  BY RangeFacts
<1>2. \A e \in D : \A j \in 1..m : Place(e, j, m) \in 1..Len(F)
         /\ F[Place(e, j, m)][1] = e /\ F[Place(e, j, m)][2] = srt[j]
  BY DEF Walks
<1> HIDE DEF m, srt
<1>3. PICK j \in 1..m : srt[j] = v
  BY <1>1
<1>4. Place(d, j, m) \in 1..Len(F) /\ F[Place(d, j, m)][1] = d /\ F[Place(d, j, m)][2] = v
  BY <1>2, <1>3
<1> QED
  BY <1>4

\* cleanup_client deletes in the order of the VLANs.
LEMMA CleanupFacts ==
  ASSUME NEW range \in SUBSET Vlan
  PROVE  LET F == Cleanup(range)
         IN  /\ Len(F) = Cardinality(range) /\ F \in Seq({"delete"} \X range \X {"deletes"})
             /\ \A j \in 1..Cardinality(range) :
                  F[j] = <<"delete", Sorted(range)[j], "deletes">>
<1>1. Cleanup(range) = Lines(range, <<"delete">>, "deletes")
  BY DEF Cleanup
<1> QED
  BY <1>1, OneEach
-----------------------------------------------------------------------------
(* A script being carried out.                                             *)

\* The lines of setup, trigger and cleanup.
Line == (SetupDoes \cup {"delete"}) \X Vlan \X Batch4

\* s is what is left of the script F after its first p lines.
Left(s, F, p) ==
  /\ p \in 0..Len(F) /\ s \in Seq(Line)
  /\ Len(s) = Len(F) - p
  /\ \A n \in 1..Len(s) : s[n] = F[p + n]

\* The whole of a script, and none of it.
LEMMA LeftEnds ==
  ASSUME NEW F \in Seq(Line)
  PROVE  /\ Left(F, F, 0) /\ Left(<<>>, F, Len(F))
         /\ \A p : Left(<<>>, F, p) => p = Len(F)
<1>1. Len(F) \in Nat /\ F \in Seq(Line) /\ Len(<<>>) = 0
  OBVIOUS
<1>2. <<>> \in Seq(Line)
  OBVIOUS
<1>3. Left(F, F, 0)
  BY <1>1 DEF Left
<1>4. Left(<<>>, F, Len(F))
  BY <1>1, <1>2 DEF Left
<1>5. ASSUME NEW p, Left(<<>>, F, p) PROVE p = Len(F)
  BY <1>1, <1>5 DEF Left
<1> QED
  BY <1>3, <1>4, <1>5

\* Nothing is left only at the end.
LEMMA LeftOver ==
  ASSUME NEW s, NEW F, NEW p, Left(s, F, p), Len(F) \in Nat, s # <<>>
  PROVE  /\ p + 1 \in 1..Len(F) /\ Head(s) = F[p + 1]
         /\ F[p + 1] \in Line
<1>1. s \in Seq(Line) /\ Len(s) = Len(F) - p /\ p \in 0..Len(F) /\ \A n \in 1..Len(s) : s[n] = F[p + n]
  BY DEF Left
<1>2. Len(s) \in Nat /\ Len(s) # 0
  BY <1>1
<1>3. 1 \in 1..Len(s) /\ s[1] \in Line /\ Head(s) = s[1]
  BY <1>1, <1>2
<1> QED
  BY <1>1, <1>2, <1>3

\* The smallest of some positions.
LEMMA Smallest ==
  ASSUME NEW k \in Nat, NEW S \in SUBSET (1..k), S # {}
  PROVE  Min(S) \in S /\ \A n \in S : Min(S) <= n
<1>1. IsFiniteSet(S) /\ S \in SUBSET Nat
  <2>1. IsFiniteSet(1..k)
    BY FS_Interval
  <2>2. IsFiniteSet(S)
    BY <2>1, FS_Subset
  <2>3. \A x \in 1..k : x \in Nat
    OBVIOUS
  <2> QED
    BY <2>2, <2>3
<1>2. Cardinality(S) \in Nat /\ Cardinality(S) # 0
  BY <1>1, FS_CardinalityType, FS_EmptySet
<1> DEFINE srt == Sorted(S)
<1>3. /\ srt \in [1..Cardinality(S) -> S]
      /\ \A i, j \in 1..Cardinality(S) : i < j => srt[i] < srt[j]
      /\ \A x \in S : \E i \in 1..Cardinality(S) : srt[i] = x
  BY <1>1, SortedRange
<1> HIDE DEF srt
<1>4. srt[1] \in S /\ srt[1] \in Nat
  <2>1. 1 \in 1..Cardinality(S)
    BY <1>2
  <2> QED
    BY <1>1, <1>3, <2>1
<1>5. ASSUME NEW x \in S PROVE srt[1] <= x
  <2>1. PICK i \in 1..Cardinality(S) : srt[i] = x
    BY <1>3
  <2>2. 1 \in 1..Cardinality(S) /\ (i = 1 \/ 1 < i)
    BY <1>2
  <2>3. srt[1] < srt[i] \/ srt[1] = srt[i]
    BY <1>3, <2>2
  <2>4. x \in Nat
    BY <1>1
  <2> QED
    BY <1>4, <2>1, <2>3, <2>4
<1>6. \E x \in S : \A y \in S : x <= y
  BY <1>4, <1>5
<1> QED
  BY <1>6 DEF Min

\* What the next line leads to: the script goes on behind it, or behind the
\* rest of its batch.
GoesOn(s, F, p, q) ==
  /\ q \in (p + 1)..Len(F) /\ Left(s, F, q)
  /\ F[p + 1][3] = "alone" => q = p + 1
  /\ \A n \in (p + 2)..q : F[n][3] = F[p + 1][3]
  /\ q = p + 1 \/ q = Len(F) \/ F[q + 1][3] # F[p + 1][3]

\* The shell goes on after its line, or when that fails after its batch.
LEMMA GoingOn ==
  ASSUME NEW F, NEW p, Left(script, F, p), Len(F) \in Nat, script # <<>>
  PROVE  /\ GoesOn(Tail(script), F, p, p + 1)
         /\ \E q \in (p + 1)..Len(F) : GoesOn(Skip(F[p + 1]), F, p, q)
<1> DEFINE k == Len(script)
           line == F[p + 1]
<1>1. /\ p \in 0..Len(F) /\ script \in Seq(Line) /\ k = Len(F) - p
      /\ \A n \in 1..k : script[n] = F[p + n]
  BY DEF Left
<1>2. k \in Nat /\ k # 0
  BY <1>1
<1>3. /\ Tail(script) \in Seq(Line) /\ Len(Tail(script)) = k - 1
      /\ \A n \in 1..(k - 1) : Tail(script)[n] = script[n + 1]
  BY <1>1, <1>2
<1> HIDE DEF k, line
<1>4. GoesOn(Tail(script), F, p, p + 1)
  <2>1. p + 1 \in 0..Len(F) /\ k - 1 = Len(F) - (p + 1)
    BY <1>1, <1>2
  <2>2. \A n \in 1..(k - 1) : n + 1 \in 1..k /\ p + (n + 1) = (p + 1) + n
    BY <1>1, <1>2
  <2>3. \A n \in 1..(k - 1) : Tail(script)[n] = F[(p + 1) + n]
    BY <1>1, <1>3, <2>2
  <2>4. Left(Tail(script), F, p + 1)
    BY <1>3, <2>1, <2>3 DEF Left
  <2>5. p + 1 \in (p + 1)..Len(F) /\ ~ \E n \in (p + 2)..(p + 1) : TRUE
    BY <1>1, <2>1
  <2> QED
    BY <2>4, <2>5 DEF GoesOn
<1>5. CASE line[3] = "alone"
  <2>1. Skip(line) = Tail(script)
    BY <1>5 DEF Skip
  <2>2. p + 1 \in (p + 1)..Len(F)
    BY <1>4 DEF GoesOn
  <2> QED
    BY <1>4, <2>1, <2>2 DEF line
<1>6. CASE line[3] # "alone"
  <2> DEFINE after == {n \in 1..k : script[n][3] # line[3]}
  <2>1. Skip(line) = IF after = {} THEN <<>> ELSE SubSeq(script, Min(after), k)
    BY <1>6 DEF Skip, k
  <2>2. script[1] = line
    BY <1>1, <1>2 DEF line
  <2>3. CASE after = {}
    <3>1. Skip(line) = <<>>
      BY <2>1, <2>3
    <3>2. <<>> \in Seq(Line) /\ Len(<<>>) = 0
      OBVIOUS
    <3>3. Left(<<>>, F, Len(F))
      BY <1>1, <3>2 DEF Left
    <3>4. \A n \in (p + 2)..Len(F) : n - p \in 1..k /\ p + (n - p) = n
      BY <1>1, <1>2
    <3>5. ASSUME NEW n \in (p + 2)..Len(F) PROVE F[n][3] = line[3]
      <4>1. n - p \in 1..k /\ script[n - p] = F[n]
        BY <1>1, <3>4
      <4> QED
        BY <2>3, <4>1
    <3>6. Len(F) \in (p + 1)..Len(F)
      BY <1>1, <1>2
    <3>7. GoesOn(<<>>, F, p, Len(F))
      BY <1>6, <3>3, <3>5, <3>6 DEF GoesOn, line
    <3> QED
      BY <1>4, <3>1, <3>6, <3>7 DEF line
  <2>4. CASE after # {}
    <3> DEFINE a == Min(after)
               q == p + a - 1
    <3>1. a \in after /\ \A n \in after : a <= n
      BY <1>2, <2>4, Smallest
    <3> HIDE DEF after
    <3>2. a \in 1..k /\ script[a][3] # line[3]
      BY <3>1 DEF after
    <3> HIDE DEF a
    <3>3. a # 1
      BY <2>2, <3>2
    <3>4. /\ SubSeq(script, a, k) \in Seq(Line) /\ Len(SubSeq(script, a, k)) = k - a + 1
          /\ \A n \in 1..(k - a + 1) : SubSeq(script, a, k)[n] = script[a + n - 1]
      <4>1. k - a + 1 \in Nat /\ \A n \in 1..(k - a + 1) : a + n - 1 \in 1..k
        BY <1>2, <3>2
      <4>2. SubSeq(script, a, k) = [n \in 1..(k - a + 1) |-> script[a + n - 1]]
        BY <1>1, <1>2, <3>2
      <4>3. \A n \in 1..(k - a + 1) : script[a + n - 1] \in Line
        BY <1>1, <4>1 DEF k
      <4> QED
        BY <4>1, <4>2, <4>3
    <3>5. q \in (p + 1)..Len(F) /\ k - a + 1 = Len(F) - q /\ q \in 0..Len(F) /\ q + 1 = p + a
      BY <1>1, <1>2, <3>2, <3>3
    <3>6. \A n \in 1..(k - a + 1) : a + n - 1 \in 1..k /\ p + (a + n - 1) = q + n
      BY <1>1, <1>2, <3>2
    <3>7. \A n \in 1..(k - a + 1) : SubSeq(script, a, k)[n] = F[q + n]
      BY <1>1, <3>4, <3>6
    <3>8. \A n \in (p + 2)..q : n - p \in 1..k /\ p + (n - p) = n /\ n - p < a
      BY <1>1, <1>2, <3>2
    <3>9. ASSUME NEW n \in (p + 2)..q PROVE F[n][3] = line[3]
      <4>1. n - p \in 1..k /\ F[n] = script[n - p] /\ n - p < a
        BY <1>1, <3>8
      <4>2. n - p \notin after
        BY <1>2, <3>1, <3>2, <4>1
      <4> QED
        BY <4>1, <4>2 DEF after
    <3>10. F[q + 1][3] # line[3]
      BY <1>1, <3>2, <3>5
    <3> HIDE DEF q
    <3>11. Left(SubSeq(script, a, k), F, q)
      BY <3>4, <3>5, <3>7 DEF Left
    <3>12. GoesOn(SubSeq(script, a, k), F, p, q)
      BY <1>6, <3>5, <3>9, <3>10, <3>11 DEF GoesOn, line
    <3>13. Skip(line) = SubSeq(script, a, k)
      BY <2>1, <2>4 DEF after, a
    <3> QED
      BY <1>4, <3>5, <3>12, <3>13 DEF line
  <2> QED
    BY <2>3, <2>4
<1> QED
  BY <1>4, <1>5, <1>6

\* One line of the script F: it fails, or it changes what its VLAN has.
Carried(F, p, q) ==
  /\ q \in (p + 1)..Len(F) /\ GoesOn(script', F, p, q)
  /\ IF Fails(F[p + 1])
     THEN links' = links
     ELSE /\ q = p + 1
          /\ links' = [links EXCEPT ![F[p + 1][2]] = With(@, F[p + 1][1])]

\* A step of the shell carries out the next line of the script.
LEMMA Carries ==
  ASSUME NEW F, NEW p, Left(script, F, p), Len(F) \in Nat, Step
  PROVE  /\ p \in Nat /\ p + 1 \in 1..Len(F) /\ F[p + 1] \in Line
         /\ \E q \in (p + 1)..Len(F) : Carried(F, p, q)
<1>1. script # <<>>
  BY DEF Step
<1>2. p + 1 \in 1..Len(F) /\ Head(script) = F[p + 1] /\ F[p + 1] \in Line /\ p \in Nat
  BY <1>1, LeftOver DEF Left
<1>3. /\ GoesOn(Tail(script), F, p, p + 1)
      /\ \E q \in (p + 1)..Len(F) : GoesOn(Skip(F[p + 1]), F, p, q)
  BY <1>1, GoingOn
<1>4. CASE Fails(F[p + 1])
  <2>1. script' = Skip(F[p + 1]) /\ links' = links
    BY <1>2, <1>4 DEF Step
  <2> QED
    BY <1>2, <1>3, <1>4, <2>1 DEF Carried
<1>5. CASE ~ Fails(F[p + 1])
  <2>1. script' = Tail(script) /\ links' = [links EXCEPT ![F[p + 1][2]] = With(@, F[p + 1][1])]
    BY <1>2, <1>5 DEF Step
  <2>2. p + 1 \in (p + 1)..Len(F)
    BY <1>2
  <2>3. Carried(F, p, p + 1)
    BY <1>3, <1>5, <2>1, <2>2 DEF Carried
  <2> QED
    BY <1>2, <2>2, <2>3
<1> QED
  BY <1>4, <1>5

\* The type of the state, as far as the arguments need it, what every
\* subinterface has, and that a run is done only when its script is.
LinksInv ==
  /\ links = [v \in Vlan |-> links[v]]
  /\ \A v \in Vlan : links[v] # {} => "link" \in links[v]
  /\ job \in [tool : Tools, range : SUBSET Vlan, cold : BOOLEAN, bare : BOOLEAN,
              silent : SUBSET Vlan, end : {"running", "done", "failed", "killed"}]
  /\ job.end = "done" => script = <<>>

\* Doing a line leaves something that is there, or was deleted.
LEMMA StepKeepsLinksInv ==
  ASSUME LinksInv, Step
  PROVE  LinksInv'
<1> DEFINE line == Head(script)
<1>1. script # <<>> /\ job' = job /\ job.end # "done"
  BY DEF Step, LinksInv
<1>2. CASE Fails(line)
  <2>1. links' = links
    BY <1>2 DEF Step
  <2> QED
    BY <1>1, <2>1 DEF LinksInv
<1>3. CASE ~ Fails(line)
  <2>1. links' = [links EXCEPT ![line[2]] = With(@, line[1])]
    BY <1>3 DEF Step
  <2> HIDE DEF line
  <2>2. links' = [v \in Vlan |-> IF v = line[2] THEN With(links[v], line[1]) ELSE links[v]]
    BY <2>1 DEF LinksInv
  <2>3. links' = [v \in Vlan |-> links'[v]]
    BY <2>2
  <2>4. ASSUME NEW v \in Vlan, links'[v] # {} PROVE "link" \in links'[v]
    <3>1. CASE v = line[2]
      <4>1. links'[v] = With(links[v], line[1])
        BY <2>2, <3>1
      <4>2. line[1] # "add" => "link" \in links[v]
        BY <1>3, <3>1 DEF Fails, LinksInv
      <4> QED
        BY <2>4, <4>1, <4>2 DEF With
    <3>2. CASE v # line[2]
      <4>1. links'[v] = links[v]
        BY <2>2, <3>2
      <4> QED
        BY <2>4, <4>1 DEF LinksInv
    <3> QED
      BY <3>1, <3>2
  <2> QED
    BY <1>1, <2>3, <2>4 DEF LinksInv
<1> QED
  BY <1>2, <1>3

\* That invariant holds of every behaviour of the tools on a client.
LEMMA LinksHold == Spec => []LinksInv
<1>1. Init => LinksInv
  <2> SUFFICES ASSUME Init PROVE LinksInv
    OBVIOUS
  <2>1. links = [v \in Vlan |-> {}] /\ script = <<>> /\ job = Nothing
    BY DEF Init
  <2>2. links = [v \in Vlan |-> links[v]] /\ \A v \in Vlan : links[v] = {}
    BY <2>1
  <2> QED
    BY <2>1, <2>2 DEF LinksInv, Nothing, Tools
<1>2. LinksInv /\ [Next]_vars => LinksInv'
  <2> SUFFICES ASSUME LinksInv, [Next]_vars PROVE LinksInv'
    OBVIOUS
  <2>1. ASSUME NEW tool \in Tools, NEW range \in SUBSET Vlan, Start(tool, range)
        PROVE  LinksInv'
    <3>1. /\ links' = links /\ job'.end = "running"
          /\ job' \in [tool : Tools, range : SUBSET Vlan, cold : BOOLEAN, bare : BOOLEAN,
                       silent : SUBSET Vlan, end : {"running", "done", "failed", "killed"}]
      BY <2>1 DEF Start
    <3> QED
      BY <3>1 DEF LinksInv
  <2>2. CASE Step
    BY <2>2, StepKeepsLinksInv
  <2>3. CASE Done
    BY <2>3 DEF Done, LinksInv
  <2>4. CASE Fail
    BY <2>4 DEF Fail, LinksInv
  <2>5. CASE Kill
    BY <2>5 DEF Kill, LinksInv
  <2>6. CASE UNCHANGED vars
    BY <2>6 DEF vars, LinksInv
  <2> QED
    BY <2>1, <2>2, <2>3, <2>4, <2>5, <2>6 DEF Next
<1> QED
  BY <1>1, <1>2, PTL DEF Spec
-----------------------------------------------------------------------------
(* The trigger script.                                                     *)

\* What a line gives its VLAN.
Gives(does) == IF does = "add" THEN "link" ELSE does

\* The run has not been broken off.
Live == job.end \in {"running", "done"}

\* Every line of F up to the p-th has given its VLAN what it gives.
GaveAll(F, l, p) == \A n \in 1..p : Gives(F[n][1]) \in l[F[n][2]]

\* A trigger script that is not broken off has given what its lines give: what
\* fails is there already.
TriggerInv ==
  job.tool = "trigger" =>
    \E p : /\ Left(script, Trigger(job.range), p)
           /\ Live => GaveAll(Trigger(job.range), links, p)

\* The scripts are made of lines.
LEMMA WalksLines ==
  ASSUME NEW range \in SUBSET Vlan, NEW D \in SUBSET SetupDoes, NEW F, Walks(F, range, D)
  PROVE  F \in Seq(Line) /\ Len(F) \in Nat
<1>1. F \in Seq(D \X range \X Batch4)
  BY DEF Walks
<1>2. Len(F) \in Nat /\ \A n \in 1..Len(F) : F[n] \in D \X range \X Batch4
  BY <1>1
<1>3. \A n \in 1..Len(F) : F[n] \in Line
  BY <1>2 DEF Line
<1> QED
  BY <1>1, <1>2, <1>3

\* A line of the trigger gives what it gives, or that is there already.
LEMMA TriggerStep ==
  ASSUME LinksInv, Step, NEW range \in SUBSET Vlan, NEW p,
         Left(script, Trigger(range), p), GaveAll(Trigger(range), links, p)
  PROVE  \E q : Left(script', Trigger(range), q) /\ GaveAll(Trigger(range), links', q)
<1> DEFINE F == Trigger(range)
<1>1. Walks(F, range, TriggerDoes) /\ \A n \in 1..Len(F) : F[n][3] = "alone"
  BY TriggerWalks
<1>2. TriggerDoes \in SUBSET SetupDoes /\ "add" \in TriggerDoes
  BY DEF TriggerDoes, SetupDoes
<1>3. F \in Seq(Line) /\ Len(F) \in Nat
  BY <1>1, <1>2, WalksLines
<1>4. /\ \A n \in 1..Len(F) : F[n][1] \in TriggerDoes /\ F[n][2] \in range
      /\ \A n \in 1..Len(F) : F[n][1] # "add" =>
            \E a \in 1..(n - 1) : F[a][1] = "add" /\ F[a][2] = F[n][2]
  BY <1>1, <1>2, WalkFacts
<1>5. Left(script, F, p) /\ GaveAll(F, links, p)
  OBVIOUS
<1> HIDE DEF F
<1>6. /\ p \in Nat /\ p + 1 \in 1..Len(F)
      /\ \E q \in (p + 1)..Len(F) : Carried(F, p, q)
  BY <1>3, <1>5, Carries
<1>7. PICK q \in (p + 1)..Len(F) : Carried(F, p, q)
  BY <1>6
<1>8. q = p + 1 /\ Left(script', F, p + 1)
  BY <1>1, <1>6, <1>7 DEF Carried, GoesOn
<1> DEFINE d == F[p + 1][1]
           v == F[p + 1][2]
<1>9. d \in TriggerDoes /\ v \in Vlan
  BY <1>4, <1>6
<1>10. d # "add" => "link" \in links[v]
  <2> SUFFICES ASSUME d # "add" PROVE "link" \in links[v]
    OBVIOUS
  <2>1. PICK a \in 1..((p + 1) - 1) : F[a][1] = "add" /\ F[a][2] = v
    BY <1>4, <1>6
  <2>2. a \in 1..p
    BY <1>6
  <2> QED
    BY <1>5, <2>1, <2>2 DEF GaveAll, Gives
<1>11. \A n \in 1..(p + 1) : n \in 1..p \/ n = p + 1
  BY <1>6
<1>12. CASE Fails(F[p + 1])
  <2>1. links' = links
    BY <1>7, <1>12 DEF Carried
  <2>2. Gives(d) \in links[v]
    BY <1>9, <1>10, <1>12 DEF Fails, LinksInv, Gives, TriggerDoes
  <2> QED
    BY <1>5, <1>8, <1>11, <2>1, <2>2 DEF GaveAll, F
<1>13. CASE ~ Fails(F[p + 1])
  <2>1. links' = [links EXCEPT ![v] = With(@, d)]
    BY <1>7, <1>13 DEF Carried
  <2>2. d = "add" => links[v] = {}
    BY <1>13 DEF Fails
  <2> HIDE DEF d, v
  <2>3. links' = [u \in Vlan |-> IF u = v THEN With(links[u], d) ELSE links[u]]
    BY <2>1 DEF LinksInv
  <2>4. links'[v] = With(links[v], d)
    BY <1>9, <2>3
  <2>5. Gives(d) \in links'[v]
    BY <1>9, <2>4 DEF With, Gives, TriggerDoes
  <2>6. ASSUME NEW n \in 1..p PROVE Gives(F[n][1]) \in links'[F[n][2]]
    <3>1. Gives(F[n][1]) \in links[F[n][2]] /\ F[n][1] \in TriggerDoes /\ F[n][2] \in Vlan
      <4>1. n \in 1..Len(F)
        BY <1>6
      <4> QED
        BY <1>4, <1>5, <4>1 DEF GaveAll
    <3>2. CASE F[n][2] = v
      <4>1. d # "add"
        BY <2>2, <3>1, <3>2
      <4>2. Gives(F[n][1]) # "vmmac"
        BY <3>1 DEF Gives, TriggerDoes
      <4> QED
        BY <1>9, <2>4, <3>1, <3>2, <4>1, <4>2 DEF With, TriggerDoes
    <3>3. CASE F[n][2] # v
      BY <2>3, <3>1, <3>3
    <3> QED
      BY <3>2, <3>3
  <2> QED
    BY <1>8, <1>11, <2>5, <2>6 DEF GaveAll, F, d, v
<1> QED
  BY <1>12, <1>13

\* What a run stops with: what is left of its script, or nothing.
LEMMA Stops ==
  ASSUME NEW F \in Seq(Line), NEW p, Left(script, F, p), script' \in {script, <<>>}
  PROVE  Left(script', F, p) \/ Left(script', F, Len(F))
  BY LeftEnds

\* The invariant of the trigger holds of every behaviour.
LEMMA TriggerHolds == Spec => []TriggerInv
<1>1. Init => TriggerInv
  BY DEF Init, Nothing, TriggerInv
<1>2. LinksInv /\ TriggerInv /\ [Next]_vars => TriggerInv'
  <2> SUFFICES ASSUME LinksInv, TriggerInv, [Next]_vars, job'.tool = "trigger"
               PROVE  \E p : /\ Left(script', Trigger(job'.range), p)
                             /\ Live' => GaveAll(Trigger(job'.range), links', p)
    BY DEF TriggerInv
  <2>a. ASSUME NEW range \in SUBSET Vlan PROVE Trigger(range) \in Seq(Line)
    <3>1. Walks(Trigger(range), range, TriggerDoes)
      BY TriggerWalks
    <3> QED
      BY <3>1, WalksLines DEF SetupDoes
  <2>b. job.range \in SUBSET Vlan
    BY DEF LinksInv
  <2>1. ASSUME NEW tool \in Tools, NEW range \in SUBSET Vlan, Start(tool, range)
        PROVE  \E p : /\ Left(script', Trigger(job'.range), p)
                      /\ Live' => GaveAll(Trigger(job'.range), links', p)
    <3>1. job'.range = range /\ script' = Trigger(range)
      BY <2>1 DEF Start, Script
    <3>2. Left(script', Trigger(range), 0)
      BY <2>a, <3>1, LeftEnds
    <3>3. GaveAll(Trigger(range), links', 0)
      BY DEF GaveAll
    <3> QED
      BY <3>1, <3>2, <3>3
  <2>2. CASE Step
    <3>1. job' = job /\ Live' = Live
      BY <2>2 DEF Step, Live
    <3>2. PICK p : /\ Left(script, Trigger(job.range), p)
                   /\ Live => GaveAll(Trigger(job.range), links, p)
      BY <3>1 DEF TriggerInv
    <3>3. CASE Live
      BY <2>2, <2>b, <3>1, <3>2, <3>3, TriggerStep
    <3>4. CASE ~ Live
      <4>1. Len(Trigger(job.range)) \in Nat
        BY <2>a, <2>b
      <4>2. PICK q : Carried(Trigger(job.range), p, q)
        BY <2>2, <3>2, <4>1, Carries
      <4> QED
        BY <3>1, <3>4, <4>2 DEF Carried, GoesOn
    <3> QED
      BY <3>3, <3>4
  <2>3. CASE Done
    <3>1. job'.range = job.range /\ job.tool = "trigger" /\ Live /\ UNCHANGED <<links, script>>
      BY <2>3 DEF Done, Live, LinksInv
    <3> QED
      BY <3>1 DEF TriggerInv
  <2>4. CASE Fail \/ Kill
    <3>1. /\ job'.range = job.range /\ job.tool = "trigger" /\ ~ Live'
          /\ script' \in {script, <<>>}
      BY <2>4 DEF Fail, Kill, Live, LinksInv
    <3>2. PICK p : Left(script, Trigger(job.range), p)
      BY <3>1 DEF TriggerInv
    <3> QED
      BY <2>a, <2>b, <3>1, <3>2, Stops
  <2>5. CASE UNCHANGED vars
    BY <2>5 DEF vars, TriggerInv, Live
  <2> QED
    BY <2>1, <2>2, <2>3, <2>4, <2>5 DEF Next
<1> QED
  BY <1>1, <1>2, LinksHold, PTL DEF Spec

\* IPv6 is off only where it was off before the trigger.
SilentInv ==
  job.tool = "trigger" => \A v \in job.range : "quiet" \in links[v] => v \in job.silent

\* No line of the trigger switches IPv6 off, also when it runs on after its tool
\* was killed.
LEMMA SilentHolds == Spec => []SilentInv
<1>1. Init => SilentInv
  BY DEF Init, Nothing, SilentInv
<1>2. LinksInv /\ TriggerInv /\ SilentInv /\ [Next]_vars => SilentInv'
  <2> SUFFICES ASSUME LinksInv, TriggerInv, SilentInv, [Next]_vars, job'.tool = "trigger",
                      NEW v \in job'.range, "quiet" \in links'[v]
               PROVE  v \in job'.silent
    BY DEF SilentInv
  <2>1. ASSUME NEW tool \in Tools, NEW range \in SUBSET Vlan, Start(tool, range)
        PROVE  v \in job'.silent
    BY <2>1 DEF Start
  <2>2. CASE Step
    <3> DEFINE F == Trigger(job.range)
    <3>1. job' = job /\ job.range \in SUBSET Vlan
      BY <2>2 DEF Step, LinksInv
    <3>2. Walks(F, job.range, TriggerDoes) /\ TriggerDoes \in SUBSET SetupDoes
          /\ "add" \in TriggerDoes
      BY <3>1, TriggerWalks DEF SetupDoes, TriggerDoes
    <3>3. F \in Seq(Line) /\ Len(F) \in Nat
          /\ \A n \in 1..Len(F) : F[n][1] \in TriggerDoes
      BY <3>1, <3>2, WalksLines, WalkFacts
    <3>4. PICK p : Left(script, F, p)
      BY <3>1 DEF TriggerInv
    <3> HIDE DEF F
    <3>5. p \in Nat /\ p + 1 \in 1..Len(F) /\ \E q \in (p + 1)..Len(F) : Carried(F, p, q)
      BY <2>2, <3>3, <3>4, Carries
    <3>6. \/ links' = links
          \/ links' = [links EXCEPT ![F[p + 1][2]] = With(@, F[p + 1][1])]
      BY <3>5 DEF Carried
    <3>7. F[p + 1][1] \in TriggerDoes
      BY <3>3, <3>5
    <3>8. v \in Vlan
      BY <3>1
    <3>9. "quiet" \in links[v]
      <4>1. CASE links' = links
        BY <4>1
      <4>2. CASE links' = [links EXCEPT ![F[p + 1][2]] = With(@, F[p + 1][1])]
        <5> DEFINE d == F[p + 1][1]
                   u == F[p + 1][2]
        <5> HIDE DEF d, u
        <5>1. links' = [w \in Vlan |-> IF w = u THEN With(links[w], d) ELSE links[w]]
          BY <4>2 DEF LinksInv, d, u
        <5>2. links'[v] = links[v] \/ links'[v] = With(links[v], d)
          BY <3>8, <5>1
        <5> QED
          BY <3>7, <5>2 DEF With, TriggerDoes, d
      <4> QED
        BY <3>6, <4>1, <4>2
    <3> QED
      BY <3>1, <3>9 DEF SilentInv
  <2>3. CASE Done \/ Fail \/ Kill
    BY <2>3 DEF Done, Fail, Kill, SilentInv, LinksInv
  <2>4. CASE UNCHANGED vars
    BY <2>4 DEF vars, SilentInv
  <2> QED
    BY <2>1, <2>2, <2>3, <2>4 DEF Next
<1> QED
  BY <1>1, <1>2, LinksHold, TriggerHolds, PTL DEF Spec

\* build_trigger_script: a trigger that is not broken off has left every VLAN of
\* its range with a subinterface that is up, has the client's MAC and an
\* address, whatever was there before, and has IPv6 on unless it was off before.
THEOREM TriggerReachesHolds == Spec => []TriggerReaches
<1>1. LinksInv /\ TriggerInv /\ SilentInv => TriggerReaches
  <2> SUFFICES ASSUME LinksInv, TriggerInv, job.tool = "trigger", job.end = "done", NEW v \in job.range
               PROVE  {"link", "mac", "up", "address"} \subseteq links[v]
    BY DEF TriggerReaches, Finished, SilentInv
  <2> DEFINE F == Trigger(job.range)
  <2>1. Walks(F, job.range, TriggerDoes) /\ job.range \in SUBSET Vlan
    BY TriggerWalks DEF LinksInv
  <2>2. F \in Seq(Line) /\ TriggerDoes \in SUBSET SetupDoes /\ "add" \in TriggerDoes
    BY <2>1, WalksLines DEF SetupDoes, TriggerDoes
  <2>3. PICK p : Left(<<>>, F, p) /\ GaveAll(F, links, p)
    BY DEF TriggerInv, LinksInv, Live
  <2> HIDE DEF F
  <2>4. \A d \in TriggerDoes : \E n \in 1..Len(F) : F[n][1] = d /\ F[n][2] = v
    BY <2>1, <2>2, WalkReaches
  <2>5. GaveAll(F, links, Len(F))
    BY <2>2, <2>3, LeftEnds
  <2>6. \A d \in TriggerDoes : Gives(d) \in links[v]
    BY <2>4, <2>5 DEF GaveAll
  <2> QED
    BY <2>6 DEF TriggerDoes, Gives
<1> QED
  BY <1>1, LinksHold, TriggerHolds, SilentHolds, PTL
-----------------------------------------------------------------------------
(* The setup script.                                                       *)

\* Every VLAN that has a subinterface has IPv6 off, or will have.
Quiets(F, range, l, p) ==
  \A v \in range : l[v] # {} =>
    "quiet" \in l[v] \/ \E n \in (p + 1)..Len(F) : F[n][1] = "quiet" /\ F[n][2] = v

\* A batch that ends early skips no line that switches IPv6 off.
QuietInv ==
  job.tool = "setup" =>
    \E p : /\ Left(script, Setup(job.range), p)
           /\ Live => Quiets(Setup(job.range), job.range, links, p)

\* The setup script, as the proofs below use it.
SetupScript(F, range) ==
  /\ Walks(F, range, SetupDoes) /\ F \in Seq(Line) /\ Len(F) \in Nat
  /\ \A n \in 1..Len(F) : F[n][1] \in SetupDoes /\ F[n][2] \in range /\ F[n][2] \in Vlan
  /\ \A n \in 1..Len(F) : F[n][3] = "alone" <=> F[n][1] = "quiet"
  /\ \A n \in 1..Len(F) : F[n][1] # "add" =>
       \E a \in 1..(n - 1) : F[a][1] = "add" /\ F[a][2] = F[n][2]
  /\ \A i, n \in 1..Len(F) : F[i][1] = F[n][1] /\ F[i][2] = F[n][2] => i = n

\* The setup script is one.
LEMMA SetupIsSuch ==
  ASSUME NEW range \in SUBSET Vlan
  PROVE  SetupScript(Setup(range), range)
<1> DEFINE F == Setup(range)
<1>1. Walks(F, range, SetupDoes) /\ \A n \in 1..Len(F) : F[n][3] = "alone" <=> F[n][1] = "quiet"
  BY SetupWalks
<1>2. SetupDoes \in SUBSET SetupDoes /\ "add" \in SetupDoes
  BY DEF TriggerDoes, SetupDoes
<1> HIDE DEF F
<1>3. F \in Seq(Line) /\ Len(F) \in Nat
  BY <1>1, <1>2, WalksLines
<1>4. /\ \A n \in 1..Len(F) : F[n][1] \in SetupDoes /\ F[n][2] \in range
      /\ \A n \in 1..Len(F) : F[n][1] # "add" =>
           \E a \in 1..(n - 1) : F[a][1] = "add" /\ F[a][2] = F[n][2]
      /\ \A i, n \in 1..Len(F) : F[i][1] = F[n][1] /\ F[i][2] = F[n][2] => i = n
  BY <1>1, <1>2, WalkFacts
<1>5. SetupScript(F, range)
  BY <1>1, <1>3, <1>4 DEF SetupScript
<1> QED
  BY <1>5 DEF F

\* A line of the setup, failing or not, keeps every VLAN quiet, or to be quieted.
LEMMA QuietStep ==
  ASSUME LinksInv, Step, NEW range \in SUBSET Vlan, NEW p,
         Left(script, Setup(range), p), Quiets(Setup(range), range, links, p)
  PROVE  \E q : Left(script', Setup(range), q) /\ Quiets(Setup(range), range, links', q)
<1> DEFINE F == Setup(range)
<1>1. SetupScript(F, range)
  BY SetupIsSuch
<1>2. Left(script, F, p) /\ Quiets(F, range, links, p)
  OBVIOUS
<1> HIDE DEF F
<1>3. Len(F) \in Nat
  BY <1>1 DEF SetupScript
<1>4. /\ p \in Nat /\ p + 1 \in 1..Len(F)
      /\ \E q \in (p + 1)..Len(F) : Carried(F, p, q)
  BY <1>2, <1>3, Carries
<1>5. PICK q \in (p + 1)..Len(F) : Carried(F, p, q)
  BY <1>4
<1>6. Left(script', F, q) /\ \A n \in (p + 2)..q : F[n][3] = F[p + 1][3]
  BY <1>5 DEF Carried, GoesOn
<1>7. F[p + 1][3] = "alone" => q = p + 1
  BY <1>5 DEF Carried, GoesOn
<1> DEFINE d == F[p + 1][1]
           v == F[p + 1][2]
<1>8. d \in SetupDoes /\ v \in Vlan /\ v \in range
  BY <1>1, <1>4 DEF SetupScript
<1>9. ASSUME NEW n \in (p + 1)..Len(F), F[n][1] = "quiet", n # p + 1
      PROVE  n \in (q + 1)..Len(F)
  <2>1. n \in 1..Len(F) /\ F[n][3] = "alone"
    BY <1>1, <1>4, <1>9 DEF SetupScript
  <2>2. CASE n \in (p + 2)..q
    <3>1. F[p + 1][3] = "alone"
      BY <1>6, <2>1, <2>2
    <3>2. q = p + 1
      BY <1>7, <3>1
    <3> QED
      BY <1>4, <2>2, <3>2
  <2> QED
    BY <1>4, <1>9, <2>2
<1>10. CASE Fails(F[p + 1])
  <2>1. links' = links
    BY <1>5, <1>10 DEF Carried
  <2>2. d = "quiet" => links[v] = {}
    BY <1>10 DEF Fails
  <2>3. ASSUME NEW u \in range, links[u] # {}
        PROVE  "quiet" \in links[u] \/ \E n \in (q + 1)..Len(F) : F[n][1] = "quiet" /\ F[n][2] = u
    <3>1. CASE "quiet" \notin links[u]
      <4>1. PICK n \in (p + 1)..Len(F) : F[n][1] = "quiet" /\ F[n][2] = u
        BY <1>2, <2>3, <3>1 DEF Quiets
      <4>2. n # p + 1
        BY <2>2, <2>3, <4>1
      <4> QED
        BY <1>9, <4>1, <4>2
    <3> QED
      BY <3>1
  <2> QED
    BY <1>6, <2>1, <2>3 DEF Quiets, F
<1>11. CASE ~ Fails(F[p + 1])
  <2>1. links' = [links EXCEPT ![v] = With(@, d)]
    BY <1>5, <1>11 DEF Carried
  <2>2. d = "add" <=> links[v] = {}
    BY <1>8, <1>11 DEF Fails, SetupDoes, TriggerDoes
  <2> HIDE DEF d, v
  <2>4. links' = [u \in Vlan |-> IF u = v THEN With(links[u], d) ELSE links[u]]
    BY <2>1 DEF LinksInv
  <2>5. links'[v] = With(links[v], d) /\ \A u \in range : u # v => links'[u] = links[u]
    BY <1>8, <2>4
  <2>6. "quiet" \in links[v] => "quiet" \in links'[v]
    BY <1>8, <2>2, <2>5 DEF With, SetupDoes, TriggerDoes
  <2>7. d = "quiet" => "quiet" \in links'[v]
    BY <2>5 DEF With
  <2>8. ASSUME NEW u \in range, links'[u] # {}
        PROVE  "quiet" \in links'[u] \/ \E n \in (q + 1)..Len(F) : F[n][1] = "quiet" /\ F[n][2] = u
    <3>1. CASE links[u] # {} /\ "quiet" \in links[u]
      BY <2>5, <2>6, <3>1
    <3>2. CASE links[u] # {} /\ "quiet" \notin links[u]
      <4>1. PICK n \in (p + 1)..Len(F) : F[n][1] = "quiet" /\ F[n][2] = u
        BY <1>2, <3>2 DEF Quiets
      <4>2. CASE n = p + 1
        <5>1. u = v /\ d = "quiet"
          BY <4>1, <4>2 DEF d, v
        <5> QED
          BY <2>7, <5>1
      <4>3. CASE n # p + 1
        BY <1>9, <4>1, <4>3
      <4> QED
        BY <4>2, <4>3
    <3>3. CASE links[u] = {}
      <4>1. u = v /\ d = "add"
        BY <2>2, <2>5, <2>8, <3>3
      <4>2. "add" \in SetupDoes /\ "quiet" \in SetupDoes
        BY DEF SetupDoes, TriggerDoes
      <4>3. Walks(F, range, SetupDoes)
        BY <1>1 DEF SetupScript
      <4>4. PICK n \in 1..Len(F) : F[n][1] = "quiet" /\ F[n][2] = u
        BY <4>2, <4>3, WalkReaches
      <4>5. PICK a \in 1..(n - 1) : F[a][1] = "add" /\ F[a][2] = u
        BY <1>1, <4>4 DEF SetupScript
      <4>6. a \in 1..Len(F)
        BY <1>3, <4>4
      <4>7. a = p + 1
        BY <1>1, <1>4, <4>1, <4>5, <4>6 DEF SetupScript, d, v
      <4>8. n \in (p + 1)..Len(F) /\ n # p + 1
        BY <1>3, <4>4, <4>7
      <4> QED
        BY <1>9, <4>4, <4>8
    <3> QED
      BY <3>1, <3>2, <3>3
  <2> QED
    BY <1>6, <2>8 DEF Quiets, F
<1> QED
  BY <1>10, <1>11

\* What the first p lines of F give v.
Given(F, p, v) == {Gives(F[n][1]) : n \in {m \in 1..p : F[m][2] = v}}

\* The VLANs that the run j found bare have what the first g lines of F give them.
Traced(F, j, l, g) ==
  \A v \in Vlan : j.bare \/ (j.cold /\ v \in j.range) => l[v] = Given(F, g, v)

\* From a cold start nothing fails: the VLANs have what the lines that were
\* carried out have given them, those before the place where the setup was
\* broken off.
ColdInv ==
  job.tool = "setup" =>
    \E p : /\ Left(script, Setup(job.range), p)
           /\ \E g \in 0..p : /\ Live \/ script # <<>> => g = p
                              /\ Traced(Setup(job.range), job, links, g)

\* What one more line gives.
LEMMA GivenStep ==
  ASSUME NEW F, NEW p \in Nat, NEW v
  PROVE  /\ F[p + 1][2] = v => Given(F, p + 1, v) = Given(F, p, v) \cup {Gives(F[p + 1][1])}
         /\ F[p + 1][2] # v => Given(F, p + 1, v) = Given(F, p, v)
<1>1. \A n : n \in 1..(p + 1) <=> n \in 1..p \/ n = p + 1
  OBVIOUS
<1>2. p + 1 \in 1..(p + 1)
  OBVIOUS
<1> QED
  BY <1>1, <1>2 DEF Given

\* After a cold start the next line of the setup does not fail.
LEMMA ColdStep ==
  ASSUME LinksInv, Step, NEW p,
         Left(script, Setup(job.range), p), Traced(Setup(job.range), job, links, p)
  PROVE  \E q : Left(script', Setup(job.range), q)
                /\ Traced(Setup(job.range), job, links', q)
<1> DEFINE F == Setup(job.range)
           range == job.range
<1>1. SetupScript(F, range)
  BY SetupIsSuch DEF LinksInv
<1>2. Left(script, F, p) /\ Traced(F, job, links, p)
  OBVIOUS
<1> HIDE DEF F
<1>3. Len(F) \in Nat
  BY <1>1 DEF SetupScript
<1>4. /\ p \in Nat /\ p + 1 \in 1..Len(F)
      /\ \E q \in (p + 1)..Len(F) : Carried(F, p, q)
  BY <1>2, <1>3, Carries
<1>5. PICK q \in (p + 1)..Len(F) : Carried(F, p, q)
  BY <1>4
<1>6. Left(script', F, q)
  BY <1>5 DEF Carried, GoesOn
<1>7. CASE ~ job.bare /\ ~ job.cold
  BY <1>6, <1>7 DEF Traced, F
<1>8. CASE job.bare \/ job.cold
  <2> DEFINE d == F[p + 1][1]
             v == F[p + 1][2]
  <2>1. d \in SetupDoes /\ v \in Vlan /\ v \in range
    BY <1>1, <1>4 DEF SetupScript
  <2>2. links[v] = Given(F, p, v)
    BY <1>2, <1>8, <2>1 DEF Traced
  <2>3. d = "add" => ~ \E n \in 1..p : F[n][2] = v
    <3> SUFFICES ASSUME d = "add", NEW n \in 1..p, F[n][2] = v PROVE FALSE
      OBVIOUS
    <3>1. n \in 1..Len(F) /\ n # p + 1
      BY <1>4
    <3>2. F[n][1] # "add"
      BY <1>1, <1>4, <3>1 DEF SetupScript
    <3>3. PICK a \in 1..(n - 1) : F[a][1] = "add" /\ F[a][2] = v
      BY <1>1, <3>1, <3>2 DEF SetupScript
    <3>4. a \in 1..Len(F) /\ a # p + 1
      BY <1>4, <3>1
    <3> QED
      BY <1>1, <1>4, <3>3, <3>4 DEF SetupScript
  <2>4. d # "add" => \E a \in 1..p : F[a][1] = "add" /\ F[a][2] = v
    <3>1. \A a \in 1..((p + 1) - 1) : a \in 1..p
      BY <1>4
    <3> QED
      BY <1>1, <1>4, <3>1 DEF SetupScript
  <2>5. ~ \E n \in 1..p : F[n][1] = d /\ F[n][2] = v
    <3> SUFFICES ASSUME NEW n \in 1..p, F[n][1] = d, F[n][2] = v PROVE FALSE
      OBVIOUS
    <3>1. n \in 1..Len(F) /\ n # p + 1
      BY <1>4
    <3> QED
      BY <1>1, <1>4, <3>1 DEF SetupScript
  <2>6. \A n \in 1..p : F[n][1] \in SetupDoes
    <3>1. \A n \in 1..p : n \in 1..Len(F)
      BY <1>4
    <3> QED
      BY <1>1, <3>1 DEF SetupScript
  <2>7. /\ d = "add" => links[v] = {}
        /\ d # "add" => links[v] # {} /\ d \notin links[v]
        /\ "vmmac" \notin links[v]
    <3> HIDE DEF d, v
    <3>1. d = "add" => links[v] = {}
      BY <2>2, <2>3 DEF Given
    <3>2. d # "add" => links[v] # {}
      BY <2>2, <2>4 DEF Given
    <3>3. ASSUME d # "add", d \in Given(F, p, v) PROVE FALSE
      <4>1. PICK n \in 1..p : F[n][2] = v /\ d = Gives(F[n][1])
        BY <3>3 DEF Given
      <4>2. F[n][1] = "add" \/ F[n][1] = d
        BY <4>1 DEF Gives
      <4>3. F[n][1] = "add" => d = "link"
        BY <4>1 DEF Gives
      <4> QED
        BY <2>1, <2>5, <4>1, <4>2, <4>3 DEF SetupDoes, TriggerDoes
    <3>4. "vmmac" \notin Given(F, p, v)
      <4>1. \A n \in 1..p : Gives(F[n][1]) # "vmmac"
        BY <2>6 DEF Gives, SetupDoes, TriggerDoes
      <4> QED
        BY <4>1 DEF Given
    <3> QED
      BY <2>2, <3>1, <3>2, <3>3, <3>4
  <2>8. ~ Fails(F[p + 1])
    BY <2>1, <2>7 DEF Fails, SetupDoes, TriggerDoes
  <2>9. q = p + 1 /\ links' = [links EXCEPT ![v] = With(@, d)]
    BY <1>5, <2>8 DEF Carried
  <2>10. With(links[v], d) = Given(F, p + 1, v)
    <3>1. Given(F, p + 1, v) = links[v] \cup {Gives(d)}
      <4>1. \A u : F[p + 1][2] = u =>
              Given(F, p + 1, u) = Given(F, p, u) \cup {Gives(F[p + 1][1])}
        BY <1>4, GivenStep
      <4> QED
        BY <2>2, <4>1
    <3> HIDE DEF d, v
    <3> QED
      BY <2>1, <2>7, <3>1 DEF With, Gives, SetupDoes, TriggerDoes
  <2>11. links' = [u \in Vlan |-> IF u = v THEN With(links[u], d) ELSE links[u]]
    BY <2>9 DEF LinksInv
  <2>12. ASSUME NEW u \in Vlan, job.bare \/ (job.cold /\ u \in range)
         PROVE  links'[u] = Given(F, p + 1, u)
    <3>1. CASE u = v
      BY <2>10, <2>11, <3>1
    <3>2. CASE u # v
      <4>1. Given(F, p + 1, u) = Given(F, p, u)
        BY <1>4, <3>2, GivenStep
      <4>2. links[u] = Given(F, p, u)
        BY <1>2, <2>12 DEF Traced
      <4> QED
        BY <2>11, <3>2, <4>1, <4>2
    <3> QED
      BY <3>1, <3>2
  <2>13. Traced(F, job, links', p + 1)
    BY <2>12 DEF Traced
  <2> QED
    BY <1>6, <2>9, <2>13 DEF F
<1> QED
  BY <1>7, <1>8

\* The two invariants of the setup hold of every behaviour.
LEMMA SetupHolds == Spec => [](QuietInv /\ ColdInv)
<1>1. Init => QuietInv /\ ColdInv
  BY DEF Init, Nothing, QuietInv, ColdInv
<1>2. LinksInv /\ QuietInv /\ ColdInv /\ [Next]_vars => (QuietInv /\ ColdInv)'
  <2> DEFINE Quieted == \E p : /\ Left(script', Setup(job'.range), p)
                               /\ Live' => Quiets(Setup(job'.range), job'.range, links', p)
             Followed == \E p : /\ Left(script', Setup(job'.range), p)
                                /\ \E g \in 0..p : /\ Live' \/ script' # <<>> => g = p
                                                   /\ Traced(Setup(job'.range), job', links', g)
  <2> SUFFICES ASSUME LinksInv, QuietInv, ColdInv, [Next]_vars, job'.tool = "setup"
               PROVE  Quieted /\ Followed
    BY DEF QuietInv, ColdInv
  <2>a. ASSUME NEW range \in SUBSET Vlan
        PROVE  Setup(range) \in Seq(Line) /\ Len(Setup(range)) \in Nat
    BY SetupIsSuch DEF SetupScript
  <2>b. job.range \in SUBSET Vlan
    BY DEF LinksInv
  <2>1. ASSUME NEW tool \in Tools, NEW range \in SUBSET Vlan, Start(tool, range)
        PROVE  Quieted /\ Followed
    <3> DEFINE F == Setup(range)
    <3>1. /\ job'.range = range /\ script' = F /\ links' = links
          /\ job'.cold = (\A v \in range : links[v] = {})
          /\ job'.bare = (\A v \in Vlan : links[v] = {})
      BY <2>1 DEF Start, Script
    <3>2. F \in Seq(Line) /\ Walks(F, range, SetupDoes)
      BY SetupIsSuch DEF SetupScript
    <3> HIDE DEF F
    <3>3. Left(script', F, 0)
      BY <3>1, <3>2, LeftEnds
    <3>4. Quiets(F, range, links', 0)
      <4>1. "add" \in SetupDoes /\ "quiet" \in SetupDoes /\ SetupDoes \in SUBSET SetupDoes
        BY DEF SetupDoes, TriggerDoes
      <4>2. \A v \in range : \E n \in 1..Len(F) : F[n][1] = "quiet" /\ F[n][2] = v
        BY <3>2, <4>1, WalkReaches
      <4> QED
        BY <4>2 DEF Quiets
    <3>5. Traced(F, job', links', 0)
      <4>1. \A v : Given(F, 0, v) = {}
        BY DEF Given
      <4> QED
        BY <3>1, <4>1 DEF Traced
    <3>6. 0 \in 0..0
      OBVIOUS
    <3> QED
      BY <3>1, <3>3, <3>4, <3>5, <3>6 DEF F
  <2>2. CASE Step
    <3>1. job' = job /\ Live' = Live /\ script # <<>>
      BY <2>2 DEF Step, Live
    <3>2. Quieted
      <4>1. PICK p : /\ Left(script, Setup(job.range), p)
                     /\ Live => Quiets(Setup(job.range), job.range, links, p)
        BY <3>1 DEF QuietInv
      <4>2. CASE Live
        BY <2>2, <2>b, <3>1, <4>1, <4>2, QuietStep
      <4>3. CASE ~ Live
        <5>1. Len(Setup(job.range)) \in Nat
          BY <2>a, <2>b
        <5>2. PICK q : Carried(Setup(job.range), p, q)
          BY <2>2, <4>1, <5>1, Carries
        <5> QED
          BY <3>1, <4>3, <5>2 DEF Carried, GoesOn
      <4> QED
        BY <4>2, <4>3
    <3>3. Followed
      <4>1. PICK p : /\ Left(script, Setup(job.range), p)
                     /\ Traced(Setup(job.range), job, links, p)
        BY <3>1 DEF ColdInv
      <4>2. PICK q : Left(script', Setup(job.range), q)
                     /\ Traced(Setup(job.range), job, links', q)
        BY <2>2, <4>1, ColdStep
      <4>3. q \in 0..q
        BY <4>2 DEF Left
      <4> QED
        BY <3>1, <4>2, <4>3
    <3> QED
      BY <3>2, <3>3
  <2>3. CASE Done
    <3>1. /\ job'.range = job.range /\ job'.cold = job.cold /\ job'.bare = job.bare
          /\ job.tool = "setup" /\ Live /\ UNCHANGED <<links, script>>
      BY <2>3 DEF Done, Live, LinksInv
    <3>2. Quieted
      BY <3>1 DEF QuietInv
    <3>3. Followed
      BY <3>1 DEF ColdInv, Traced
    <3> QED
      BY <3>2, <3>3
  <2>4. CASE Fail \/ Kill
    <3>1. /\ job'.range = job.range /\ job'.cold = job.cold /\ job'.bare = job.bare
          /\ job.tool = "setup" /\ Live /\ ~ Live' /\ links' = links
          /\ script' \in {script, <<>>}
      BY <2>4 DEF Fail, Kill, Live, LinksInv
    <3> DEFINE F == Setup(job.range)
    <3>2. F \in Seq(Line) /\ Len(F) \in Nat
      BY <2>a, <2>b
    <3>3. PICK p : Left(script, F, p) /\ Traced(F, job, links, p)
      BY <3>1 DEF ColdInv
    <3> HIDE DEF F
    <3>4. p \in 0..Len(F) /\ Traced(F, job', links', p)
      BY <3>1, <3>3 DEF Left, Traced
    <3>5. CASE script' = script
      <4>1. Left(script', F, p) /\ p \in 0..p
        BY <3>2, <3>3, <3>4, <3>5
      <4> QED
        BY <3>1, <3>4, <4>1 DEF F
    <3>6. CASE script' = <<>>
      <4>1. Left(script', F, Len(F)) /\ ~ (Live' \/ script' # <<>>)
        BY <3>1, <3>2, <3>6, LeftEnds
      <4> QED
        BY <3>1, <3>4, <4>1 DEF F
    <3> QED
      BY <3>1, <3>5, <3>6
  <2>5. CASE UNCHANGED vars
    <3>1. job' = job /\ links' = links /\ script' = script /\ Live' = Live
      BY <2>5 DEF vars, Live
    <3>2. Quieted
      BY <3>1 DEF QuietInv
    <3>3. Followed
      BY <3>1 DEF ColdInv
    <3> QED
      BY <3>2, <3>3
  <2> QED
    BY <2>1, <2>2, <2>3, <2>4, <2>5 DEF Next
<1> QED
  BY <1>1, <1>2, LinksHold, PTL DEF Spec

\* setup_client: after a setup that is called successful no subinterface of its
\* range sends IPv6 frames, and from a cold start all of them are complete.
THEOREM SetupKeepsItsWordHolds == Spec => []SetupKeepsItsWord
<1>1. LinksInv /\ QuietInv /\ ColdInv => SetupKeepsItsWord
  <2> SUFFICES ASSUME LinksInv, QuietInv, ColdInv, job.tool = "setup", job.end = "done",
                      NEW v \in job.range
               PROVE  /\ links[v] # {} => "quiet" \in links[v]
                      /\ job.cold => links[v] = {"link", "mac", "up", "address", "quiet"}
    BY DEF SetupKeepsItsWord, Finished
  <2> DEFINE F == Setup(job.range)
  <2>1. SetupScript(F, job.range)
    BY SetupIsSuch DEF LinksInv
  <2>2. script = <<>> /\ Live /\ job.range \in SUBSET Vlan
    BY DEF LinksInv, Live
  <2>3. PICK p : Left(<<>>, F, p) /\ Quiets(F, job.range, links, p)
    BY <2>2 DEF QuietInv
  <2>4. PICK g : Left(<<>>, F, g) /\ Traced(F, job, links, g)
    BY <2>2 DEF ColdInv
  <2> HIDE DEF F
  <2>5. p = Len(F) /\ g = Len(F) /\ Len(F) \in Nat
    BY <2>1, <2>3, <2>4, LeftEnds DEF SetupScript
  <2>6. links[v] # {} => "quiet" \in links[v]
    <3>1. ~ \E n \in (Len(F) + 1)..Len(F) : TRUE
      BY <2>5
    <3> QED
      BY <2>3, <2>5, <3>1 DEF Quiets
  <2>7. ASSUME job.cold PROVE links[v] = {"link", "mac", "up", "address", "quiet"}
    <3>1. links[v] = Given(F, Len(F), v)
      BY <2>2, <2>4, <2>5, <2>7 DEF Traced
    <3>2. \A d \in SetupDoes : \E n \in 1..Len(F) : F[n][1] = d /\ F[n][2] = v
      <4>1. "add" \in SetupDoes /\ SetupDoes \in SUBSET SetupDoes /\ Walks(F, job.range, SetupDoes)
        BY <2>1 DEF SetupDoes, TriggerDoes, SetupScript
      <4> QED
        BY <2>2, <4>1, WalkReaches
    <3>3. \A d \in SetupDoes : Gives(d) \in Given(F, Len(F), v)
      BY <3>2 DEF Given
    <3>4. \A x \in Given(F, Len(F), v) : \E d \in SetupDoes : x = Gives(d)
      BY <2>1 DEF Given, SetupScript
    <3>5. Given(F, Len(F), v) = {Gives(d) : d \in SetupDoes}
      BY <3>3, <3>4
    <3> QED
      BY <3>1, <3>5 DEF Gives, SetupDoes, TriggerDoes
  <2> QED
    BY <2>6, <2>7
<1> QED
  BY <1>1, LinksHold, SetupHolds, PTL
-----------------------------------------------------------------------------
(* The cleanup script.                                                     *)

\* Of the sorted VLANs, those from the (p + 1)-th to the c-th have a subinterface,
\* and no other VLAN has.
Ahead(range, l, p, c) ==
  \A v \in Vlan : l[v] # {} <=> \E j \in (p + 1)..c : Sorted(range)[j] = v

\* What a cleanup has still to delete after the setup of the same VLANs on a
\* bare client are the next VLANs of its list, without a gap.
CleanupInv ==
  job.tool = "cleanup" =>
    \E p : /\ Left(script, Cleanup(job.range), p)
           /\ last.tool = "setup" /\ last.range = job.range /\ last.bare /\ Live =>
                \E c \in 0..Cardinality(job.range) : Ahead(job.range, links, p, c)

\* However far a setup has come, it has made the first VLANs of its list.
LEMMA FirstOnes ==
  ASSUME LinksInv, ColdInv, job.tool = "setup", job.bare
  PROVE  \E c \in 0..Cardinality(job.range) : Ahead(job.range, links, 0, c)
<1> DEFINE F == Setup(job.range)
           m == Cardinality(job.range)
           srt == Sorted(job.range)
<1>1. job.range \in SUBSET Vlan
  BY DEF LinksInv
<1>2. m \in Nat
  BY <1>1, RangeFacts
<1>3. Walks(F, job.range, SetupDoes) /\ Len(F) \in Nat
  BY <1>1, SetupIsSuch DEF SetupScript
<1>4. PICK p, g : Left(script, F, p) /\ g \in 0..p /\ Traced(F, job, links, g)
  BY DEF ColdInv
<1> HIDE DEF F
<1>5. /\ \A d \in SetupDoes : \A j \in 1..m : Place(d, j, m) \in 1..Len(F)
           /\ F[Place(d, j, m)][1] = d /\ F[Place(d, j, m)][2] = srt[j]
      /\ \A n \in 1..Len(F) : \E d \in SetupDoes : \E j \in 1..m : n = Place(d, j, m)
  BY <1>3 DEF Walks
<1> HIDE DEF m, srt
<1>6. g \in Nat /\ p \in 0..Len(F) /\ \A n \in 1..g : n \in 1..Len(F)
  BY <1>3, <1>4 DEF Left
<1>7. PICK c \in 0..m : \A j \in 1..m : j <= c <=> 3 * j - 2 <= g
  <2>1. CASE g >= 3 * m
    <3>1. m \in 0..m /\ \A j \in 1..m : j <= m <=> 3 * j - 2 <= g
      BY <1>2, <1>6, <2>1
    <3> QED
      BY <3>1
  <2>2. CASE g < 3 * m
    <3>1. (g + 2) \div 3 \in 0..m /\ \A j \in 1..m : j <= (g + 2) \div 3 <=> 3 * j - 2 <= g
      BY <1>2, <1>6, <2>2
    <3> QED
      BY <3>1
  <2> QED
    BY <1>2, <1>6, <2>1, <2>2
<1>8. ASSUME NEW v \in Vlan
      PROVE  links[v] # {} <=> \E j \in (0 + 1)..c : srt[j] = v
  <2>1. links[v] = Given(F, g, v)
    BY <1>4 DEF Traced
  <2>2. links[v] # {} <=> \E n \in 1..g : F[n][2] = v
    BY <2>1 DEF Given
  <2>3. ASSUME NEW n \in 1..g, F[n][2] = v PROVE \E j \in (0 + 1)..c : srt[j] = v
    <3>1. PICK d \in SetupDoes, j \in 1..m : n = Place(d, j, m)
      BY <1>5, <1>6
    <3>2. srt[j] = v
      BY <1>5, <2>3, <3>1
    <3>3. n = 3 * j - 2 \/ n = 3 * j - 1 \/ n = 3 * j \/ n = 3 * m + j \/ n = 4 * m + j
      BY <3>1 DEF Place, SetupDoes, TriggerDoes
    <3>4. 3 * j - 2 <= g
      BY <1>2, <1>6, <3>3
    <3>5. j \in (0 + 1)..c
      BY <1>2, <1>7, <3>4
    <3> QED
      BY <3>2, <3>5
  <2>4. ASSUME NEW j \in (0 + 1)..c, srt[j] = v PROVE \E n \in 1..g : F[n][2] = v
    <3>1. j \in 1..m /\ 3 * j - 2 <= g
      BY <1>2, <1>7
    <3>2. Place("add", j, m) = 3 * j - 2 /\ "add" \in SetupDoes
      BY DEF Place, SetupDoes, TriggerDoes
    <3>3. 3 * j - 2 \in 1..g /\ F[3 * j - 2][2] = srt[j]
      BY <1>2, <1>5, <1>6, <3>1, <3>2
    <3> QED
      BY <2>4, <3>3
  <2> QED
    BY <2>2, <2>3, <2>4
<1>9. Ahead(job.range, links, 0, c)
  BY <1>8 DEF Ahead, srt
<1> QED
  BY <1>9 DEF m

\* The cleanup script is made of lines.
LEMMA CleanupLines ==
  ASSUME NEW range \in SUBSET Vlan
  PROVE  /\ Cleanup(range) \in Seq(Line)
         /\ Len(Cleanup(range)) = Cardinality(range) /\ Cardinality(range) \in Nat
<1> DEFINE F == Cleanup(range)
<1>1. Len(F) = Cardinality(range) /\ F \in Seq({"delete"} \X range \X {"deletes"})
  BY CleanupFacts
<1>2. Cardinality(range) \in Nat
  BY RangeFacts
<1> HIDE DEF F
<1>3. \A n \in 1..Len(F) : F[n] \in {"delete"} \X range \X {"deletes"}
  BY <1>1
<1>4. \A n \in 1..Len(F) : F[n] \in Line
  BY <1>3 DEF Line, Batch4
<1> QED
  BY <1>1, <1>2, <1>4 DEF F

\* A deletion removes the next VLAN, or finds nothing and there is nothing left.
LEMMA CleanupStep ==
  ASSUME LinksInv, Step, NEW range \in SUBSET Vlan, NEW p,
         Left(script, Cleanup(range), p),
         NEW c \in 0..Cardinality(range), Ahead(range, links, p, c)
  PROVE  \E q : Left(script', Cleanup(range), q) /\ Ahead(range, links', q, c)
<1> DEFINE F == Cleanup(range)
           m == Cardinality(range)
           srt == Sorted(range)
<1>1. F \in Seq(Line) /\ Len(F) = m /\ m \in Nat
  BY CleanupLines
<1>2. \A j \in 1..m : F[j] = <<"delete", srt[j], "deletes">>
  BY CleanupFacts
<1>3. \A i, j \in 1..m : srt[i] = srt[j] => i = j
  BY RangeFacts
<1>4. srt \in [1..m -> range]
  BY RangeFacts
<1>5. Left(script, F, p) /\ c \in 0..m
  OBVIOUS
<1>6. \A v \in Vlan : links[v] # {} <=> \E j \in (p + 1)..c : srt[j] = v
  BY DEF Ahead
<1> HIDE DEF F, m, srt
<1>7. /\ p \in Nat /\ p + 1 \in 1..m
      /\ \E q \in (p + 1)..Len(F) : Carried(F, p, q)
  BY <1>1, <1>5, Carries
<1>8. PICK q \in (p + 1)..m : Carried(F, p, q)
  BY <1>1, <1>7
<1>9. Left(script', F, q) /\ (q = p + 1 \/ q = Len(F) \/ F[q + 1][3] # F[p + 1][3])
  BY <1>8 DEF Carried, GoesOn
<1> DEFINE v == srt[p + 1]
<1>10. F[p + 1] = <<"delete", v, "deletes">> /\ v \in Vlan
  BY <1>2, <1>4, <1>7
<1>11. CASE Fails(F[p + 1])
  <2>1. links' = links
    BY <1>8, <1>11 DEF Carried
  <2>2. links[v] = {}
    BY <1>10, <1>11 DEF Fails
  <2>3. p + 1 \notin (p + 1)..c
    BY <1>6, <1>10, <2>2
  <2>4. c <= p
    BY <1>5, <1>7, <2>3
  <2>5. \A j : j \notin (p + 1)..c /\ j \notin (q + 1)..c
    BY <1>1, <1>5, <1>7, <1>8, <2>4
  <2>6. \A u \in Vlan : links'[u] # {} <=> \E j \in (q + 1)..c : srt[j] = u
    BY <1>6, <2>1, <2>5
  <2> QED
    BY <1>9, <2>6 DEF Ahead, srt, F
<1>12. CASE ~ Fails(F[p + 1])
  <2>1. q = p + 1 /\ links' = [links EXCEPT ![v] = With(@, "delete")]
    BY <1>8, <1>10, <1>12 DEF Carried
  <2>2. With(links[v], "delete") = {}
    BY DEF With
  <2> HIDE DEF v
  <2>3. links' = [u \in Vlan |-> IF u = v THEN {} ELSE links[u]]
    BY <1>10, <2>1, <2>2 DEF LinksInv
  <2>4. \A j \in (p + 1)..c : j \in 1..m /\ (j = p + 1 \/ j \in (q + 1)..c)
    BY <1>1, <1>5, <1>7, <2>1
  <2>5. \A j \in (q + 1)..c : j \in (p + 1)..c /\ j \in 1..m /\ j # p + 1
    BY <1>1, <1>5, <1>7, <2>1
  <2>6. ASSUME NEW u \in Vlan
        PROVE  links'[u] # {} <=> \E j \in (q + 1)..c : srt[j] = u
    <3>1. CASE u = v
      <4>1. \A j \in (q + 1)..c : srt[j] # v
        BY <1>3, <1>7, <2>5 DEF v
      <4> QED
        BY <2>3, <3>1, <4>1
    <3>2. CASE u # v
      <4>1. links'[u] = links[u]
        BY <2>3, <3>2
      <4>2. (\E j \in (p + 1)..c : srt[j] = u) => \E j \in (q + 1)..c : srt[j] = u
        BY <2>4, <3>2 DEF v
      <4>3. (\E j \in (q + 1)..c : srt[j] = u) => \E j \in (p + 1)..c : srt[j] = u
        BY <2>5
      <4> QED
        BY <1>6, <4>1, <4>2, <4>3
    <3> QED
      BY <3>1, <3>2
  <2> QED
    BY <1>9, <2>6 DEF Ahead, srt, F
<1> QED
  BY <1>11, <1>12

\* The last run was a setup of the same VLANs on a bare client.
AfterSetup == last.tool = "setup" /\ last.range = job.range /\ last.bare

\* The invariant of the cleanup holds of every behaviour.
LEMMA CleanupHolds == Spec => []CleanupInv
<1>1. Init => CleanupInv
  BY DEF Init, Nothing, CleanupInv
<1>2. LinksInv /\ ColdInv /\ CleanupInv /\ [Next]_vars => CleanupInv'
  <2> DEFINE Goal == \E p : /\ Left(script', Cleanup(job'.range), p)
                            /\ AfterSetup' /\ Live' =>
                                 \E c \in 0..Cardinality(job'.range) : Ahead(job'.range, links', p, c)
  <2> SUFFICES ASSUME LinksInv, ColdInv, CleanupInv, [Next]_vars, job'.tool = "cleanup"
               PROVE  Goal
    BY DEF CleanupInv, AfterSetup
  <2>a. ASSUME NEW range \in SUBSET Vlan
        PROVE  Cleanup(range) \in Seq(Line) /\ Len(Cleanup(range)) \in Nat
    BY CleanupLines
  <2>b. job.range \in SUBSET Vlan
    BY DEF LinksInv
  <2>c. job.tool = "cleanup" =>
          \E p : /\ Left(script, Cleanup(job.range), p)
                 /\ AfterSetup /\ Live =>
                      \E c \in 0..Cardinality(job.range) : Ahead(job.range, links, p, c)
    BY DEF CleanupInv, AfterSetup
  <2>1. ASSUME NEW tool \in Tools, NEW range \in SUBSET Vlan, Start(tool, range)
        PROVE  Goal
    <3>1. /\ job'.range = range /\ script' = Cleanup(range) /\ links' = links /\ last' = job
      BY <2>1 DEF Start, Script
    <3>2. Left(script', Cleanup(range), 0)
      BY <2>a, <3>1, LeftEnds
    <3>3. ASSUME AfterSetup' PROVE \E c \in 0..Cardinality(range) : Ahead(range, links', 0, c)
      <4>1. job.tool = "setup" /\ job.bare /\ job.range = range
        BY <3>1, <3>3 DEF AfterSetup
      <4>2. \E c \in 0..Cardinality(job.range) : Ahead(job.range, links, 0, c)
        BY <4>1, FirstOnes
      <4> QED
        BY <3>1, <4>1, <4>2
    <3> QED
      BY <3>1, <3>2, <3>3
  <2>2. CASE Step
    <3>1. job' = job /\ AfterSetup' = AfterSetup /\ Live' = Live
      BY <2>2 DEF Step, Live, AfterSetup
    <3>2. PICK p : /\ Left(script, Cleanup(job.range), p)
                   /\ AfterSetup /\ Live =>
                        \E c \in 0..Cardinality(job.range) : Ahead(job.range, links, p, c)
      BY <2>c, <3>1
    <3>3. CASE AfterSetup /\ Live
      <4>1. PICK c \in 0..Cardinality(job.range) : Ahead(job.range, links, p, c)
        BY <3>2, <3>3
      <4>2. \E q : Left(script', Cleanup(job.range), q) /\ Ahead(job.range, links', q, c)
        BY <2>2, <2>b, <3>2, <4>1, CleanupStep
      <4> QED
        BY <3>1, <4>2
    <3>4. CASE ~ (AfterSetup /\ Live)
      <4>1. PICK q : Carried(Cleanup(job.range), p, q)
        BY <2>2, <2>a, <2>b, <3>2, Carries
      <4> QED
        BY <3>1, <3>4, <4>1 DEF Carried, GoesOn
    <3> QED
      BY <3>3, <3>4
  <2>3. CASE Done
    <3>1. /\ job'.range = job.range /\ job.tool = "cleanup" /\ Live /\ AfterSetup' = AfterSetup
          /\ UNCHANGED <<links, script>>
      BY <2>3 DEF Done, Live, LinksInv, AfterSetup
    <3> QED
      BY <2>c, <3>1
  <2>4. CASE Fail \/ Kill
    <3>1. /\ job'.range = job.range /\ job.tool = "cleanup" /\ ~ Live'
          /\ script' \in {script, <<>>}
      BY <2>4 DEF Fail, Kill, Live, LinksInv
    <3>2. PICK p : Left(script, Cleanup(job.range), p)
      BY <2>c, <3>1
    <3> QED
      BY <2>a, <2>b, <3>1, <3>2, Stops
  <2>5. CASE UNCHANGED vars
    <3>1. job' = job /\ links' = links /\ script' = script /\ Live' = Live /\ AfterSetup' = AfterSetup
      BY <2>5 DEF vars, Live, AfterSetup
    <3> QED
      BY <2>c, <3>1
  <2> QED
    BY <2>1, <2>2, <2>3, <2>4, <2>5 DEF Next
<1> QED
  BY <1>1, <1>2, LinksHold, SetupHolds, PTL DEF Spec

\* cleanup_client: a cleanup that is called done undoes the setup of the same
\* VLANs on a bare client, however far that had come, although the deletion
\* stops at the first subinterface that is missing.
THEOREM CleanupUndoesSetupHolds == Spec => []CleanupUndoesSetup
<1>1. LinksInv /\ CleanupInv => CleanupUndoesSetup
  <2> SUFFICES ASSUME LinksInv, CleanupInv, job.tool = "cleanup", job.end = "done", AfterSetup,
                      NEW v \in Vlan
               PROVE  links[v] = {}
    BY DEF CleanupUndoesSetup, Finished, AfterSetup
  <2> DEFINE F == Cleanup(job.range)
  <2>1. F \in Seq(Line) /\ Len(F) = Cardinality(job.range) /\ Cardinality(job.range) \in Nat
    BY CleanupLines DEF LinksInv
  <2>2. PICK p, c : Left(<<>>, F, p) /\ c \in 0..Cardinality(job.range) /\ Ahead(job.range, links, p, c)
    BY DEF CleanupInv, LinksInv, Live, AfterSetup
  <2> HIDE DEF F
  <2>3. p = Cardinality(job.range)
    BY <2>1, <2>2, LeftEnds
  <2>4. ~ \E j \in (p + 1)..c : TRUE
    BY <2>1, <2>2, <2>3
  <2> QED
    BY <2>2, <2>4 DEF Ahead
<1> QED
  BY <1>1, LinksHold, CleanupHolds, PTL
=============================================================================
