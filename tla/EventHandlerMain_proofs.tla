----------------------- MODULE EventHandlerMain_proofs -----------------------
(***************************************************************************)
(* The loops of event_handler_main, for options of any length and any      *)
(* interfaces and VLANs: what the words of the options mean takes effect,  *)
(* and the collection loops, which walk sorted lists and may stop anywhere *)
(* in them, answer what the closed form says.                              *)
(***************************************************************************)
EXTENDS EventHandlerMain, FiniteSetTheorems, TLAPS
-----------------------------------------------------------------------------
(* sorted().                                                               *)

\* A finite set whose elements have different numbers for keys can be listed
\* in the order of these, each element once.
LEMMA Enumerated ==
  ASSUME NEW S, IsFiniteSet(S), NEW key \in [S -> Nat],
         \A x, y \in S : key[x] = key[y] => x = y
  PROVE  \E s \in [1..Cardinality(S) -> S] :
            /\ \A i, j \in 1..Cardinality(S) : i < j => key[s[i]] < key[s[j]]
            /\ \A i, j \in 1..Cardinality(S) : i # j => s[i] # s[j]
<1> DEFINE N == Cardinality(S)
           upTo(x) == {y \in S : key[y] <= key[x]}
           rank == [x \in S |-> Cardinality(upTo(x))]
           s == [i \in 1..N |-> CHOOSE x \in S : rank[x] = i]
<1>1. N \in Nat
  BY FS_CardinalityType
<1>2. ASSUME NEW x \in S
      PROVE  upTo(x) \in SUBSET S /\ IsFiniteSet(upTo(x)) /\ Cardinality(upTo(x)) \in 1..N
  <2>1. upTo(x) \in SUBSET S /\ x \in upTo(x)
    OBVIOUS
  <2>2. IsFiniteSet(upTo(x)) /\ Cardinality(upTo(x)) <= N
    BY <2>1, FS_Subset
  <2>3. Cardinality(upTo(x)) \in Nat /\ Cardinality(upTo(x)) # 0
    BY <2>1, <2>2, FS_CardinalityType, FS_EmptySet
  <2> QED
    BY <1>1, <2>1, <2>2, <2>3
<1>3. rank \in [S -> 1..N] /\ \A x \in S : rank[x] = Cardinality(upTo(x))
  BY <1>2
<1>4. ASSUME NEW x \in S, NEW y \in S, key[x] < key[y]
      PROVE  rank[x] < rank[y]
  <2>1. upTo(x) \in SUBSET upTo(y) /\ y \in upTo(y) /\ y \notin upTo(x)
    BY <1>4
  <2>2. Cardinality(upTo(x)) <= Cardinality(upTo(y)) /\ Cardinality(upTo(x)) # Cardinality(upTo(y))
    BY <2>1, <1>2, FS_Subset
  <2> QED
    BY <2>2, <1>2, <1>3
<1>5. \A x, y \in S : rank[x] = rank[y] => x = y
  <2> SUFFICES ASSUME NEW x \in S, NEW y \in S, rank[x] = rank[y] PROVE x = y
    OBVIOUS
  <2>1. rank[x] \in Int /\ rank[y] \in Int
    BY <1>1, <1>3
  <2>2. ~(key[x] < key[y]) /\ ~(key[y] < key[x])
    BY <1>4, <2>1
  <2> QED
    BY <2>2
<1>6. rank \in Injection(S, 1..N)
  BY <1>3, <1>5 DEF Injection, IsInjective
<1>7. IsFiniteSet(1..N) /\ Cardinality(1..N) = N
  BY <1>1, FS_Interval
<1>8. rank \in Surjection(S, 1..N)
  BY <1>6, <1>7, FS_Injection
<1>9. \A i \in 1..N : \E x \in S : rank[x] = i
  BY <1>8 DEF Surjection
<1>10. \A i \in 1..N : s[i] \in S /\ rank[s[i]] = i
  BY <1>9
<1>11. s \in [1..N -> S]
  BY <1>10
<1> HIDE DEF s, rank
<1>12. ASSUME NEW i \in 1..N, NEW j \in 1..N, i < j
       PROVE  key[s[i]] < key[s[j]]
  <2>1. s[i] \in S /\ s[j] \in S /\ rank[s[i]] = i /\ rank[s[j]] = j
    BY <1>10
  <2>2. ~(key[s[j]] < key[s[i]])
    <3> SUFFICES ASSUME key[s[j]] < key[s[i]] PROVE FALSE
      OBVIOUS
    <3>1. rank[s[j]] < rank[s[i]]
      BY <2>1, <1>4
    <3> QED
      BY <3>1, <2>1, <1>12, <1>1
  <2>3. key[s[i]] # key[s[j]]
    <3> SUFFICES ASSUME key[s[i]] = key[s[j]] PROVE FALSE
      OBVIOUS
    <3>1. s[i] = s[j]
      BY <2>1
    <3> QED
      BY <3>1, <2>1, <1>12, <1>1
  <2>4. key[s[i]] \in Int /\ key[s[j]] \in Int
    BY <2>1
  <2> QED
    BY <2>2, <2>3, <2>4
<1>13. \A i, j \in 1..N : i # j => s[i] # s[j]
  BY <1>10
<1> QED
  BY <1>11, <1>12, <1>13

\* A list of a finite set without repetitions misses nothing.
LEMMA ListsAll ==
  ASSUME NEW S, IsFiniteSet(S), NEW s \in [1..Cardinality(S) -> S],
         \A i, j \in 1..Cardinality(S) : i # j => s[i] # s[j]
  PROVE  /\ \A x \in S : \E i \in 1..Cardinality(S) : s[i] = x
         /\ Len(s) = Cardinality(S) /\ Len(s) \in Nat /\ s \in Seq(S)
<1>1. Cardinality(S) \in Nat
  BY FS_CardinalityType
<1>2. s \in Injection(1..Cardinality(S), S)
  BY DEF Injection, IsInjective
<1>3. IsFiniteSet(1..Cardinality(S)) /\ Cardinality(1..Cardinality(S)) = Cardinality(S)
  BY <1>1, FS_Interval
<1>4. s \in Surjection(1..Cardinality(S), S)
  BY <1>2, <1>3, FS_Injection
<1>5. \A x \in S : \E i \in 1..Cardinality(S) : s[i] = x
  BY <1>4 DEF Surjection
<1>6. Len(s) = Cardinality(S) /\ s \in Seq(S)
  BY <1>1
<1> QED
  BY <1>1, <1>5, <1>6

\* sorted() of the event handler, for the subinterfaces of one interface.
LEMMA SortedSubifs ==
  ASSUME NEW i \in Iface, NEW S \in SUBSET Subif, \A p \in S : p[1] = i
  PROVE  /\ Sorted(S) \in [1..Cardinality(S) -> S]
         /\ Sorted(S) \in Seq(S)
         /\ Cardinality(S) \in Nat
         /\ Len(Sorted(S)) = Cardinality(S)
         /\ \A m, n \in 1..Cardinality(S) : m < n => Sorted(S)[m][2] < Sorted(S)[n][2]
         /\ \A p \in S : \E n \in 1..Cardinality(S) : Sorted(S)[n] = p
<1> DEFINE key == [p \in S |-> p[2]]
           good(s) == /\ s \in SetToSeqs(S)
                      /\ \A m, n \in 1..Len(s) : m < n => s[m][2] < s[n][2]
<1>1. IsFiniteSet(S) /\ Cardinality(S) \in Nat
  BY FS_Product, FS_Subset, FS_CardinalityType, BatchingAssumption DEF Subif
<1>2. key \in [S -> Nat]
  BY BatchingAssumption DEF Subif
<1>3. \A p \in S : key[p] = p[2]
  OBVIOUS
<1> HIDE DEF key
<1>a. \A p, q \in S : key[p] = key[q] => p = q
  BY <1>3 DEF Subif
<1>4. PICK s \in [1..Cardinality(S) -> S] :
         /\ \A m, n \in 1..Cardinality(S) : m < n => key[s[m]] < key[s[n]]
         /\ \A m, n \in 1..Cardinality(S) : m # n => s[m] # s[n]
  BY <1>1, <1>2, <1>a, Enumerated
<1>5. Len(s) = Cardinality(S)
  BY <1>1, <1>4, ListsAll
<1>6. good(s)
  BY <1>3, <1>4, <1>5 DEF SetToSeqs
<1>7. Sorted(S) = CHOOSE q \in SetToSeqs(S) : \A m, n \in 1..Len(q) : m < n => q[m][2] < q[n][2]
  BY DEF Sorted, IsSorted
<1>8. good(Sorted(S))
  BY <1>6, <1>7
<1>9. /\ Sorted(S) \in [1..Cardinality(S) -> S]
      /\ \A m, n \in 1..Cardinality(S) : m # n => Sorted(S)[m] # Sorted(S)[n]
  BY <1>8 DEF SetToSeqs
<1>10. /\ Len(Sorted(S)) = Cardinality(S) /\ Sorted(S) \in Seq(S)
       /\ \A p \in S : \E n \in 1..Cardinality(S) : Sorted(S)[n] = p
  BY <1>1, <1>9, ListsAll
<1>11. \A m, n \in 1..Cardinality(S) : m < n => Sorted(S)[m][2] < Sorted(S)[n][2]
  BY <1>8, <1>10
<1> QED
  BY <1>1, <1>9, <1>10, <1>11
-----------------------------------------------------------------------------
(* The options.                                                            *)

\* Short sequences are tuples.
LEMMA ShortSequences ==
  ASSUME NEW T, NEW s \in Seq(T)
  PROVE  /\ Len(s) = 1 => s = <<s[1]>> /\ s[1] \in T
         /\ Len(s) = 2 => s = <<s[1], s[2]>> /\ s[1] \in T /\ s[2] \in T
         /\ \A v : s = <<v>> <=> Len(s) = 1 /\ s[1] = v
         /\ \A v, w : s = <<v, w>> <=> Len(s) = 2 /\ s[1] = v /\ s[2] = w
<1>1. Len(s) = 1 => s = <<s[1]>> /\ s[1] \in T
  OBVIOUS
<1>2. Len(s) = 2 => s = <<s[1], s[2]>>
  OBVIOUS
<1>3. Len(s) = 2 => s[1] \in T /\ s[2] \in T
  OBVIOUS
<1>4. ASSUME NEW v PROVE s = <<v>> <=> Len(s) = 1 /\ s[1] = v
  BY <1>1
<1>5. ASSUME NEW v, NEW w PROVE s = <<v, w>> <=> Len(s) = 2 /\ s[1] = v /\ s[2] = w
  BY <1>2
<1> QED
  BY <1>1, <1>2, <1>3, <1>4, <1>5

\* What int() accepts is a number of the range.
LEMMA Numbers ==
  ASSUME NEW part \in Part
  PROVE  IF IsInt(part) THEN part \in 0..MaxId ELSE part \notin Int
  BY PartsAssumption DEF Part, IsInt

\* However an option is configured, it comes apart into tokens.
LEMMA TokensType ==
  ASSUME NEW o \in Option
  PROVE  Tokens(o) \in Seq(Token) /\ Len(Tokens(o)) \in Nat
<1>1. o.strings \in Seq(Seq(Token)) /\ (o.list \/ Len(o.strings) = 1)
  BY DEF Option
<1>2. <<Junk>> \in Token
  BY DEF Token, Part
<1>3. ASSUME NEW s \in Seq(Token)
      PROVE  Element(s) \in Token
  BY <1>2 DEF Element
<1>4. CASE o.list
  <2>1. \A n \in 1..Len(o.strings) : o.strings[n] \in Seq(Token)
    BY <1>1
  <2>2. Tokens(o) = [n \in 1..Len(o.strings) |-> Element(o.strings[n])]
    BY <1>4 DEF Tokens
  <2>3. Len(o.strings) \in Nat
    BY <1>1
  <2> QED
    BY <1>3, <2>1, <2>2, <2>3
<1>5. CASE ~o.list
  <2>1. Tokens(o) = o.strings[1] /\ Len(o.strings) = 1
    BY <1>1, <1>5 DEF Tokens
  <2> QED
    BY <1>1, <2>1
<1> QED
  BY <1>4, <1>5

\* A token adds the VLANs it names, and one that is skipped names none.
LEMMA TokenMeaning ==
  ASSUME NEW token \in Token
  PROVE  {v \in 0..MaxId : Names(token, v)} = IF Skipped(token) THEN {} ELSE Gained(token)
<1>1. token \in Seq(Part) /\ Len(token) \in Nat /\ Len(token) # 0
  BY DEF Token
<1>2. ASSUME NEW v
      PROVE  Names(token, v) <=>
                \/ Len(token) = 1 /\ (token[1] = v \/ (token[1] = Untagged /\ v = 0))
                \/ Len(token) = 2 /\ IsInt(token[1]) /\ IsInt(token[2]) /\ token[1] <= v /\ v <= token[2]
  <2>1. \A x : token = <<x>> <=> Len(token) = 1 /\ token[1] = x
    BY <1>1, ShortSequences
  <2>2. token = <<v>> <=> Len(token) = 1 /\ token[1] = v
    BY <2>1
  <2>3. token = <<Untagged>> <=> Len(token) = 1 /\ token[1] = Untagged
    BY <2>1
  <2> QED
    BY <2>2, <2>3 DEF Names
<1>3. MaxId \in Nat
  BY OptionsAssumption
<1>4. CASE Len(token) = 1
  <2>1. token[1] \in Part
    BY <1>1, <1>4, ShortSequences
  <2>2. \A v \in 0..MaxId : Names(token, v) <=> token[1] = v \/ (token[1] = Untagged /\ v = 0)
    BY <1>2, <1>4
  <2>3. Skipped(token) <=> ~IsInt(token[1]) /\ token[1] # Untagged
    <3>1. token = <<Blank>> <=> token[1] = Blank
      BY <1>1, <1>4, ShortSequences
    <3> QED
      BY <1>4, <3>1, PartsAssumption DEF Skipped, IsInt
  <2>4. CASE token[1] = Untagged
    <3>1. \A v \in 0..MaxId : Names(token, v) <=> v = 0
      BY <2>2, <2>4, PartsAssumption
    <3> QED
      BY <1>3, <1>4, <2>3, <2>4, <3>1 DEF Gained
  <2>5. CASE token[1] # Untagged /\ IsInt(token[1])
    <3>1. token[1] \in 0..MaxId
      BY <2>1, <2>5, Numbers
    <3>2. Gained(token) = {token[1]}
      BY <1>4, <2>5 DEF Gained
    <3>3. \A v \in 0..MaxId : Names(token, v) <=> token[1] = v
      BY <2>2, <2>5
    <3>4. {v \in 0..MaxId : Names(token, v)} = {token[1]}
      BY <3>1, <3>3
    <3> QED
      BY <2>3, <2>5, <3>2, <3>4
  <2>6. CASE token[1] # Untagged /\ ~IsInt(token[1])
    <3>1. token[1] \notin Int
      BY <2>1, <2>6, Numbers
    <3>2. \A v \in 0..MaxId : ~Names(token, v)
      BY <2>2, <2>6, <3>1
    <3> QED
      BY <2>3, <2>6, <3>2
  <2> QED
    BY <2>4, <2>5, <2>6
<1>5. CASE Len(token) = 2
  <2>1. token[1] \in Part /\ token[2] \in Part
    BY <1>1, <1>5, ShortSequences
  <2>2. \A v \in 0..MaxId : Names(token, v) <=>
           IsInt(token[1]) /\ IsInt(token[2]) /\ token[1] <= v /\ v <= token[2]
    BY <1>5, <1>2
  <2>3. Skipped(token) <=> ~(IsInt(token[1]) /\ IsInt(token[2]))
    <3>1. token # <<Blank>>
      BY <1>1, <1>5, ShortSequences
    <3> QED
      BY <1>5, <3>1 DEF Skipped
  <2>4. CASE Skipped(token)
    BY <2>2, <2>3, <2>4
  <2>5. CASE ~Skipped(token)
    <3>1. token[1] \in 0..MaxId /\ token[2] \in 0..MaxId
      BY <2>1, <2>3, <2>5, Numbers
    <3>2. Gained(token) = token[1]..token[2]
      BY <1>5 DEF Gained
    <3> QED
      BY <1>3, <2>2, <2>3, <2>5, <3>1, <3>2
  <2> QED
    BY <2>4, <2>5
<1>6. CASE Len(token) > 2
  <2>1. Skipped(token)
    BY <1>6 DEF Skipped
  <2>2. \A v \in 0..MaxId : ~Names(token, v)
    <3>1. \A n \in Nat : n > 2 => n # 1 /\ n # 2
      OBVIOUS
    <3>2. Len(token) # 1 /\ Len(token) # 2
      BY <1>1, <1>6, <3>1
    <3> QED
      BY <1>2, <3>2
  <2> QED
    BY <2>1, <2>2
<1>7. Len(token) = 1 \/ Len(token) = 2 \/ Len(token) > 2
  <2>1. \A n \in Nat : n = 0 \/ n = 1 \/ n = 2 \/ n > 2
    OBVIOUS
  <2> QED
    BY <1>1, <2>1
<1> QED
  BY <1>4, <1>5, <1>6, <1>7

\* rt-asn is what its first value spells, or else the default.
LEMMA RtAsnMeaning ==
  ASSUME NEW o \in Option
  PROVE  \/ Spells(o, RtAsn(o, RtAsnDefault))
         \/ /\ RtAsn(o, RtAsnDefault) = RtAsnDefault
            /\ \A n \in -MaxId..MaxId : ~Spells(o, n)
<1> DEFINE string == IF o.strings = <<>> THEN <<>> ELSE o.strings[1]
           token  == IF Len(string) = 1 THEN string[1] ELSE <<Junk>>
           plain  == Len(token) = 1 /\ IsInt(token[1])
           signed == Len(token) = 2 /\ token[1] = Blank /\ IsInt(token[2])
<1>1. string \in Seq(Token)
  BY DEF Option
<1>2. Len(string) = 1 => string = <<token>> /\ token \in Token
  BY <1>1, ShortSequences
<1>3. token \in Seq(Part)
  <2>1. CASE Len(string) = 1
    BY <1>2, <2>1 DEF Token
  <2>2. CASE Len(string) # 1
    <3>1. token = <<Junk>> /\ Junk \in Part
      BY <2>2 DEF Part
    <3> HIDE DEF token
    <3> QED
      BY <3>1
  <2> QED
    BY <2>1, <2>2
<1>4. RtAsn(o, RtAsnDefault) = IF plain THEN token[1] ELSE IF signed THEN -token[2] ELSE RtAsnDefault
  BY DEF RtAsn
<1>5. ASSUME NEW n
      PROVE  Spells(o, n) <=>
                /\ Len(string) = 1
                /\ \/ Len(token) = 1 /\ token[1] = n
                   \/ Len(token) = 2 /\ token[1] = Blank /\ token[2] = -n
  <2>1. Spells(o, n) <=> string = <<<<n>>>> \/ string = <<<<Blank, -n>>>>
    BY DEF Spells
  <2>2. \A x : string = <<x>> <=> Len(string) = 1 /\ string[1] = x
    BY <1>1, ShortSequences
  <2>3. token = <<n>> <=> Len(token) = 1 /\ token[1] = n
    BY <1>3, ShortSequences
  <2>a. \A v, w : token = <<v, w>> <=> Len(token) = 2 /\ token[1] = v /\ token[2] = w
    <3> HIDE DEF token
    <3> QED
      BY <1>3, ShortSequences
  <2>4. token = <<Blank, -n>> <=> Len(token) = 2 /\ token[1] = Blank /\ token[2] = -n
    BY <2>a
  <2> HIDE DEF string
  <2>5. string = <<<<n>>>> <=> Len(string) = 1 /\ token = <<n>>
    BY <2>2
  <2>6. string = <<<<Blank, -n>>>> <=> Len(string) = 1 /\ token = <<Blank, -n>>
    BY <2>2
  <2> HIDE DEF token
  <2> QED
    BY <2>1, <2>3, <2>4, <2>5, <2>6
<1>6. Len(string) # 1 => ~plain /\ ~signed
  BY PartsAssumption DEF IsInt
<1>7. Len(token) = 1 => token[1] \in Part
  BY <1>3, ShortSequences
<1>8. Len(token) = 2 => token[2] \in Part
  BY <1>3, ShortSequences
<1> HIDE DEF string, token
<1>9. CASE plain
  BY <1>4, <1>5, <1>6, <1>9
<1>10. CASE ~plain /\ signed
  <2>1. token[2] \in 0..MaxId
    BY <1>8, <1>10, Numbers
  <2>2. RtAsn(o, RtAsnDefault) = -token[2] /\ token[2] = -(-token[2])
    BY <1>4, <1>10, <2>1
  <2> QED
    BY <1>5, <1>6, <1>10, <2>2
<1>11. CASE ~plain /\ ~signed
  <2>1. RtAsn(o, RtAsnDefault) = RtAsnDefault
    BY <1>4, <1>11
  <2>2. ASSUME NEW n \in -MaxId..MaxId, Spells(o, n)
        PROVE  FALSE
    <3>1. MaxId \in Nat /\ n \in Int /\ -n \in Int
      BY OptionsAssumption
    <3>2. \/ Len(token) = 1 /\ token[1] = n
          \/ Len(token) = 2 /\ token[1] = Blank /\ token[2] = -n
      BY <1>5, <2>2
    <3>3. CASE Len(token) = 1 /\ token[1] = n
      BY <1>7, <1>11, <3>1, <3>3, Numbers
    <3>4. CASE Len(token) = 2 /\ token[1] = Blank /\ token[2] = -n
      BY <1>8, <1>11, <3>1, <3>4, Numbers
    <3> QED
      BY <3>2, <3>3, <3>4
  <2> QED
    BY <2>1, <2>2
<1> QED
  BY <1>9, <1>10, <1>11

\* What the parsing has found so far: rt-asn is done first, and excluded_vlans
\* are the VLANs the tokens seen name.
OptionsInv ==
  /\ phase \in {"rt-asn", "exclude-vlans"} => raw.rt \in Option /\ raw.exclude \in Option
  /\ phase = "rt-asn" => excluded = {} /\ k = 1
  /\ phase = "exclude-vlans" =>
       /\ rtAsn = RtAsn(raw.rt, RtAsnDefault)
       /\ k \in 1..(Len(Tokens(raw.exclude)) + 1)
       /\ excluded = {v \in 0..MaxId : \E n \in 1..(k - 1) : Names(Tokens(raw.exclude)[n], v)}

\* One more token.
LEMMA TokenKeepsOptionsInv ==
  ASSUME OptionsInv, ParseToken
  PROVE  OptionsInv'
<1> DEFINE tokens == Tokens(raw.exclude)
<1>1. /\ phase = "exclude-vlans" /\ k <= Len(tokens)
      /\ phase' = phase /\ raw' = raw /\ rtAsn' = rtAsn /\ k' = k + 1
      /\ excluded' = IF Skipped(tokens[k]) THEN excluded ELSE excluded \cup Gained(tokens[k])
  BY DEF ParseToken
<1>2. raw.rt \in Option /\ raw.exclude \in Option
  BY <1>1 DEF OptionsInv
<1>3. tokens \in Seq(Token) /\ Len(tokens) \in Nat
  BY <1>2, TokensType
<1>4. /\ rtAsn = RtAsn(raw.rt, RtAsnDefault)
      /\ k \in 1..(Len(tokens) + 1)
      /\ excluded = {v \in 0..MaxId : \E n \in 1..(k - 1) : Names(tokens[n], v)}
  BY <1>1 DEF OptionsInv
<1>5. Tokens(raw.exclude)' = tokens
  BY <1>1
<1> HIDE DEF tokens
<1>6. tokens[k] \in Token /\ k \in 1..Len(tokens)
  BY <1>1, <1>3, <1>4
<1>7. excluded' = excluded \cup {v \in 0..MaxId : Names(tokens[k], v)}
  BY <1>1, <1>6, TokenMeaning
<1>8. \A n : n \in 1..(k' - 1) <=> n \in 1..(k - 1) \/ n = k
  BY <1>1, <1>6
<1>9. excluded' = {v \in 0..MaxId : \E n \in 1..(k' - 1) : Names(tokens[n], v)}
  BY <1>4, <1>7, <1>8
<1>10. k' \in 1..(Len(tokens) + 1)
  BY <1>1, <1>3, <1>6
<1>11. phase' = "exclude-vlans" => rtAsn' = RtAsn(raw.rt, RtAsnDefault)'
  BY <1>1, <1>4
<1> QED
  BY <1>1, <1>2, <1>5, <1>9, <1>10, <1>11 DEF OptionsInv

\* The invariant holds of every behaviour.
LEMMA OptionsParsed == Spec => []OptionsInv
<1>1. Init => OptionsInv
  <2> SUFFICES ASSUME Init PROVE OptionsInv
    OBVIOUS
  <2>1. raw.rt \in Option /\ raw.exclude \in Option
    BY OptionsAssumption DEF Init
  <2> QED
    BY <2>1 DEF Init, OptionsInv
<1>2. OptionsInv /\ [Next]_vars => OptionsInv'
  <2> SUFFICES ASSUME OptionsInv, [Next]_vars PROVE OptionsInv'
    OBVIOUS
  <2>1. CASE ParseRtAsn
    <3>1. /\ phase = "rt-asn" /\ phase' = "exclude-vlans" /\ raw' = raw /\ k' = k
          /\ rtAsn' = RtAsn(raw.rt, RtAsnDefault) /\ excluded' = excluded
      BY <2>1 DEF ParseRtAsn
    <3>2. raw.rt \in Option /\ raw.exclude \in Option /\ excluded = {} /\ k = 1
      BY <3>1 DEF OptionsInv
    <3>3. Len(Tokens(raw.exclude)) \in Nat
      BY <3>2, TokensType
    <3>4. k' \in 1..(Len(Tokens(raw.exclude)) + 1) /\ \A n : n \notin 1..(k' - 1)
      BY <3>1, <3>2, <3>3
    <3>5. excluded' = {v \in 0..MaxId : \E n \in 1..(k' - 1) : Names(Tokens(raw.exclude)[n], v)}
      BY <3>1, <3>2, <3>4
    <3> QED
      BY <3>1, <3>2, <3>4, <3>5 DEF OptionsInv
  <2>2. CASE ParseToken
    BY <2>2, TokenKeepsOptionsInv
  <2>3. CASE \/ LeaveOptions \/ ReadPaths \/ CollectReported \/ LeaveReported
             \/ CollectGone \/ LeaveGone \/ ApplyAdd \/ ApplyRemove \/ Finish
    <3>1. phase' \notin {"rt-asn", "exclude-vlans"}
      BY <2>3 DEF LeaveOptions, ReadPaths, CollectReported, LeaveReported, CollectGone,
                  LeaveGone, ApplyAdd, ApplyRemove, Finish
    <3> QED
      BY <3>1 DEF OptionsInv
  <2>4. CASE UNCHANGED vars
    BY <2>4 DEF vars, options, OptionsInv
  <2> QED
    BY <2>1, <2>2, <2>3, <2>4 DEF Next
<1> QED
  BY <1>1, <1>2, PTL DEF Spec

\* The options mean what is written in them: for any tokens, any number of
\* them, and either way to configure an option.
THEOREM OptionsHold == Spec => []OptionsAsWritten
<1>1. OptionsInv => OptionsAsWritten
  <2> SUFFICES ASSUME OptionsInv, phase = "exclude-vlans", k > Len(Tokens(raw.exclude))
               PROVE  /\ excluded = {v \in 0..MaxId :
                                       \E token \in ToSet(Tokens(raw.exclude)) : Names(token, v)}
                      /\ \/ Spells(raw.rt, rtAsn)
                         \/ rtAsn = RtAsnDefault /\ \A n \in -MaxId..MaxId : ~Spells(raw.rt, n)
    BY DEF OptionsAsWritten
  <2> DEFINE tokens == Tokens(raw.exclude)
  <2>1. raw.rt \in Option /\ raw.exclude \in Option /\ rtAsn = RtAsn(raw.rt, RtAsnDefault)
    BY DEF OptionsInv
  <2>2. tokens \in Seq(Token) /\ Len(tokens) \in Nat
    BY <2>1, TokensType
  <2>3. /\ k \in 1..(Len(tokens) + 1)
        /\ excluded = {v \in 0..MaxId : \E n \in 1..(k - 1) : Names(tokens[n], v)}
    BY DEF OptionsInv
  <2>4. k > Len(tokens)
    OBVIOUS
  <2> HIDE DEF tokens
  <2>5. k - 1 = Len(tokens)
    BY <2>2, <2>3, <2>4
  <2>6. ToSet(tokens) = {tokens[n] : n \in 1..Len(tokens)}
    BY <2>2 DEF ToSet
  <2>7. excluded = {v \in 0..MaxId : \E token \in ToSet(tokens) : Names(token, v)}
    BY <2>3, <2>5, <2>6
  <2>8. \/ Spells(raw.rt, rtAsn)
        \/ rtAsn = RtAsnDefault /\ \A n \in -MaxId..MaxId : ~Spells(raw.rt, n)
    BY <2>1, RtAsnMeaning
  <2> QED
    BY <2>7, <2>8 DEF tokens
<1> QED
  BY <1>1, OptionsParsed, PTL
-----------------------------------------------------------------------------
(* The collection.                                                         *)

\* Sets of subinterfaces are finite.
LEMMA SubsetsFinite ==
  ASSUME NEW S \in SUBSET Subif
  PROVE  IsFiniteSet(S)
  BY FS_Product, FS_Subset, BatchingAssumption DEF Subif

\* The first n elements of s.
UpTo(s, n) == {s[m] : m \in 1..n}

\* s is a list of changes in an order the collection may have: nothing twice,
\* what must come earlier does, and an interface is left when it is complete.
Ordered(s, P, d, r) ==
  /\ s \in Seq(P)
  /\ \A m, n \in 1..Len(s) : m # n => s[m] # s[n]
  /\ \A n \in 1..Len(s) : \A q \in P : Precedes(q, s[n], d, r) => q \in UpTo(s, n - 1)
  /\ \A m, n \in 1..Len(s) : m < n /\ s[m][1] # s[n][1] =>
        \A q \in P : q[1] = s[m][1] => q \in UpTo(s, n - 1)

\* The front of a sequence.
LEMMA TakeFacts ==
  ASSUME NEW T, NEW s \in Seq(T), NEW n \in Nat
  PROVE  /\ Take(s, n) \in Seq(T)
         /\ Len(Take(s, n)) = (IF Len(s) < n THEN Len(s) ELSE n)
         /\ \A m \in 1..Len(Take(s, n)) : Take(s, n)[m] = s[m]
<1>1. Len(s) \in Nat
  OBVIOUS
<1> DEFINE z == IF Len(s) < n THEN Len(s) ELSE n
<1>2. z \in 0..Len(s)
  BY <1>1
<1>3. Take(s, n) = SubSeq(s, 1, z)
  BY DEF Take
<1> HIDE DEF z
<1>4. Take(s, n) = [m \in 1..z |-> s[m]]
  BY <1>2, <1>3
<1>5. Take(s, n) \in Seq(T) /\ Len(Take(s, n)) = z
  BY <1>1, <1>2, <1>4
<1>6. \A m \in 1..Len(Take(s, n)) : Take(s, n)[m] = s[m]
  BY <1>4, <1>5
<1> QED
  BY <1>5, <1>6 DEF z

\* One sequence after another.
LEMMA ConcatFacts ==
  ASSUME NEW T, NEW s \in Seq(T), NEW u \in Seq(T)
  PROVE  /\ s \o u \in Seq(T)
         /\ Len(s \o u) = Len(s) + Len(u)
         /\ \A n \in 1..Len(s) : (s \o u)[n] = s[n]
         /\ \A n \in 1..Len(u) : (s \o u)[Len(s) + n] = u[n]
  OBVIOUS

\* The elements of a sequence are those up to its end.
LEMMA ToSetFacts ==
  ASSUME NEW T, NEW s \in Seq(T)
  PROVE  ToSet(s) = UpTo(s, Len(s)) /\ ToSet(s) \subseteq T /\ Len(s) \in Nat
  BY DEF ToSet, UpTo

\* A sequence without repetitions is as long as the set of its elements.
LEMMA Distinct ==
  ASSUME NEW T, NEW s \in Seq(T), \A m, n \in 1..Len(s) : m # n => s[m] # s[n],
         NEW k0 \in 0..Len(s)
  PROVE  IsFiniteSet(UpTo(s, k0)) /\ Cardinality(UpTo(s, k0)) = k0
<1> DEFINE f == [n \in 1..k0 |-> s[n]]
<1>1. Len(s) \in Nat /\ k0 \in Nat
  OBVIOUS
<1>2. f \in Surjection(1..k0, UpTo(s, k0))
  BY DEF Surjection, UpTo
<1>3. f \in Injection(1..k0, UpTo(s, k0))
  BY <1>1 DEF Injection, IsInjective, UpTo
<1>4. IsFiniteSet(1..k0) /\ Cardinality(1..k0) = k0
  BY <1>1, FS_Interval
<1> QED
  BY <1>2, <1>3, <1>4, FS_Surjection

\* res has the changes of S after acc, as far as there was room for them.
Extended(res, acc, S, P, d, r) ==
  /\ Ordered(res, P, d, r)
  /\ Len(res) <= Limit
  /\ ToSet(res) \subseteq ToSet(acc) \cup S
  /\ Len(res) < Limit => ToSet(acc) \cup S \subseteq ToSet(res)

\* Appending the next changes of one interface, as far as there is room, keeps
\* the order; below the limit all of them are in.
LEMMA AppendKeepsOrder ==
  ASSUME NEW P \in SUBSET Subif, NEW d, NEW r,
         NEW acc, Ordered(acc, P, d, r), Len(acc) < Limit,
         NEW i \in Iface, NEW S \in SUBSET P,
         \A p \in S : p[1] = i /\ p \notin ToSet(acc),
         \A p \in S : \A q \in P : Precedes(q, p, d, r) =>
            q \in ToSet(acc) \/ (q \in S /\ q[2] < p[2]),
         \A x \in ToSet(acc) : x[1] # i => \A q \in P : q[1] = x[1] => q \in ToSet(acc)
  PROVE  Extended(AppendUntil(acc, S), acc, S, P, d, r)
<1> DEFINE res == AppendUntil(acc, S)
           srt == Sorted(S)
           L == Len(acc)
           tail == Take(srt, Limit - L)
           N == Cardinality(S)
           T == IF N < Limit - L THEN N ELSE Limit - L
<1>1. /\ srt \in [1..N -> S] /\ Len(srt) = N /\ N \in Nat
      /\ \A m, n \in 1..N : m < n => srt[m][2] < srt[n][2]
      /\ \A p \in S : \E n \in 1..N : srt[n] = p
  BY SortedSubifs
<1>a. srt \in Seq(P)
  BY <1>1
<1>2. Limit \in Nat /\ acc \in Seq(P) /\ L \in Nat
  BY BatchingAssumption DEF Limit, Ordered
<1>3. T \in 0..N /\ L + T <= Limit /\ Limit - L \in Nat /\ (L + T < Limit => T = N)
  BY <1>1, <1>2
<1>4. res = acc \o tail
  BY DEF AppendUntil
<1>5. /\ tail \in Seq(P)
      /\ Len(tail) = T
      /\ \A n \in 1..T : tail[n] = srt[n]
  BY <1>1, <1>a, <1>3, TakeFacts
<1>b. Len(acc) = L
  OBVIOUS
<1> HIDE DEF T, N, L, srt, res, tail
<1>c. res \in Seq(P) /\ Len(res) = Len(acc) + Len(tail)
  <2>1. \A u, v \in Seq(P) : u \o v \in Seq(P) /\ Len(u \o v) = Len(u) + Len(v)
    BY ConcatFacts
  <2>2. acc \in Seq(P) /\ tail \in Seq(P)
    BY <1>2, <1>5
  <2> QED
    BY <2>1, <2>2, <1>4
<1>6. res \in Seq(P) /\ Len(res) = L + T
  BY <1>b, <1>c, <1>5
<1>7. \A n \in 1..L : res[n] = acc[n]
  BY <1>2, <1>b, <1>4, <1>5, ConcatFacts
<1>8. \A n \in 1..T : res[L + n] = srt[n] /\ srt[n] \in S
  <2> SUFFICES ASSUME NEW n \in 1..T PROVE res[L + n] = srt[n] /\ srt[n] \in S
    OBVIOUS
  <2>1. res[L + n] = tail[n]
    BY <1>2, <1>b, <1>4, <1>5, ConcatFacts
  <2> QED
    BY <1>1, <1>3, <1>5, <2>1
<1>9. ASSUME NEW n \in 1..Len(res)
      PROVE  n \in 1..L \/ (n - L \in 1..T /\ res[n] = srt[n - L] /\ srt[n - L] \in S)
  <2>1. n \in 1..L \/ (n - L \in 1..T /\ L + (n - L) = n)
    BY <1>2, <1>3, <1>6
  <2> QED
    BY <2>1, <1>8
<1>10. ToSet(acc) = UpTo(acc, L) /\ ToSet(res) = UpTo(res, L + T)
  BY <1>2, <1>6, ToSetFacts DEF L
<1>11. ToSet(acc) \subseteq UpTo(res, L)
  BY <1>7, <1>10 DEF UpTo
<1>12. \A m, n \in Int : m <= n => UpTo(res, m) \subseteq UpTo(res, n)
  BY DEF UpTo
<1>13. \A n \in 1..T : srt[n] \in UpTo(res, L + n)
  BY <1>2, <1>3, <1>8 DEF UpTo
<1>14. \A m, n \in 1..Len(res) : m # n => res[m] # res[n]
  <2> SUFFICES ASSUME NEW m \in 1..Len(res), NEW n \in 1..Len(res), m < n, res[m] = res[n]
               PROVE  FALSE
    BY <1>2, <1>3, <1>6
  <2>1. CASE n \in 1..L
    BY <2>1, <1>2, <1>7 DEF Ordered, L
  <2>2. CASE n \notin 1..L /\ m \in 1..L
    <3>1. res[n] \in S
      BY <1>9, <2>2
    <3>2. res[m] \in ToSet(acc)
      BY <1>7, <1>10, <2>2 DEF UpTo
    <3> QED
      BY <3>1, <3>2
  <2>3. CASE n \notin 1..L /\ m \notin 1..L
    <3>1. /\ n - L \in 1..T /\ m - L \in 1..T /\ m - L < n - L
          /\ res[n] = srt[n - L] /\ res[m] = srt[m - L] /\ srt[n - L] \in Subif
      BY <1>2, <1>9, <2>3
    <3>2. n - L \in 1..N /\ m - L \in 1..N
      BY <1>1, <1>3, <3>1
    <3>3. srt[m - L][2] < srt[n - L][2] /\ srt[n - L][2] \in Nat
      BY <1>1, <3>1, <3>2, BatchingAssumption DEF Subif
    <3> QED
      BY <3>1, <3>3
  <2> QED
    BY <2>1, <2>2, <2>3
<1>15. ASSUME NEW n \in 1..Len(res), NEW q \in P, Precedes(q, res[n], d, r)
       PROVE  q \in UpTo(res, n - 1)
  <2>1. CASE n \in 1..L
    <3>1. q \in UpTo(acc, n - 1)
      BY <1>7, <1>15, <2>1 DEF Ordered, L
    <3> QED
      BY <1>2, <1>7, <2>1, <3>1 DEF UpTo
  <2>2. CASE n \notin 1..L
    <3>1. n - L \in 1..T /\ res[n] = srt[n - L] /\ srt[n - L] \in S
      BY <1>9, <2>2
    <3>2. q \in ToSet(acc) \/ (q \in S /\ q[2] < srt[n - L][2])
      BY <1>15, <3>1
    <3>3. CASE q \in ToSet(acc)
      <4>1. q \in UpTo(res, L) /\ L <= n - 1 /\ L \in Int /\ n - 1 \in Int
        BY <1>2, <1>3, <1>6, <1>11, <3>1, <3>3
      <4> QED
        BY <1>12, <4>1
    <3>4. CASE q \in S /\ q[2] < srt[n - L][2]
      <4>1. PICK m \in 1..N : srt[m] = q
        BY <1>1, <3>4
      <4>a. n - L \in 1..N /\ srt[m] \in Subif /\ srt[n - L] \in Subif
        BY <1>1, <1>3, <3>1, <3>4, <4>1
      <4>2. n - L \in 1..N /\ srt[m][2] \in Nat /\ srt[n - L][2] \in Nat
        BY <4>a, BatchingAssumption DEF Subif
      <4>3. ~(n - L < m) /\ n - L # m
        <5>1. n - L < m => srt[n - L][2] < srt[m][2]
          BY <1>1, <4>2
        <5> QED
          BY <3>4, <4>1, <4>2, <5>1
      <4>4. m \in 1..T /\ L + m <= n - 1 /\ L + m \in Int /\ n - 1 \in Int
        BY <1>1, <1>2, <1>3, <1>6, <3>1, <4>3
      <4> QED
        BY <1>12, <1>13, <4>1, <4>4
    <3> QED
      BY <3>2, <3>3, <3>4
  <2> QED
    BY <2>1, <2>2
<1>16. ASSUME NEW m \in 1..Len(res), NEW n \in 1..Len(res), m < n, res[m][1] # res[n][1],
              NEW q \in P, q[1] = res[m][1]
       PROVE  q \in UpTo(res, n - 1)
  <2>1. CASE n \in 1..L
    <3>1. m \in 1..L /\ res[m] = acc[m] /\ res[n] = acc[n]
      BY <1>2, <1>6, <1>7, <1>16, <2>1
    <3>2. q \in UpTo(acc, n - 1)
      BY <1>16, <2>1, <3>1 DEF Ordered, L
    <3> QED
      BY <1>2, <1>7, <2>1, <3>2 DEF UpTo
  <2>2. CASE n \notin 1..L
    <3>1. n - L \in 1..T /\ res[n][1] = i
      BY <1>9, <2>2
    <3>2. m \in 1..L
      BY <1>9, <1>16, <3>1
    <3>3. res[m] \in ToSet(acc) /\ res[m][1] # i
      BY <1>7, <1>10, <1>16, <3>1, <3>2 DEF UpTo
    <3>4. q \in ToSet(acc)
      BY <1>16, <3>3
    <3>5. q \in UpTo(res, L) /\ L <= n - 1 /\ L \in Int /\ n - 1 \in Int
      BY <1>2, <1>3, <1>6, <1>11, <3>1, <3>4
    <3> QED
      BY <1>12, <3>5
  <2> QED
    BY <2>1, <2>2
<1>17. Ordered(res, P, d, r)
  BY <1>6, <1>14, <1>15, <1>16 DEF Ordered
<1>18. ToSet(acc) \subseteq ToSet(res)
  BY <1>2, <1>3, <1>10, <1>11, <1>12
<1>19. ToSet(res) \subseteq ToSet(acc) \cup S
  <2> SUFFICES ASSUME NEW n \in 1..Len(res) PROVE res[n] \in ToSet(acc) \cup S
    BY <1>6, <1>10 DEF UpTo
  <2> QED
    BY <1>7, <1>9, <1>10 DEF UpTo
<1>20. T = N => S \subseteq ToSet(res)
  <2> SUFFICES ASSUME T = N, NEW p \in S PROVE p \in ToSet(res)
    OBVIOUS
  <2>1. PICK n \in 1..T : srt[n] = p
    BY <1>1
  <2>2. p \in UpTo(res, L + n) /\ L + n <= L + T
    BY <1>2, <1>3, <1>13, <2>1
  <2> QED
    BY <1>2, <1>3, <1>10, <1>12, <2>2
<1> QED
  BY <1>3, <1>6, <1>17, <1>18, <1>19, <1>20 DEF res, Extended

\* What the collection has to collect.
Changes == Pending(prev.subif, desired)

\* Where the collection is: the interfaces it has left are complete unless the
\* limit is reached, those ahead are untouched.
CollectInv ==
  /\ prev.subif \in SUBSET Subif /\ desired \in SUBSET Subif /\ reported \in SUBSET Iface
  /\ \A p \in desired : p[1] \in reported
  /\ phase \in {"rt-asn", "exclude-vlans", "paths"} => pending = <<>> /\ created = <<>>
  /\ phase \in {"paths", "reported", "gone"} => k = 1
  /\ phase \in {"reported", "gone"} => created = <<>> /\ result = prev.subif
  /\ phase \in {"reported", "gone", "apply", "done"} =>
       Ordered(pending, Changes, desired, reported) /\ Len(pending) <= Limit
  /\ phase = "reported" =>
       /\ todo \subseteq reported
       /\ \A p \in ToSet(pending) : p[1] \in reported \ todo
       /\ Len(pending) < Limit =>
            \A q \in Changes : q[1] \in reported \ todo => q \in ToSet(pending)
  /\ phase = "gone" =>
       /\ todo \subseteq Ifaces(prev.subif) \ reported
       /\ \A p \in ToSet(pending) : p[1] \notin todo
       /\ Len(pending) < Limit => \A q \in Changes : q[1] \notin todo => q \in ToSet(pending)
  /\ phase \in {"apply", "done"} => (Len(pending) < Limit => Changes \subseteq ToSet(pending))

\* The first loop's body takes the changes of its interface, all of them below
\* the limit, adds before removes.
LEMMA ReportedStep ==
  ASSUME CollectInv, phase = "reported", Len(pending) < Limit, NEW i \in todo
  PROVE  Extended(WalkReported(pending, i), pending, Of(Changes, i), Changes, desired, reported)
<1> DEFINE A == Of(desired \ prev.subif, i)
           R == Of(prev.subif \ desired, i)
           added == AppendUntil(pending, A)
           new == WalkReported(pending, i)
<1>1. /\ prev.subif \in SUBSET Subif /\ desired \in SUBSET Subif
      /\ Ordered(pending, Changes, desired, reported)
      /\ i \in Iface /\ i \in reported
      /\ \A p \in ToSet(pending) : p[1] \in reported \ todo
      /\ \A q \in Changes : q[1] \in reported \ todo => q \in ToSet(pending)
  BY DEF CollectInv
<1>2. Changes \in SUBSET Subif
  BY <1>1 DEF Changes, Pending
<1>3. /\ A \in SUBSET Changes /\ R \in SUBSET Changes /\ Of(Changes, i) = A \cup R
      /\ \A p \in A : p[1] = i /\ p \in desired
      /\ \A p \in R : p[1] = i /\ p \notin desired
      /\ \A p \in Changes : p[1] = i => IF p \in desired THEN p \in A ELSE p \in R
  BY DEF Changes, Pending, Of
<1>4. new = IF Len(added) < Limit THEN AppendUntil(added, R) ELSE added
  BY DEF WalkReported
<1>5. \A x \in ToSet(pending) : x[1] # i /\ \A q \in Changes : q[1] = x[1] => q \in ToSet(pending)
  BY <1>1
<1>a. A \in SUBSET Changes /\ R \in SUBSET Changes /\ i \in Iface
  BY <1>1, <1>3
<1>b. Ordered(pending, Changes, desired, reported)
  BY <1>1
<1> HIDE DEF A, R, new
<1>6. Extended(added, pending, A, Changes, desired, reported)
  <2>1. \A p \in A : p[1] = i /\ p \notin ToSet(pending)
    BY <1>3, <1>5
  <2>2. \A p \in A : \A q \in Changes : Precedes(q, p, desired, reported) =>
           q \in ToSet(pending) \/ (q \in A /\ q[2] < p[2])
    BY <1>1, <1>3 DEF Precedes
  <2>3. \A x \in ToSet(pending) : x[1] # i =>
           \A q \in Changes : q[1] = x[1] => q \in ToSet(pending)
    BY <1>5
  <2> QED
    BY <1>2, <1>a, <1>b, <2>1, <2>2, <2>3, AppendKeepsOrder
<1>c. added \in Seq(Changes) /\ Len(added) \in Nat /\ Limit \in Nat
  BY <1>6, ToSetFacts, BatchingAssumption DEF Extended, Ordered, Limit
<1> HIDE DEF added
<1>7. CASE Len(added) < Limit
  <2>1. ToSet(added) = ToSet(pending) \cup A
    BY <1>6, <1>7 DEF Extended
  <2>a. Ordered(added, Changes, desired, reported)
    BY <1>6 DEF Extended
  <2>2. \A p \in R : p[1] = i /\ p \notin ToSet(added)
    BY <1>3, <1>5, <2>1
  <2>3. \A p \in R : \A q \in Changes : Precedes(q, p, desired, reported) =>
           q \in ToSet(added) \/ (q \in R /\ q[2] < p[2])
    BY <1>1, <1>3, <2>1 DEF Precedes
  <2>4. \A x \in ToSet(added) : x[1] # i =>
           \A q \in Changes : q[1] = x[1] => q \in ToSet(added)
    BY <1>3, <1>5, <2>1
  <2>5. Extended(AppendUntil(added, R), added, R, Changes, desired, reported)
    BY <1>2, <1>a, <1>7, <2>a, <2>2, <2>3, <2>4, AppendKeepsOrder
  <2>6. new = AppendUntil(added, R)
    BY <1>4, <1>7
  <2>7. ToSet(added) \cup R = ToSet(pending) \cup Of(Changes, i)
    BY <1>3, <2>1
  <2>8. Extended(new, pending, Of(Changes, i), Changes, desired, reported)
    BY <2>5, <2>6, <2>7 DEF Extended
  <2> QED
    BY <2>8 DEF new
<1>8. CASE ~(Len(added) < Limit)
  <2>1. new = added
    BY <1>4, <1>8
  <2>2. Extended(new, pending, Of(Changes, i), Changes, desired, reported)
    BY <1>3, <1>6, <1>8, <2>1 DEF Extended
  <2> QED
    BY <2>2 DEF new
<1> QED
  BY <1>7, <1>8

\* The second loop's body takes the removes of an interface that is gone.
LEMMA GoneStep ==
  ASSUME CollectInv, phase = "gone", Len(pending) < Limit, NEW i \in todo
  PROVE  Extended(WalkGone(pending, i), pending, Of(Changes, i), Changes, desired, reported)
<1> DEFINE R == Of(prev.subif, i)
<1>1. /\ prev.subif \in SUBSET Subif /\ desired \in SUBSET Subif
      /\ Ordered(pending, Changes, desired, reported)
      /\ i \in Ifaces(prev.subif) /\ i \notin reported /\ todo \cap reported = {}
      /\ \A p \in desired : p[1] \in reported
      /\ \A p \in ToSet(pending) : p[1] \notin todo
      /\ \A q \in Changes : q[1] \notin todo => q \in ToSet(pending)
  BY DEF CollectInv
<1>2. Changes \in SUBSET Subif /\ i \in Iface
  BY <1>1 DEF Changes, Pending, Ifaces, Subif
<1>3. /\ R \in SUBSET Changes /\ Of(Changes, i) = R
      /\ \A p \in R : p[1] = i /\ p \notin desired
      /\ \A p \in Changes : p[1] = i => p \in R
  BY <1>1 DEF Changes, Pending, Of
<1>4. WalkGone(pending, i) = AppendUntil(pending, R)
  BY DEF WalkGone
<1> HIDE DEF R
<1>5. \A p \in R : p[1] = i /\ p \notin ToSet(pending)
  BY <1>1, <1>3
<1>6. \A p \in R : \A q \in Changes : Precedes(q, p, desired, reported) =>
         q \in ToSet(pending) \/ (q \in R /\ q[2] < p[2])
  BY <1>1, <1>3 DEF Precedes
<1>7. \A x \in ToSet(pending) : x[1] # i =>
         \A q \in Changes : q[1] = x[1] => q \in ToSet(pending)
  BY <1>1
<1>8. Extended(AppendUntil(pending, R), pending, R, Changes, desired, reported)
  BY <1>1, <1>2, <1>3, <1>5, <1>6, <1>7, AppendKeepsOrder
<1> QED
  BY <1>3, <1>4, <1>8

\* Nothing collected yet is in order.
LEMMA EmptyIsOrdered ==
  ASSUME NEW P, NEW d, NEW r
  PROVE  Ordered(<<>>, P, d, r)
  BY DEF Ordered

\* The paths are read; nothing has been collected.
LEMMA ReadPathsKeepsCollectInv ==
  ASSUME CollectInv, ReadPaths
  PROVE  CollectInv'
<1>1. /\ phase = "paths" /\ phase' = "reported" /\ reported' \in SUBSET Iface /\ todo' = reported'
      /\ result' = prev'.subif /\ pending' = pending /\ k' = k /\ created' = created
  BY DEF ReadPaths
<1>2. PICK active \in SUBSET {p \in Subif : p[1] \in reported'} :
         desired' = Desired(active, excluded)
  BY DEF ReadPaths
<1>3. PICK S \in SUBSET Subif : prev' = [subif |-> S, ni |-> Vlans(S)]
  BY DEF ReadPaths
<1>4. desired' \in SUBSET Subif /\ \A p \in desired' : p[1] \in reported'
  BY <1>2 DEF Desired
<1>5. prev'.subif \in SUBSET Subif
  BY <1>3
<1>6. pending = <<>> /\ k = 1 /\ created = <<>>
  BY <1>1 DEF CollectInv
<1>7. Ordered(pending', Changes', desired', reported') /\ Len(pending') = 0 /\ ToSet(pending') = {}
  BY <1>1, <1>6, EmptyIsOrdered DEF ToSet
<1>8. Len(pending') <= Limit
  BY <1>7, BatchingAssumption DEF Limit
<1> QED
  BY <1>1, <1>4, <1>5, <1>6, <1>7, <1>8 DEF CollectInv

\* One interface of the first loop.
LEMMA CollectReportedKeepsCollectInv ==
  ASSUME CollectInv, CollectReported
  PROVE  CollectInv'
<1>1. PICK i \in todo : pending' = WalkReported(pending, i) /\ todo' = todo \ {i}
  BY DEF CollectReported
<1>2. /\ phase = "reported" /\ Len(pending) < Limit /\ phase' = phase /\ k' = k
      /\ prev' = prev /\ desired' = desired /\ reported' = reported
      /\ result' = result /\ created' = created
  BY DEF CollectReported, options, input
<1>3. Changes' = Changes
  BY <1>2 DEF Changes
<1>4. /\ todo \subseteq reported
      /\ \A p \in ToSet(pending) : p[1] \in reported \ todo
      /\ \A q \in Changes : q[1] \in reported \ todo => q \in ToSet(pending)
  BY <1>2 DEF CollectInv
<1>5. Extended(pending', pending, Of(Changes, i), Changes, desired, reported)
  BY <1>1, <1>2, ReportedStep
<1>6. Ordered(pending', Changes', desired', reported') /\ Len(pending') <= Limit
  BY <1>2, <1>3, <1>5 DEF Extended
<1>7. \A p \in ToSet(pending') : p[1] \in reported' \ todo'
  BY <1>1, <1>2, <1>4, <1>5 DEF Extended, Of
<1>8. Len(pending') < Limit =>
        \A q \in Changes' : q[1] \in reported' \ todo' => q \in ToSet(pending')
  <2> SUFFICES ASSUME Len(pending') < Limit, NEW q \in Changes, q[1] \in reported \ todo'
               PROVE  q \in ToSet(pending')
    BY <1>2, <1>3
  <2>1. ToSet(pending) \cup Of(Changes, i) \subseteq ToSet(pending')
    BY <1>5 DEF Extended
  <2>2. q[1] \in reported \ todo \/ q[1] = i
    BY <1>1
  <2> QED
    BY <1>4, <2>1, <2>2 DEF Of
<1>9. todo' \subseteq reported'
  BY <1>1, <1>2, <1>4
<1> QED
  BY <1>2, <1>6, <1>7, <1>8, <1>9 DEF CollectInv

\* The end of the first loop.
LEMMA LeaveReportedKeepsCollectInv ==
  ASSUME CollectInv, LeaveReported
  PROVE  CollectInv'
<1>1. /\ phase = "reported" /\ (todo = {} \/ Len(pending) >= Limit)
      /\ phase' = (IF Len(pending) < Limit THEN "gone" ELSE "apply")
      /\ todo' = Ifaces(prev.subif) \ reported
      /\ prev' = prev /\ desired' = desired /\ reported' = reported /\ pending' = pending
      /\ result' = result /\ created' = created /\ k' = k
  BY DEF LeaveReported, options, input
<1>2. Changes' = Changes
  BY <1>1 DEF Changes
<1>3. /\ \A p \in ToSet(pending) : p[1] \in reported
      /\ Ordered(pending, Changes, desired, reported)
      /\ Len(pending) < Limit =>
           \A q \in Changes : q[1] \in reported \ todo => q \in ToSet(pending)
      /\ \A p \in desired : p[1] \in reported
  BY <1>1 DEF CollectInv
<1>4. pending \in Seq(Changes) /\ Len(pending) \in Nat /\ Limit \in Nat
  BY <1>3, BatchingAssumption DEF Ordered, Limit
<1>5. Len(pending) < Limit => todo = {}
  BY <1>1, <1>4
<1>6. Len(pending) < Limit => \A q \in Changes : q[1] \notin todo' => q \in ToSet(pending)
  <2> SUFFICES ASSUME Len(pending) < Limit, NEW q \in Changes, q[1] \notin todo'
               PROVE  q \in ToSet(pending)
    OBVIOUS
  <2>1. q \in desired \/ q \in prev.subif
    BY DEF Changes, Pending
  <2>2. q[1] \in reported
    BY <1>1, <1>3, <2>1 DEF Ifaces
  <2> QED
    BY <1>3, <1>5, <2>2
<1>7. \A p \in ToSet(pending') : p[1] \notin todo'
  BY <1>1, <1>3
<1> QED
  BY <1>1, <1>2, <1>6, <1>7 DEF CollectInv

\* One interface of the second loop.
LEMMA CollectGoneKeepsCollectInv ==
  ASSUME CollectInv, CollectGone
  PROVE  CollectInv'
<1>1. PICK i \in todo : pending' = WalkGone(pending, i) /\ todo' = todo \ {i}
  BY DEF CollectGone
<1>2. /\ phase = "gone" /\ Len(pending) < Limit /\ phase' = phase /\ k' = k
      /\ prev' = prev /\ desired' = desired /\ reported' = reported
      /\ result' = result /\ created' = created
  BY DEF CollectGone, options, input
<1>3. Changes' = Changes
  BY <1>2 DEF Changes
<1>4. /\ todo \subseteq Ifaces(prev.subif) \ reported
      /\ \A p \in ToSet(pending) : p[1] \notin todo
      /\ \A q \in Changes : q[1] \notin todo => q \in ToSet(pending)
  BY <1>2 DEF CollectInv
<1>5. Extended(pending', pending, Of(Changes, i), Changes, desired, reported)
  BY <1>1, <1>2, GoneStep
<1>6. Ordered(pending', Changes', desired', reported') /\ Len(pending') <= Limit
  BY <1>2, <1>3, <1>5 DEF Extended
<1>7. \A p \in ToSet(pending') : p[1] \notin todo'
  BY <1>1, <1>4, <1>5 DEF Extended, Of
<1>8. Len(pending') < Limit => \A q \in Changes' : q[1] \notin todo' => q \in ToSet(pending')
  <2> SUFFICES ASSUME Len(pending') < Limit, NEW q \in Changes, q[1] \notin todo'
               PROVE  q \in ToSet(pending')
    BY <1>3
  <2>1. ToSet(pending) \cup Of(Changes, i) \subseteq ToSet(pending')
    BY <1>5 DEF Extended
  <2>2. q[1] \notin todo \/ q[1] = i
    BY <1>1
  <2> QED
    BY <1>4, <2>1, <2>2 DEF Of
<1>9. todo' \subseteq Ifaces(prev'.subif) \ reported'
  BY <1>1, <1>2, <1>4
<1> QED
  BY <1>2, <1>6, <1>7, <1>8, <1>9 DEF CollectInv

\* The end of the second loop.
LEMMA LeaveGoneKeepsCollectInv ==
  ASSUME CollectInv, LeaveGone
  PROVE  CollectInv'
<1>1. /\ phase = "gone" /\ (todo = {} \/ Len(pending) >= Limit) /\ phase' = "apply"
      /\ prev' = prev /\ desired' = desired /\ reported' = reported /\ pending' = pending
      /\ result' = result /\ created' = created /\ k' = k
  BY DEF LeaveGone, options, input
<1>2. Changes' = Changes
  BY <1>1 DEF Changes
<1>3. /\ Ordered(pending, Changes, desired, reported)
      /\ Len(pending) < Limit => \A q \in Changes : q[1] \notin todo => q \in ToSet(pending)
  BY <1>1 DEF CollectInv
<1>4. pending \in Seq(Changes) /\ Len(pending) \in Nat /\ Limit \in Nat
  BY <1>3, BatchingAssumption DEF Ordered, Limit
<1>5. Len(pending) < Limit => Changes \subseteq ToSet(pending)
  BY <1>1, <1>3, <1>4
<1> QED
  BY <1>1, <1>2, <1>5 DEF CollectInv

\* The steps before and after the collection leave it alone.
LEMMA OthersKeepCollectInv ==
  ASSUME CollectInv,
         \/ ParseRtAsn \/ ParseToken \/ LeaveOptions
         \/ ApplyAdd \/ ApplyRemove \/ Finish \/ UNCHANGED vars
  PROVE  CollectInv'
<1>1. /\ prev' = prev /\ desired' = desired /\ reported' = reported /\ pending' = pending
      /\ Changes' = Changes
  BY DEF ParseRtAsn, ParseToken, LeaveOptions, ApplyAdd, ApplyRemove, Finish, vars, input, Changes
<1>2. CASE ParseRtAsn \/ ParseToken \/ LeaveOptions
  <2>1. /\ phase \in {"rt-asn", "exclude-vlans"} /\ created' = created
        /\ phase' \in {"rt-asn", "exclude-vlans", "paths"}
        /\ phase' = "paths" => k' = 1
    BY <1>2 DEF ParseRtAsn, ParseToken, LeaveOptions
  <2> QED
    BY <1>1, <2>1 DEF CollectInv
<1>3. CASE ApplyAdd \/ ApplyRemove \/ Finish
  <2>1. phase = "apply" /\ phase' \in {"apply", "done"}
    BY <1>3 DEF ApplyAdd, ApplyRemove, Finish
  <2> QED
    BY <1>1, <2>1 DEF CollectInv
<1>4. CASE UNCHANGED vars
  <2>1. phase' = phase /\ todo' = todo /\ k' = k /\ result' = result /\ created' = created
    BY <1>4 DEF vars
  <2> QED
    BY <1>1, <2>1 DEF CollectInv
<1> QED
  BY <1>2, <1>3, <1>4

\* The invariant of the collection holds of every behaviour.
LEMMA Collects == Spec => []CollectInv
<1>1. Init => CollectInv
  BY DEF Init, CollectInv, NoPersist
<1>2. CollectInv /\ [Next]_vars => CollectInv'
  BY ReadPathsKeepsCollectInv, CollectReportedKeepsCollectInv, LeaveReportedKeepsCollectInv,
     CollectGoneKeepsCollectInv, LeaveGoneKeepsCollectInv, OthersKeepCollectInv DEF Next
<1> QED
  BY <1>1, <1>2, PTL DEF Spec
-----------------------------------------------------------------------------
(* The application.                                                        *)

\* What the part of the batch applied so far has led to.
ApplyInv ==
  /\ phase \in {"apply", "done"} =>
       /\ k \in 1..(Len(batch) + 1)
       /\ result = Result(prev.subif, desired, UpTo(batch, k - 1))
       /\ created \in Seq(Vlan)
       /\ ToSet(created) = Created(prev, desired, UpTo(batch, k - 1))
       /\ \A m, n \in 1..Len(created) : m # n => created[m] # created[n]
  /\ phase = "done" =>
       k = Len(batch) + 1 /\ newNi = Vlans(result) /\ deleted = prev.ni \ newNi

\* The batch is the front of the list.
LEMMA BatchType ==
  ASSUME CollectInv, phase \in {"reported", "gone", "apply", "done"}
  PROVE  /\ Changes \in SUBSET Subif
         /\ pending \in Seq(Changes) /\ Len(pending) \in Nat
         /\ batch \in Seq(Changes) /\ Len(batch) \in Nat
         /\ Len(batch) = (IF Len(pending) < BatchSize THEN Len(pending) ELSE BatchSize)
         /\ \A n \in 1..Len(batch) : batch[n] = pending[n]
<1>1. Changes \in SUBSET Subif
  BY DEF CollectInv, Changes, Pending
<1>2. pending \in Seq(Changes)
  BY DEF CollectInv, Ordered
<1>3. BatchSize \in Nat
  BY BatchingAssumption
<1>4. /\ batch \in Seq(Changes)
      /\ Len(batch) = (IF Len(pending) < BatchSize THEN Len(pending) ELSE BatchSize)
      /\ \A n \in 1..Len(batch) : batch[n] = pending[n]
  BY <1>2, <1>3, TakeFacts DEF batch
<1> QED
  BY <1>1, <1>2, <1>4

\* One more change of the batch.
LEMMA OneMore ==
  ASSUME NEW T, NEW s \in Seq(T), NEW n \in 1..Len(s)
  PROVE  UpTo(s, n) = UpTo(s, n - 1) \cup {s[n]}
<1>1. \A m : m \in 1..n <=> m \in 1..(n - 1) \/ m = n
  OBVIOUS
<1> QED
  BY <1>1 DEF UpTo

\* An add adds, a remove removes.
LEMMA ResultStep ==
  ASSUME NEW p, NEW d, NEW B, NEW b
  PROVE  /\ b \in d => Result(p, d, B \cup {b}) = Result(p, d, B) \cup {b}
         /\ b \notin d => Result(p, d, B \cup {b}) = Result(p, d, B) \ {b}
  BY DEF Result

\* An add creates the network-instance of its VLAN, unless that was there.
LEMMA CreatedStep ==
  ASSUME NEW p, NEW d, NEW B, NEW b
  PROVE  /\ b \in d => Created(p, d, B \cup {b}) = Created(p, d, B) \cup ({b[2]} \ p.ni)
         /\ b \notin d => Created(p, d, B \cup {b}) = Created(p, d, B)
  BY DEF Created, Vlans

\* A sequence with one more element.
LEMMA AppendFacts ==
  ASSUME NEW T, NEW s \in Seq(T), NEW x \in T,
         \A m, n \in 1..Len(s) : m # n => s[m] # s[n]
  PROVE  /\ Append(s, x) \in Seq(T)
         /\ ToSet(Append(s, x)) = ToSet(s) \cup {x}
         /\ x \notin ToSet(s) =>
              \A m, n \in 1..Len(Append(s, x)) : m # n => Append(s, x)[m] # Append(s, x)[n]
<1>1. /\ Append(s, x) \in Seq(T) /\ Len(Append(s, x)) = Len(s) + 1 /\ Len(s) \in Nat
      /\ \A n \in 1..Len(s) : Append(s, x)[n] = s[n]
      /\ Append(s, x)[Len(s) + 1] = x
  OBVIOUS
<1>2. \A n \in 1..(Len(s) + 1) : n \in 1..Len(s) \/ n = Len(s) + 1
  BY <1>1
<1>3. /\ ToSet(s) = UpTo(s, Len(s))
      /\ ToSet(Append(s, x)) = UpTo(Append(s, x), Len(s) + 1)
  BY <1>1, ToSetFacts
<1>4. ToSet(Append(s, x)) = ToSet(s) \cup {x}
  <2> DEFINE u == Append(s, x)
             l == Len(s)
  <2>1. Len(u) = l + 1 /\ l \in Nat /\ \A n \in 1..l : u[n] = s[n]
    BY <1>1
  <2>2. u[l + 1] = x
    BY <1>1
  <2>3. UpTo(s, l) = UpTo(u, l)
    BY <2>1 DEF UpTo
  <2>4. u \in Seq(T) /\ l + 1 \in 1..Len(u) /\ (l + 1) - 1 = l
    BY <1>1
  <2> HIDE DEF u, l
  <2>5. UpTo(u, l + 1) = UpTo(u, l) \cup {x}
    BY <2>2, <2>4, OneMore
  <2> QED
    BY <1>3, <2>3, <2>5 DEF u, l
<1>5. ASSUME x \notin ToSet(s), NEW m \in 1..(Len(s) + 1), NEW n \in 1..(Len(s) + 1), m # n
      PROVE  Append(s, x)[m] # Append(s, x)[n]
  <2>1. \A i \in 1..Len(s) : s[i] # x
    BY <1>3, <1>5 DEF UpTo
  <2>2. CASE m \in 1..Len(s) /\ n \in 1..Len(s)
    BY <1>1, <1>5, <2>2
  <2>3. CASE m = Len(s) + 1
    <3>1. n \in 1..Len(s)
      BY <1>2, <1>5, <2>3
    <3> QED
      BY <1>1, <2>1, <2>3, <3>1
  <2>4. CASE n = Len(s) + 1
    <3>1. m \in 1..Len(s)
      BY <1>2, <1>5, <2>4
    <3> QED
      BY <1>1, <2>1, <2>4, <3>1
  <2> QED
    BY <1>2, <2>2, <2>3, <2>4
<1> QED
  BY <1>1, <1>4, <1>5

\* The application begins with nothing applied.
LEMMA EnterKeepsApplyInv ==
  ASSUME CollectInv, ApplyInv, LeaveReported \/ LeaveGone
  PROVE  ApplyInv'
<1>1. /\ phase \in {"reported", "gone"} /\ phase' \in {"gone", "apply"}
      /\ prev' = prev /\ desired' = desired /\ pending' = pending
      /\ result' = result /\ created' = created /\ k' = k
  BY DEF LeaveReported, LeaveGone, options, input
<1>2. k = 1 /\ created = <<>> /\ result = prev.subif
  BY <1>1 DEF CollectInv
<1>3. batch' = batch /\ Len(batch) \in Nat
  BY <1>1, BatchType DEF batch
<1>4. UpTo(batch, k - 1) = {}
  BY <1>2 DEF UpTo
<1>5. Result(prev.subif, desired, {}) = prev.subif /\ Created(prev, desired, {}) = {}
  BY DEF Result, Created, Vlans
<1>6. ToSet(created) = {} /\ created \in Seq(Vlan) /\ Len(created) = 0
  BY <1>2 DEF ToSet
<1>7. k \in 1..(Len(batch) + 1)
  BY <1>2, <1>3
<1>8. result' = Result(prev'.subif, desired', UpTo(batch', k' - 1))
  BY <1>1, <1>2, <1>3, <1>4, <1>5
<1>9. ToSet(created') = Created(prev', desired', UpTo(batch', k' - 1))
  BY <1>1, <1>3, <1>4, <1>5, <1>6
<1>10. /\ created' \in Seq(Vlan) /\ k' \in 1..(Len(batch') + 1)
       /\ \A m, n \in 1..Len(created') : m # n => created'[m] # created'[n]
  BY <1>1, <1>3, <1>6, <1>7
<1> QED
  BY <1>1, <1>8, <1>9, <1>10 DEF ApplyInv

\* One change of the batch is applied.
LEMMA ApplyKeepsApplyInv ==
  ASSUME CollectInv, ApplyInv, ApplyAdd \/ ApplyRemove
  PROVE  ApplyInv'
<1> DEFINE B == UpTo(batch, k - 1)
           b == batch[k]
<1>1. /\ phase = "apply" /\ phase' = phase /\ k <= Len(batch) /\ k' = k + 1
      /\ prev' = prev /\ desired' = desired /\ pending' = pending
  BY DEF ApplyAdd, ApplyRemove, options, input
<1>2. /\ k \in 1..(Len(batch) + 1) /\ result = Result(prev.subif, desired, B)
      /\ created \in Seq(Vlan) /\ ToSet(created) = Created(prev, desired, B)
      /\ \A m, n \in 1..Len(created) : m # n => created[m] # created[n]
  BY <1>1 DEF ApplyInv
<1>3. batch' = batch /\ batch \in Seq(Changes) /\ Len(batch) \in Nat /\ Changes \in SUBSET Subif
  BY <1>1, BatchType DEF batch
<1>4. k \in 1..Len(batch) /\ k' \in 1..(Len(batch) + 1) /\ k' - 1 = k
  BY <1>1, <1>2, <1>3
<1>a. b \in Changes
  BY <1>3, <1>4
<1>b. UpTo(batch, k) = B \cup {b}
  BY <1>3, <1>4, OneMore
<1>5. UpTo(batch, k' - 1) = B \cup {b} /\ b \in Subif
  BY <1>3, <1>4, <1>a, <1>b
<1>6. b[2] \in Vlan
  BY <1>5 DEF Subif
<1>7. CASE ApplyAdd
  <2>1. b \in desired /\ result' = result \cup {b}
        /\ created' = IF NeedsNi(b[2]) THEN Append(created, b[2]) ELSE created
    BY <1>7 DEF ApplyAdd
  <2>2. NeedsNi(b[2]) <=> b[2] \notin prev.ni /\ b[2] \notin ToSet(created)
    BY DEF NeedsNi
  <2> HIDE DEF B, b
  <2>3. result' = Result(prev.subif, desired, B \cup {b})
    BY <1>2, <2>1, ResultStep
  <2>4. Created(prev, desired, B \cup {b}) = ToSet(created) \cup ({b[2]} \ prev.ni)
    BY <1>2, <2>1, CreatedStep
  <2>5. /\ created' \in Seq(Vlan)
        /\ ToSet(created') = Created(prev, desired, B \cup {b})
        /\ \A m, n \in 1..Len(created') : m # n => created'[m] # created'[n]
    <3>1. CASE NeedsNi(b[2])
      <4>1. created' = Append(created, b[2])
        BY <2>1, <3>1
      <4>2. b[2] \notin ToSet(created) /\ b[2] \notin prev.ni
        BY <2>2, <3>1
      <4>3. /\ Append(created, b[2]) \in Seq(Vlan)
            /\ ToSet(Append(created, b[2])) = ToSet(created) \cup {b[2]}
            /\ \A m, n \in 1..Len(Append(created, b[2])) :
                  m # n => Append(created, b[2])[m] # Append(created, b[2])[n]
        BY <1>2, <1>6, <4>2, AppendFacts
      <4> QED
        BY <2>4, <4>1, <4>2, <4>3
    <3>2. CASE ~NeedsNi(b[2])
      <4>1. created' = created
        BY <2>1, <3>2
      <4>2. Created(prev, desired, B \cup {b}) = ToSet(created)
        BY <2>2, <2>4, <3>2
      <4> QED
        BY <1>2, <4>1, <4>2
    <3> QED
      BY <3>1, <3>2
  <2> QED
    BY <1>1, <1>3, <1>4, <1>5, <2>3, <2>5 DEF ApplyInv
<1>8. CASE ApplyRemove
  <2>1. b \notin desired /\ result' = result \ {b} /\ created' = created
    BY <1>8 DEF ApplyRemove
  <2> HIDE DEF B, b
  <2>2. result' = Result(prev.subif, desired, B \cup {b})
    BY <1>2, <2>1, ResultStep
  <2>3. ToSet(created') = Created(prev, desired, B \cup {b})
    BY <1>2, <2>1, CreatedStep
  <2> QED
    BY <1>1, <1>2, <1>3, <1>4, <1>5, <2>1, <2>2, <2>3 DEF ApplyInv
<1> QED
  BY <1>7, <1>8

\* The end of the batch, and the steps before it.
LEMMA OthersKeepApplyInv ==
  ASSUME ApplyInv,
         \/ ParseRtAsn \/ ParseToken \/ LeaveOptions \/ ReadPaths
         \/ CollectReported \/ CollectGone \/ Finish \/ UNCHANGED vars
  PROVE  ApplyInv'
<1>1. CASE ParseRtAsn \/ ParseToken \/ LeaveOptions \/ ReadPaths \/ CollectReported \/ CollectGone
  <2>1. phase' \notin {"apply", "done"}
    BY <1>1 DEF ParseRtAsn, ParseToken, LeaveOptions, ReadPaths, CollectReported, CollectGone
  <2> QED
    BY <2>1 DEF ApplyInv
<1>2. CASE Finish
  <2>1. /\ phase = "apply" /\ k > Len(batch) /\ newNi' = Vlans(result)
        /\ deleted' = {v \in prev.ni : v \notin newNi'} /\ phase' = "done"
        /\ prev' = prev /\ desired' = desired /\ pending' = pending
        /\ k' = k /\ result' = result /\ created' = created
    BY <1>2 DEF Finish, input
  <2>2. batch' = batch
    BY <2>1 DEF batch
  <2>3. k \in 1..(Len(batch) + 1)
    BY <2>1 DEF ApplyInv
  <2>4. k = Len(batch) + 1
    BY <2>1, <2>3
  <2>5. deleted' = prev.ni \ newNi'
    BY <2>1
  <2> QED
    BY <2>1, <2>2, <2>3, <2>4, <2>5 DEF ApplyInv
<1>3. CASE UNCHANGED vars
  <2>1. /\ phase' = phase /\ prev' = prev /\ desired' = desired /\ pending' = pending
        /\ k' = k /\ result' = result /\ created' = created /\ newNi' = newNi /\ deleted' = deleted
    BY <1>3 DEF vars, input
  <2>2. batch' = batch
    BY <2>1 DEF batch
  <2> QED
    BY <2>1, <2>2 DEF ApplyInv
<1> QED
  BY <1>1, <1>2, <1>3

\* What has been collected when the loops end is a batch: all changes when they
\* fit, else BatchSize of them in an order some dictionaries have.
LEMMA FrontIsBatch ==
  ASSUME NEW p \in SUBSET Subif, NEW d \in SUBSET Subif, NEW r,
         NEW s, Ordered(s, Pending(p, d), d, r), Len(s) <= Limit,
         Len(s) < Limit => Pending(p, d) \subseteq ToSet(s),
         NEW m, m = (IF Len(s) < BatchSize THEN Len(s) ELSE BatchSize)
  PROVE  /\ UpTo(s, m) \in Batches(p, d, r)
         /\ NeedsReinvoke(p, d) <=> Len(s) > BatchSize
<1> DEFINE P == Pending(p, d)
           L == Len(s)
<1>1. /\ P \in SUBSET Subif /\ s \in Seq(P) /\ L \in Nat /\ BatchSize \in Nat \ {0}
      /\ L <= BatchSize + 1 /\ (L < BatchSize + 1 => P \subseteq ToSet(s))
      /\ \A i, j \in 1..L : i # j => s[i] # s[j]
  BY BatchingAssumption DEF Pending, Ordered, Limit
<1>2. IsFiniteSet(P) /\ Cardinality(P) \in Nat
  BY <1>1, SubsetsFinite, FS_CardinalityType
<1>3. ToSet(s) = UpTo(s, L) /\ ToSet(s) \subseteq P
  BY <1>1, ToSetFacts
<1>4. \A n \in 0..L : Cardinality(UpTo(s, n)) = n
  BY <1>1, Distinct
<1>5. L <= Cardinality(P)
  BY <1>1, <1>2, <1>3, <1>4, FS_Subset
<1>6. CASE L <= BatchSize
  <2>1. m = L
    BY <1>1, <1>6
  <2>2. UpTo(s, m) = P
    BY <1>1, <1>3, <1>6, <2>1
  <2>3. Cardinality(P) = L
    BY <1>1, <1>4, <2>1, <2>2
  <2>4. ~NeedsReinvoke(p, d)
    BY <1>1, <1>6, <2>3 DEF NeedsReinvoke
  <2>5. Batches(p, d, r) = {P}
    BY <2>4 DEF Batches
  <2> QED
    BY <1>1, <1>6, <2>2, <2>4, <2>5
<1>7. CASE L > BatchSize
  <2>1. m = BatchSize /\ L = BatchSize + 1 /\ m \in 0..L
    BY <1>1, <1>7
  <2>2. NeedsReinvoke(p, d)
    BY <1>1, <1>2, <1>5, <2>1 DEF NeedsReinvoke
  <2>3. UpTo(s, m) \in SUBSET P /\ Cardinality(UpTo(s, m)) = BatchSize
    BY <1>1, <1>4, <2>1 DEF UpTo
  <2>4. \A i, j \in Int : i <= j => UpTo(s, i) \subseteq UpTo(s, j)
    BY DEF UpTo
  <2>5. ASSUME NEW x \in UpTo(s, m), NEW q \in P, Precedes(q, x, d, r)
        PROVE  q \in UpTo(s, m)
    <3>1. PICK n \in 1..m : x = s[n]
      BY DEF UpTo
    <3>2. n \in 1..L /\ n - 1 \in Int /\ m \in Int /\ n - 1 <= m
      BY <1>1, <2>1, <3>1
    <3>3. q \in UpTo(s, n - 1)
      BY <2>5, <3>1, <3>2 DEF Ordered
    <3> QED
      BY <2>4, <3>2, <3>3
  <2> DEFINE cut(i) == /\ \E x \in UpTo(s, m) : x[1] = i
                       /\ \E x \in P \ UpTo(s, m) : x[1] = i
  <2>6. ASSUME NEW a \in 1..m, NEW b \in 1..m, a < b, s[a][1] # s[b][1]
        PROVE  ~cut(s[a][1])
    <3>1. a \in 1..L /\ b \in 1..L /\ b - 1 \in Int /\ m \in Int /\ b - 1 <= m
      BY <1>1, <2>1
    <3>2. \A q \in P : q[1] = s[a][1] => q \in UpTo(s, b - 1)
      BY <2>6, <3>1 DEF Ordered
    <3>3. \A q \in P : q[1] = s[a][1] => q \in UpTo(s, m)
      BY <2>4, <3>1, <3>2
    <3> QED
      BY <3>3
  <2>7. ASSUME NEW i \in Iface, NEW j \in Iface, cut(i), cut(j), i # j
        PROVE  FALSE
    <3>1. PICK a \in 1..m : s[a][1] = i
      BY <2>7 DEF UpTo
    <3>2. PICK b \in 1..m : s[b][1] = j
      BY <2>7 DEF UpTo
    <3>3. a < b \/ b < a
      BY <1>1, <2>1, <2>7, <3>1, <3>2
    <3> HIDE DEF cut
    <3> QED
      BY <2>6, <2>7, <3>1, <3>2, <3>3
  <2>8. Prefix(UpTo(s, m), p, d, r)
    BY <2>5, <2>7 DEF Prefix
  <2>9. Batches(p, d, r) = {B \in SUBSET P : Cardinality(B) = BatchSize /\ Prefix(B, p, d, r)}
    BY <2>2 DEF Batches
  <2> QED
    BY <1>7, <2>2, <2>3, <2>8, <2>9
<1> QED
  BY <1>1, <1>6, <1>7

\* The loops answer what Handle promises of a batch Batches allows, whatever
\* the order of the dictionaries: for any number of interfaces and VLANs and
\* any batch size.
THEOREM LoopsAnswerHandle == Spec => []AnswersHandle
<1>1. Init => ApplyInv
  BY DEF Init, ApplyInv
<1>2. CollectInv /\ ApplyInv /\ [Next]_vars => ApplyInv'
  BY EnterKeepsApplyInv, ApplyKeepsApplyInv, OthersKeepApplyInv DEF Next
<1>3. CollectInv /\ ApplyInv => AnswersHandle
  <2> SUFFICES ASSUME CollectInv, ApplyInv, phase = "done"
               PROVE  AnswersHandle
    BY DEF AnswersHandle
  <2> DEFINE B == UpTo(batch, Len(batch))
  <2>1. /\ pending \in Seq(Changes) /\ Len(pending) \in Nat
        /\ batch \in Seq(Changes) /\ Len(batch) \in Nat
        /\ Len(batch) = (IF Len(pending) < BatchSize THEN Len(pending) ELSE BatchSize)
        /\ \A n \in 1..Len(batch) : batch[n] = pending[n]
    BY BatchType
  <2>2. /\ Ordered(pending, Changes, desired, reported) /\ Len(pending) <= Limit
        /\ Len(pending) < Limit => Changes \subseteq ToSet(pending)
        /\ prev.subif \in SUBSET Subif /\ desired \in SUBSET Subif
    BY DEF CollectInv
  <2>3. /\ k - 1 = Len(batch) /\ newNi = Vlans(result) /\ deleted = prev.ni \ newNi
        /\ result = Result(prev.subif, desired, UpTo(batch, k - 1))
        /\ created \in Seq(Vlan)
        /\ ToSet(created) = Created(prev, desired, UpTo(batch, k - 1))
        /\ \A m, n \in 1..Len(created) : m # n => created[m] # created[n]
    BY <2>1 DEF ApplyInv
  <2>4. ToSet(batch) = B /\ B = UpTo(pending, Len(batch))
    <3>1. ToSet(batch) = B
      BY <2>1, ToSetFacts
    <3> QED
      BY <2>1, <3>1 DEF UpTo
  <2>5. B \in Batches(prev.subif, desired, reported)
        /\ (NeedsReinvoke(prev.subif, desired) <=> Len(pending) > BatchSize)
    BY <2>1, <2>2, <2>4, FrontIsBatch DEF Changes
  <2>6. result = Result(prev.subif, desired, B) /\ ToSet(created) = Created(prev, desired, B)
    BY <2>3
  <2>7. Cardinality(ToSet(pending)) = Len(pending)
    <3>1. \A m, n \in 1..Len(pending) : m # n => pending[m] # pending[n]
      BY <2>2 DEF Ordered
    <3>2. Len(pending) \in 0..Len(pending) /\ ToSet(pending) = UpTo(pending, Len(pending))
      BY <2>1, ToSetFacts
    <3> QED
      BY <2>1, <3>1, <3>2, Distinct
  <2>8. Cardinality(ToSet(created)) = Len(created)
    <3>1. Len(created) \in 0..Len(created) /\ ToSet(created) = UpTo(created, Len(created))
      BY <2>3, ToSetFacts
    <3> QED
      BY <2>3, <3>1, Distinct
  <2> HIDE DEF B
  <2>9. Answer = Handle(prev, desired, B)
    <3>1. Answer = [desired |-> desired, adds |-> B \cap desired, removes |-> B \ desired,
                    create |-> Created(prev, desired, B), delete |-> deleted,
                    reinvoke |-> Len(pending) > BatchSize,
                    persist |-> [subif |-> result, ni |-> newNi]]
      BY <2>4, <2>6 DEF Answer
    <3>2. (Len(pending) > BatchSize) = NeedsReinvoke(prev.subif, desired)
      BY <2>5 DEF NeedsReinvoke
    <3>3. deleted = Deleted(prev, desired, B)
          /\ [subif |-> result, ni |-> newNi] = NextPersist(prev, Result(prev.subif, desired, B))
      BY <2>3, <2>6 DEF Deleted, NextPersist
    <3> QED
      BY <3>1, <3>2, <3>3 DEF Handle
  <2> QED
    BY <2>2, <2>4, <2>5, <2>7, <2>8, <2>9 DEF AnswersHandle, Limit
<1> QED
  BY <1>1, <1>2, <1>3, Collects, PTL DEF Spec
=============================================================================
