----------------------- MODULE OperandConfigMergeProofs -----------------------
(***************************************************************************)
(* Theorems about OperandConfigMerge, for lists of CRs of any length with  *)
(* any sizes, controllers, user values and features, on every build.       *)
(***************************************************************************)
EXTENDS OperandConfigMerge, SequenceTheorems, WellFoundedInduction, TLAPS

-----------------------------------------------------------------------------
(***************************************************************************)
(* The comparison of two sizes                                             *)
(***************************************************************************)

\* The number a size is compared by is a natural number.
LEMMA NumberOfSize ==
    ASSUME NEW v, IsSize(v)
    PROVE  normalizeResourceQuantity(AsString(v)).n \in Nat
<1>1. v.t \in {"str", "num"} /\ v.n \in Nat /\ DOMAIN v = {"t", "n", "u"}
  BY DEF IsSize
<1>2. CASE v.t = "str"
  <2>1. AsString(v) = v
    BY <1>2 DEF AsString
  <2>. QED  BY <1>1, <2>1 DEF normalizeResourceQuantity
<1>3. CASE v.t = "num"
  <2>1. AsString(v) = Str(v.n, "one")
    BY <1>3 DEF AsString
  <2>2. normalizeResourceQuantity(Str(v.n, "one")) = Str(v.n, "one")
    BY DEF normalizeResourceQuantity, Str
  <2>. QED  BY <1>1, <2>1, <2>2 DEF Str
<1>. QED  BY <1>1, <1>2, <1>3

\* A quantity is a pair of integers.
LEMMA QuantityIsPair ==
    ASSUME NEW v, IsSize(v), Parses(v)
    PROVE  Quantity(v)[1] \in Int /\ Quantity(v)[2] \in Int
<1>. DEFINE s == normalizeResourceQuantity(AsString(v))
<1>1. s.n \in Nat /\ s.u \in DOMAIN Unit
  BY NumberOfSize DEF Parses
<1>2. \A x \in DOMAIN Unit : Unit[x][1] \in Nat /\ Unit[x][2] \in Nat
  BY DEF Unit
<1>. HIDE DEF s
<1>3. \A n, a, b \in Nat : n * a + (n * b) \div 1000000 \in Int /\ (n * b) % 1000000 \in Int
  <2>1. \A n, a \in Nat : n * a \in Nat
    OBVIOUS
  <2>2. \A x \in Nat : x \div 1000000 \in Int /\ x % 1000000 \in Int
    OBVIOUS
  <2>3. \A x, y \in Int : x + y \in Int
    OBVIOUS
  <2>. QED  BY <2>1, <2>2, <2>3
<1>4. /\ Quantity(v)[1] = s.n * Unit[s.u][1] + (s.n * Unit[s.u][2]) \div 1000000
      /\ Quantity(v)[2] = (s.n * Unit[s.u][2]) % 1000000
  BY DEF Quantity, ParseQuantity, s
<1>. QED  BY <1>1, <1>2, <1>3, <1>4

\* Quantities are ordered: what does not exceed what does not exceed a third
\* does not exceed the third, and of two at most one exceeds the other.
LEMMA ExceedsOrder ==
    ASSUME NEW a, NEW b, NEW c, IsSize(a), IsSize(b), IsSize(c),
           Parses(a), Parses(b), Parses(c)
    PROVE  /\ ~Exceeds(a, a)
           /\ Exceeds(a, b) => ~Exceeds(b, a)
           /\ ~Exceeds(a, b) /\ ~Exceeds(b, c) => ~Exceeds(a, c)
BY QuantityIsPair DEF Exceeds, Greater

\* A profile name is not a quantity.
LEMMA ProfileDoesNotParse ==
    ASSUME NEW v, v.t = "str", v.u \in DOMAIN profileSize
    PROVE  ~Parses(v)
BY DEF Parses, profileSize, AsString, normalizeResourceQuantity, Unit

\* A number parses.
LEMMA NumberParses ==
    ASSUME NEW v, v.t = "num"
    PROVE  Parses(v)
BY DEF Parses, AsString, Str, normalizeResourceQuantity, Unit

\* The larger of two sizes is one of them.
LEMMA LargeIsEither ==
    ASSUME NEW a, NEW b, IsSize(a), IsSize(b)
    PROVE  Large(a, b) \in {a, b}
<1>1. a.t \in {"str", "num"} /\ b.t \in {"str", "num"}
  BY DEF IsSize
<1>2. CASE a.t = "str" /\ b.t = "str"
  <2>1. ResourceComparison(a, b) = resourceStringComparison(a, b)
    BY <1>2 DEF ResourceComparison
  <2>. QED  BY <2>1 DEF resourceStringComparison, Ordered, Large
<1>3. CASE a.t = "str" /\ b.t = "num"
  <2>1. ResourceComparison(a, b) = MixedComparison(a, b)
    BY <1>3 DEF ResourceComparison
  <2>2. Parses(b)
    BY <1>3, NumberParses
  <2>. QED  BY <2>1, <2>2 DEF MixedComparison, Ordered, Large
<1>4. CASE a.t = "num"
  <2>1. ResourceComparison(a, b) = NumericComparison(a, b)
    BY <1>4 DEF ResourceComparison
  <2>. QED  BY <2>1 DEF NumericComparison, Ordered, Large
<1>. QED  BY <1>1, <1>2, <1>3, <1>4

\* If either of two sizes is a quantity the larger one is, and neither exceeds
\* it; but the number 0 gives way to a text that is no quantity.
LEMMA LargeIsLargest ==
    ASSUME NEW a, NEW b, IsSize(a), IsSize(b), (a.t = "num" => a.n > 0) \/ Parses(b)
    PROVE  /\ Large(a, b) \in {a, b}
           /\ Parses(a) \/ Parses(b) => Parses(Large(a, b))
           /\ Parses(a) => ~Exceeds(a, Large(a, b))
           /\ Parses(b) => ~Exceeds(b, Large(a, b))
<1>1. a.t \in {"str", "num"} /\ b.t \in {"str", "num"} /\ a.n \in Nat
  BY DEF IsSize
<1>2. CASE a.t = "str" /\ b.t = "str"
  <2>1. ResourceComparison(a, b) = resourceStringComparison(a, b)
    BY <1>2 DEF ResourceComparison
  <2>2. CASE a.u \in DOMAIN profileSize
    <3>1. ~Parses(a)
      BY <1>2, <2>2, ProfileDoesNotParse
    <3>2. Parses(b) => b.u \notin DOMAIN profileSize
      BY <1>2, ProfileDoesNotParse
    <3>. DEFINE larger == b.u \in DOMAIN profileSize /\ profileSize[a.u] > profileSize[b.u]
    <3>3. resourceStringComparison(a, b) = Ordered(larger, a, b)
      BY <2>2, <3>1 DEF resourceStringComparison
    <3>. QED  BY <2>1, <3>1, <3>2, <3>3, ExceedsOrder DEF Ordered, Large
  <2>3. CASE a.u \notin DOMAIN profileSize /\ Parses(a) /\ Parses(b)
    <3>1. resourceStringComparison(a, b) = Ordered(Exceeds(a, b), a, b)
      BY <2>3 DEF resourceStringComparison
    <3>. QED  BY <2>1, <2>3, <3>1, ExceedsOrder DEF Ordered, Large
  <2>4. CASE a.u \notin DOMAIN profileSize /\ ~(Parses(a) /\ Parses(b))
    <3>1. resourceStringComparison(a, b) = Ordered(Parses(a), a, b)
      BY <2>4 DEF resourceStringComparison
    <3>. QED  BY <2>1, <2>4, <3>1, ExceedsOrder DEF Ordered, Large
  <2>. QED  BY <2>2, <2>3, <2>4
<1>3. CASE a.t = "str" /\ b.t = "num"
  <2>1. ResourceComparison(a, b) = MixedComparison(a, b)
    BY <1>3 DEF ResourceComparison
  <2>2. Parses(b)
    BY <1>3, NumberParses
  <2>3. MixedComparison(a, b) = Ordered(Parses(a) /\ (~Parses(b) \/ Exceeds(a, b)), a, b)
    BY <2>2 DEF MixedComparison
  <2>. QED  BY <2>1, <2>2, <2>3, ExceedsOrder DEF Ordered, Large
<1>4. CASE a.t = "num"
  <2>1. ResourceComparison(a, b) = NumericComparison(a, b)
    BY <1>4 DEF ResourceComparison
  <2>2. Parses(a)
    BY <1>4, NumberParses
  <2>3. NumericComparison(a, b) = Ordered(IF Parses(b) THEN Exceeds(a, b) ELSE TRUE, a, b)
    BY <1>1, <1>4 DEF NumericComparison
  <2>. QED  BY <2>1, <2>2, <2>3, ExceedsOrder DEF Ordered, Large
<1>. QED  BY <1>1, <1>2, <1>3, <1>4

-----------------------------------------------------------------------------
(***************************************************************************)
(* The size templates                                                      *)
(***************************************************************************)

\* A row of a template: no request exceeds its limit.
Rows == {r \in Nat \X Nat \X Nat \X Nat \X Nat : r[2] <= r[3] /\ r[4] <= r[5]}

\* The first sequence of a concatenation begins it.
LEMMA FirstOfConcat ==
    ASSUME NEW S, NEW a \in Seq(S), NEW b \in Seq(S), NEW k \in 1..(Len(a) + Len(b)), k <= Len(a)
    PROVE  (a \o b)[k] = a[k]
<1>1. (a \o b)[k] = IF k <= Len(a) THEN a[k] ELSE b[k - Len(a)]
  BY ConcatProperties, Zenon
<1>. QED  BY <1>1, Zenon

\* Three tables one after the other are one template.
LEMMA ThreeTables ==
    ASSUME NEW S, NEW a \in Seq(S), NEW b \in Seq(S), NEW c \in Seq(S),
           Len(a) = 6, Len(b) = 14, Len(c) = 19
    PROVE  a \o b \o c \in Seq(S) /\ Len(a \o b \o c) = 39
<1>1. a \o b \in Seq(S) /\ Len(a \o b) = Len(a) + Len(b)
  BY ConcatProperties, Zenon
<1>2. (a \o b) \o c \in Seq(S) /\ Len((a \o b) \o c) = Len(a \o b) + Len(c)
  BY <1>1, ConcatProperties, Zenon
<1>3. 6 + 14 = 20 /\ 20 + 19 = 39
  OBVIOUS
<1>. QED  BY <1>1, <1>2, <1>3, Zenon

\* The sixth row, the database, is in the first table.
LEMMA SixthRow ==
    ASSUME NEW S, NEW a \in Seq(S), NEW b \in Seq(S), NEW c \in Seq(S),
           Len(a) = 6, Len(b) = 14, Len(c) = 19
    PROVE  (a \o b \o c)[6] = a[6]
<1>1. a \o b \in Seq(S) /\ Len(a \o b) = Len(a) + Len(b)
  BY ConcatProperties, Zenon
<1>2. 6 + 14 = 20 /\ 20 + 19 = 39 /\ 6 \in 1..20 /\ 6 \in 1..39 /\ 6 <= 6 /\ 6 <= 20
  OBVIOUS
<1>3. Len(a \o b) = 20
  BY <1>1, <1>2, Zenon
<1>4. (a \o b)[6] = a[6]
  <2>1. 6 \in 1..(Len(a) + Len(b)) /\ 6 <= Len(a)
    BY <1>2, Zenon
  <2>2. \A j \in 1..(Len(a) + Len(b)) : j <= Len(a) => (a \o b)[j] = a[j]
    BY FirstOfConcat, Zenon
  <2>. QED  BY <2>1, <2>2
<1>5. ((a \o b) \o c)[6] = (a \o b)[6]
  <2>1. 6 \in 1..(Len(a \o b) + Len(c)) /\ 6 <= Len(a \o b)
    BY <1>2, <1>3, Zenon
  <2>. QED  BY <1>1, <2>1, FirstOfConcat
<1>. QED  BY <1>4, <1>5, Zenon

\* The starterset templates of all builds have a row of Rows for every container.
LEMMA StarterSetRows ==
    ASSUME NEW arch \in Arches
    PROVE  /\ SizeTemplate(arch, "starterset") \in Seq(Rows) /\ Len(SizeTemplate(arch, "starterset")) = 39
           /\ SizeTemplate(arch, "starterset")[6][1] > 0
<1>1. CASE arch = "amd64"
  <2>1. StarterSetAmd64Storage \in Seq(Rows) /\ Len(StarterSetAmd64Storage) = 6 /\ StarterSetAmd64Storage[6][1] > 0
    BY DEF StarterSetAmd64Storage, Rows
  <2>2. StarterSetAmd64Identity \in Seq(Rows) /\ Len(StarterSetAmd64Identity) = 14
    BY DEF StarterSetAmd64Identity, Rows
  <2>3. StarterSetAmd64Platform \in Seq(Rows) /\ Len(StarterSetAmd64Platform) = 19
    BY DEF StarterSetAmd64Platform, Rows
  <2>4. SizeTemplate(arch, "starterset") = StarterSetAmd64Storage \o StarterSetAmd64Identity \o StarterSetAmd64Platform
    BY <1>1 DEF SizeTemplate
  <2>5. StarterSetAmd64Storage \o StarterSetAmd64Identity \o StarterSetAmd64Platform \in Seq(Rows)
          /\ Len(StarterSetAmd64Storage \o StarterSetAmd64Identity \o StarterSetAmd64Platform) = 39
    BY <2>1, <2>2, <2>3, ThreeTables, Zenon
  <2>6. (StarterSetAmd64Storage \o StarterSetAmd64Identity \o StarterSetAmd64Platform)[6] = StarterSetAmd64Storage[6]
    BY <2>1, <2>2, <2>3, SixthRow
  <2>. QED  BY <2>1, <2>4, <2>5, <2>6, Zenon
<1>2. CASE arch = "ppc64le"
  <2>1. StarterSetPpc64leStorage \in Seq(Rows) /\ Len(StarterSetPpc64leStorage) = 6 /\ StarterSetPpc64leStorage[6][1] > 0
    BY DEF StarterSetPpc64leStorage, Rows
  <2>2. StarterSetPpc64leIdentity \in Seq(Rows) /\ Len(StarterSetPpc64leIdentity) = 14
    BY DEF StarterSetPpc64leIdentity, Rows
  <2>3. StarterSetPpc64lePlatform \in Seq(Rows) /\ Len(StarterSetPpc64lePlatform) = 19
    BY DEF StarterSetPpc64lePlatform, Rows
  <2>4. SizeTemplate(arch, "starterset") = StarterSetPpc64leStorage \o StarterSetPpc64leIdentity \o StarterSetPpc64lePlatform
    BY <1>2 DEF SizeTemplate
  <2>5. StarterSetPpc64leStorage \o StarterSetPpc64leIdentity \o StarterSetPpc64lePlatform \in Seq(Rows)
          /\ Len(StarterSetPpc64leStorage \o StarterSetPpc64leIdentity \o StarterSetPpc64lePlatform) = 39
    BY <2>1, <2>2, <2>3, ThreeTables, Zenon
  <2>6. (StarterSetPpc64leStorage \o StarterSetPpc64leIdentity \o StarterSetPpc64lePlatform)[6] = StarterSetPpc64leStorage[6]
    BY <2>1, <2>2, <2>3, SixthRow
  <2>. QED  BY <2>1, <2>4, <2>5, <2>6, Zenon
<1>3. CASE arch = "s390x"
  <2>1. StarterSetS390xStorage \in Seq(Rows) /\ Len(StarterSetS390xStorage) = 6 /\ StarterSetS390xStorage[6][1] > 0
    BY DEF StarterSetS390xStorage, Rows
  <2>2. StarterSetS390xIdentity \in Seq(Rows) /\ Len(StarterSetS390xIdentity) = 14
    BY DEF StarterSetS390xIdentity, Rows
  <2>3. StarterSetS390xPlatform \in Seq(Rows) /\ Len(StarterSetS390xPlatform) = 19
    BY DEF StarterSetS390xPlatform, Rows
  <2>4. SizeTemplate(arch, "starterset") = StarterSetS390xStorage \o StarterSetS390xIdentity \o StarterSetS390xPlatform
    BY <1>3 DEF SizeTemplate
  <2>5. StarterSetS390xStorage \o StarterSetS390xIdentity \o StarterSetS390xPlatform \in Seq(Rows)
          /\ Len(StarterSetS390xStorage \o StarterSetS390xIdentity \o StarterSetS390xPlatform) = 39
    BY <2>1, <2>2, <2>3, ThreeTables, Zenon
  <2>6. (StarterSetS390xStorage \o StarterSetS390xIdentity \o StarterSetS390xPlatform)[6] = StarterSetS390xStorage[6]
    BY <2>1, <2>2, <2>3, SixthRow
  <2>. QED  BY <2>1, <2>4, <2>5, <2>6, Zenon
<1>. QED  BY <1>1, <1>2, <1>3 DEF Arches

\* The small templates of all builds have a row of Rows for every container.
LEMMA SmallRows ==
    ASSUME NEW arch \in Arches
    PROVE  /\ SizeTemplate(arch, "small") \in Seq(Rows) /\ Len(SizeTemplate(arch, "small")) = 39
           /\ SizeTemplate(arch, "small")[6][1] > 0
<1>1. CASE arch = "amd64"
  <2>1. SmallAmd64Storage \in Seq(Rows) /\ Len(SmallAmd64Storage) = 6 /\ SmallAmd64Storage[6][1] > 0
    BY DEF SmallAmd64Storage, Rows
  <2>2. SmallAmd64Identity \in Seq(Rows) /\ Len(SmallAmd64Identity) = 14
    BY DEF SmallAmd64Identity, Rows
  <2>3. SmallAmd64Platform \in Seq(Rows) /\ Len(SmallAmd64Platform) = 19
    BY DEF SmallAmd64Platform, Rows
  <2>4. SizeTemplate(arch, "small") = SmallAmd64Storage \o SmallAmd64Identity \o SmallAmd64Platform
    BY <1>1 DEF SizeTemplate
  <2>5. SmallAmd64Storage \o SmallAmd64Identity \o SmallAmd64Platform \in Seq(Rows)
          /\ Len(SmallAmd64Storage \o SmallAmd64Identity \o SmallAmd64Platform) = 39
    BY <2>1, <2>2, <2>3, ThreeTables, Zenon
  <2>6. (SmallAmd64Storage \o SmallAmd64Identity \o SmallAmd64Platform)[6] = SmallAmd64Storage[6]
    BY <2>1, <2>2, <2>3, SixthRow
  <2>. QED  BY <2>1, <2>4, <2>5, <2>6, Zenon
<1>2. CASE arch = "ppc64le"
  <2>1. SmallPpc64leStorage \in Seq(Rows) /\ Len(SmallPpc64leStorage) = 6 /\ SmallPpc64leStorage[6][1] > 0
    BY DEF SmallPpc64leStorage, Rows
  <2>2. SmallPpc64leIdentity \in Seq(Rows) /\ Len(SmallPpc64leIdentity) = 14
    BY DEF SmallPpc64leIdentity, Rows
  <2>3. SmallPpc64lePlatform \in Seq(Rows) /\ Len(SmallPpc64lePlatform) = 19
    BY DEF SmallPpc64lePlatform, Rows
  <2>4. SizeTemplate(arch, "small") = SmallPpc64leStorage \o SmallPpc64leIdentity \o SmallPpc64lePlatform
    BY <1>2 DEF SizeTemplate
  <2>5. SmallPpc64leStorage \o SmallPpc64leIdentity \o SmallPpc64lePlatform \in Seq(Rows)
          /\ Len(SmallPpc64leStorage \o SmallPpc64leIdentity \o SmallPpc64lePlatform) = 39
    BY <2>1, <2>2, <2>3, ThreeTables, Zenon
  <2>6. (SmallPpc64leStorage \o SmallPpc64leIdentity \o SmallPpc64lePlatform)[6] = SmallPpc64leStorage[6]
    BY <2>1, <2>2, <2>3, SixthRow
  <2>. QED  BY <2>1, <2>4, <2>5, <2>6, Zenon
<1>3. CASE arch = "s390x"
  <2>1. SmallS390xStorage \in Seq(Rows) /\ Len(SmallS390xStorage) = 6 /\ SmallS390xStorage[6][1] > 0
    BY DEF SmallS390xStorage, Rows
  <2>2. SmallS390xIdentity \in Seq(Rows) /\ Len(SmallS390xIdentity) = 14
    BY DEF SmallS390xIdentity, Rows
  <2>3. SmallS390xPlatform \in Seq(Rows) /\ Len(SmallS390xPlatform) = 19
    BY DEF SmallS390xPlatform, Rows
  <2>4. SizeTemplate(arch, "small") = SmallS390xStorage \o SmallS390xIdentity \o SmallS390xPlatform
    BY <1>3 DEF SizeTemplate
  <2>5. SmallS390xStorage \o SmallS390xIdentity \o SmallS390xPlatform \in Seq(Rows)
          /\ Len(SmallS390xStorage \o SmallS390xIdentity \o SmallS390xPlatform) = 39
    BY <2>1, <2>2, <2>3, ThreeTables, Zenon
  <2>6. (SmallS390xStorage \o SmallS390xIdentity \o SmallS390xPlatform)[6] = SmallS390xStorage[6]
    BY <2>1, <2>2, <2>3, SixthRow
  <2>. QED  BY <2>1, <2>4, <2>5, <2>6, Zenon
<1>. QED  BY <1>1, <1>2, <1>3 DEF Arches

\* The medium templates of all builds have a row of Rows for every container.
LEMMA MediumRows ==
    ASSUME NEW arch \in Arches
    PROVE  /\ SizeTemplate(arch, "medium") \in Seq(Rows) /\ Len(SizeTemplate(arch, "medium")) = 39
           /\ SizeTemplate(arch, "medium")[6][1] > 0
<1>1. CASE arch = "amd64"
  <2>1. MediumAmd64Storage \in Seq(Rows) /\ Len(MediumAmd64Storage) = 6 /\ MediumAmd64Storage[6][1] > 0
    BY DEF MediumAmd64Storage, Rows
  <2>2. MediumAmd64Identity \in Seq(Rows) /\ Len(MediumAmd64Identity) = 14
    BY DEF MediumAmd64Identity, Rows
  <2>3. MediumAmd64Platform \in Seq(Rows) /\ Len(MediumAmd64Platform) = 19
    BY DEF MediumAmd64Platform, Rows
  <2>4. SizeTemplate(arch, "medium") = MediumAmd64Storage \o MediumAmd64Identity \o MediumAmd64Platform
    BY <1>1 DEF SizeTemplate
  <2>5. MediumAmd64Storage \o MediumAmd64Identity \o MediumAmd64Platform \in Seq(Rows)
          /\ Len(MediumAmd64Storage \o MediumAmd64Identity \o MediumAmd64Platform) = 39
    BY <2>1, <2>2, <2>3, ThreeTables, Zenon
  <2>6. (MediumAmd64Storage \o MediumAmd64Identity \o MediumAmd64Platform)[6] = MediumAmd64Storage[6]
    BY <2>1, <2>2, <2>3, SixthRow
  <2>. QED  BY <2>1, <2>4, <2>5, <2>6, Zenon
<1>2. CASE arch = "ppc64le"
  <2>1. MediumPpc64leStorage \in Seq(Rows) /\ Len(MediumPpc64leStorage) = 6 /\ MediumPpc64leStorage[6][1] > 0
    BY DEF MediumPpc64leStorage, Rows
  <2>2. MediumPpc64leIdentity \in Seq(Rows) /\ Len(MediumPpc64leIdentity) = 14
    BY DEF MediumPpc64leIdentity, Rows
  <2>3. MediumPpc64lePlatform \in Seq(Rows) /\ Len(MediumPpc64lePlatform) = 19
    BY DEF MediumPpc64lePlatform, Rows
  <2>4. SizeTemplate(arch, "medium") = MediumPpc64leStorage \o MediumPpc64leIdentity \o MediumPpc64lePlatform
    BY <1>2 DEF SizeTemplate
  <2>5. MediumPpc64leStorage \o MediumPpc64leIdentity \o MediumPpc64lePlatform \in Seq(Rows)
          /\ Len(MediumPpc64leStorage \o MediumPpc64leIdentity \o MediumPpc64lePlatform) = 39
    BY <2>1, <2>2, <2>3, ThreeTables, Zenon
  <2>6. (MediumPpc64leStorage \o MediumPpc64leIdentity \o MediumPpc64lePlatform)[6] = MediumPpc64leStorage[6]
    BY <2>1, <2>2, <2>3, SixthRow
  <2>. QED  BY <2>1, <2>4, <2>5, <2>6, Zenon
<1>3. CASE arch = "s390x"
  <2>1. MediumS390xStorage \in Seq(Rows) /\ Len(MediumS390xStorage) = 6 /\ MediumS390xStorage[6][1] > 0
    BY DEF MediumS390xStorage, Rows
  <2>2. MediumS390xIdentity \in Seq(Rows) /\ Len(MediumS390xIdentity) = 14
    BY DEF MediumS390xIdentity, Rows
  <2>3. MediumS390xPlatform \in Seq(Rows) /\ Len(MediumS390xPlatform) = 19
    BY DEF MediumS390xPlatform, Rows
  <2>4. SizeTemplate(arch, "medium") = MediumS390xStorage \o MediumS390xIdentity \o MediumS390xPlatform
    BY <1>3 DEF SizeTemplate
  <2>5. MediumS390xStorage \o MediumS390xIdentity \o MediumS390xPlatform \in Seq(Rows)
          /\ Len(MediumS390xStorage \o MediumS390xIdentity \o MediumS390xPlatform) = 39
    BY <2>1, <2>2, <2>3, ThreeTables, Zenon
  <2>6. (MediumS390xStorage \o MediumS390xIdentity \o MediumS390xPlatform)[6] = MediumS390xStorage[6]
    BY <2>1, <2>2, <2>3, SixthRow
  <2>. QED  BY <2>1, <2>4, <2>5, <2>6, Zenon
<1>. QED  BY <1>1, <1>2, <1>3 DEF Arches

\* The large templates of all builds have a row of Rows for every container.
LEMMA LargeRows ==
    ASSUME NEW arch \in Arches
    PROVE  /\ SizeTemplate(arch, "large") \in Seq(Rows) /\ Len(SizeTemplate(arch, "large")) = 39
           /\ SizeTemplate(arch, "large")[6][1] > 0
<1>1. CASE arch = "amd64"
  <2>1. LargeAmd64Storage \in Seq(Rows) /\ Len(LargeAmd64Storage) = 6 /\ LargeAmd64Storage[6][1] > 0
    BY DEF LargeAmd64Storage, Rows
  <2>2. LargeAmd64Identity \in Seq(Rows) /\ Len(LargeAmd64Identity) = 14
    BY DEF LargeAmd64Identity, Rows
  <2>3. LargeAmd64Platform \in Seq(Rows) /\ Len(LargeAmd64Platform) = 19
    BY DEF LargeAmd64Platform, Rows
  <2>4. SizeTemplate(arch, "large") = LargeAmd64Storage \o LargeAmd64Identity \o LargeAmd64Platform
    BY <1>1 DEF SizeTemplate
  <2>5. LargeAmd64Storage \o LargeAmd64Identity \o LargeAmd64Platform \in Seq(Rows)
          /\ Len(LargeAmd64Storage \o LargeAmd64Identity \o LargeAmd64Platform) = 39
    BY <2>1, <2>2, <2>3, ThreeTables, Zenon
  <2>6. (LargeAmd64Storage \o LargeAmd64Identity \o LargeAmd64Platform)[6] = LargeAmd64Storage[6]
    BY <2>1, <2>2, <2>3, SixthRow
  <2>. QED  BY <2>1, <2>4, <2>5, <2>6, Zenon
<1>2. CASE arch = "ppc64le"
  <2>1. LargePpc64leStorage \in Seq(Rows) /\ Len(LargePpc64leStorage) = 6 /\ LargePpc64leStorage[6][1] > 0
    BY DEF LargePpc64leStorage, Rows
  <2>2. LargePpc64leIdentity \in Seq(Rows) /\ Len(LargePpc64leIdentity) = 14
    BY DEF LargePpc64leIdentity, Rows
  <2>3. LargePpc64lePlatform \in Seq(Rows) /\ Len(LargePpc64lePlatform) = 19
    BY DEF LargePpc64lePlatform, Rows
  <2>4. SizeTemplate(arch, "large") = LargePpc64leStorage \o LargePpc64leIdentity \o LargePpc64lePlatform
    BY <1>2 DEF SizeTemplate
  <2>5. LargePpc64leStorage \o LargePpc64leIdentity \o LargePpc64lePlatform \in Seq(Rows)
          /\ Len(LargePpc64leStorage \o LargePpc64leIdentity \o LargePpc64lePlatform) = 39
    BY <2>1, <2>2, <2>3, ThreeTables, Zenon
  <2>6. (LargePpc64leStorage \o LargePpc64leIdentity \o LargePpc64lePlatform)[6] = LargePpc64leStorage[6]
    BY <2>1, <2>2, <2>3, SixthRow
  <2>. QED  BY <2>1, <2>4, <2>5, <2>6, Zenon
<1>3. CASE arch = "s390x"
  <2>1. LargeS390xStorage \in Seq(Rows) /\ Len(LargeS390xStorage) = 6 /\ LargeS390xStorage[6][1] > 0
    BY DEF LargeS390xStorage, Rows
  <2>2. LargeS390xIdentity \in Seq(Rows) /\ Len(LargeS390xIdentity) = 14
    BY DEF LargeS390xIdentity, Rows
  <2>3. LargeS390xPlatform \in Seq(Rows) /\ Len(LargeS390xPlatform) = 19
    BY DEF LargeS390xPlatform, Rows
  <2>4. SizeTemplate(arch, "large") = LargeS390xStorage \o LargeS390xIdentity \o LargeS390xPlatform
    BY <1>3 DEF SizeTemplate
  <2>5. LargeS390xStorage \o LargeS390xIdentity \o LargeS390xPlatform \in Seq(Rows)
          /\ Len(LargeS390xStorage \o LargeS390xIdentity \o LargeS390xPlatform) = 39
    BY <2>1, <2>2, <2>3, ThreeTables, Zenon
  <2>6. (LargeS390xStorage \o LargeS390xIdentity \o LargeS390xPlatform)[6] = LargeS390xStorage[6]
    BY <2>1, <2>2, <2>3, SixthRow
  <2>. QED  BY <2>1, <2>4, <2>5, <2>6, Zenon
<1>. QED  BY <1>1, <1>2, <1>3 DEF Arches

\* Every build has, for every profile, a row of Rows for every container, and
\* the database has instances.
LEMMA TemplateRow ==
    ASSUME NEW arch \in Arches, NEW profile \in Profiles, NEW i \in 1..Len(Components)
    PROVE  /\ SizeTemplate(arch, profile)[i] \in Rows
           /\ SizeTemplate(arch, profile)[6] \in Rows /\ SizeTemplate(arch, profile)[6][1] > 0
<1>1. /\ SizeTemplate(arch, profile) \in Seq(Rows) /\ Len(SizeTemplate(arch, profile)) = 39
      /\ SizeTemplate(arch, profile)[6][1] > 0
  BY StarterSetRows, SmallRows, MediumRows, LargeRows DEF Profiles
<1>2. Len(Components) = 39
  <2>. DEFINE S == {StorageComponents[j] : j \in 1..6} \cup {IdentityComponents[j] : j \in 1..14}
                     \cup {PlatformComponents[j] : j \in 1..19}
  <2>1. StorageComponents \in Seq(S) /\ Len(StorageComponents) = 6
    BY DEF StorageComponents
  <2>2. IdentityComponents \in Seq(S) /\ Len(IdentityComponents) = 14
    BY DEF IdentityComponents
  <2>3. PlatformComponents \in Seq(S) /\ Len(PlatformComponents) = 19
    BY DEF PlatformComponents
  <2>. HIDE DEF S
  <2>. QED  BY <2>1, <2>2, <2>3, ThreeTables, Zenon DEF Components
<1>3. \A t \in Seq(Rows) : Len(t) = 39 => \A j \in 1..39 : t[j] \in Rows
  BY ElementOfSeq, Zenon
<1>4. i \in 1..39 /\ 6 \in 1..39
  BY <1>2
<1>. QED  BY <1>1, <1>3, <1>4, Zenon

-----------------------------------------------------------------------------
(***************************************************************************)
(* What one CR asks for                                                    *)
(***************************************************************************)

\* The build and the container are those of a case.
Builds == Arches \X (1..Len(Components))

\* A part of the services that sizes fields of S only.
SizesOf(c, S) == DOMAIN c \subseteq S /\ \A f \in DOMAIN c : IsSize(c[f])

\* None has no leaf.
LEMMA NoneIsEmpty == DOMAIN None = {}
BY DEF None

\* The leaves of one function laid over another.
LEMMA OverLeaves ==
    ASSUME NEW f, NEW g
    PROVE  /\ DOMAIN Over(f, g) = DOMAIN f \cup DOMAIN g
           /\ \A x \in DOMAIN f : Over(f, g)[x] = f[x]
           /\ \A x \in DOMAIN g \ DOMAIN f : Over(f, g)[x] = g[x]
BY DEF Over

\* A size template gives sizes, a request and a limit of each kind, and the
\* request does not exceed the limit.
LEMMA TemplateSizes ==
    ASSUME built \in Builds, NEW profile \in Profiles
    PROVE  LET t == SizeTemplateConfig(profile) IN
           /\ SizesOf(t.spec, SizeFields) /\ SizesOf(t.cluster, ClusterSizeFields)
           /\ {"cpuRequest", "cpuLimit", "memoryRequest", "memoryLimit"} \subseteq DOMAIN t.spec
           /\ {"dbCpuRequest", "dbCpuLimit"} \subseteq DOMAIN t.cluster
<1>. DEFINE row == SizeTemplate(built[1], profile)[built[2]]
            db == SizeTemplate(built[1], profile)[6]
            first == IF row[1] = 0 THEN None ELSE [replicas |-> Num(row[1])]
            rest == [cpuRequest |-> Str(row[2], "m"), cpuLimit |-> Str(row[3], "m"),
                     memoryRequest |-> Str(row[4], "Mi"), memoryLimit |-> Str(row[5], "Mi")]
            cluster == [instances |-> Num(db[1]), dbCpuRequest |-> Str(db[2], "m"),
                        dbCpuLimit |-> Str(db[3], "m")]
<1>1. row \in Rows /\ db \in Rows /\ db[1] > 0
  BY TemplateRow DEF Builds
<1>2. SizeTemplateConfig(profile) = [spec |-> Over(first, rest), cluster |-> cluster]
  BY DEF SizeTemplateConfig
<1>3. \A k \in 1..5 : row[k] \in Nat /\ db[k] \in Nat
  BY <1>1 DEF Rows
<1>. HIDE DEF row, db
<1>4. SizesOf(rest, SizeFields)
  BY <1>3 DEF SizesOf, IsSize, Str, SizeFields
<1>5. SizesOf(first, SizeFields)
  <2>1. CASE row[1] = 0
    BY <2>1, NoneIsEmpty DEF SizesOf
  <2>2. CASE row[1] # 0
    <3>1. row[1] \in Nat /\ row[1] > 0
      BY <1>3, <2>2
    <3>2. IsSize(Num(row[1]))
      BY <3>1 DEF IsSize, Num
    <3>3. first = [replicas |-> Num(row[1])]
      BY <2>2
    <3>. QED  BY <3>2, <3>3 DEF SizesOf, SizeFields
  <2>. QED  BY <2>1, <2>2
<1>6. SizesOf(cluster, ClusterSizeFields)
  <2>1. IsSize(Num(db[1]))
    BY <1>1, <1>3 DEF IsSize, Num
  <2>2. IsSize(Str(db[2], "m")) /\ IsSize(Str(db[3], "m"))
    BY <1>3 DEF IsSize, Str
  <2>. QED  BY <2>1, <2>2 DEF SizesOf, ClusterSizeFields
<1>7. /\ {"cpuRequest", "cpuLimit", "memoryRequest", "memoryLimit"} \subseteq DOMAIN rest
      /\ {"dbCpuRequest", "dbCpuLimit"} \subseteq DOMAIN cluster
  OBVIOUS
<1>. HIDE DEF first, rest, cluster
<1>8. SizesOf(Over(first, rest), SizeFields) /\ DOMAIN rest \subseteq DOMAIN Over(first, rest)
  <2>1. DOMAIN Over(first, rest) = DOMAIN first \cup DOMAIN rest
    BY OverLeaves
  <2>2. \A f \in DOMAIN Over(first, rest) :
           Over(first, rest)[f] = IF f \in DOMAIN first THEN first[f] ELSE rest[f]
    BY DEF Over
  <2>. QED  BY <1>4, <1>5, <2>1, <2>2 DEF SizesOf
<1>. QED  BY <1>2, <1>6, <1>7, <1>8

\* What a CR asks for are sizes, of the container and of the Cluster.
LEMMA SizesOfCR ==
    ASSUME built \in Builds, NEW cr, IsCR(cr)
    PROVE  /\ DOMAIN extractSizeConfigs(cr) = {"spec", "cluster"}
           /\ SizesOf(extractSizeConfigs(cr).spec, SizeFields)
           /\ SizesOf(extractSizeConfigs(cr).cluster, ClusterSizeFields)
<1>. DEFINE profile == Template(cr.size)
            template == IF profile = "custom" THEN Nothing ELSE SizeTemplateConfig(profile)
            scaled == shrinkSize(template.spec, cr.custom, FALSE)
<1>1. profile \in Profiles \cup {"custom"}
  BY DEF Template, Profiles
<1>2. /\ DOMAIN template = {"spec", "cluster"}
      /\ SizesOf(template.spec, SizeFields) /\ SizesOf(template.cluster, ClusterSizeFields)
  <2>1. CASE profile = "custom"
    BY <2>1, NoneIsEmpty DEF Nothing, SizesOf
  <2>2. CASE profile # "custom"
    <3>1. DOMAIN SizeTemplateConfig(profile) = {"spec", "cluster"}
      BY DEF SizeTemplateConfig
    <3>. QED  BY <1>1, <2>2, <3>1, TemplateSizes
  <2>. QED  BY <2>1, <2>2
<1>3. extractSizeConfigs(cr) = [template EXCEPT !.spec = mergeSizeProfile(scaled, cr.custom)]
  BY DEF extractSizeConfigs
<1>4. DOMAIN cr.custom \subseteq SizeFields /\ \A f \in DOMAIN cr.custom : IsSize(cr.custom[f])
  BY DEF IsCR
<1>. HIDE DEF template
<1>5. /\ DOMAIN scaled \subseteq DOMAIN template.spec \cup DOMAIN cr.custom
      /\ \A f \in DOMAIN scaled \ DOMAIN cr.custom : f \in DOMAIN template.spec /\ scaled[f] = template.spec[f]
  BY DEF shrinkSize
<1>. HIDE DEF scaled
<1>6. SizesOf(Over(cr.custom, scaled), SizeFields)
  <2>1. DOMAIN Over(cr.custom, scaled) \subseteq SizeFields
    BY <1>2, <1>4, <1>5 DEF Over, SizesOf
  <2>2. ASSUME NEW f \in DOMAIN Over(cr.custom, scaled)
        PROVE  IsSize(Over(cr.custom, scaled)[f])
    <3>1. CASE f \in DOMAIN cr.custom
      BY <1>4, <3>1, OverLeaves
    <3>2. CASE f \notin DOMAIN cr.custom
      <4>1. f \in DOMAIN scaled /\ Over(cr.custom, scaled)[f] = scaled[f]
        BY <3>2 DEF Over
      <4>. QED  BY <1>2, <1>5, <3>2, <4>1 DEF SizesOf
    <3>. QED  BY <3>1, <3>2
  <2>. QED  BY <2>1, <2>2 DEF SizesOf
<1>. QED  BY <1>2, <1>3, <1>6 DEF mergeSizeProfile

\* A CR at the largest size is the same CR but for its size.
LEMMA AtLargestSizeIsCR ==
    ASSUME NEW cr, IsCR(cr)
    PROVE  /\ IsCR(AtLargestSize(cr))
           /\ AtLargestSize(cr).custom = cr.custom
           /\ AtLargestSize(cr).controller = cr.controller
           /\ AtLargestSize(cr).strategy = cr.strategy
           /\ AtLargestSize(cr).source = cr.source
           /\ AtLargestSize(cr).autoScale = cr.autoScale
BY DEF AtLargestSize, IsCR

-----------------------------------------------------------------------------
(***************************************************************************)
(* The merges                                                              *)
(***************************************************************************)

\* Part r has the sizes of the parts b and c, the larger one where both have one.
Joined(r, b, c) ==
    \A f \in ComparableFields :
        /\ f \in DOMAIN r <=> f \in DOMAIN b \cup DOMAIN c
        /\ f \in DOMAIN b \ DOMAIN c => r[f] = b[f]
        /\ f \in DOMAIN c \ DOMAIN b => r[f] = c[f]
        /\ f \in DOMAIN b \cap DOMAIN c => r[f] = Large(b[f], c[f])

\* mergeCRsIntoOperandConfig keeps every leaf and joins the sizes.
LEMMA MergeJoins ==
    ASSUME NEW b, NEW c
    PROVE  /\ DOMAIN mergeCRsIntoOperandConfig(b, c) = DOMAIN b \cup DOMAIN c
           /\ Joined(mergeCRsIntoOperandConfig(b, c), b, c)
BY DEF mergeCRsIntoOperandConfig, Joined

\* mergeResourceArrays adds at most the cleared cpu limit, keeps pg_basebackup,
\* and drops initdb where it merges with it.
LEMMA ArraysLeaves ==
    ASSUME NEW b, NEW c, NEW k
    PROVE  LET r == mergeResourceArrays(b, c, k) IN
           /\ DOMAIN r \subseteq DOMAIN b \cup DOMAIN c \cup {"dbCpuLimit"}
           /\ "pg_basebackup" \in DOMAIN r <=> "pg_basebackup" \in DOMAIN b \cup DOMAIN c
           /\ b # None /\ c # None /\ "pg_basebackup" \in DOMAIN b \cup DOMAIN c
                => "initdb" \notin DOMAIN r
           /\ "pg_basebackup" \notin DOMAIN b \cup DOMAIN c /\ "initdb" \in DOMAIN b \cup DOMAIN c
                => "initdb" \in DOMAIN r
<1>. DEFINE merged == mergeCRsIntoOperandConfig(b, c)
            cleaned == IF "pg_basebackup" \in DOMAIN merged
                       THEN Without(merged, {"initdb"}) ELSE merged
<1>1. CASE b = None \/ c = None
  <2>1. mergeResourceArrays(b, c, k) = Over(c, b)
    BY <1>1 DEF mergeResourceArrays
  <2>2. DOMAIN Over(c, b) = DOMAIN c \cup DOMAIN b
    BY DEF Over
  <2>. QED  BY <1>1, <2>1, <2>2, NoneIsEmpty
<1>2. CASE ~(b = None \/ c = None)
  <2>1. mergeResourceArrays(b, c, k) =
            IF k \in NonDefaultControllers THEN ClearCpuLimit(cleaned) ELSE cleaned
    BY <1>2 DEF mergeResourceArrays
  <2>2. DOMAIN merged = DOMAIN b \cup DOMAIN c
    BY MergeJoins
  <2>3. DOMAIN Without(merged, {"initdb"}) = DOMAIN merged \ {"initdb"}
    BY DEF Without
  <2>. HIDE DEF merged
  <2>4. DOMAIN cleaned = IF "pg_basebackup" \in DOMAIN merged THEN DOMAIN merged \ {"initdb"} ELSE DOMAIN merged
    BY <2>3
  <2>. HIDE DEF cleaned
  <2>5. DOMAIN [dbCpuLimit |-> EmptyStruct] = {"dbCpuLimit"}
    OBVIOUS
  <2>6. DOMAIN ClearCpuLimit(cleaned) \in {DOMAIN cleaned, DOMAIN cleaned \cup {"dbCpuLimit"}}
    BY <2>5 DEF ClearCpuLimit, Over
  <2>7. DOMAIN mergeResourceArrays(b, c, k) \in {DOMAIN cleaned, DOMAIN cleaned \cup {"dbCpuLimit"}}
    BY <2>1, <2>6
  <2>. QED  BY <2>2, <2>4, <2>7
<1>. QED  BY <1>1, <1>2

\* With the default controller it joins the sizes.
LEMMA ArraysJoin ==
    ASSUME NEW b, NEW c, NEW k, k \notin NonDefaultControllers
    PROVE  Joined(mergeResourceArrays(b, c, k), b, c)
<1>. DEFINE merged == mergeCRsIntoOperandConfig(b, c)
<1>1. CASE b = None \/ c = None
  <2>1. mergeResourceArrays(b, c, k) = Over(c, b)
    BY <1>1 DEF mergeResourceArrays
  <2>2. /\ DOMAIN Over(c, b) = DOMAIN c \cup DOMAIN b
        /\ \A f \in DOMAIN c \cup DOMAIN b : Over(c, b)[f] = IF f \in DOMAIN c THEN c[f] ELSE b[f]
    BY DEF Over
  <2>. QED  BY <1>1, <2>1, <2>2, NoneIsEmpty DEF Joined
<1>2. CASE ~(b = None \/ c = None)
  <2>1. mergeResourceArrays(b, c, k) \in {merged, Without(merged, {"initdb"})}
    BY <1>2 DEF mergeResourceArrays
  <2>2. Joined(merged, b, c)
    BY MergeJoins
  <2>. HIDE DEF merged
  <2>3. "initdb" \notin ComparableFields
    BY DEF ComparableFields, SizeFields, ClusterSizeFields
  <2>4. \A f \in ComparableFields :
           /\ f \in DOMAIN Without(merged, {"initdb"}) <=> f \in DOMAIN merged
           /\ f \in DOMAIN merged => Without(merged, {"initdb"})[f] = merged[f]
    BY <2>3 DEF Without
  <2>5. Joined(Without(merged, {"initdb"}), b, c)
    BY <2>2, <2>4 DEF Joined
  <2>. QED  BY <2>1, <2>2, <2>5
<1>. QED  BY <1>1, <1>2

\* shrinkSize keeps the leaves of the default side, compares the common ones
\* and may add leaves of the changed side.
LEMMA ShrinkLeaves ==
    ASSUME NEW b, NEW c, NEW isResource
    PROVE  LET r == shrinkSize(b, c, isResource) IN
           /\ DOMAIN b \subseteq DOMAIN r /\ DOMAIN r \subseteq DOMAIN b \cup DOMAIN c
           /\ \A f \in DOMAIN r :
                 /\ f \notin DOMAIN c => r[f] = b[f]
                 /\ f \notin DOMAIN b => r[f] = c[f]
                 /\ f \in DOMAIN b \cap DOMAIN c => r[f] = Large(b[f], c[f])
BY DEF shrinkSize

-----------------------------------------------------------------------------
(***************************************************************************)
(* Type correctness                                                        *)
(***************************************************************************)

\* The CRs and the build of a behaviour are those of a case.
Inputs ==
    /\ built \in Builds
    /\ Len(crs) \in Nat /\ DOMAIN crs = 1..Len(crs)
    /\ \A i \in DOMAIN crs : IsCR(crs[i])

SpecLeaves == SizeFields \cup {"autoScaleConfig"}
ClusterLeaves == ClusterSizeFields \cup {"source", "initdb", "pg_basebackup", "absent"}

\* Each leaf is in the part it belongs to.
IsParts(s) ==
    /\ DOMAIN s = {"spec", "cluster"}
    /\ DOMAIN s.spec \subseteq SpecLeaves
    /\ DOMAIN s.cluster \subseteq ClusterLeaves

\* The inductive invariant behind TypeOK.
TypeInv ==
    /\ Inputs
    /\ pc \in {"build", "apply", "install", "update", "summarize", "done", "failed"}
    /\ next \in 1..(Len(crs) + 1)
    /\ pc \notin {"build", "apply"} => next = Len(crs) + 1
    /\ todo \subseteq DOMAIN crs
    /\ IsParts(desired)
    /\ IsParts(summary)
    /\ IsParts(opcon)
    /\ DOMAIN mapping \subseteq {"profileController", "ibm-im-operator"}

\* One item merged into the summary leaves each leaf in its part.
LEMMA MergeParts ==
    ASSUME NEW m, NEW sum, NEW item, IsParts(sum), IsParts(item)
    PROVE  IsParts(mergeCSCR(m, sum, item))
<1>. DEFINE reset == ControllerOf(m, "ibm-im-operator") \in NonDefaultControllers
            spec == IF reset THEN resetResourceInTemplate(item.spec) ELSE item.spec
            cluster == mergeResourceArrays(sum.cluster, item.cluster,
                                           ControllerOf(m, "common-service-cnpg"))
<1>1. mergeCSCR(m, sum, item) =
          [spec |-> mergeCRsIntoOperandConfig(sum.spec, spec), cluster |-> cluster]
  BY DEF mergeCSCR
<1>2. DOMAIN spec \subseteq DOMAIN item.spec
  BY DEF resetResourceInTemplate, Without
<1>. HIDE DEF spec
<1>3. DOMAIN mergeCRsIntoOperandConfig(sum.spec, spec) \subseteq SpecLeaves
  <2>1. DOMAIN mergeCRsIntoOperandConfig(sum.spec, spec) = DOMAIN sum.spec \cup DOMAIN spec
    BY MergeJoins
  <2>. QED  BY <1>2, <2>1 DEF IsParts
<1>4. DOMAIN cluster \subseteq DOMAIN sum.cluster \cup DOMAIN item.cluster \cup {"dbCpuLimit"}
  BY ArraysLeaves
<1>. HIDE DEF cluster
<1>5. DOMAIN cluster \subseteq ClusterLeaves
  BY <1>4 DEF IsParts, ClusterLeaves, ClusterSizeFields
<1>. QED  BY <1>1, <1>3, <1>5 DEF IsParts

\* The features of a CR: autoScaleConfig, and a replica's bootstrap if it has one.
LEMMA FeaturesOfCR ==
    ASSUME NEW cr
    PROVE  LET e == extractFeatureConfigs(cr) IN
           /\ IsParts(e)
           /\ DOMAIN e.spec = IF cr.autoScale = "" THEN {} ELSE {"autoScaleConfig"}
           /\ DOMAIN e.cluster = IF cr.source = "" THEN {} ELSE {"source", "pg_basebackup"}
<1>. DEFINE spec == IF cr.autoScale = "" THEN None
                    ELSE [autoScaleConfig |-> Bool(cr.autoScale = "true")]
<1>1. extractFeatureConfigs(cr) = [spec |-> spec, cluster |-> ReplicaConfig(cr.source)]
  BY DEF extractFeatureConfigs
<1>2. DOMAIN spec = IF cr.autoScale = "" THEN {} ELSE {"autoScaleConfig"}
  BY NoneIsEmpty
<1>3. DOMAIN ReplicaConfig(cr.source) = IF cr.source = "" THEN {} ELSE {"source", "pg_basebackup"}
  BY NoneIsEmpty DEF ReplicaConfig
<1>. HIDE DEF spec
<1>4. DOMAIN spec \subseteq SpecLeaves
  BY <1>2 DEF SpecLeaves
<1>5. DOMAIN ReplicaConfig(cr.source) \subseteq ClusterLeaves
  BY <1>3 DEF ClusterLeaves
<1>6. IsParts([spec |-> spec, cluster |-> ReplicaConfig(cr.source)])
  BY <1>4, <1>5 DEF IsParts
<1>7. /\ extractFeatureConfigs(cr).spec = spec
      /\ extractFeatureConfigs(cr).cluster = ReplicaConfig(cr.source)
  BY <1>1
<1>8. IsParts(extractFeatureConfigs(cr))
  BY <1>1, <1>6
<1>. QED  BY <1>2, <1>3, <1>7, <1>8

\* ... and its sizes.
LEMMA SizeParts ==
    ASSUME built \in Builds, NEW cr, IsCR(cr)
    PROVE  IsParts(extractSizeConfigs(cr))
BY SizesOfCR DEF IsParts, SizesOf, SpecLeaves, ClusterLeaves

\* The whole configuration of a CR merged into a summary.
LEMMA SummaryParts ==
    ASSUME built \in Builds, NEW cr, IsCR(cr), NEW sum, IsParts(sum), NEW m
    PROVE  IsParts(mergeCSCRs(sum, cr, m))
<1>1. IsParts(extractFeatureConfigs(cr)) /\ IsParts(extractSizeConfigs(cr))
  BY FeaturesOfCR, SizeParts
<1>2. IsParts(mergeCSCR(m, sum, extractFeatureConfigs(cr)))
  BY <1>1, MergeParts
<1>. QED  BY <1>1, <1>2, MergeParts DEF mergeCSCRs

\* The constant services.
LEMMA ConstantParts == IsParts(Nothing) /\ IsParts(Absent) /\ IsParts(BaseServices)
<1>1. IsParts(Nothing)
  BY NoneIsEmpty DEF IsParts, Nothing
<1>2. IsParts(Absent)
  BY NoneIsEmpty DEF IsParts, Absent, ClusterLeaves
<1>3. IsParts(BaseServices)
  BY NoneIsEmpty DEF IsParts, BaseServices, ClusterLeaves
<1>. QED  BY <1>1, <1>2, <1>3

\* The features of all CRs.
LEMMA FeatureLayerParts == IsParts(FeatureLayer)
<1>1. IsParts(extractFeatureConfigs(CollectedFeatures))
  BY FeaturesOfCR
<1>2. IsParts(mergeCSCR(None, Nothing, extractFeatureConfigs(CollectedFeatures)))
  BY <1>1, ConstantParts, MergeParts
<1>. QED  BY <1>2, ConstantParts DEF FeatureLayer

\* What is left of an existing OperandConfig are fields of its spec.
LEMMA ExistingParts ==
    ASSUME NEW old, IsParts(old), NEW new, IsParts(new)
    PROVE  IsParts(MergeWithExisting(old, new))
<1>1. DOMAIN Over(new.spec, old.spec) \subseteq SpecLeaves
  BY DEF IsParts, Over
<1>. QED  BY <1>1 DEF IsParts, MergeWithExisting

\* The controllers of a CR.
LEMMA ControllersOfCR ==
    ASSUME NEW cr
    PROVE  LET s == serviceControllerMapping(cr) IN
           /\ DOMAIN s = {"profileController"}
                           \cup (IF cr.strategy = "" THEN {} ELSE {"ibm-im-operator"})
           /\ s["profileController"] = IF cr.controller = "" THEN "default" ELSE cr.controller
           /\ cr.strategy # "" => s["ibm-im-operator"] = cr.strategy
BY DEF serviceControllerMapping, Over

\* getExtremeizes takes its leaves from the desired services and the summary.
LEMMA ExtremeizesParts ==
    ASSUME IsParts(desired), IsParts(summary)
    PROVE  IsParts(getExtremeizes)
<1>. DEFINE own == ControllerOf(mapping, "ibm-im-operator") \in NonDefaultControllers
            spec == IF own THEN resetResourceInTemplate(desired.spec) ELSE desired.spec
            clear == ControllerOf(mapping, "common-service-cnpg") \in NonDefaultControllers
            sumCluster == IF clear THEN ClearCpuLimit(summary.cluster) ELSE summary.cluster
            a == IF desired.spec = None THEN None ELSE shrinkSize(spec, summary.spec, FALSE)
            b == IF desired.cluster = None THEN None
                 ELSE shrinkSize(desired.cluster, sumCluster, TRUE)
<1>1. getExtremeizes = [spec |-> a, cluster |-> b]
  BY DEF getExtremeizes
<1>2. DOMAIN spec \subseteq DOMAIN desired.spec
  BY DEF resetResourceInTemplate, Without
<1>3. DOMAIN sumCluster \subseteq DOMAIN summary.cluster \cup {"dbCpuLimit"}
  <2>1. DOMAIN [dbCpuLimit |-> EmptyStruct] = {"dbCpuLimit"}
    OBVIOUS
  <2>. QED  BY <2>1 DEF ClearCpuLimit, Over
<1>. HIDE DEF spec, sumCluster
<1>4. DOMAIN shrinkSize(spec, summary.spec, FALSE) \subseteq SpecLeaves
  BY <1>2, ShrinkLeaves DEF IsParts
<1>5. DOMAIN shrinkSize(desired.cluster, sumCluster, TRUE)
          \subseteq DOMAIN desired.cluster \cup DOMAIN sumCluster
  BY ShrinkLeaves
<1>6. DOMAIN shrinkSize(desired.cluster, sumCluster, TRUE) \subseteq ClusterLeaves
  BY <1>3, <1>5 DEF IsParts, ClusterLeaves, ClusterSizeFields
<1>7. DOMAIN a \subseteq SpecLeaves /\ DOMAIN b \subseteq ClusterLeaves
  BY <1>4, <1>6, NoneIsEmpty
<1>. HIDE DEF a, b
<1>. QED  BY <1>1, <1>7 DEF IsParts

\* ... and the base template adds initdb.
LEMMA FinalParts ==
    ASSUME NEW e, IsParts(e)
    PROVE  IsParts(mergeServicesWithBase(BaseServices, e))
<1>. DEFINE a == mergeCRsIntoOperandConfig(BaseServices.spec, e.spec)
            b == mergeResourceArrays(BaseServices.cluster, e.cluster, "default")
<1>1. mergeServicesWithBase(BaseServices, e) = [spec |-> a, cluster |-> b]
  BY DEF mergeServicesWithBase
<1>2. DOMAIN a \subseteq SpecLeaves
  <2>1. DOMAIN a = DOMAIN BaseServices.spec \cup DOMAIN e.spec
    BY MergeJoins
  <2>. HIDE DEF a
  <2>. QED  BY <2>1, ConstantParts DEF IsParts
<1>3. DOMAIN b \subseteq DOMAIN BaseServices.cluster \cup DOMAIN e.cluster \cup {"dbCpuLimit"}
  BY ArraysLeaves
<1>. HIDE DEF a, b
<1>4. DOMAIN b \subseteq ClusterLeaves
  BY <1>3, ConstantParts DEF IsParts, ClusterLeaves, ClusterSizeFields
<1>. QED  BY <1>1, <1>2, <1>4 DEF IsParts

\* The CRs and the build stay as they are within a reconcile.
LEMMA InputsStay == [Next]_vars /\ ~NextRound => UNCHANGED <<crs, built>>
BY DEF Next, vars, BuildDesired, ApplyCR, DesiredBuilt, InstallOrUpdateOpcon, InstallFromMaster,
       StartUpdate, SummarizeNext, UpdateServices

\* Between two reconciles they may become those of another case.
LEMMA InputsChange == Inputs /\ NextRound => Inputs'
<1>. SUFFICES ASSUME Inputs, NextRound
              PROVE  Inputs'
  OBVIOUS
<1>1. built' = built /\ (crs' = crs \/ \E c \in LaterCases : crs' = c[1])
  BY DEF NextRound
<1>2. CASE crs' = crs
  BY <1>1, <1>2 DEF Inputs
<1>3. ASSUME NEW c \in LaterCases, crs' = c[1]
      PROVE  Inputs'
  <2>1. c \in Cases
    BY LaterCasesAssumption
  <2>. QED  BY <1>1, <1>3, <2>1, CasesAssumption DEF Inputs
<1>. QED  BY <1>1, <1>2, <1>3

\* The steps of one action, each on its own.
LEMMA NextSteps ==
    Next <=> \/ BuildDesired \/ ApplyCR \/ DesiredBuilt \/ InstallOrUpdateOpcon
             \/ \E i \in DOMAIN crs : InstallFromMaster(i)
             \/ StartUpdate
             \/ \E i \in todo : SummarizeNext(i)
             \/ UpdateServices \/ NextRound
BY DEF Next

\* Every step keeps the type invariant.
LEMMA TypeInvStep == TypeInv /\ [Next]_vars => TypeInv'
<1>. SUFFICES ASSUME TypeInv, [Next]_vars
              PROVE  TypeInv'
  OBVIOUS
<1>. USE DEF TypeInv
<1>0. CASE NextRound
  <2>1. Inputs'
    BY <1>0, InputsChange
  <2>2. 1 \in 1..(Len(crs') + 1)
    BY <2>1 DEF Inputs
  <2>3. IsParts(desired') /\ IsParts(summary') /\ IsParts(opcon')
    BY <1>0, ConstantParts DEF NextRound
  <2>4. DOMAIN mapping' = {}
    BY <1>0, NoneIsEmpty DEF NextRound
  <2>. QED  BY <1>0, <2>1, <2>2, <2>3, <2>4 DEF NextRound
<1>. SUFFICES ASSUME ~NextRound
              PROVE  TypeInv'
  BY <1>0
<1>1. Inputs' /\ crs' = crs /\ built' = built
  BY InputsStay DEF Inputs
<1>2. CASE BuildDesired
  <2>1. IsParts(desired')
    BY <1>2, FeatureLayerParts DEF BuildDesired
  <2>2. DOMAIN mapping' = {}
    BY <1>2, NoneIsEmpty DEF BuildDesired
  <2>3. 1 \in 1..(Len(crs) + 1)
    BY DEF Inputs
  <2>. QED  BY <1>1, <1>2, <2>1, <2>2, <2>3 DEF BuildDesired
<1>3. CASE ApplyCR
  <2>1. next \in DOMAIN crs /\ next + 1 \in 1..(Len(crs) + 1)
    BY <1>3 DEF ApplyCR, Inputs
  <2>2. IsParts(extractSizeConfigs(crs[next]))
    BY <2>1, SizeParts DEF Inputs
  <2>3. PICK m : m = mapping'
    OBVIOUS
  <2>4. IsParts(mergeCSCR(m, desired, extractSizeConfigs(crs[next])))
    BY <2>2, MergeParts
  <2>5. IsParts(desired')
    BY <1>3, <2>3, <2>4 DEF ApplyCR
  <2>6. DOMAIN serviceControllerMapping(crs[next]) \subseteq {"profileController", "ibm-im-operator"}
    BY ControllersOfCR
  <2>7. DOMAIN mapping' \subseteq {"profileController", "ibm-im-operator"}
    BY <1>3, <2>6 DEF ApplyCR, mergeProfileController
  <2>. QED  BY <1>1, <1>3, <2>1, <2>5, <2>7 DEF ApplyCR
<1>4. CASE DesiredBuilt
  <2>1. next = Len(crs) + 1
    BY <1>4 DEF DesiredBuilt, Inputs
  <2>. QED  BY <1>1, <1>4, <2>1 DEF DesiredBuilt
<1>5. CASE InstallOrUpdateOpcon
  <2>1. IsParts(mergeCSCR(mapping, BaseServices, desired))
    BY MergeParts, ConstantParts
  <2>2. IsParts(opcon')
    BY <1>5, <2>1, ExistingParts DEF InstallOrUpdateOpcon
  <2>. QED  BY <1>1, <1>5, <2>2 DEF InstallOrUpdateOpcon
<1>6. ASSUME NEW i \in DOMAIN crs, InstallFromMaster(i)
      PROVE  TypeInv'
  <2>. DEFINE cr == AtLargestSize(crs[i])
              merged == mergeCSCRs(BaseServices, cr, serviceControllerMapping(cr))
  <2>1. IsCR(cr)
    BY AtLargestSizeIsCR DEF Inputs
  <2>2. IsParts(merged)
    BY <2>1, SummaryParts, ConstantParts DEF Inputs
  <2>3. IsParts(MergeWithExisting(opcon, merged))
    BY <2>2, ExistingParts
  <2>4. opcon' = opcon \/ opcon' = MergeWithExisting(opcon, merged)
    BY <1>6 DEF InstallFromMaster
  <2>. HIDE DEF merged
  <2>5. IsParts(opcon')
    BY <2>3, <2>4
  <2>. QED  BY <1>1, <1>6, <2>5 DEF InstallFromMaster
<1>7. CASE StartUpdate
  <2>1. IsParts(summary')
    BY <1>7, ConstantParts DEF StartUpdate
  <2>2. pc' \in {"failed", "summarize"}
    BY <1>7 DEF StartUpdate
  <2>. QED  BY <1>1, <1>7, <2>1, <2>2 DEF StartUpdate
<1>8. ASSUME NEW i \in todo, SummarizeNext(i)
      PROVE  TypeInv'
  <2>1. i \in DOMAIN crs /\ IsCR(AtLargestSize(crs[i]))
    BY AtLargestSizeIsCR DEF Inputs
  <2>2. IsParts(summary')
    BY <1>8, <2>1, SummaryParts DEF SummarizeNext, Inputs
  <2>. QED  BY <1>1, <1>8, <2>2 DEF SummarizeNext
<1>9. CASE UpdateServices
  <2>1. IsParts(opcon')
    BY <1>9, ExtremeizesParts, FinalParts DEF UpdateServices
  <2>. QED  BY <1>1, <1>9, <2>1 DEF UpdateServices
<1>10. CASE UNCHANGED vars
  BY <1>1, <1>10 DEF vars
<1>. QED  BY <1>2, <1>3, <1>4, <1>5, <1>6, <1>7, <1>8, <1>9, <1>10, NextSteps

\* The initial states are cases.
LEMMA TypeInvInit == Init => TypeInv
<1>. SUFFICES ASSUME Init
              PROVE  TypeInv
  OBVIOUS
<1>1. Inputs
  BY CasesAssumption DEF Init, Inputs, Builds
<1>2. 1 \in 1..(Len(crs) + 1)
  BY <1>1 DEF Inputs
<1>3. IsParts(desired) /\ IsParts(summary) /\ IsParts(opcon)
  BY ConstantParts DEF Init
<1>4. DOMAIN mapping = {}
  BY NoneIsEmpty DEF Init
<1>. QED  BY <1>1, <1>2, <1>3, <1>4 DEF Init, TypeInv

\* The type invariant holds throughout.
LEMMA TypeThroughout == Spec => []TypeInv
BY TypeInvInit, TypeInvStep, PTL DEF Spec

\* In every state of a reconcile, for CRs of any number, size and content, the
\* services are made of known leaves, each loop over the CRs stays within the
\* list, and only the im service has a controller of its own.
THEOREM TypeCorrect == Spec => []TypeOK
<1>1. TypeInv => TypeOK
  <2>. SUFFICES ASSUME TypeInv
                PROVE  TypeOK
    OBVIOUS
  <2>1. ASSUME NEW s, IsParts(s)
        PROVE  IsServices(s)
    BY <2>1 DEF IsParts, IsServices, SpecLeaves, ClusterLeaves, Leaves
  <2>. QED  BY <2>1 DEF TypeInv, TypeOK
<1>. QED  BY <1>1, TypeThroughout, PTL

-----------------------------------------------------------------------------
(***************************************************************************)
(* The profile controllers                                                 *)
(***************************************************************************)

\* The mapping after the first next - 1 CRs: the first controller of each kind,
\* or the first that is not the default one.
MapInv ==
    LET seen == 1..(next - 1) IN
    /\ "profileController" \in DOMAIN mapping <=> seen # {}
    /\ "ibm-im-operator" \in DOMAIN mapping <=> \E i \in seen : crs[i].strategy # ""
    /\ "profileController" \in DOMAIN mapping =>
          (mapping["profileController"] \in NonDefaultControllers
             <=> \E i \in seen : crs[i].controller \in NonDefaultControllers)
    /\ "ibm-im-operator" \in DOMAIN mapping =>
          (mapping["ibm-im-operator"] \in NonDefaultControllers
             <=> \E i \in seen : crs[i].strategy \in NonDefaultControllers)

\* No CR names another controller.
AllDefault ==
    \A i \in DOMAIN crs : /\ crs[i].controller \notin NonDefaultControllers
                          /\ crs[i].strategy \notin NonDefaultControllers

\* What mergeProfileController does to one key.
LEMMA MergedController ==
    ASSUME NEW sum, NEW m, NEW k
    PROVE  LET r == mergeProfileController(sum, m) IN
           /\ k \in DOMAIN r <=> k \in DOMAIN sum \cup DOMAIN m
           /\ k \in DOMAIN sum /\ k \notin DOMAIN m => r[k] = sum[k]
           /\ k \in DOMAIN m /\ k \notin DOMAIN sum => r[k] = m[k]
           /\ k \in DOMAIN sum \cap DOMAIN m =>
                 (r[k] \in NonDefaultControllers
                    <=> sum[k] \in NonDefaultControllers \/ m[k] \in NonDefaultControllers)
BY DEF mergeProfileController

\* The mapping stays the one of the CRs that PASS 3 has seen.
LEMMA MapInvStep == TypeInv /\ MapInv /\ [Next]_vars => MapInv'
<1>. SUFFICES ASSUME TypeInv, MapInv, [Next]_vars
              PROVE  MapInv'
  OBVIOUS
<1>2. CASE BuildDesired \/ NextRound
  <2>1. DOMAIN mapping' = {} /\ next' = 1
    BY <1>2, NoneIsEmpty DEF BuildDesired, NextRound
  <2>2. 1..(next' - 1) = {}
    BY <2>1
  <2>. QED  BY <2>1, <2>2 DEF MapInv
<1>. SUFFICES ASSUME ~NextRound
              PROVE  MapInv'
  BY <1>2
<1>1. crs' = crs
  BY InputsStay
<1>3. CASE ApplyCR
  <2>. DEFINE cr == crs[next]
              m == serviceControllerMapping(cr)
              r == mergeProfileController(mapping, m)
              seen == 1..(next - 1)
  <2>1. next \in DOMAIN crs /\ next \in Nat \ {0}
    BY <1>3 DEF ApplyCR, TypeInv, Inputs
  <2>2. 1..(next' - 1) = seen \cup {next}
    BY <1>3, <2>1 DEF ApplyCR
  <2>3. mapping' = r
    BY <1>3 DEF ApplyCR
  <2>4. /\ "profileController" \in DOMAIN m
        /\ m["profileController"] \in NonDefaultControllers <=> cr.controller \in NonDefaultControllers
        /\ "ibm-im-operator" \in DOMAIN m <=> cr.strategy # ""
        /\ cr.strategy # "" => m["ibm-im-operator"] = cr.strategy
        /\ cr.strategy = "" => cr.strategy \notin NonDefaultControllers
    <3>1. /\ DOMAIN m = {"profileController"}
                           \cup (IF cr.strategy = "" THEN {} ELSE {"ibm-im-operator"})
          /\ m["profileController"] = IF cr.controller = "" THEN "default" ELSE cr.controller
          /\ cr.strategy # "" => m["ibm-im-operator"] = cr.strategy
      BY ControllersOfCR
    <3>2. "" \notin NonDefaultControllers /\ "default" \notin NonDefaultControllers
      BY DEF NonDefaultControllers
    <3>. HIDE DEF m, cr
    <3>3. "profileController" \in DOMAIN m /\ ("ibm-im-operator" \in DOMAIN m <=> cr.strategy # "")
      BY <3>1
    <3>. QED  BY <3>1, <3>2, <3>3
  <2>. HIDE DEF m
  <2>5. LET k == "profileController" IN
        /\ k \in DOMAIN r
        /\ r[k] \in NonDefaultControllers
             <=> \E i \in seen \cup {next} : crs[i].controller \in NonDefaultControllers
    <3>1. CASE "profileController" \in DOMAIN mapping
      BY <2>4, <3>1, MergedController DEF MapInv
    <3>2. CASE "profileController" \notin DOMAIN mapping
      <4>1. seen = {}
        BY <3>2 DEF MapInv
      <4>. QED  BY <2>4, <3>2, <4>1, MergedController
    <3>. QED  BY <3>1, <3>2
  <2>6. LET k == "ibm-im-operator" IN
        k \in DOMAIN r <=> \E i \in seen \cup {next} : crs[i].strategy # ""
    BY <2>4, MergedController DEF MapInv
  <2>7. "ibm-im-operator" \in DOMAIN r =>
            (r["ibm-im-operator"] \in NonDefaultControllers
               <=> \E i \in seen \cup {next} : crs[i].strategy \in NonDefaultControllers)
    <3>. DEFINE k == "ibm-im-operator"
                before == \E i \in seen : crs[i].strategy \in NonDefaultControllers
                now == cr.strategy \in NonDefaultControllers
    <3>1. /\ k \in DOMAIN r <=> k \in DOMAIN mapping \cup DOMAIN m
          /\ k \in DOMAIN mapping /\ k \notin DOMAIN m => r[k] = mapping[k]
          /\ k \in DOMAIN m /\ k \notin DOMAIN mapping => r[k] = m[k]
          /\ k \in DOMAIN mapping \cap DOMAIN m =>
                 (r[k] \in NonDefaultControllers
                    <=> mapping[k] \in NonDefaultControllers \/ m[k] \in NonDefaultControllers)
      BY MergedController
    <3>2. k \in DOMAIN mapping => (mapping[k] \in NonDefaultControllers <=> before)
      BY DEF MapInv
    <3>3. k \notin DOMAIN mapping => ~before
      <4>1. k \notin DOMAIN mapping => \A i \in seen : crs[i].strategy = ""
        BY DEF MapInv
      <4>. QED  BY <4>1 DEF NonDefaultControllers
    <3>4. (\E i \in seen \cup {next} : crs[i].strategy \in NonDefaultControllers) <=> before \/ now
      OBVIOUS
    <3>5. (k \in DOMAIN m => m[k] = cr.strategy) /\ (k \notin DOMAIN m => ~now)
      BY <2>4
    <3>. HIDE DEF k, r, before, now
    <3>6. k \in DOMAIN r => (r[k] \in NonDefaultControllers <=> before \/ now)
      <4>1. k \in DOMAIN m => (m[k] \in NonDefaultControllers <=> now)
        BY <3>5 DEF now
      <4>. QED  BY <3>1, <3>2, <3>3, <3>5, <4>1
    <3>. QED  BY <3>4, <3>6 DEF k
  <2>. HIDE DEF r
  <2>8. seen \cup {next} # {}
    OBVIOUS
  <2>. HIDE DEF seen
  <2>. QED  BY <1>1, <2>2, <2>3, <2>5, <2>6, <2>7, <2>8 DEF MapInv
<1>4. CASE UNCHANGED <<next, mapping>>
  BY <1>1, <1>4 DEF MapInv
<1>. QED
  BY <1>2, <1>3, <1>4, NextSteps
  DEF vars, DesiredBuilt, InstallOrUpdateOpcon, InstallFromMaster, StartUpdate, SummarizeNext,
      UpdateServices

\* The complete mapping gives the im service to the controller the CRs say.
LEMMA MappingOwned ==
    ASSUME TypeInv, MapInv, next = Len(crs) + 1
    PROVE  (ControllerOf(mapping, "ibm-im-operator") \in NonDefaultControllers) <=> Owned
<1>1. 1..(next - 1) = DOMAIN crs
  BY DEF TypeInv, Inputs
<1>2. "" \notin NonDefaultControllers
  BY DEF NonDefaultControllers
<1>. QED  BY <1>1, <1>2 DEF MapInv, Owned, ControllerOf

\* At any time: without another controller in the CRs there is none in the mapping.
LEMMA MappingDefault ==
    ASSUME TypeInv, MapInv, AllDefault, NEW s
    PROVE  s \in {"ibm-im-operator", "common-service-cnpg"}
             => ControllerOf(mapping, s) \notin NonDefaultControllers
<1>1. 1..(next - 1) \subseteq DOMAIN crs
  BY DEF TypeInv, Inputs
<1>2. "" \notin NonDefaultControllers
  BY DEF NonDefaultControllers
<1>3. "common-service-cnpg" \notin DOMAIN mapping
  BY DEF TypeInv
<1>4. /\ "ibm-im-operator" \in DOMAIN mapping => mapping["ibm-im-operator"] \notin NonDefaultControllers
      /\ "profileController" \in DOMAIN mapping => mapping["profileController"] \notin NonDefaultControllers
  BY <1>1 DEF MapInv, AllDefault
<1>. QED  BY <1>2, <1>3, <1>4 DEF ControllerOf

\* ... and the complete mapping has none only if no CR has one.
LEMMA DefaultMapping ==
    ASSUME TypeInv, MapInv, next = Len(crs) + 1, DefaultControllers
    PROVE  AllDefault
<1>1. 1..(next - 1) = DOMAIN crs
  BY DEF TypeInv, Inputs
<1>2. "common-service-cnpg" \notin DOMAIN mapping
  BY DEF TypeInv
<1>3. "profileController" \in DOMAIN mapping => mapping["profileController"] \notin NonDefaultControllers
  BY <1>2 DEF DefaultControllers, ControllerOf
<1>4. "ibm-im-operator" \in DOMAIN mapping => mapping["ibm-im-operator"] \notin NonDefaultControllers
  BY DEF DefaultControllers, ControllerOf
<1>5. ASSUME NEW i \in DOMAIN crs
      PROVE  crs[i].controller \notin NonDefaultControllers
  BY <1>1, <1>3 DEF MapInv
<1>6. ASSUME NEW i \in DOMAIN crs
      PROVE  crs[i].strategy \notin NonDefaultControllers
  <2>1. CASE crs[i].strategy = ""
    BY <2>1 DEF NonDefaultControllers
  <2>2. CASE crs[i].strategy # ""
    BY <1>1, <1>4, <2>2 DEF MapInv
  <2>. QED  BY <2>1, <2>2
<1>. QED  BY <1>5, <1>6 DEF AllDefault

-----------------------------------------------------------------------------
(***************************************************************************)
(* Sizes that belong to another controller                                 *)
(***************************************************************************)

\* updateOperandConfig refuses no CR.
NoneFails == \A i \in DOMAIN crs : ~ExtractFails(crs[i])

Replicates == \E i \in DOMAIN crs : crs[i].source # ""

\* A reconcile comes to its summary only if every CR can be extracted, and then
\* the features of all CRs are in the desired services.
BootInv ==
    /\ pc \in {"summarize", "done"} => NoneFails
    /\ NoneFails /\ pc # "build" => "autoScaleConfig" \in DOMAIN desired.spec

\* Neither the summary nor the OperandConfig of a complete reconcile sizes an im
\* service that another controller owns; before, the OperandConfig may.
OwnInv ==
    /\ Owned /\ pc = "summarize" => DOMAIN summary.spec \cap SizeFields = {}
    /\ Owned /\ pc = "done" => DOMAIN opcon.spec \cap SizeFields = {}

\* What one merge does to the leaves of the spec.
LEMMA SpecLeavesOfMerge ==
    ASSUME NEW m, NEW sum, NEW item
    PROVE  LET r == mergeCSCR(m, sum, item) IN
           /\ DOMAIN r.spec \subseteq DOMAIN sum.spec \cup DOMAIN item.spec
           /\ DOMAIN sum.spec \subseteq DOMAIN r.spec
           /\ "autoScaleConfig" \in DOMAIN item.spec => "autoScaleConfig" \in DOMAIN r.spec
           /\ ControllerOf(m, "ibm-im-operator") \in NonDefaultControllers
                => DOMAIN r.spec \cap SizeFields \subseteq DOMAIN sum.spec
<1>. DEFINE reset == ControllerOf(m, "ibm-im-operator") \in NonDefaultControllers
            spec == IF reset THEN resetResourceInTemplate(item.spec) ELSE item.spec
<1>1. mergeCSCR(m, sum, item).spec = mergeCRsIntoOperandConfig(sum.spec, spec)
  BY DEF mergeCSCR
<1>2. "autoScaleConfig" \notin SizeFields
  BY DEF SizeFields
<1>3. DOMAIN resetResourceInTemplate(item.spec) = DOMAIN item.spec \ SizeFields
  BY DEF resetResourceInTemplate, Without
<1>4. DOMAIN spec = IF reset THEN DOMAIN item.spec \ SizeFields ELSE DOMAIN item.spec
  BY <1>3
<1>. HIDE DEF spec
<1>5. DOMAIN mergeCRsIntoOperandConfig(sum.spec, spec) = DOMAIN sum.spec \cup DOMAIN spec
  BY MergeJoins
<1>. QED  BY <1>1, <1>2, <1>4, <1>5

\* PASS 1 and 2 give every service autoScaleConfig if no CR is incomplete.
LEMMA CollectedNotBad ==
    ASSUME Inputs, NoneFails
    PROVE  /\ ~ExtractFails(CollectedFeatures)
           /\ CollectedFeatures.source # "" <=> Replicates
           /\ CollectedFeatures.autoScale # ""
<1>. DEFINE s == [i \in DOMAIN crs |-> crs[i].source]
            T == {i \in DOMAIN crs : crs[i].source # ""}
<1>1. CollectedFeatures.source = FirstNonEmpty(s, "") /\ CollectedFeatures.autoScale # ""
  BY DEF CollectedFeatures
<1>2. CASE ~Replicates
  <2>1. FirstNonEmpty(s, "") = ""
    BY <1>2 DEF FirstNonEmpty, Replicates
  <2>. HIDE DEF s
  <2>2. CollectedFeatures.source = ""
    BY <1>1, <2>1
  <2>3. ~ExtractFails(CollectedFeatures)
    BY <2>2 DEF ExtractFails
  <2>. QED  BY <1>1, <1>2, <2>2, <2>3
<1>3. CASE Replicates
  <2>1. T \subseteq Nat /\ T # {}
    <3>1. DOMAIN crs \subseteq Nat
      BY DEF Inputs
    <3>2. T # {}
      BY <1>3 DEF Replicates
    <3>. QED  BY <3>1, <3>2
  <2>2. PICK t \in T : \A y \in T : ~(<<y, t>> \in OpToRel(<, Nat))
    <3>. HIDE DEF T
    <3>. QED  BY <2>1, NatLessThanWellFounded, WFMin
  <2>3. \A y \in T : ~(y < t)
    <3>. SUFFICES ASSUME NEW y \in T, y < t PROVE FALSE
      OBVIOUS
    <3>1. <<y, t>> \in OpToRel(<, Nat)
      <4>. HIDE DEF T
      <4>. QED  BY <2>1 DEF OpToRel
    <3>. QED  BY <2>2, <3>1
  <2>4. t \in DOMAIN s /\ s[t] # "" /\ \A j \in 1..(t - 1) : s[j] = ""
    <3>1. t \in 1..Len(crs) /\ Len(crs) \in Nat
      BY DEF Inputs
    <3>2. \A n \in Nat : \A j \in 1..(t - 1) : t \in 1..n => j \in 1..n /\ j < t
      <4>1. t \in Nat
        BY <2>1
      <4>. HIDE DEF T
      <4>. QED  BY <4>1
    <3>3. \A j \in 1..(t - 1) : j \in DOMAIN crs /\ j < t
      BY <3>1, <3>2 DEF Inputs
    <3>. QED  BY <2>3, <3>3
  <2>5. \E i \in DOMAIN s : s[i] # ""
    BY <2>4
  <2>6. PICK c : c = CHOOSE i \in DOMAIN s : s[i] # "" /\ \A j \in 1..(i - 1) : s[j] = ""
    OBVIOUS
  <2>7. c \in DOMAIN s /\ s[c] # ""
    BY <2>4, <2>6
  <2>8. FirstNonEmpty(s, "") = s[c]
    BY <2>5, <2>6 DEF FirstNonEmpty
  <2>9. s[c] # "bad"
    BY <2>7 DEF NoneFails, ExtractFails
  <2>. QED  BY <1>1, <1>3, <2>7, <2>8, <2>9 DEF ExtractFails
<1>. QED  BY <1>2, <1>3

\* The features reach the base layer.
LEMMA FeatureLayerLeaves ==
    ASSUME Inputs, NoneFails
    PROVE  /\ FeatureLayer = mergeCSCR(None, Nothing, extractFeatureConfigs(CollectedFeatures))
           /\ "autoScaleConfig" \in DOMAIN FeatureLayer.spec
<1>1. ~ExtractFails(CollectedFeatures) /\ CollectedFeatures.autoScale # ""
  BY CollectedNotBad
<1>2. FeatureLayer = mergeCSCR(None, Nothing, extractFeatureConfigs(CollectedFeatures))
  BY <1>1 DEF FeatureLayer
<1>3. "autoScaleConfig" \in DOMAIN extractFeatureConfigs(CollectedFeatures).spec
  BY <1>1, FeaturesOfCR
<1>. QED  BY <1>2, <1>3, SpecLeavesOfMerge

\* The rest of the merge leaves autoScaleConfig where it is.
LEMMA BootInvStep == TypeInv /\ BootInv /\ [Next]_vars => BootInv'
<1>. SUFFICES ASSUME TypeInv, BootInv, [Next]_vars
              PROVE  BootInv'
  OBVIOUS
<1>6. CASE NextRound
  BY <1>6 DEF NextRound, BootInv
<1>. SUFFICES ASSUME ~NextRound
              PROVE  BootInv'
  BY <1>6
<1>1. crs' = crs /\ NoneFails' = NoneFails
  BY InputsStay DEF NoneFails, ExtractFails
<1>2. CASE BuildDesired
  <2>1. NoneFails => "autoScaleConfig" \in DOMAIN desired'.spec
    BY <1>2, FeatureLayerLeaves DEF BuildDesired, TypeInv
  <2>. QED  BY <1>1, <1>2, <2>1 DEF BuildDesired, BootInv
<1>3. CASE ApplyCR
  <2>1. PICK m : m = mapping'
    OBVIOUS
  <2>2. DOMAIN desired.spec \subseteq DOMAIN mergeCSCR(m, desired, extractSizeConfigs(crs[next])).spec
    BY SpecLeavesOfMerge
  <2>3. DOMAIN desired.spec \subseteq DOMAIN desired'.spec
    BY <1>3, <2>1, <2>2 DEF ApplyCR
  <2>. QED  BY <1>1, <1>3, <2>3 DEF ApplyCR, BootInv
<1>4. CASE StartUpdate
  <2>1. pc' = "summarize" => NoneFails
    BY <1>4 DEF StartUpdate, NoneFails
  <2>2. pc' \in {"summarize", "failed"} /\ pc = "update" /\ desired' = desired
    BY <1>4 DEF StartUpdate
  <2>. QED  BY <1>1, <2>1, <2>2 DEF BootInv
<1>5. CASE /\ desired' = desired
           /\ pc' \in {"summarize", "done"} => pc = "summarize" \/ pc' = pc
           /\ pc = "build" => pc' = "build"
  BY <1>1, <1>5 DEF BootInv
<1>7. CASE DesiredBuilt
  BY <1>5, <1>7 DEF DesiredBuilt
<1>8. CASE InstallOrUpdateOpcon
  BY <1>5, <1>8 DEF InstallOrUpdateOpcon
<1>9. ASSUME NEW i \in DOMAIN crs, InstallFromMaster(i) PROVE BootInv'
  <2>1. pc' \in {"failed", "update"} /\ pc = "install" /\ desired' = desired
    BY <1>9 DEF InstallFromMaster
  <2>. QED  BY <1>5, <2>1
<1>10. ASSUME NEW i \in todo, SummarizeNext(i) PROVE BootInv'
  BY <1>5, <1>10 DEF SummarizeNext
<1>11. CASE UpdateServices
  BY <1>5, <1>11 DEF UpdateServices
<1>12. CASE UNCHANGED vars
  BY <1>5, <1>12 DEF vars
<1>. QED  BY <1>2, <1>3, <1>4, <1>6, <1>7, <1>8, <1>9, <1>10, <1>11, <1>12, NextSteps

\* As long as no CR fails, the first version never comes from the master alone.
LEMMA NotFromMaster ==
    ASSUME BootInv, NEW i, InstallFromMaster(i)
    PROVE  ~NoneFails
<1>1. pc = "install" /\ desired = Nothing
  BY DEF InstallFromMaster
<1>2. DOMAIN desired.spec = {}
  BY <1>1, NoneIsEmpty DEF Nothing
<1>. QED  BY <1>1, <1>2 DEF BootInv

\* What is written over an existing OperandConfig.
LEMMA ExistingLeaves ==
    ASSUME NEW old, NEW new, DOMAIN new = {"spec", "cluster"}
    PROVE  /\ DOMAIN MergeWithExisting(old, new).spec \subseteq DOMAIN new.spec \cup DOMAIN old.spec
           /\ MergeWithExisting(old, new).cluster = new.cluster
<1>1. DOMAIN Over(new.spec, old.spec) = DOMAIN new.spec \cup DOMAIN old.spec
  BY DEF Over
<1>. QED  BY <1>1 DEF MergeWithExisting

\* Every step keeps the sizes of an owned service out.
LEMMA OwnInvStep == TypeInv /\ MapInv /\ OwnInv /\ [Next]_vars => OwnInv'
<1>. SUFFICES ASSUME TypeInv, MapInv, OwnInv, [Next]_vars
              PROVE  OwnInv'
  OBVIOUS
<1>4. CASE pc' \notin {"summarize", "done"}
  BY <1>4 DEF OwnInv
<1>5. NextRound => OwnInv'
  BY <1>4 DEF NextRound
<1>. SUFFICES ASSUME ~NextRound
              PROVE  OwnInv'
  BY <1>5
<1>1. crs' = crs /\ Owned' = Owned
  BY InputsStay DEF Owned
<1>2. DOMAIN BaseServices.spec = {}
  BY NoneIsEmpty DEF BaseServices
<1>3. pc \notin {"build", "apply"} =>
          ((ControllerOf(mapping, "ibm-im-operator") \in NonDefaultControllers) <=> Owned)
  BY MappingOwned DEF TypeInv
<1>6. CASE StartUpdate
  <2>1. DOMAIN summary'.spec = {} /\ pc' # "done"
    BY <1>6, NoneIsEmpty DEF StartUpdate, Nothing
  <2>. QED  BY <2>1 DEF OwnInv
<1>7. ASSUME NEW i \in todo, SummarizeNext(i) PROVE OwnInv'
  <2>. DEFINE cr == AtLargestSize(crs[i])
              first == mergeCSCR(mapping, summary, extractFeatureConfigs(cr))
              second == mergeCSCR(mapping, first, extractSizeConfigs(cr))
  <2>1. summary' = second /\ opcon' = opcon /\ pc = "summarize" /\ pc' = pc
    BY <1>7 DEF SummarizeNext, mergeCSCRs
  <2>2. Owned => DOMAIN first.spec \cap SizeFields \subseteq DOMAIN summary.spec
    BY <1>3, <2>1, SpecLeavesOfMerge
  <2>3. Owned => DOMAIN second.spec \cap SizeFields \subseteq DOMAIN first.spec
    <3>. HIDE DEF first
    <3>. QED  BY <1>3, <2>1, SpecLeavesOfMerge
  <2>. HIDE DEF first, second
  <2>. QED  BY <1>1, <2>1, <2>2, <2>3 DEF OwnInv
<1>8. CASE UpdateServices
  <2>. DEFINE kept == resetResourceInTemplate(desired.spec)
              shrunk == shrinkSize(kept, summary.spec, FALSE)
  <2>1. Owned => getExtremeizes.spec = None \/ getExtremeizes.spec = shrunk
    BY <1>3, <1>8 DEF UpdateServices, getExtremeizes
  <2>2. DOMAIN kept \cap SizeFields = {}
    BY DEF resetResourceInTemplate, Without
  <2>. HIDE DEF kept
  <2>3. DOMAIN shrunk \subseteq DOMAIN kept \cup DOMAIN summary.spec
    BY ShrinkLeaves
  <2>. HIDE DEF shrunk
  <2>4. Owned => DOMAIN getExtremeizes.spec \cap SizeFields = {}
    BY <1>8, <2>1, <2>2, <2>3, NoneIsEmpty DEF OwnInv, UpdateServices
  <2>5. DOMAIN mergeCRsIntoOperandConfig(BaseServices.spec, getExtremeizes.spec)
            = DOMAIN BaseServices.spec \cup DOMAIN getExtremeizes.spec
    BY MergeJoins
  <2>6. opcon'.spec = mergeCRsIntoOperandConfig(BaseServices.spec, getExtremeizes.spec)
    BY <1>8 DEF UpdateServices, mergeServicesWithBase
  <2>7. Owned => DOMAIN opcon'.spec \cap SizeFields = {}
    BY <1>2, <2>4, <2>5, <2>6
  <2>. QED  BY <1>1, <1>8, <2>7 DEF OwnInv, UpdateServices
<1>9. BuildDesired \/ ApplyCR \/ DesiredBuilt \/ InstallOrUpdateOpcon => OwnInv'
  BY <1>4 DEF BuildDesired, ApplyCR, DesiredBuilt, InstallOrUpdateOpcon
<1>10. ASSUME NEW i \in DOMAIN crs, InstallFromMaster(i) PROVE OwnInv'
  BY <1>4, <1>10 DEF InstallFromMaster
<1>11. CASE UNCHANGED vars
  BY <1>1, <1>11 DEF OwnInv, vars
<1>. QED  BY <1>6, <1>7, <1>8, <1>9, <1>10, <1>11, NextSteps

\* The three invariants hold throughout.
LEMMA OwnThroughout == Spec => [](TypeInv /\ MapInv /\ BootInv /\ OwnInv)
<1>1. Init => TypeInv /\ MapInv /\ BootInv /\ OwnInv
  <2>. SUFFICES ASSUME Init
                PROVE  TypeInv /\ MapInv /\ BootInv /\ OwnInv
    OBVIOUS
  <2>1. DOMAIN mapping = {} /\ next = 1 /\ 1..(next - 1) = {}
    BY NoneIsEmpty DEF Init
  <2>2. MapInv
    BY <2>1 DEF MapInv
  <2>3. BootInv
    BY DEF Init, BootInv
  <2>4. DOMAIN opcon.spec = {} /\ pc = "build"
    BY NoneIsEmpty DEF Init, Absent
  <2>. QED  BY <2>2, <2>3, <2>4, TypeInvInit DEF OwnInv
<1>2. TypeInv /\ MapInv /\ BootInv /\ OwnInv /\ [Next]_vars
        => (TypeInv /\ MapInv /\ BootInv /\ OwnInv)'
  BY TypeInvStep, MapInvStep, BootInvStep, OwnInvStep
<1>. QED  BY <1>1, <1>2, PTL DEF Spec

\* Once a CR of a list of any length has handed the im service to another profile
\* controller, a complete reconcile leaves no size of it in the OperandConfig,
\* whatever sizes the CRs of earlier reconciles left there, whatever the other
\* CRs ask for and in whatever order getExtremeizes meets them.
THEOREM OwnedServiceIsNotSized == Spec => []ControllerOwnsSizes
<1>1. OwnInv => ControllerOwnsSizes
  BY DEF OwnInv, ControllerOwnsSizes
<1>. QED  BY <1>1, OwnThroughout, PTL

-----------------------------------------------------------------------------
(***************************************************************************)
(* The replica's Cluster                                                   *)
(***************************************************************************)

\* The features put pg_basebackup into the desired Cluster if a CR replicates;
\* only the base template brings initdb, which the merge with it then drops.
ReplicaInv ==
    /\ "initdb" \notin DOMAIN desired.cluster /\ "initdb" \notin DOMAIN summary.cluster
    /\ NoneFails /\ pc # "build" => ("pg_basebackup" \in DOMAIN desired.cluster <=> Replicates)
    /\ "pg_basebackup" \in DOMAIN summary.cluster => Replicates
    /\ NoneFails /\ pc \in {"update", "summarize", "done"} =>
          /\ "pg_basebackup" \in DOMAIN opcon.cluster <=> Replicates
          /\ "initdb" \notin DOMAIN opcon.cluster <=> Replicates

\* What one merge does to initdb and pg_basebackup.
LEMMA ClusterLeavesOfMerge ==
    ASSUME NEW m, NEW sum, NEW item
    PROVE  LET r == mergeCSCR(m, sum, item) IN
           /\ "pg_basebackup" \in DOMAIN r.cluster
                <=> "pg_basebackup" \in DOMAIN sum.cluster \cup DOMAIN item.cluster
           /\ "initdb" \notin DOMAIN sum.cluster \cup DOMAIN item.cluster
                => "initdb" \notin DOMAIN r.cluster
<1>. DEFINE k == ControllerOf(m, "common-service-cnpg")
<1>1. mergeCSCR(m, sum, item).cluster = mergeResourceArrays(sum.cluster, item.cluster, k)
  BY DEF mergeCSCR
<1>. HIDE DEF k
<1>2. /\ DOMAIN mergeResourceArrays(sum.cluster, item.cluster, k)
            \subseteq DOMAIN sum.cluster \cup DOMAIN item.cluster \cup {"dbCpuLimit"}
      /\ "pg_basebackup" \in DOMAIN mergeResourceArrays(sum.cluster, item.cluster, k)
            <=> "pg_basebackup" \in DOMAIN sum.cluster \cup DOMAIN item.cluster
  BY ArraysLeaves
<1>. QED  BY <1>1, <1>2

\* A Cluster merged with the base template has pg_basebackup or initdb.
LEMMA ClusterOverBase ==
    ASSUME NEW c, "initdb" \notin DOMAIN c, NEW k
    PROVE  LET r == mergeResourceArrays(BaseServices.cluster, c, k) IN
           /\ "pg_basebackup" \in DOMAIN r <=> "pg_basebackup" \in DOMAIN c
           /\ "initdb" \notin DOMAIN r <=> "pg_basebackup" \in DOMAIN c
<1>. DEFINE b == BaseServices.cluster
<1>1. DOMAIN b = {"initdb"}
  BY DEF BaseServices
<1>2. b # None
  BY <1>1, NoneIsEmpty
<1>3. "pg_basebackup" \in DOMAIN c => c # None
  BY NoneIsEmpty
<1>. HIDE DEF b
<1>4. LET r == mergeResourceArrays(b, c, k) IN
      /\ "pg_basebackup" \in DOMAIN r <=> "pg_basebackup" \in DOMAIN b \cup DOMAIN c
      /\ b # None /\ c # None /\ "pg_basebackup" \in DOMAIN b \cup DOMAIN c
           => "initdb" \notin DOMAIN r
      /\ "pg_basebackup" \notin DOMAIN b \cup DOMAIN c /\ "initdb" \in DOMAIN b \cup DOMAIN c
           => "initdb" \in DOMAIN r
  BY ArraysLeaves
<1>. QED  BY <1>1, <1>2, <1>3, <1>4 DEF b

\* The sizes have neither leaf.
LEMMA SizesAreNotBootstrap ==
    ASSUME built \in Builds, NEW cr, IsCR(cr)
    PROVE  /\ "initdb" \notin DOMAIN extractSizeConfigs(cr).cluster
           /\ "pg_basebackup" \notin DOMAIN extractSizeConfigs(cr).cluster
BY SizesOfCR DEF SizesOf, ClusterSizeFields

\* Every step keeps the two ways to start a database apart.
LEMMA ReplicaInvStep == TypeInv /\ BootInv /\ ReplicaInv /\ [Next]_vars => ReplicaInv'
<1>. SUFFICES ASSUME TypeInv, BootInv, ReplicaInv, [Next]_vars
              PROVE  ReplicaInv'
  OBVIOUS
<1>10. CASE NextRound
  <2>1. DOMAIN desired'.cluster = {} /\ DOMAIN summary'.cluster = {} /\ pc' = "build"
    BY <1>10, NoneIsEmpty DEF NextRound, Nothing
  <2>. QED  BY <2>1 DEF ReplicaInv
<1>. SUFFICES ASSUME ~NextRound
              PROVE  ReplicaInv'
  BY <1>10
<1>1. crs' = crs /\ NoneFails' = NoneFails /\ Replicates' = Replicates /\ built \in Builds
  BY InputsStay DEF NoneFails, ExtractFails, Replicates, TypeInv, Inputs
<1>2. CASE BuildDesired
  <2>. DEFINE e == extractFeatureConfigs(CollectedFeatures)
  <2>1. DOMAIN Nothing.cluster = {}
    BY NoneIsEmpty DEF Nothing
  <2>2. DOMAIN e.cluster = IF CollectedFeatures.source = "" THEN {} ELSE {"source", "pg_basebackup"}
    BY FeaturesOfCR
  <2>. HIDE DEF e
  <2>3. FeatureLayer = Nothing \/ FeatureLayer = mergeCSCR(None, Nothing, e)
    BY DEF FeatureLayer, e
  <2>4. "initdb" \notin DOMAIN mergeCSCR(None, Nothing, e).cluster
    BY <2>1, <2>2, ClusterLeavesOfMerge
  <2>5. "initdb" \notin DOMAIN FeatureLayer.cluster
    BY <2>1, <2>3, <2>4
  <2>6. NoneFails => ("pg_basebackup" \in DOMAIN FeatureLayer.cluster <=> Replicates)
    <3>1. SUFFICES ASSUME NoneFails
                   PROVE  "pg_basebackup" \in DOMAIN FeatureLayer.cluster <=> Replicates
      OBVIOUS
    <3>2. FeatureLayer = mergeCSCR(None, Nothing, e) /\ (CollectedFeatures.source # "" <=> Replicates)
      BY <3>1, FeatureLayerLeaves, CollectedNotBad DEF e, TypeInv
    <3>3. "pg_basebackup" \in DOMAIN FeatureLayer.cluster <=> "pg_basebackup" \in DOMAIN e.cluster
      BY <2>1, <3>2, ClusterLeavesOfMerge
    <3>. QED  BY <2>2, <3>2, <3>3
  <2>. QED  BY <1>1, <1>2, <2>5, <2>6 DEF BuildDesired, ReplicaInv
<1>3. CASE ApplyCR
  <2>1. next \in DOMAIN crs
    BY <1>3 DEF ApplyCR, TypeInv, Inputs
  <2>2. IsCR(crs[next])
    BY <2>1 DEF TypeInv, Inputs
  <2>3. PICK m : m = mapping'
    OBVIOUS
  <2>. DEFINE item == extractSizeConfigs(crs[next])
              r == mergeCSCR(m, desired, item)
  <2>4. "initdb" \notin DOMAIN item.cluster /\ "pg_basebackup" \notin DOMAIN item.cluster
    BY <1>1, <2>2, SizesAreNotBootstrap
  <2>. HIDE DEF item
  <2>5. /\ "pg_basebackup" \in DOMAIN r.cluster <=> "pg_basebackup" \in DOMAIN desired.cluster
        /\ "initdb" \notin DOMAIN r.cluster
    BY <2>4, ClusterLeavesOfMerge DEF ReplicaInv
  <2>6. desired' = r
    BY <1>3, <2>3 DEF ApplyCR, item
  <2>. HIDE DEF r
  <2>. QED  BY <1>1, <1>3, <2>5, <2>6 DEF ApplyCR, ReplicaInv
<1>4. CASE InstallOrUpdateOpcon
  <2>. DEFINE new == mergeCSCR(mapping, BaseServices, desired)
              k == ControllerOf(mapping, "common-service-cnpg")
  <2>1. DOMAIN new = {"spec", "cluster"}
        /\ new.cluster = mergeResourceArrays(BaseServices.cluster, desired.cluster, k)
    BY DEF mergeCSCR
  <2>. HIDE DEF k
  <2>2. /\ "pg_basebackup" \in DOMAIN new.cluster <=> "pg_basebackup" \in DOMAIN desired.cluster
        /\ "initdb" \notin DOMAIN new.cluster <=> "pg_basebackup" \in DOMAIN desired.cluster
    BY <2>1, ClusterOverBase DEF ReplicaInv
  <2>3. opcon'.cluster = new.cluster
    BY <1>4, <2>1, ExistingLeaves DEF InstallOrUpdateOpcon
  <2>. HIDE DEF new
  <2>. QED  BY <1>1, <1>4, <2>2, <2>3 DEF InstallOrUpdateOpcon, ReplicaInv
<1>5. ASSUME NEW i \in DOMAIN crs, InstallFromMaster(i) PROVE ReplicaInv'
  <2>1. ~NoneFails
    BY <1>5, NotFromMaster
  <2>. QED  BY <1>1, <1>5, <2>1 DEF InstallFromMaster, ReplicaInv
<1>6. CASE StartUpdate
  <2>1. DOMAIN summary'.cluster = {}
    BY <1>6, NoneIsEmpty DEF StartUpdate, Nothing
  <2>2. pc = "update" /\ pc' \in {"summarize", "failed"} /\ opcon' = opcon /\ desired' = desired
    BY <1>6 DEF StartUpdate
  <2>. QED  BY <1>1, <2>1, <2>2 DEF ReplicaInv
<1>7. ASSUME NEW i \in todo, SummarizeNext(i) PROVE ReplicaInv'
  <2>. DEFINE cr == AtLargestSize(crs[i])
              e == extractFeatureConfigs(cr)
              z == extractSizeConfigs(cr)
              first == mergeCSCR(mapping, summary, e)
              second == mergeCSCR(mapping, first, z)
  <2>1. i \in DOMAIN crs /\ IsCR(crs[i])
    BY DEF TypeInv, Inputs
  <2>2. IsCR(cr) /\ cr.source = crs[i].source
    BY <2>1, AtLargestSizeIsCR
  <2>3. DOMAIN e.cluster = IF cr.source = "" THEN {} ELSE {"source", "pg_basebackup"}
    BY FeaturesOfCR
  <2>4. "initdb" \notin DOMAIN z.cluster /\ "pg_basebackup" \notin DOMAIN z.cluster
    BY <1>1, <2>2, SizesAreNotBootstrap
  <2>5. "pg_basebackup" \in DOMAIN e.cluster => Replicates
    BY <2>1, <2>2, <2>3 DEF Replicates
  <2>6. summary' = second /\ UNCHANGED <<pc, desired, opcon>>
    BY <1>7 DEF SummarizeNext, mergeCSCRs
  <2>. HIDE DEF e, z
  <2>7. /\ "pg_basebackup" \in DOMAIN first.cluster => Replicates
        /\ "initdb" \notin DOMAIN first.cluster
    BY <2>3, <2>5, ClusterLeavesOfMerge DEF ReplicaInv
  <2>. HIDE DEF first
  <2>8. /\ "pg_basebackup" \in DOMAIN second.cluster => Replicates
        /\ "initdb" \notin DOMAIN second.cluster
    BY <2>4, <2>7, ClusterLeavesOfMerge
  <2>. HIDE DEF second
  <2>. QED  BY <1>1, <2>6, <2>8 DEF ReplicaInv
<1>8. CASE UpdateServices
  <2>. DEFINE clear == ControllerOf(mapping, "common-service-cnpg") \in NonDefaultControllers
              sumCluster == IF clear THEN ClearCpuLimit(summary.cluster) ELSE summary.cluster
              shrunk == shrinkSize(desired.cluster, sumCluster, TRUE)
              c == getExtremeizes.cluster
  <2>1. c = IF desired.cluster = None THEN None ELSE shrunk
    BY DEF getExtremeizes
  <2>2. DOMAIN sumCluster \subseteq DOMAIN summary.cluster \cup {"dbCpuLimit"}
    <3>1. DOMAIN [dbCpuLimit |-> EmptyStruct] = {"dbCpuLimit"}
      OBVIOUS
    <3>. QED  BY <3>1 DEF ClearCpuLimit, Over
  <2>. HIDE DEF sumCluster
  <2>3. DOMAIN desired.cluster \subseteq DOMAIN shrunk
        /\ DOMAIN shrunk \subseteq DOMAIN desired.cluster \cup DOMAIN sumCluster
    BY ShrinkLeaves
  <2>. HIDE DEF shrunk
  <2>4. pc = "summarize" /\ pc' = "done" /\ NoneFails
    BY <1>8 DEF UpdateServices, BootInv
  <2>5. "pg_basebackup" \in DOMAIN c <=> Replicates
    <3>1. CASE desired.cluster = None
      <4>1. "pg_basebackup" \notin DOMAIN desired.cluster /\ "pg_basebackup" \notin DOMAIN c
        BY <2>1, <3>1, NoneIsEmpty
      <4>. QED  BY <2>4, <4>1 DEF ReplicaInv
    <3>2. CASE desired.cluster # None
      <4>1. c = shrunk
        BY <2>1, <3>2
      <4>. QED  BY <2>2, <2>3, <2>4, <4>1 DEF ReplicaInv
    <3>. QED  BY <3>1, <3>2
  <2>6. "initdb" \notin DOMAIN c
    BY <2>1, <2>2, <2>3, NoneIsEmpty DEF ReplicaInv
  <2>7. opcon'.cluster = mergeResourceArrays(BaseServices.cluster, c, "default")
    BY <1>8 DEF UpdateServices, mergeServicesWithBase
  <2>. HIDE DEF c
  <2>8. /\ "pg_basebackup" \in DOMAIN opcon'.cluster <=> Replicates
        /\ "initdb" \notin DOMAIN opcon'.cluster <=> Replicates
    BY <2>5, <2>6, <2>7, ClusterOverBase
  <2>. QED  BY <1>1, <1>8, <2>4, <2>8 DEF UpdateServices, ReplicaInv
<1>9. CASE DesiredBuilt
  BY <1>1, <1>9 DEF DesiredBuilt, ReplicaInv
<1>11. CASE UNCHANGED vars
  BY <1>1, <1>11 DEF vars, ReplicaInv
<1>. QED  BY <1>2, <1>3, <1>4, <1>5, <1>6, <1>7, <1>8, <1>9, <1>11, NextSteps

\* In every round, for CRs of any number and content, the Cluster of the
\* OperandConfig is bootstrapped from its source exactly if a CR replicates, and
\* told to initialise a database exactly if none does.
THEOREM ReplicaOrInitdb == Spec => []ReplicaHasNoInitdb
<1>1. Init => ReplicaInv
  <2>. SUFFICES ASSUME Init
                PROVE  ReplicaInv
    OBVIOUS
  <2>1. DOMAIN desired.cluster = {} /\ DOMAIN summary.cluster = {} /\ pc = "build"
    BY NoneIsEmpty DEF Init, Nothing
  <2>. QED  BY <2>1 DEF ReplicaInv
<1>2. TypeInv /\ BootInv /\ ReplicaInv => ReplicaHasNoInitdb
  BY DEF BootInv, ReplicaInv, ReplicaHasNoInitdb, Replicates
<1>. QED  BY <1>1, <1>2, ReplicaInvStep, OwnThroughout, PTL DEF Spec

-----------------------------------------------------------------------------
(***************************************************************************)
(* The largest size wins                                                   *)
(***************************************************************************)

\* What the parts of X have for field f is Comparable.
Fit(X, f) ==
    \/ \A x \in X : f \in DOMAIN x => (x[f].t = "num" => x[f].n > 0)
    \/ \A x \in X : f \in DOMAIN x => Parses(x[f])

\* Every size of part c is one that a part of X has, and the largest of them.
Largest(c, X) ==
    \A f \in DOMAIN c \cap ComparableFields :
        /\ \E x \in X : f \in DOMAIN x /\ x[f] = c[f]
        /\ Fit(X, f) =>
              \A x \in X : f \in DOMAIN x /\ Parses(x[f]) => Parses(c[f]) /\ ~Exceeds(x[f], c[f])

\* Part c sizes what any part of X sizes.
Covers(c, X) == \A x \in X : DOMAIN x \cap ComparableFields \subseteq DOMAIN c

AreSizes(X) == \A x \in X : \A f \in DOMAIN x \cap ComparableFields : IsSize(x[f])

\* What CRs ask for with their own size, and with the largest one.
Own(part, S) == {extractSizeConfigs(crs[j])[part] : j \in S}
Raised(part, S) == {extractSizeConfigs(AtLargestSize(crs[j]))[part] : j \in S}

\* The desired services and the summary have the largest sizes of the CRs they
\* have seen; the OperandConfig has those of both.
LargestInv ==
    AllDefault =>
        /\ pc # "build" =>
              /\ Largest(desired.spec, Own("spec", 1..(next - 1)))
              /\ Covers(desired.spec, Own("spec", 1..(next - 1)))
              /\ Largest(desired.cluster, Own("cluster", 1..(next - 1)))
              /\ Covers(desired.cluster, Own("cluster", 1..(next - 1)))
        /\ pc = "summarize" =>
              /\ Largest(summary.spec, Raised("spec", DOMAIN crs \ todo))
              /\ Covers(summary.spec, Raised("spec", DOMAIN crs \ todo))
              /\ Largest(summary.cluster, Raised("cluster", DOMAIN crs \ todo))
              /\ Covers(summary.cluster, Raised("cluster", DOMAIN crs \ todo))
        /\ pc = "done" =>
              /\ Largest(opcon.spec, Own("spec", DOMAIN crs) \cup Raised("spec", DOMAIN crs))
              /\ Covers(opcon.spec, Own("spec", DOMAIN crs))
              /\ Largest(opcon.cluster, Own("cluster", DOMAIN crs) \cup Raised("cluster", DOMAIN crs))

\* A part without sizes is the largest of nothing.
LEMMA LargestOfNothing ==
    ASSUME NEW c, DOMAIN c \cap ComparableFields = {}
    PROVE  Largest(c, {}) /\ Covers(c, {})
BY DEF Largest, Covers

\* Joining a part that asks for sizes.
LEMMA LargestJoin ==
    ASSUME NEW b, NEW X, NEW c, NEW r, Largest(b, X), Covers(b, X), AreSizes(X \cup {c}),
           Joined(r, b, c)
    PROVE  Largest(r, X \cup {c}) /\ Covers(r, X \cup {c})
<1>1. Covers(r, X \cup {c})
  BY DEF Covers, Joined
<1>2. ASSUME NEW f \in DOMAIN r \cap ComparableFields
      PROVE  /\ \E x \in X \cup {c} : f \in DOMAIN x /\ x[f] = r[f]
             /\ Fit(X \cup {c}, f) => \A x \in X \cup {c} :
                   f \in DOMAIN x /\ Parses(x[f]) => Parses(r[f]) /\ ~Exceeds(x[f], r[f])
  <2>0. Fit(X \cup {c}, f) => Fit(X, f)
    BY DEF Fit
  <2>1. CASE f \in DOMAIN b \ DOMAIN c
    <3>1. r[f] = b[f]
      BY <2>1 DEF Joined
    <3>. QED  BY <2>0, <2>1, <3>1 DEF Largest
  <2>2. CASE f \in DOMAIN c \ DOMAIN b
    <3>1. r[f] = c[f]
      BY <2>2 DEF Joined
    <3>2. \A x \in X : f \notin DOMAIN x
      BY <2>2 DEF Covers
    <3>3. Parses(c[f]) => ~Exceeds(c[f], c[f])
      BY <2>2, ExceedsOrder DEF AreSizes
    <3>. QED  BY <2>2, <3>1, <3>2, <3>3
  <2>3. CASE f \in DOMAIN b \cap DOMAIN c
    <3>1. r[f] = Large(b[f], c[f])
      BY <2>3 DEF Joined
    <3>2. PICK y \in X : f \in DOMAIN y /\ y[f] = b[f]
      BY <2>3 DEF Largest
    <3>3. IsSize(b[f]) /\ IsSize(c[f])
      BY <2>3, <3>2 DEF AreSizes
    <3>4. r[f] \in {b[f], c[f]}
      BY <3>1, <3>3, LargeIsEither
    <3>5. \E x \in X \cup {c} : f \in DOMAIN x /\ x[f] = r[f]
      BY <2>3, <3>2, <3>4
    <3>6. ASSUME Fit(X \cup {c}, f)
          PROVE  /\ Parses(b[f]) \/ Parses(c[f]) => Parses(r[f])
                 /\ Parses(b[f]) => ~Exceeds(b[f], r[f])
                 /\ Parses(c[f]) => ~Exceeds(c[f], r[f])
      <4>1. (b[f].t = "num" => b[f].n > 0) \/ Parses(c[f])
        BY <2>3, <3>2, <3>6 DEF Fit
      <4>. QED  BY <3>1, <3>3, <4>1, LargeIsLargest
    <3>7. ASSUME Fit(X \cup {c}, f), NEW x \in X, f \in DOMAIN x, Parses(x[f])
          PROVE  Parses(r[f]) /\ ~Exceeds(x[f], r[f])
      <4>1. Parses(b[f]) /\ ~Exceeds(x[f], b[f])
        BY <2>0, <2>3, <3>7 DEF Largest
      <4>2. IsSize(x[f]) /\ IsSize(r[f])
        BY <3>3, <3>4, <3>7 DEF AreSizes
      <4>. QED  BY <3>3, <3>6, <3>7, <4>1, <4>2, ExceedsOrder
    <3>. QED  BY <3>5, <3>6, <3>7
  <2>. QED  BY <1>2, <2>1, <2>2, <2>3 DEF Joined
<1>. QED  BY <1>1, <1>2 DEF Largest

\* Joining a part that asks for no size.
LEMMA LargestKept ==
    ASSUME NEW b, NEW X, NEW c, NEW r, Largest(b, X), Covers(b, X),
           DOMAIN c \cap ComparableFields = {}, Joined(r, b, c)
    PROVE  Largest(r, X) /\ Covers(r, X)
BY DEF Largest, Covers, Joined

\* The comparison of the desired services with the summary.
LEMMA LargestShrink ==
    ASSUME NEW b, NEW X, Largest(b, X), Covers(b, X), NEW c, NEW Y, Largest(c, Y), Covers(c, Y),
           AreSizes(X \cup Y), NEW k
    PROVE  Largest(shrinkSize(b, c, k), X \cup Y)
<1>. DEFINE r == shrinkSize(b, c, k)
<1>1. /\ DOMAIN r \subseteq DOMAIN b \cup DOMAIN c
      /\ \A f \in DOMAIN r :
            /\ f \notin DOMAIN c => r[f] = b[f]
            /\ f \notin DOMAIN b => r[f] = c[f]
            /\ f \in DOMAIN b \cap DOMAIN c => r[f] = Large(b[f], c[f])
  BY ShrinkLeaves
<1>. HIDE DEF r
<1>2. ASSUME NEW f \in DOMAIN r \cap ComparableFields
      PROVE  /\ \E x \in X \cup Y : f \in DOMAIN x /\ x[f] = r[f]
             /\ Fit(X \cup Y, f) => \A x \in X \cup Y :
                   f \in DOMAIN x /\ Parses(x[f]) => Parses(r[f]) /\ ~Exceeds(x[f], r[f])
  <2>0. Fit(X \cup Y, f) => Fit(X, f) /\ Fit(Y, f)
    BY DEF Fit
  <2>1. CASE f \in DOMAIN b \ DOMAIN c
    <3>1. \A y \in Y : f \notin DOMAIN y
      BY <2>1 DEF Covers
    <3>. QED  BY <1>1, <2>0, <2>1, <3>1 DEF Largest
  <2>2. CASE f \in DOMAIN c \ DOMAIN b
    <3>1. \A x \in X : f \notin DOMAIN x
      BY <2>2 DEF Covers
    <3>. QED  BY <1>1, <2>0, <2>2, <3>1 DEF Largest
  <2>3. CASE f \in DOMAIN b \cap DOMAIN c
    <3>1. PICK x0 \in X : f \in DOMAIN x0 /\ x0[f] = b[f]
      BY <2>3 DEF Largest
    <3>2. PICK y0 \in Y : f \in DOMAIN y0 /\ y0[f] = c[f]
      BY <2>3 DEF Largest
    <3>3. IsSize(b[f]) /\ IsSize(c[f])
      BY <3>1, <3>2 DEF AreSizes
    <3>4. r[f] = Large(b[f], c[f]) /\ r[f] \in {b[f], c[f]}
      BY <1>1, <2>3, <3>3, LargeIsEither
    <3>5. IsSize(r[f])
      BY <3>3, <3>4
    <3>6. ASSUME Fit(X \cup Y, f), NEW x \in X \cup Y, f \in DOMAIN x, Parses(x[f])
          PROVE  Parses(r[f]) /\ ~Exceeds(x[f], r[f])
      <4>1. IsSize(x[f])
        BY <3>6 DEF AreSizes
      <4>2. (b[f].t = "num" => b[f].n > 0) \/ Parses(c[f])
        BY <3>1, <3>2, <3>6 DEF Fit
      <4>3. /\ Parses(b[f]) \/ Parses(c[f]) => Parses(r[f])
            /\ Parses(b[f]) => ~Exceeds(b[f], r[f])
            /\ Parses(c[f]) => ~Exceeds(c[f], r[f])
        BY <3>3, <3>4, <4>2, LargeIsLargest
      <4>4. CASE x \in X
        <5>1. Parses(b[f]) /\ ~Exceeds(x[f], b[f])
          BY <2>0, <2>3, <3>6, <4>4 DEF Largest
        <5>. QED  BY <3>3, <3>5, <3>6, <4>1, <4>3, <5>1, ExceedsOrder
      <4>5. CASE x \in Y
        <5>1. Parses(c[f]) /\ ~Exceeds(x[f], c[f])
          BY <2>0, <2>3, <3>6, <4>5 DEF Largest
        <5>. QED  BY <3>3, <3>5, <3>6, <4>1, <4>3, <5>1, ExceedsOrder
      <4>. QED  BY <4>4, <4>5
    <3>7. \E x \in X \cup Y : f \in DOMAIN x /\ x[f] = r[f]
      BY <3>1, <3>2, <3>4
    <3>. QED  BY <3>6, <3>7
  <2>. QED  BY <1>1, <2>1, <2>2, <2>3
<1>3. Largest(r, X \cup Y)
  BY <1>2 DEF Largest
<1>. QED  BY <1>3 DEF r

\* What the CRs ask for are sizes.
LEMMA AskedAreSizes ==
    ASSUME Inputs, NEW S, S \subseteq DOMAIN crs, NEW part \in {"spec", "cluster"}
    PROVE  AreSizes(Own(part, S)) /\ AreSizes(Raised(part, S))
<1>1. ASSUME NEW j \in S
      PROVE  IsCR(crs[j]) /\ IsCR(AtLargestSize(crs[j]))
  BY AtLargestSizeIsCR DEF Inputs
<1>2. ASSUME NEW cr, IsCR(cr)
      PROVE  \A f \in DOMAIN extractSizeConfigs(cr)[part] : IsSize(extractSizeConfigs(cr)[part][f])
  <2>1. /\ \A f \in DOMAIN extractSizeConfigs(cr).spec : IsSize(extractSizeConfigs(cr).spec[f])
        /\ \A f \in DOMAIN extractSizeConfigs(cr).cluster : IsSize(extractSizeConfigs(cr).cluster[f])
    BY <1>2, SizesOfCR DEF SizesOf, Inputs
  <2>. QED  BY <2>1
<1>3. \A x \in Own(part, S) : \A f \in DOMAIN x : IsSize(x[f])
  BY <1>1, <1>2 DEF Own
<1>4. \A x \in Raised(part, S) : \A f \in DOMAIN x : IsSize(x[f])
  BY <1>1, <1>2 DEF Raised
<1>. QED  BY <1>3, <1>4 DEF AreSizes

\* One more CR.
LEMMA OneMore ==
    ASSUME NEW part, NEW S, NEW j
    PROVE  /\ Own(part, S \cup {j}) = Own(part, S) \cup {extractSizeConfigs(crs[j])[part]}
           /\ Raised(part, S \cup {j})
                = Raised(part, S) \cup {extractSizeConfigs(AtLargestSize(crs[j]))[part]}
BY DEF Own, Raised

\* What the CRs ask for does not change.
LEMMA AskedStays ==
    ASSUME UNCHANGED <<crs, built>>, NEW part, NEW S
    PROVE  /\ Own(part, S)' = Own(part, S) /\ Raised(part, S)' = Raised(part, S)
           /\ AllDefault' = AllDefault
<1>1. \A cr : extractSizeConfigs(cr)' = extractSizeConfigs(cr)
  BY DEF extractSizeConfigs, SizeTemplateConfig
<1>2. \A cr : AtLargestSize(cr)' = AtLargestSize(cr)
  BY DEF AtLargestSize, getLargestSizeFromCRs
<1>3. Own(part, S)' = Own(part, S)
  BY <1>1 DEF Own
<1>4. Raised(part, S)' = Raised(part, S)
  BY <1>1, <1>2 DEF Raised
<1>5. AllDefault' = AllDefault
  BY DEF AllDefault
<1>. QED  BY <1>3, <1>4, <1>5

\* With the default controllers a merge joins both parts.
LEMMA DefaultMergeJoins ==
    ASSUME NEW m, NEW sum, NEW item,
           ControllerOf(m, "ibm-im-operator") \notin NonDefaultControllers,
           ControllerOf(m, "common-service-cnpg") \notin NonDefaultControllers
    PROVE  /\ Joined(mergeCSCR(m, sum, item).spec, sum.spec, item.spec)
           /\ Joined(mergeCSCR(m, sum, item).cluster, sum.cluster, item.cluster)
<1>. DEFINE k == ControllerOf(m, "common-service-cnpg")
<1>1. /\ mergeCSCR(m, sum, item).spec = mergeCRsIntoOperandConfig(sum.spec, item.spec)
      /\ mergeCSCR(m, sum, item).cluster = mergeResourceArrays(sum.cluster, item.cluster, k)
  BY DEF mergeCSCR
<1>. HIDE DEF k
<1>2. Joined(mergeCRsIntoOperandConfig(sum.spec, item.spec), sum.spec, item.spec)
  BY MergeJoins
<1>3. Joined(mergeResourceArrays(sum.cluster, item.cluster, k), sum.cluster, item.cluster)
  BY ArraysJoin DEF k
<1>. QED  BY <1>1, <1>2, <1>3

\* The features of a CR are no sizes.
LEMMA FeaturesAreNotSizes ==
    ASSUME NEW cr
    PROVE  /\ DOMAIN extractFeatureConfigs(cr).spec \cap ComparableFields = {}
           /\ DOMAIN extractFeatureConfigs(cr).cluster \cap ComparableFields = {}
<1>1. /\ DOMAIN extractFeatureConfigs(cr).spec \subseteq {"autoScaleConfig"}
      /\ DOMAIN extractFeatureConfigs(cr).cluster \subseteq {"source", "pg_basebackup"}
  BY FeaturesOfCR
<1>2. /\ "autoScaleConfig" \notin ComparableFields
      /\ "source" \notin ComparableFields /\ "pg_basebackup" \notin ComparableFields
  BY DEF ComparableFields, SizeFields, ClusterSizeFields
<1>. QED  BY <1>1, <1>2

\* ... nor are those of all CRs.
LEMMA FeatureLayerIsNotSized ==
    /\ DOMAIN FeatureLayer.spec \cap ComparableFields = {}
    /\ DOMAIN FeatureLayer.cluster \cap ComparableFields = {}
<1>. DEFINE e == extractFeatureConfigs(CollectedFeatures)
            r == mergeCSCR(None, Nothing, e)
<1>1. \A s : ControllerOf(None, s) \notin NonDefaultControllers
  BY NoneIsEmpty DEF ControllerOf, NonDefaultControllers
<1>2. DOMAIN Nothing.spec = {} /\ DOMAIN Nothing.cluster = {}
  BY NoneIsEmpty DEF Nothing
<1>3. DOMAIN e.spec \cap ComparableFields = {} /\ DOMAIN e.cluster \cap ComparableFields = {}
  BY FeaturesAreNotSizes
<1>4. FeatureLayer = Nothing \/ FeatureLayer = r
  BY DEF FeatureLayer
<1>. HIDE DEF e
<1>5. Joined(r.spec, Nothing.spec, e.spec) /\ Joined(r.cluster, Nothing.cluster, e.cluster)
  BY <1>1, DefaultMergeJoins
<1>. HIDE DEF r
<1>6. DOMAIN r.spec \cap ComparableFields = {} /\ DOMAIN r.cluster \cap ComparableFields = {}
  BY <1>2, <1>3, <1>5 DEF Joined
<1>. QED  BY <1>2, <1>4, <1>6

\* The base template sizes nothing.
LEMMA BaseIsNotSized ==
    /\ DOMAIN BaseServices.spec \cap ComparableFields = {}
    /\ DOMAIN BaseServices.cluster \cap ComparableFields = {}
<1>1. DOMAIN BaseServices.spec = {} /\ DOMAIN BaseServices.cluster = {"initdb"}
  BY NoneIsEmpty DEF BaseServices
<1>. QED  BY <1>1 DEF ComparableFields, SizeFields, ClusterSizeFields

\* A mapping without another controller.
NoOther(m) == \A k \in DOMAIN m : m[k] \notin NonDefaultControllers

\* If no CR names another controller no mapping ever does.
LEMMA NoOtherController ==
    /\ TypeInv /\ MapInv /\ AllDefault => NoOther(mapping)
    /\ \A cr : cr.controller \notin NonDefaultControllers /\ cr.strategy \notin NonDefaultControllers
                 => NoOther(serviceControllerMapping(cr))
    /\ \A a, b : NoOther(a) /\ NoOther(b) => NoOther(mergeProfileController(a, b))
    /\ \A m, s : NoOther(m) => ControllerOf(m, s) \notin NonDefaultControllers
<1>1. TypeInv /\ MapInv /\ AllDefault => NoOther(mapping)
  <2>. SUFFICES ASSUME TypeInv, MapInv, AllDefault
                PROVE  NoOther(mapping)
    OBVIOUS
  <2>1. 1..(next - 1) \subseteq DOMAIN crs
    BY DEF TypeInv, Inputs
  <2>2. /\ "ibm-im-operator" \in DOMAIN mapping
              => mapping["ibm-im-operator"] \notin NonDefaultControllers
        /\ "profileController" \in DOMAIN mapping
              => mapping["profileController"] \notin NonDefaultControllers
    BY <2>1 DEF MapInv, AllDefault
  <2>. QED  BY <2>2 DEF TypeInv, NoOther
<1>2. ASSUME NEW cr, cr.controller \notin NonDefaultControllers,
             cr.strategy \notin NonDefaultControllers
      PROVE  NoOther(serviceControllerMapping(cr))
  <2>1. LET s == serviceControllerMapping(cr) IN
        /\ DOMAIN s = {"profileController"}
                        \cup (IF cr.strategy = "" THEN {} ELSE {"ibm-im-operator"})
        /\ s["profileController"] = IF cr.controller = "" THEN "default" ELSE cr.controller
        /\ cr.strategy # "" => s["ibm-im-operator"] = cr.strategy
    BY ControllersOfCR
  <2>2. "default" \notin NonDefaultControllers
    BY DEF NonDefaultControllers
  <2>. QED  BY <1>2, <2>1, <2>2 DEF NoOther
<1>3. \A a, b : NoOther(a) /\ NoOther(b) => NoOther(mergeProfileController(a, b))
  BY DEF NoOther, mergeProfileController
<1>4. \A m, s : NoOther(m) => ControllerOf(m, s) \notin NonDefaultControllers
  BY DEF NoOther, ControllerOf, NonDefaultControllers
<1>. QED  BY <1>1, <1>2, <1>3, <1>4

\* The whole configuration of a CR joined to a summary.
LEMMA LargestSummary ==
    ASSUME built \in Builds, NEW cr, IsCR(cr), NEW sum, NEW m, NoOther(m), NEW X, NEW Y,
           Largest(sum.spec, X), Covers(sum.spec, X), AreSizes(X),
           Largest(sum.cluster, Y), Covers(sum.cluster, Y), AreSizes(Y)
    PROVE  LET r == mergeCSCRs(sum, cr, m)
               z == extractSizeConfigs(cr)
           IN  /\ Largest(r.spec, X \cup {z.spec}) /\ Covers(r.spec, X \cup {z.spec})
               /\ Largest(r.cluster, Y \cup {z.cluster}) /\ Covers(r.cluster, Y \cup {z.cluster})
<1>. DEFINE e == extractFeatureConfigs(cr)
            z == extractSizeConfigs(cr)
            first == mergeCSCR(m, sum, e)
            r == mergeCSCR(m, first, z)
<1>1. mergeCSCRs(sum, cr, m) = r
  BY DEF mergeCSCRs
<1>2. \A s : ControllerOf(m, s) \notin NonDefaultControllers
  BY NoOtherController
<1>3. DOMAIN e.spec \cap ComparableFields = {} /\ DOMAIN e.cluster \cap ComparableFields = {}
  BY FeaturesAreNotSizes
<1>4. AreSizes(X \cup {z.spec}) /\ AreSizes(Y \cup {z.cluster})
  BY SizesOfCR DEF AreSizes, SizesOf
<1>. HIDE DEF e, z
<1>5. Joined(first.spec, sum.spec, e.spec) /\ Joined(first.cluster, sum.cluster, e.cluster)
  BY <1>2, DefaultMergeJoins
<1>. HIDE DEF first
<1>6. Joined(r.spec, first.spec, z.spec) /\ Joined(r.cluster, first.cluster, z.cluster)
  BY <1>2, DefaultMergeJoins
<1>. HIDE DEF r
<1>7. /\ Largest(first.spec, X) /\ Covers(first.spec, X)
      /\ Largest(first.cluster, Y) /\ Covers(first.cluster, Y)
  BY <1>3, <1>5, LargestKept
<1>8. /\ Largest(r.spec, X \cup {z.spec}) /\ Covers(r.spec, X \cup {z.spec})
      /\ Largest(r.cluster, Y \cup {z.cluster}) /\ Covers(r.cluster, Y \cup {z.cluster})
  BY <1>4, <1>6, <1>7, LargestJoin
<1>. QED  BY <1>1, <1>8 DEF z

\* The last step: the desired services against the summary, over the base.
LEMMA LargestFinal ==
    ASSUME NEW b, NEW c, NEW X, Largest(b, X), Covers(b, X),
           NEW Y, Largest(c, Y), Covers(c, Y), AreSizes(X \cup Y), NEW k,
           NEW e, e = (IF b = None THEN None ELSE shrinkSize(b, c, k)),
           NEW base, DOMAIN base \cap ComparableFields = {},
           NEW r, Joined(r, base, e)
    PROVE  Largest(r, X \cup Y) /\ Covers(r, X)
<1>1. Largest(shrinkSize(b, c, k), X \cup Y)
  BY LargestShrink
<1>2. DOMAIN b \subseteq DOMAIN shrinkSize(b, c, k)
  BY ShrinkLeaves
<1>3. Largest(e, X \cup Y) /\ DOMAIN b \subseteq DOMAIN e
  <2>1. CASE b = None
    <3>1. DOMAIN e = {} /\ DOMAIN b = {}
      BY <2>1, NoneIsEmpty
    <3>. QED  BY <3>1 DEF Largest
  <2>2. CASE b # None
    BY <1>1, <1>2, <2>2
  <2>. QED  BY <2>1, <2>2
<1>4. \A f \in ComparableFields : /\ f \in DOMAIN r <=> f \in DOMAIN e
                                  /\ f \in DOMAIN e => r[f] = e[f]
  BY DEF Joined
<1>5. Largest(r, X \cup Y)
  BY <1>3, <1>4 DEF Largest
<1>6. Covers(r, X)
  BY <1>3, <1>4 DEF Covers
<1>. QED  BY <1>5, <1>6

\* The desired services and the summary stay the largest of what they have seen.
LEMMA LargestInvStep == TypeInv /\ MapInv /\ LargestInv /\ [Next]_vars => LargestInv'
<1>. SUFFICES ASSUME TypeInv, MapInv, LargestInv, [Next]_vars
              PROVE  LargestInv'
  OBVIOUS
<1>10. CASE NextRound
  BY <1>10 DEF NextRound, LargestInv
<1>. SUFFICES ASSUME ~NextRound
              PROVE  LargestInv'
  BY <1>10
<1>1. crs' = crs /\ built' = built
  BY InputsStay
<1>. SUFFICES ASSUME AllDefault
              PROVE  LargestInv'
  <2>1. AllDefault' = AllDefault
    BY <1>1, AskedStays
  <2>. QED  BY <2>1 DEF LargestInv
<1>2. \A part, S : Own(part, S)' = Own(part, S) /\ Raised(part, S)' = Raised(part, S)
  BY <1>1, AskedStays
<1>3. Inputs /\ built \in Builds /\ NoOther(mapping)
  BY NoOtherController DEF TypeInv, Inputs
<1>4. ASSUME NEW S, S \subseteq DOMAIN crs
      PROVE  /\ AreSizes(Own("spec", S)) /\ AreSizes(Raised("spec", S))
             /\ AreSizes(Own("cluster", S)) /\ AreSizes(Raised("cluster", S))
  BY <1>3, <1>4, AskedAreSizes
<1>5. CASE BuildDesired
  <2>1. desired' = FeatureLayer /\ next' = 1 /\ pc' = "apply"
    BY <1>5 DEF BuildDesired
  <2>2. 1..(next' - 1) = {}
    BY <2>1
  <2>3. \A part : Own(part, {}) = {}
    BY DEF Own
  <2>4. /\ Largest(FeatureLayer.spec, {}) /\ Covers(FeatureLayer.spec, {})
        /\ Largest(FeatureLayer.cluster, {}) /\ Covers(FeatureLayer.cluster, {})
    BY FeatureLayerIsNotSized, LargestOfNothing
  <2>. QED  BY <1>2, <2>1, <2>2, <2>3, <2>4 DEF LargestInv
<1>6. CASE ApplyCR
  <2>. DEFINE S == 1..(next - 1)
              z == extractSizeConfigs(crs[next])
  <2>1. next \in DOMAIN crs /\ next \in Nat \ {0} /\ S \subseteq DOMAIN crs
    BY <1>6 DEF ApplyCR, TypeInv, Inputs
  <2>2. 1..(next' - 1) = S \cup {next}
    BY <1>6, <2>1 DEF ApplyCR
  <2>3. PICK m : m = mapping'
    OBVIOUS
  <2>4. NoOther(m)
    <3>1. m = mergeProfileController(mapping, serviceControllerMapping(crs[next]))
      BY <1>6, <2>3 DEF ApplyCR
    <3>2. NoOther(serviceControllerMapping(crs[next]))
      BY <2>1, NoOtherController DEF AllDefault
    <3>. QED  BY <1>3, <3>1, <3>2, NoOtherController
  <2>5. desired' = mergeCSCR(m, desired, z) /\ pc = "apply" /\ pc' = "apply"
    BY <1>6, <2>3 DEF ApplyCR
  <2>6. /\ Own("spec", S \cup {next}) = Own("spec", S) \cup {z.spec}
        /\ Own("cluster", S \cup {next}) = Own("cluster", S) \cup {z.cluster}
    BY OneMore
  <2>7. S \cup {next} \subseteq DOMAIN crs
    BY <2>1
  <2>8. /\ AreSizes(Own("spec", S) \cup {z.spec})
        /\ AreSizes(Own("cluster", S) \cup {z.cluster})
    BY <1>4, <2>6, <2>7
  <2>9. /\ Largest(desired.spec, Own("spec", S)) /\ Covers(desired.spec, Own("spec", S))
        /\ Largest(desired.cluster, Own("cluster", S)) /\ Covers(desired.cluster, Own("cluster", S))
    BY <2>5 DEF LargestInv
  <2>. HIDE DEF S, z
  <2>10. \A s : ControllerOf(m, s) \notin NonDefaultControllers
    BY <2>4, NoOtherController
  <2>11. /\ Joined(desired'.spec, desired.spec, z.spec)
         /\ Joined(desired'.cluster, desired.cluster, z.cluster)
    BY <2>5, <2>10, DefaultMergeJoins
  <2>12. /\ Largest(desired'.spec, Own("spec", S) \cup {z.spec})
         /\ Covers(desired'.spec, Own("spec", S) \cup {z.spec})
    BY <2>8, <2>9, <2>11, LargestJoin
  <2>13. /\ Largest(desired'.cluster, Own("cluster", S) \cup {z.cluster})
         /\ Covers(desired'.cluster, Own("cluster", S) \cup {z.cluster})
    BY <2>8, <2>9, <2>11, LargestJoin
  <2>. QED  BY <1>2, <2>2, <2>5, <2>6, <2>12, <2>13 DEF LargestInv
<1>7. CASE StartUpdate
  <2>1. /\ summary' = Nothing /\ DOMAIN crs \ todo' = {} /\ UNCHANGED <<next, desired>>
        /\ pc = "update" /\ pc' \in {"failed", "summarize"}
    BY <1>7 DEF StartUpdate
  <2>2. \A part : Raised(part, {}) = {}
    BY DEF Raised
  <2>3. DOMAIN Nothing.spec = {} /\ DOMAIN Nothing.cluster = {}
    BY NoneIsEmpty DEF Nothing
  <2>4. /\ Largest(Nothing.spec, {}) /\ Covers(Nothing.spec, {})
        /\ Largest(Nothing.cluster, {}) /\ Covers(Nothing.cluster, {})
    BY <2>3, LargestOfNothing
  <2>. QED  BY <1>1, <1>2, <2>1, <2>2, <2>4 DEF LargestInv
<1>8. ASSUME NEW i \in todo, SummarizeNext(i)
      PROVE  LargestInv'
  <2>. DEFINE S == DOMAIN crs \ todo
              cr == AtLargestSize(crs[i])
              z == extractSizeConfigs(cr)
  <2>1. /\ summary' = mergeCSCRs(summary, cr, mapping) /\ todo' = todo \ {i}
        /\ UNCHANGED <<next, desired>> /\ pc = "summarize" /\ pc' = "summarize"
    BY <1>8 DEF SummarizeNext
  <2>2. i \in DOMAIN crs /\ IsCR(cr)
    BY AtLargestSizeIsCR DEF TypeInv, Inputs
  <2>3. DOMAIN crs \ todo' = S \cup {i}
    BY <2>1, <2>2
  <2>4. /\ Raised("spec", S \cup {i}) = Raised("spec", S) \cup {z.spec}
        /\ Raised("cluster", S \cup {i}) = Raised("cluster", S) \cup {z.cluster}
    BY OneMore
  <2>5. AreSizes(Raised("spec", S)) /\ AreSizes(Raised("cluster", S))
    BY <1>4
  <2>6. /\ Largest(summary.spec, Raised("spec", S)) /\ Covers(summary.spec, Raised("spec", S))
        /\ Largest(summary.cluster, Raised("cluster", S))
        /\ Covers(summary.cluster, Raised("cluster", S))
    BY <2>1 DEF LargestInv
  <2>. HIDE DEF S, cr
  <2>7. /\ Largest(summary'.spec, Raised("spec", S) \cup {z.spec})
        /\ Covers(summary'.spec, Raised("spec", S) \cup {z.spec})
        /\ Largest(summary'.cluster, Raised("cluster", S) \cup {z.cluster})
        /\ Covers(summary'.cluster, Raised("cluster", S) \cup {z.cluster})
    BY <1>3, <2>1, <2>2, <2>5, <2>6, LargestSummary
  <2>. QED  BY <1>1, <1>2, <2>1, <2>3, <2>4, <2>7 DEF LargestInv
<1>9. CASE UpdateServices
  <2>1. /\ opcon' = mergeServicesWithBase(BaseServices, getExtremeizes)
        /\ UNCHANGED <<next, desired>> /\ pc = "summarize" /\ pc' = "done" /\ todo = {}
    BY <1>9 DEF UpdateServices
  <2>2. 1..(next - 1) = DOMAIN crs /\ DOMAIN crs \ todo = DOMAIN crs
    BY <2>1 DEF TypeInv, Inputs
  <2>3. \A s : ControllerOf(mapping, s) \notin NonDefaultControllers
    BY <1>3, NoOtherController
  <2>. DEFINE e1 == IF desired.spec = None THEN None
                    ELSE shrinkSize(desired.spec, summary.spec, FALSE)
              e2 == IF desired.cluster = None THEN None
                    ELSE shrinkSize(desired.cluster, summary.cluster, TRUE)
              S == DOMAIN crs
  <2>4. getExtremeizes = [spec |-> e1, cluster |-> e2]
    BY <2>3 DEF getExtremeizes
  <2>. HIDE DEF e1, e2
  <2>5. /\ opcon'.spec = mergeCRsIntoOperandConfig(BaseServices.spec, e1)
        /\ opcon'.cluster = mergeResourceArrays(BaseServices.cluster, e2, "default")
    BY <2>1, <2>4 DEF mergeServicesWithBase
  <2>6. "default" \notin NonDefaultControllers
    BY DEF NonDefaultControllers
  <2>7. Joined(opcon'.spec, BaseServices.spec, e1)
    BY <2>5, MergeJoins
  <2>8. Joined(opcon'.cluster, BaseServices.cluster, e2)
    BY <2>5, <2>6, ArraysJoin
  <2>9. /\ Largest(desired.spec, Own("spec", S)) /\ Covers(desired.spec, Own("spec", S))
        /\ Largest(desired.cluster, Own("cluster", S)) /\ Covers(desired.cluster, Own("cluster", S))
        /\ Largest(summary.spec, Raised("spec", S)) /\ Covers(summary.spec, Raised("spec", S))
        /\ Largest(summary.cluster, Raised("cluster", S))
        /\ Covers(summary.cluster, Raised("cluster", S))
    BY <2>1, <2>2 DEF LargestInv
  <2>10. /\ AreSizes(Own("spec", S) \cup Raised("spec", S))
         /\ AreSizes(Own("cluster", S) \cup Raised("cluster", S))
    BY <1>4 DEF AreSizes
  <2>. HIDE DEF S
  <2>11. /\ Largest(opcon'.spec, Own("spec", S) \cup Raised("spec", S))
         /\ Covers(opcon'.spec, Own("spec", S))
    BY <2>7, <2>9, <2>10, BaseIsNotSized, LargestFinal DEF e1
  <2>12. Largest(opcon'.cluster, Own("cluster", S) \cup Raised("cluster", S))
    BY <2>8, <2>9, <2>10, BaseIsNotSized, LargestFinal DEF e2
  <2>13. /\ Largest(desired'.spec, Own("spec", 1..(next' - 1)))
         /\ Covers(desired'.spec, Own("spec", 1..(next' - 1)))
         /\ Largest(desired'.cluster, Own("cluster", 1..(next' - 1)))
         /\ Covers(desired'.cluster, Own("cluster", 1..(next' - 1)))
    BY <2>1, <2>2, <2>9 DEF S
  <2>. QED  BY <1>1, <1>2, <2>1, <2>11, <2>12, <2>13 DEF LargestInv, S
<1>11. CASE UNCHANGED vars
  BY <1>1, <1>2, <1>11 DEF LargestInv, vars
<1>12. CASE UNCHANGED <<next, desired>> /\ pc' \notin {"summarize", "done"} /\ pc # "build"
  BY <1>1, <1>2, <1>12 DEF LargestInv
<1>13. CASE DesiredBuilt \/ InstallOrUpdateOpcon \/ \E i \in DOMAIN crs : InstallFromMaster(i)
  BY <1>12, <1>13 DEF DesiredBuilt, InstallOrUpdateOpcon, InstallFromMaster
<1>. QED
  BY <1>5, <1>6, <1>7, <1>8, <1>9, <1>11, <1>13 DEF Next

\* A size of the services flattened is the one of the part it belongs to.
LEMMA FlatSizes ==
    ASSUME NEW c, DOMAIN c.spec \subseteq SpecLeaves, DOMAIN c.cluster \subseteq ClusterLeaves
    PROVE  /\ \A f \in SizeFields : /\ f \in DOMAIN Flat(c) <=> f \in DOMAIN c.spec
                                    /\ f \in DOMAIN c.spec => Flat(c)[f] = c.spec[f]
           /\ \A f \in ClusterSizeFields : /\ f \in DOMAIN Flat(c) <=> f \in DOMAIN c.cluster
                                           /\ f \in DOMAIN c.cluster => Flat(c)[f] = c.cluster[f]
<1>1. /\ DOMAIN Flat(c) = DOMAIN c.spec \cup DOMAIN c.cluster
      /\ \A f \in DOMAIN c.spec \cup DOMAIN c.cluster :
            Flat(c)[f] = IF f \in DOMAIN c.spec THEN c.spec[f] ELSE c.cluster[f]
  BY DEF Flat, Over
<1>2. SizeFields \cap ClusterLeaves = {} /\ ClusterSizeFields \cap SpecLeaves = {}
  BY DEF SizeFields, ClusterSizeFields, SpecLeaves, ClusterLeaves
<1>. QED  BY <1>1, <1>2

\* The values asked for a field are those of its part.
LEMMA AskedOfPart ==
    ASSUME Inputs, NEW part \in {"spec", "cluster"}, NEW f,
           f \in (IF part = "spec" THEN SizeFields ELSE ClusterSizeFields)
    PROVE  \A v : v \in Asked(f) <=>
              \E x \in Own(part, DOMAIN crs) \cup Raised(part, DOMAIN crs) : f \in DOMAIN x /\ x[f] = v
<1>1. ASSUME NEW cr \in Asking
      PROVE  /\ f \in DOMAIN Flat(extractSizeConfigs(cr)) <=> f \in DOMAIN extractSizeConfigs(cr)[part]
             /\ f \in DOMAIN extractSizeConfigs(cr)[part]
                  => Flat(extractSizeConfigs(cr))[f] = extractSizeConfigs(cr)[part][f]
  <2>. DEFINE c == extractSizeConfigs(cr)
  <2>1. IsCR(cr)
    BY AtLargestSizeIsCR DEF Asking, Inputs
  <2>2. DOMAIN c.spec \subseteq SizeFields /\ DOMAIN c.cluster \subseteq ClusterSizeFields
    BY <2>1, SizesOfCR DEF SizesOf, Inputs
  <2>3. DOMAIN c.spec \subseteq SpecLeaves /\ DOMAIN c.cluster \subseteq ClusterLeaves
    BY <2>2 DEF SpecLeaves, ClusterLeaves
  <2>. HIDE DEF c
  <2>4. CASE part = "spec"
    BY <2>3, <2>4, FlatSizes DEF c
  <2>5. CASE part = "cluster"
    BY <2>3, <2>5, FlatSizes DEF c
  <2>. QED  BY <2>4, <2>5
<1>2. \A v : v \in Asked(f) <=>
         \E cr \in Asking : f \in DOMAIN Flat(extractSizeConfigs(cr)) /\ Flat(extractSizeConfigs(cr))[f] = v
  BY DEF Asked, Asks
<1>3. \A v : v \in Asked(f) <=>
         \E cr \in Asking : f \in DOMAIN extractSizeConfigs(cr)[part] /\ extractSizeConfigs(cr)[part][f] = v
  BY <1>1, <1>2
<1>4. Own(part, DOMAIN crs) \cup Raised(part, DOMAIN crs) = {extractSizeConfigs(cr)[part] : cr \in Asking}
  BY DEF Own, Raised, Asking
<1>. QED  BY <1>3, <1>4

\* Every size in the OperandConfig is the largest valid one that was asked for,
\* in whatever order getExtremeizes met the CRs, and no size a CR asks for is
\* missing: for every list of CRs, every build and every round, whatever the CRs
\* of earlier rounds asked for.
THEOREM LargestSizeWins == Spec => []LargestWins
<1>1. Init => LargestInv
  BY DEF Init, LargestInv
<1>2. TypeInv /\ MapInv /\ LargestInv => LargestWins
  <2>. SUFFICES ASSUME TypeInv, MapInv, LargestInv, pc = "done", DefaultControllers
                PROVE  LET final == Flat(opcon) IN
                       /\ \A cr \in {crs[i] : i \in DOMAIN crs} :
                             DOMAIN extractSizeConfigs(cr).spec \subseteq DOMAIN final
                       /\ \A f \in DOMAIN final \cap (SizeFields \cup ClusterSizeFields) :
                             \E asked \in {Asked(f)} :
                                 final[f] \in asked /\ IsLargest(final[f], asked)
    BY DEF LargestWins
  <2>1. AllDefault /\ Inputs
    BY DefaultMapping DEF TypeInv
  <2>2. /\ Largest(opcon.spec, Own("spec", DOMAIN crs) \cup Raised("spec", DOMAIN crs))
        /\ Covers(opcon.spec, Own("spec", DOMAIN crs))
        /\ Largest(opcon.cluster, Own("cluster", DOMAIN crs) \cup Raised("cluster", DOMAIN crs))
    BY <2>1 DEF LargestInv
  <2>3. /\ \A f \in SizeFields : /\ f \in DOMAIN Flat(opcon) <=> f \in DOMAIN opcon.spec
                                 /\ f \in DOMAIN opcon.spec => Flat(opcon)[f] = opcon.spec[f]
        /\ \A f \in ClusterSizeFields :
              /\ f \in DOMAIN Flat(opcon) <=> f \in DOMAIN opcon.cluster
              /\ f \in DOMAIN opcon.cluster => Flat(opcon)[f] = opcon.cluster[f]
    BY FlatSizes DEF TypeInv, IsParts
  <2>4. ASSUME NEW i \in DOMAIN crs
        PROVE  DOMAIN extractSizeConfigs(crs[i]).spec \subseteq DOMAIN Flat(opcon)
    <3>1. DOMAIN extractSizeConfigs(crs[i]).spec \subseteq SizeFields
      BY <2>1, SizesOfCR DEF Inputs, SizesOf
    <3>2. extractSizeConfigs(crs[i]).spec \in Own("spec", DOMAIN crs)
      BY DEF Own
    <3>3. DOMAIN extractSizeConfigs(crs[i]).spec \subseteq DOMAIN opcon.spec
      BY <2>2, <3>1, <3>2 DEF Covers, ComparableFields
    <3>. QED  BY <2>3, <3>1, <3>3
  <2>5. ASSUME NEW f \in ComparableFields, NEW part \in {"spec", "cluster"}, NEW c,
               f \in (IF part = "spec" THEN SizeFields ELSE ClusterSizeFields),
               f \in DOMAIN c, Largest(c, Own(part, DOMAIN crs) \cup Raised(part, DOMAIN crs))
        PROVE  c[f] \in Asked(f) /\ IsLargest(c[f], Asked(f))
    <3>. DEFINE X == Own(part, DOMAIN crs) \cup Raised(part, DOMAIN crs)
    <3>1. \A v : v \in Asked(f) <=> \E x \in X : f \in DOMAIN x /\ x[f] = v
      BY <2>1, <2>5, AskedOfPart
    <3>. HIDE DEF X
    <3>2. /\ \E x \in X : f \in DOMAIN x /\ x[f] = c[f]
          /\ Fit(X, f) =>
                \A x \in X : f \in DOMAIN x /\ Parses(x[f]) => Parses(c[f]) /\ ~Exceeds(x[f], c[f])
      BY <2>5 DEF Largest, X
    <3>3. Comparable(Asked(f)) => Fit(X, f)
      BY <3>1 DEF Comparable, Fit
    <3>. QED  BY <3>1, <3>2, <3>3 DEF IsLargest
  <2>6. ASSUME NEW f \in DOMAIN Flat(opcon) \cap (SizeFields \cup ClusterSizeFields)
        PROVE  Flat(opcon)[f] \in Asked(f) /\ IsLargest(Flat(opcon)[f], Asked(f))
    <3>1. f \in ComparableFields
      BY DEF ComparableFields
    <3>2. CASE f \in SizeFields
      BY <2>2, <2>3, <2>5, <3>1, <3>2
    <3>3. CASE f \in ClusterSizeFields
      BY <2>2, <2>3, <2>5, <3>1, <3>3
    <3>. QED  BY <3>2, <3>3
  <2>. QED  BY <2>4, <2>6
<1>. QED  BY <1>1, <1>2, LargestInvStep, OwnThroughout, PTL DEF Spec

-----------------------------------------------------------------------------
(***************************************************************************)
(* No request exceeds its limit                                            *)
(***************************************************************************)

\* A part whose sizes are quantities, with a limit for every request and a
\* request for every limit, and no request above its limit.
Sound(c) ==
    /\ Bounded(c)
    /\ \A p \in Pairs : p[1] \in DOMAIN c <=> p[2] \in DOMAIN c
    /\ \A f \in DOMAIN c \cap ComparableFields : IsSize(c[f]) /\ Parses(c[f])

\* Part c of the OperandConfig is bounded where this reconcile has sized it.
BoundedOn(c, d) == Bounded(Only(c, DOMAIN d))

\* What the merges are given is sound; of the OperandConfig, the aggregated part
\* is bounded once it is installed, and all of it once it is replaced.
SoundInv ==
    AllDefault /\ ConsistentOverrides =>
        /\ Sound(desired.spec) /\ Sound(desired.cluster)
        /\ Sound(summary.spec) /\ Sound(summary.cluster)
        /\ pc \in {"update", "summarize"} =>
              BoundedOn(opcon.spec, desired.spec) /\ BoundedOn(opcon.cluster, desired.cluster)
        /\ pc = "done" => Bounded(opcon.spec) /\ Bounded(opcon.cluster)

\* A request and its limit are sizes that the merges compare.
LEMMA PairFields == \A p \in Pairs : p[1] \in ComparableFields /\ p[2] \in ComparableFields
BY DEF Pairs, ComparableFields, SizeFields, ClusterSizeFields

\* A part without sizes is sound.
LEMMA UnsizedIsSound ==
    ASSUME NEW c, DOMAIN c \cap ComparableFields = {}
    PROVE  Sound(c)
BY PairFields DEF Sound, Bounded

\* The larger of two requests does not exceed the larger of their limits.
LEMMA LargerPair ==
    ASSUME NEW b1, NEW b2, NEW c1, NEW c2,
           IsSize(b1), IsSize(b2), IsSize(c1), IsSize(c2),
           Parses(b1), Parses(b2), Parses(c1), Parses(c2),
           ~Exceeds(b1, b2), ~Exceeds(c1, c2)
    PROVE  ~Exceeds(Large(b1, c1), Large(b2, c2))
<1>. DEFINE l == Large(b2, c2)
<1>1. l \in {b2, c2} /\ ~Exceeds(b2, l) /\ ~Exceeds(c2, l)
  BY LargeIsLargest
<1>2. IsSize(l) /\ Parses(l)
  BY <1>1
<1>. HIDE DEF l
<1>3. ~Exceeds(b1, l)
  BY <1>1, <1>2, ExceedsOrder
<1>4. ~Exceeds(c1, l)
  BY <1>1, <1>2, ExceedsOrder
<1>5. Large(b1, c1) \in {b1, c1}
  BY LargeIsLargest
<1>. QED  BY <1>3, <1>4, <1>5 DEF l

\* Two sound parts joined are sound.
LEMMA SoundJoin ==
    ASSUME NEW b, NEW c, NEW r, Sound(b), Sound(c), Joined(r, b, c)
    PROVE  Sound(r)
<1>1. ASSUME NEW f \in DOMAIN r \cap ComparableFields
      PROVE  IsSize(r[f]) /\ Parses(r[f])
  <2>1. CASE f \in DOMAIN b \ DOMAIN c
    BY <2>1 DEF Joined, Sound
  <2>2. CASE f \in DOMAIN c \ DOMAIN b
    BY <2>2 DEF Joined, Sound
  <2>3. CASE f \in DOMAIN b \cap DOMAIN c
    <3>1. r[f] = Large(b[f], c[f])
      BY <2>3 DEF Joined
    <3>2. IsSize(b[f]) /\ IsSize(c[f]) /\ Parses(b[f]) /\ Parses(c[f])
      BY <2>3 DEF Sound
    <3>3. r[f] \in {b[f], c[f]}
      BY <3>1, <3>2, LargeIsLargest
    <3>. QED  BY <3>2, <3>3
  <2>. QED  BY <2>1, <2>2, <2>3 DEF Joined
<1>2. \A p \in Pairs : p[1] \in DOMAIN r <=> p[2] \in DOMAIN r
  BY PairFields DEF Joined, Sound
<1>3. ASSUME NEW p \in Pairs, p[1] \in DOMAIN r, p[2] \in DOMAIN r
      PROVE  ~Exceeds(r[p[1]], r[p[2]])
  <2>1. p[1] \in ComparableFields /\ p[2] \in ComparableFields
    BY PairFields
  <2>2. (p[1] \in DOMAIN b <=> p[2] \in DOMAIN b) /\ (p[1] \in DOMAIN c <=> p[2] \in DOMAIN c)
    BY DEF Sound
  <2>3. p[1] \in DOMAIN b => /\ IsSize(b[p[1]]) /\ Parses(b[p[1]])
                             /\ IsSize(b[p[2]]) /\ Parses(b[p[2]])
                             /\ ~Exceeds(b[p[1]], b[p[2]])
    BY <2>1, <2>2 DEF Sound, Bounded
  <2>4. p[1] \in DOMAIN c => /\ IsSize(c[p[1]]) /\ Parses(c[p[1]])
                             /\ IsSize(c[p[2]]) /\ Parses(c[p[2]])
                             /\ ~Exceeds(c[p[1]], c[p[2]])
    BY <2>1, <2>2 DEF Sound, Bounded
  <2>5. CASE p[1] \in DOMAIN b \ DOMAIN c
    BY <2>1, <2>2, <2>3, <2>5 DEF Joined
  <2>6. CASE p[1] \in DOMAIN c \ DOMAIN b
    BY <2>1, <2>2, <2>4, <2>6 DEF Joined
  <2>7. CASE p[1] \in DOMAIN b \cap DOMAIN c
    <3>1. r[p[1]] = Large(b[p[1]], c[p[1]]) /\ r[p[2]] = Large(b[p[2]], c[p[2]])
      BY <2>1, <2>2, <2>7 DEF Joined
    <3>. QED  BY <2>3, <2>4, <2>7, <3>1, LargerPair
  <2>. QED  BY <1>3, <2>1, <2>5, <2>6, <2>7 DEF Joined
<1>. QED  BY <1>1, <1>2, <1>3 DEF Sound, Bounded

\* Comparing two sound parts leaves no request above its limit.
LEMMA SoundShrink ==
    ASSUME NEW b, NEW c, NEW k, Sound(b), Sound(c)
    PROVE  Bounded(shrinkSize(b, c, k))
<1>. DEFINE r == shrinkSize(b, c, k)
<1>1. /\ DOMAIN r \subseteq DOMAIN b \cup DOMAIN c
      /\ \A f \in DOMAIN r :
            /\ f \notin DOMAIN c => r[f] = b[f]
            /\ f \notin DOMAIN b => r[f] = c[f]
            /\ f \in DOMAIN b \cap DOMAIN c => r[f] = Large(b[f], c[f])
  BY ShrinkLeaves
<1>. HIDE DEF r
<1>2. ASSUME NEW p \in Pairs, p[1] \in DOMAIN r, p[2] \in DOMAIN r
      PROVE  ~Exceeds(r[p[1]], r[p[2]])
  <2>1. p[1] \in ComparableFields /\ p[2] \in ComparableFields
    BY PairFields
  <2>2. (p[1] \in DOMAIN b <=> p[2] \in DOMAIN b) /\ (p[1] \in DOMAIN c <=> p[2] \in DOMAIN c)
    BY DEF Sound
  <2>3. p[1] \in DOMAIN b => /\ IsSize(b[p[1]]) /\ Parses(b[p[1]])
                             /\ IsSize(b[p[2]]) /\ Parses(b[p[2]])
                             /\ ~Exceeds(b[p[1]], b[p[2]])
    BY <2>1, <2>2 DEF Sound, Bounded
  <2>4. p[1] \in DOMAIN c => /\ IsSize(c[p[1]]) /\ Parses(c[p[1]])
                             /\ IsSize(c[p[2]]) /\ Parses(c[p[2]])
                             /\ ~Exceeds(c[p[1]], c[p[2]])
    BY <2>1, <2>2 DEF Sound, Bounded
  <2>5. CASE p[1] \in DOMAIN b \ DOMAIN c
    BY <1>1, <1>2, <2>2, <2>3, <2>5
  <2>6. CASE p[1] \in DOMAIN c \ DOMAIN b
    BY <1>1, <1>2, <2>2, <2>4, <2>6
  <2>7. CASE p[1] \in DOMAIN b \cap DOMAIN c
    <3>1. r[p[1]] = Large(b[p[1]], c[p[1]]) /\ r[p[2]] = Large(b[p[2]], c[p[2]])
      BY <1>1, <1>2, <2>2, <2>7
    <3>. QED  BY <2>3, <2>4, <2>7, <3>1, LargerPair
  <2>. QED  BY <1>1, <1>2, <2>5, <2>6, <2>7
<1>3. Bounded(r)
  BY <1>2 DEF Bounded
<1>. QED  BY <1>3 DEF r

\* A part is bounded on the sizes that it takes over from a bounded one.
LEMMA BoundedTaken ==
    ASSUME NEW c, NEW d, NEW r, Bounded(c), DOMAIN d \cap ComparableFields \subseteq DOMAIN c,
           \A f \in DOMAIN d \cap ComparableFields : f \in DOMAIN r => r[f] = c[f]
    PROVE  BoundedOn(r, d)
<1>. DEFINE o == Only(r, DOMAIN d)
<1>1. DOMAIN o = DOMAIN r \cap DOMAIN d /\ \A f \in DOMAIN r \cap DOMAIN d : o[f] = r[f]
  BY DEF Only
<1>2. \A f \in ComparableFields : f \in DOMAIN o => f \in DOMAIN c /\ o[f] = c[f]
  BY <1>1
<1>. HIDE DEF o
<1>3. Bounded(o)
  BY <1>2, PairFields DEF Bounded
<1>. QED  BY <1>3 DEF BoundedOn, o

\* Over a base without sizes the bound is the one of the other part.
LEMMA BoundedKept ==
    ASSUME NEW base, DOMAIN base \cap ComparableFields = {}, NEW e, Bounded(e),
           NEW r, Joined(r, base, e)
    PROVE  Bounded(r)
<1>1. \A f \in ComparableFields : /\ f \in DOMAIN r <=> f \in DOMAIN e
                                  /\ f \in DOMAIN e => r[f] = e[f]
  BY DEF Joined
<1>. QED  BY <1>1, PairFields DEF Bounded

\* The order of the two halves of a quantity is the order of the numbers.
LEMMA HalvesOrder ==
    \A x, y \in Nat : x <= y =>
        \/ x \div 1000000 < y \div 1000000
        \/ x \div 1000000 = y \div 1000000 /\ x % 1000000 <= y % 1000000
OBVIOUS

\* Of two quantities in thousandths, or in mebibytes, the one with the smaller
\* number does not exceed the other.
LEMMA SameUnitOrder ==
    ASSUME NEW a \in Nat, NEW b \in Nat, a <= b
    PROVE  /\ Parses(Str(a, "m")) /\ Parses(Str(a, "Mi"))
           /\ ~Exceeds(Str(a, "m"), Str(b, "m"))
           /\ ~Exceeds(Str(a, "Mi"), Str(b, "Mi"))
<1>1. ASSUME NEW n, NEW u \in {"m", "Mi"}
      PROVE  normalizeResourceQuantity(AsString(Str(n, u))) = Str(n, u)
  <2>1. PICK s : s = Str(n, u)
    OBVIOUS
  <2>2. s.t = "str" /\ s.u \in {"m", "Mi"}
    BY <2>1 DEF Str
  <2>3. AsString(s) = s
    BY <2>2 DEF AsString
  <2>4. normalizeResourceQuantity(s) = s
    BY <2>2 DEF normalizeResourceQuantity
  <2>. QED  BY <2>1, <2>3, <2>4
<1>2. Parses(Str(a, "m")) /\ Parses(Str(a, "Mi"))
  BY <1>1 DEF Parses, Str, Unit
<1>3. ASSUME NEW n \in Nat, NEW u \in {"m", "Mi"}
      PROVE  /\ Quantity(Str(n, u))[1] = n * Unit[u][1] + (n * Unit[u][2]) \div 1000000
             /\ Quantity(Str(n, u))[2] = (n * Unit[u][2]) % 1000000
  <2>1. PICK s : s = normalizeResourceQuantity(AsString(Str(n, u)))
    OBVIOUS
  <2>2. s.n = n /\ s.u = u
    <3>1. s = Str(n, u)
      BY <1>1, <2>1
    <3>. QED  BY <3>1 DEF Str
  <2>3. /\ Quantity(Str(n, u))[1] = s.n * Unit[s.u][1] + (s.n * Unit[s.u][2]) \div 1000000
        /\ Quantity(Str(n, u))[2] = (s.n * Unit[s.u][2]) % 1000000
    BY <2>1 DEF Quantity, ParseQuantity
  <2>. QED  BY <2>2, <2>3
<1>4. /\ Unit["m"][1] = 0 /\ Unit["m"][2] = 1
      /\ Unit["Mi"][1] = 1048 /\ Unit["Mi"][2] = 576000
  BY SMT DEF Unit
<1>5. ~Exceeds(Str(a, "m"), Str(b, "m"))
  <2>1. \/ a \div 1000000 < b \div 1000000
        \/ a \div 1000000 = b \div 1000000 /\ a % 1000000 <= b % 1000000
    BY HalvesOrder
  <2>2. \A n \in Nat : n * 1 = n /\ n * 0 = 0 /\ n \div 1000000 \in Int /\ 0 + n \div 1000000 = n \div 1000000
    OBVIOUS
  <2>3. \A n \in Nat : /\ Quantity(Str(n, "m"))[1] = n \div 1000000
                       /\ Quantity(Str(n, "m"))[2] = n % 1000000
    BY <1>3, <1>4, <2>2
  <2>. QED  BY <2>1, <2>3 DEF Exceeds, Greater
<1>6. ~Exceeds(Str(a, "Mi"), Str(b, "Mi"))
  <2>. DEFINE x == a * 576000
              y == b * 576000
  <2>1. x \in Nat /\ y \in Nat /\ x <= y /\ a * 1048 <= b * 1048
    OBVIOUS
  <2>2. /\ Quantity(Str(a, "Mi"))[1] = a * 1048 + x \div 1000000
        /\ Quantity(Str(a, "Mi"))[2] = x % 1000000
        /\ Quantity(Str(b, "Mi"))[1] = b * 1048 + y \div 1000000
        /\ Quantity(Str(b, "Mi"))[2] = y % 1000000
    <3>1. /\ Quantity(Str(a, "Mi"))[1] = a * Unit["Mi"][1] + (a * Unit["Mi"][2]) \div 1000000
          /\ Quantity(Str(a, "Mi"))[2] = (a * Unit["Mi"][2]) % 1000000
      BY <1>3
    <3>2. /\ Quantity(Str(b, "Mi"))[1] = b * Unit["Mi"][1] + (b * Unit["Mi"][2]) \div 1000000
          /\ Quantity(Str(b, "Mi"))[2] = (b * Unit["Mi"][2]) % 1000000
      BY <1>3
    <3>. QED  BY <1>4, <3>1, <3>2
  <2>. HIDE DEF x, y
  <2>3. \/ x \div 1000000 < y \div 1000000
        \/ x \div 1000000 = y \div 1000000 /\ x % 1000000 <= y % 1000000
    BY <2>1, HalvesOrder
  <2>. QED  BY <2>1, <2>2, <2>3 DEF Exceeds, Greater
<1>. QED  BY <1>2, <1>5, <1>6

\* A part laid over another, both sound, is sound.
LEMMA SoundOver ==
    ASSUME NEW c, NEW d, Sound(c), Sound(d), NEW r, DOMAIN r = DOMAIN c \cup DOMAIN d,
           \A f \in DOMAIN r : r[f] = IF f \in DOMAIN c THEN c[f] ELSE d[f]
    PROVE  Sound(r)
<1>1. \A p \in Pairs : p[1] \in DOMAIN r <=> p[2] \in DOMAIN r
  BY DEF Sound
<1>2. \A f \in DOMAIN r \cap ComparableFields : IsSize(r[f]) /\ Parses(r[f])
  BY DEF Sound
<1>3. ASSUME NEW p \in Pairs, p[1] \in DOMAIN r, p[2] \in DOMAIN r,
             Parses(r[p[1]]), Parses(r[p[2]])
      PROVE  ~Exceeds(r[p[1]], r[p[2]])
  <2>1. (p[1] \in DOMAIN c <=> p[2] \in DOMAIN c) /\ (p[1] \in DOMAIN d <=> p[2] \in DOMAIN d)
    BY DEF Sound
  <2>2. CASE p[1] \in DOMAIN c
    BY <1>3, <2>1, <2>2 DEF Sound, Bounded
  <2>3. CASE p[1] \notin DOMAIN c
    BY <1>3, <2>1, <2>3 DEF Sound, Bounded
  <2>. QED  BY <2>2, <2>3
<1>. QED  BY <1>1, <1>2, <1>3 DEF Sound, Bounded

\* Every size template is sound.
LEMMA TemplateIsSound ==
    ASSUME built \in Builds, NEW profile \in Profiles
    PROVE  Sound(SizeTemplateConfig(profile).spec) /\ Sound(SizeTemplateConfig(profile).cluster)
<1>. DEFINE row == SizeTemplate(built[1], profile)[built[2]]
            db == SizeTemplate(built[1], profile)[6]
            first == IF row[1] = 0 THEN None ELSE [replicas |-> Num(row[1])]
            rest == [cpuRequest |-> Str(row[2], "m"), cpuLimit |-> Str(row[3], "m"),
                     memoryRequest |-> Str(row[4], "Mi"), memoryLimit |-> Str(row[5], "Mi")]
            cluster == [instances |-> Num(db[1]), dbCpuRequest |-> Str(db[2], "m"),
                        dbCpuLimit |-> Str(db[3], "m")]
            t == SizeTemplateConfig(profile)
<1>1. row \in Rows /\ db \in Rows
  BY TemplateRow DEF Builds
<1>2. t.spec = Over(first, rest) /\ t.cluster = cluster
  BY DEF SizeTemplateConfig
<1>3. /\ \A k \in 1..5 : row[k] \in Nat /\ db[k] \in Nat
      /\ row[2] <= row[3] /\ row[4] <= row[5] /\ db[2] <= db[3]
  BY <1>1 DEF Rows
<1>4. SizesOf(t.spec, SizeFields) /\ SizesOf(t.cluster, ClusterSizeFields)
  BY TemplateSizes
<1>. HIDE DEF row, db
<1>5. /\ ~Exceeds(Str(row[2], "m"), Str(row[3], "m"))
      /\ ~Exceeds(Str(row[4], "Mi"), Str(row[5], "Mi"))
      /\ ~Exceeds(Str(db[2], "m"), Str(db[3], "m"))
  BY <1>3, SameUnitOrder
<1>6. /\ Parses(Str(row[2], "m")) /\ Parses(Str(row[3], "m"))
      /\ Parses(Str(row[4], "Mi")) /\ Parses(Str(row[5], "Mi"))
      /\ Parses(Str(db[2], "m")) /\ Parses(Str(db[3], "m"))
  BY <1>3, SameUnitOrder
<1>7. Parses(Num(row[1])) /\ Parses(Num(db[1]))
  BY NumberParses DEF Num
<1>8. DOMAIN first \subseteq {"replicas"} /\ \A f \in DOMAIN first : Parses(first[f])
  <2>1. CASE row[1] = 0
    BY <2>1, NoneIsEmpty
  <2>2. CASE row[1] # 0
    <3>1. first = [replicas |-> Num(row[1])]
      BY <2>2
    <3>. QED  BY <1>7, <3>1
  <2>. QED  BY <2>1, <2>2
<1>9. /\ DOMAIN rest = {"cpuRequest", "cpuLimit", "memoryRequest", "memoryLimit"}
      /\ rest["cpuRequest"] = Str(row[2], "m") /\ rest["cpuLimit"] = Str(row[3], "m")
      /\ rest["memoryRequest"] = Str(row[4], "Mi") /\ rest["memoryLimit"] = Str(row[5], "Mi")
  OBVIOUS
<1>10. /\ DOMAIN cluster = {"instances", "dbCpuRequest", "dbCpuLimit"}
       /\ cluster["instances"] = Num(db[1])
       /\ cluster["dbCpuRequest"] = Str(db[2], "m") /\ cluster["dbCpuLimit"] = Str(db[3], "m")
  OBVIOUS
<1>11. /\ DOMAIN Over(first, rest) = DOMAIN first \cup DOMAIN rest
       /\ \A f \in DOMAIN first \cup DOMAIN rest :
             Over(first, rest)[f] = IF f \in DOMAIN first THEN first[f] ELSE rest[f]
  BY DEF Over
<1>. HIDE DEF first, rest, cluster, t
<1>12. Sound(t.cluster)
  <2>1. \A f \in DOMAIN t.cluster : IsSize(t.cluster[f])
    BY <1>4 DEF SizesOf
  <2>2. \A f \in DOMAIN t.cluster : Parses(t.cluster[f])
    BY <1>2, <1>6, <1>7, <1>10
  <2>3. \A p \in Pairs : p[1] \in DOMAIN t.cluster <=> p[2] \in DOMAIN t.cluster
    BY <1>2, <1>10 DEF Pairs
  <2>4. Bounded(t.cluster)
    BY <1>2, <1>5, <1>10 DEF Bounded, Pairs
  <2>. QED  BY <2>1, <2>2, <2>3, <2>4 DEF Sound
<1>13. Sound(t.spec)
  <2>1. \A f \in DOMAIN t.spec : IsSize(t.spec[f])
    BY <1>4 DEF SizesOf
  <2>2. \A f \in DOMAIN t.spec : Parses(t.spec[f])
    BY <1>2, <1>6, <1>8, <1>9, <1>11
  <2>3. \A p \in Pairs : p[1] \in DOMAIN t.spec <=> p[2] \in DOMAIN t.spec
    BY <1>2, <1>8, <1>9, <1>11 DEF Pairs
  <2>4. Bounded(t.spec)
    <3>1. /\ t.spec["cpuRequest"] = Str(row[2], "m") /\ t.spec["cpuLimit"] = Str(row[3], "m")
          /\ t.spec["memoryRequest"] = Str(row[4], "Mi") /\ t.spec["memoryLimit"] = Str(row[5], "Mi")
          /\ "dbCpuRequest" \notin DOMAIN t.spec
      BY <1>2, <1>8, <1>9, <1>11
    <3>. QED  BY <1>5, <3>1 DEF Bounded, Pairs
  <2>. QED  BY <2>1, <2>2, <2>3, <2>4 DEF Sound
<1>. QED  BY <1>12, <1>13 DEF t

\* What ConsistentOverrides says of one CR.
Consistent(cr) ==
    /\ Bounded(cr.custom)
    /\ \A p \in Pairs : p[1] \in DOMAIN cr.custom <=> p[2] \in DOMAIN cr.custom
    /\ \A f \in DOMAIN cr.custom : Parses(cr.custom[f])

\* What a CR with consistent overrides asks for is sound: a value of the
\* template is overridden together with its counterpart.
LEMMA SizesAreSound ==
    ASSUME built \in Builds, NEW cr, IsCR(cr), Consistent(cr)
    PROVE  Sound(extractSizeConfigs(cr).spec) /\ Sound(extractSizeConfigs(cr).cluster)
<1>. DEFINE profile == Template(cr.size)
            template == IF profile = "custom" THEN Nothing ELSE SizeTemplateConfig(profile)
            scaled == shrinkSize(template.spec, cr.custom, FALSE)
            r == Over(cr.custom, scaled)
<1>1. profile \in Profiles \cup {"custom"}
  BY DEF Template, Profiles
<1>2. /\ DOMAIN template = {"spec", "cluster"}
      /\ Sound(template.spec) /\ Sound(template.cluster)
  <2>1. CASE profile = "custom"
    <3>1. template = Nothing
      BY <2>1
    <3>2. DOMAIN Nothing.spec = {} /\ DOMAIN Nothing.cluster = {} /\ DOMAIN Nothing = {"spec", "cluster"}
      BY NoneIsEmpty DEF Nothing
    <3>3. Sound(Nothing.spec) /\ Sound(Nothing.cluster)
      BY <3>2, UnsizedIsSound
    <3>. QED  BY <3>1, <3>2, <3>3
  <2>2. CASE profile # "custom"
    <3>1. DOMAIN SizeTemplateConfig(profile) = {"spec", "cluster"}
      BY DEF SizeTemplateConfig
    <3>. QED  BY <1>1, <2>2, <3>1, TemplateIsSound
  <2>. QED  BY <2>1, <2>2
<1>3. extractSizeConfigs(cr) = [template EXCEPT !.spec = r]
  BY DEF extractSizeConfigs, mergeSizeProfile
<1>4. Sound(cr.custom)
  BY DEF IsCR, Consistent, Sound
<1>. HIDE DEF template
<1>5. /\ DOMAIN template.spec \subseteq DOMAIN scaled
      /\ DOMAIN scaled \subseteq DOMAIN template.spec \cup DOMAIN cr.custom
      /\ \A f \in DOMAIN scaled : f \notin DOMAIN cr.custom => scaled[f] = template.spec[f]
  BY DEF shrinkSize
<1>. HIDE DEF scaled
<1>6. /\ DOMAIN r = DOMAIN cr.custom \cup DOMAIN scaled
      /\ \A f \in DOMAIN r : r[f] = IF f \in DOMAIN cr.custom THEN cr.custom[f] ELSE scaled[f]
  BY DEF Over
<1>. HIDE DEF r
<1>7. DOMAIN r = DOMAIN cr.custom \cup DOMAIN template.spec
  BY <1>5, <1>6
<1>8. \A f \in DOMAIN r : r[f] = IF f \in DOMAIN cr.custom THEN cr.custom[f] ELSE template.spec[f]
  BY <1>5, <1>6
<1>9. Sound(r)
  BY <1>2, <1>4, <1>7, <1>8, SoundOver
<1>. QED  BY <1>2, <1>3, <1>9

\* The CRs, with their own size or with the largest one, are consistent.
LEMMA ConsistentCRs ==
    ASSUME Inputs, ConsistentOverrides, NEW i \in DOMAIN crs
    PROVE  /\ IsCR(crs[i]) /\ Consistent(crs[i])
           /\ IsCR(AtLargestSize(crs[i])) /\ Consistent(AtLargestSize(crs[i]))
<1>1. IsCR(crs[i]) /\ Consistent(crs[i])
  BY DEF Inputs, ConsistentOverrides, Consistent
<1>2. IsCR(AtLargestSize(crs[i])) /\ AtLargestSize(crs[i]).custom = crs[i].custom
  BY <1>1, AtLargestSizeIsCR
<1>. QED  BY <1>1, <1>2 DEF Consistent

\* A sound item merged into a sound summary, and the configuration of a CR.
LEMMA SoundMerge ==
    ASSUME NEW m, NoOther(m), NEW sum, Sound(sum.spec), Sound(sum.cluster)
    PROVE  /\ \A item : Sound(item.spec) /\ Sound(item.cluster)
                 => /\ Sound(mergeCSCR(m, sum, item).spec)
                    /\ Sound(mergeCSCR(m, sum, item).cluster)
           /\ \A cr : built \in Builds /\ IsCR(cr) /\ Consistent(cr)
                 => /\ Sound(mergeCSCRs(sum, cr, m).spec)
                    /\ Sound(mergeCSCRs(sum, cr, m).cluster)
<1>1. ASSUME NEW s, Sound(s.spec), Sound(s.cluster),
             NEW item, Sound(item.spec), Sound(item.cluster)
      PROVE  /\ Sound(mergeCSCR(m, s, item).spec)
             /\ Sound(mergeCSCR(m, s, item).cluster)
  <2>. DEFINE r == mergeCSCR(m, s, item)
  <2>1. \A x : ControllerOf(m, x) \notin NonDefaultControllers
    BY NoOtherController
  <2>2. Joined(r.spec, s.spec, item.spec) /\ Joined(r.cluster, s.cluster, item.cluster)
    BY <2>1, DefaultMergeJoins
  <2>. HIDE DEF r
  <2>3. Sound(r.spec)
    BY <1>1, <2>2, SoundJoin
  <2>4. Sound(r.cluster)
    BY <1>1, <2>2, SoundJoin
  <2>. QED  BY <2>3, <2>4 DEF r
<1>2. ASSUME NEW cr, built \in Builds, IsCR(cr), Consistent(cr)
      PROVE  Sound(mergeCSCRs(sum, cr, m).spec) /\ Sound(mergeCSCRs(sum, cr, m).cluster)
  <2>. DEFINE e == extractFeatureConfigs(cr)
              z == extractSizeConfigs(cr)
              first == mergeCSCR(m, sum, e)
  <2>1. Sound(e.spec) /\ Sound(e.cluster)
    BY FeaturesAreNotSizes, UnsizedIsSound
  <2>2. Sound(z.spec) /\ Sound(z.cluster)
    BY <1>2, SizesAreSound
  <2>3. mergeCSCRs(sum, cr, m) = mergeCSCR(m, first, z)
    BY DEF mergeCSCRs
  <2>. HIDE DEF e, z
  <2>4. Sound(first.spec) /\ Sound(first.cluster)
    BY <1>1, <2>1
  <2>. HIDE DEF first
  <2>. QED  BY <1>1, <2>2, <2>3, <2>4
<1>. QED  BY <1>1, <1>2

\* The services written over those of an earlier round are bounded where they
\* are the new ones.
LEMMA BoundedWithExisting ==
    ASSUME NEW old, NEW new, DOMAIN new = {"spec", "cluster"}, Bounded(new.spec), Bounded(new.cluster),
           NEW d, DOMAIN d.spec \cap ComparableFields \subseteq DOMAIN new.spec,
           DOMAIN d.cluster \cap ComparableFields \subseteq DOMAIN new.cluster
    PROVE  /\ BoundedOn(MergeWithExisting(old, new).spec, d.spec)
           /\ BoundedOn(MergeWithExisting(old, new).cluster, d.cluster)
<1>. DEFINE r == MergeWithExisting(old, new)
<1>1. r.cluster = new.cluster /\ (r.spec = new.spec \/ r.spec = Over(new.spec, old.spec))
  BY DEF MergeWithExisting
<1>2. \A f \in DOMAIN new.spec : Over(new.spec, old.spec)[f] = new.spec[f]
  BY DEF Over
<1>. HIDE DEF r
<1>3. \A f \in DOMAIN d.spec \cap ComparableFields : f \in DOMAIN r.spec => r.spec[f] = new.spec[f]
  BY <1>1, <1>2
<1>4. BoundedOn(r.spec, d.spec)
  BY <1>3, BoundedTaken
<1>5. BoundedOn(r.cluster, d.cluster)
  BY <1>1, BoundedTaken
<1>. QED  BY <1>4, <1>5 DEF r

\* Every step keeps the services sound and their part of the OperandConfig bounded.
LEMMA SoundInvStep == TypeInv /\ MapInv /\ SoundInv /\ [Next]_vars => SoundInv'
<1>. SUFFICES ASSUME TypeInv, MapInv, SoundInv, [Next]_vars
              PROVE  SoundInv'
  OBVIOUS
<1>0. DOMAIN Nothing.spec = {} /\ DOMAIN Nothing.cluster = {}
  BY NoneIsEmpty DEF Nothing
<1>9. Sound(Nothing.spec) /\ Sound(Nothing.cluster)
  BY <1>0, UnsizedIsSound
<1>13. CASE NextRound
  <2>1. desired' = Nothing /\ summary' = Nothing /\ pc' = "build"
    BY <1>13 DEF NextRound
  <2>. QED  BY <1>9, <2>1 DEF SoundInv
<1>. SUFFICES ASSUME ~NextRound
              PROVE  SoundInv'
  BY <1>13
<1>1. crs' = crs /\ built' = built
  BY InputsStay
<1>. SUFFICES ASSUME AllDefault, ConsistentOverrides
              PROVE  SoundInv'
  <2>1. AllDefault' = AllDefault
    BY <1>1, AskedStays
  <2>2. ConsistentOverrides' = ConsistentOverrides
    BY <1>1 DEF ConsistentOverrides
  <2>. QED  BY <2>1, <2>2 DEF SoundInv
<1>2. Inputs /\ built \in Builds /\ NoOther(mapping)
  BY NoOtherController DEF TypeInv, Inputs
<1>3. /\ Sound(desired.spec) /\ Sound(desired.cluster)
      /\ Sound(summary.spec) /\ Sound(summary.cluster)
      /\ pc \in {"update", "summarize"} =>
            BoundedOn(opcon.spec, desired.spec) /\ BoundedOn(opcon.cluster, desired.cluster)
  BY DEF SoundInv
<1>4. Sound(BaseServices.spec) /\ Sound(BaseServices.cluster)
  BY BaseIsNotSized, UnsizedIsSound
<1>5. CASE BuildDesired
  <2>1. desired' = FeatureLayer /\ UNCHANGED summary /\ pc' = "apply"
    BY <1>5 DEF BuildDesired
  <2>2. Sound(FeatureLayer.spec) /\ Sound(FeatureLayer.cluster)
    BY FeatureLayerIsNotSized, UnsizedIsSound
  <2>. QED  BY <1>3, <2>1, <2>2 DEF SoundInv
<1>6. CASE ApplyCR
  <2>. DEFINE z == extractSizeConfigs(crs[next])
  <2>1. next \in DOMAIN crs
    BY <1>6 DEF ApplyCR, TypeInv, Inputs
  <2>2. PICK m : m = mapping'
    OBVIOUS
  <2>3. NoOther(m)
    <3>1. m = mergeProfileController(mapping, serviceControllerMapping(crs[next]))
      BY <1>6, <2>2 DEF ApplyCR
    <3>2. NoOther(serviceControllerMapping(crs[next]))
      BY <2>1, NoOtherController DEF AllDefault
    <3>. QED  BY <1>2, <3>1, <3>2, NoOtherController
  <2>4. desired' = mergeCSCR(m, desired, z) /\ UNCHANGED summary /\ pc' = "apply"
    BY <1>6, <2>2 DEF ApplyCR
  <2>5. Sound(z.spec) /\ Sound(z.cluster)
    BY <1>2, <2>1, ConsistentCRs, SizesAreSound
  <2>. HIDE DEF z
  <2>6. Sound(desired'.spec) /\ Sound(desired'.cluster)
    BY <1>3, <2>3, <2>4, <2>5, SoundMerge
  <2>. QED  BY <1>3, <2>4, <2>6 DEF SoundInv
<1>7. CASE InstallOrUpdateOpcon
  <2>. DEFINE new == mergeCSCR(mapping, BaseServices, desired)
  <2>1. opcon' = MergeWithExisting(opcon, new) /\ UNCHANGED <<desired, summary>> /\ pc' = "update"
    BY <1>7 DEF InstallOrUpdateOpcon
  <2>2. Sound(new.spec) /\ Sound(new.cluster)
    BY <1>2, <1>3, <1>4, SoundMerge
  <2>3. DOMAIN new = {"spec", "cluster"}
    BY DEF mergeCSCR
  <2>4. \A x : ControllerOf(mapping, x) \notin NonDefaultControllers
    BY <1>2, NoOtherController
  <2>5. /\ Joined(new.spec, BaseServices.spec, desired.spec)
        /\ Joined(new.cluster, BaseServices.cluster, desired.cluster)
    BY <2>4, DefaultMergeJoins
  <2>. HIDE DEF new
  <2>6. /\ DOMAIN desired.spec \cap ComparableFields \subseteq DOMAIN new.spec
        /\ DOMAIN desired.cluster \cap ComparableFields \subseteq DOMAIN new.cluster
    BY <2>5 DEF Joined
  <2>7. BoundedOn(opcon'.spec, desired.spec) /\ BoundedOn(opcon'.cluster, desired.cluster)
    BY <2>1, <2>2, <2>3, <2>6, BoundedWithExisting DEF Sound
  <2>. QED  BY <1>3, <2>1, <2>7 DEF SoundInv
<1>8. ASSUME NEW i \in DOMAIN crs, InstallFromMaster(i)
      PROVE  SoundInv'
  <2>1. desired = Nothing /\ UNCHANGED <<desired, summary>> /\ pc' \in {"failed", "update"}
    BY <1>8 DEF InstallFromMaster
  <2>2. ASSUME NEW c, NEW d, DOMAIN d = {}
        PROVE  BoundedOn(c, d)
    BY <2>2 DEF BoundedOn, Bounded, Only
  <2>3. BoundedOn(opcon'.spec, desired.spec) /\ BoundedOn(opcon'.cluster, desired.cluster)
    BY <1>0, <2>1, <2>2
  <2>. QED  BY <1>3, <2>1, <2>3 DEF SoundInv
<1>14. CASE StartUpdate
  <2>1. summary' = Nothing /\ UNCHANGED <<desired, opcon>> /\ pc = "update" /\ pc' # "done"
    BY <1>14 DEF StartUpdate
  <2>. QED  BY <1>3, <1>9, <2>1 DEF SoundInv
<1>10. ASSUME NEW i \in todo, SummarizeNext(i)
       PROVE  SoundInv'
  <2>. DEFINE cr == AtLargestSize(crs[i])
  <2>1. summary' = mergeCSCRs(summary, cr, mapping) /\ UNCHANGED <<pc, desired, opcon>> /\ pc = "summarize"
    BY <1>10 DEF SummarizeNext
  <2>2. IsCR(cr) /\ Consistent(cr)
    BY <1>2, ConsistentCRs DEF TypeInv
  <2>. HIDE DEF cr
  <2>3. Sound(summary'.spec) /\ Sound(summary'.cluster)
    BY <1>2, <1>3, <2>1, <2>2, SoundMerge
  <2>. QED  BY <1>3, <2>1, <2>3 DEF SoundInv
<1>11. CASE UpdateServices
  <2>1. opcon' = mergeServicesWithBase(BaseServices, getExtremeizes) /\ UNCHANGED <<desired, summary>> /\ pc' = "done"
    BY <1>11 DEF UpdateServices
  <2>2. \A s : ControllerOf(mapping, s) \notin NonDefaultControllers
    BY <1>2, NoOtherController
  <2>. DEFINE s1 == shrinkSize(desired.spec, summary.spec, FALSE)
              s2 == shrinkSize(desired.cluster, summary.cluster, TRUE)
              e1 == IF desired.spec = None THEN None ELSE s1
              e2 == IF desired.cluster = None THEN None ELSE s2
  <2>3. getExtremeizes = [spec |-> e1, cluster |-> e2]
    BY <2>2 DEF getExtremeizes
  <2>4. Bounded(s1) /\ Bounded(s2)
    BY <1>3, SoundShrink
  <2>5. Bounded(None)
    BY NoneIsEmpty DEF Bounded
  <2>. HIDE DEF s1, s2
  <2>6. Bounded(e1) /\ Bounded(e2)
    BY <2>4, <2>5
  <2>. HIDE DEF e1, e2
  <2>7. /\ opcon'.spec = mergeCRsIntoOperandConfig(BaseServices.spec, e1)
        /\ opcon'.cluster = mergeResourceArrays(BaseServices.cluster, e2, "default")
    BY <2>1, <2>3 DEF mergeServicesWithBase
  <2>8. "default" \notin NonDefaultControllers
    BY DEF NonDefaultControllers
  <2>9. Joined(opcon'.spec, BaseServices.spec, e1)
    BY <2>7, MergeJoins
  <2>10. Joined(opcon'.cluster, BaseServices.cluster, e2)
    BY <2>7, <2>8, ArraysJoin
  <2>11. Bounded(opcon'.spec)
    BY <2>6, <2>9, BaseIsNotSized, BoundedKept
  <2>12. Bounded(opcon'.cluster)
    BY <2>6, <2>10, BaseIsNotSized, BoundedKept
  <2>. QED  BY <1>3, <2>1, <2>11, <2>12 DEF SoundInv
<1>12. CASE DesiredBuilt
  <2>1. UNCHANGED <<desired, summary>> /\ pc' = "install"
    BY <1>12 DEF DesiredBuilt
  <2>. QED  BY <1>3, <2>1 DEF SoundInv
<1>15. CASE UNCHANGED vars
  <2>1. UNCHANGED <<pc, desired, summary, opcon>>
    BY <1>15 DEF vars
  <2>. QED  BY <2>1 DEF SoundInv
<1>. QED
  BY <1>5, <1>6, <1>7, <1>8, <1>10, <1>11, <1>12, <1>14, <1>15 DEF Next

\* No request in the OperandConfig exceeds its limit after a complete reconcile,
\* nor, from InstallOrUpdateOpcon on, among the sizes this reconcile has
\* aggregated: for any number of CRs with consistent overrides, every mix of
\* profiles, every container, every build and whatever earlier CRs left, although
\* the request and the limit may come from different CRs and profiles.
THEOREM RequestsWithinLimits == Spec => []Schedulable
<1>1. Init => SoundInv
  <2>. SUFFICES ASSUME Init
                PROVE  SoundInv
    OBVIOUS
  <2>1. DOMAIN Nothing.spec = {} /\ DOMAIN Nothing.cluster = {}
    BY NoneIsEmpty DEF Nothing
  <2>2. Sound(Nothing.spec) /\ Sound(Nothing.cluster)
    BY <2>1, UnsizedIsSound
  <2>. QED  BY <2>2 DEF Init, SoundInv
<1>2. TypeInv /\ MapInv /\ SoundInv => Schedulable
  <2>. SUFFICES ASSUME TypeInv, MapInv, SoundInv, pc \in {"update", "summarize", "done"},
                       DefaultControllers, ConsistentOverrides
                PROVE  IF pc = "done" THEN Bounded(Flat(opcon))
                       ELSE Bounded(Only(Flat(opcon), DOMAIN Flat(desired)))
    BY DEF Schedulable
  <2>1. AllDefault
    BY DefaultMapping DEF TypeInv
  <2>3. ASSUME NEW c, IsParts(c)
        PROVE  /\ \A f \in SizeFields : /\ f \in DOMAIN Flat(c) <=> f \in DOMAIN c.spec
                                        /\ f \in DOMAIN c.spec => Flat(c)[f] = c.spec[f]
               /\ \A f \in ClusterSizeFields :
                     /\ f \in DOMAIN Flat(c) <=> f \in DOMAIN c.cluster
                     /\ f \in DOMAIN c.cluster => Flat(c)[f] = c.cluster[f]
    BY <2>3, FlatSizes DEF IsParts
  <2>4. ASSUME NEW p \in Pairs
        PROVE  \/ p[1] \in SizeFields /\ p[2] \in SizeFields
               \/ p[1] \in ClusterSizeFields /\ p[2] \in ClusterSizeFields
    BY DEF Pairs, SizeFields, ClusterSizeFields
  <2>5. ASSUME NEW r, NEW a, NEW b, Bounded(a), Bounded(b),
               \A f \in SizeFields : /\ f \in DOMAIN r => f \in DOMAIN a
                                     /\ f \in DOMAIN r => r[f] = a[f],
               \A f \in ClusterSizeFields : /\ f \in DOMAIN r => f \in DOMAIN b
                                            /\ f \in DOMAIN r => r[f] = b[f]
        PROVE  Bounded(r)
    <3>1. ASSUME NEW p \in Pairs, p[1] \in DOMAIN r, p[2] \in DOMAIN r, Parses(r[p[1]]), Parses(r[p[2]])
          PROVE  ~Exceeds(r[p[1]], r[p[2]])
      <4>1. CASE p[1] \in SizeFields /\ p[2] \in SizeFields
        BY <2>5, <3>1, <4>1 DEF Bounded
      <4>2. CASE p[1] \in ClusterSizeFields /\ p[2] \in ClusterSizeFields
        BY <2>5, <3>1, <4>2 DEF Bounded
      <4>. QED  BY <2>4, <4>1, <4>2
    <3>. QED  BY <3>1 DEF Bounded
  <2>6. IsParts(opcon) /\ IsParts(desired)
    BY DEF TypeInv
  <2>7. CASE pc = "done"
    <3>1. Bounded(opcon.spec) /\ Bounded(opcon.cluster)
      BY <2>1, <2>7 DEF SoundInv
    <3>2. Bounded(Flat(opcon))
      BY <2>3, <2>5, <2>6, <3>1
    <3>. QED  BY <2>7, <3>2
  <2>8. CASE pc # "done"
    <3>. DEFINE a == Only(opcon.spec, DOMAIN desired.spec)
                b == Only(opcon.cluster, DOMAIN desired.cluster)
                r == Only(Flat(opcon), DOMAIN Flat(desired))
    <3>1. Bounded(a) /\ Bounded(b)
      BY <2>1, <2>8 DEF SoundInv, BoundedOn
    <3>2. /\ DOMAIN a = DOMAIN opcon.spec \cap DOMAIN desired.spec
          /\ \A f \in DOMAIN opcon.spec \cap DOMAIN desired.spec : a[f] = opcon.spec[f]
          /\ DOMAIN b = DOMAIN opcon.cluster \cap DOMAIN desired.cluster
          /\ \A f \in DOMAIN opcon.cluster \cap DOMAIN desired.cluster : b[f] = opcon.cluster[f]
          /\ DOMAIN r = DOMAIN Flat(opcon) \cap DOMAIN Flat(desired)
          /\ \A f \in DOMAIN Flat(opcon) \cap DOMAIN Flat(desired) : r[f] = Flat(opcon)[f]
      BY DEF Only
    <3>. HIDE DEF a, b, r
    <3>3. \A f \in SizeFields : f \in DOMAIN r => f \in DOMAIN a /\ r[f] = a[f]
      BY <2>3, <2>6, <3>2
    <3>4. \A f \in ClusterSizeFields : f \in DOMAIN r => f \in DOMAIN b /\ r[f] = b[f]
      BY <2>3, <2>6, <3>2
    <3>5. Bounded(r)
      BY <2>5, <3>1, <3>3, <3>4
    <3>. QED  BY <2>8, <3>5 DEF r
  <2>. QED  BY <2>7, <2>8
<1>. QED  BY <1>1, <1>2, SoundInvStep, OwnThroughout, PTL DEF Spec
=============================================================================
