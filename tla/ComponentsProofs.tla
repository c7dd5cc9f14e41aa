-------------------------- MODULE ComponentsProofs --------------------------
(***************************************************************************)
(* The library's algorithms, for sizes of any width and versions of any    *)
(* length, and the components beside each other.                           *)
(***************************************************************************)
EXTENDS MCComponents, LoopSetupProofs, OutcomeProofs

-----------------------------------------------------------------------------
(* LvmSizes.                                                               *)

\* A larger multiplier makes the product larger by one factor at least.
LEMMA ProductGrows ==
    ASSUME NEW pe \in Nat, NEW a \in Int, NEW b \in Int, a >= b + 1
    PROVE  pe * a >= pe * b + pe
<1>1. PICK c \in Nat : a = b + 1 + c
  <2>1. a - (b + 1) \in Nat /\ a = b + 1 + (a - (b + 1))
    OBVIOUS
  <2> QED BY <2>1
<1>2. pe * a = pe * b + pe + pe * c
  BY <1>1
<1>3. pe * c \in Nat
  OBVIOUS
<1> QED BY <1>2, <1>3

\* What the remainder of a division is.
LEMMA Remainder ==
    ASSUME NEW n \in Nat, NEW pe \in Nat \ {0}
    PROVE  /\ n % pe \in 0 .. pe - 1 /\ n \div pe \in Nat
           /\ n = pe * (n \div pe) + (n % pe)
<1>1. n % pe \in 0 .. pe - 1
  OBVIOUS
<1>2. n \div pe \in Nat
  OBVIOUS
<1>3. n = pe * (n \div pe) + (n % pe)
  OBVIOUS
<1> QED BY <1>1, <1>2, <1>3

\* Multiples of pe are the numbers without a remainder.
LEMMA NoRemainder ==
    ASSUME NEW k \in Nat, NEW pe \in Nat \ {0}
    PROVE  pe * k \in Nat /\ (pe * k) % pe = 0
<1> DEFINE n == pe * k
<1>1. n \in Nat
  OBVIOUS
<1> HIDE DEF n
<1>2. /\ n % pe \in 0 .. pe - 1 /\ n \div pe \in Nat
      /\ n = pe * (n \div pe) + (n % pe)
  BY <1>1, Remainder
<1>3. CASE k = n \div pe
  BY <1>2, <1>3 DEF n
<1>4. CASE k >= n \div pe + 1
  <2>1. pe * k >= pe * (n \div pe) + pe
    BY <1>2, <1>4, ProductGrows
  <2> QED BY <1>1, <1>2, <2>1 DEF n
<1>5. CASE n \div pe >= k + 1
  <2>1. pe * (n \div pe) >= pe * k + pe
    BY <1>2, <1>5, ProductGrows
  <2> QED BY <1>1, <1>2, <2>1 DEF n
<1> QED BY <1>1, <1>2, <1>3, <1>4, <1>5 DEF n

\* Between two neighbouring multiples of pe there is none.
LEMMA Neighbours ==
    ASSUME NEW m \in Nat, NEW q \in Nat, NEW pe \in Nat \ {0}, m % pe = 0
    PROVE  m <= pe * q \/ m >= pe * q + pe
<1>1. m \div pe \in Nat /\ m = pe * (m \div pe)
  BY Remainder
<1>2. CASE m \div pe >= q + 1
  BY <1>1, <1>2, ProductGrows
<1>3. CASE m \div pe = q
  BY <1>1, <1>3
<1>4. CASE q >= m \div pe + 1
  <2>1. pe * q >= pe * (m \div pe) + pe
    BY <1>1, <1>4, ProductGrows
  <2> QED BY <1>1, <2>1
<1> QED BY <1>1, <1>2, <1>3, <1>4

\* The smallest and the largest member of a set of numbers, once found.
LEMMA MinIs ==
    ASSUME NEW S \in SUBSET Nat, NEW x \in S, \A y \in S : x <= y
    PROVE  Min(S) = x
<1>1. Min(S) \in S /\ \A y \in S : Min(S) <= y
  BY DEF Min
<1>2. Min(S) \in Nat /\ x \in Nat
  BY <1>1
<1>3. Min(S) <= x /\ x <= Min(S)
  BY <1>1
<1> QED BY <1>2, <1>3

LEMMA MaxIs ==
    ASSUME NEW S \in SUBSET Nat, NEW x \in S, \A y \in S : y <= x
    PROVE  Max(S) = x
<1>1. Max(S) \in S /\ \A y \in S : y <= Max(S)
  BY DEF Max
<1>2. Max(S) \in Nat /\ x \in Nat
  BY <1>1
<1>3. x <= Max(S) /\ Max(S) <= x
  BY <1>1
<1> QED BY <1>2, <1>3

-----------------------------------------------------------------------------
Multiples(pe) == {m \in 0 .. MaxSize : m % pe = 0}

\* The nearest multiple of pe in the direction asked for that fits in the type.
Nearest(size, pe, roundup) ==
    LET above == {m \in Multiples(pe) : m >= size}
        below == {m \in Multiples(pe) : m <= size}
    IN  IF roundup /\ above # {} THEN Min(above) ELSE Max(below)

LEMMA RoundsToNearest ==
    ASSUME NEW size \in 0 .. MaxSize, NEW pe_size \in Nat,
           NEW roundup \in BOOLEAN
    PROVE  bd_lvm_round_size_to_pe(size, pe_size, roundup) =
               Nearest(size, RESOLVE_PE_SIZE(pe_size), roundup)
<1> DEFINE pe == RESOLVE_PE_SIZE(pe_size)
           d == size % pe
           q == size \div pe
           above == {m \in Multiples(pe) : m >= size}
           below == {m \in Multiples(pe) : m <= size}
<1>1. /\ pe \in Nat \ {0} /\ size \in Nat /\ MaxSize \in Nat
  BY SizesAssumption DEF RESOLVE_PE_SIZE
<1> HIDE DEF pe
<1>2. d \in 0 .. pe - 1 /\ q \in Nat /\ size = pe * q + d
  BY <1>1, Remainder
<1>3. pe * q \in Nat /\ (pe * q) % pe = 0 /\ (pe * (q + 1)) % pe = 0
  <2>1. q + 1 \in Nat
    BY <1>2
  <2> HIDE DEF q
  <2> QED BY <1>1, <1>2, <2>1, NoRemainder
<1>4. pe * (q + 1) = pe * q + pe /\ pe * (q + 1) \in Nat
  BY <1>1, <1>2, <1>3
<1> HIDE DEF d, q
<1>5. /\ bd_lvm_round_size_to_pe(size, pe_size, roundup) =
           (IF d = 0 THEN size
            ELSE IF roundup /\ MaxSize - (pe - d) >= size THEN size + (pe - d)
            ELSE size - d)
  BY DEF bd_lvm_round_size_to_pe, pe, d
<1>6. above \in SUBSET Nat /\ below \in SUBSET Nat
  BY <1>1 DEF Multiples
<1>7. \A m \in Multiples(pe) : m <= pe * q \/ m >= pe * q + pe
  <2>1. \A m \in Multiples(pe) : m \in Nat /\ m % pe = 0
    BY <1>1 DEF Multiples
  <2> QED BY <1>1, <1>2, <2>1, Neighbours
<1>8. Max(below) = size - d
  <2>1. size - d = pe * q /\ pe * q \in below
    BY <1>1, <1>2, <1>3 DEF Multiples
  <2>2. \A y \in below : y <= pe * q
    BY <1>1, <1>2, <1>3, <1>6, <1>7
  <2> QED BY <2>1, <2>2, <1>6, MaxIs
<1>9. CASE d = 0
  <2>1. size = pe * q /\ size \in above
    BY <1>1, <1>2, <1>3, <1>9 DEF Multiples
  <2>2. Min(above) = size
    BY <2>1, <1>6, MinIs
  <2> QED BY <1>1, <1>5, <1>8, <1>9, <2>1, <2>2 DEF Nearest, pe
<1>10. CASE d # 0 /\ MaxSize - (pe - d) >= size
  <2>1. size + (pe - d) = pe * (q + 1) /\ size + (pe - d) \in above
    BY <1>1, <1>2, <1>3, <1>4, <1>10 DEF Multiples
  <2>2. \A y \in above : size + (pe - d) <= y
    BY <1>1, <1>2, <1>3, <1>4, <1>6, <1>7, <1>10
  <2>3. Min(above) = size + (pe - d)
    BY <2>1, <2>2, <1>6, MinIs
  <2> QED BY <1>5, <1>8, <1>10, <2>1, <2>3 DEF Nearest, pe
<1>11. CASE d # 0 /\ ~(MaxSize - (pe - d) >= size)
  <2>1. above = {}
    BY <1>1, <1>2, <1>3, <1>4, <1>6, <1>7, <1>11 DEF Multiples
  <2> QED BY <1>5, <1>8, <1>11, <2>1 DEF Nearest, pe
<1> QED BY <1>9, <1>10, <1>11

LEMMA Rounded ==
    ASSUME ask.about = "round" =>
               /\ ask.size \in 0 .. MaxSize /\ ask.pe_size \in Nat
               /\ ask.roundup \in BOOLEAN
    PROVE  RoundedToExtents
<1> SUFFICES ASSUME ask.about = "round" PROVE RoundedToExtents
  BY DEF RoundedToExtents
<1> DEFINE pe == RESOLVE_PE_SIZE(ask.pe_size)
<1>1. pe \in Nat /\ RESOLVE_PE_SIZE(pe) = pe
  BY SizesAssumption DEF RESOLVE_PE_SIZE
<1>2. bd_lvm_round_size_to_pe(ask.size, ask.pe_size, ask.roundup) =
          Nearest(ask.size, pe, ask.roundup)
  BY RoundsToNearest
<1>3. bd_lvm_get_lv_physical_size(ask.size, ask.pe_size) =
          Nearest(ask.size, pe, TRUE)
  BY <1>1, RoundsToNearest DEF bd_lvm_get_lv_physical_size
<1> QED BY <1>2, <1>3 DEF RoundedToExtents, Nearest, Multiples

-----------------------------------------------------------------------------
(* VersionCmp.                                                             *)

\* The two sequences of numerals are read in full, as what they say in base 10.
ReadAs(f) == Len(f) \in Nat /\ \A k \in 1 .. Len(f) : strtoull(f[k]) = Nat10(f[k]) /\ Nat10(f[k]) \in Nat

Differ(f, g) == {k \in (1 .. Len(f)) \cap (1 .. Len(g)) : strtoull(f[k]) # strtoull(g[k])}

\* Without a difference the shorter comes first.
LEMMA OrderByLength ==
    ASSUME NEW f, NEW g, ReadAs(f), ReadAs(g), Differ(f, g) = {}
    PROVE  Before(f, g) <=> Len(f) < Len(g)
<1>1. Len(f) \in Nat /\ Len(g) \in Nat
  BY DEF ReadAs
<1>2. ASSUME NEW k \in 1 .. Len(f), k \in 1 .. Len(g) PROVE Nat10(f[k]) = Nat10(g[k]) /\ Nat10(g[k]) \in Nat
  BY <1>2 DEF Differ, ReadAs
<1>3. ASSUME Len(f) < Len(g) PROVE Before(f, g)
  <2>1. Len(f) + 1 \in 1 .. Len(g) /\ Len(f) + 1 > Len(f)
    BY <1>1, <1>3
  <2>2. \A j \in 1 .. (Len(f) + 1) - 1 : j <= Len(f) /\ Nat10(f[j]) = Nat10(g[j])
    BY <1>1, <1>2, <1>3
  <2> QED BY <2>1, <2>2 DEF Before
<1>4. ASSUME Before(f, g) PROVE Len(f) < Len(g)
  <2>1. PICK k \in 1 .. Len(g) : k > Len(f) \/ Nat10(f[k]) < Nat10(g[k])
    BY <1>4 DEF Before
  <2>2. CASE k > Len(f)
    BY <1>1, <2>2
  <2>3. CASE ~(k > Len(f))
    <3>1. k \in 1 .. Len(f)
      BY <1>1, <2>3
    <3>2. Nat10(f[k]) = Nat10(g[k]) /\ Nat10(g[k]) \in Nat
      BY <1>2, <3>1
    <3> QED BY <2>1, <2>3, <3>2
  <2> QED BY <2>2, <2>3
<1> QED BY <1>3, <1>4

\* The first difference decides.
LEMMA OrderByFirst ==
    ASSUME NEW f, NEW g, ReadAs(f), ReadAs(g), NEW m \in Differ(f, g), \A k \in Differ(f, g) : m <= k
    PROVE  Before(f, g) <=> Nat10(f[m]) < Nat10(g[m])
<1>1. Len(f) \in Nat /\ Len(g) \in Nat /\ m \in 1 .. Len(f) /\ m \in 1 .. Len(g)
  BY DEF ReadAs, Differ
<1>2. ASSUME NEW k \in 1 .. m - 1
      PROVE  k \in 1 .. Len(f) /\ k \in 1 .. Len(g) /\ Nat10(f[k]) = Nat10(g[k]) /\ Nat10(g[k]) \in Nat
  <2>1. k \in 1 .. Len(f) /\ k \in 1 .. Len(g) /\ ~(m <= k)
    BY <1>1
  <2>2. strtoull(f[k]) = strtoull(g[k])
    BY <2>1 DEF Differ
  <2> QED BY <2>1, <2>2 DEF ReadAs
<1>3. Nat10(f[m]) \in Nat /\ Nat10(g[m]) \in Nat /\ Nat10(f[m]) # Nat10(g[m])
  BY <1>1 DEF ReadAs, Differ
<1>4. ASSUME Nat10(f[m]) < Nat10(g[m]) PROVE Before(f, g)
  <2>1. \A j \in 1 .. m - 1 : j <= Len(f) /\ Nat10(f[j]) = Nat10(g[j])
    BY <1>1, <1>2
  <2> QED BY <1>1, <1>4, <2>1 DEF Before
<1>5. ASSUME Before(f, g) PROVE Nat10(f[m]) < Nat10(g[m])
  <2>1. PICK k \in 1 .. Len(g) :
            /\ \A j \in 1 .. k - 1 : j <= Len(f) /\ Nat10(f[j]) = Nat10(g[j])
            /\ k > Len(f) \/ Nat10(f[k]) < Nat10(g[k])
    BY <1>5 DEF Before
  <2>2. CASE k < m
    <3>1. k \in 1 .. m - 1
      BY <1>1, <2>2
    <3>2. k \in 1 .. Len(f) /\ Nat10(f[k]) = Nat10(g[k]) /\ Nat10(g[k]) \in Nat
      BY <1>2, <3>1
    <3> QED BY <1>1, <2>1, <3>2
  <2>3. CASE k = m
    BY <1>1, <2>1, <2>3
  <2>4. CASE k > m
    <3>1. m \in 1 .. k - 1
      BY <1>1, <2>4
    <3> QED BY <1>3, <2>1, <3>1
  <2> QED BY <1>1, <2>1, <2>2, <2>3, <2>4
<1> QED BY <1>4, <1>5

LEMMA FirstOf ==
    ASSUME NEW S \in SUBSET Nat, S # {}
    PROVE  \E x \in S : \A y \in S : x <= y
<1>1. PICK x \in S : \A y \in S : ~(<<y, x>> \in OpToRel(<, Nat))
  BY NatLessThanWellFounded, WFMin
<1>2. ASSUME NEW y \in S PROVE x <= y
  <2>1. x \in Nat /\ y \in Nat
    OBVIOUS
  <2>2. y < x => <<y, x>> \in OpToRel(<, Nat)
    BY <2>1 DEF OpToRel
  <2>3. ~(y < x)
    BY <1>1, <2>2
  <2> QED BY <2>1, <2>3
<1> QED BY <1>2

\* Numerals that are read in full order versions of any length.
LEMMA OrderIs ==
    ASSUME NEW v1, NEW v2, Matches(v1), Matches(v2),
           ReadAs(Fields(v1)), DOMAIN Fields(v1) = 1 .. Len(Fields(v1)),
           ReadAs(Fields(v2)), DOMAIN Fields(v2) = 1 .. Len(Fields(v2))
    PROVE  version_cmp(v1, v2) = Reference(v1, v2)
<1> DEFINE f == Fields(v1)
           g == Fields(v2)
           n == Len(f)
           k == Len(g)
<1>1. n \in Nat /\ k \in Nat /\ v1 # NoVersion /\ v2 # NoVersion
  BY DEF ReadAs, Matches
<1>2. version_cmp(v1, v2) =
          IF Differ(f, g) = {} THEN Sign(n - k)
          ELSE Sign(strtoull(f[Min(Differ(f, g))]) - strtoull(g[Min(Differ(f, g))]))
  BY DEF version_cmp, Differ
<1>3. Reference(v1, v2) = IF Before(f, g) THEN -1 ELSE IF Before(g, f) THEN 1 ELSE 0
  BY <1>1 DEF Reference
<1>4. Differ(g, f) = Differ(f, g)
  BY DEF Differ
<1> HIDE DEF f, g
<1>5. CASE Differ(f, g) = {}
  <2>1. (Before(f, g) <=> n < k) /\ (Before(g, f) <=> k < n)
    BY <1>4, <1>5, OrderByLength DEF f, g
  <2> QED BY <1>1, <1>2, <1>3, <1>5, <2>1 DEF Sign
<1>6. CASE Differ(f, g) # {}
  <2>1. Differ(f, g) \in SUBSET Nat
    BY <1>1 DEF Differ
  <2>2. PICK m \in Differ(f, g) : \A y \in Differ(f, g) : m <= y
    BY <1>6, <2>1, FirstOf
  <2>3. Min(Differ(f, g)) = m
    BY <2>1, <2>2, MinIs
  <2>4. Before(f, g) <=> Nat10(f[m]) < Nat10(g[m])
    BY <2>2, OrderByFirst DEF f, g
  <2>5. Before(g, f) <=> Nat10(g[m]) < Nat10(f[m])
    BY <1>4, <2>2, OrderByFirst DEF f, g
  <2>6. /\ strtoull(f[m]) = Nat10(f[m]) /\ Nat10(f[m]) \in Nat
        /\ strtoull(g[m]) = Nat10(g[m]) /\ Nat10(g[m]) \in Nat
        /\ strtoull(f[m]) # strtoull(g[m])
    BY DEF Differ, ReadAs, f, g
  <2> QED BY <1>2, <1>3, <1>6, <2>3, <2>4, <2>5, <2>6 DEF Sign
<1> QED BY <1>5, <1>6

\* A sequence of numerals, some of which may be read as less than they say.
ReadLow(f) ==
    /\ Len(f) \in Nat
    /\ \A k \in 1 .. Len(f) :
         strtoull(f[k]) \in Nat /\ Nat10(f[k]) \in Nat /\ strtoull(f[k]) <= Nat10(f[k])

LEMMA NotBoth ==
    ASSUME NEW f, NEW g, ReadLow(f), ReadLow(g), Before(f, g), Before(g, f) PROVE FALSE
<1>1. PICK a \in 1 .. Len(g) :
          /\ \A j \in 1 .. a - 1 : j <= Len(f) /\ Nat10(f[j]) = Nat10(g[j])
          /\ a > Len(f) \/ Nat10(f[a]) < Nat10(g[a])
  BY DEF Before
<1>2. PICK b \in 1 .. Len(f) :
          /\ \A j \in 1 .. b - 1 : j <= Len(g) /\ Nat10(g[j]) = Nat10(f[j])
          /\ b > Len(g) \/ Nat10(g[b]) < Nat10(f[b])
  BY DEF Before
<1>3. Len(f) \in Nat /\ Len(g) \in Nat
  BY DEF ReadLow
<1>4. CASE a < b
  <2>1. a \in 1 .. b - 1 /\ a \in 1 .. Len(f) /\ ~(a > Len(f))
    BY <1>3, <1>4
  <2>2. Nat10(g[a]) = Nat10(f[a]) /\ Nat10(f[a]) \in Nat /\ Nat10(f[a]) < Nat10(g[a])
    BY <1>1, <1>2, <2>1 DEF ReadLow
  <2> QED BY <2>2
<1>5. CASE b < a
  <2>1. b \in 1 .. a - 1 /\ b \in 1 .. Len(g) /\ ~(b > Len(g))
    BY <1>3, <1>5
  <2>2. Nat10(f[b]) = Nat10(g[b]) /\ Nat10(g[b]) \in Nat /\ Nat10(g[b]) < Nat10(f[b])
    BY <1>1, <1>2, <2>1 DEF ReadLow
  <2> QED BY <2>2
<1>6. CASE a = b
  <2>1. a \in 1 .. Len(f) /\ ~(a > Len(f)) /\ ~(a > Len(g))
    BY <1>3, <1>6
  <2>2. /\ Nat10(f[a]) \in Nat /\ Nat10(g[a]) \in Nat
        /\ Nat10(f[a]) < Nat10(g[a]) /\ Nat10(g[a]) < Nat10(f[a])
    BY <1>1, <1>2, <1>6, <2>1 DEF ReadLow
  <2> QED BY <2>2
<1> QED BY <1>3, <1>4, <1>5, <1>6

\* What is found larger although some of it is read as less is larger.
LEMMA LargerAfterAll ==
    ASSUME NEW f, NEW g, ReadLow(f), ReadAs(g), NEW m \in 1 .. Len(f), m <= Len(g) + 1,
           \A k \in 1 .. m - 1 : strtoull(f[k]) = strtoull(g[k]),
           m > Len(g) \/ strtoull(g[m]) < strtoull(f[m])
    PROVE  Before(g, f)
<1> DEFINE P == {k \in 1 .. m : k > Len(g) \/ Nat10(g[k]) < Nat10(f[k])}
<1>1. Len(f) \in Nat /\ Len(g) \in Nat /\ m \in Nat /\ m <= Len(f) /\ m \in 1 .. m
  BY DEF ReadLow, ReadAs
<1>2. m \in P
  <2>1. CASE m > Len(g)
    BY <1>1, <2>1
  <2>2. CASE ~(m > Len(g))
    <3>1. m \in 1 .. Len(g)
      BY <1>1, <2>2
    <3>2. /\ strtoull(g[m]) = Nat10(g[m]) /\ Nat10(g[m]) \in Nat
          /\ strtoull(f[m]) \in Nat /\ Nat10(f[m]) \in Nat /\ strtoull(f[m]) <= Nat10(f[m])
          /\ strtoull(g[m]) < strtoull(f[m])
      BY <2>2, <3>1 DEF ReadLow, ReadAs
    <3>3. Nat10(g[m]) < Nat10(f[m])
      BY <3>2
    <3> QED BY <1>1, <3>3
  <2> QED BY <2>1, <2>2
<1>3. P \in SUBSET Nat
  BY <1>1
<1>4. PICK p \in P : \A y \in P : p <= y
  <2> HIDE DEF P
  <2> QED BY <1>2, <1>3, FirstOf
<1>5. p \in 1 .. m /\ (p > Len(g) \/ Nat10(g[p]) < Nat10(f[p]))
  BY <1>4
<1>6. ASSUME NEW j \in 1 .. p - 1 PROVE j <= Len(g) /\ Nat10(g[j]) = Nat10(f[j])
  <2>1. j \in 1 .. m - 1 /\ j \in 1 .. Len(g) /\ j \in 1 .. Len(f) /\ j \in 1 .. m /\ ~(p <= j)
    BY <1>1, <1>5
  <2>2. ~(Nat10(g[j]) < Nat10(f[j]))
    BY <1>4, <2>1
  <2>3. /\ strtoull(g[j]) = Nat10(g[j]) /\ Nat10(g[j]) \in Nat
        /\ strtoull(f[j]) \in Nat /\ Nat10(f[j]) \in Nat /\ strtoull(f[j]) <= Nat10(f[j])
        /\ strtoull(f[j]) = strtoull(g[j])
    BY <2>1 DEF ReadLow, ReadAs
  <2>4. Nat10(g[j]) = Nat10(f[j])
    BY <2>2, <2>3
  <2> QED BY <2>1, <2>4
<1>7. p \in 1 .. Len(f)
  BY <1>1, <1>5
<1> HIDE DEF P
<1> QED BY <1>5, <1>6, <1>7 DEF Before

\* A version with numerals that are read as less than they say is found older
\* than it is, if anything.
LEMMA NeverNewer ==
    ASSUME NEW v1, NEW v2, Matches(v1), Matches(v2),
           ReadLow(Fields(v1)), DOMAIN Fields(v1) = 1 .. Len(Fields(v1)),
           ReadAs(Fields(v2)), DOMAIN Fields(v2) = 1 .. Len(Fields(v2))
    PROVE  version_cmp(v1, v2) <= Reference(v1, v2)
<1> DEFINE f == Fields(v1)
           g == Fields(v2)
           n == Len(f)
           k == Len(g)
<1>1. n \in Nat /\ k \in Nat /\ v1 # NoVersion /\ v2 # NoVersion
  BY DEF ReadLow, ReadAs, Matches
<1>2. version_cmp(v1, v2) =
          IF Differ(f, g) = {} THEN Sign(n - k)
          ELSE Sign(strtoull(f[Min(Differ(f, g))]) - strtoull(g[Min(Differ(f, g))]))
  BY DEF version_cmp, Differ
<1>3. Reference(v1, v2) = IF Before(f, g) THEN -1 ELSE IF Before(g, f) THEN 1 ELSE 0
  BY <1>1 DEF Reference
<1>4. ReadLow(f) /\ ReadAs(g) /\ ReadLow(g)
  BY DEF ReadLow, ReadAs
<1> HIDE DEF f, g
<1>5. ASSUME Before(g, f) PROVE Reference(v1, v2) = 1
  BY <1>3, <1>4, <1>5, NotBoth
<1>6. CASE Differ(f, g) = {}
  <2>1. ASSUME NEW j \in 1 .. n, j \in 1 .. k PROVE strtoull(f[j]) = strtoull(g[j])
    BY <1>6, <2>1 DEF Differ
  <2>2. CASE n < k
    BY <1>1, <1>2, <1>3, <1>6, <2>2 DEF Sign
  <2>3. CASE n = k
    <3>1. ASSUME Before(f, g) PROVE FALSE
      <4>1. PICK j \in 1 .. k : j > n \/ Nat10(f[j]) < Nat10(g[j])
        BY <3>1 DEF Before
      <4>2. j \in 1 .. n /\ ~(j > n)
        BY <1>1, <2>3
      <4>3. /\ strtoull(g[j]) = Nat10(g[j]) /\ Nat10(g[j]) \in Nat
            /\ strtoull(f[j]) \in Nat /\ Nat10(f[j]) \in Nat /\ strtoull(f[j]) <= Nat10(f[j])
            /\ strtoull(f[j]) = strtoull(g[j]) /\ Nat10(f[j]) < Nat10(g[j])
        BY <1>4, <2>1, <4>1, <4>2 DEF ReadLow, ReadAs
      <4> QED BY <4>3
    <3>2. version_cmp(v1, v2) = 0
      BY <1>1, <1>2, <1>6, <2>3 DEF Sign
    <3> QED BY <1>3, <3>1, <3>2
  <2>4. CASE n > k
    <3>1. k + 1 \in 1 .. n /\ k + 1 <= k + 1 /\ k + 1 > k
      BY <1>1, <2>4
    <3>2. \A j \in 1 .. (k + 1) - 1 : strtoull(f[j]) = strtoull(g[j])
      BY <1>1, <2>1, <2>4
    <3>3. Before(g, f)
      BY <1>4, <3>1, <3>2, LargerAfterAll
    <3>4. version_cmp(v1, v2) = 1
      BY <1>1, <1>2, <1>6, <2>4 DEF Sign
    <3> QED BY <1>5, <3>3, <3>4
  <2> QED BY <1>1, <2>2, <2>3, <2>4
<1>7. CASE Differ(f, g) # {}
  <2>1. Differ(f, g) \in SUBSET Nat
    BY <1>1 DEF Differ
  <2>2. PICK m \in Differ(f, g) : \A y \in Differ(f, g) : m <= y
    BY <1>7, <2>1, FirstOf
  <2>3. version_cmp(v1, v2) = Sign(strtoull(f[m]) - strtoull(g[m]))
    BY <1>2, <1>7, <2>1, <2>2, MinIs
  <2>4. m \in 1 .. n /\ m \in 1 .. k /\ strtoull(f[m]) # strtoull(g[m])
    BY DEF Differ
  <2>5. strtoull(f[m]) \in Nat /\ strtoull(g[m]) \in Nat
    BY <1>4, <2>4 DEF ReadLow
  <2>6. CASE strtoull(f[m]) < strtoull(g[m])
    <3>1. version_cmp(v1, v2) = -1
      BY <2>3, <2>5, <2>6 DEF Sign
    <3> QED BY <1>3, <3>1
  <2>7. CASE strtoull(g[m]) < strtoull(f[m])
    <3>1. version_cmp(v1, v2) = 1
      BY <2>3, <2>5, <2>7 DEF Sign
    <3>2. m <= k + 1
      BY <1>1, <2>4
    <3>3. ASSUME NEW j \in 1 .. m - 1 PROVE strtoull(f[j]) = strtoull(g[j])
      <4>1. j \in 1 .. n /\ j \in 1 .. k /\ ~(m <= j)
        BY <1>1, <2>4
      <4> QED BY <2>2, <4>1 DEF Differ
    <3>4. Before(g, f)
      BY <1>4, <2>4, <2>7, <3>2, <3>3, LargerAfterAll
    <3> QED BY <1>5, <3>1, <3>4
  <2> QED BY <2>4, <2>5, <2>6, <2>7
<1> QED BY <1>6, <1>7

-----------------------------------------------------------------------------
(* The algorithms, whatever they are asked.                                *)

\* g_ascii_strtoull never reads more than a numeral says, and reads all of one
\* that says the same in octal: none is too large for the type.
NumeralsRead ==
    \A numeral \in Numerals \cup {<<0>>, <<2>>} :
        /\ strtoull(numeral) \in Nat /\ Nat10(numeral) \in Nat
        /\ strtoull(numeral) <= Nat10(numeral)
        /\ AsWritten(numeral) => strtoull(numeral) = Nat10(numeral)

LEMMA VersionsMatch ==
    ASSUME NumeralsRead, NEW v \in Versions, v # NoVersion
    PROVE  /\ Matches(v) /\ ReadLow(Fields(v)) /\ DOMAIN Fields(v) = 1 .. Len(Fields(v))
           /\ InDecimal(v) => ReadAs(Fields(v))
<1>1. PICK n \in 1 .. MaxFields : v.fields \in [1 .. n -> Numerals]
  BY DEF Versions
<1>2. v.rev \in {<<>>, <<0>>, <<2>>}
  BY DEF Versions, Revisions
<1>3. n \in Nat /\ n > 0 /\ v.fields \in Seq(Numerals) /\ Len(v.fields) = n
  BY <1>1, AsksAssumption
<1>4. Len(v.rev) <= 1
  <2>1. Len(<<>>) = 0 /\ Len(<<0>>) = 1 /\ Len(<<2>>) = 1
    OBVIOUS
  <2>2. CASE v.rev = <<>> BY <2>1, <2>2
  <2>3. CASE v.rev = <<0>> BY <2>1, <2>3
  <2>4. CASE v.rev = <<2>> BY <2>1, <2>4
  <2> QED BY <1>2, <2>2, <2>3, <2>4
<1>5. Matches(v)
  BY <1>3, <1>4 DEF Matches
<1>6. CASE v.rev = <<>>
  <2>1. Fields(v) = v.fields
    BY <1>3, <1>6 DEF Fields
  <2>2. Fields(v) \in Seq(Numerals \cup {<<0>>, <<2>>})
    BY <1>3, <2>1
  <2> QED BY <1>5, <2>2 DEF ReadLow, ReadAs, NumeralsRead, InDecimal
<1>7. CASE v.rev # <<>>
  <2>1. Fields(v) = Append(v.fields, v.rev)
    BY <1>3, <1>7 DEF Fields
  <2>2. Fields(v) \in Seq(Numerals \cup {<<0>>, <<2>>})
    BY <1>2, <1>3, <1>7, <2>1
  <2> QED BY <1>5, <2>2 DEF ReadLow, ReadAs, NumeralsRead, InDecimal
<1> QED BY <1>6, <1>7

\* What is asked is a question.
AskInv ==
    /\ ask.about = "round" =>
         ask.size \in 0 .. MaxSize /\ ask.pe_size \in Nat /\ ask.roundup \in BOOLEAN
    /\ ask.about = "order" =>
         ask.v1 \in Versions \cup {NoVersion} /\ ask.v2 \in Versions \cup {NoVersion}

LEMMA AskInitInv == AskInit => AskInv
BY DEF AskInit, Nothing, AskInv

LEMMA AskStepInv == AskInv /\ [AskNext]_avars => AskInv'
<1> SUFFICES ASSUME AskInv, [AskNext]_avars PROVE AskInv'
  OBVIOUS
<1>1. CASE AskConfig BY <1>1 DEF AskConfig, AskInv
<1>2. CASE AskOrder BY <1>2 DEF AskOrder, AskInv
<1>3. CASE AskSubvolumes BY <1>3 DEF AskSubvolumes, AskInv
<1>4. CASE AskVdevs BY <1>4 DEF AskVdevs, AskInv
<1>5. CASE AskLvs BY <1>5 DEF AskLvs, AskInv
<1>6. CASE AskUuid
  <2>1. ask'.about = "uuid"
    BY <1>6 DEF AskUuid
  <2> QED BY <2>1 DEF AskInv
<1>7. CASE AskRound
  <2>1. PICK size \in 0 .. MaxSize, pe_size \in 0 .. DEFAULT_PE_SIZE + 1, roundup \in BOOLEAN :
            ask' = [about |-> "round", size |-> size, pe_size |-> pe_size, roundup |-> roundup]
    BY <1>7 DEF AskRound
  <2>2. pe_size \in Nat
    BY SizesAssumption
  <2> QED BY <2>1, <2>2 DEF AskInv
<1>8. CASE Again BY <1>8 DEF Again, Nothing, AskInv
<1>9. CASE UNCHANGED avars BY <1>9 DEF avars, AskInv
<1> QED
  BY <1>1, <1>2, <1>3, <1>4, <1>5, <1>6, <1>7, <1>8, <1>9 DEF AskNext

-----------------------------------------------------------------------------
(* The components beside each other.                                       *)

LEMMA ComponentsInit == Init => IndInv /\ AskInv
BY LoopInitInv, MountInitInv, JobInitInv, PartInitInv, ZfsInitInv, AskInitInv DEF Init, IndInv

\* A step is a step of one component, and the others stay as they are.
LEMMA ComponentsStep == IndInv /\ AskInv /\ [Next]_vars => IndInv' /\ AskInv'
<1> SUFFICES ASSUME IndInv, AskInv, [Next]_vars PROVE IndInv' /\ AskInv'
  OBVIOUS
<1>1. /\ [AskNext]_avars /\ [LoopNext]_lvars /\ [MountNext]_mvars
      /\ [JobNext]_jvars /\ [PartNext]_pvars /\ [ZfsNext]_zvars
  BY DEF Next, OnLoop, OnMount, OnJob, vars
<1> QED
  BY <1>1, AskStepInv, LoopStepInv, MountStepInv, JobStepInv, PartStepInv, ZfsStepInv DEF IndInv

\* The invariants of loop setups, of mounts by a child, of jobs of lvmdbusd, of
\* label writes and of the probes of OpenZFS hold together, for any number of
\* threads, devices, calls, stops, crashes and events.
THEOREM ComponentsCorrect == Spec => []IndInv
<1>1. IndInv /\ AskInv /\ [Next]_vars => (IndInv /\ AskInv)'
  BY ComponentsStep
<1> QED BY ComponentsInit, <1>1, PTL DEF Spec

\* bd_lvm_round_size_to_pe returns the nearest multiple of the extent size in
\* the direction asked for, or the one below when the one above does not fit in
\* the type, and bd_lvm_get_lv_physical_size the size rounded up, for every
\* size, every extent size, 0 for the default, and any width of the integers.
THEOREM RoundedCorrect == Spec => []RoundedToExtents
<1>1. IndInv /\ AskInv /\ [Next]_vars => (IndInv /\ AskInv)'
  BY ComponentsStep
<1>2. AskInv => RoundedToExtents
  BY Rounded DEF AskInv
<1> QED BY ComponentsInit, <1>1, <1>2, PTL DEF Spec

\* bd_utils_version_cmp orders versions as tuples of natural numbers, a prefix
\* before its extensions, and refuses what is no version, for versions of any
\* length; with numerals that are read as octal it may find the first version
\* older than it is and never newer.
THEOREM OrderCorrect == ASSUME NumeralsRead PROVE Spec => []ComparesAsNaturals
<1>1. IndInv /\ AskInv /\ [Next]_vars => (IndInv /\ AskInv)'
  BY ComponentsStep
<1>2. AskInv => ComparesAsNaturals
  <2> SUFFICES ASSUME AskInv, ask.about = "order", InDecimal(ask.v2)
               PROVE  /\ version_cmp(ask.v1, ask.v2) <= Reference(ask.v1, ask.v2)
                      /\ InDecimal(ask.v1) =>
                           version_cmp(ask.v1, ask.v2) = Reference(ask.v1, ask.v2)
    BY DEF ComparesAsNaturals
  <2>1. CASE ask.v1 = NoVersion \/ ask.v2 = NoVersion
    <3>1. version_cmp(ask.v1, ask.v2) = -2 /\ Reference(ask.v1, ask.v2) = -2
      BY <2>1 DEF version_cmp, Matches, Reference
    <3> QED BY <3>1
  <2>2. CASE ask.v1 # NoVersion /\ ask.v2 # NoVersion
    <3>1. ask.v1 \in Versions /\ ask.v2 \in Versions
      BY <2>2 DEF AskInv
    <3>2. version_cmp(ask.v1, ask.v2) <= Reference(ask.v1, ask.v2)
      BY <2>2, <3>1, VersionsMatch, NeverNewer
    <3>3. ASSUME InDecimal(ask.v1)
          PROVE  version_cmp(ask.v1, ask.v2) = Reference(ask.v1, ask.v2)
      BY <2>2, <3>1, <3>3, VersionsMatch, OrderIs
    <3> QED BY <3>2, <3>3
  <2> QED BY <2>1, <2>2
<1> QED BY ComponentsInit, <1>1, <1>2, PTL DEF Spec

=============================================================================
