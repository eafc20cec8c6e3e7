-------------------------- MODULE LogFormatProofs --------------------------
(* What the operators of LogFormat return: the facts that the proofs of    *)
(* Init's loops and of the mapper rest on.                                 *)
EXTENDS LogFormat, TLAPS, NaturalsInduction, WellFoundedInduction

(* A non-empty set of positions has a least one.                           *)
LEMMA LeastExists ==
    ASSUME NEW S, S \subseteq Nat, S # {}
    PROVE  \E x \in S : \A y \in S : x <= y
<1>1. IsWellFoundedOn(OpToRel(<, Nat), Nat)
    BY NatLessThanWellFounded
<1>2. PICK x \in S : \A y \in S : ~ (<<y, x>> \in OpToRel(<, Nat))
    BY <1>1, WFMin
<1>3. \A y \in S : ~ (y < x)
    BY <1>2 DEF OpToRel
<1> QED
    BY <1>3

(* LastOf is 0 or a member of the set, and no member is larger.            *)
LEMMA LastOfBound ==
    ASSUME NEW n \in Nat, NEW S, S \subseteq 0 .. n
    PROVE  /\ LastOf(S) \in S \cup {0}
           /\ \A y \in S : y <= LastOf(S)
<1> DEFINE T == {n - y : y \in S \cup {0}}
<1>1. T \subseteq Nat /\ T # {}
    OBVIOUS
<1>2. PICK m \in T : \A t \in T : m <= t
    BY <1>1, LeastExists
<1>3. PICK x \in S \cup {0} : m = n - x
    BY <1>2
<1>4. \A y \in S : y <= x
    <2> TAKE y \in S
    <2>1. n - x <= n - y
        BY <1>2, <1>3
    <2> QED
        BY <2>1
<1>5. \E z \in S \cup {0} : \A y \in S : y <= z
    BY <1>4
<1> QED
    BY <1>5 DEF LastOf

(* An upper bound of a set that is a member of it is its LastOf.           *)
LEMMA LastOfIs ==
    ASSUME NEW n \in Nat, NEW S, S \subseteq 0 .. n,
           NEW x \in S, \A y \in S : y <= x
    PROVE  LastOf(S) = x
<1>1. LastOf(S) \in S \cup {0} /\ x <= LastOf(S)
    BY LastOfBound
<1>2. x \in 0 .. n /\ S \cup {0} \subseteq 0 .. n
    OBVIOUS
<1>3. LastOf(S) \in S => LastOf(S) <= x
    OBVIOUS
<1>4. LastOf(S) \in 0 .. n
    BY <1>1, <1>2
<1>5. CASE LastOf(S) \in S
    BY <1>1, <1>2, <1>3, <1>4, <1>5
<1>6. CASE LastOf(S) = 0
    BY <1>1, <1>2, <1>6
<1> QED
    BY <1>1, <1>5, <1>6

LEMMA LastOfNone == LastOf({}) = 0
    BY DEF LastOf

(* A set of positions with a member has a last one.                        *)
LEMMA LastExists ==
    ASSUME NEW n \in Nat, NEW S, S \subseteq 1 .. n, S # {}
    PROVE  \E x \in S : \A y \in S : y <= x
<1>1. S \subseteq 0 .. n
    OBVIOUS
<1>2. LastOf(S) \in S \cup {0} /\ \A y \in S : y <= LastOf(S)
    BY <1>1, LastOfBound
<1>3. PICK y \in S : y \in 1 .. n
    OBVIOUS
<1>4. y <= LastOf(S)
    BY <1>2
<1>5. LastOf(S) # 0
    BY <1>3, <1>4
<1> QED
    BY <1>2, <1>5

(* A member, or 0, that no member exceeds is the LastOf.                   *)
LEMMA LastOfChar ==
    ASSUME NEW n \in Nat, NEW S, S \subseteq 0 .. n,
           NEW x \in S \cup {0}, \A y \in S : y <= x
    PROVE  LastOf(S) = x
<1>1. LastOf(S) \in S \cup {0} /\ \A y \in S : y <= LastOf(S)
    BY LastOfBound
<1>2. S \cup {0} \subseteq 0 .. n
    OBVIOUS
<1>3. LastOf(S) \in 0 .. n /\ x \in 0 .. n
    BY <1>1, <1>2
<1>4. LastOf(S) <= x /\ x <= LastOf(S)
    BY <1>1, <1>3
<1> QED
    BY <1>3, <1>4

LEMMA LiveSubset ==
    ASSUME NEW S, NEW log, NEW b
    PROVE  LiveWrites(log, S, b) \subseteq S
    BY DEF LiveWrites

(* Adding a record p after the records S: a write of b is the last live    *)
(* write of b, a truncation that removes b leaves none, and any other      *)
(* record changes nothing for b.                                           *)
LEMMA LiveAfterWrite ==
    ASSUME NEW n \in Nat, NEW S, S \subseteq 1 .. n, NEW log, NEW b \in Block,
           log[n + 1].block = b
    PROVE  LastOf(LiveWrites(log, S \cup {n + 1}, b)) = n + 1
<1> DEFINE L == LiveWrites(log, S \cup {n + 1}, b)
<1>1. \A k \in S \cup {n + 1} : k \in 1 .. n + 1
    OBVIOUS
<1> HIDE DEF L
<1>2. L \subseteq S \cup {n + 1}
    BY LiveSubset DEF L
<1>3. n + 1 \in L
    BY <1>1 DEF L, LiveWrites
<1>4. n + 1 \in Nat /\ L \subseteq 0 .. n + 1 /\ \A y \in L : y <= n + 1
    BY <1>1, <1>2
<1>5. LastOf(L) = n + 1
    BY <1>3, <1>4, LastOfIs
<1> QED
    BY <1>5 DEF L

LEMMA LiveAfterCut ==
    ASSUME NEW n \in Nat, NEW S, S \subseteq 1 .. n, NEW log, NEW b \in Block,
           Cuts(log[n + 1], b)
    PROVE  LastOf(LiveWrites(log, S \cup {n + 1}, b)) = 0
<1>1. log[n + 1].block # b
    BY FormatAssumption DEF Cuts, IsTruncate, Block, Metadata
<1>2. \A i \in S : n + 1 > i
    OBVIOUS
<1>3. LiveWrites(log, S \cup {n + 1}, b) = {}
    BY <1>1, <1>2 DEF LiveWrites
<1> QED
    BY <1>3, LastOfNone

LEMMA LiveUnchanged ==
    ASSUME NEW p, NEW S, NEW log, NEW log2, NEW b \in Block,
           \A i \in S : log2[i] = log[i],
           log2[p].block # b, ~Cuts(log2[p], b)
    PROVE  LiveWrites(log2, S \cup {p}, b) = LiveWrites(log, S, b)
    BY DEF LiveWrites

LEMMA LiveSame ==
    ASSUME NEW S, NEW log, NEW log2, NEW b \in Block, \A i \in S : log2[i] = log[i]
    PROVE  LiveWrites(log2, S, b) = LiveWrites(log, S, b)
    BY DEF LiveWrites

LEMMA MapOfType ==
    ASSUME NEW n \in Nat, NEW S, S \subseteq 1 .. n, NEW log
    PROVE  MapOf(log, S) \in [Block -> 0 .. n]
<1>1. ASSUME NEW b \in Block
      PROVE  LastOf(LiveWrites(log, S, b)) \in 0 .. n
    <2> DEFINE L == LiveWrites(log, S, b)
    <2> HIDE DEF L
    <2>0. L \subseteq S /\ S \subseteq 0 .. n
        BY LiveSubset DEF L
    <2>1. L \subseteq 0 .. n
        BY <2>0
    <2>2. LastOf(L) \in L \cup {0}
        BY <2>1, LastOfBound
    <2> QED
        BY <2>1, <2>2 DEF L
<1> QED
    BY <1>1 DEF MapOf

(* Which records are applied depends on the records up to the bound only.  *)
LEMMA AppliedSame ==
    ASSUME NEW n \in Nat, NEW log, NEW log2, \A i \in 1 .. n : log2[i] = log[i],
           NEW i \in 1 .. n
    PROVE  AppliedUpTo(log2, n, i) <=> AppliedUpTo(log, n, i)
<1>1. \A j \in i .. n : j \in 1 .. n /\ \A k \in i .. (j - 1) : k \in 1 .. n
    OBVIOUS
<1> QED
    BY <1>1 DEF AppliedUpTo

(* The file only grows, so that a mapped record is read as before.         *)
LEMMA BlockAtSame ==
    ASSUME NEW log, NEW log2, NEW n \in Nat, NEW p \in 0 .. n,
           \A i \in 1 .. n : log2[i] = log[i]
    PROVE  BlockAt(log2, p) = BlockAt(log, p)
    BY DEF BlockAt

LEMMA FlaggedSame ==
    \A r, f : Extent(Flagged(r, f)) = Extent(r) /\ (IsTruncate(Flagged(r, f)) <=> IsTruncate(r))
    BY DEF Flagged, Extent, IsTruncate

(* Records that no commit follows take no effect.                          *)
LEMMA UncommittedApplied ==
    ASSUME NEW n \in Nat, NEW n2 \in Nat, n <= n2, NEW log, NEW log2,
           \A i \in 1 .. n : log2[i] = log[i],
           \A i \in n + 1 .. n2 : log2[i].flag # Commit
    PROVE  Applied(log2, n2) = Applied(log, n)
<1>1. ASSUME NEW i \in 1 .. n
      PROVE  AppliedUpTo(log2, n2, i) <=> AppliedUpTo(log, n, i)
    <2>1. \A j \in i .. n2 : log2[j].flag = Commit => j \in i .. n
        OBVIOUS
    <2>2. i .. n \subseteq i .. n2
        OBVIOUS
    <2>3. AppliedUpTo(log2, n2, i) <=> AppliedUpTo(log2, n, i)
        BY <2>1, <2>2 DEF AppliedUpTo
    <2> QED
        BY <2>3, AppliedSame
<1>2. ASSUME NEW i \in 1 .. n2, i \notin 1 .. n
      PROVE  ~AppliedUpTo(log2, n2, i)
    <2>1. \A j \in i .. n2 : j \in n + 1 .. n2
        BY <1>2
    <2> QED
        BY <2>1 DEF AppliedUpTo
<1>3. 1 .. n \subseteq 1 .. n2
    OBVIOUS
<1> QED
    BY <1>1, <1>2, <1>3 DEF Applied

(* A session that appended whole chains to a log that ends in none: what   *)
(* takes effect is what did when it opened, and all it appended.           *)
LEMMA SessionApplies ==
    ASSUME NEW m \in Nat, NEW n \in Nat, m < n, NEW log,
           \A i \in m + 1 .. n : log[i].flag \in {Commit, Chained},
           log[n].flag = Commit,
           m > 0 => log[m].flag # Chained
    PROVE  Applied(log, n) = {i \in 1 .. n : i > m \/ AppliedUpTo(log, m, i)}
<1>1. ASSUME NEW i \in 1 .. n, i > m
      PROVE  AppliedUpTo(log, n, i)
    <2> DEFINE C == {j \in i .. n : log[j].flag = Commit}
    <2>1. C \subseteq Nat /\ n \in C
        OBVIOUS
    <2>2. PICK j \in C : \A k \in C : j <= k
        BY <2>1, LeastExists
    <2>3. ASSUME NEW k \in i .. (j - 1)
          PROVE  log[k].flag = Chained
        <3>1. k \in m + 1 .. n /\ k < j /\ k \in i .. n
            BY <1>1
        <3>2. k \notin C
            BY <2>2, <3>1
        <3> QED
            BY <3>1, <3>2
    <2> QED
        BY <2>3 DEF AppliedUpTo
<1>2. ASSUME NEW i \in 1 .. n, ~(i > m)
      PROVE  AppliedUpTo(log, n, i) <=> AppliedUpTo(log, m, i)
    <2>1. i <= m /\ m > 0
        BY <1>2
    <2>2. ASSUME NEW j \in i .. n, \A k \in i .. (j - 1) : log[k].flag = Chained
          PROVE  j \in i .. m
        <3>1. ~(m \in i .. (j - 1))
            BY <2>1, <2>2
        <3> QED
            BY <2>1, <3>1
    <2>3. i .. m \subseteq i .. n
        OBVIOUS
    <2> QED
        BY <2>2, <2>3 DEF AppliedUpTo
<1> QED
    BY <1>1, <1>2 DEF Applied

-----------------------------------------------------------------------------
(* Sizes.                                                                  *)

LEMMA Monotonic ==
    ASSUME NEW m \in Nat, NEW n \in Nat, NEW k \in Nat, m <= n
    PROVE  m * k <= n * k /\ m * k \in Nat
    OBVIOUS

LEMMA DivBelow ==
    ASSUME NEW a \in Nat, NEW n \in Nat, NEW k \in Nat \ {0}, a < n * k
    PROVE  a \div k \in 0 .. n - 1
    OBVIOUS

LEMMA DivMonotonic ==
    ASSUME NEW a \in Nat, NEW c \in Nat, NEW k \in Nat \ {0}, a <= c
    PROVE  a \div k <= c \div k
    OBVIOUS

LEMMA MaxSizeType == MaxSize \in Nat
    BY FormatAssumption DEF MaxSize

LEMMA CeilMonotonic ==
    ASSUME NEW a \in 0 .. MaxSize, NEW c \in 0 .. MaxSize, a <= c
    PROVE  CeilBlocks(a) <= CeilBlocks(c)
<1>1. a + BlockUnits - 1 \in Nat /\ c + BlockUnits - 1 \in Nat
    BY FormatAssumption, MaxSizeType
<1>2. a + BlockUnits - 1 <= c + BlockUnits - 1
    BY FormatAssumption, MaxSizeType
<1> QED
    BY <1>1, <1>2, DivMonotonic, FormatAssumption DEF CeilBlocks

LEMMA ExtentRange ==
    ASSUME NEW r \in Record
    PROVE  Extent(r) \in 0 .. MaxSize
<1>1. CASE r.block = Metadata
    BY <1>1, MaxSizeType DEF Extent, Record, SizeField, NoSize, Metadata
<1>2. CASE r.block # Metadata
    <2>1. r.block + 1 \in Nat /\ r.block + 1 <= NumBlocks
        BY <1>2, FormatAssumption DEF Record, Block
    <2>2. (r.block + 1) * BlockUnits <= MaxSize /\ (r.block + 1) * BlockUnits \in Nat
        BY <2>1, Monotonic, FormatAssumption DEF MaxSize
    <2> QED
        BY <1>2, <2>2, MaxSizeType DEF Extent
<1> QED
    BY <1>1, <1>2

LEMMA SizeOfType ==
    ASSUME NEW S, NEW log, \A i \in S : log[i] \in Record
    PROVE  SizeOf(log, S) \in 0 .. MaxSize
<1> DEFINE E == {Extent(log[i]) : i \in {k \in S : \A l \in S : l > k => ~IsTruncate(log[l])}}
<1>1. E \subseteq 0 .. MaxSize
    BY ExtentRange
<1> HIDE DEF E
<1>2. LastOf(E) \in E \cup {0}
    BY <1>1, MaxSizeType, LastOfBound
<1>3. 0 \in 0 .. MaxSize
    BY MaxSizeType
<1>4. LastOf(E) \in 0 .. MaxSize
    BY <1>1, <1>2, <1>3, Zenon
<1> QED
    BY <1>4 DEF E, SizeOf

(* The records whose extents count: those no truncation follows.           *)
LastPart(log, S) == {k \in S : \A l \in S : l > k => ~IsTruncate(log[l])}

LEMMA ExtentBounds ==
    ASSUME NEW n \in Nat, NEW S, S \subseteq 1 .. n, NEW log,
           \A i \in S : log[i] \in Record,
           NEW k \in LastPart(log, S)
    PROVE  Extent(log[k]) <= SizeOf(log, S)
<1> DEFINE E == {Extent(log[i]) : i \in LastPart(log, S)}
<1>1. LastPart(log, S) \subseteq S
    BY DEF LastPart
<1>2. E \subseteq 0 .. MaxSize
    BY <1>1, ExtentRange
<1>3. Extent(log[k]) \in E
    OBVIOUS
<1>4. SizeOf(log, S) = LastOf(E)
    BY DEF SizeOf, LastPart
<1> HIDE DEF E
<1> QED
    BY <1>2, <1>3, <1>4, MaxSizeType, LastOfBound

(* A recovered size is 0 or what a record that no truncation follows says. *)
LEMMA SizeOfWitness ==
    ASSUME NEW log, NEW S, \A i \in S : log[i] \in Record, SizeOf(log, S) # 0
    PROVE  \E i \in LastPart(log, S) : SizeOf(log, S) = Extent(log[i])
<1> DEFINE E == {Extent(log[i]) : i \in LastPart(log, S)}
<1>1. E \subseteq 0 .. MaxSize
    BY ExtentRange DEF LastPart
<1>2. SizeOf(log, S) = LastOf(E)
    BY DEF SizeOf, LastPart
<1> HIDE DEF E
<1>3. LastOf(E) \in E \cup {0}
    BY <1>1, MaxSizeType, LastOfBound
<1>4. SizeOf(log, S) \in E
    BY <1>2, <1>3
<1> QED
    BY <1>4 DEF E

LEMMA CeilRange == \A n \in 0 .. MaxSize : CeilBlocks(n) \in 0 .. NumBlocks
<1> SUFFICES ASSUME NEW n \in 0 .. MaxSize
             PROVE  CeilBlocks(n) \in 0 .. NumBlocks
    OBVIOUS
<1>1. n \in Nat /\ n <= NumBlocks * BlockUnits
    BY MaxSizeType DEF MaxSize
<1>2. (NumBlocks + 1) * BlockUnits = NumBlocks * BlockUnits + BlockUnits
    BY FormatAssumption
<1>3. n + BlockUnits - 1 \in Nat /\ n + BlockUnits - 1 < (NumBlocks + 1) * BlockUnits
    BY <1>1, <1>2, FormatAssumption
<1>4. (n + BlockUnits - 1) \div BlockUnits \in 0 .. (NumBlocks + 1) - 1
    BY <1>3, FormatAssumption, DivBelow
<1> QED
    BY <1>4, FormatAssumption DEF CeilBlocks

LEMMA DivExact ==
    ASSUME NEW m \in Nat, NEW k \in Nat \ {0}
    PROVE  (m * k + k - 1) \div k = m
    OBVIOUS

LEMMA CeilOfBlocks == \A m \in Nat : CeilBlocks(m * BlockUnits) = m
    BY DivExact, FormatAssumption DEF CeilBlocks

LEMMA DivReaches ==
    ASSUME NEW a \in Nat, NEW k \in Nat \ {0}
    PROVE  a + 1 <= (a \div k + 1) * k
    OBVIOUS

(* Every unit is in a block.                                               *)
LEMMA UnitsBlock == \A u \in 0 .. MaxSize - 1 : u \div BlockUnits \in Block
<1> SUFFICES ASSUME NEW u \in 0 .. MaxSize - 1
             PROVE  u \div BlockUnits \in Block
    OBVIOUS
<1>1. u \in Nat /\ u < NumBlocks * BlockUnits
    BY MaxSizeType DEF MaxSize
<1> QED
    BY <1>1, DivBelow, FormatAssumption DEF Block

LEMMA UnitsOfBlock ==
    ASSUME NEW m \in Nat, NEW k \in Nat \ {0}, NEW u \in m * k .. m * k + k - 1
    PROVE  u \div k = m /\ u % k \in 0 .. k - 1
<1>1. m * k \in Nat
    BY Monotonic
<1>2. PICK r \in 0 .. k - 1 : u = m * k + r
    BY <1>1
<1> QED
    BY <1>1, <1>2

(* A mapped block is within the recovered size: a truncation behind its    *)
(* record does not cut it and ends the file no earlier.                    *)
LEMMA MappedWithin ==
    ASSUME NEW n \in Nat, NEW S, S \subseteq 1 .. n, NEW log,
           \A i \in S : log[i] \in Record,
           NEW b \in Block, MapOf(log, S)[b] # 0
    PROVE  b < CeilBlocks(SizeOf(log, S))
<1> DEFINE i == LastOf(LiveWrites(log, S, b))
<1>1. i \in LiveWrites(log, S, b)
    <2> DEFINE L == LiveWrites(log, S, b)
    <2>2. LastOf(L) # 0
        BY DEF MapOf
    <2> HIDE DEF L
    <2>0. L \subseteq S /\ S \subseteq 0 .. n
        BY LiveSubset DEF L
    <2>1. L \subseteq 0 .. n
        BY <2>0
    <2>3. LastOf(L) \in L
        BY <2>1, <2>2, LastOfBound
    <2> QED
        BY <2>3 DEF L
<1> HIDE DEF i
<1>2. i \in S /\ i \in 1 .. n /\ log[i].block = b /\ \A k \in S : k > i => ~Cuts(log[k], b)
    BY <1>1 DEF LiveWrites
<1>3. SizeOf(log, S) \in 0 .. MaxSize
    BY SizeOfType
<1> DEFINE T == {k \in S : k > i /\ IsTruncate(log[k])}
<1>4. CASE T = {}
    <2>1. i \in LastPart(log, S)
        BY <1>2, <1>4 DEF LastPart
    <2>2. Extent(log[i]) = (b + 1) * BlockUnits
        BY <1>2, FormatAssumption DEF Extent, Block, Metadata
    <2>3. Extent(log[i]) <= SizeOf(log, S) /\ Extent(log[i]) \in 0 .. MaxSize
        BY <1>2, <2>1, ExtentBounds, ExtentRange
    <2>4. CeilBlocks(Extent(log[i])) = b + 1
        BY <2>2, CeilOfBlocks, FormatAssumption DEF Block
    <2>5. b + 1 <= CeilBlocks(SizeOf(log, S))
        BY <1>3, <2>3, <2>4, CeilMonotonic
    <2> QED
        BY <1>3, <2>5, CeilRange, FormatAssumption DEF Block
<1>5. CASE T # {}
    <2>1. T \subseteq 1 .. n
        OBVIOUS
    <2> HIDE DEF T
    <2>2. PICK k \in T : \A l \in T : l <= k
        BY <1>5, <2>1, LastExists
    <2>3. k \in S /\ k \in 1 .. n /\ k > i /\ IsTruncate(log[k])
        BY <2>2 DEF T
    <2>4. ASSUME NEW l \in S, l > k
          PROVE  ~IsTruncate(log[l])
        <3>1. l > i /\ l \in 1 .. n
            BY <1>2, <2>3, <2>4
        <3> QED
            BY <2>2, <2>3, <2>4, <3>1 DEF T
    <2>5. k \in LastPart(log, S)
        BY <2>3, <2>4 DEF LastPart
    <2>6. Extent(log[k]) = log[k].size
        BY <2>3 DEF Extent, IsTruncate
    <2>7. ~(CeilBlocks(log[k].size) <= b)
        BY <1>2, <2>3 DEF Cuts
    <2>8. Extent(log[k]) <= SizeOf(log, S) /\ Extent(log[k]) \in 0 .. MaxSize
        BY <2>3, <2>5, ExtentBounds, ExtentRange
    <2>9. CeilBlocks(Extent(log[k])) <= CeilBlocks(SizeOf(log, S))
        BY <1>3, <2>8, CeilMonotonic
    <2>10. CeilBlocks(Extent(log[k])) \in Int /\ CeilBlocks(SizeOf(log, S)) \in Int /\ b \in Int
        BY <1>3, <2>8, CeilRange, FormatAssumption DEF Block
    <2> QED
        BY <2>6, <2>7, <2>9, <2>10
<1> QED
    BY <1>4, <1>5

LEMMA LastOfAdd ==
    ASSUME NEW n \in Nat, NEW E, E \subseteq 0 .. n, NEW e \in 0 .. n
    PROVE  /\ LastOf(E) \in 0 .. n
           /\ LastOf(E \cup {e}) = IF LastOf(E) >= e THEN LastOf(E) ELSE e
<1>1. LastOf(E) \in E \cup {0} /\ \A y \in E : y <= LastOf(E)
    BY LastOfBound
<1>2. LastOf(E) \in 0 .. n
    <2>1. E \cup {0} \subseteq 0 .. n
        OBVIOUS
    <2> QED
        BY <1>1, <2>1, Zenon
<1>3. E \cup {e} \subseteq 0 .. n
    OBVIOUS
<1>4. CASE LastOf(E) >= e
    <2>1. LastOf(E) \in E \cup {e}
        BY <1>1, <1>4
    <2>2. \A y \in E \cup {e} : y <= LastOf(E)
        BY <1>1, <1>2, <1>4
    <2> HIDE DEF LastOf
    <2> QED
        BY <1>2, <1>3, <1>4, <2>1, <2>2, LastOfIs
<1>5. CASE ~(LastOf(E) >= e)
    <2>1. \A y \in E \cup {e} : y <= e
        BY <1>1, <1>2, <1>5
    <2> QED
        BY <1>2, <1>3, <1>5, <2>1, LastOfIs
<1> QED
    BY <1>2, <1>4, <1>5

LEMMA CeilGrows ==
    ASSUME NEW m \in Nat, NEW n \in Nat, m <= n
    PROVE  CeilBlocks(m) <= CeilBlocks(n) /\ CeilBlocks(m) \in Int /\ CeilBlocks(n) \in Int
<1>1. /\ m + BlockUnits - 1 \in Nat /\ n + BlockUnits - 1 \in Nat
      /\ m + BlockUnits - 1 <= n + BlockUnits - 1
    BY FormatAssumption
<1> QED
    BY <1>1, DivMonotonic, FormatAssumption DEF CeilBlocks

(* A block written ends within the size, and a truncation keeps no block   *)
(* beyond the size it sets.                                                *)
LEMMA BlockEnds ==
    ASSUME NEW b \in Block, NEW size \in Nat, (b + 1) * BlockUnits <= size
    PROVE  b < CeilBlocks(size)
<1>1. b + 1 \in Nat /\ (b + 1) * BlockUnits \in Nat
    BY FormatAssumption, Monotonic DEF Block
<1>2. (b + 1) * BlockUnits <= size + BlockUnits - 1 /\ size + BlockUnits - 1 \in Nat
    BY <1>1, FormatAssumption
<1>3. ((b + 1) * BlockUnits) \div BlockUnits <= CeilBlocks(size)
    BY <1>1, <1>2, FormatAssumption, DivMonotonic DEF CeilBlocks
<1>4. \A m \in Nat, k \in Nat \ {0} : (m * k) \div k = m
    OBVIOUS
<1>5. ((b + 1) * BlockUnits) \div BlockUnits = b + 1
    BY <1>1, <1>4, FormatAssumption
<1>6. CeilBlocks(size) \in Int
    BY FormatAssumption DEF CeilBlocks
<1> QED
    BY <1>3, <1>5, <1>6 DEF Block

LEMMA NothingYet ==
    ASSUME NEW l
    PROVE  MapOf(l, {}) = [b \in Block |-> 0] /\ SizeOf(l, {}) = 0
<1>1. \A b \in Block : LiveWrites(l, {}, b) = {}
    BY DEF LiveWrites
<1>2. {Extent(l[i]) : i \in {k \in {} : \A m \in {} : m > k => ~IsTruncate(l[m])}} = {}
    OBVIOUS
<1> QED
    BY <1>1, <1>2, LastOfNone DEF MapOf, SizeOf

(* The size with one more record: a truncation sets it, any other can only *)
(* let it grow.                                                            *)
LEMMA SizeWithNext ==
    ASSUME NEW n \in Nat, NEW S, S \subseteq 1 .. n, NEW l,
           \A i \in S \cup {n + 1} : Extent(l[i]) \in 0 .. MaxSize
    PROVE  /\ SizeOf(l, S) \in 0 .. MaxSize
           /\ IsTruncate(l[n + 1]) => SizeOf(l, S \cup {n + 1}) = l[n + 1].size
           /\ ~IsTruncate(l[n + 1]) =>
                  SizeOf(l, S \cup {n + 1}) =
                      IF SizeOf(l, S) >= Extent(l[n + 1]) THEN SizeOf(l, S) ELSE Extent(l[n + 1])
<1> DEFINE Part(T) == {k \in T : \A m \in T : m > k => ~IsTruncate(l[m])}
           Extents(T) == {Extent(l[i]) : i \in Part(T)}
           e == Extent(l[n + 1])
<1>1. \A T : SizeOf(l, T) = LastOf(Extents(T))
    BY DEF SizeOf
<1>2. Extents(S) \subseteq 0 .. MaxSize /\ e \in 0 .. MaxSize /\ MaxSize \in Nat
    BY MaxSizeType
<1>3. \A k \in S : k \in Int /\ n + 1 > k /\ ~(k > n + 1)
    OBVIOUS
<1>4. ASSUME IsTruncate(l[n + 1])
      PROVE  SizeOf(l, S \cup {n + 1}) = l[n + 1].size
    <2>1. Part(S \cup {n + 1}) = {n + 1}
        <3>1. \A k \in S : k \notin Part(S \cup {n + 1})
            BY <1>3, <1>4
        <3>2. n + 1 \in Part(S \cup {n + 1})
            BY <1>3
        <3>3. Part(S \cup {n + 1}) \subseteq S \cup {n + 1}
            OBVIOUS
        <3> QED
            BY <3>1, <3>2, <3>3
    <2>2. Extents(S \cup {n + 1}) = {e} /\ e = l[n + 1].size
        BY <1>4, <2>1 DEF Extent, IsTruncate
    <2> HIDE DEF Extents, e
    <2>3. {e} \subseteq 0 .. MaxSize /\ \A y \in {e} : y <= e
        BY <1>2
    <2>4. LastOf({e}) = e
        BY <1>2, <2>3, LastOfIs
    <2> QED
        BY <1>1, <2>2, <2>4
<1>5. ASSUME ~IsTruncate(l[n + 1])
      PROVE  SizeOf(l, S \cup {n + 1}) = IF SizeOf(l, S) >= e THEN SizeOf(l, S) ELSE e
    <2>1. Part(S \cup {n + 1}) = Part(S) \cup {n + 1}
        BY <1>3, <1>5
    <2>2. Extents(S \cup {n + 1}) = Extents(S) \cup {e}
        BY <2>1
    <2>3. SizeOf(l, S) = LastOf(Extents(S))
          /\ SizeOf(l, S \cup {n + 1}) = LastOf(Extents(S \cup {n + 1}))
        BY <1>1
    <2> HIDE DEF Extents, e
    <2>4. LastOf(Extents(S) \cup {e}) = IF LastOf(Extents(S)) >= e THEN LastOf(Extents(S)) ELSE e
        BY <1>2, LastOfAdd
    <2> QED
        BY <2>2, <2>3, <2>4
<1>6. SizeOf(l, S) \in 0 .. MaxSize
    <2>1. SizeOf(l, S) = LastOf(Extents(S))
        BY <1>1
    <2> HIDE DEF Extents, e
    <2>2. LastOf(Extents(S)) \in 0 .. MaxSize
        BY <1>2, LastOfAdd
    <2> QED
        BY <2>1, <2>2
<1> QED
    BY <1>4, <1>5, <1>6

(* The mapping with one more record.                                       *)
LEMMA MapWithNext ==
    ASSUME NEW n \in Nat, NEW S, S \subseteq 1 .. n, NEW l
    PROVE  MapOf(l, S \cup {n + 1}) =
               [b \in Block |-> IF l[n + 1].block = b THEN n + 1
                                ELSE IF Cuts(l[n + 1], b) THEN 0
                                ELSE MapOf(l, S)[b]]
<1>1. ASSUME NEW b \in Block
      PROVE  LastOf(LiveWrites(l, S \cup {n + 1}, b)) =
                 IF l[n + 1].block = b THEN n + 1
                 ELSE IF Cuts(l[n + 1], b) THEN 0
                 ELSE MapOf(l, S)[b]
    <2>1. CASE l[n + 1].block = b
        BY <2>1, LiveAfterWrite
    <2>2. CASE l[n + 1].block # b /\ Cuts(l[n + 1], b)
        BY <2>2, LiveAfterCut
    <2>3. CASE l[n + 1].block # b /\ ~Cuts(l[n + 1], b)
        <3>1. LiveWrites(l, S \cup {n + 1}, b) = LiveWrites(l, S, b)
            BY <2>3, LiveUnchanged
        <3> QED
            BY <2>3, <3>1 DEF MapOf
    <2> QED
        BY <2>1, <2>2, <2>3
<1> QED
    BY <1>1 DEF MapOf

-----------------------------------------------------------------------------
(* Images.                                                                 *)

LEMMA ZeroBlockType == ZeroBlock \in BlockData
    BY FormatAssumption DEF ZeroBlock, BlockData

(* The file that some records leave depends on those records only.         *)
LEMMA ImageSame ==
    ASSUME NEW n \in Nat, NEW S, S \subseteq 1 .. n, NEW log, NEW log2,
           \A i \in S : log2[i] = log[i]
    PROVE  ImageOf(log2, S) = ImageOf(log, S)
<1>1. \A b : LiveWrites(log2, S, b) = LiveWrites(log, S, b)
    BY DEF LiveWrites
<1>2. SizeOf(log2, S) = SizeOf(log, S)
    BY DEF SizeOf
<1>3. ASSUME NEW b \in Block
      PROVE  BlockAt(log2, LastOf(LiveWrites(log2, S, b)))
           = BlockAt(log, LastOf(LiveWrites(log, S, b)))
    <2> DEFINE L == LiveWrites(log, S, b)
    <2>0. L \subseteq S
        BY LiveSubset
    <2> HIDE DEF L
    <2>1. L \subseteq S /\ L \subseteq 0 .. n
        BY <2>0
    <2>2. LastOf(L) \in L \cup {0}
        BY <2>1, LastOfBound
    <2>3. BlockAt(log2, LastOf(L)) = BlockAt(log, LastOf(L))
        BY <2>1, <2>2 DEF BlockAt
    <2> QED
        BY <1>1, <2>3 DEF L
<1>4. \A u \in 0 .. MaxSize - 1 : u \div BlockUnits \in Block
    BY UnitsBlock
<1> QED
    BY <1>2, <1>3, <1>4 DEF ImageOf, Image

(* A log that goes on with records that no commit follows denotes the same *)
(* file.                                                                   *)
LEMMA UncommittedUnseen ==
    ASSUME NEW n \in Nat, NEW n2 \in Nat, n <= n2, NEW log, NEW log2,
           \A i \in 1 .. n : log2[i] = log[i],
           \A i \in n + 1 .. n2 : log2[i].flag # Commit
    PROVE  ImageOf(log2, Applied(log2, n2)) = ImageOf(log, Applied(log, n))
<1>1. Applied(log2, n2) = Applied(log, n)
    BY UncommittedApplied
<1>2. Applied(log, n) \subseteq 1 .. n /\ \A i \in Applied(log, n) : log2[i] = log[i]
    BY DEF Applied
<1>3. ImageOf(log2, Applied(log, n)) = ImageOf(log, Applied(log, n))
    BY <1>2, ImageSame
<1> QED
    BY <1>1, <1>3

(* An image from the function of its blocks.                               *)
ImageFrom(f, size) ==
    [data |-> [u \in 0 .. MaxSize - 1 |-> f[u \div BlockUnits][u % BlockUnits]],
     size |-> CeilBlocks(size)]

Images == [data : [0 .. MaxSize - 1 -> Values], size : 0 .. NumBlocks]

(* The units of block b: its own, and no other block's.                    *)
LEMMA UnitPlace ==
    ASSUME NEW b \in Block, NEW u \in 0 .. BlockUnits - 1
    PROVE  /\ b * BlockUnits + u \in 0 .. MaxSize - 1
           /\ (b * BlockUnits + u) \div BlockUnits = b
           /\ (b * BlockUnits + u) % BlockUnits = u
<1>1. b \in Nat /\ b + 1 \in Nat /\ b + 1 <= NumBlocks /\ BlockUnits \in Nat \ {0}
    BY FormatAssumption DEF Block
<1>2. (b + 1) * BlockUnits <= NumBlocks * BlockUnits /\ b * BlockUnits \in Nat
    BY <1>1, Monotonic, FormatAssumption
<1>3. (b + 1) * BlockUnits = b * BlockUnits + BlockUnits
    BY <1>1
<1>4. b * BlockUnits + u \in 0 .. MaxSize - 1
    BY <1>1, <1>2, <1>3, MaxSizeType DEF MaxSize
<1>5. PICK k \in Nat \ {0} : k = BlockUnits
    BY <1>1
<1>6. u \in 0 .. k - 1
    BY <1>5
<1>7. (b * k + u) \div k = b /\ (b * k + u) % k = u
    BY <1>1, <1>6
<1> QED
    BY <1>4, <1>5, <1>7

LEMMA UnitSplit ==
    ASSUME NEW u \in 0 .. MaxSize - 1
    PROVE  /\ u \div BlockUnits \in Block
           /\ u % BlockUnits \in 0 .. BlockUnits - 1
           /\ u = (u \div BlockUnits) * BlockUnits + (u % BlockUnits)
<1>1. u \in Nat /\ BlockUnits \in Nat \ {0}
    BY MaxSizeType, FormatAssumption
<1> QED
    BY <1>1, UnitsBlock

(* The units below the start of block c are those of the blocks before it. *)
LEMMA UnitBelow ==
    ASSUME NEW u \in 0 .. MaxSize - 1, NEW c \in Nat
    PROVE  u < c * BlockUnits <=> u \div BlockUnits < c
<1>1. u \in Nat /\ BlockUnits \in Nat \ {0} /\ u \div BlockUnits \in Nat
    BY UnitsBlock, MaxSizeType, FormatAssumption DEF Block
<1>2. ASSUME u < c * BlockUnits PROVE u \div BlockUnits < c
    <2>1. u \div BlockUnits \in 0 .. c - 1
        BY <1>1, <1>2, DivBelow
    <2> QED
        BY <2>1
<1>3. ASSUME ~(u < c * BlockUnits) PROVE ~(u \div BlockUnits < c)
    <2>1. c * BlockUnits \in Nat /\ c * BlockUnits <= u
        BY <1>1, <1>3
    <2>2. (c * BlockUnits) \div BlockUnits <= u \div BlockUnits
        BY <1>1, <2>1, DivMonotonic
    <2>3. (c * BlockUnits) \div BlockUnits = c
        BY <1>1
    <2> QED
        BY <1>1, <2>2, <2>3
<1> QED
    BY <1>2, <1>3

LEMMA ImageFromIs ==
    ASSUME NEW f \in [Block -> BlockData], NEW size \in 0 .. MaxSize
    PROVE  /\ ImageFrom(f, size) \in Images
           /\ ImageFrom(f, size).size = CeilBlocks(size)
           /\ \A b \in Block : BlockIn(ImageFrom(f, size), b) = f[b]
<1> DEFINE image == ImageFrom(f, size)
<1>1. ASSUME NEW u \in 0 .. MaxSize - 1
      PROVE  f[u \div BlockUnits][u % BlockUnits] \in Values
    BY UnitSplit DEF BlockData
<1>2. image \in Images /\ image.size = CeilBlocks(size)
    BY <1>1, CeilRange DEF ImageFrom, Images
<1>3. ASSUME NEW b \in Block
      PROVE  BlockIn(image, b) = f[b]
    <2>1. \A u \in 0 .. BlockUnits - 1 : image.data[b * BlockUnits + u] = f[b][u]
        BY UnitPlace DEF ImageFrom
    <2>2. f[b] \in [0 .. BlockUnits - 1 -> Values]
        BY DEF BlockData
    <2>3. f[b] = [u \in 0 .. BlockUnits - 1 |-> f[b][u]]
        BY <2>2
    <2> QED
        BY <2>1, <2>3 DEF BlockIn
<1> QED
    BY <1>2, <1>3

LEMMA SameFunction ==
    ASSUME NEW D, NEW V, NEW f \in [D -> V], NEW g \in [D -> V], \A x \in D : f[x] = g[x]
    PROVE  f = g
    OBVIOUS

(* An image is what its blocks and its size are.                           *)
LEMMA SameImage ==
    ASSUME NEW image \in Images, NEW other \in Images, image.size = other.size,
           \A b \in Block : BlockIn(image, b) = BlockIn(other, b)
    PROVE  image = other
<1>1. ASSUME NEW u \in 0 .. MaxSize - 1
      PROVE  image.data[u] = other.data[u]
    <2> DEFINE b == u \div BlockUnits
               v == u % BlockUnits
    <2>1. b \in Block /\ v \in 0 .. BlockUnits - 1 /\ u = b * BlockUnits + v
        BY UnitSplit
    <2> HIDE DEF b, v
    <2>2. BlockIn(image, b)[v] = BlockIn(other, b)[v]
        BY <2>1
    <2> QED
        BY <2>1, <2>2 DEF BlockIn
<1>2. image.data \in [0 .. MaxSize - 1 -> Values] /\ other.data \in [0 .. MaxSize - 1 -> Values]
    BY DEF Images
<1>3. image.data = other.data
    <2> DEFINE D == 0 .. MaxSize - 1
    <2>1. \A u \in D : image.data[u] = other.data[u]
        BY <1>1
    <2>2. image.data \in [D -> Values] /\ other.data \in [D -> Values]
        BY <1>2
    <2> HIDE DEF D
    <2> QED
        BY <2>1, <2>2, SameFunction
<1> QED
    BY <1>3 DEF Images

LEMMA ImageOfIs ==
    ASSUME NEW log, NEW S
    PROVE  ImageOf(log, S) =
               ImageFrom([b \in Block |-> BlockAt(log, MapOf(log, S)[b])], SizeOf(log, S))
<1>1. \A u \in 0 .. MaxSize - 1 : u \div BlockUnits \in Block
    BY UnitsBlock
<1> QED
    BY <1>1 DEF ImageOf, Image, ImageFrom, MapOf

LEMMA BlocksType ==
    ASSUME NEW n \in Nat, NEW log, \A i \in 1 .. n : log[i] \in Record, NEW p \in 0 .. n
    PROVE  BlockAt(log, p) \in BlockData
<1>1. \A i \in 1 .. n : log[i].data \in BlockData
    BY DEF Record
<1> QED
    BY <1>1, ZeroBlockType DEF BlockAt

LEMMA ImageOfType ==
    ASSUME NEW n \in Nat, NEW S, S \subseteq 1 .. n, NEW log,
           \A i \in 1 .. n : log[i] \in Record
    PROVE  ImageOf(log, S) \in Images
<1> DEFINE f == [b \in Block |-> BlockAt(log, MapOf(log, S)[b])]
<1>1. MapOf(log, S) \in [Block -> 0 .. n]
    BY MapOfType
<1>2. f \in [Block -> BlockData]
    BY <1>1, BlocksType
<1>3. SizeOf(log, S) \in 0 .. MaxSize
    BY SizeOfType
<1> HIDE DEF f
<1>4. ImageFrom(f, SizeOf(log, S)) \in Images
    BY <1>2, <1>3, ImageFromIs
<1> QED
    BY <1>4, ImageOfIs DEF f

-----------------------------------------------------------------------------
(* The blocks and the size that the records S of a log leave, and how they *)
(* change with one more record.                                            *)

Leaves(log, S, f, size) ==
    /\ size = SizeOf(log, S)
    /\ \A b \in Block : f[b] = BlockAt(log, MapOf(log, S)[b])

LEMMA LeavesImage ==
    ASSUME NEW log, NEW S, NEW f \in [Block -> BlockData], NEW size, Leaves(log, S, f, size)
    PROVE  ImageOf(log, S) = ImageFrom(f, size)
<1>1. f = [b \in Block |-> BlockAt(log, MapOf(log, S)[b])]
    BY DEF Leaves
<1> QED
    BY <1>1, ImageOfIs DEF Leaves

LEMMA LeavesWithin ==
    ASSUME NEW n \in Nat, NEW S, S \subseteq 1 .. n, NEW log, \A i \in S : log[i] \in Record,
           NEW f, NEW size, Leaves(log, S, f, size), NEW b \in Block, b >= CeilBlocks(size)
    PROVE  f[b] = ZeroBlock
<1>1. size \in 0 .. MaxSize
    BY SizeOfType DEF Leaves
<1>2. ~(b < CeilBlocks(size))
    BY <1>1, CeilRange, FormatAssumption DEF Block
<1>3. MapOf(log, S)[b] = 0
    BY <1>2, MappedWithin DEF Leaves
<1> QED
    BY <1>3 DEF Leaves, BlockAt

(* The records S2 of log2 are the records S of log under other numbers, in *)
(* the same order.                                                         *)
Renumbers(g, log, S, log2, S2) ==
    /\ g \in [S -> S2]
    /\ \A i, j \in S : i < j => g[i] < g[j]
    /\ \A k \in S2 : \E i \in S : g[i] = k
    /\ \A i \in S : /\ log2[g[i]].block = log[i].block
                    /\ log2[g[i]].data = log[i].data
                    /\ log2[g[i]].size = log[i].size

LEMMA LeavesRenumbered ==
    ASSUME NEW n \in Nat, NEW S, S \subseteq 1 .. n, NEW log,
           NEW n2 \in Nat, NEW S2, S2 \subseteq 1 .. n2, NEW log2,
           NEW g, Renumbers(g, log, S, log2, S2),
           NEW f, NEW size, Leaves(log, S, f, size)
    PROVE  Leaves(log2, S2, f, size)
<1>1. /\ g \in [S -> S2]
      /\ \A i, j \in S : i < j => g[i] < g[j]
      /\ \A k \in S2 : \E i \in S : g[i] = k
      /\ \A i \in S : /\ log2[g[i]].block = log[i].block
                      /\ log2[g[i]].data = log[i].data
                      /\ log2[g[i]].size = log[i].size
    BY DEF Renumbers
<1>2. \A i \in S : i \in 1 .. n /\ g[i] \in S2 /\ g[i] \in 1 .. n2
    BY <1>1
<1>3. \A i, j \in S : i > j <=> g[i] > g[j]
    <2> SUFFICES ASSUME NEW i \in S, NEW j \in S
                 PROVE  i > j <=> g[i] > g[j]
        OBVIOUS
    <2>1. i \in Int /\ j \in Int /\ g[i] \in Int /\ g[j] \in Int
        BY <1>2
    <2>2. (i < j => g[i] < g[j]) /\ (j < i => g[j] < g[i])
        BY <1>1
    <2>3. i = j => g[i] = g[j]
        OBVIOUS
    <2> QED
        BY <2>1, <2>2, <2>3
<1>4. /\ \A i \in S : IsTruncate(log2[g[i]]) <=> IsTruncate(log[i])
      /\ \A i \in S : \A b : Cuts(log2[g[i]], b) <=> Cuts(log[i], b)
      /\ \A i \in S : Extent(log2[g[i]]) = Extent(log[i])
    BY <1>1 DEF IsTruncate, Cuts, Extent
<1>5. SizeOf(log2, S2) = SizeOf(log, S)
    <2>1. \A i \in S : g[i] \in LastPart(log2, S2) <=> i \in LastPart(log, S)
        BY <1>1, <1>2, <1>3, <1>4 DEF LastPart
    <2>2. LastPart(log2, S2) \subseteq S2 /\ LastPart(log, S) \subseteq S
        BY DEF LastPart
    <2>3. {Extent(log2[k]) : k \in LastPart(log2, S2)} = {Extent(log[i]) : i \in LastPart(log, S)}
        <3>1. \A k \in LastPart(log2, S2) :
                  \E i \in LastPart(log, S) : Extent(log2[k]) = Extent(log[i])
            <4> SUFFICES ASSUME NEW k \in LastPart(log2, S2)
                         PROVE  \E i \in LastPart(log, S) : Extent(log2[k]) = Extent(log[i])
                OBVIOUS
            <4>1. PICK i \in S : g[i] = k
                BY <1>1, <2>2
            <4> QED
                BY <1>4, <2>1, <4>1
        <3>2. \A i \in LastPart(log, S) :
                  \E k \in LastPart(log2, S2) : Extent(log[i]) = Extent(log2[k])
            BY <1>2, <1>4, <2>1, <2>2
        <3> QED
            BY <3>1, <3>2
    <2> QED
        BY <2>3 DEF SizeOf, LastPart
<1>6. ASSUME NEW b \in Block
      PROVE  BlockAt(log2, MapOf(log2, S2)[b]) = BlockAt(log, MapOf(log, S)[b])
    <2> DEFINE L == LiveWrites(log, S, b)
               L2 == LiveWrites(log2, S2, b)
    <2>1. \A i \in S : g[i] \in L2 <=> i \in L
        BY <1>1, <1>2, <1>3, <1>4 DEF LiveWrites
    <2>2. L \subseteq S /\ L2 \subseteq S2
        BY LiveSubset
    <2>3. MapOf(log2, S2)[b] = LastOf(L2) /\ MapOf(log, S)[b] = LastOf(L)
        BY DEF MapOf
    <2> HIDE DEF L, L2
    <2>4. CASE L = {}
        <3>1. L2 = {}
            BY <1>1, <2>1, <2>2, <2>4
        <3> QED
            BY <2>3, <2>4, <3>1, LastOfNone DEF BlockAt
    <2>5. CASE L # {}
        <3>1. L \subseteq 1 .. n
            BY <2>2
        <3>2. PICK x \in L : \A y \in L : y <= x
            BY <2>5, <3>1, LastExists
        <3>3. LastOf(L) = x
            <4>1. L \subseteq 0 .. n
                BY <3>1
            <4> QED
                BY <3>2, <4>1, LastOfIs
        <3>4. x \in S /\ x \in 1 .. n /\ g[x] \in L2 /\ g[x] \in 1 .. n2
            BY <1>2, <2>1, <2>2, <3>2
        <3>5. ASSUME NEW k \in L2 PROVE k <= g[x]
            <4>1. PICK i \in S : g[i] = k
                BY <1>1, <2>2
            <4>2. i \in L /\ i <= x /\ i \in 1 .. n /\ k \in 1 .. n2
                BY <1>2, <2>1, <3>2, <4>1
            <4>3. i = x \/ i < x
                BY <3>4, <4>2
            <4> QED
                BY <1>1, <3>4, <4>1, <4>2, <4>3
        <3>6. LastOf(L2) = g[x]
            <4>1. L2 \subseteq 0 .. n2
                BY <1>1, <2>2
            <4> QED
                BY <3>4, <3>5, <4>1, LastOfIs
        <3>7. x # 0 /\ g[x] # 0
            BY <3>4
        <3> QED
            BY <1>1, <2>3, <3>3, <3>4, <3>6, <3>7 DEF BlockAt
    <2> QED
        BY <2>4, <2>5
<1> QED
    BY <1>5, <1>6 DEF Leaves

(* Only the records of S count.                                            *)
LEMMA LeavesSame ==
    ASSUME NEW n \in Nat, NEW S, S \subseteq 1 .. n, NEW log, NEW log2,
           \A i \in S : log2[i] = log[i],
           NEW f, NEW size, Leaves(log, S, f, size)
    PROVE  Leaves(log2, S, f, size)
<1>1. SizeOf(log2, S) = SizeOf(log, S) /\ \A b : LiveWrites(log2, S, b) = LiveWrites(log, S, b)
    BY DEF SizeOf, LiveWrites
<1>2. ASSUME NEW b \in Block
      PROVE  BlockAt(log2, MapOf(log2, S)[b]) = BlockAt(log, MapOf(log, S)[b])
    <2> DEFINE L == LiveWrites(log, S, b)
    <2>1. MapOf(log2, S)[b] = LastOf(L) /\ MapOf(log, S)[b] = LastOf(L)
        BY <1>1 DEF MapOf
    <2>2. L \subseteq S
        BY LiveSubset
    <2> HIDE DEF L
    <2>3. L \subseteq 0 .. n
        BY <2>2
    <2>4. LastOf(L) \in L \cup {0}
        BY <2>3, LastOfBound
    <2>5. LastOf(L) = 0 \/ log2[LastOf(L)] = log[LastOf(L)]
        BY <2>2, <2>4
    <2> QED
        BY <2>1, <2>5 DEF BlockAt
<1> QED
    BY <1>1, <1>2 DEF Leaves

(* What the record r changes: a write of a block, and a truncation.        *)
Adds(r, f, size, f2, size2) ==
    /\ r.block \in Block
    /\ \A c \in Block : f2[c] = IF c = r.block THEN r.data ELSE f[c]
    /\ size2 = IF size >= (r.block + 1) * BlockUnits THEN size ELSE (r.block + 1) * BlockUnits

Takes(r, f, f2, size2) ==
    /\ IsTruncate(r) /\ r.size = size2 /\ size2 \in 0 .. MaxSize
    /\ \A c \in Block : f2[c] = IF c >= CeilBlocks(size2) THEN ZeroBlock ELSE f[c]

LEMMA LeavesWrite ==
    ASSUME NEW p \in Nat \ {0}, NEW S, S \subseteq 1 .. p - 1, NEW log,
           \A i \in S \cup {p} : Extent(log[i]) \in 0 .. MaxSize,
           NEW f, NEW size, Leaves(log, S, f, size),
           NEW f2, NEW size2, Adds(log[p], f, size, f2, size2)
    PROVE  Leaves(log, S \cup {p}, f2, size2)
<1> DEFINE b == log[p].block
<1>1. /\ b \in Block
      /\ \A c \in Block : f2[c] = IF c = b THEN log[p].data ELSE f[c]
      /\ size2 = IF size >= (b + 1) * BlockUnits THEN size ELSE (b + 1) * BlockUnits
    BY DEF Adds
<1>2. b # Metadata
    BY <1>1, FormatAssumption DEF Block, Metadata
<1>3. Extent(log[p]) = (b + 1) * BlockUnits /\ ~IsTruncate(log[p])
      /\ \A c : ~Cuts(log[p], c)
    BY <1>2 DEF Extent, IsTruncate, Cuts
<1>4. SizeOf(log, S \cup {p}) =
          IF SizeOf(log, S) >= Extent(log[p]) THEN SizeOf(log, S) ELSE Extent(log[p])
    <2> DEFINE n == p - 1
    <2>1. n \in Nat /\ S \subseteq 1 .. n /\ p = n + 1
        OBVIOUS
    <2> HIDE DEF n
    <2> QED
        BY <1>3, <2>1, SizeWithNext
<1>5. MapOf(log, S \cup {p}) =
          [c \in Block |-> IF log[p].block = c THEN p
                           ELSE IF Cuts(log[p], c) THEN 0 ELSE MapOf(log, S)[c]]
    <2> DEFINE n == p - 1
    <2>1. n \in Nat /\ S \subseteq 1 .. n /\ p = n + 1
        OBVIOUS
    <2> HIDE DEF n
    <2>2. MapOf(log, S \cup {n + 1}) =
              [c \in Block |-> IF log[n + 1].block = c THEN n + 1
                               ELSE IF Cuts(log[n + 1], c) THEN 0 ELSE MapOf(log, S)[c]]
        BY ONLY <2>1, MapWithNext
    <2> QED
        BY ONLY <2>1, <2>2
<1>6. ASSUME NEW c \in Block
      PROVE  BlockAt(log, MapOf(log, S \cup {p})[c]) =
                 IF c = b THEN log[p].data ELSE f[c]
    <2>1. MapOf(log, S \cup {p})[c] = IF b = c THEN p ELSE MapOf(log, S)[c]
        BY <1>1, <1>3, <1>5
    <2>2. p # 0 /\ f[c] = BlockAt(log, MapOf(log, S)[c])
        BY DEF Leaves
    <2> QED
        BY <2>1, <2>2 DEF BlockAt
<1> QED
    BY <1>1, <1>3, <1>4, <1>6 DEF Leaves

(* Writes that a truncation cuts need not be kept.                         *)
LEMMA LeavesCut ==
    ASSUME NEW p \in Nat \ {0}, NEW S, S \subseteq 1 .. p - 1, NEW log, NEW keep \in SUBSET S,
           \A i \in keep \cup {p} : Extent(log[i]) \in 0 .. MaxSize,
           NEW f, NEW size, Leaves(log, S, f, size),
           NEW f2, NEW m, Takes(log[p], f, f2, m),
           \A i \in S \ keep : log[i].block \in Block /\ log[i].block >= CeilBlocks(m)
    PROVE  Leaves(log, keep \cup {p}, f2, m)
<1>1. /\ IsTruncate(log[p]) /\ log[p].size = m /\ m \in 0 .. MaxSize
      /\ \A c \in Block : f2[c] = IF c >= CeilBlocks(m) THEN ZeroBlock ELSE f[c]
    BY DEF Takes
<1>2. keep \subseteq 1 .. p - 1 /\ keep \subseteq S
    OBVIOUS
<1>3. SizeOf(log, keep \cup {p}) = log[p].size
    <2> DEFINE n == p - 1
    <2>1. n \in Nat /\ keep \subseteq 1 .. n /\ p = n + 1
        BY <1>2
    <2> HIDE DEF n
    <2> QED
        BY <1>1, <2>1, SizeWithNext
<1>4. ASSUME NEW c \in Block
      PROVE  BlockAt(log, MapOf(log, keep \cup {p})[c]) =
                 IF c >= CeilBlocks(m) THEN ZeroBlock ELSE f[c]
    <2>0. CeilBlocks(m) \in Int /\ c \in Int /\ c # Metadata
        BY <1>1, CeilRange, FormatAssumption DEF Block, Metadata
    <2>1. MapOf(log, keep \cup {p}) =
              [a \in Block |-> IF log[p].block = a THEN p
                               ELSE IF Cuts(log[p], a) THEN 0 ELSE MapOf(log, keep)[a]]
        <3> DEFINE n == p - 1
        <3>1. n \in Nat /\ keep \subseteq 1 .. n /\ p = n + 1
            BY <1>2
        <3> HIDE DEF n
        <3>2. MapOf(log, keep \cup {n + 1}) =
                  [a \in Block |-> IF log[n + 1].block = a THEN n + 1
                                   ELSE IF Cuts(log[n + 1], a) THEN 0 ELSE MapOf(log, keep)[a]]
            BY ONLY <3>1, MapWithNext
        <3> QED
            BY ONLY <3>1, <3>2
    <2>2. Cuts(log[p], c) <=> c >= CeilBlocks(m)
        BY <1>1, <2>0 DEF Cuts
    <2>3. log[p].block # c
        BY <1>1, <2>0 DEF IsTruncate
    <2>4. MapOf(log, keep \cup {p})[c] =
              IF c >= CeilBlocks(m) THEN 0 ELSE MapOf(log, keep)[c]
        BY <2>1, <2>2, <2>3
    <2>5. CASE ~(c >= CeilBlocks(m))
        <3>1. \A i \in S : log[i].block = c \/ IsTruncate(log[i]) => i \in keep
            <4> SUFFICES ASSUME NEW i \in S \ keep
                         PROVE  log[i].block # c /\ ~IsTruncate(log[i])
                OBVIOUS
            <4>1. log[i].block \in Block /\ log[i].block >= CeilBlocks(m)
                OBVIOUS
            <4> QED
                BY <2>5, <4>1, FormatAssumption DEF IsTruncate, Block, Metadata
        <3>2. LiveWrites(log, keep, c) = LiveWrites(log, S, c)
            BY <1>2, <3>1 DEF LiveWrites, Cuts
        <3>3. f[c] = BlockAt(log, MapOf(log, keep)[c])
            BY <3>2 DEF Leaves, MapOf
        <3> QED
            BY <2>4, <2>5, <3>3
    <2> QED
        BY <2>4, <2>5 DEF BlockAt
<1> QED
    BY <1>1, <1>3, <1>4 DEF Leaves
=============================================================================
