-------------------------- MODULE FkfsChainProofs --------------------------
(***************************************************************************)
(* The chain of entries in a block.  ChainOffsets and WalkBlock are        *)
(* defined by recursion along the chain; here they are characterised by    *)
(* the least set of offsets that is closed under stepping over entries,    *)
(* and what the store promises of its tail and of truncated entries is     *)
(* proved from that.                                                       *)
(***************************************************************************)
EXTENDS FkfsProofs, LeastNumber

Reaches == 0..(2 * BlockSize)

\* A block whose entries all end in the block.
Whole(b) == \A p \in Offsets : IsEntry(b[p]) => p + Required(b[p].size) <= BlockSize

\* Stepping over an entry does not leave S.
Closed(b, S) ==
    \A p \in S : p \in Offsets /\ IsEntry(b[p]) => p + Required(b[p].size) \in S

\* The offsets a walk that starts at o stops at: the least closed set with o.
From(b, o) == {q \in Reaches : \A S \in SUBSET Reaches : o \in S /\ Closed(b, S) => q \in S}

ReachOf(b, r) ==
    r = [o \in 0..(2 * BlockSize) |->
            {o} \cup IF o \in Offsets /\ IsEntry(b[o])
                     THEN r[o + Required(b[o].size)] ELSE {}]

LEMMA ChainUnfold ==
    ASSUME NEW b
    PROVE  ChainOffsets(b) = (CHOOSE r : ReachOf(b, r))[0]
BY DEF ChainOffsets, ReachOf

LEMMA ReachesNat == BlockSize \in Nat /\ 0 \in Reaches /\ Offsets \subseteq Reaches
                    /\ \A o \in Reaches : o \in Nat
BY StoreAssumption DEF Reaches, Offsets

\* The end of an entry.
LEMMA EntryEnd ==
    ASSUME NEW b \in Block, Whole(b), NEW p \in Offsets, IsEntry(b[p])
    PROVE  /\ p + Required(b[p].size) \in Reaches /\ p < p + Required(b[p].size)
           /\ p + Required(b[p].size) <= BlockSize
<1>1. b[p] \in Entries
  BY EntryCell DEF Block
<1>2. b[p].size \in Nat
  BY <1>1 DEF Entries
<1>3. p + Required(b[p].size) <= BlockSize
  BY DEF Whole
<1> QED
  BY <1>2, <1>3, StoreAssumption DEF Reaches, Offsets, Required

LEMMA FromClosed ==
    ASSUME NEW b \in Block, Whole(b), NEW o \in Reaches
    PROVE  From(b, o) \in SUBSET Reaches /\ o \in From(b, o) /\ Closed(b, From(b, o))
<1>1. From(b, o) \in SUBSET Reaches /\ o \in From(b, o)
  BY DEF From
<1>2. ASSUME NEW p \in From(b, o), p \in Offsets, IsEntry(b[p])
      PROVE  p + Required(b[p].size) \in From(b, o)
  <2>1. p + Required(b[p].size) \in Reaches
    BY <1>2, EntryEnd
  <2>2. ASSUME NEW S \in SUBSET Reaches, o \in S, Closed(b, S)
        PROVE  p + Required(b[p].size) \in S
    <3>1. p \in S
      BY <2>2 DEF From
    <3> QED
      BY <1>2, <2>2, <3>1 DEF Closed
  <2> QED
    BY <2>1, <2>2 DEF From
<1> QED
  BY <1>1, <1>2 DEF Closed

\* A closed set that holds the start holds the whole walk.
LEMMA FromLeast ==
    ASSUME NEW b, NEW o, NEW S \in SUBSET Reaches, o \in S, Closed(b, S)
    PROVE  From(b, o) \subseteq S
BY DEF From

LEMMA FromStep ==
    ASSUME NEW b \in Block, Whole(b), NEW o \in Reaches
    PROVE  From(b, o) = {o} \cup IF o \in Offsets /\ IsEntry(b[o])
                                 THEN From(b, o + Required(b[o].size)) ELSE {}
<1>1. CASE o \in Offsets /\ IsEntry(b[o])
  <2> DEFINE n == o + Required(b[o].size)
             S == {o} \cup From(b, n)
  <2>1. n \in Reaches
    BY <1>1, EntryEnd
  <2> HIDE DEF n
  <2>2. From(b, n) \in SUBSET Reaches /\ n \in From(b, n) /\ Closed(b, From(b, n))
    BY <2>1, FromClosed
  <2>3. Closed(b, S)
    BY <2>2 DEF Closed, n
  <2>4. From(b, o) \subseteq S
    <3>1. S \in SUBSET Reaches /\ o \in S
      BY <2>2
    <3> HIDE DEF S
    <3> QED
      BY <2>3, <3>1, FromLeast
  <2>5. From(b, o) \in SUBSET Reaches /\ o \in From(b, o) /\ Closed(b, From(b, o))
    BY FromClosed
  <2>6. n \in From(b, o)
    BY <1>1, <2>5 DEF Closed, n
  <2>7. From(b, n) \subseteq From(b, o)
    BY <2>5, <2>6, FromLeast
  <2> QED
    BY <1>1, <2>4, <2>5, <2>7 DEF n
<1>2. CASE ~(o \in Offsets /\ IsEntry(b[o]))
  <2>1. Closed(b, {o}) /\ {o} \in SUBSET Reaches
    BY <1>2 DEF Closed
  <2>2. From(b, o) \subseteq {o}
    BY <2>1, FromLeast
  <2> QED
    BY <1>2, <2>2, FromClosed
<1> QED
  BY <1>1, <1>2

\* The recursive function of ChainOffsets exists ...
LEMMA ReachExists ==
    ASSUME NEW b \in Block, Whole(b)
    PROVE  ReachOf(b, [o \in Reaches |-> From(b, o)])
<1> DEFINE r == [o \in Reaches |-> From(b, o)]
<1>1. ASSUME NEW o \in Reaches
      PROVE  r[o] = {o} \cup IF o \in Offsets /\ IsEntry(b[o])
                             THEN r[o + Required(b[o].size)] ELSE {}
  <2>1. CASE o \in Offsets /\ IsEntry(b[o])
    <3>1. o + Required(b[o].size) \in Reaches
      BY <2>1, EntryEnd
    <3> QED
      BY <2>1, <3>1, FromStep
  <2>2. CASE ~(o \in Offsets /\ IsEntry(b[o]))
    BY <2>2, FromStep
  <2> QED
    BY <2>1, <2>2
<1>2. r = [o \in Reaches |-> r[o]]
  OBVIOUS
<1> HIDE DEF r
<1>3. r = [o \in Reaches |-> {o} \cup IF o \in Offsets /\ IsEntry(b[o])
                                      THEN r[o + Required(b[o].size)] ELSE {}]
  BY <1>1, <1>2
<1> QED
  BY <1>3 DEF ReachOf, Reaches, r

\* ... and is the only one: look at the last offset where another differs.
LEMMA ReachUnique ==
    ASSUME NEW b \in Block, Whole(b), NEW r, ReachOf(b, r), NEW o \in Reaches
    PROVE  r[o] = From(b, o)
<1>1. \A p \in Reaches :
          r[p] = {p} \cup IF p \in Offsets /\ IsEntry(b[p])
                          THEN r[p + Required(b[p].size)] ELSE {}
  BY DEF ReachOf, Reaches
<1> DEFINE T == {d \in Nat : \E p \in Reaches : d = 2 * BlockSize - p /\ r[p] # From(b, p)}
<1> SUFFICES ASSUME r[o] # From(b, o)
             PROVE  FALSE
  OBVIOUS
<1>2. \A p \in Reaches : 2 * BlockSize - p \in Nat
  BY ReachesNat DEF Reaches
<1>3. T \in SUBSET Nat /\ T # {}
  <2>1. 2 * BlockSize - o \in T
    BY <1>2
  <2> QED
    BY <2>1
<1>4. PICK d \in T : \A e \in T : d <= e
  <2> HIDE DEF T
  <2> QED
    BY <1>3, LeastExists
<1>5. PICK p \in Reaches : d = 2 * BlockSize - p /\ r[p] # From(b, p)
  BY <1>4
<1>6. p \in Offsets /\ IsEntry(b[p])
  BY <1>1, <1>5, FromStep
<1> DEFINE n == p + Required(b[p].size)
<1>7. n \in Reaches /\ p < n
  BY <1>6, EntryEnd
<1>8. r[n] # From(b, n)
  BY <1>1, <1>5, <1>6, FromStep
<1> HIDE DEF n
<1>9. 2 * BlockSize - n \in T
  BY <1>2, <1>7, <1>8
<1> QED
  BY <1>4, <1>5, <1>7, <1>9, ReachesNat

LEMMA ChainIs ==
    ASSUME NEW b \in Block, Whole(b)
    PROVE  ChainOffsets(b) = From(b, 0)
<1>1. ReachOf(b, CHOOSE r : ReachOf(b, r))
  BY ReachExists
<1>2. 0 \in Reaches
  BY ReachesNat
<1> DEFINE c == CHOOSE r : ReachOf(b, r)
<1>3. ChainOffsets(b) = c[0]
  BY ChainUnfold
<1>4. ReachOf(b, c)
  BY <1>1
<1> HIDE DEF c
<1> QED
  BY <1>2, <1>3, <1>4, ReachUnique

\* What the chain of a block is: it starts at 0, is closed, and has nothing else.
LEMMA ChainClosed ==
    ASSUME NEW b \in Block, Whole(b)
    PROVE  /\ ChainOffsets(b) \in SUBSET Reaches /\ 0 \in ChainOffsets(b)
           /\ Closed(b, ChainOffsets(b))
           /\ \A S \in SUBSET Reaches : 0 \in S /\ Closed(b, S) => ChainOffsets(b) \subseteq S
<1>1. 0 \in Reaches
  BY ReachesNat
<1> QED
  BY <1>1, ChainIs, FromClosed, FromLeast

\* The chain is a line: where it goes past p, the entry at p is stepped over.
LEMMA ChainLinear ==
    ASSUME NEW b \in Block, Whole(b), NEW p \in ChainOffsets(b), NEW q \in ChainOffsets(b), p < q
    PROVE  p \in Offsets /\ IsEntry(b[p]) /\ p + Required(b[p].size) <= q
<1> DEFINE C == ChainOffsets(b)
           N(x) == x + Required(b[x].size)
           E(x) == x \in Offsets /\ IsEntry(b[x])
           A(y) == \A x \in C : x < y => E(x) /\ N(x) <= y
           S == {y \in C : A(y)}
<1>1. C \in SUBSET Reaches /\ 0 \in C /\ Closed(b, C)
  BY ChainClosed
<1>2. \A T \in SUBSET Reaches : 0 \in T /\ Closed(b, T) => C \subseteq T
  BY ChainClosed
<1>3. \A x \in C : E(x) => N(x) \in C /\ x < N(x)
  BY <1>1, EntryEnd DEF Closed
<1>4. \A x \in C : x \in Nat
  BY <1>1, ReachesNat
<1> HIDE DEF C
<1>5. 0 \in S
  BY <1>1, <1>4
<1>6. ASSUME NEW y \in S, E(y)
      PROVE  N(y) \in S
  <2> DEFINE T == {x \in C : x <= y \/ N(y) <= x}
  <2>1. T \in SUBSET Reaches /\ 0 \in T
    BY <1>1, <1>4
  <2>2. Closed(b, T)
    <3>1. ASSUME NEW x \in T, E(x)
          PROVE  N(x) \in T
      <4>1. N(x) \in C /\ x < N(x) /\ N(x) \in Nat /\ x \in Nat /\ y \in Nat
            /\ N(y) \in Nat
        BY <1>3, <1>4, <1>6, <3>1
      <4>2. CASE x < y
        BY <1>6, <3>1, <4>1, <4>2
      <4>3. CASE x = y
        BY <4>1, <4>3
      <4>4. CASE y < x
        <5>1. N(y) <= x
          BY <3>1, <4>1, <4>4
        <5> HIDE DEF N
        <5> QED
          BY <4>1, <5>1
      <4> QED
        BY <4>1, <4>2, <4>3, <4>4
    <3> QED
      BY <3>1 DEF Closed
  <2>3. C \subseteq T
    <3> HIDE DEF T
    <3> QED
      BY <1>2, <2>1, <2>2
  <2>4. N(y) \in C /\ y < N(y) /\ y \in Nat /\ N(y) \in Nat
    BY <1>3, <1>4, <1>6
  <2>5. ASSUME NEW x \in C, x < N(y)
        PROVE  E(x) /\ N(x) <= N(y)
    <3>1. x <= y /\ x \in Nat
      <4>1. x \in T /\ x \in Nat
        BY <2>3, <1>4, <2>5
      <4>2. x <= y \/ N(y) <= x
        BY <4>1
      <4> HIDE DEF N
      <4> QED
        BY <2>4, <2>5, <4>1, <4>2
    <3>2. CASE x = y
      BY <1>6, <2>4, <3>2
    <3>3. CASE x < y
      <4>1. E(x) /\ N(x) <= y
        BY <1>6, <3>3
      <4>2. N(x) \in Nat
        BY <1>3, <1>4, <4>1
      <4> HIDE DEF N, E
      <4> QED
        BY <2>4, <4>1, <4>2
    <3> QED
      BY <3>1, <3>2, <3>3
  <2> QED
    BY <2>4, <2>5
<1>7. C \subseteq S
  <2>1. Closed(b, S)
    BY <1>6 DEF Closed
  <2>2. S \in SUBSET Reaches
    BY <1>1
  <2> HIDE DEF S
  <2> QED
    BY <1>2, <1>5, <2>1, <2>2
<1>8. p \in C /\ q \in S
  BY <1>7 DEF C
<1> QED
  BY <1>8

-----------------------------------------------------------------------------
(***************************************************************************)
(* What a walk of a block meets.                                           *)
(***************************************************************************)
Meets(h, b, f, limit, o) ==
    {b[q].id : q \in {q \in From(b, o) : q < limit /\ Good(h, b[q]) /\ b[q].file = f}}

WalkOf(h, b, f, limit, w) ==
    w = [o \in 0..(2 * BlockSize) |->
            IF o >= limit THEN {}
            ELSE IF ~IsEntry(b[o]) THEN {}
            ELSE (IF b[o].file = f /\ Good(h, b[o]) THEN {b[o].id} ELSE {})
                     \cup w[o + Required(b[o].size)]]

LEMMA WalkUnfold ==
    ASSUME NEW h, NEW b, NEW f, NEW limit
    PROVE  WalkBlock(h, b, f, limit) = (CHOOSE w : WalkOf(h, b, f, limit, w))[0]
BY DEF WalkBlock, WalkOf

\* A walk only goes forward.
LEMMA FromForward ==
    ASSUME NEW b \in Block, Whole(b), NEW o \in Reaches, NEW q \in From(b, o)
    PROVE  o <= q
<1> DEFINE S == {p \in Reaches : o <= p}
<1>1. S \in SUBSET Reaches /\ o \in S
  BY ReachesNat
<1>2. ASSUME NEW p \in S, p \in Offsets, IsEntry(b[p])
      PROVE  p + Required(b[p].size) \in S
  <2>1. p + Required(b[p].size) \in Reaches /\ p < p + Required(b[p].size)
    BY <1>2, EntryEnd
  <2>2. \A x, y, z \in Nat : x <= y /\ y < z => x <= z
    OBVIOUS
  <2>3. p \in Nat /\ o \in Nat /\ p + Required(b[p].size) \in Nat /\ o <= p
    BY <2>1, ReachesNat
  <2> QED
    BY <2>1, <2>2, <2>3
<1>3. Closed(b, S)
  BY <1>2 DEF Closed
<1>4. From(b, o) \subseteq S
  <2> HIDE DEF S
  <2> QED
    BY <1>1, <1>3, FromLeast
<1> QED
  BY <1>4

LEMMA MeetsStep ==
    ASSUME NEW h, NEW b \in Block, Whole(b), NEW f, NEW limit \in 0..BlockSize,
           NEW o \in Reaches
    PROVE  Meets(h, b, f, limit, o) =
              IF o >= limit THEN {}
              ELSE IF ~IsEntry(b[o]) THEN {}
              ELSE (IF b[o].file = f /\ Good(h, b[o]) THEN {b[o].id} ELSE {})
                       \cup Meets(h, b, f, limit, o + Required(b[o].size))
<1>1. o \in Nat /\ limit \in Nat /\ limit <= BlockSize
  BY ReachesNat
<1>2. CASE o >= limit
  <2>1. \A q \in From(b, o) : ~(q < limit)
    <3>1. ASSUME NEW q \in From(b, o) PROVE ~(q < limit)
      <4>1. o <= q /\ q \in Nat
        BY FromForward, FromClosed, ReachesNat
      <4> QED
        BY <1>1, <1>2, <4>1
    <3> QED
      BY <3>1
  <2> QED
    BY <1>2, <2>1 DEF Meets
<1>3. CASE ~(o >= limit)
  <2>1. o < limit /\ o \in Offsets
    BY <1>1, <1>3, StoreAssumption DEF Offsets
  <2>2. CASE ~IsEntry(b[o])
    <3>1. From(b, o) = {o}
      BY <2>2, FromStep
    <3>2. Meets(h, b, f, limit, o) = {}
      BY <2>2, <3>1 DEF Meets, Good
    <3> QED
      BY <1>3, <2>2, <3>2
  <2>3. CASE IsEntry(b[o])
    <3> DEFINE n == o + Required(b[o].size)
    <3>1. From(b, o) = {o} \cup From(b, n)
      BY <2>1, <2>3, FromStep
    <3> HIDE DEF n
    <3>2. Meets(h, b, f, limit, o) =
            (IF b[o].file = f /\ Good(h, b[o]) THEN {b[o].id} ELSE {})
                \cup Meets(h, b, f, limit, n)
      BY <2>1, <3>1 DEF Meets
    <3> QED
      BY <1>3, <2>3, <3>2 DEF n
  <2> QED
    BY <2>2, <2>3
<1> QED
  BY <1>2, <1>3

LEMMA WalkExists ==
    ASSUME NEW h, NEW b \in Block, Whole(b), NEW f, NEW limit \in 0..BlockSize
    PROVE  WalkOf(h, b, f, limit, [o \in Reaches |-> Meets(h, b, f, limit, o)])
<1> DEFINE w == [o \in Reaches |-> Meets(h, b, f, limit, o)]
           R(o) == IF o >= limit THEN {}
                   ELSE IF ~IsEntry(b[o]) THEN {}
                   ELSE (IF b[o].file = f /\ Good(h, b[o]) THEN {b[o].id} ELSE {})
                            \cup w[o + Required(b[o].size)]
<1>1. ASSUME NEW o \in Reaches
      PROVE  w[o] = R(o)
  <2>1. CASE ~(o >= limit) /\ IsEntry(b[o])
    <3>1. o \in Offsets
      BY <2>1, ReachesNat, StoreAssumption DEF Offsets
    <3>2. o + Required(b[o].size) \in Reaches
      BY <2>1, <3>1, EntryEnd
    <3>3. w[o + Required(b[o].size)] = Meets(h, b, f, limit, o + Required(b[o].size))
      BY <3>2
    <3>4. w[o] = Meets(h, b, f, limit, o)
      OBVIOUS
    <3> HIDE DEF w
    <3> QED
      BY <2>1, <3>3, <3>4, MeetsStep
  <2>2. CASE o >= limit \/ ~IsEntry(b[o])
    BY <2>2, MeetsStep
  <2> QED
    BY <2>1, <2>2
<1>2. w = [o \in Reaches |-> w[o]]
  OBVIOUS
<1> HIDE DEF w
<1>3. w = [o \in Reaches |-> R(o)]
  BY <1>1, <1>2
<1> QED
  BY <1>3 DEF WalkOf, Reaches, w

LEMMA WalkUnique ==
    ASSUME NEW h, NEW b \in Block, Whole(b), NEW f, NEW limit \in 0..BlockSize,
           NEW w, WalkOf(h, b, f, limit, w), NEW o \in Reaches
    PROVE  w[o] = Meets(h, b, f, limit, o)
<1> DEFINE M(p) == Meets(h, b, f, limit, p)
<1>1. \A p \in Reaches :
          w[p] = IF p >= limit THEN {}
                 ELSE IF ~IsEntry(b[p]) THEN {}
                 ELSE (IF b[p].file = f /\ Good(h, b[p]) THEN {b[p].id} ELSE {})
                          \cup w[p + Required(b[p].size)]
  BY DEF WalkOf, Reaches
<1>2. \A p \in Reaches :
          M(p) = IF p >= limit THEN {}
                 ELSE IF ~IsEntry(b[p]) THEN {}
                 ELSE (IF b[p].file = f /\ Good(h, b[p]) THEN {b[p].id} ELSE {})
                          \cup M(p + Required(b[p].size))
  BY MeetsStep
<1> HIDE DEF M
<1> DEFINE T == {d \in Nat : \E p \in Reaches : d = 2 * BlockSize - p /\ w[p] # M(p)}
<1> SUFFICES ASSUME w[o] # M(o)
             PROVE  FALSE
  BY DEF M
<1>3. \A p \in Reaches : 2 * BlockSize - p \in Nat
  BY ReachesNat DEF Reaches
<1>4. T \in SUBSET Nat /\ T # {}
  <2>1. 2 * BlockSize - o \in T
    BY <1>3
  <2> QED
    BY <2>1
<1>5. PICK d \in T : \A e \in T : d <= e
  <2> HIDE DEF T
  <2> QED
    BY <1>4, LeastExists
<1>6. PICK p \in Reaches : d = 2 * BlockSize - p /\ w[p] # M(p)
  BY <1>5
<1>7. ~(p >= limit) /\ IsEntry(b[p])
  BY <1>1, <1>2, <1>6
<1>8. p \in Offsets
  BY <1>7, ReachesNat, StoreAssumption DEF Offsets
<1> DEFINE n == p + Required(b[p].size)
<1>9. n \in Reaches /\ p < n
  BY <1>7, <1>8, EntryEnd
<1>10. w[n] # M(n)
  BY <1>1, <1>2, <1>6, <1>7
<1> HIDE DEF n
<1>11. 2 * BlockSize - n \in T
  BY <1>3, <1>9, <1>10
<1> QED
  BY <1>5, <1>6, <1>9, <1>11, ReachesNat

\* A walk meets the intact entries of the file on the chain before its limit.
LEMMA WalkIs ==
    ASSUME NEW h, NEW b \in Block, Whole(b), NEW f, NEW limit \in 0..BlockSize
    PROVE  WalkBlock(h, b, f, limit) =
              {b[q].id : q \in {q \in ChainOffsets(b) :
                                    q < limit /\ Good(h, b[q]) /\ b[q].file = f}}
<1> DEFINE c == CHOOSE w : WalkOf(h, b, f, limit, w)
<1>1. WalkOf(h, b, f, limit, c)
  BY WalkExists
<1>2. WalkBlock(h, b, f, limit) = c[0]
  BY WalkUnfold
<1> HIDE DEF c
<1>3. WalkBlock(h, b, f, limit) = Meets(h, b, f, limit, 0)
  BY <1>1, <1>2, ReachesNat, WalkUnique
<1> QED
  BY <1>3, ChainIs DEF Meets

-----------------------------------------------------------------------------
(***************************************************************************)
(* Two blocks that agree up to an offset on their chains.                  *)
(***************************************************************************)
Agree(a, b, o) ==
    o \in ChainOffsets(a) /\ \A p \in ChainOffsets(a) : p < o => b[p] = a[p]

\* The chain of the second goes the same way up to there.
LEMMA AgreeChain ==
    ASSUME NEW a \in Block, Whole(a), NEW b \in Block, Whole(b), NEW o, Agree(a, b, o)
    PROVE  \A p \in ChainOffsets(a) : p <= o => p \in ChainOffsets(b)
<1> DEFINE C == ChainOffsets(a)
           D == ChainOffsets(b)
           S == {p \in C : p <= o => p \in D}
<1>1. C \in SUBSET Reaches /\ 0 \in C /\ Closed(a, C) /\ o \in C
      /\ \A T \in SUBSET Reaches : 0 \in T /\ Closed(a, T) => C \subseteq T
  BY ChainClosed DEF Agree
<1>2. 0 \in D /\ Closed(b, D)
  BY ChainClosed
<1>3. \A p \in C : p < o => b[p] = a[p]
  BY DEF Agree
<1> HIDE DEF C, D
<1>4. S \in SUBSET Reaches /\ 0 \in S
  BY <1>1, <1>2
<1>5. ASSUME NEW p \in S, p \in Offsets, IsEntry(a[p])
      PROVE  p + Required(a[p].size) \in S
  <2> DEFINE n == p + Required(a[p].size)
  <2>1. n \in C
    BY <1>1, <1>5 DEF Closed
  <2>2. p < n /\ n \in Reaches
    BY <1>5, EntryEnd
  <2>3. CASE n <= o
    <3>1. p < o /\ p <= o
      <4>1. p \in Nat /\ n \in Nat /\ o \in Nat
        BY <1>1, <2>2, ReachesNat
      <4> HIDE DEF n
      <4> QED
        BY <2>2, <2>3, <4>1
    <3>2. p \in D /\ b[p] = a[p]
      BY <1>3, <3>1
    <3> QED
      BY <1>2, <1>5, <2>1, <3>2 DEF Closed
  <2> QED
    BY <2>1, <2>3
<1>6. Closed(a, S)
  BY <1>5 DEF Closed
<1>7. C \subseteq S
  <2> HIDE DEF S
  <2> QED
    BY <1>1, <1>4, <1>6
<1> QED
  BY <1>7 DEF C, D

LEMMA AgreeSelf ==
    ASSUME NEW b, NEW o \in ChainOffsets(b)
    PROVE  Agree(b, b, o)
BY DEF Agree

\* Agreement carries over a further change behind o.
LEMMA AgreeTrans ==
    ASSUME NEW a \in Block, Whole(a), NEW b \in Block, Whole(b), NEW c, NEW o,
           Agree(a, b, o), Agree(b, c, o)
    PROVE  Agree(a, c, o)
<1>1. ASSUME NEW p \in ChainOffsets(a), p < o
      PROVE  c[p] = a[p]
  <2>1. p <= o
    <3>1. p \in Nat /\ o \in Nat
      BY ChainClosed, ReachesNat DEF Agree
    <3> QED
      BY <1>1, <3>1
  <2>2. p \in ChainOffsets(b)
    BY <2>1, AgreeChain
  <2> QED
    BY <1>1, <2>2 DEF Agree
<1> QED
  BY <1>1 DEF Agree

\* A walk up to o meets the same in both.
LEMMA AgreeWalk ==
    ASSUME NEW a \in Block, Whole(a), NEW b \in Block, Whole(b), NEW o, Agree(a, b, o),
           NEW h, NEW f, NEW limit \in 0..BlockSize, limit <= o
    PROVE  WalkBlock(h, a, f, limit) \subseteq WalkBlock(h, b, f, limit)
<1>1. ASSUME NEW q \in ChainOffsets(a), q < limit
      PROVE  q \in ChainOffsets(b) /\ b[q] = a[q]
  <2>1. q < o /\ q <= o
    <3>1. q \in Nat /\ o \in Nat /\ limit \in Nat
      BY ChainClosed, ReachesNat DEF Agree
    <3> QED
      BY <1>1, <3>1
  <2> QED
    BY <2>1, AgreeChain DEF Agree
<1> QED
  BY <1>1, WalkIs

-----------------------------------------------------------------------------
(***************************************************************************)
(* Writes.                                                                 *)
(***************************************************************************)

LEMMA CellSize ==
    ASSUME NEW b \in Block, NEW p \in Offsets, IsEntry(b[p])
    PROVE  /\ b[p] \in Entries /\ b[p].size \in Nat
           /\ IsEntry([b[p] EXCEPT !.version = Broken])
           /\ [b[p] EXCEPT !.version = Broken].size = b[p].size
<1>1. b[p] \in Entries
  BY EntryCell DEF Block
<1> QED
  BY <1>1 DEF Entries, IsEntry

\* An entry that fits leaves every entry inside the block.
LEMMA WriteWhole ==
    ASSUME NEW b \in Block, Whole(b), NEW o \in Offsets, NEW e \in Entries,
           o + Required(e.size) <= BlockSize
    PROVE  Whole(WriteEntry(b, o, e))
<1> DEFINE w == WriteEntry(b, o, e)
<1> SUFFICES ASSUME NEW p \in Offsets, IsEntry(w[p])
             PROVE  p + Required(w[p].size) <= BlockSize
  BY DEF Whole
<1>1. ~IsEntry(Junk)
  BY DEF IsEntry, Junk
<1>2. \/ p = o /\ w[p] = e
      \/ w[p] = Junk
      \/ w[p] = b[p]
      \/ IsEntry(b[p]) /\ w[p] = [b[p] EXCEPT !.version = Broken]
  BY DEF WriteEntry
<1> HIDE DEF w
<1>3. CASE p = o /\ w[p] = e
  BY <1>3
<1>4. CASE w[p] = b[p]
  BY <1>4 DEF Whole
<1>5. CASE IsEntry(b[p]) /\ w[p] = [b[p] EXCEPT !.version = Broken]
  <2>1. w[p].size = b[p].size
    BY <1>5, CellSize
  <2> QED
    BY <1>5, <2>1 DEF Whole
<1> QED
  BY <1>1, <1>2, <1>3, <1>4, <1>5

LEMMA TornWhole ==
    ASSUME NEW old \in Block, Whole(old), NEW new \in Block, Whole(new), NEW k \in Offsets
    PROVE  Whole(TornBlock(old, new, k))
<1> DEFINE w == TornBlock(old, new, k)
<1> SUFFICES ASSUME NEW p \in Offsets, IsEntry(w[p])
             PROVE  p + Required(w[p].size) <= BlockSize
  BY DEF Whole
<1>1. ~IsEntry(Junk)
  BY DEF IsEntry, Junk
<1>2. \/ w[p] = old[p]
      \/ w[p] = Junk
      \/ w[p] = new[p]
      \/ IsEntry(new[p]) /\ w[p] = [new[p] EXCEPT !.version = Broken]
  BY DEF TornBlock
<1> HIDE DEF w
<1>3. CASE w[p] = old[p] \/ w[p] = new[p]
  BY <1>3 DEF Whole
<1>4. CASE IsEntry(new[p]) /\ w[p] = [new[p] EXCEPT !.version = Broken]
  <2>1. w[p].size = new[p].size
    BY <1>4, CellSize
  <2> QED
    BY <1>4, <2>1 DEF Whole
<1> QED
  BY <1>1, <1>2, <1>3, <1>4

LEMMA BadWriteWhole ==
    ASSUME NEW old \in Block, Whole(old), NEW new \in Block, Whole(new),
           NEW b \in AfterBadWrite(old, new)
    PROVE  b \in Block /\ Whole(b)
BY BadWriteType, TornWhole DEF AfterBadWrite

\* An entry written at an offset of the chain leaves the chain before it alone, and
\* the chain goes on behind it.
LEMMA WriteChain ==
    ASSUME NEW b \in Block, Whole(b), NEW o \in Offsets, NEW e \in Entries,
           o + Required(e.size) <= BlockSize, o \in ChainOffsets(b)
    PROVE  /\ WriteEntry(b, o, e) \in Block /\ Whole(WriteEntry(b, o, e))
           /\ WriteEntry(b, o, e)[o] = e
           /\ Agree(b, WriteEntry(b, o, e), o)
           /\ o \in ChainOffsets(WriteEntry(b, o, e))
           /\ o + Required(e.size) \in ChainOffsets(WriteEntry(b, o, e))
<1> DEFINE w == WriteEntry(b, o, e)
<1>1. o \in Nat /\ BlockSize \in Nat
  BY StoreAssumption DEF Offsets
<1>2. w \in Block /\ Whole(w)
  BY <1>1, WriteEntryType, WriteWhole
<1>3. w[o] = e
  BY DEF WriteEntry
<1>4. ASSUME NEW p \in ChainOffsets(b), p < o
      PROVE  w[p] = b[p]
  <2>1. p \in Offsets /\ IsEntry(b[p]) /\ p + Required(b[p].size) <= o
    BY <1>4, ChainLinear
  <2>2. p \in Nat /\ p + Required(b[p].size) \in Nat
    BY <2>1, EntryEnd, ReachesNat
  <2>3. ~(p > o) /\ p # o
    BY <1>1, <1>4, <2>2
  <2>4. ~(p + Required(b[p].size) > o)
    <3>1. \A x, y \in Nat : x <= y => ~(x > y)
      OBVIOUS
    <3> QED
      BY <1>1, <2>1, <2>2, <3>1
  <2> QED
    BY <2>1, <2>3, <2>4 DEF WriteEntry
<1>5. Agree(b, w, o)
  BY <1>4 DEF Agree
<1> HIDE DEF w
<1>6. o \in ChainOffsets(w)
  BY <1>1, <1>2, <1>5, AgreeChain
<1>7. o + Required(e.size) \in ChainOffsets(w)
  BY <1>2, <1>3, <1>6, ChainClosed DEF Closed, Entries, IsEntry
<1> QED
  BY <1>2, <1>3, <1>5, <1>6, <1>7 DEF w

\* So a block agrees with what an append makes of it up to any earlier offset.
LEMMA AgreeShorter ==
    ASSUME NEW a \in Block, Whole(a), NEW b, NEW o, Agree(a, b, o),
           NEW p \in ChainOffsets(a), p <= o
    PROVE  Agree(a, b, p)
<1>1. ASSUME NEW q \in ChainOffsets(a), q < p
      PROVE  q < o
  <2>1. q \in Nat /\ p \in Nat /\ o \in Nat
    BY ChainClosed, ReachesNat DEF Agree
  <2> QED
    BY <1>1, <2>1
<1> QED
  BY <1>1 DEF Agree

\* A write that goes wrong keeps what the two blocks agree on.
LEMMA AgreeBadWrite ==
    ASSUME NEW old, NEW new, NEW o, Agree(old, new, o), NEW b \in AfterBadWrite(old, new),
           old \in Block, Whole(old), o \in 0..BlockSize
    PROVE  Agree(old, b, o)
<1>1. ASSUME NEW k \in Offsets, b = TornBlock(old, new, k), NEW p \in ChainOffsets(old), p < o
      PROVE  b[p] = old[p]
  <2>1. p \in Offsets
    BY <1>1, ChainClosed, ReachesNat DEF Offsets
  <2>2. new[p] = old[p]
    BY <1>1 DEF Agree
  <2> QED
    BY <1>1, <2>1, <2>2 DEF TornBlock
<1> QED
  BY <1>1 DEF Agree, AfterBadWrite

-----------------------------------------------------------------------------
(***************************************************************************)
(* Every entry, on the card and in the buffer, ends in its block: also the *)
(* ones a torn write has broken, whose size a walk still steps over.       *)
(***************************************************************************)
BlocksWhole == Whole(buffer) /\ \A b \in Blocks : Whole(card[b])

LEMMA CardWhole ==
    ASSUME Inv, BlocksWhole, header.block \in Blocks,
           NEW c \in DataBadlyWritten \cup {DataWritten}
    PROVE  \A b \in Blocks : Whole(c[b])
<1>1. card \in [Blocks -> Block] /\ buffer \in Block
  BY DEF Inv, TypeOK
<1>2. PICK x \in Block : Whole(x) /\ c = [card EXCEPT ![header.block] = x]
  BY <1>1, BadWriteWhole DEF DataBadlyWritten, DataWritten, BlocksWhole
<1> QED
  BY <1>1, <1>2 DEF BlocksWhole

LEMMA JunkWhole == Whole(JunkBlock) /\ Whole(BlankBlock)
BY DEF Whole, JunkBlock, BlankBlock, IsEntry, Junk, Blank

\* The entry of the append under way.
PlacedEntry == [kind |-> "entry", file |-> call.file,
                version |-> header.files[call.file].version,
                size |-> call.size, id |-> call.id]

LEMMA PlacedFits ==
    ASSUME Inv, pc = "scan"
    PROVE  /\ PlacedEntry \in Entries /\ PlacedEntry.size = call.size
           /\ call.newOffset \in Offsets
           /\ call.newOffset + Required(PlacedEntry.size) <= BlockSize
<1>1. /\ call.newOffset \in Offsets /\ call.file \in Files /\ call.size \in Nat
      /\ call.newOffset + Required(call.size) \in 0..BlockSize
  BY ScanOffset
<1> QED
  BY <1>1 DEF PlacedEntry, Entries, Inv, TypeOK, Header, FileHeader, Calls

LEMMA WholeStep ==
    ASSUME Inv, BlocksWhole, [Next]_vars
    PROVE  BlocksWhole'
<1>1. ASSUME UNCHANGED <<card, buffer>>
      PROVE  BlocksWhole'
  BY <1>1 DEF BlocksWhole
<1>2. ASSUME FreshCache, UNCHANGED card
      PROVE  BlocksWhole'
  BY <1>2, JunkWhole DEF FreshCache, BlocksWhole
<1>3. CASE Step
  <2>1. CASE FormatFirst \/ FormatSecond \/ FsyncClean \/ FsyncHeader \/ FsyncHeaderFails
             \/ Touch \/ TouchFails \/ LoadFails \/ ScanSkips
    BY <1>1, <2>1 DEF FormatFirst, FormatSecond, FsyncClean, FsyncHeader, FsyncHeaderFails,
       Touch, TouchFails, LoadFails, ScanSkips, cardVars, cacheVars
  <2>2. CASE FormatFails
    BY <1>2, <2>2 DEF FormatFails, PoweredOff
  <2>3. CASE FsyncData \/ FsyncDataFails
    BY <2>3, CardWhole DEF FsyncData, FsyncDataFails, Inv, TailCached, BlocksWhole, cacheVars
  <2>4. CASE Load
    BY <2>4 DEF Load, BlocksWhole, cardVars, cacheVars
  <2>5. CASE ScanPlaces
    <3>1. buffer' = WriteEntry(buffer, call.newOffset, PlacedEntry) /\ card' = card /\ pc = "scan"
      BY <2>5 DEF ScanPlaces, PlacedEntry, cardVars
    <3>2. Whole(buffer')
      BY <3>1, PlacedFits, WriteWhole DEF Inv, TypeOK, BlocksWhole
    <3> QED
      BY <3>1, <3>2 DEF BlocksWhole
  <2> QED
    BY <1>3, <2>1, <2>2, <2>3, <2>4, <2>5 DEF Step
<1>4. CASE Call
  BY <1>1, <1>2, <1>4 DEF Call, Mount, Format, AppendCall, TouchCall, Truncate, cardVars,
     cacheVars
<1>5. CASE Crash
  <2>1. Whole(buffer')
    BY <1>5, JunkWhole DEF Crash, PoweredOff, FreshCache
  <2>2. \A b \in Blocks : Whole(card'[b])
    BY <1>5, CardWhole DEF Crash, Inv, TailCached, BlocksWhole
  <2> QED
    BY <2>1, <2>2 DEF BlocksWhole
<1> QED
  BY <1>1, <1>3, <1>4, <1>5 DEF Next, vars

LEMMA WholeInit == Init => BlocksWhole
BY JunkWhole DEF Init, BlocksWhole

-----------------------------------------------------------------------------
(***************************************************************************)
(* The tail, and the place an append is looking at, are on the chain of    *)
(* the tail block, as the running store sees it.                           *)
(***************************************************************************)
TailBlock == IF cachedBlockDirty THEN buffer ELSE card[header.block]

TailOn == pc # "off" /\ header.block \in Blocks => header.offset \in ChainOffsets(TailBlock)

PlaceOn ==
    pc \in {"load", "scan"} /\ header.block \in Blocks =>
        call.newOffset \in ChainOffsets(TailBlock)

LEMMA TailBlockIs ==
    ASSUME Inv, BlocksWhole, header.block \in Blocks
    PROVE  /\ TailBlock \in Block /\ Whole(TailBlock)
           /\ TailBlock = CurrentCard[header.block]
           /\ cachedBlockNumber = header.block => TailBlock = buffer
<1>1. card \in [Blocks -> Block] /\ buffer \in Block
  BY DEF Inv, TypeOK
<1> QED
  BY <1>1 DEF Inv, BlocksWhole, TailBlock, CurrentCard, DataWritten, CacheCoherent

\* The search works on the tail block.
LEMMA ScanBlock ==
    ASSUME Inv, HeadersInv, BlocksWhole, pc = "scan"
    PROVE  header.block \in Blocks /\ TailBlock = buffer
<1>1. cachedBlockNumber = header.block /\ header.block >= FirstBlock
  BY DEF Inv, TailCached, HeadersInv, TailPlaced
<1>2. header.block \in Blocks
  BY <1>1, StoreAssumption DEF Inv, TypeOK, Header, HeaderBlock, NoBlock
<1> QED
  BY <1>1, <1>2, TailBlockIs

\* Steps that leave the tail where it is and the tail block as it is.
LEMMA TailKept ==
    ASSUME TailOn, PlaceOn, pc # "off", header'.block = header.block,
           header'.offset = header.offset,
           header.block \in Blocks => TailBlock' = TailBlock,
           pc' \in {"load", "scan"} =>
               \/ pc \in {"load", "scan"} /\ call'.newOffset = call.newOffset
               \/ call'.newOffset = header.offset
    PROVE  TailOn' /\ PlaceOn'
<1>1. ASSUME header.block \in Blocks
      PROVE  /\ header'.offset \in ChainOffsets(TailBlock)'
             /\ pc' \in {"load", "scan"} => call'.newOffset \in ChainOffsets(TailBlock)'
  <2>1. ChainOffsets(TailBlock)' = ChainOffsets(TailBlock)
    <3>1. TailBlock' = TailBlock
      BY <1>1
    <3> QED
      BY <3>1 DEF ChainOffsets
  <2>2. header.offset \in ChainOffsets(TailBlock)
    BY <1>1 DEF TailOn
  <2>3. pc \in {"load", "scan"} => call.newOffset \in ChainOffsets(TailBlock)
    BY <1>1 DEF PlaceOn
  <2> QED
    BY <2>1, <2>2, <2>3
<1> QED
  BY <1>1 DEF TailOn, PlaceOn

\* Steps that put the tail at the start of a block.
LEMMA TailStarts ==
    ASSUME Inv', BlocksWhole', header'.offset = 0,
           pc' \in {"load", "scan"} => call'.newOffset = 0
    PROVE  TailOn' /\ PlaceOn'
<1>1. ASSUME header'.block \in Blocks
      PROVE  0 \in ChainOffsets(TailBlock)'
  <2>1. TailBlock' \in Block /\ Whole(TailBlock)'
    BY <1>1 DEF Inv, TypeOK, BlocksWhole, TailBlock
  <2>2. \A b \in Block : Whole(b) => 0 \in ChainOffsets(b)
    BY ChainClosed
  <2>3. Whole(TailBlock') /\ ChainOffsets(TailBlock') = ChainOffsets(TailBlock)'
    BY <2>1 DEF Whole, ChainOffsets
  <2> QED
    BY <2>1, <2>2, <2>3
<1> QED
  BY <1>1 DEF TailOn, PlaceOn

\* What ScanPlaces does to the tail block.
LEMMA TailPlaces ==
    ASSUME Inv, HeadersInv, BlocksWhole, PlaceOn, ScanPlaces
    PROVE  /\ header.block \in Blocks /\ header'.block = header.block
           /\ header'.offset = call.newOffset + Required(call.size)
           /\ buffer' = WriteEntry(TailBlock, call.newOffset, PlacedEntry)
           /\ buffer' \in Block /\ Whole(buffer') /\ buffer'[call.newOffset] = PlacedEntry
           /\ Agree(TailBlock, buffer', call.newOffset)
           /\ call.newOffset \in ChainOffsets(buffer')
           /\ header'.offset \in ChainOffsets(buffer')
           /\ cachedBlockDirty'
<1>1. pc = "scan" /\ cachedBlockDirty'
      /\ buffer' = WriteEntry(buffer, call.newOffset, PlacedEntry)
  BY DEF ScanPlaces, PlacedEntry
<1>2. header.block \in Blocks /\ TailBlock = buffer
  BY <1>1, ScanBlock
<1>3. header'.offset = call.newOffset + Required(call.size) /\ header'.block = header.block
  BY DEF ScanPlaces, Inv, TypeOK, Header
<1>4. call.newOffset \in ChainOffsets(buffer)
  BY <1>1, <1>2 DEF PlaceOn
<1>5. /\ PlacedEntry \in Entries /\ PlacedEntry.size = call.size
      /\ call.newOffset \in Offsets
      /\ call.newOffset + Required(PlacedEntry.size) <= BlockSize
  BY <1>1, PlacedFits
<1>6. buffer \in Block /\ Whole(buffer)
  BY DEF Inv, TypeOK, BlocksWhole
<1> DEFINE e == PlacedEntry
           o == call.newOffset
           w == WriteEntry(buffer, o, e)
<1>7. /\ w \in Block /\ Whole(w) /\ w[o] = e /\ Agree(buffer, w, o) /\ o \in ChainOffsets(w)
      /\ o + Required(e.size) \in ChainOffsets(w)
  <2> HIDE DEF e, o
  <2>1. e \in Entries /\ o \in Offsets /\ o + Required(e.size) <= BlockSize
        /\ o \in ChainOffsets(buffer)
    BY <1>4, <1>5 DEF e, o
  <2> QED
    BY <1>6, <2>1, WriteChain
<1> HIDE DEF w
<1>8. buffer' = w
  BY <1>1 DEF w
<1> QED
  BY <1>1, <1>2, <1>3, <1>5, <1>7, <1>8

LEMMA TailStep ==
    ASSUME Inv, HeadersInv, BlocksWhole, Inv', BlocksWhole', TailOn, PlaceOn, Step
    PROVE  TailOn' /\ PlaceOn'
<1>1. CASE FormatFirst \/ FormatSecond
  BY <1>1, TailKept DEF FormatFirst, FormatSecond, cacheVars, TailBlock, Inv, TypeOK, Header
<1>2. CASE FormatFails
  BY <1>2 DEF FormatFails, PoweredOff, TailOn, PlaceOn
<1>3. ASSUME FsyncReturns, pc \in {"data", "hdr"}, UNCHANGED <<card, cacheVars>>
      PROVE  TailOn' /\ PlaceOn'
  <2>1. CASE call.after = "advance"
    <3>1. header'.offset = 0 /\ call'.newOffset = 0
      BY <1>3, <2>1 DEF FsyncReturns, Inv, TypeOK, Header, Calls
    <3> QED
      BY <3>1, TailStarts
  <2>2. CASE call.after = "return"
    BY <1>3, <2>2, TailKept DEF FsyncReturns, Return, cacheVars, TailBlock
  <2> QED
    BY <1>3, <2>1, <2>2 DEF FsyncReturns
<1>4. CASE FsyncClean \/ FsyncHeader
  BY <1>3, <1>4 DEF FsyncClean, FsyncHeader, cardVars
<1>5. CASE FsyncData
  <2>1. header'.block = header.block /\ header'.offset = header.offset /\ pc' = "hdr"
        /\ pc = "data"
    BY <1>5 DEF FsyncData, Inv, TypeOK, Header
  <2>2. TailBlock' = TailBlock
    BY <1>5, <2>1 DEF FsyncData, DataWritten, TailBlock, Inv, TypeOK, TailCached
  <2> QED
    BY <2>1, <2>2, TailKept
<1>6. CASE FsyncDataFails
  BY <1>6, TailKept DEF FsyncDataFails, Return, cacheVars, TailBlock
<1>7. CASE FsyncHeaderFails \/ Touch \/ TouchFails \/ LoadFails
  BY <1>7, TailKept DEF FsyncHeaderFails, Touch, TouchFails, LoadFails, Return, cacheVars,
     cardVars, TailBlock
<1>8. CASE Load
  <2>1. TailBlock' = TailBlock
    BY <1>8 DEF Load, TailBlock, cardVars, cacheVars, Inv, TailCached
  <2> QED
    BY <1>8, <2>1, TailKept DEF Load
<1>9. CASE ScanPlaces
  <2>1. header'.block \in Blocks /\ header'.offset \in ChainOffsets(buffer') /\ cachedBlockDirty'
    BY <1>9, TailPlaces
  <2>2. TailBlock' = buffer'
    BY <2>1 DEF TailBlock
  <2>3. ChainOffsets(TailBlock)' = ChainOffsets(buffer')
    BY <2>2 DEF ChainOffsets
  <2>4. pc' \notin {"load", "scan"}
    BY <1>9 DEF ScanPlaces, Return
  <2> QED
    BY <2>1, <2>3, <2>4 DEF TailOn, PlaceOn
<1>10. CASE ScanSkips
  <2> DEFINE o == call.newOffset
             next == o + Required(buffer[o].size)
  <2>1. pc = "scan" /\ Good(header, buffer[o]) /\ header' = header
        /\ UNCHANGED <<card, cacheVars>>
    BY <1>10 DEF ScanSkips, Takes, cardVars
  <2>2. header.block \in Blocks /\ TailBlock = buffer /\ o \in Offsets
    BY <2>1, ScanBlock, ScanOffset
  <2>3. next \in ChainOffsets(TailBlock)
    <3>1. o \in ChainOffsets(buffer)
      BY <2>1, <2>2 DEF PlaceOn
    <3>2. Closed(buffer, ChainOffsets(buffer))
      BY ChainClosed DEF Inv, TypeOK, BlocksWhole
    <3> QED
      BY <2>1, <2>2, <3>1, <3>2 DEF Closed, Good
  <2>4. TailBlock' = TailBlock
    BY <2>1 DEF TailBlock, cacheVars
  <2>5. ChainOffsets(TailBlock)' = ChainOffsets(TailBlock)
    BY <2>4 DEF ChainOffsets
  <2>6. TailOn'
    BY <2>1, <2>2, <2>5 DEF TailOn
  <2>7. pc' \in {"load", "scan"} => call'.newOffset = next
    <3>1. CASE AllocateFrom([call EXCEPT !.newOffset = BlockSize])
      <4>1. call \in Calls /\ [call EXCEPT !.newOffset = BlockSize].newOffset = BlockSize
            /\ [call EXCEPT !.newOffset = BlockSize].size = call.size
        BY DEF Inv, TypeOK, Calls
      <4>2. Required(call.size) + BlockSize > BlockSize
        BY <4>1, StoreAssumption DEF Required, Calls
      <4> QED
        BY <3>1, <4>1, <4>2 DEF AllocateFrom
    <3>2. CASE Return
      BY <3>2 DEF Return
    <3>3. CASE call' = [call EXCEPT !.newOffset = next]
      BY <3>3 DEF Inv, TypeOK, Calls
    <3> QED
      BY <1>10, <3>1, <3>2, <3>3 DEF ScanSkips
  <2> HIDE DEF next
  <2>8. PlaceOn'
    BY <2>3, <2>5, <2>7 DEF PlaceOn
  <2> QED
    BY <2>6, <2>8
<1> QED
  BY <1>1, <1>2, <1>4, <1>5, <1>6, <1>7, <1>8, <1>9, <1>10 DEF Step

LEMMA TailCall ==
    ASSUME Inv, HeadersInv, BlocksWhole, Inv', BlocksWhole', TailOn, PlaceOn, Call,
           \A n \in {0, NumberOfBlocks} : Mount(n) /\ header'.block \in Blocks =>
               slots[PickSlot(slots)].header.offset \in
                   ChainOffsets(card[slots[PickSlot(slots)].header.block])
    PROVE  TailOn' /\ PlaceOn'
<1>1. ASSUME NEW n \in {0, NumberOfBlocks}, Mount(n)
      PROVE  TailOn' /\ PlaceOn'
  <2>1. header' = slots[PickSlot(slots)].header /\ pc' = "idle" /\ card' = card
        /\ ~cachedBlockDirty'
    BY <1>1 DEF Mount, FreshCache
  <2>2. TailBlock' = card[slots[PickSlot(slots)].header.block]
    BY <2>1 DEF TailBlock
  <2>3. ChainOffsets(TailBlock)' = ChainOffsets(card[slots[PickSlot(slots)].header.block])
    BY <2>2 DEF ChainOffsets
  <2> QED
    BY <1>1, <2>1, <2>3 DEF TailOn, PlaceOn
<1>2. ASSUME NEW wipe, NEW n, Format(wipe, n)
      PROVE  TailOn' /\ PlaceOn'
  BY <1>2, TailStarts DEF Format, FreshHeader
<1>3. ASSUME NEW f \in Files, NEW s \in Sizes, AppendCall(f, s)
      PROVE  TailOn' /\ PlaceOn'
  <2>1. pc' \in {"load", "scan"} => call'.newOffset = header.offset
    BY <1>3 DEF AppendCall, AllocateFrom
  <2> QED
    BY <1>3, <2>1, TailKept DEF AppendCall, cardVars, cacheVars, TailBlock
<1>4. ASSUME NEW op, TouchCall(op)
      PROVE  TailOn' /\ PlaceOn'
  BY <1>4, TailKept DEF TouchCall, cardVars, cacheVars, TailBlock
<1>5. ASSUME NEW F, Truncate(F)
      PROVE  TailOn' /\ PlaceOn'
  <2>1. header'.block = header.block /\ header'.offset = header.offset
    BY <1>5 DEF Truncate, Truncated, Inv, TypeOK, Header
  <2> QED
    BY <1>5, <2>1, TailKept DEF Truncate, cardVars, cacheVars, TailBlock
<1> QED
  BY <1>1, <1>2, <1>3, <1>4, <1>5 DEF Call

-----------------------------------------------------------------------------
(***************************************************************************)
(* TailReachable, for a store that has not been restarted: a mount after a *)
(* format that failed finds a header with an empty tail block.             *)
(***************************************************************************)
Booting == pc \in {"off", "wipe0", "wipe1"}

OffsetZero ==
    Booting => header.offset = 0 /\ \A i \in {0, 1} : slots[i].valid => slots[i].header.offset = 0

UncutInv == BlocksWhole /\ (NeverCut => TailOn /\ PlaceOn /\ OffsetZero)

\* Only a failed format or a power cut leads back to the start.
LEMMA BootSteps ==
    ASSUME Inv, [Next]_vars, NeverCut', ~Booting
    PROVE  ~Booting'
<1>1. ~Crash
  <2>1. ASSUME Crash PROVE FALSE
    <3>1. "crash" \in Kinds /\ Spend({"crash"})
      BY <2>1 DEF Crash, Kinds
    <3> QED
      BY <3>1, SpendOne DEF NeverCut
  <2> QED
    BY <2>1
<1>2. CASE Step
  BY <1>2 DEF Step, FormatFirst, FormatSecond, FormatFails, FsyncClean, FsyncData,
     FsyncDataFails, FsyncHeader, FsyncHeaderFails, FsyncReturns, Return, Touch, TouchFails,
     Load, LoadFails, ScanPlaces, ScanSkips, AllocateFrom, Booting
<1>3. CASE Call
  BY <1>3 DEF Call, Mount, Format, AppendCall, AllocateFrom, TouchCall, Truncate, Booting
<1>4. CASE UNCHANGED vars
  BY <1>4 DEF vars, Booting
<1> QED
  BY <1>1, <1>2, <1>3, <1>4 DEF Next

\* A step that starts and ends while booting.
LEMMA BootSlots ==
    ASSUME Inv, [Next]_vars, Booting, Booting'
    PROVE  /\ header'.offset = header.offset \/ header'.offset = 0
           /\ \A i \in {0, 1} : slots'[i].valid =>
                 \/ slots[i].valid /\ slots'[i] = slots[i]
                 \/ pc # "off" /\ slots'[i].header = header
<1>1. ASSUME slots' \in HeaderBadlyWritten \cup {HeaderWritten}, NEW i \in {0, 1}, slots'[i].valid
      PROVE  (slots[i].valid /\ slots'[i] = slots[i]) \/ slots'[i].header = header
  BY <1>1, WrittenSlots DEF Inv, NoSlot, Written
<1>2. CASE Step
  BY <1>1, <1>2 DEF Step, FormatFirst, FormatSecond, FormatFails, PoweredOff, ZeroHeader,
     FsyncClean, FsyncData, FsyncDataFails, FsyncHeader, FsyncHeaderFails, Touch,
     TouchFails, Load, LoadFails, ScanPlaces, ScanSkips, Booting, Inv, TypeOK, Header
<1>3. CASE Call
  <2>1. ASSUME NEW wipe, NEW n, Format(wipe, n)
        PROVE  header'.offset = 0 /\ slots' = slots
    BY <2>1 DEF Format, FreshHeader
  <2>2. \E wipe, n : Format(wipe, n)
    BY <1>3 DEF Call, Mount, AppendCall, TouchCall, Truncate, Booting
  <2> QED
    BY <2>1, <2>2
<1>4. CASE Crash
  BY <1>1, <1>4 DEF Crash, PoweredOff, ZeroHeader, Booting
<1>5. CASE UNCHANGED vars
  BY <1>5 DEF vars
<1> QED
  BY <1>2, <1>3, <1>4, <1>5 DEF Next

LEMMA UncutStep ==
    ASSUME Inv, HeadersInv, Inv', UncutInv, [Next]_vars
    PROVE  UncutInv'
<1>1. BlocksWhole /\ BlocksWhole'
  BY WholeStep DEF UncutInv
<1> SUFFICES ASSUME NeverCut'
             PROVE  TailOn' /\ PlaceOn' /\ OffsetZero'
  BY <1>1 DEF UncutInv
<1>2. TailOn /\ PlaceOn /\ OffsetZero
  BY BudgetFalls DEF UncutInv
<1>3. OffsetZero'
  <2>1. CASE Booting'
    <3>1. Booting
      BY <2>1, BootSteps
    <3>2. header.offset = 0 /\ \A i \in {0, 1} : slots[i].valid => slots[i].header.offset = 0
      BY <1>2, <3>1 DEF OffsetZero
    <3>3. header'.offset = header.offset \/ header'.offset = 0
      BY <2>1, <3>1, BootSlots
    <3>4. \A i \in {0, 1} : slots'[i].valid =>
                 \/ slots[i].valid /\ slots'[i] = slots[i]
                 \/ pc # "off" /\ slots'[i].header = header
      BY <2>1, <3>1, BootSlots
    <3>5. \A i \in {0, 1} : slots'[i].valid => slots'[i].header.offset = 0
      BY <3>2, <3>4
    <3> QED
      BY <3>2, <3>3, <3>5 DEF OffsetZero
  <2> QED
    BY <2>1 DEF OffsetZero
<1>4. CASE Step
  BY <1>1, <1>2, <1>3, <1>4, TailStep
<1>5. CASE Call
  <2>1. ASSUME NEW n \in {0, NumberOfBlocks}, Mount(n), header'.block \in Blocks
        PROVE  slots[PickSlot(slots)].header.offset \in
                   ChainOffsets(card[slots[PickSlot(slots)].header.block])
    <3> DEFINE h == slots[PickSlot(slots)].header
    <3>1. h.offset = 0 /\ header' = h
      BY <1>2, <2>1 DEF Mount, Formatted, PickSlot, OffsetZero, Booting
    <3>2. card[h.block] \in Block /\ Whole(card[h.block])
      BY <1>1, <2>1, <3>1 DEF Inv, TypeOK, BlocksWhole
    <3> HIDE DEF h
    <3>3. h.offset \in ChainOffsets(card[h.block])
      BY <3>1, <3>2, ChainClosed
    <3> QED
      BY <3>3 DEF h
  <2> QED
    BY <1>1, <1>2, <1>3, <1>5, <2>1, TailCall
<1>6. CASE Crash
  BY <1>3, <1>6 DEF Crash, PoweredOff, TailOn, PlaceOn
<1>7. CASE UNCHANGED vars
  <2>1. TailBlock' = TailBlock /\ header' = header /\ pc' = pc /\ call' = call
    BY <1>7 DEF vars, TailBlock
  <2>2. ChainOffsets(TailBlock)' = ChainOffsets(TailBlock)
    BY <2>1 DEF ChainOffsets
  <2> QED
    BY <1>2, <1>3, <2>1, <2>2 DEF TailOn, PlaceOn
<1> QED
  BY <1>3, <1>4, <1>5, <1>6, <1>7 DEF Next

\* The tail of a store that has not been restarted is where a walk of its block
\* arrives, through failed, torn and retried writes, touches, truncates and any
\* number of rounds of the ring.
THEOREM TailReachableUncut == Spec => [](NeverCut => TailReachable)
<1>1. Init => UncutInv
  BY WholeInit DEF Init, UncutInv, TailOn, PlaceOn, OffsetZero, ZeroHeader, NoSlot
<1>2. (Inv /\ HeadersInv) /\ (Inv /\ HeadersInv)' /\ UncutInv /\ [Next]_vars => UncutInv'
  BY UncutStep
<1>3. Inv /\ UncutInv => (NeverCut => TailReachable)
  <2>1. ASSUME Inv, UncutInv, NeverCut, pc = "idle", header.block \in Blocks
        PROVE  header.offset \in ChainOffsets(CurrentCard[header.block])
    BY <2>1, TailBlockIs DEF UncutInv, TailOn
  <2> QED
    BY <2>1 DEF TailReachable
<1> QED
  BY <1>1, <1>2, <1>3, StoreInvariant, PTL DEF Spec

-----------------------------------------------------------------------------
(***************************************************************************)
(* TruncateHides, for a store that has not been restarted and has done     *)
(* fewer truncates than a uint16_t has values.  Every intact entry is      *)
(* either younger than the last truncate of its file and has the version   *)
(* of the header, or older and some truncates behind it, counting round.   *)
(***************************************************************************)
Truncates == Budget["truncate"] - budget["truncate"]

\* The cell c, under header h, truncated below k, with n ids handed out and s
\* truncates done.
Dated(h, k, n, s, c) ==
    IsEntry(c) /\ c.version # Broken =>
        /\ c.id < n
        /\ \/ k[c.file] <= c.id /\ c.version = h.files[c.file].version
           \/ /\ c.id < k[c.file]
              /\ \E d \in 1..s : h.files[c.file].version
                                     \in {c.version + d, c.version + d - VersionLimit}

AllDated(h, k, n, s, c, u) ==
    /\ \A b \in Blocks, p \in Offsets : Dated(h, k, n, s, c[b][p])
    /\ \A p \in Offsets : Dated(h, k, n, s, u[p])

\* The id of the append under way is the last one handed out.
IdOK ==
    /\ \A f \in Files : cut[f] <= NextId
    /\ pc \in {"load", "scan"} \/ (pc \in {"data", "hdr"} /\ call.after = "advance") =>
           call.id < NextId /\ \A f \in Files : cut[f] <= call.id

NoEntries == \A b \in Blocks, p \in Offsets : ~IsEntry(card[b][p]) /\ ~IsEntry(buffer[p])

HideInv ==
    NeverCut /\ Truncates < VersionLimit =>
        /\ Booting => NoEntries
        /\ AllDated(header, cut, NextId, Truncates, card, buffer)
        /\ IdOK

LEMMA CountsNat ==
    ASSUME Inv
    PROVE  NextId \in Nat /\ Truncates \in Nat
BY BoundsAssumption DEF Inv, TypeOK, BudgetOK, NextId, Truncates, Kinds

\* An id handed out later changes nothing, nor do changes of the header that keep
\* the versions.
LEMMA DatedLater ==
    ASSUME NEW h, NEW g, NEW k, NEW n \in Nat, NEW m \in Nat, n <= m, NEW s, NEW c \in Cells,
           Dated(h, k, n, s, c),
           \A f \in Files : g.files[f].version = h.files[f].version
    PROVE  Dated(g, k, m, s, c)
<1> SUFFICES ASSUME IsEntry(c), c.version # Broken
             PROVE  /\ c.id < m
                    /\ \/ k[c.file] <= c.id /\ c.version = g.files[c.file].version
                       \/ /\ c.id < k[c.file]
                          /\ \E d \in 1..s : g.files[c.file].version
                                     \in {c.version + d, c.version + d - VersionLimit}
  BY DEF Dated
<1>1. c \in Entries
  BY EntryCell
<1>2. c.id \in Nat /\ c.file \in Files
  BY <1>1 DEF Entries
<1>3. g.files[c.file].version = h.files[c.file].version
  BY <1>2
<1>4. c.id < n
  BY DEF Dated
<1>5. c.id < m
  BY <1>2, <1>4
<1> QED
  BY <1>3, <1>5 DEF Dated

\* A truncate puts the entries of the file one version further behind.
LEMMA DatedTruncate ==
    ASSUME NEW h \in Header, NEW F, NEW k \in [Files -> Nat], NEW n \in Nat,
           NEW s \in Nat, NEW c \in Cells, Dated(h, k, n, s, c), \A f \in Files : k[f] <= n,
           s + 1 < VersionLimit
    PROVE  Dated(Truncated(h, F), [f \in Files |-> IF f \in F THEN n ELSE k[f]], n, s + 1, c)
<1> DEFINE g == Truncated(h, F)
           j == [f \in Files |-> IF f \in F THEN n ELSE k[f]]
<1> SUFFICES ASSUME IsEntry(c), c.version # Broken
             PROVE  /\ c.id < n
                    /\ \/ j[c.file] <= c.id /\ c.version = g.files[c.file].version
                       \/ /\ c.id < j[c.file]
                          /\ \E d \in 1..(s + 1) : g.files[c.file].version
                                     \in {c.version + d, c.version + d - VersionLimit}
  BY DEF Dated
<1>1. c \in Entries
  BY EntryCell
<1>2. c.id \in Nat /\ c.file \in Files /\ c.version \in Versions
  BY <1>1 DEF Entries
<1> DEFINE v == h.files[c.file].version
           w == g.files[c.file].version
<1>3. v \in Versions
  BY <1>2 DEF Header, FileHeader
<1>4. c.id < n
  BY DEF Dated
<1>5. \/ k[c.file] <= c.id /\ c.version = v
      \/ c.id < k[c.file] /\ \E d \in 1..s : v \in {c.version + d, c.version + d - VersionLimit}
  BY DEF Dated
<1>6. g.files[c.file] = IF c.file \in F
                        THEN [version |-> (v + 1) % VersionLimit, startBlock |-> h.block,
                              endBlock |-> h.block, endOffset |-> 0, size |-> 0]
                        ELSE h.files[c.file]
  BY <1>2 DEF Truncated, Header
<1> HIDE DEF v, g, j
<1>7. v \in Nat /\ c.version \in Nat /\ VersionLimit \in Nat \ {0}
  BY <1>2, <1>3, VersionLimitNat DEF Versions
<1>8. CASE c.file \in F
  <2>1. w = (v + 1) % VersionLimit
    BY <1>6, <1>8
  <2>2. w \in {v + 1, v + 1 - VersionLimit}
    <3>1. v < VersionLimit
      BY <1>3, <1>7 DEF Versions
    <3>2. \A x, y \in Nat : y # 0 /\ x < y => (x + 1) % y \in {x + 1, x + 1 - y}
      <4> SUFFICES ASSUME NEW x \in Nat, NEW y \in Nat, y # 0, x < y
                   PROVE  (x + 1) % y \in {x + 1, x + 1 - y}
        OBVIOUS
      <4>1. CASE x + 1 < y
        BY <4>1
      <4>2. CASE x + 1 = y
        BY <4>2
      <4> QED
        BY <4>1, <4>2
    <3> QED
      BY <1>7, <2>1, <3>1, <3>2
  <2>3. j[c.file] = n
    BY <1>2, <1>8 DEF j
  <2>4. \E d \in 1..(s + 1) : w \in {c.version + d, c.version + d - VersionLimit}
    <3>1. CASE c.version = v
      <4>1. 1 \in 1..(s + 1)
        OBVIOUS
      <4> QED
        BY <2>2, <3>1, <4>1
    <3>2. ASSUME NEW d \in 1..s, v \in {c.version + d, c.version + d - VersionLimit}
          PROVE  \E e \in 1..(s + 1) : w \in {c.version + e, c.version + e - VersionLimit}
      <4>1. d + 1 \in 1..(s + 1)
        OBVIOUS
      <4>2. w \in {c.version + (d + 1), c.version + (d + 1) - VersionLimit}
        <5>1. ASSUME v = c.version + d - VersionLimit PROVE w # v + 1 - VersionLimit
          <6>1. c.version < VersionLimit /\ d < VersionLimit - 1
            BY <1>2, <1>7 DEF Versions
          <6>2. v < VersionLimit - 1 /\ w \in Nat
            BY <1>7, <2>1, <5>1, <6>1
          <6> QED
            BY <1>7, <6>2
        <5> QED
          BY <1>7, <2>2, <3>2, <5>1
      <4> QED
        BY <4>1, <4>2
    <3> QED
      BY <1>5, <3>1, <3>2
  <2> QED
    BY <1>4, <2>3, <2>4
<1>9. CASE c.file \notin F
  <2>1. w = v /\ j[c.file] = k[c.file]
    BY <1>2, <1>6, <1>9 DEF j, v
  <2>2. \A d \in 1..s : d \in 1..(s + 1)
    OBVIOUS
  <2> QED
    BY <1>4, <1>5, <2>1, <2>2
<1> QED
  BY <1>8, <1>9

\* Where a cell of the next state comes from: a block or the buffer, unless it is
\* no entry or a broken one.
Stems(c) ==
    \/ ~IsEntry(c) \/ c.version = Broken
    \/ \E b \in Blocks, p \in Offsets : c = card[b][p]
    \/ \E p \in Offsets : c = buffer[p]

LEMMA BrokenStems ==
    ASSUME Inv, NEW b \in Block, NEW p \in Offsets, IsEntry(b[p])
    PROVE  Stems([b[p] EXCEPT !.version = Broken])
<1>1. b[p] \in Entries
  BY CellSize
<1>2. [b[p] EXCEPT !.version = Broken].version = Broken
  BY <1>1 DEF Entries
<1> QED
  BY <1>2 DEF Stems

LEMMA DataStems ==
    ASSUME Inv, header.block \in Blocks, NEW c \in DataBadlyWritten \cup {DataWritten},
           NEW b \in Blocks, NEW p \in Offsets
    PROVE  Stems(c[b][p])
<1>1. card \in [Blocks -> Block] /\ buffer \in Block
  BY DEF Inv, TypeOK
<1> DEFINE old == card[header.block]
<1>2. PICK x : x \in AfterBadWrite(old, buffer) /\ c = [card EXCEPT ![header.block] = x]
  BY DEF DataBadlyWritten, DataWritten, AfterBadWrite
<1>3. CASE b # header.block
  BY <1>1, <1>2, <1>3 DEF Stems
<1>4. CASE b = header.block
  <2>1. c[b] = x
    BY <1>1, <1>2, <1>4
  <2>2. CASE x = old \/ x = buffer
    BY <2>1, <2>2 DEF Stems
  <2>3. ASSUME NEW k \in Offsets, x = TornBlock(old, buffer, k)
        PROVE  Stems(x[p])
    <3>1. \/ x[p] = old[p]
          \/ x[p] = Junk
          \/ x[p] = buffer[p]
          \/ IsEntry(buffer[p]) /\ x[p] = [buffer[p] EXCEPT !.version = Broken]
      BY <2>3 DEF TornBlock
    <3>2. CASE x[p] = old[p] \/ x[p] = buffer[p]
      BY <3>2 DEF Stems
    <3>3. CASE x[p] = Junk
      BY <3>3 DEF Stems, IsEntry, Junk
    <3>4. CASE IsEntry(buffer[p]) /\ x[p] = [buffer[p] EXCEPT !.version = Broken]
      BY <1>1, <3>4, BrokenStems
    <3> QED
      BY <3>1, <3>2, <3>3, <3>4
  <2> QED
    BY <1>2, <2>1, <2>2, <2>3 DEF AfterBadWrite
<1> QED
  BY <1>3, <1>4

LEMMA CardStems ==
    ASSUME Inv, [Next]_vars, NEW b \in Blocks, NEW p \in Offsets
    PROVE  Stems(card'[b][p])
<1>1. ASSUME card' = card
      PROVE  Stems(card'[b][p])
  BY <1>1 DEF Stems
<1>2. CASE FsyncData \/ FsyncDataFails
  BY <1>2, DataStems DEF FsyncData, FsyncDataFails, Inv, TailCached
<1>3. CASE Crash
  BY <1>1, <1>3, DataStems DEF Crash, Inv, TailCached
<1>4. CASE Step /\ ~FsyncData /\ ~FsyncDataFails
  BY <1>1, <1>4 DEF Step, FormatFirst, FormatSecond, FormatFails, FsyncClean, FsyncHeader,
     FsyncHeaderFails, Touch, TouchFails, Load, LoadFails, ScanPlaces, ScanSkips, cardVars
<1>5. CASE Call
  BY <1>1, <1>5 DEF Call, Mount, Format, AppendCall, TouchCall, Truncate, cardVars
<1> QED
  BY <1>1, <1>2, <1>3, <1>4, <1>5 DEF Next, vars

LEMMA BufferStems ==
    ASSUME Inv, [Next]_vars, NEW p \in Offsets
    PROVE  Stems(buffer'[p]) \/ (ScanPlaces /\ buffer'[p] = PlacedEntry)
<1>1. ASSUME buffer' = buffer
      PROVE  Stems(buffer'[p])
  BY <1>1 DEF Stems
<1>2. ASSUME FreshCache
      PROVE  Stems(buffer'[p])
  BY <1>2 DEF FreshCache, Stems, JunkBlock, Junk, IsEntry
<1>3. CASE Load
  BY <1>1, <1>3 DEF Load, Stems, cacheVars
<1>4. CASE ScanPlaces
  <2>1. buffer' = WriteEntry(buffer, call.newOffset, PlacedEntry) /\ buffer \in Block
    BY <1>4 DEF ScanPlaces, PlacedEntry, Inv, TypeOK
  <2>2. \/ buffer'[p] = PlacedEntry
        \/ buffer'[p] = Junk
        \/ buffer'[p] = buffer[p]
        \/ IsEntry(buffer[p]) /\ buffer'[p] = [buffer[p] EXCEPT !.version = Broken]
    BY <2>1 DEF WriteEntry
  <2>3. CASE buffer'[p] = Junk
    BY <2>3 DEF Stems, IsEntry, Junk
  <2>4. CASE buffer'[p] = buffer[p]
    BY <2>4 DEF Stems
  <2>5. CASE IsEntry(buffer[p]) /\ buffer'[p] = [buffer[p] EXCEPT !.version = Broken]
    BY <2>1, <2>5, BrokenStems
  <2> QED
    BY <1>4, <2>2, <2>3, <2>4, <2>5
<1>5. CASE Step /\ ~Load /\ ~ScanPlaces
  BY <1>1, <1>2, <1>5 DEF Step, FormatFirst, FormatSecond, FormatFails, PoweredOff, FsyncClean,
     FsyncData, FsyncDataFails, FsyncHeader, FsyncHeaderFails, Touch, TouchFails, LoadFails,
     ScanSkips, cacheVars
<1>6. CASE Call
  BY <1>1, <1>2, <1>6 DEF Call, Mount, Format, AppendCall, TouchCall, Truncate, cacheVars
<1>7. CASE Crash
  BY <1>2, <1>7 DEF Crash, PoweredOff
<1> QED
  BY <1>1, <1>3, <1>4, <1>5, <1>6, <1>7 DEF Next, vars

\* Nothing is written before the store has booted.
LEMMA BootEmpty ==
    ASSUME Inv, [Next]_vars, NeverCut', Booting, NoEntries
    PROVE  NoEntries'
<1>1. ASSUME card' = card, buffer' \in {buffer, JunkBlock}
      PROVE  NoEntries'
  BY <1>1 DEF NoEntries, JunkBlock, Junk, IsEntry
<1>2. ~Crash
  <2>1. ASSUME Crash PROVE FALSE
    <3>1. "crash" \in Kinds /\ Spend({"crash"})
      BY <2>1 DEF Crash, Kinds
    <3> QED
      BY <3>1, SpendOne DEF NeverCut
  <2> QED
    BY <2>1
<1>3. CASE Step
  BY <1>1, <1>3 DEF Step, FormatFirst, FormatSecond, FormatFails, PoweredOff, FreshCache,
     FsyncClean, FsyncData, FsyncDataFails, FsyncHeader, FsyncHeaderFails, Touch, TouchFails,
     Load, LoadFails, ScanPlaces, ScanSkips, cacheVars, Booting
<1>4. CASE Call
  BY <1>1, <1>4 DEF Call, Mount, Format, FreshCache, AppendCall, TouchCall, Truncate, Booting
<1> QED
  BY <1>1, <1>2, <1>3, <1>4 DEF Next, vars

\* What an event costs of a kind it is not of.
LEMMA SpendOther ==
    ASSUME Inv, NEW k \in Kinds, NEW S, k \notin S, Spend(S)
    PROVE  budget'[k] = budget[k]
BY DEF Spend

\* Only a truncate changes the versions and what they hide, once booted.
LEMMA VersionsKept ==
    ASSUME Inv, [Next]_vars, NeverCut', ~Booting, \A F : ~Truncate(F)
    PROVE  /\ \A f \in Files : header'.files[f].version = header.files[f].version
           /\ cut' = cut /\ budget'["truncate"] = budget["truncate"]
           /\ \/ budget'["append"] = budget["append"]
              \/ /\ pc = "idle" /\ budget'["append"] = budget["append"] - 1
                 /\ pc' \in {"load", "scan", "data"} => call'.id = NextId
<1> DEFINE Same == /\ \A f \in Files : header'.files[f].version = header.files[f].version
                   /\ cut' = cut
           Free == /\ budget'["truncate"] = budget["truncate"]
                   /\ budget'["append"] = budget["append"]
<1>1. "truncate" \in Kinds /\ "append" \in Kinds /\ "crash" \in Kinds
  BY DEF Kinds
<1>2. ASSUME NEW S, "truncate" \notin S, "append" \notin S, Spend(S)
      PROVE  Free
  BY <1>1, <1>2, SpendOther
<1>3. ASSUME Crash PROVE FALSE
  BY <1>1, <1>3, SpendOne DEF Crash, NeverCut
<1>4. CASE Step
  <2>1. CASE FsyncClean \/ FsyncHeader
    <3>1. budget' = budget /\ cut' = cut /\ header'.files = header.files
      BY <2>1 DEF FsyncClean, FsyncHeader, FsyncReturns, Inv, TypeOK, Header
    <3> QED
      BY <3>1
  <2>2. CASE FsyncData
    <3>1. budget' = budget /\ cut' = cut /\ header'.files = header.files
      BY <2>2 DEF FsyncData, Inv, TypeOK, Header, history
    <3> QED
      BY <3>1
  <2>3. CASE FsyncDataFails \/ FsyncHeaderFails \/ TouchFails \/ LoadFails
    <3>1. cut' = cut /\ header' = header
      BY <2>3 DEF FsyncDataFails, FsyncHeaderFails, TouchFails, LoadFails, history
    <3>2. Free
      BY <1>2, <2>3 DEF FsyncDataFails, FsyncHeaderFails, TouchFails, LoadFails
    <3> QED
      BY <3>1, <3>2
  <2>4. CASE Touch \/ Load \/ ScanSkips
    <3>1. cut' = cut /\ header' = header /\ budget' = budget
      BY <2>4 DEF Touch, Load, ScanSkips, history
    <3> QED
      BY <3>1
  <2>5. CASE ScanPlaces
    <3> DEFINE f == call.file
               g == [header.files[f] EXCEPT !.endBlock = header.block,
                        !.endOffset = call.newOffset + Required(call.size),
                        !.size = @ + call.size]
    <3>1. budget' = budget /\ cut' = cut
          /\ header' = [header EXCEPT !.offset = call.newOffset + Required(call.size),
                                      !.files[f] = g]
      BY <2>5 DEF ScanPlaces
    <3>2. header \in Header /\ f \in Files
      BY <2>5, ScanOffset DEF ScanPlaces, Inv, TypeOK
    <3>3. g.version = header.files[f].version
      BY <3>2 DEF Header, FileHeader
    <3> HIDE DEF g
    <3>4. header'.files = [header.files EXCEPT ![f] = g]
      BY <3>1, <3>2 DEF Header
    <3>5. \A x \in Files : header'.files[x].version = header.files[x].version
      BY <3>2, <3>3, <3>4 DEF Header
    <3> QED
      BY <3>1, <3>5
  <2> QED
    BY <1>4, <2>1, <2>2, <2>3, <2>4, <2>5 DEF Step, Booting, FormatFirst, FormatSecond,
       FormatFails
<1>5. CASE Call
  <2>1. ASSUME NEW f, NEW s, AppendCall(f, s)
        PROVE  /\ header' = header /\ cut' = cut /\ budget'["truncate"] = budget["truncate"]
               /\ budget'["append"] = budget["append"] - 1
               /\ pc = "idle" /\ pc' \in {"load", "scan", "data"} => call'.id = NextId
    <3>1. budget'["truncate"] = budget["truncate"] /\ budget'["append"] = budget["append"] - 1
      BY <1>1, <2>1 DEF AppendCall, Spend
    <3>2. call'.id = NextId
      BY <2>1 DEF AppendCall, AllocateFrom
    <3> QED
      BY <2>1, <3>1, <3>2 DEF AppendCall, history
  <2>2. ASSUME NEW op, TouchCall(op)
        PROVE  header' = header /\ cut' = cut /\ Free
    BY <1>2, <2>2 DEF TouchCall, history
  <2>3. (\E f, s : AppendCall(f, s)) \/ (\E op : TouchCall(op))
    BY <1>5 DEF Call, Mount, Format, Booting
  <2>4. CASE \E f, s : AppendCall(f, s)
    <3>1. PICK f, s : AppendCall(f, s)
      BY <2>4
    <3>2. pc = "idle"
      BY <3>1 DEF AppendCall
    <3> QED
      BY <2>1, <3>1, <3>2
  <2>5. CASE \E op : TouchCall(op)
    BY <2>2, <2>5
  <2> QED
    BY <2>3, <2>4, <2>5
<1>6. CASE UNCHANGED vars
  BY <1>6 DEF vars
<1> QED
  BY <1>3, <1>4, <1>5, <1>6 DEF Next

\* The call under way stays the last append.
LEMMA AppendKept ==
    ASSUME Inv, [Next]_vars, ~Booting, ~Booting', pc # "idle",
           pc' \in {"load", "scan"} \/ (pc' \in {"data", "hdr"} /\ call'.after = "advance")
    PROVE  /\ pc \in {"load", "scan"} \/ (pc \in {"data", "hdr"} /\ call.after = "advance")
           /\ call'.id = call.id
<1>1. call \in Calls
  BY DEF Inv, TypeOK
<1>2. CASE FsyncClean \/ FsyncHeader
  BY <1>1, <1>2 DEF FsyncClean, FsyncHeader, FsyncReturns, Return, Calls
<1>3. CASE FsyncData
  BY <1>3 DEF FsyncData
<1>4. CASE FsyncDataFails \/ FsyncHeaderFails \/ TouchFails \/ LoadFails
  BY <1>4 DEF FsyncDataFails, FsyncHeaderFails, TouchFails, LoadFails, Return
<1>5. CASE Touch
  BY <1>5 DEF Touch, Return, Inv, CallOK
<1>6. CASE Load
  BY <1>6 DEF Load
<1>7. CASE ScanPlaces
  BY <1>1, <1>7 DEF ScanPlaces, Return, Calls
<1>8. CASE ScanSkips
  BY <1>1, <1>8 DEF ScanSkips, AllocateFrom, Return, Calls
<1>9. CASE UNCHANGED vars
  BY <1>9 DEF vars
<1>10. CASE FormatFirst \/ FormatSecond \/ FormatFails \/ Call \/ Crash
  BY <1>10 DEF FormatFirst, FormatSecond, FormatFails, Call, Mount, Format, AppendCall,
     TouchCall, Truncate, Crash, PoweredOff, Booting
<1> QED
  BY <1>2, <1>3, <1>4, <1>5, <1>6, <1>7, <1>8, <1>9, <1>10 DEF Next, Step

\* Calls from idle start afresh.
LEMMA IdleCalls ==
    ASSUME Inv, [Next]_vars, pc = "idle", NeverCut',
           pc' \in {"load", "scan"} \/ (pc' \in {"data", "hdr"} /\ call'.after = "advance")
    PROVE  budget'["append"] = budget["append"] - 1 /\ call'.id = NextId
<1>1. PICK f, s : AppendCall(f, s)
  BY DEF Next, Step, Call, Crash, PoweredOff, vars, FormatFirst, FormatSecond, FormatFails,
     FsyncClean, FsyncData, FsyncDataFails, FsyncHeader, FsyncHeaderFails, Touch, TouchFails,
     Load, LoadFails, ScanPlaces, ScanSkips, Mount, Format, TouchCall, Truncate
<1>2. "append" \in Kinds
  BY DEF Kinds
<1> QED
  BY <1>1, <1>2 DEF AppendCall, AllocateFrom, Spend

LEMMA HideStep ==
    ASSUME Inv, Inv', HideInv, [Next]_vars
    PROVE  HideInv'
<1> SUFFICES ASSUME NeverCut', Truncates' < VersionLimit
             PROVE  /\ Booting' => NoEntries'
                    /\ AllDated(header', cut', NextId', Truncates', card', buffer')
                    /\ IdOK'
  <2>1. AllDated(header, cut, NextId, Truncates, card, buffer)' =
            AllDated(header', cut', NextId', Truncates', card', buffer')
    BY DEF AllDated, Dated
  <2> QED
    BY <2>1 DEF HideInv
<1> DEFINE n == NextId
           s == Truncates
<1>1. n \in Nat /\ s \in Nat /\ NextId' \in Nat /\ Truncates' \in Nat
  <2>1. n \in Nat /\ s \in Nat
    BY CountsNat
  <2>2. NextId' \in Nat /\ Truncates' \in Nat
    BY BoundsAssumption DEF Inv, TypeOK, BudgetOK, NextId, Truncates, Kinds
  <2> QED
    BY <2>1, <2>2
<1>2. NeverCut
  BY BudgetFalls
<1>3. card' \in [Blocks -> Block] /\ buffer' \in Block /\ card \in [Blocks -> Block]
      /\ buffer \in Block /\ cut \in [Files -> Nat] /\ header \in Header
  BY DEF Inv, TypeOK
<1>4. budget["append"] \in Nat /\ Budget["append"] \in Nat /\ budget["truncate"] \in Nat
      /\ Budget["truncate"] \in Nat /\ "truncate" \in Kinds /\ "append" \in Kinds
  BY BoundsAssumption DEF Inv, TypeOK, Kinds
<1>5. CASE \E F : Truncate(F)
  <2>1. PICK F : Truncate(F)
    BY <1>5
  <2>2. /\ header' = Truncated(header, F) /\ pc = "idle" /\ pc' = "idle"
        /\ cut' = [f \in Files |-> IF f \in F THEN n ELSE cut[f]]
        /\ card' = card /\ buffer' = buffer
    BY <2>1 DEF Truncate, cardVars, cacheVars
  <2>3. budget'["truncate"] = budget["truncate"] - 1 /\ budget'["append"] = budget["append"]
    BY <1>4, <2>1 DEF Truncate, Spend
  <2>4. NextId' = n /\ Truncates' = s + 1
    BY <1>4, <2>3 DEF NextId, Truncates
  <2>5. s + 1 < VersionLimit /\ s < VersionLimit
    BY <1>1, <2>4, VersionLimitNat
  <2>6. AllDated(header, cut, n, s, card, buffer) /\ IdOK
    BY <1>2, <2>5 DEF HideInv
  <2>7. \A f \in Files : cut[f] <= n
    BY <2>6 DEF IdOK
  <2> DEFINE j == [f \in Files |-> IF f \in F THEN n ELSE cut[f]]
  <2> HIDE DEF n, s
  <2>8. \A c \in Cells : Dated(header, cut, n, s, c) => Dated(Truncated(header, F), j, n, s + 1, c)
    BY <1>1, <1>3, <2>5, <2>7, DatedTruncate
  <2>9. AllDated(Truncated(header, F), j, n, s + 1, card, buffer)
    BY <1>3, <2>6, <2>8 DEF AllDated, Block
  <2>10. IdOK'
    BY <1>1, <1>3, <2>2, <2>4, <2>7 DEF IdOK
  <2> QED
    BY <2>2, <2>4, <2>9, <2>10 DEF Booting
<1>6. CASE \A F : ~Truncate(F)
  <2>1. CASE Booting
    <3>0. cut' = cut /\ budget'["truncate"] = budget["truncate"]
          /\ budget'["append"] = budget["append"]
          /\ ~(pc' \in {"load", "scan"} \/ (pc' \in {"data", "hdr"} /\ call'.after = "advance"))
      <4>1. ~Crash
        <5>1. "crash" \in Kinds
          BY DEF Kinds
        <5> QED
          BY <5>1, SpendOne DEF Crash, NeverCut
      <4>2. ASSUME NEW S, "truncate" \notin S, "append" \notin S, Spend(S)
            PROVE  /\ budget'["truncate"] = budget["truncate"]
                   /\ budget'["append"] = budget["append"]
        BY <1>4, <4>2, SpendOther
      <4>3. CASE Step
        BY <2>1, <4>2, <4>3 DEF Step, FormatFirst, FormatSecond, FormatFails, PoweredOff,
           FsyncClean, FsyncData, FsyncDataFails, FsyncHeader, FsyncHeaderFails, Touch,
           TouchFails, Load, LoadFails, ScanPlaces, ScanSkips, Booting, history
      <4>4. CASE Call
        <5>1. ASSUME NEW m, Mount(m) PROVE cut' = cut /\ pc' = "idle" /\ BootCost(FALSE, m)
          BY <5>1 DEF Mount
        <5>2. ASSUME NEW w, NEW m, Format(w, m)
              PROVE  cut' = cut /\ pc' = "wipe0" /\ BootCost(w, m)
          BY <5>2 DEF Format
        <5>3. ASSUME NEW w, NEW m, BootCost(w, m)
              PROVE  /\ budget'["truncate"] = budget["truncate"]
                     /\ budget'["append"] = budget["append"]
          BY <4>2, <5>3 DEF BootCost
        <5>4. (\E m : Mount(m)) \/ (\E w, m : Format(w, m))
          BY <2>1, <4>4 DEF Call, AppendCall, TouchCall, Truncate, Booting
        <5> QED
          BY <5>1, <5>2, <5>3, <5>4
      <4>5. CASE UNCHANGED vars
        BY <2>1, <4>5 DEF vars, Booting
      <4> QED
        BY <4>1, <4>3, <4>4, <4>5 DEF Next
    <3>1. NextId' = n /\ Truncates' = s
      BY <3>0 DEF NextId, Truncates
    <3>2. NoEntries /\ IdOK
      BY <1>2, <2>1, <3>1 DEF HideInv
    <3>3. NoEntries'
      BY <2>1, <3>2, BootEmpty
    <3>4. AllDated(header', cut', NextId', Truncates', card', buffer')
      <4>1. FirstBlock \in Blocks
        BY StoreAssumption DEF Blocks
      <4>2. \A b \in Blocks, p \in Offsets : ~IsEntry(card'[b][p]) /\ ~IsEntry(buffer'[p])
        BY <3>3 DEF NoEntries, IsEntry
      <4> QED
        BY <4>1, <4>2 DEF AllDated, Dated
    <3>5. IdOK'
      BY <3>0, <3>1, <3>2 DEF IdOK
    <3> QED
      BY <3>3, <3>4, <3>5
  <2>2. CASE ~Booting
    <3>1. ~Booting'
      BY <2>2, BootSteps
    <3>2. /\ \A f \in Files : header'.files[f].version = header.files[f].version
          /\ cut' = cut /\ budget'["truncate"] = budget["truncate"]
          /\ \/ budget'["append"] = budget["append"]
             \/ pc = "idle" /\ budget'["append"] = budget["append"] - 1
      BY <1>6, <2>2, VersionsKept
    <3>3. Truncates' = s /\ n <= NextId'
      BY <1>4, <3>2 DEF NextId, Truncates
    <3>4. AllDated(header, cut, n, s, card, buffer) /\ IdOK
      BY <1>2, <3>3 DEF HideInv
    <3> HIDE DEF n, s
    <3>5. \A c \in Cells : Dated(header, cut, n, s, c) => Dated(header', cut', NextId', s, c)
      BY <1>1, <3>2, <3>3, DatedLater
    <3>6. ASSUME NEW c \in Cells, Stems(c)
          PROVE  Dated(header', cut', NextId', s, c)
      <4>1. Dated(header, cut, n, s, c)
        BY <3>4, <3>6 DEF AllDated, Stems, Dated
      <4> QED
        BY <3>5, <4>1
    <3>7. ASSUME ScanPlaces
          PROVE  Dated(header', cut', NextId', s, PlacedEntry)
      <4>1. pc = "scan" /\ call.file \in Files /\ call.id \in Nat
        BY <3>7, ScanOffset DEF ScanPlaces, Inv, TypeOK, Calls
      <4>2. call.id < n /\ cut[call.file] <= call.id
        BY <3>4, <4>1 DEF IdOK, n
      <4>3. call.id < NextId'
        BY <1>1, <3>3, <4>1, <4>2
      <4>4. /\ PlacedEntry.id = call.id /\ PlacedEntry.file = call.file
            /\ PlacedEntry.version = header.files[call.file].version
        BY DEF PlacedEntry
      <4> QED
        BY <3>2, <4>1, <4>2, <4>3, <4>4 DEF Dated
    <3>8. AllDated(header', cut', NextId', s, card', buffer')
      <4>1. ASSUME NEW b \in Blocks, NEW p \in Offsets
            PROVE  Dated(header', cut', NextId', s, card'[b][p])
        BY <1>3, <3>6, CardStems DEF Block
      <4>2. ASSUME NEW p \in Offsets
            PROVE  Dated(header', cut', NextId', s, buffer'[p])
        <5>1. buffer'[p] \in Cells
          BY <1>3 DEF Block
        <5>2. Stems(buffer'[p]) \/ (ScanPlaces /\ buffer'[p] = PlacedEntry)
          BY BufferStems
        <5> QED
          BY <3>6, <3>7, <5>1, <5>2
      <4> QED
        BY <4>1, <4>2 DEF AllDated
    <3>9. \A f \in Files : cut'[f] <= NextId'
      <4>1. \A x, y, z \in Nat : x <= y /\ y <= z => x <= z
        OBVIOUS
      <4> QED
        BY <1>1, <1>3, <3>2, <3>3, <3>4, <4>1 DEF IdOK, n
    <3>10. ASSUME pc' \in {"load", "scan"} \/ (pc' \in {"data", "hdr"} /\ call'.after = "advance")
           PROVE  call'.id < NextId' /\ \A f \in Files : cut'[f] <= call'.id
      <4>1. CASE pc = "idle"
        <5>1. budget'["append"] = budget["append"] - 1 /\ call'.id = n
          BY <3>10, <4>1, IdleCalls DEF n
        <5>2. NextId' = n + 1
          BY <1>4, <5>1 DEF NextId, n
        <5> QED
          BY <1>1, <3>2, <3>4, <5>1, <5>2 DEF IdOK, n
      <4>2. CASE pc # "idle"
        <5>1. /\ pc \in {"load", "scan"} \/ (pc \in {"data", "hdr"} /\ call.after = "advance")
              /\ call'.id = call.id
          BY <2>2, <3>1, <3>10, <4>2, AppendKept
        <5>2. call.id < n /\ \A f \in Files : cut[f] <= call.id
          BY <3>4, <5>1 DEF IdOK, n
        <5>3. call.id \in Nat
          BY DEF Inv, TypeOK, Calls
        <5> QED
          BY <1>1, <3>2, <3>3, <5>1, <5>2, <5>3
      <4> QED
        BY <4>1, <4>2
    <3>11. IdOK'
      BY <3>9, <3>10 DEF IdOK
    <3> QED
      BY <3>1, <3>3, <3>8, <3>11
  <2> QED
    BY <2>1, <2>2
<1> QED
  BY <1>5, <1>6

LEMMA HideInit == Init => HideInv
<1> SUFFICES ASSUME Init PROVE HideInv
  OBVIOUS
<1>1. NoEntries
  BY DEF Init, NoEntries, BlankBlock, JunkBlock, Blank, Junk, IsEntry
<1>2. AllDated(header, cut, NextId, Truncates, card, buffer)
  <2>1. FirstBlock \in Blocks
    BY StoreAssumption DEF Blocks
  <2> QED
    BY <1>1, <2>1 DEF AllDated, Dated, NoEntries
<1>3. NextId = 0
  BY BoundsAssumption DEF Init, NextId, Kinds
<1>4. IdOK
  BY <1>3 DEF Init, IdOK
<1> QED
  BY <1>1, <1>2, <1>4 DEF HideInv

\* Truncated entries are some versions behind the header of their file.
LEMMA HiddenEntries ==
    ASSUME Inv, BlocksWhole, HideInv, NeverCut, Truncates < VersionLimit
    PROVE  TruncateHides
<1> SUFFICES ASSUME NEW f \in Files, NEW id \in ReadIds(header, CurrentCard, f)
             PROVE  id >= cut[f]
  BY DEF TruncateHides
<1> DEFINE file == header.files[f]
           L(b) == IF b = file.endBlock THEN file.endOffset ELSE BlockSize
<1>1. PICK b \in (file.startBlock..file.endBlock) \cap Blocks :
             id \in WalkBlock(header, CurrentCard[b], f, L(b))
  BY DEF ReadIds
<1>2. L(b) \in 0..BlockSize
  BY StoreAssumption DEF Inv, TypeOK, Header, FileHeader
<1> HIDE DEF L
<1> DEFINE c == CurrentCard[b]
<1>3. /\ c \in Block /\ Whole(c)
      /\ \A p \in Offsets : Dated(header, cut, NextId, Truncates, c[p])
  <2>1. card \in [Blocks -> Block] /\ buffer \in Block
    BY DEF Inv, TypeOK
  <2>2. c = card[b] \/ c = buffer
    BY <2>1 DEF CurrentCard, DataWritten
  <2> HIDE DEF c
  <2> QED
    BY <2>1, <2>2 DEF BlocksWhole, HideInv, AllDated
<1> HIDE DEF c
<1>4. id \in WalkBlock(header, c, f, L(b))
  BY <1>1 DEF c
<1>5. PICK q \in ChainOffsets(c) : q < L(b) /\ Good(header, c[q]) /\ c[q].file = f
                                   /\ id = c[q].id
  <2>1. WalkBlock(header, c, f, L(b)) =
            {c[q].id : q \in {q \in ChainOffsets(c) :
                                  q < L(b) /\ Good(header, c[q]) /\ c[q].file = f}}
    BY <1>2, <1>3, WalkIs
  <2> QED
    BY <1>4, <2>1
<1>6. q \in Offsets
  BY <1>2, <1>3, <1>5, ChainClosed, ReachesNat DEF Offsets
<1>7. c[q] \in Entries
  BY <1>3, <1>5, <1>6, EntryCell DEF Block, Good
<1> DEFINE v == header.files[f].version
<1>8. c[q].version = v /\ IsEntry(c[q]) /\ v \in Versions /\ c[q].id \in Nat
  BY <1>5, <1>7 DEF Good, Entries, Inv, TypeOK, Header, FileHeader
<1>9. v \in Nat /\ v # Broken /\ cut[f] \in Nat /\ VersionLimit \in Nat
  BY <1>8, VersionLimitNat DEF Versions, Broken, Inv, TypeOK
<1>10. ASSUME NEW d \in 1..Truncates
       PROVE  v \notin {v + d, v + d - VersionLimit}
  <2>1. Truncates \in Nat
    BY CountsNat
  <2> HIDE DEF v
  <2> QED
    BY <1>9, <2>1
<1>11. cut[f] <= c[q].id
  BY <1>3, <1>5, <1>6, <1>8, <1>9, <1>10 DEF Dated
<1> QED
  BY <1>5, <1>8, <1>9, <1>11

\* What was appended before a truncate is not read again, as long as the store is
\* not restarted and the file version has not gone all the way round.
THEOREM TruncatedHidden ==
    Spec => [](NeverCut /\ Truncates < VersionLimit => TruncateHides)
<1>1. (Inv /\ HeadersInv) /\ (Inv /\ HeadersInv)' /\ HideInv /\ [Next]_vars => HideInv'
  BY HideStep
<1>2. Inv /\ UncutInv /\ HideInv => (NeverCut /\ Truncates < VersionLimit => TruncateHides)
  BY HiddenEntries DEF UncutInv
<1>3. Init => UncutInv
  BY WholeInit DEF Init, UncutInv, TailOn, PlaceOn, OffsetZero, ZeroHeader, NoSlot
<1>4. (Inv /\ HeadersInv) /\ (Inv /\ HeadersInv)' /\ UncutInv /\ [Next]_vars => UncutInv'
  BY UncutStep
<1> QED
  BY <1>1, <1>2, <1>3, <1>4, HideInit, StoreInvariant, PTL DEF Spec
=============================================================================
