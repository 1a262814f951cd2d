------------------------- MODULE FkfsCompleteProofs -------------------------
(***************************************************************************)
(* An iterator returns all there is to read: entries are found by walking  *)
(* the chains of the blocks, and what is appended while the iterator is in *)
(* use is put behind it.                                                   *)
(***************************************************************************)
EXTENDS FkfsIterProofs

\* Every append is synced and no write fails, so that a read never takes the buffer
\* from an append that is not on the card yet.
Careful == (\A f \in Files : Sync[f]) /\ Budget["writefail"] = 0

\* An entry of file f, with this id, that a walk of block b of card c finds at q.
Found(h, c, f, b, q, id) ==
    /\ b \in Blocks /\ q \in Offsets /\ q \in ChainOffsets(c[b])
    /\ IsEntry(c[b][q]) /\ c[b][q].file = f /\ c[b][q].version = h.files[f].version
    /\ c[b][q].id = id

\* A place at or before the tail of h: in the tail block, one that a walk arrives at.
Stands(h, c, b, o) ==
    /\ b \in Blocks
    /\ b < h.block \/ (b = h.block /\ o \in ChainOffsets(c[b]) /\ o <= h.offset)

EndsAt(h, c, b, o) == Stands(h, c, b, o) /\ o \in ChainOffsets(c[b])

\* Token t will come to offset q of block b.
Ahead(c, t, b, q) ==
    t.block < b \/ (t.block = b /\ t.offset \in ChainOffsets(c[b]) /\ t.offset <= q)

\* The blocks of its file that are t's to read, now or after fkfs_file_truncate_at.
InRange(h, t, b) == h.files[t.file].startBlock <= b \/ t.lastBlock <= b

\* A token on the way: it and its end are at or before the tail (Stands, EndsAt), what it
\* has passed was read or given up (R, W), what lies before its end is to be read (G)
\* unless it was, and what is to be read was read or is still ahead.
OnTheWay(h, c, t, G, R, W) ==
    /\ Stands(h, c, t.block, t.offset) /\ EndsAt(h, c, t.lastBlock, t.lastOffset)
    /\ \A b, q, id : Found(h, c, t.file, b, q, id) /\ InRange(h, t, b) =>
           /\ id \in R \cup W \/ Ahead(c, t, b, q)
           /\ Before(b, q, t.lastBlock, t.lastOffset) => id \in G \cup R \cup W
    /\ \A id \in G : \/ id \in R
                     \/ \E b, q : /\ Found(h, c, t.file, b, q, id) /\ Ahead(c, t, b, q)
                                  /\ Before(b, q, t.lastBlock, t.lastOffset)

-----------------------------------------------------------------------------
(***************************************************************************)
(* One turn of the loop, on a card that does not change.                   *)
(***************************************************************************)
LEMMA ChainNat ==
    ASSUME NEW c \in Cards, NEW b \in Blocks
    PROVE  /\ c[b] \in Block /\ Whole(c[b]) /\ 0 \in ChainOffsets(c[b])
           /\ ChainOffsets(c[b]) \subseteq Nat /\ Closed(c[b], ChainOffsets(c[b])) /\ b \in Nat
<1>1. c[b] \in Block /\ Whole(c[b]) /\ b \in Nat
  BY StoreAssumption DEF Cards, Blocks
<1> QED
  BY <1>1, ChainClosed, ReachesNat

\* Where the walk goes on past a place, there is an entry.
LEMMA ParseEntry ==
    ASSUME NEW b \in Block, NEW o \in Nat, NEW p \in Parse(b, o)
    PROVE  /\ o \in Offsets /\ IsEntry(b[o]) =>
                  /\ p.length = Required(b[o].size) /\ p.status # "SIZE"
                  /\ Good(header, b[o]) => p.status = "GOOD"
           /\ p.status = "SIZE" => ~(o \in Offsets /\ IsEntry(b[o]))
<1>1. ASSUME o \in Offsets, IsEntry(b[o])
      PROVE  p = [status |-> IF Good(header, b[o]) THEN "GOOD" ELSE "CRC",
                  length |-> Required(b[o].size)]
  BY <1>1 DEF Parse, IsEntry, Blank, Junk
<1> QED
  BY <1>1

\* A token that is not done stands at an entry if it stands in the tail block.
LEMMA TailEntry ==
    ASSUME NEW h \in Header, NEW c \in Cards, NEW t \in Token, ~Done(t),
           Stands(h, c, t.block, t.offset), EndsAt(h, c, t.lastBlock, t.lastOffset),
           t.block = h.block
    PROVE  /\ t.offset \in Offsets /\ IsEntry(c[t.block][t.offset])
           /\ t.offset + Required(c[t.block][t.offset].size) <= h.offset
           /\ t.offset + Required(c[t.block][t.offset].size) \in ChainOffsets(c[t.block])
<1>1. /\ t.block \in Nat /\ t.lastBlock \in Nat /\ t.offset \in Nat /\ t.lastOffset \in Nat
      /\ h.block \in Nat /\ h.offset \in Nat
  BY StoreAssumption DEF Token, Header
<1>2. /\ t.block \in Blocks /\ t.offset \in ChainOffsets(c[t.block]) /\ t.lastBlock <= h.block
      /\ t.lastBlock = h.block => t.lastOffset \in ChainOffsets(c[h.block]) /\ t.lastOffset <= h.offset
  BY <1>1 DEF Stands, EndsAt
<1>3. t.lastBlock = t.block /\ t.offset < t.lastOffset
  BY <1>1, <1>2 DEF Done
<1>4. c[t.block] \in Block /\ Whole(c[t.block]) /\ Closed(c[t.block], ChainOffsets(c[t.block]))
      /\ ChainOffsets(c[t.block]) \subseteq Nat
  BY <1>2, ChainNat
<1>5. /\ t.offset \in Offsets /\ IsEntry(c[t.block][t.offset])
      /\ t.offset + Required(c[t.block][t.offset].size) <= t.lastOffset
  BY <1>2, <1>3, <1>4, ChainLinear
<1>6. t.offset + Required(c[t.block][t.offset].size) \in ChainOffsets(c[t.block])
  BY <1>2, <1>4, <1>5 DEF Closed
<1>7. \A x \in Nat : x <= t.lastOffset => x <= h.offset
  BY <1>1, <1>2, <1>3
<1> QED
  BY <1>4, <1>5, <1>6, <1>7

\* The token passes what it stands at.
LEMMA WayPasses ==
    ASSUME header \in Header, NEW c \in Cards, NEW t \in Token, NEW G, NEW R, NEW W, ~Done(t),
           OnTheWay(header, c, t, G, R, W),
           NEW p \in Parse(c[t.block], t.offset), p.status # "SIZE",
           NEW u \in Token, u.file = t.file, u.block = t.block, u.offset = t.offset + p.length,
           u.lastBlock = t.lastBlock, u.lastOffset = t.lastOffset,
           NEW S, R \subseteq S,
           p.status = "GOOD" /\ c[t.block][t.offset].file = t.file => c[t.block][t.offset].id \in S
    PROVE  OnTheWay(header, c, u, G, S, W)
<1> DEFINE o == t.offset
           B == c[t.block]
<1>1. /\ t.block \in Nat /\ o \in Nat /\ u.offset \in Nat /\ header.block \in Nat
      /\ t.block \in Blocks
  BY DEF Token, Header, OnTheWay, Stands
<1>2. B \in Block /\ Whole(B) /\ Closed(B, ChainOffsets(B)) /\ ChainOffsets(B) \subseteq Nat
  BY <1>1, ChainNat
<1>3. /\ o \in Offsets /\ IsEntry(B[o]) =>
            /\ p.length = Required(B[o].size) /\ (Good(header, B[o]) => p.status = "GOOD")
  BY <1>1, <1>2, ParseEntry
<1>4. Stands(header, c, u.block, u.offset)
  <2>1. CASE t.block < header.block
    BY <1>1, <2>1 DEF Stands
  <2>2. CASE t.block = header.block
    <3>1. /\ o \in Offsets /\ IsEntry(B[o]) /\ o + Required(B[o].size) <= header.offset
          /\ o + Required(B[o].size) \in ChainOffsets(B)
      BY <2>2, TailEntry DEF OnTheWay
    <3> QED
      BY <1>1, <1>3, <2>2, <3>1 DEF Stands
  <2> QED
    BY <2>1, <2>2 DEF OnTheWay, Stands
<1>5. ASSUME NEW b, NEW q, NEW id, Found(header, c, t.file, b, q, id), Ahead(c, t, b, q)
      PROVE  id \in S \/ Ahead(c, u, b, q)
  <2>1. CASE t.block < b
    BY <2>1 DEF Ahead
  <2>2. CASE t.block = b /\ o = q
    <3>1. o \in Offsets /\ IsEntry(B[o]) /\ Good(header, B[o]) /\ B[o].file = t.file /\ B[o].id = id
      BY <1>5, <2>2 DEF Found, Good
    <3> QED
      BY <1>3, <3>1
  <2>3. CASE t.block = b /\ o < q /\ o \in ChainOffsets(B)
    <3>1. q \in ChainOffsets(B)
      BY <1>5, <2>3 DEF Found
    <3>2. o \in Offsets /\ IsEntry(B[o]) /\ o + Required(B[o].size) <= q
      BY <1>2, <2>3, <3>1, ChainLinear
    <3>3. o + Required(B[o].size) \in ChainOffsets(B)
      BY <1>2, <2>3, <3>2 DEF Closed
    <3> QED
      BY <1>3, <2>3, <3>2, <3>3 DEF Ahead
  <2>4. q \in Nat
    BY <1>5, StoreAssumption DEF Found, Offsets
  <2>5. t.block = b => o \in ChainOffsets(B) /\ (o < q \/ o = q)
    BY <1>1, <1>5, <2>4, ChainNat DEF Ahead, Found
  <2> QED
    BY <1>5, <2>1, <2>2, <2>3, <2>5 DEF Ahead
<1>6. EndsAt(header, c, u.lastBlock, u.lastOffset)
  BY DEF OnTheWay
<1>7. \A b : InRange(header, u, b) <=> InRange(header, t, b)
  BY DEF InRange
<1> HIDE DEF o, B
<1> QED
  BY <1>4, <1>5, <1>6, <1>7 DEF OnTheWay

\* There is nothing at the token, nor behind it in its block: on to the next one.
LEMMA WayMovesOn ==
    ASSUME header \in Header, header.block \in Blocks, NEW c \in Cards, NEW t \in Token,
           NEW G, NEW R, NEW W, ~Done(t), OnTheWay(header, c, t, G, R, W),
           NEW p \in Parse(c[t.block], t.offset), p.status = "SIZE",
           NEW u \in Token, u.file = t.file, u.block = t.block + 1, u.offset = 0,
           u.lastBlock = t.lastBlock, u.lastOffset = t.lastOffset
    PROVE  OnTheWay(header, c, u, G, R, W)
<1> DEFINE o == t.offset
           B == c[t.block]
<1>1. /\ t.block \in Nat /\ o \in Nat /\ header.block \in Nat /\ header.offset \in Nat
      /\ t.block \in Blocks
  BY StoreAssumption DEF Token, Header, OnTheWay, Stands
<1>2. B \in Block /\ Whole(B)
  BY <1>1, ChainNat
<1>3. ~(o \in Offsets /\ IsEntry(B[o]))
  BY <1>1, <1>2, ParseEntry
<1>4. Stands(header, c, u.block, u.offset)
  <2>1. t.block # header.block
    BY <1>3, TailEntry DEF OnTheWay
  <2>2. t.block < header.block
    BY <1>1, <2>1 DEF OnTheWay, Stands
  <2>3. u.block \in Blocks
    BY <1>1, <2>2, StoreAssumption DEF Blocks
  <2>4. 0 \in ChainOffsets(c[u.block])
    BY <2>3, ChainNat
  <2>5. u.block < header.block \/ u.block = header.block
    BY <1>1, <2>2
  <2> QED
    BY <1>1, <2>3, <2>4, <2>5 DEF Stands
<1>5. ASSUME NEW b, NEW q, NEW id, Found(header, c, t.file, b, q, id), Ahead(c, t, b, q)
      PROVE  Ahead(c, u, b, q)
  <2>1. b \in Blocks /\ q \in Nat /\ b \in Nat /\ 0 \in ChainOffsets(c[b])
    BY <1>5, ChainNat, StoreAssumption DEF Found, Offsets
  <2>2. t.block # b
    <3>1. ASSUME t.block = b PROVE FALSE
      <4>1. o \in ChainOffsets(B) /\ o <= q /\ q \in ChainOffsets(B) /\ q \in Offsets /\ IsEntry(B[q])
        BY <1>1, <1>5, <2>1, <3>1 DEF Ahead, Found
      <4>2. o # q
        BY <1>3, <4>1
      <4>3. o < q
        BY <1>1, <2>1, <4>1, <4>2
      <4> QED
        BY <1>2, <1>3, <4>1, <4>3, ChainLinear
    <3> QED
      BY <3>1
  <2>3. t.block < b
    BY <1>5, <2>2 DEF Ahead
  <2>4. u.block < b \/ u.block = b
    BY <1>1, <2>1, <2>3
  <2> QED
    BY <2>1, <2>4 DEF Ahead
<1>6. EndsAt(header, c, u.lastBlock, u.lastOffset)
  BY DEF OnTheWay
<1>7. \A b : InRange(header, u, b) <=> InRange(header, t, b)
  BY DEF InRange
<1> HIDE DEF o, B
<1> QED
  BY <1>4, <1>5, <1>6, <1>7 DEF OnTheWay

-----------------------------------------------------------------------------
(***************************************************************************)
(* Tokens that are made and moved by calls.                                *)
(***************************************************************************)
\* What can be read of a file, by place.
LEMMA ReadPlaces ==
    ASSUME NEW h \in Header, NEW c \in Cards, NEW f \in Files, NEW id
    PROVE  id \in ReadIds(h, c, f) <=>
               \E b, q : /\ Found(h, c, f, b, q, id) /\ h.files[f].startBlock <= b
                         /\ Before(b, q, h.files[f].endBlock, h.files[f].endOffset)
<1> DEFINE x == h.files[f]
<1>1. /\ x.startBlock \in Nat /\ x.endBlock \in Nat /\ x.endOffset \in Nat
      /\ x.endOffset <= BlockSize /\ BlockSize \in Nat
  BY StoreAssumption DEF Header, FileHeader
<1>2. \A b \in Blocks : b \in Nat /\ \A q \in ChainOffsets(c[b]) : q \in Nat
  BY ChainNat
<1>3. \A q \in Nat : q < BlockSize <=> q \in Offsets
  BY <1>1 DEF Offsets
<1> HIDE DEF x
<1>4. ASSUME NEW b, NEW q, Finds(x, c, f, id, b, q)
      PROVE  b \in Blocks /\ q \in Offsets /\ x.startBlock <= b
             /\ Before(b, q, x.endBlock, x.endOffset)
  <2>1. /\ b \in Blocks /\ b \in Nat /\ q \in Nat /\ x.startBlock <= b /\ b <= x.endBlock
        /\ q < (IF b = x.endBlock THEN x.endOffset ELSE BlockSize)
    BY <1>2, <1>4 DEF Finds
  <2>2. b < x.endBlock \/ b = x.endBlock
    BY <1>1, <2>1
  <2>3. q < BlockSize
    BY <1>1, <2>1
  <2> QED
    BY <1>3, <2>1, <2>2, <2>3 DEF Before
<1>5. ASSUME NEW b, NEW q, b \in Blocks, q \in Offsets, q \in ChainOffsets(c[b]), x.startBlock <= b,
             Before(b, q, x.endBlock, x.endOffset)
      PROVE  b <= x.endBlock /\ q < (IF b = x.endBlock THEN x.endOffset ELSE BlockSize)
  <2>1. b \in Nat /\ q \in Nat /\ q < BlockSize
    BY <1>2, <1>3, <1>5
  <2>2. b <= x.endBlock
    BY <1>1, <1>5, <2>1 DEF Before
  <2>3. b = x.endBlock => q < x.endOffset
    BY <1>1, <1>5, <2>1 DEF Before
  <2> QED
    BY <2>1, <2>2, <2>3
<1>6. id \in ReadIds(h, c, f) <=> \E b, q : Finds(x, c, f, id, b, q)
  BY ReadFinds DEF x
<1>7. ASSUME NEW b, NEW q
      PROVE  Finds(x, c, f, id, b, q) <=>
                 /\ Found(h, c, f, b, q, id) /\ x.startBlock <= b
                 /\ Before(b, q, x.endBlock, x.endOffset)
  BY <1>4, <1>5 DEF Finds, Found, x
<1> QED
  BY <1>6, <1>7 DEF x

\* A new token has everything ahead.
LEMMA WayBegins ==
    ASSUME NEW h \in Header, NEW c \in Cards, NEW f \in Files, FilesPlaced(h), h.block \in Blocks,
           EndsAt(h, c, h.files[f].endBlock, h.files[f].endOffset)
    PROVE  OnTheWay(h, c, NewToken(h, f), ReadIds(h, c, f), {}, {})
<1> DEFINE t == NewToken(h, f)
           x == h.files[f]
<1>1. /\ t.file = f /\ t.block = x.startBlock /\ t.offset = 0
      /\ t.lastBlock = x.endBlock /\ t.lastOffset = x.endOffset
  BY TokenTypes
<1>2. /\ x.startBlock \in Nat /\ x.endBlock \in Nat /\ h.block \in Nat /\ h.offset \in Nat
  BY FileNumbers
<1>3. FirstBlock <= x.startBlock /\ x.startBlock <= x.endBlock /\ x.endBlock <= h.block
  BY DEF FilesPlaced
<1> HIDE DEF t, x
<1>4. x.startBlock \in Blocks /\ (x.startBlock < h.block \/ x.startBlock = h.block)
  BY <1>2, <1>3, StoreAssumption DEF Blocks
<1>5. Stands(h, c, t.block, t.offset)
  BY <1>1, <1>2, <1>4, ChainNat DEF Stands
<1>6. EndsAt(h, c, t.lastBlock, t.lastOffset)
  BY <1>1 DEF x
<1>7. ASSUME NEW b, NEW q, NEW id, Found(h, c, f, b, q, id), x.startBlock <= b
      PROVE  Ahead(c, t, b, q)
  <2>1. b \in Nat /\ q \in Nat /\ 0 \in ChainOffsets(c[b]) /\ 0 <= q
    BY <1>7, ChainNat, StoreAssumption DEF Found, Offsets
  <2>2. x.startBlock < b \/ x.startBlock = b
    BY <1>2, <1>7, <2>1
  <2> QED
    BY <1>1, <2>1, <2>2 DEF Ahead
<1>8. ASSUME NEW b, NEW q, NEW id, Found(h, c, f, b, q, id), InRange(h, t, b)
      PROVE  x.startBlock <= b
  <2>1. b \in Nat
    BY <1>8, ChainNat DEF Found
  <2> QED
    BY <1>1, <1>2, <1>3, <1>8, <2>1 DEF InRange, x
<1>9. \A id : id \in ReadIds(h, c, f) <=>
               \E b, q : /\ Found(h, c, f, b, q, id) /\ x.startBlock <= b
                         /\ Before(b, q, x.endBlock, x.endOffset)
  BY ReadPlaces DEF x
<1>10. OnTheWay(h, c, t, ReadIds(h, c, f), {}, {})
  BY <1>1, <1>5, <1>6, <1>7, <1>8, <1>9 DEF OnTheWay
<1> QED
  BY <1>10 DEF t

\* A token that is reopened still has ahead what it has not read.
LEMMA WayReopens ==
    ASSUME NEW h \in Header, NEW c \in Cards, NEW t \in Token, t.file \in Files, FilesPlaced(h),
           NEW G, NEW R, NEW W, OnTheWay(h, c, t, G, R, W),
           EndsAt(h, c, h.files[t.file].endBlock, h.files[t.file].endOffset),
           NEW u \in Token, u.file = t.file, u.block = t.block, u.offset = t.offset,
           u.lastBlock = h.files[t.file].endBlock, u.lastOffset = h.files[t.file].endOffset
    PROVE  OnTheWay(h, c, u, ReadIds(h, c, t.file) \ W, R, W)
<1> DEFINE f == t.file
           x == h.files[f]
<1>1. x.startBlock \in Nat /\ x.endBlock \in Nat /\ x.startBlock <= x.endBlock
  BY FileNumbers DEF FilesPlaced
<1> HIDE DEF f, x
<1>2. Stands(h, c, u.block, u.offset) /\ EndsAt(h, c, u.lastBlock, u.lastOffset)
  BY DEF OnTheWay
<1>3. \A b, q : Ahead(c, u, b, q) <=> Ahead(c, t, b, q)
  BY DEF Ahead
<1>4. ASSUME NEW b, NEW q, NEW id, Found(h, c, f, b, q, id), InRange(h, u, b)
      PROVE  x.startBlock <= b
  <2>1. b \in Nat
    BY <1>4, ChainNat DEF Found
  <2> QED
    BY <1>1, <1>4, <2>1 DEF InRange, x, f
<1>5. \A b : x.startBlock <= b => InRange(h, t, b)
  BY DEF InRange, x, f
<1>6. \A id : id \in ReadIds(h, c, f) <=>
               \E b, q : /\ Found(h, c, f, b, q, id) /\ x.startBlock <= b
                         /\ Before(b, q, x.endBlock, x.endOffset)
  <2>1. f \in Files
    BY DEF f
  <2> QED
    BY <2>1, ReadPlaces DEF x
<1>7. \A b, q, id : Found(h, c, f, b, q, id) /\ x.startBlock <= b =>
                        id \in R \cup W \/ Ahead(c, t, b, q)
  BY <1>5 DEF OnTheWay, f
<1>8. u.file = f /\ u.lastBlock = x.endBlock /\ u.lastOffset = x.endOffset
  BY DEF f, x
<1>9. OnTheWay(h, c, u, ReadIds(h, c, f) \ W, R, W)
  <2>1. ASSUME NEW b, NEW q, NEW id, Found(h, c, f, b, q, id), InRange(h, u, b)
        PROVE  /\ id \in R \cup W \/ Ahead(c, u, b, q)
               /\ Before(b, q, x.endBlock, x.endOffset) => id \in (ReadIds(h, c, f) \ W) \cup R \cup W
    BY <1>3, <1>4, <1>6, <1>7, <2>1
  <2>2. ASSUME NEW id \in ReadIds(h, c, f) \ W
        PROVE  \/ id \in R
               \/ \E b, q : /\ Found(h, c, f, b, q, id) /\ Ahead(c, u, b, q)
                            /\ Before(b, q, x.endBlock, x.endOffset)
    BY <1>3, <1>6, <1>7, <2>2
  <2> QED
    BY <1>2, <1>8, <2>1, <2>2 DEF OnTheWay
<1> QED
  BY <1>9 DEF f

\* A token that is moved to its end has given up what was left.
LEMMA WayMovesEnd ==
    ASSUME NEW h \in Header, NEW c \in Cards, NEW t \in Token,
           NEW G, NEW R, NEW W, OnTheWay(h, c, t, G, R, W),
           NEW u \in Token, u.file = t.file, u.block = t.lastBlock, u.offset = t.lastOffset,
           u.lastBlock = t.lastBlock, u.lastOffset = t.lastOffset
    PROVE  OnTheWay(h, c, u, {}, R, W \cup G)
<1>1. Stands(h, c, u.block, u.offset) /\ EndsAt(h, c, u.lastBlock, u.lastOffset)
  BY DEF OnTheWay, EndsAt
<1>2. ASSUME NEW b, NEW q, NEW id, Found(h, c, t.file, b, q, id),
             ~Before(b, q, t.lastBlock, t.lastOffset)
      PROVE  Ahead(c, u, b, q)
  <2>1. b \in Nat /\ q \in Nat /\ t.lastBlock \in Nat /\ t.lastOffset \in Nat
    BY <1>2, ChainNat, StoreAssumption DEF Found, Offsets, Token
  <2>2. t.lastBlock < b \/ (t.lastBlock = b /\ t.lastOffset <= q)
    BY <1>2, <2>1 DEF Before
  <2>3. t.lastOffset \in ChainOffsets(c[t.lastBlock])
    BY DEF OnTheWay, EndsAt
  <2> QED
    BY <2>2, <2>3 DEF Ahead
<1>3. \A b : InRange(h, u, b) <=> InRange(h, t, b)
  BY DEF InRange
<1> QED
  BY <1>1, <1>2, <1>3 DEF OnTheWay

\* fkfs_file_truncate_at leaves the blocks from the token's last one on.
LEMMA WayTruncates ==
    ASSUME NEW g \in Header, NEW h \in Header, NEW c \in Cards, NEW t \in Token, t.file \in Files,
           NEW G, NEW R, NEW W, OnTheWay(g, c, t, G, R, W),
           h.block = g.block, h.offset = g.offset,
           h.files[t.file].version = g.files[t.file].version,
           h.files[t.file].startBlock = t.lastBlock,
           \A b, q, id : Found(g, c, t.file, b, q, id) =>
               Before(b, q, h.files[t.file].endBlock, h.files[t.file].endOffset)
    PROVE  OnTheWay(h, c, t, G \cap ReadIds(h, c, t.file), R, W)
<1>1. \A b, o : (Stands(h, c, b, o) <=> Stands(g, c, b, o)) /\ (EndsAt(h, c, b, o) <=> EndsAt(g, c, b, o))
  BY DEF Stands, EndsAt
<1>2. \A b, q, id : Found(h, c, t.file, b, q, id) <=> Found(g, c, t.file, b, q, id)
  BY DEF Found
<1>3. \A b : InRange(h, t, b) => t.lastBlock <= b /\ InRange(g, t, b)
  BY DEF InRange
<1>4. \A id : id \in ReadIds(h, c, t.file) <=>
               \E b, q : /\ Found(h, c, t.file, b, q, id) /\ t.lastBlock <= b
                         /\ Before(b, q, h.files[t.file].endBlock, h.files[t.file].endOffset)
  BY ReadPlaces
<1>5. ASSUME NEW b, NEW q, NEW id, Found(h, c, t.file, b, q, id), InRange(h, t, b)
      PROVE  /\ id \in R \cup W \/ Ahead(c, t, b, q)
             /\ Before(b, q, t.lastBlock, t.lastOffset) =>
                    id \in (G \cap ReadIds(h, c, t.file)) \cup R \cup W
  <2>1. id \in ReadIds(h, c, t.file)
    BY <1>2, <1>3, <1>4, <1>5
  <2> QED
    BY <1>2, <1>3, <1>5, <2>1 DEF OnTheWay
<1> QED
  BY <1>1, <1>2, <1>5 DEF OnTheWay

-----------------------------------------------------------------------------
(***************************************************************************)
(* The store at work between two calls of the reader.                      *)
(***************************************************************************)
\* Header h and card d come after g and c: what lies before the tail of g stays.
Grown(g, c, h, d) ==
    /\ \A b \in Blocks : b < g.block => d[b] = c[b]
    /\ Agree(c[g.block], d[g.block], g.offset)
    /\ g.block < h.block \/ (g.block = h.block /\ g.offset <= h.offset)

LEMMA GrownPlaces ==
    ASSUME NEW g \in Header, NEW h \in Header, NEW c \in Cards, NEW d \in Cards,
           g.block \in Blocks, Grown(g, c, h, d), NEW b \in Blocks, NEW o
    PROVE  /\ Stands(g, c, b, o) => Stands(h, d, b, o)
           /\ EndsAt(g, c, b, o) => EndsAt(h, d, b, o)
           /\ Stands(g, c, b, o) /\ o \in ChainOffsets(c[b]) => o \in ChainOffsets(d[b])
<1>1. g.block \in Nat /\ h.block \in Nat /\ g.offset \in Nat /\ h.offset \in Nat /\ b \in Nat
  BY StoreAssumption DEF Header, Blocks
<1>2. \A p \in ChainOffsets(c[g.block]) : p <= g.offset => p \in ChainOffsets(d[g.block])
  BY AgreeChain DEF Grown, Cards
<1>3. \A p \in ChainOffsets(c[g.block]) : p \in Nat
  BY ChainNat
<1>4. CASE b < g.block
  <2>1. d[b] = c[b] /\ b < h.block
    BY <1>1, <1>4 DEF Grown
  <2> QED
    BY <2>1 DEF Stands, EndsAt
<1>5. CASE b = g.block
  <2>1. ASSUME Stands(g, c, b, o)
        PROVE  o \in ChainOffsets(d[b]) /\ (b < h.block \/ (b = h.block /\ o <= h.offset))
    <3>1. o \in ChainOffsets(c[b]) /\ o <= g.offset /\ o \in Nat
      BY <1>1, <1>3, <1>5, <2>1 DEF Stands
    <3>2. g.block = h.block /\ g.offset <= h.offset => o <= h.offset
      BY <1>1, <3>1
    <3> QED
      BY <1>2, <1>5, <3>1, <3>2 DEF Grown
  <2> QED
    BY <2>1 DEF Stands, EndsAt
<1>6. CASE ~(b < g.block) /\ b # g.block
  BY <1>6 DEF Stands, EndsAt
<1> QED
  BY <1>4, <1>5, <1>6

LEMMA GrownFound ==
    ASSUME NEW g \in Header, NEW h \in Header, NEW c \in Cards, NEW d \in Cards,
           g.block \in Blocks, Grown(g, c, h, d), NEW f, h.files[f].version = g.files[f].version,
           NEW b, NEW q, NEW id, Found(g, c, f, b, q, id), Before(b, q, g.block, g.offset)
    PROVE  Found(h, d, f, b, q, id)
<1>1. g.block \in Nat /\ g.offset \in Nat /\ b \in Blocks /\ b \in Nat /\ q \in Nat
      /\ q \in ChainOffsets(c[b])
  BY ChainNat, StoreAssumption DEF Header, Found, Offsets
<1>2. CASE b < g.block
  BY <1>1, <1>2 DEF Grown, Found
<1>3. CASE b = g.block /\ q < g.offset
  <2>1. d[b][q] = c[b][q]
    BY <1>1, <1>3 DEF Grown, Agree
  <2>2. q <= g.offset
    BY <1>1, <1>3
  <2>3. Stands(g, c, b, q)
    BY <1>1, <1>3, <2>2 DEF Stands
  <2>4. q \in ChainOffsets(d[b])
    BY <1>1, <2>3, GrownPlaces
  <2> QED
    BY <2>1, <2>4 DEF Found
<1> QED
  BY <1>2, <1>3 DEF Before

\* A token stays on its way if what is new lies behind the tail, and what is gone, below
\* k, is no longer to be read.
LEMMA WayGrows ==
    ASSUME NEW g \in Header, NEW h \in Header, NEW c \in Cards, NEW d \in Cards,
           g.block \in Blocks, Grown(g, c, h, d), NEW t \in Token,
           NEW G, NEW R, NEW W, OnTheWay(g, c, t, G, R, W), NEW k,
           NEW H, \A id : id \in H <=> id \in G /\ id >= k,
           \A b, q, id : Found(h, d, t.file, b, q, id) =>
               /\ id >= k
               /\ \/ /\ Found(g, c, t.file, b, q, id)
                     /\ h.files[t.file].startBlock = g.files[t.file].startBlock
                  \/ b = g.block /\ g.offset <= q,
           \A b, q, id : Found(g, c, t.file, b, q, id) /\ id >= k => Found(h, d, t.file, b, q, id)
    PROVE  OnTheWay(h, d, t, H, R, W)
<1>1. Stands(g, c, t.block, t.offset) /\ EndsAt(g, c, t.lastBlock, t.lastOffset)
      /\ t.block \in Blocks /\ t.lastBlock \in Blocks
  BY DEF OnTheWay, Stands, EndsAt
<1>2. Stands(h, d, t.block, t.offset) /\ EndsAt(h, d, t.lastBlock, t.lastOffset)
  BY <1>1, GrownPlaces
<1>3. \A b, q : Ahead(c, t, b, q) => Ahead(d, t, b, q)
  BY <1>1, GrownPlaces DEF Ahead
<1>4. /\ g.block \in Nat /\ g.offset \in Nat /\ t.block \in Nat /\ t.offset \in Nat
      /\ t.lastBlock \in Nat /\ t.lastOffset \in Nat
  BY StoreAssumption DEF Header, Token
<1>5. ASSUME NEW q, NEW id, Found(h, d, t.file, g.block, q, id), g.offset <= q
      PROVE  Ahead(d, t, g.block, q) /\ ~Before(g.block, q, t.lastBlock, t.lastOffset)
  <2>1. q \in Nat
    BY <1>5, StoreAssumption DEF Found, Offsets
  <2>2. Ahead(c, t, g.block, q)
    BY <1>1, <1>4, <1>5, <2>1 DEF Stands, Ahead
  <2>3. t.lastBlock < g.block \/ (t.lastBlock = g.block /\ t.lastOffset <= g.offset)
    BY <1>1 DEF EndsAt, Stands
  <2>4. ~Before(g.block, q, t.lastBlock, t.lastOffset)
    BY <1>4, <1>5, <2>1, <2>3 DEF Before
  <2> QED
    BY <1>3, <2>2, <2>4
<1>6. ASSUME NEW b, NEW q, NEW id, Found(h, d, t.file, b, q, id), InRange(h, t, b)
      PROVE  /\ id \in R \cup W \/ Ahead(d, t, b, q)
             /\ Before(b, q, t.lastBlock, t.lastOffset) => id \in H \cup R \cup W
  <2>1. CASE /\ Found(g, c, t.file, b, q, id)
             /\ h.files[t.file].startBlock = g.files[t.file].startBlock
    <3>1. InRange(g, t, b)
      BY <1>6, <2>1 DEF InRange
    <3>2. id >= k
      BY <1>6
    <3> QED
      BY <1>3, <2>1, <3>1, <3>2 DEF OnTheWay
  <2>2. CASE b = g.block /\ g.offset <= q
    BY <1>5, <1>6, <2>2
  <2> QED
    BY <1>6, <2>1, <2>2
<1>7. ASSUME NEW id \in H
      PROVE  \/ id \in R
             \/ \E b, q : /\ Found(h, d, t.file, b, q, id) /\ Ahead(d, t, b, q)
                          /\ Before(b, q, t.lastBlock, t.lastOffset)
  BY <1>3, <1>7 DEF OnTheWay
<1> QED
  BY <1>2, <1>6, <1>7 DEF OnTheWay

-----------------------------------------------------------------------------
(***************************************************************************)
(* The buffer is dirty only while fkfs_fsync runs, and the tail is on its  *)
(* chain.                                                                  *)
(***************************************************************************)
DirtySoon == Careful => (cachedBlockDirty => pc = "data")

ChainInv == BlocksWhole /\ (Careful /\ NeverCut => TailOn /\ PlaceOn /\ OffsetZero)

LEMMA NoWriteFails ==
    ASSUME Inv, Careful
    PROVE  ~Spend({"writefail"})
<1>1. "writefail" \in Kinds
  BY DEF Kinds
<1>2. budget["writefail"] \in Nat /\ budget["writefail"] <= 0
  BY <1>1 DEF Inv, TypeOK, BudgetOK, Careful
<1> QED
  BY <1>2 DEF Spend

LEMMA DirtyStep ==
    ASSUME Inv, DirtySoon, [Next]_vars \/ ReaderStep
    PROVE  DirtySoon'
<1> SUFFICES ASSUME Careful, cachedBlockDirty'
             PROVE  pc' = "data"
  BY DEF DirtySoon, Careful
<1>1. cachedBlockDirty => pc = "data"
  BY DEF DirtySoon
<1>2. ~Spend({"writefail"})
  BY NoWriteFails
<1>3. CASE ReaderStep
  BY <1>1, <1>3 DEF ReaderStep, cacheVars
<1>4. CASE Step
  <2>1. CASE ScanPlaces
    <3>1. call.file \in Files
      BY <2>1, ScanOffset DEF ScanPlaces
    <3> QED
      BY <2>1, <3>1 DEF ScanPlaces, Careful
  <2>2. CASE ~ScanPlaces
    BY <1>1, <1>2, <1>4, <2>2 DEF Step, FormatFirst, FormatSecond, FormatFails, PoweredOff,
       FreshCache, FsyncClean, FsyncData, FsyncDataFails, FsyncHeader, FsyncHeaderFails, Touch,
       TouchFails, Load, LoadFails, ScanSkips, cacheVars
  <2> QED
    BY <2>1, <2>2
<1>5. CASE Call
  BY <1>1, <1>5 DEF Call, Mount, Format, FreshCache, AppendCall, TouchCall, Truncate, cacheVars
<1>6. CASE Crash
  BY <1>6 DEF Crash, PoweredOff, FreshCache
<1>7. CASE UNCHANGED vars
  BY <1>1, <1>7 DEF vars
<1> QED
  BY <1>3, <1>4, <1>5, <1>6, <1>7 DEF Next

LEMMA ChainStep ==
    ASSUME Inv, HeadersInv, Inv', ChainInv, [Next]_vars
    PROVE  ChainInv'
<1>1. BlocksWhole'
  BY WholeStep DEF ChainInv
<1>2. ASSUME Careful PROVE UncutInv'
  BY <1>2, UncutStep DEF ChainInv, UncutInv
<1> QED
  BY <1>1, <1>2 DEF ChainInv, UncutInv, Careful

\* A read takes a clean buffer away.
LEMMA ReadCard ==
    ASSUME Inv, Careful, DirtySoon, ReaderStep
    PROVE  /\ CurrentCard' = card /\ CurrentCard = card /\ TailBlock' = TailBlock
           /\ ~cachedBlockDirty /\ ~cachedBlockDirty'
<1>1. ~cachedBlockDirty /\ ~cachedBlockDirty' /\ card' = card /\ header'.block = header.block
  BY DEF DirtySoon, ReaderStep, cacheVars
<1> QED
  BY <1>1 DEF CurrentCard, TailBlock

LEMMA ChainRead ==
    ASSUME Inv, DirtySoon, ChainInv, ReaderStep
    PROVE  ChainInv'
<1>1. BlocksWhole'
  BY DEF ReaderStep, ChainInv, BlocksWhole, cacheVars
<1>2. ASSUME Careful, NeverCut'
      PROVE  TailOn' /\ PlaceOn' /\ OffsetZero'
  <2>1. NeverCut
    <3>1. CASE UNCHANGED budget
      BY <1>2, <3>1 DEF NeverCut
    <3>2. CASE Spend({"readfail"})
      <4>1. "crash" \in Kinds /\ "crash" \notin {"readfail"}
        BY DEF Kinds
      <4>2. budget'["crash"] = budget["crash"]
        BY <3>2, <4>1 DEF Spend
      <4> QED
        BY <1>2, <4>2 DEF NeverCut
    <3> QED
      BY <3>1, <3>2 DEF ReaderStep
  <2>2. TailOn /\ PlaceOn /\ pc = "idle" /\ pc' = "idle" /\ header'.block = header.block
        /\ header'.offset = header.offset
    BY <1>2, <2>1 DEF ChainInv, ReaderStep
  <2>3. TailBlock' = TailBlock
    BY <1>2, ReadCard
  <2>4. TailOn' /\ PlaceOn'
    BY <2>2, <2>3, TailKept
  <2> QED
    BY <2>2, <2>4 DEF OffsetZero, Booting
<1> QED
  BY <1>1, <1>2 DEF ChainInv, Careful

-----------------------------------------------------------------------------
(***************************************************************************)
(* What a step of the store does to what can be found.                     *)
(***************************************************************************)
LEMMA FoundLies ==
    ASSUME Inv, NEW f \in Files, NEW b, NEW q, NEW id, Found(header, CurrentCard, f, b, q, id)
    PROVE  \E x : Lies(b, q, x) /\ Good(header, x) /\ x.file = f /\ x.id = id
<1> DEFINE x == CurrentCard[b][q]
<1>1. /\ b \in Blocks /\ q \in Offsets /\ IsEntry(x) /\ x.file = f /\ x.id = id
      /\ x.version = header.files[f].version
  BY DEF Found
<1>2. x = card[b][q] \/ (cachedBlockNumber = b /\ x = buffer[q])
  BY <1>1 DEF CurrentCard, DataWritten, Inv, TypeOK, TailCached
<1> HIDE DEF x
<1> QED
  BY <1>1, <1>2 DEF Lies, Good

LEMMA FoundLiesNext ==
    ASSUME Inv', NEW f \in Files, NEW b, NEW q, NEW id, Found(header', CurrentCard', f, b, q, id)
    PROVE  \E x : Lies(b, q, x)' /\ Good(header', x) /\ x.file = f /\ x.id = id
<1> DEFINE x == CurrentCard'[b][q]
<1>1. /\ b \in Blocks /\ q \in Offsets /\ IsEntry(x) /\ x.file = f /\ x.id = id
      /\ x.version = header'.files[f].version
  BY DEF Found
<1>2. x = card'[b][q] \/ (cachedBlockNumber' = b /\ x = buffer'[q])
  BY <1>1 DEF CurrentCard, DataWritten, Inv, TypeOK, TailCached
<1> HIDE DEF x
<1> QED
  BY <1>1, <1>2 DEF Lies, Good

\* The card of a store in its first round, and its tail.
LEMMA CalmCard ==
    ASSUME ReadAll, ChainInv, Careful, Settled, pc # "off"
    PROVE  /\ header \in Header /\ header.block \in Blocks /\ CurrentCard \in Cards
           /\ CurrentCard[header.block] = TailBlock /\ FilesPlaced(header)
           /\ header.offset \in ChainOffsets(TailBlock)
           /\ \A b \in Blocks : b # header.block => CurrentCard[b] = card[b]
<1>1. Inv /\ HeadersInv /\ RoomInv /\ PlacedInv /\ FirstRound /\ BlocksWhole /\ TailOn
  BY DEF ReadAll, PlacedAll, IterInv, Settled, ChainInv
<1>2. header.block \in Blocks
  BY <1>1, FirstRoundBlocks
<1> QED
  BY <1>1, <1>2, CurrentCardIs DEF Inv, TypeOK, TailOn, PlacedInv

LEMMA CalmCardNext ==
    (ReadAll /\ ChainInv /\ Careful /\ Settled /\ pc # "off")' =>
        (/\ header \in Header /\ header.block \in Blocks /\ CurrentCard \in Cards
         /\ CurrentCard[header.block] = TailBlock
         /\ \A b \in Blocks : b # header.block => CurrentCard[b] = card[b])'
<1>1. ReadAll /\ ChainInv /\ Careful /\ Settled /\ pc # "off" =>
        /\ header \in Header /\ header.block \in Blocks /\ CurrentCard \in Cards
        /\ CurrentCard[header.block] = TailBlock
        /\ \A b \in Blocks : b # header.block => CurrentCard[b] = card[b]
  BY CalmCard
<1> QED
  BY <1>1, PTL

\* Where header and card are after a step.
Moved ==
    /\ header \in Header /\ header' \in Header /\ header.block \in Blocks
    /\ CurrentCard \in Cards /\ CurrentCard' \in Cards
    /\ Grown(header, CurrentCard, header', CurrentCard')
    /\ \A f \in Files : \A b, q, id :
           /\ Found(header', CurrentCard', f, b, q, id) =>
                 /\ id >= cut'[f]
                 /\ \/ /\ Found(header, CurrentCard, f, b, q, id)
                       /\ header'.files[f].startBlock = header.files[f].startBlock
                    \/ b = header.block /\ header.offset <= q
           /\ Found(header, CurrentCard, f, b, q, id) /\ id >= cut'[f] =>
                 Found(header', CurrentCard', f, b, q, id)

LEMMA StoreMoves ==
    ASSUME ReadAll, ReadAll', ChainInv, ChainInv', Careful, Settled', [Next]_vars, ~Booting
    PROVE  Moved /\ ~Booting'
<1>1. /\ Inv /\ HeadersInv /\ RoomInv /\ HideInv /\ AgeInv /\ Inv' /\ HideInv' /\ BlocksWhole
  BY DEF ReadAll, PlacedAll, IterInv, ChainInv
<1>2. Settled /\ FirstRound /\ NeverCut
  BY <1>1, SettledBefore DEF Settled
<1>3. ~Booting' /\ pc # "off" /\ pc' # "off"
  BY <1>1, BootSteps DEF Settled, Booting
<1>4. TailOn /\ PlaceOn
  BY <1>2 DEF ChainInv
<1>5. /\ header \in Header /\ header.block \in Blocks /\ CurrentCard \in Cards
      /\ CurrentCard[header.block] = TailBlock /\ header.offset \in ChainOffsets(TailBlock)
      /\ \A b \in Blocks : b # header.block => CurrentCard[b] = card[b]
  BY <1>2, <1>3, CalmCard
<1>6. /\ header' \in Header /\ CurrentCard' \in Cards
      /\ CurrentCard'[header'.block] = TailBlock'
      /\ \A b \in Blocks : b # header'.block => CurrentCard'[b] = card'[b]
  <2>1. Careful'
    BY DEF Careful
  <2> QED
    BY <1>3, <2>1, CalmCardNext
<1>7. header.offset \in Nat /\ header.block \in Nat
  BY <1>5, StoreAssumption DEF Header
<1>8. ASSUME NEW f \in Files, NEW b, NEW q, NEW id, Found(header', CurrentCard', f, b, q, id)
      PROVE  id >= cut'[f] /\ \A F : Truncate(F) => f \notin F
  <2>1. PICK x : Lies(b, q, x)' /\ Good(header', x) /\ x.file = f /\ x.id = id
    BY <1>1, <1>8, FoundLiesNext
  <2>2. cut'[f] <= id /\ id < NextId'
    BY <1>1, <2>1, GoodYoungNext
  <2>3. \A F : Truncate(F) => f \notin F
    <3>1. \A F : Truncate(F) => ~ScanPlaces
      BY DEF Truncate, ScanPlaces
    <3> QED
      BY <1>1, <2>1, <3>1, GoodNext
  <2> QED
    BY <2>2, <2>3
<1>9. ASSUME NEW f \in Files, NEW b, NEW q, NEW id, Found(header, CurrentCard, f, b, q, id)
      PROVE  Before(b, q, header.block, header.offset) /\ id < NextId /\ id \in Nat
  <2>1. PICK x : Lies(b, q, x) /\ x.id = id
    BY <1>1, <1>9, FoundLies
  <2> QED
    BY <1>1, <1>2, <2>1, LiesType DEF AgeInv
<1>10. CASE ScanPlaces
  <2>1. /\ header'.block = header.block /\ cachedBlockDirty'
        /\ header'.offset = call.newOffset + Required(call.size)
        /\ buffer' \in Block /\ Whole(buffer') /\ Agree(TailBlock, buffer', call.newOffset)
    BY <1>1, <1>4, <1>10, TailPlaces
  <2>2. \A f \in Files : /\ header'.files[f].version = header.files[f].version
                         /\ header'.files[f].startBlock = header.files[f].startBlock
    <3>1. call.file \in Files
      BY <1>1, <1>10, ScanOffset DEF ScanPlaces
    <3>2. /\ \A f \in Files : f # call.file => header'.files[f] = header.files[f]
          /\ header'.files[call.file].version = header.files[call.file].version
          /\ header'.files[call.file].startBlock = header.files[call.file].startBlock
      BY <1>5, <1>10, <3>1 DEF ScanPlaces, Header, FileHeader
    <3> QED
      BY <3>2
  <2>3. header.offset <= call.newOffset /\ call.newOffset \in Nat /\ call.size \in Nat
    BY <1>1, <1>2, <1>10, StoreAssumption DEF AgeInv, ScanPlaces, Inv, TypeOK, Calls
  <2>4. CurrentCard'[header.block] = buffer'
    BY <1>6, <2>1 DEF TailBlock
  <2>5. \A b \in Blocks : b # header.block => CurrentCard'[b] = CurrentCard[b]
    BY <1>5, <1>6, <1>10, <2>1 DEF ScanPlaces, cardVars
  <2>6. TailBlock \in Block /\ Whole(TailBlock)
    BY <1>5, ChainNat
  <2>7. Agree(TailBlock, buffer', header.offset)
    BY <1>5, <2>1, <2>3, <2>6, AgreeShorter
  <2>8. header.offset <= header'.offset
    <3>1. Required(call.size) \in Nat
      BY <2>3, StoreAssumption DEF Required
    <3> QED
      BY <1>7, <2>1, <2>3, <3>1
  <2>9. Grown(header, CurrentCard, header', CurrentCard')
    BY <1>5, <1>7, <2>1, <2>4, <2>5, <2>7, <2>8 DEF Grown
  <2>10. ASSUME NEW f \in Files, NEW b, NEW q, NEW id, Found(header', CurrentCard', f, b, q, id)
         PROVE  Found(header, CurrentCard, f, b, q, id) \/ (b = header.block /\ header.offset <= q)
    <3>1. CASE b # header.block
      BY <2>2, <2>5, <2>10, <3>1 DEF Found
    <3>2. CASE b = header.block
      <4>1. q \in ChainOffsets(buffer') /\ q \in Nat
        BY <2>4, <2>10, <3>2, StoreAssumption DEF Found, Offsets
      <4>2. CASE q < call.newOffset
        <5>1. Agree(buffer', TailBlock, call.newOffset)
          BY <2>1, <2>6, AgreeSym
        <5>2. q <= call.newOffset
          BY <2>3, <4>1, <4>2
        <5>3. q \in ChainOffsets(TailBlock) /\ TailBlock[q] = buffer'[q]
          BY <2>1, <2>6, <4>1, <4>2, <5>1, <5>2, AgreeChain DEF Agree
        <5> QED
          BY <1>5, <2>2, <2>4, <2>10, <3>2, <5>3 DEF Found
      <4>3. CASE ~(q < call.newOffset)
        BY <1>7, <2>3, <3>2, <4>1, <4>3
      <4> QED
        BY <4>2, <4>3
    <3> QED
      BY <3>1, <3>2
  <2>11. ASSUME NEW f \in Files, NEW b, NEW q, NEW id, Found(header, CurrentCard, f, b, q, id)
         PROVE  Found(header', CurrentCard', f, b, q, id)
    BY <1>5, <1>6, <1>9, <2>2, <2>9, <2>11, GrownFound
  <2> QED
    BY <1>3, <1>5, <1>6, <1>8, <2>2, <2>9, <2>10, <2>11 DEF Moved
<1>11. CASE ~ScanPlaces
  <2>1. CurrentCard' = CurrentCard
    BY <1>1, <1>3, <1>11, QuietCard
  <2>2. Agree(CurrentCard[header.block], CurrentCard[header.block], header.offset)
    BY <1>5, AgreeSelf
  <2>3. ASSUME NEW F, Truncate(F)
        PROVE  Moved
    <3>1. /\ header'.block = header.block /\ header'.offset = header.offset
          /\ \A f \in Files : f \notin F => header'.files[f] = header.files[f]
          /\ \A f \in Files : f \in F => cut'[f] = NextId
      BY <1>5, <2>3 DEF Truncate, Truncated, Header
    <3>2. Grown(header, CurrentCard, header', CurrentCard')
      BY <1>7, <2>1, <2>2, <3>1 DEF Grown
    <3>3. ASSUME NEW f \in Files, NEW b, NEW q, NEW id, Found(header', CurrentCard', f, b, q, id)
          PROVE  /\ Found(header, CurrentCard, f, b, q, id)
                 /\ header'.files[f].startBlock = header.files[f].startBlock
      <4>1. f \notin F
        BY <1>8, <2>3, <3>3
      <4> QED
        BY <2>1, <3>1, <3>3, <4>1 DEF Found
    <3>4. ASSUME NEW f \in Files, NEW b, NEW q, NEW id, Found(header, CurrentCard, f, b, q, id),
                 id >= cut'[f]
          PROVE  Found(header', CurrentCard', f, b, q, id)
      <4>1. f \notin F
        <5>1. id < NextId /\ id \in Nat /\ NextId \in Nat
          BY <1>1, <1>9, <3>4, CountsNat
        <5>2. f \in F => id >= NextId
          BY <3>1, <3>4
        <5> QED
          BY <5>1, <5>2
      <4> QED
        BY <2>1, <3>1, <3>4, <4>1 DEF Found
    <3> QED
      BY <1>5, <1>6, <1>8, <3>2, <3>3, <3>4 DEF Moved
  <2>4. ASSUME \A F : ~Truncate(F)
        PROVE  Moved
    <3>1. /\ header'.files = header.files
          /\ \/ header'.block = header.block /\ header'.offset = header.offset
             \/ /\ pc \in {"data", "hdr"} /\ call.after = "advance"
                /\ header'.block = NextBlock(header.block)
      BY <1>1, <1>3, <1>11, <2>4, QuietHeader
    <3>2. \/ header'.block = header.block /\ header'.offset = header.offset
          \/ header'.block = header.block + 1
      BY <1>1, <1>2, <3>1, FirstRoundNext
    <3>3. Grown(header, CurrentCard, header', CurrentCard')
      BY <1>7, <2>1, <2>2, <3>2 DEF Grown
    <3>4. ASSUME NEW f \in Files, NEW b, NEW q, NEW id
          PROVE  Found(header', CurrentCard', f, b, q, id) <=> Found(header, CurrentCard, f, b, q, id)
      BY <2>1, <3>1 DEF Found
    <3> QED
      BY <1>5, <1>6, <1>8, <3>1, <3>3, <3>4 DEF Moved
  <2> QED
    BY <1>3, <2>3, <2>4
<1> QED
  BY <1>10, <1>11

-----------------------------------------------------------------------------
(***************************************************************************)
(* Files end at places a walk arrives at; they are empty when the store    *)
(* starts.                                                                 *)
(***************************************************************************)
FileEnds ==
    \A f \in Files : EndsAt(header, CurrentCard, header.files[f].endBlock, header.files[f].endOffset)

FileEndsNext ==
    \A f \in Files :
        EndsAt(header', CurrentCard', header'.files[f].endBlock, header'.files[f].endOffset)

Empty(h) == \A f \in Files : h.files[f].endOffset = 0

BootEmptyFiles ==
    /\ pc # "off" => Empty(header)
    /\ \A i \in {0, 1} : slots[i].valid => Empty(slots[i].header)

LEMMA BootEnds ==
    ASSUME Inv, [Next]_vars, Booting, BootEmptyFiles
    PROVE  /\ Booting' => BootEmptyFiles'
           /\ ~Booting' => Empty(header')
<1>1. ASSUME slots' \in HeaderBadlyWritten \cup {HeaderWritten}, pc # "off"
      PROVE  \A i \in {0, 1} : slots'[i].valid => Empty(slots'[i].header)
  BY <1>1, WrittenSlots DEF Inv, NoSlot, Written, BootEmptyFiles
<1>2. CASE FormatFirst
  <2>1. header'.files = header.files /\ pc # "off" /\ pc' = "wipe1"
    BY <1>2 DEF FormatFirst, Inv, TypeOK, Header
  <2> QED
    BY <1>1, <1>2, <2>1 DEF FormatFirst, BootEmptyFiles, Empty, Booting
<1>3. CASE FormatSecond
  BY <1>3 DEF FormatSecond, BootEmptyFiles, Booting
<1>4. CASE FormatFails \/ Crash
  <2>1. pc' = "off" /\ pc # "off"
    BY <1>4 DEF FormatFails, Crash, PoweredOff
  <2>2. slots' \in HeaderBadlyWritten \cup {HeaderWritten} \/ slots' = slots
    BY <1>4 DEF FormatFails, Crash
  <2> QED
    BY <1>1, <2>1, <2>2 DEF BootEmptyFiles, Booting
<1>5. ASSUME NEW n, Mount(n)
      PROVE  Empty(header') /\ ~Booting'
  BY <1>5 DEF Mount, Formatted, PickSlot, BootEmptyFiles, Booting
<1>6. ASSUME NEW wipe, NEW n, Format(wipe, n)
      PROVE  Empty(header') /\ Booting' /\ slots' = slots
  BY <1>6 DEF Format, FreshHeader, Empty, Booting
<1>7. CASE Call
  BY <1>5, <1>6, <1>7 DEF Call, AppendCall, TouchCall, Truncate, Booting, BootEmptyFiles
<1>8. CASE UNCHANGED vars
  BY <1>8 DEF vars, BootEmptyFiles, Booting, Empty
<1> QED
  BY <1>2, <1>3, <1>4, <1>7, <1>8 DEF Next, Step, FsyncClean, FsyncData, FsyncDataFails,
     FsyncHeader, FsyncHeaderFails, Touch, TouchFails, Load, LoadFails, ScanPlaces, ScanSkips,
     Booting

\* Any place of a started block counts as an end at its first byte.
LEMMA EndsAtStart ==
    ASSUME NEW h \in Header, NEW c \in Cards, NEW b \in Nat, FirstBlock <= b, b <= h.block,
           h.block \in Blocks
    PROVE  EndsAt(h, c, b, 0)
<1>1. h.block \in Nat /\ h.offset \in Nat /\ b \in Blocks
  BY StoreAssumption DEF Header, Blocks
<1>2. 0 \in ChainOffsets(c[b])
  BY <1>1, ChainNat
<1>3. b < h.block \/ b = h.block
  BY <1>1
<1> QED
  BY <1>1, <1>2, <1>3 DEF EndsAt, Stands

LEMMA FilesStep ==
    ASSUME ReadAll, ReadAll', ChainInv, ChainInv', Careful, Settled', [Next]_vars, ~Booting,
           Moved, FileEnds
    PROVE  FileEndsNext
<1>1. /\ Inv /\ HeadersInv /\ RoomInv /\ BlocksWhole /\ Inv'
  BY DEF ReadAll, PlacedAll, IterInv, ChainInv
<1>2. Settled
  BY <1>1, SettledBefore
<1>3. ~Booting' /\ pc # "off" /\ pc' # "off"
  BY <1>1, BootSteps DEF Settled, Booting
<1>4. PlaceOn
  BY <1>2 DEF ChainInv, Settled
<1>5. /\ header \in Header /\ header' \in Header /\ header.block \in Blocks
      /\ CurrentCard \in Cards /\ CurrentCard' \in Cards
      /\ Grown(header, CurrentCard, header', CurrentCard')
  BY DEF Moved
<1>6. ASSUME NEW f \in Files, header'.files[f] = header.files[f]
      PROVE  EndsAt(header', CurrentCard', header'.files[f].endBlock, header'.files[f].endOffset)
  <2>1. EndsAt(header, CurrentCard, header.files[f].endBlock, header.files[f].endOffset)
    BY DEF FileEnds
  <2>2. header.files[f].endBlock \in Blocks
    BY <2>1 DEF EndsAt, Stands
  <2> QED
    BY <1>5, <1>6, <2>1, <2>2, GrownPlaces
<1>7. CASE ScanPlaces
  <2>1. /\ call.file \in Files /\ header'.block = header.block
        /\ header'.files[call.file].endBlock = header.block
        /\ header'.files[call.file].endOffset = header'.offset
        /\ \A g \in Files : g # call.file => header'.files[g] = header.files[g]
    BY <1>1, <1>7, PlacedHeader
  <2>2. header'.offset \in ChainOffsets(buffer') /\ cachedBlockDirty'
    BY <1>1, <1>4, <1>7, TailPlaces
  <2>3. CurrentCard'[header'.block] = buffer'
    <3>1. Careful'
      BY DEF Careful
    <3>2. CurrentCard'[header'.block] = TailBlock'
      BY <1>3, <3>1, CalmCardNext
    <3> QED
      BY <2>2, <3>2 DEF TailBlock
  <2>4. header'.offset \in Nat
    BY <1>5, StoreAssumption DEF Header
  <2>5. EndsAt(header', CurrentCard', header'.block, header'.offset)
    BY <1>5, <2>1, <2>2, <2>3, <2>4 DEF EndsAt, Stands
  <2> QED
    BY <1>6, <2>1, <2>5 DEF FileEndsNext
<1>8. ASSUME NEW F, Truncate(F)
      PROVE  FileEndsNext
  <2>1. header'.block = header.block
    BY <1>5, <1>8 DEF Truncate, Truncated, Header
  <2>2. \A f \in Files : \/ header'.files[f] = header.files[f]
                         \/ /\ header'.files[f].endBlock = header.block
                            /\ header'.files[f].endOffset = 0
    BY <1>5, <1>8 DEF Truncate, Truncated, Header
  <2>3. header.block \in Nat /\ FirstBlock <= header.block /\ header.block <= header'.block
    BY <1>5, <2>1, StoreAssumption DEF Blocks
  <2>4. EndsAt(header', CurrentCard', header.block, 0)
    BY <1>5, <2>1, <2>3, EndsAtStart
  <2> QED
    BY <1>6, <2>2, <2>4 DEF FileEndsNext
<1>9. CASE ~ScanPlaces /\ \A F : ~Truncate(F)
  <2>1. header'.files = header.files
    BY <1>1, <1>3, <1>9, QuietHeader
  <2> QED
    BY <1>6, <2>1 DEF FileEndsNext
<1> QED
  BY <1>7, <1>8, <1>9

\* The first moments of a store.
LEMMA FilesBoot ==
    ASSUME ReadAll', ChainInv', Careful, Settled', ~Booting', Empty(header')
    PROVE  FileEndsNext
<1>1. PlacedInv' /\ FirstRound' /\ pc' # "off"
  BY DEF ReadAll, PlacedAll, Settled, Booting
<1>2. FilesPlaced(header')
  BY <1>1 DEF PlacedInv, FilesPlaced
<1>3. header' \in Header /\ CurrentCard' \in Cards /\ header'.block \in Blocks
  <2>1. Careful'
    BY DEF Careful
  <2> QED
    BY <1>1, <2>1, CalmCardNext
<1>4. ASSUME NEW f \in Files
      PROVE  EndsAt(header', CurrentCard', header'.files[f].endBlock, header'.files[f].endOffset)
  <2>1. /\ header'.files[f].startBlock \in Nat /\ header'.files[f].endBlock \in Nat
        /\ FirstBlock \in Nat
    BY <1>3, FileNumbers, StoreAssumption
  <2>2. FirstBlock <= header'.files[f].endBlock /\ header'.files[f].endBlock <= header'.block
    BY <1>2, <2>1 DEF FilesPlaced
  <2>3. header'.files[f].endOffset = 0
    BY DEF Empty
  <2> QED
    BY <1>3, <2>1, <2>2, <2>3, EndsAtStart
<1> QED
  BY <1>4 DEF FileEndsNext

-----------------------------------------------------------------------------
(***************************************************************************)
(* The inductive invariant.                                                *)
(***************************************************************************)
Gotten == {got[i] : i \in DOMAIN got}

Way(t) == OnTheWay(header, CurrentCard, t, goal, Gotten, waived)
WayNext(t) == OnTheWay(header', CurrentCard', t, goal', Gotten', waived')

WayInv ==
    Careful /\ Settled =>
        /\ IF Booting THEN BootEmptyFiles ELSE FileEnds
        /\ Holding => Way(iter)
        /\ ipc = "iterate" => Way(cursor)

LEMMA WayPrimed ==
    /\ Way(iter)' <=> WayNext(iter')
    /\ Way(cursor)' <=> WayNext(cursor')
    /\ FileEnds' <=> FileEndsNext
BY DEF Way, WayNext, OnTheWay, FileEnds, FileEndsNext, Stands, EndsAt, Ahead, Found, InRange,
   Before, ChainOffsets, IsEntry

\* What a step starts from.
WayAll == ReadAll /\ GotInv /\ DirtySoon /\ ChainInv /\ WayInv

LEMMA WayStore ==
    ASSUME WayAll, ReadAll', ChainInv', Careful, Settled', StoreStep
    PROVE  WayInv'
<1>1. /\ ReadAll /\ ChainInv /\ WayInv /\ IterInv /\ Inv /\ HeadersInv /\ RoomInv /\ Inv' /\ TokensOK
  BY DEF WayAll, ReadAll, PlacedAll, IterInv
<1>2. [Next]_vars /\ TokensOK' /\ UNCHANGED <<iter, ipc, got, waived>>
      /\ goal' = {id \in goal : id >= cut'[iter.file]} /\ ipc # "iterate"
  BY <1>1, StoreStepInv DEF StoreStep, Between
<1>3. Settled
  BY <1>1, <1>2, SettledBefore
<1>4. Holding' <=> Holding
  BY <1>2 DEF Holding
<1>5. CASE Booting
  <2>1. ~Holding'
    BY <1>1, <1>4, <1>5 DEF TokensOK, Holding
  <2>2. BootEmptyFiles
    BY <1>1, <1>3, <1>5 DEF WayInv
  <2>3. (Booting' => BootEmptyFiles') /\ (~Booting' => Empty(header'))
    BY <1>1, <1>2, <1>5, <2>2, BootEnds
  <2>4. ~Booting' => FileEnds'
    BY <2>3, FilesBoot, WayPrimed
  <2> QED
    BY <1>2, <2>1, <2>3, <2>4 DEF WayInv
<1>6. CASE ~Booting
  <2>1. Moved /\ ~Booting'
    BY <1>1, <1>2, <1>6, StoreMoves
  <2>2. FileEnds /\ (Holding => Way(iter))
    BY <1>1, <1>3, <1>6 DEF WayInv
  <2>3. FileEndsNext
    BY <1>1, <1>2, <1>6, <2>1, <2>2, FilesStep
  <2>4. ASSUME Holding PROVE WayNext(iter')
    <3>1. iter \in Token /\ iter.file \in Files
      BY <1>1, <2>4 DEF TokensOK, Holding
    <3>2. OnTheWay(header, CurrentCard, iter, goal, Gotten, waived)
      BY <2>2, <2>4 DEF Way
    <3>3. OnTheWay(header', CurrentCard', iter, goal', Gotten, waived)
      <4>1. \A id : id \in goal' <=> id \in goal /\ id >= cut'[iter.file]
        BY <1>2
      <4> QED
        BY <2>1, <3>1, <3>2, <4>1, WayGrows DEF Moved
    <3>4. Gotten' = Gotten
      BY <1>2 DEF Gotten
    <3> QED
      BY <1>2, <3>3, <3>4 DEF WayNext
  <2> QED
    BY <1>2, <1>4, <2>1, <2>3, <2>4, WayPrimed DEF WayInv
<1> QED
  BY <1>5, <1>6

LEMMA WayStutters ==
    ASSUME WayInv, UNCHANGED allVars
    PROVE  WayInv'
BY DEF WayInv, allVars, vars, iterVars, Careful, Settled, NeverCut, FirstRound, NextId, Truncates,
   Booting, BootEmptyFiles, FileEnds, Holding, Way, Gotten, CurrentCard, DataWritten

\* A step of the reader changes nothing that can be found.
LEMMA WayReads ==
    ASSUME Inv, DirtySoon, ReaderStep, Careful, NEW t, t.file \in Files,
           header'.files[t.file].startBlock = header.files[t.file].startBlock,
           NEW G, NEW R, NEW W, OnTheWay(header, CurrentCard, t, G, R, W)
    PROVE  OnTheWay(header', CurrentCard', t, G, R, W)
<1>1. CurrentCard' = CurrentCard
  BY ReadCard
<1>2. /\ header'.block = header.block /\ header'.offset = header.offset
      /\ header'.files[t.file].version = header.files[t.file].version
  BY DEF ReaderStep
<1>3. \A b, o : /\ Stands(header', CurrentCard', b, o) <=> Stands(header, CurrentCard, b, o)
                /\ EndsAt(header', CurrentCard', b, o) <=> EndsAt(header, CurrentCard, b, o)
  BY <1>1, <1>2 DEF Stands, EndsAt
<1>4. \A b, q, id : /\ Found(header', CurrentCard', t.file, b, q, id)
                         <=> Found(header, CurrentCard, t.file, b, q, id)
                    /\ InRange(header', t, b) <=> InRange(header, t, b)
                    /\ Ahead(CurrentCard', t, b, q) <=> Ahead(CurrentCard, t, b, q)
  BY <1>1, <1>2 DEF Found, InRange, Ahead
<1> QED
  BY <1>3, <1>4 DEF OnTheWay

LEMMA WayQuiet ==
    ASSUME WayAll, Careful, Settled', ReaderStep, Holding' => WayNext(iter'),
           ipc' = "iterate" => WayNext(cursor')
    PROVE  WayInv'
<1>1. Inv /\ RoomInv /\ DirtySoon /\ WayInv
  BY DEF WayAll, ReadAll, PlacedAll, IterInv
<1>2. Settled /\ pc' = "idle" /\ pc = "idle"
  BY <1>1, ReadKeeps DEF ReaderStep
<1>3. FileEnds
  BY <1>1, <1>2 DEF WayInv, Booting
<1>4. CurrentCard' = CurrentCard
  BY <1>1, ReadCard
<1>5. FileEndsNext
  BY <1>3, <1>4 DEF FileEnds, FileEndsNext, EndsAt, Stands, ReaderStep
<1> QED
  BY <1>2, <1>5, WayPrimed DEF WayInv, Booting

\* What the reader has before its step.
LEMMA WayStarts ==
    ASSUME WayAll, Careful, Settled', ReaderStep
    PROVE  /\ Inv /\ DirtySoon /\ GotInv /\ IterInv /\ RoomInv /\ PlacedInv /\ EndsInv /\ Settled
           /\ header \in Header /\ header.block \in Blocks /\ CurrentCard \in Cards
           /\ FilesPlaced(header) /\ FileEnds
           /\ iter \in Token /\ cursor \in Token
           /\ Holding => iter.file \in Files /\ Way(iter)
           /\ ~Between => cursor.file \in Files
           /\ ipc = "iterate" => Way(cursor) /\ ~Done(cursor)
           /\ ipc = "held" => ~Done(iter)
<1>1. /\ ReadAll /\ ChainInv /\ WayInv /\ GotInv /\ DirtySoon /\ Inv /\ IterInv /\ RoomInv
      /\ PlacedInv /\ TokensOK /\ EndsInv
  BY DEF WayAll, ReadAll, PlacedAll, IterInv
<1>2. Settled /\ pc = "idle"
  BY <1>1, ReadKeeps DEF ReaderStep
<1>3. /\ header \in Header /\ header.block \in Blocks /\ CurrentCard \in Cards
      /\ FilesPlaced(header)
  BY <1>1, <1>2, CalmCard
<1>4. /\ FileEnds /\ (Holding => Way(iter)) /\ (ipc = "iterate" => Way(cursor))
  BY <1>1, <1>2 DEF WayInv, Booting
<1>5. /\ ipc = "iterate" => ~Done(cursor)
      /\ ipc = "held" => ~Done(iter)
  BY <1>1, <1>2 DEF GotInv
<1> QED
  BY <1>1, <1>2, <1>3, <1>4, <1>5 DEF TokensOK, Holding

\* The calls that give the application another token.
LEMMA WayCalls ==
    ASSUME WayAll, Careful, Settled', ReaderStep,
           (\E f \in Files : IteratorCreate(f)) \/ IteratorReopen \/ IteratorResume
           \/ IteratorMoveEnd
    PROVE  WayInv'
<1>1. /\ Inv /\ DirtySoon /\ header \in Header /\ header.block \in Blocks /\ CurrentCard \in Cards
      /\ FilesPlaced(header) /\ FileEnds /\ iter \in Token
      /\ Holding => iter.file \in Files /\ Way(iter)
  BY WayStarts
<1>2. UNCHANGED vars /\ ipc' = "none"
  BY DEF IteratorCreate, IteratorReopen, IteratorResume, IteratorMoveEnd
<1>3. header' = header /\ CurrentCard' = CurrentCard
  BY <1>2 DEF vars, CurrentCard, DataWritten
<1>4. ASSUME OnTheWay(header, CurrentCard, iter', goal', Gotten', waived')
      PROVE  WayInv'
  BY <1>2, <1>3, <1>4, WayQuiet DEF WayNext
<1>5. ASSUME NEW f \in Files, Begin(f)
      PROVE  WayInv'
  <2>1. iter' = NewToken(header, f) /\ goal' = ReadIds(header, CurrentCard, f) /\ waived' = {}
        /\ got' = <<>>
    BY <1>5 DEF Begin, Readable
  <2>2. Gotten' = {}
    BY <2>1 DEF Gotten
  <2>3. OnTheWay(header, CurrentCard, NewToken(header, f), ReadIds(header, CurrentCard, f), {}, {})
    BY <1>1, WayBegins DEF FileEnds
  <2> QED
    BY <1>4, <2>1, <2>2, <2>3
<1>6. CASE \E f \in Files : IteratorCreate(f)
  BY <1>5, <1>6 DEF IteratorCreate
<1>7. ASSUME iter # NoToken
      PROVE  iter.file \in Files /\ OnTheWay(header, CurrentCard, iter, goal, Gotten, waived)
  BY <1>1, <1>7 DEF Holding, Way
<1>8. CASE IteratorReopen
  <2> DEFINE x == header.files[iter.file]
  <2>1. iter # NoToken
    BY <1>8 DEF IteratorReopen
  <2>2. CASE Begin(iter.file)
    BY <1>5, <1>7, <2>1, <2>2
  <2>3. CASE /\ iter' = [iter EXCEPT !.lastBlock = x.endBlock, !.lastOffset = x.endOffset,
                                     !.size = x.size]
             /\ goal' = Readable(header, iter.file) \ waived
             /\ UNCHANGED <<got, waived>>
    <3>1. iter'.file = iter.file /\ iter'.block = iter.block /\ iter'.offset = iter.offset
          /\ iter'.lastBlock = x.endBlock /\ iter'.lastOffset = x.endOffset
      BY <1>1, <2>3 DEF Token
    <3>2. iter' \in Token
      <4>1. TokensOK'
        BY <1>8, IteratorCallsInv DEF WayAll, ReadAll, PlacedAll
      <4> QED
        BY <4>1 DEF TokensOK
    <3>3. EndsAt(header, CurrentCard, x.endBlock, x.endOffset)
      BY <1>1, <1>7, <2>1 DEF FileEnds
    <3>4. OnTheWay(header, CurrentCard, iter', ReadIds(header, CurrentCard, iter.file) \ waived,
                   Gotten, waived)
      <4> HIDE DEF x
      <4>1. iter.file \in Files /\ OnTheWay(header, CurrentCard, iter, goal, Gotten, waived)
        BY <1>7, <2>1
      <4> QED
        BY <1>1, <3>1, <3>2, <3>3, <4>1, WayReopens DEF x
    <3>5. Gotten' = Gotten
      BY <2>3 DEF Gotten
    <3> QED
      BY <1>4, <2>3, <3>4, <3>5 DEF Readable
  <2> QED
    BY <1>8, <2>2, <2>3 DEF IteratorReopen
<1>9. CASE IteratorResume
  <2>1. iter # NoToken
    BY <1>9 DEF IteratorResume
  <2>2. CASE Begin(iter.file)
    BY <1>5, <1>7, <2>1, <2>2
  <2>3. CASE UNCHANGED <<iter, got, goal, waived>>
    BY <1>4, <1>7, <2>1, <2>3 DEF Gotten
  <2> QED
    BY <1>9, <2>2, <2>3 DEF IteratorResume
<1>10. CASE IteratorMoveEnd
  <2>1. /\ iter' = [iter EXCEPT !.block = iter.lastBlock, !.offset = iter.lastOffset]
        /\ got' = got /\ waived' = waived \cup goal /\ goal' = {} /\ iter # NoToken
    BY <1>10 DEF IteratorMoveEnd
  <2>2. /\ iter'.file = iter.file /\ iter'.block = iter.lastBlock /\ iter'.offset = iter.lastOffset
        /\ iter'.lastBlock = iter.lastBlock /\ iter'.lastOffset = iter.lastOffset
    BY <1>1, <2>1 DEF Token
  <2>3. iter' \in Token
    BY <1>10, IteratorCallsInv DEF WayAll, ReadAll, PlacedAll, TokensOK
  <2>4. OnTheWay(header, CurrentCard, iter', {}, Gotten, waived \cup goal)
    BY <1>1, <1>7, <2>1, <2>2, <2>3, WayMovesEnd
  <2>5. Gotten' = Gotten
    BY <2>1 DEF Gotten
  <2> QED
    BY <1>4, <2>1, <2>4, <2>5
<1> QED
  BY <1>6, <1>8, <1>9, <1>10

\* A turn of the loop, with a token that is on its way after it.
LEMMA WayLoop ==
    ASSUME WayAll, Careful, Settled', ReaderStep, ~Between, UNCHANGED <<goal, waived>>,
           NEW t, t.file = cursor.file,
           ipc = "iterate" => OnTheWay(header, CurrentCard, t, goal, Gotten', waived),
           \/ (\E success : LoopEnds(t, success)) /\ (ipc = "recalc" => got' = got)
           \/ (\E k : LoopGoesOn(t, k)) /\ got' = got
    PROVE  WayInv'
<1>1. /\ Inv /\ DirtySoon /\ header \in Header /\ (Holding => iter.file \in Files /\ Way(iter))
      /\ cursor.file \in Files
  BY WayStarts
<1>2. \A f \in Files : header'.files[f].startBlock = header.files[f].startBlock
  BY <1>1 DEF LoopEnds, LoopGoesOn, Header, FileHeader
<1>3. ipc = "iterate" => WayNext(t)
  <2>1. ASSUME ipc = "iterate"
        PROVE  OnTheWay(header', CurrentCard', t, goal, Gotten', waived)
    <3>1. OnTheWay(header, CurrentCard, t, goal, Gotten', waived) /\ t.file \in Files
      BY <1>1, <2>1
    <3> QED
      BY <1>1, <1>2, <3>1, WayReads
  <2> QED
    BY <2>1 DEF WayNext
<1>4. got' = got /\ Holding => WayNext(iter)
  <2>1. ASSUME got' = got, Holding
        PROVE  WayNext(iter)
    <3>1. OnTheWay(header', CurrentCard', iter, goal, Gotten, waived)
      BY <1>1, <1>2, <2>1, WayReads DEF Way
    <3>2. Gotten' = Gotten
      BY <2>1 DEF Gotten
    <3> QED
      BY <3>1, <3>2 DEF WayNext
  <2> QED
    BY <2>1
<1>5. CASE (\E success : LoopEnds(t, success)) /\ (ipc = "recalc" => got' = got)
  <2>1. \/ ipc = "iterate" /\ iter' = t /\ ipc' \in {"held", "none"}
        \/ ipc = "recalc" /\ iter' = iter /\ ipc' \in {"recalc", "none"}
    BY <1>5 DEF LoopEnds
  <2> QED
    BY <1>3, <1>4, <1>5, <2>1, WayQuiet DEF Holding
<1>6. CASE (\E k : LoopGoesOn(t, k)) /\ got' = got
  <2>1. ipc' = ipc /\ cursor' = t /\ iter' = iter
    BY <1>6 DEF LoopGoesOn
  <2> QED
    BY <1>3, <1>4, <1>6, <2>1, WayQuiet DEF Holding
<1> QED
  BY <1>5, <1>6

\* The buffer of a turn is a block of the card.
LEMMA WayBuffer ==
    ASSUME Inv, Inv', Careful, DirtySoon, ReaderStep, NEW b \in Blocks, cachedBlockNumber' = b
    PROVE  buffer' = CurrentCard[b]
<1>1. CurrentCard = card /\ card' = card /\ ~cachedBlockDirty'
  BY ReadCard DEF ReaderStep
<1> QED
  BY <1>1 DEF Inv, CacheCoherent

LEMMA GottenMore ==
    ASSUME got \in Seq(Nat), NEW id, got' = Append(got, id)
    PROVE  Gotten \subseteq Gotten' /\ id \in Gotten'
<1>1. Len(got) \in Nat /\ DOMAIN got = 1..Len(got)
  OBVIOUS
<1>2. DOMAIN got' = 1..(Len(got) + 1) /\ got'[Len(got) + 1] = id
      /\ \A i \in DOMAIN got : got'[i] = got[i]
  OBVIOUS
<1>3. \A i \in DOMAIN got : i \in DOMAIN got'
  BY <1>1, <1>2
<1>4. Len(got) + 1 \in DOMAIN got'
  BY <1>1, <1>2
<1> QED
  BY <1>2, <1>3, <1>4 DEF Gotten

LEMMA WayFinds ==
    ASSUME WayAll, Inv', Careful, Settled', ReaderStep, IterateFinds
    PROVE  WayInv'
<1>1. /\ Inv /\ DirtySoon /\ GotInv /\ Settled /\ header \in Header /\ CurrentCard \in Cards
      /\ cursor \in Token /\ (ipc = "iterate" => Way(cursor) /\ ~Done(cursor))
  BY WayStarts
<1>2. ~Between /\ UNCHANGED <<goal, waived>> /\ cachedBlockNumber' = cursor.block
      /\ buffer' \in Block /\ cursor.offset \in Nat
  BY <1>1, Ensured DEF IterateFinds, Inv, TypeOK, Token
<1>3. PICK p \in Parse(buffer', cursor.offset) :
        /\ p.status = "GOOD" /\ buffer'[cursor.offset].file = cursor.file
        /\ LoopEnds(IF config.manualNext THEN cursor ELSE [cursor EXCEPT !.offset = @ + p.length],
                    TRUE)
        /\ got' = IF ipc = "iterate" /\ ~config.manualNext
                  THEN Append(got, buffer'[cursor.offset].id) ELSE got
  BY DEF IterateFinds
<1>4. p.length \in Nat
  BY <1>2, <1>3, ParseTypes
<1> DEFINE m == [cursor EXCEPT !.offset = @ + p.length]
           t == IF config.manualNext THEN cursor ELSE m
<1>5. /\ m \in Token /\ m.file = cursor.file /\ m.block = cursor.block
      /\ m.offset = cursor.offset + p.length
      /\ m.lastBlock = cursor.lastBlock /\ m.lastOffset = cursor.lastOffset
  BY <1>1, <1>4, TokenMoves, MovedOffset DEF MovedOn
<1>6. LoopEnds(t, TRUE)
  BY <1>3
<1> HIDE DEF m
<1>7. ipc = "iterate" => OnTheWay(header, CurrentCard, t, goal, Gotten', waived)
  <2> SUFFICES ASSUME ipc = "iterate"
               PROVE  OnTheWay(header, CurrentCard, t, goal, Gotten', waived)
    OBVIOUS
  <2>1. OnTheWay(header, CurrentCard, cursor, goal, Gotten, waived) /\ ~Done(cursor)
    BY <1>1 DEF Way
  <2>2. CASE config.manualNext
    BY <1>3, <2>1, <2>2 DEF Gotten
  <2>3. CASE ~config.manualNext
    <3>1. cursor.block \in Blocks
      BY <2>1 DEF OnTheWay, Stands
    <3>2. buffer' = CurrentCard[cursor.block]
      BY <1>1, <1>2, <3>1, WayBuffer
    <3>3. got' = Append(got, buffer'[cursor.offset].id) /\ got \in Seq(Nat)
      BY <1>1, <1>3, <2>3 DEF GotInv
    <3>4. Gotten \subseteq Gotten' /\ CurrentCard[cursor.block][cursor.offset].id \in Gotten'
      BY <3>2, <3>3, GottenMore
    <3>5. OnTheWay(header, CurrentCard, m, goal, Gotten', waived)
      <4> DEFINE S == Gotten'
                 c == CurrentCard
      <4>1. /\ Gotten \subseteq S /\ c[cursor.block][cursor.offset].id \in S /\ c \in Cards
            /\ p \in Parse(c[cursor.block], cursor.offset) /\ p.status # "SIZE"
            /\ OnTheWay(header, c, cursor, goal, Gotten, waived)
        BY <1>1, <1>3, <2>1, <3>2, <3>4
      <4> HIDE DEF S, c
      <4>2. OnTheWay(header, c, m, goal, S, waived)
        BY <1>1, <1>5, <2>1, <4>1, WayPasses
      <4> QED
        BY <4>2 DEF S, c
    <3> QED
      BY <2>3, <3>5
  <2> QED
    BY <2>2, <2>3
<1>8. t.file = cursor.file
  BY <1>5
<1>9. ipc = "recalc" => got' = got
  BY <1>3
<1> HIDE DEF t
<1> QED
  BY <1>2, <1>6, <1>7, <1>8, <1>9, WayLoop

LEMMA WayPassesOver ==
    ASSUME WayAll, Inv', Careful, Settled', ReaderStep, IteratePasses
    PROVE  WayInv'
<1>1. /\ Inv /\ DirtySoon /\ header \in Header /\ CurrentCard \in Cards
      /\ cursor \in Token /\ (ipc = "iterate" => Way(cursor) /\ ~Done(cursor))
  BY WayStarts
<1>2. ~Between /\ UNCHANGED <<goal, waived, got>> /\ cachedBlockNumber' = cursor.block
      /\ buffer' \in Block /\ cursor.offset \in Nat
  BY <1>1, Ensured DEF IteratePasses, Inv, TypeOK, Token
<1>3. PICK p \in Parse(buffer', cursor.offset) :
        LET t == [cursor EXCEPT !.offset = @ + p.length] IN
        /\ \/ p.status = "CRC"
           \/ p.status = "GOOD" /\ buffer'[cursor.offset].file # cursor.file
        /\ IF Done(t) THEN LoopEnds(t, FALSE) ELSE LoopGoesOn(t, config)
  BY DEF IteratePasses
<1>4. p.length \in Nat
  BY <1>2, <1>3, ParseTypes
<1> DEFINE t == [cursor EXCEPT !.offset = @ + p.length]
<1>5. /\ t \in Token /\ t.file = cursor.file /\ t.block = cursor.block
      /\ t.offset = cursor.offset + p.length
      /\ t.lastBlock = cursor.lastBlock /\ t.lastOffset = cursor.lastOffset
  BY <1>1, <1>4, TokenMoves, MovedOffset DEF MovedOn
<1>6. LoopEnds(t, FALSE) \/ LoopGoesOn(t, config)
  BY <1>3
<1> HIDE DEF t
<1>7. Gotten' = Gotten
  BY <1>2 DEF Gotten
<1>8. ipc = "iterate" => OnTheWay(header, CurrentCard, t, goal, Gotten', waived)
  <2> SUFFICES ASSUME ipc = "iterate"
               PROVE  OnTheWay(header, CurrentCard, t, goal, Gotten, waived)
    BY <1>7
  <2>1. OnTheWay(header, CurrentCard, cursor, goal, Gotten, waived) /\ ~Done(cursor)
    BY <1>1 DEF Way
  <2>2. cursor.block \in Blocks
    BY <2>1 DEF OnTheWay, Stands
  <2>3. buffer' = CurrentCard[cursor.block]
    BY <1>1, <1>2, <2>2, WayBuffer
  <2>4. p \in Parse(CurrentCard[cursor.block], cursor.offset)
    BY <1>3, <2>3
  <2>5. /\ p.status # "SIZE"
        /\ ~(p.status = "GOOD" /\ CurrentCard[cursor.block][cursor.offset].file = cursor.file)
    BY <1>3, <2>3
  <2> QED
    BY <1>1, <1>5, <2>1, <2>4, <2>5, WayPasses
<1> QED
  BY <1>2, <1>5, <1>6, <1>8, WayLoop

LEMMA WayMovesOnBlock ==
    ASSUME WayAll, Inv', Careful, Settled', ReaderStep, IterateMovesOn
    PROVE  WayInv'
<1>1. /\ Inv /\ DirtySoon /\ header \in Header /\ header.block \in Blocks /\ CurrentCard \in Cards
      /\ IterInv /\ RoomInv /\ PlacedInv /\ FirstRound
      /\ cursor \in Token /\ (ipc = "iterate" => Way(cursor) /\ ~Done(cursor))
  BY WayStarts DEF Settled
<1>2. ~Between /\ UNCHANGED <<goal, waived, got>> /\ cachedBlockNumber' = cursor.block
  BY <1>1, Ensured DEF IterateMovesOn
<1> DEFINE t == [cursor EXCEPT !.block = @ + 1, !.offset = 0]
           w == [t EXCEPT !.block = NextBlock(cursor.block)]
<1>3. PICK p \in Parse(buffer', cursor.offset) :
        /\ p.status = "SIZE"
        /\ \/ Done(t) /\ LoopEnds(t, FALSE)
           \/ ~Done(t) /\ (LoopEnds(w, FALSE) \/ \E c : LoopGoesOn(w, c))
  BY DEF IterateMovesOn
<1>4. /\ cursor.block \in Nat /\ cursor.lastBlock \in Nat
      /\ t \in Token /\ t.file = cursor.file /\ t.block = cursor.block + 1 /\ t.offset = 0
      /\ t.lastBlock = cursor.lastBlock /\ t.lastOffset = cursor.lastOffset
  <2>1. /\ cursor.block \in Nat /\ cursor.lastBlock \in Nat /\ cursor.block + 1 \in Nat
    BY <1>1, StoreAssumption DEF Token
  <2>2. t = [cursor EXCEPT !.block = cursor.block + 1, !.offset = 0]
    BY <1>1
  <2>3. t \in Token /\ t.file = cursor.file /\ t.lastBlock = cursor.lastBlock
    BY <1>1, <2>1, <2>2, TokenMoves
  <2>4. t.block = cursor.block + 1 /\ t.offset = 0 /\ t.lastOffset = cursor.lastOffset
    BY <1>1, <2>2 DEF Token
  <2> QED
    BY <2>1, <2>3, <2>4
<1>5. ~Done(t) => w = t
  <2>0. \A u \in Token : u = [u EXCEPT !.block = u.block]
    BY DEF Token
  <2>1. ~Done(t) => cursor.block + 1 <= cursor.lastBlock
    BY <1>4 DEF Done
  <2>2. ~Done(t) => NextBlock(cursor.block) = cursor.block + 1
    BY <1>1, <1>2, <2>1, NoWrap
  <2>3. t = [t EXCEPT !.block = t.block]
    BY <1>4, <2>0
  <2> QED
    BY <1>4, <2>2, <2>3
<1> HIDE DEF t, w
<1>6. LoopEnds(t, FALSE) \/ \E c : LoopGoesOn(t, c)
  BY <1>3, <1>5
<1>7. Gotten' = Gotten
  BY <1>2 DEF Gotten
<1>8. ipc = "iterate" => OnTheWay(header, CurrentCard, t, goal, Gotten', waived)
  <2> SUFFICES ASSUME ipc = "iterate"
               PROVE  OnTheWay(header, CurrentCard, t, goal, Gotten, waived)
    BY <1>7
  <2>1. OnTheWay(header, CurrentCard, cursor, goal, Gotten, waived) /\ ~Done(cursor)
    BY <1>1 DEF Way
  <2>2. cursor.block \in Blocks
    BY <2>1 DEF OnTheWay, Stands
  <2>3. buffer' = CurrentCard[cursor.block]
    BY <1>1, <1>2, <2>2, WayBuffer
  <2>4. p \in Parse(CurrentCard[cursor.block], cursor.offset) /\ p.status = "SIZE"
    BY <1>3, <2>3
  <2> QED
    BY <1>1, <1>4, <2>1, <2>4, WayMovesOn
<1> QED
  BY <1>2, <1>4, <1>6, <1>8, WayLoop

\* fkfs_file_iterate_move, with the entry still in the buffer.
LEMMA WayMoves ==
    ASSUME WayAll, Inv', Careful, Settled', ReaderStep, IterateMove
    PROVE  WayInv'
<1>1. /\ Inv /\ DirtySoon /\ GotInv /\ Settled /\ header \in Header /\ CurrentCard \in Cards
      /\ iter \in Token /\ (Holding => Way(iter)) /\ (ipc = "held" => ~Done(iter))
  BY WayStarts
<1>2. /\ ipc = "held" /\ ipc' = "none" /\ UNCHANGED <<vars, goal, waived>>
      /\ cachedBlockNumber' = iter.block /\ buffer' = buffer
      /\ buffer \in Block /\ iter.offset \in Nat
  BY <1>1 DEF IterateMove, vars, Inv, TypeOK, Token
<1>3. PICK p \in Parse(buffer, iter.offset) :
        /\ p.status # "SIZE"
        /\ iter' = [iter EXCEPT !.offset = @ + p.length]
        /\ got' = IF p.status = "GOOD" /\ buffer[iter.offset].file = iter.file
                  THEN Append(got, buffer[iter.offset].id) ELSE got
  BY DEF IterateMove
<1>4. p.length \in Nat
  BY <1>2, <1>3, ParseTypes
<1>5. /\ iter' \in Token /\ iter'.file = iter.file /\ iter'.block = iter.block
      /\ iter'.offset = iter.offset + p.length
      /\ iter'.lastBlock = iter.lastBlock /\ iter'.lastOffset = iter.lastOffset
  BY <1>1, <1>3, <1>4, TokenMoves, MovedOffset DEF MovedOn
<1>6. OnTheWay(header, CurrentCard, iter, goal, Gotten, waived) /\ ~Done(iter)
  BY <1>1, <1>2 DEF Way, Holding
<1>7. iter.block \in Blocks
  BY <1>6 DEF OnTheWay, Stands
<1>8. buffer = CurrentCard[iter.block]
  BY <1>1, <1>2, <1>7, WayBuffer
<1>9. /\ Gotten \subseteq Gotten'
      /\ p.status = "GOOD" /\ buffer[iter.offset].file = iter.file
           => buffer[iter.offset].id \in Gotten'
  <2>1. got \in Seq(Nat)
    BY <1>1 DEF GotInv
  <2>2. CASE p.status = "GOOD" /\ buffer[iter.offset].file = iter.file
    BY <1>3, <2>1, <2>2, GottenMore
  <2>3. CASE ~(p.status = "GOOD" /\ buffer[iter.offset].file = iter.file)
    BY <1>3, <2>3 DEF Gotten
  <2> QED
    BY <2>2, <2>3
<1>10. OnTheWay(header, CurrentCard, iter', goal, Gotten', waived)
  <2> DEFINE S == Gotten'
             c == CurrentCard
             u == iter'
  <2>1. /\ Gotten \subseteq S /\ c \in Cards
        /\ p.status = "GOOD" /\ c[iter.block][iter.offset].file = iter.file
             => c[iter.block][iter.offset].id \in S
        /\ p \in Parse(c[iter.block], iter.offset) /\ p.status # "SIZE"
        /\ OnTheWay(header, c, iter, goal, Gotten, waived)
    BY <1>1, <1>3, <1>6, <1>8, <1>9
  <2>2. /\ u \in Token /\ u.file = iter.file /\ u.block = iter.block
        /\ u.offset = iter.offset + p.length
        /\ u.lastBlock = iter.lastBlock /\ u.lastOffset = iter.lastOffset
    BY <1>5
  <2> HIDE DEF S, c, u
  <2>3. OnTheWay(header, c, u, goal, S, waived)
    BY <1>1, <1>6, <2>1, <2>2, WayPasses
  <2> QED
    BY <2>3 DEF S, c, u
<1>11. header' = header /\ CurrentCard' = CurrentCard
  BY <1>2 DEF vars, CurrentCard, DataWritten
<1> QED
  BY <1>2, <1>10, <1>11, WayQuiet DEF WayNext

LEMMA WayCuts ==
    ASSUME WayAll, Careful, Settled', ReaderStep, TruncateAt
    PROVE  WayInv'
<1>1. /\ Inv /\ DirtySoon /\ Settled /\ EndsInv /\ IterInv /\ header \in Header
      /\ CurrentCard \in Cards /\ iter \in Token /\ (Holding => Way(iter))
  BY WayStarts
<1>2. /\ iter # NoToken /\ UNCHANGED <<iter, got, waived>> /\ ipc' \in {"recalc", "none"}
      /\ goal' = goal \cap ReadIds(header', CurrentCard, iter.file)
  BY DEF TruncateAt, Readable
<1>3. OnTheWay(header, CurrentCard, iter, goal, Gotten, waived)
  BY <1>1, <1>2 DEF Way, Holding
<1> DEFINE f == iter.file
           h == header'
           c == CurrentCard
<1>4. /\ f \in Files /\ h \in Header /\ h.block = header.block /\ h.offset = header.offset
      /\ h.files[f] = [header.files[f] EXCEPT !.startBlock = iter.lastBlock, !.size = 0]
      /\ header.files[f] \in FileHeader
  BY <1>1, TruncateAtHeader DEF Header
<1>5. /\ h.files[f].version = header.files[f].version /\ h.files[f].startBlock = iter.lastBlock
      /\ h.files[f].endBlock = header.files[f].endBlock
      /\ h.files[f].endOffset = header.files[f].endOffset
  BY <1>4 DEF FileHeader
<1>6. \A b, q, id : Found(header, c, f, b, q, id) =>
                        Before(b, q, h.files[f].endBlock, h.files[f].endOffset)
  <2> SUFFICES ASSUME NEW b, NEW q, NEW id, Found(header, c, f, b, q, id)
               PROVE  Before(b, q, header.files[f].endBlock, header.files[f].endOffset)
    BY <1>5
  <2>1. PICK x : Lies(b, q, x) /\ Good(header, x) /\ x.file = f
    BY <1>1, <1>4, FoundLies
  <2> QED
    BY <1>1, <2>1 DEF EndsInv
<1>7. /\ c \in Cards /\ iter.file \in Files
      /\ OnTheWay(header, c, iter, goal, Gotten, waived)
  BY <1>1, <1>3, <1>4
<1>8. CurrentCard' = c
  BY <1>1, ReadCard
<1> HIDE DEF h, c
<1>9. OnTheWay(h, c, iter, goal \cap ReadIds(h, c, iter.file), Gotten, waived)
  BY <1>1, <1>4, <1>5, <1>6, <1>7, WayTruncates
<1>10. Gotten' = Gotten
  BY <1>2 DEF Gotten
<1>11. WayNext(iter')
  BY <1>2, <1>8, <1>9, <1>10 DEF WayNext, h, c
<1> QED
  BY <1>2, <1>11, WayQuiet

\* The other calls of the reader.
LEMMA WayRest ==
    ASSUME WayAll, Careful, Settled', ReaderStep,
           (\E c \in Configs : IterateCall(c)) \/ IterateReadFails \/ IteratorEnsure
    PROVE  WayInv'
<1>1. /\ Inv /\ DirtySoon /\ header \in Header
      /\ (Holding => iter.file \in Files /\ Way(iter)) /\ (ipc = "iterate" => Way(cursor))
  BY WayStarts
<1>2. CASE \E c \in Configs : IterateCall(c)
  <2>1. /\ Valid(iter) /\ ipc' = "iterate" /\ cursor' = iter
        /\ UNCHANGED <<vars, iter, got, goal, waived>>
    BY <1>2 DEF IterateCall
  <2>2. iter # NoToken
    BY <2>1 DEF Valid, NoToken
  <2>3. header' = header /\ CurrentCard' = CurrentCard /\ Gotten' = Gotten
    BY <2>1 DEF vars, CurrentCard, DataWritten, Gotten
  <2>4. WayNext(iter)
    BY <1>1, <2>1, <2>2, <2>3 DEF Way, WayNext, Holding
  <2> QED
    BY <2>1, <2>4, WayQuiet
<1>3. CASE IterateReadFails
  <2>1. ~Between /\ UNCHANGED <<got, goal, waived>> /\ LoopEnds(cursor, FALSE)
    BY <1>3 DEF IterateReadFails
  <2>2. ipc = "iterate" => OnTheWay(header, CurrentCard, cursor, goal, Gotten', waived)
    BY <1>1, <2>1 DEF Way, Gotten
  <2> QED
    BY <2>1, <2>2, WayLoop
<1>4. CASE IteratorEnsure
  <2>1. ipc = "held" /\ header' = header /\ UNCHANGED iterVars
    BY <1>4 DEF IteratorEnsure
  <2>2. OnTheWay(header', CurrentCard', iter, goal, Gotten, waived)
    BY <1>1, <2>1, WayReads DEF Way, Holding
  <2>3. WayNext(iter') /\ ipc' = "held"
    BY <2>1, <2>2 DEF WayNext, Gotten, iterVars
  <2> QED
    BY <2>3, WayQuiet
<1> QED
  BY <1>2, <1>3, <1>4

LEMMA WayStep ==
    ASSUME WayAll, ReadAll', ChainInv', Careful, Settled', [IterNext]_allVars
    PROVE  WayInv'
<1>1. /\ IterInv /\ Inv /\ WayInv /\ Inv'
  BY DEF WayAll, ReadAll, PlacedAll, IterInv
<1>2. CASE StoreStep
  BY <1>2, WayStore
<1>3. CASE UNCHANGED allVars
  BY <1>1, <1>3, WayStutters
<1>4. CASE IterCrash
  <2>1. "crash" \in Kinds /\ Spend({"crash"})
    BY <1>4 DEF IterCrash, Crash, Kinds
  <2> QED
    BY <1>1, <2>1, SpendOne DEF Settled, NeverCut
<1>5. CASE \/ \E f \in Files : IteratorCreate(f)
           \/ IteratorReopen \/ IteratorResume \/ IteratorMoveEnd
  BY <1>1, <1>5, IteratorCallsInv, WayCalls
<1>6. CASE IterateFinds
  BY <1>1, <1>6, IterateFindsInv, WayFinds
<1>7. CASE IteratePasses
  BY <1>1, <1>7, IteratePassesInv, WayPassesOver
<1>8. CASE IterateMovesOn
  BY <1>1, <1>8, IterateMovesOnInv, WayMovesOnBlock
<1>9. CASE (\E c \in Configs : IterateCall(c)) \/ IterateReadFails \/ IteratorEnsure
  <2>1. ReaderStep
    BY <1>1, <1>9, IterateCallsInv, IterateReadFailsInv
  <2> QED
    BY <1>9, <2>1, WayRest
<1>10. CASE IterateMove
  BY <1>1, <1>10, IterateCallsInv, WayMoves
<1>11. CASE TruncateAt
  BY <1>1, <1>11, TruncateAtInv, WayCuts
<1> QED
  BY <1>2, <1>3, <1>4, <1>5, <1>6, <1>7, <1>8, <1>9, <1>10, <1>11 DEF IterNext, IterLoop

LEMMA WayAllNext == WayAll /\ [IterNext]_allVars => WayAll'
<1> SUFFICES ASSUME WayAll, [IterNext]_allVars PROVE WayAll'
  OBVIOUS
<1>1. ReadAll /\ GotInv /\ DirtySoon /\ ChainInv /\ Inv /\ HeadersInv /\ IterInv
  BY DEF WayAll, ReadAll, PlacedAll, IterInv
<1>2. ReadAll' /\ GotInv' /\ Inv'
  BY <1>1, OrderNext DEF OrderAll, ReadAll, PlacedAll, IterInv
<1>3. [Next]_vars \/ ReaderStep
  BY <1>1, IterSteps
<1>4. DirtySoon' /\ ChainInv'
  BY <1>1, <1>2, <1>3, DirtyStep, ChainStep, ChainRead
<1>5. Careful' <=> Careful
  BY DEF Careful
<1>6. WayInv'
  <2>1. ASSUME Careful, Settled' PROVE WayInv'
    BY <1>2, <1>4, <2>1, WayStep
  <2> QED
    BY <1>5, <2>1 DEF WayInv
<1> QED
  BY <1>2, <1>4, <1>6 DEF WayAll

LEMMA WayAllInit == IterInit => WayAll
<1> SUFFICES ASSUME IterInit PROVE WayAll
  OBVIOUS
<1>1. ReadAll /\ GotInv
  BY OrderInit DEF OrderAll
<1>2. Init /\ iter = NoToken /\ ipc = "none"
  BY DEF IterInit
<1>3. ChainInv
  BY <1>2, WholeInit DEF Init, ChainInv, TailOn, PlaceOn, OffsetZero, ZeroHeader, NoSlot
<1>4. DirtySoon
  BY <1>2 DEF DirtySoon, Init, FreshCache
<1>5. Booting /\ BootEmptyFiles
  BY <1>2 DEF Init, Booting, BootEmptyFiles, NoSlot
<1>6. ~Holding
  BY <1>2 DEF Holding
<1> QED
  BY <1>1, <1>2, <1>3, <1>4, <1>5, <1>6 DEF WayAll, WayInv

\* fkfs_file_iterate leaves nothing out: a token that has come to its end has returned
\* all that was in the file when it was created or last reopened, also when the file
\* was appended to, truncated or truncated at the token in between and when reads
\* failed.  It holds for files that are synced with every append and writes that
\* succeed: otherwise fkfs_block_ensure may take the buffer from an append that was
\* never written.  After a power cut the tail may be put where no walk arrives, and
\* past 65535 truncates versions repeat.
THEOREM EntriesComplete ==
    IterSpec => [](Careful /\ NeverCut /\ FirstRound /\ Truncates < VersionLimit => IterComplete)
<1>1. WayAll => (Careful /\ NeverCut /\ FirstRound /\ Truncates < VersionLimit => IterComplete)
  <2> SUFFICES ASSUME WayAll, Careful, Settled, Idle, iter # NoToken, Done(iter),
                      NEW id \in goal, id \notin Gotten
               PROVE  FALSE
    BY DEF IterComplete, Settled, Gotten
  <2>1. Way(iter)
    BY DEF WayAll, WayInv, Holding
  <2>2. PICK b, q : /\ Found(header, CurrentCard, iter.file, b, q, id) /\ Ahead(CurrentCard, iter, b, q)
                    /\ Before(b, q, iter.lastBlock, iter.lastOffset)
    BY <2>1 DEF Way, OnTheWay
  <2>3. b \in Nat /\ q \in Nat
    BY <2>2, StoreAssumption DEF Found, Blocks, Offsets
  <2>4. iter.block \in Nat /\ iter.offset \in Nat /\ iter.lastBlock \in Nat /\ iter.lastOffset \in Nat
    BY DEF WayAll, ReadAll, PlacedAll, IterInv, TokensOK, Token
  <2> QED
    BY <2>2, <2>3, <2>4 DEF Ahead, Before, Done
<1> QED
  BY <1>1, WayAllInit, WayAllNext, PTL DEF IterSpec

-----------------------------------------------------------------------------
(***************************************************************************)
(* What the store promises on its own, with a reader beside it.            *)
(***************************************************************************)
\* The tail of the store is a place that a walk of its block arrives at, also when
\* the buffer is handed to iterators between two appends.
THEOREM TailReachableRead ==
    IterSpec => [](Careful /\ NeverCut => TailReachable)
<1>1. WayAll => (Careful /\ NeverCut => TailReachable)
  <2>1. ASSUME WayAll, Careful, NeverCut, pc = "idle", header.block \in Blocks
        PROVE  header.offset \in ChainOffsets(CurrentCard[header.block])
    BY <2>1, TailBlockIs DEF WayAll, ReadAll, PlacedAll, IterInv, ChainInv, TailOn
  <2> QED
    BY <2>1 DEF TailReachable
<1> QED
  BY <1>1, WayAllInit, WayAllNext, PTL DEF IterSpec

\* What was appended before a truncate is not read again, also when files are read,
\* and truncated at a token, in between.
THEOREM TruncatedHiddenRead ==
    IterSpec => [](NeverCut /\ Truncates < VersionLimit => TruncateHides)
<1>1. WayAll => (NeverCut /\ Truncates < VersionLimit => TruncateHides)
  BY HiddenEntries DEF WayAll, ReadAll, PlacedAll, IterInv, ChainInv
<1> QED
  BY <1>1, WayAllInit, WayAllNext, PTL DEF IterSpec
=============================================================================
