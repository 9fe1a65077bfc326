---------------------------- MODULE Nec86Proofs ----------------------------
(***************************************************************************)
(* Proofs about the pseudo-DMA engine of Nec86, for every FIFO, unit,      *)
(* table of rates and set of formats and blocks that its assumptions       *)
(* allow: the variables keep their types, padding is never dropped before  *)
(* the data in front of it has been played unless the transfer was started *)
(* with a stale INTRFLG, every interrupt finds what the handler needs, and *)
(* pdma_ptr follows where a frame is as long as on the board.  The         *)
(* divisions are the hard part: the first section says what they round to, *)
(* the second that every block has a positive number of chunks and a       *)
(* watermark in whole frames, the third is the invariant NInv with one     *)
(* lemma per action.  The last sections prove of programs that ask for     *)
(* rates of the table that chunks fit into the FIFO and are recorded       *)
(* before they are read.                                                   *)
(***************************************************************************)
EXTENDS Nec86, FiniteSetTheorems, WellFoundedInduction, TLAPS

-----------------------------------------------------------------------------
(* Numbers and rates.                                                      *)

\* A nonempty set of naturals has a least element.
LEMMA LeastExists ==
    ASSUME NEW S, S \subseteq Nat, S # {} PROVE \E x \in S : \A y \in S : x <= y
<1> DEFINE R == OpToRel(<, Nat)
<1>1. \E x \in S : \A y \in S : ~(<<y, x>> \in R)
    BY NatLessThanWellFounded, WFMin
<1>2. \A x, y \in Nat : y < x => <<y, x>> \in R
    BY DEF OpToRel
<1> HIDE DEF R
<1>3. PICK x \in S : \A y \in S : ~(<<y, x>> \in R)
    BY <1>1
<1>4. \A y \in S : ~(y < x)
    BY <1>2, <1>3
<1> QED BY <1>3, <1>4

\* A finite nonempty set of naturals has a greatest element: the least bound of an
\* enumeration of it, where the first prefix without a bound would follow one with.
LEMMA GreatestExists ==
    ASSUME NEW S, S \subseteq Nat, IsFiniteSet(S), S # {} PROVE \E x \in S : \A y \in S : y <= x
<1> DEFINE n == Cardinality(S)
           Above(k, f) == {b \in Nat : \A i \in 1 .. k : f[i] <= b}
<1>1. n \in Nat
    BY FS_CardinalityType
<1>2. PICK f : f \in Bijection(1 .. n, S)
    BY FS_CardinalityType DEF ExistsBijection
<1> HIDE DEF n
<1>3. f \in [1 .. n -> S] /\ \A s \in S : \E i \in 1 .. n : f[i] = s
    BY <1>2 DEF Bijection, Injection, Surjection
<1>4. Above(n, f) # {}
    <2> DEFINE Bad == {k \in 0 .. n : Above(k, f) = {}}
    <2>0. n \in 0 .. n
        BY <1>1
    <2> SUFFICES Bad = {}
        BY <2>0
    <2> SUFFICES ASSUME Bad # {} PROVE FALSE
        OBVIOUS
    <2>1. Bad \subseteq Nat
        BY <1>1
    <2>2. PICK k \in Bad : \A j \in Bad : k <= j
        BY <2>1, LeastExists
    <2>3. k # 0
        <3>1. 0 \in Above(0, f)
            OBVIOUS
        <3> QED BY <2>2, <3>1
    <2>4. k - 1 \in 0 .. n /\ k - 1 \notin Bad /\ k \in 1 .. n
        <3>1. k \in 0 .. n
            BY <2>2
        <3>2. k \in Nat /\ k - 1 \in 0 .. n /\ k \in 1 .. n
            BY <1>1, <2>3, <3>1
        <3>3. k - 1 \notin Bad
            <4>1. ~(k <= k - 1)
                BY <3>2
            <4> QED BY <2>2, <4>1
        <3> QED BY <3>2, <3>3
    <2>5. PICK b \in Nat : b \in Above(k - 1, f)
        BY <2>4
    <2>6. f[k] \in Nat
        BY <1>3, <2>4
    <2>7. (IF f[k] <= b THEN b ELSE f[k]) \in Above(k, f)
        <3>1. \A i \in 1 .. k : i \in 1 .. (k - 1) \/ i = k
            BY <2>4
        <3>2. \A i \in 1 .. (k - 1) : f[i] <= b
            BY <2>5
        <3>3. \A i \in 1 .. k : f[i] \in Nat
            <4>1. \A i \in 1 .. k : i \in 1 .. n
                BY <1>1, <2>4
            <4> QED BY <1>3, <4>1
        <3>4. CASE f[k] <= b
            BY <2>5, <3>1, <3>2, <3>4
        <3>5. CASE ~(f[k] <= b)
            <4>1. \A i \in 1 .. k : f[i] <= f[k]
                BY <2>5, <2>6, <3>1, <3>2, <3>3, <3>5
            <4> QED BY <2>6, <3>5, <4>1
        <3> QED BY <3>4, <3>5
    <2> QED BY <2>2, <2>7
<1>5. Above(n, f) \subseteq Nat
    OBVIOUS
<1>6. PICK x \in Above(n, f) : \A y \in Above(n, f) : x <= y
    BY <1>4, <1>5, LeastExists
<1>7. x \in Nat /\ \A s \in S : s \in Nat /\ s <= x
    BY <1>3, <1>6
<1>8. x \in S
    <2> SUFFICES ASSUME x \notin S PROVE FALSE
        OBVIOUS
    <2>1. \A s \in S : s <= x - 1
        BY <1>7
    <2>2. x - 1 \in Nat
        <3>1. PICK s \in S : TRUE
            OBVIOUS
        <3> QED BY <1>7, <2>1, <3>1
    <2>3. \A i \in 1 .. n : f[i] \in S
        BY <1>3
    <2>4. x - 1 \in Above(n, f)
        BY <2>1, <2>2, <2>3
    <2> QED BY <1>6, <1>7, <2>4
<1> QED BY <1>7, <1>8

\* nec86hw_rate_bits() finds an entry of the table whatever rate is asked for.
LEMMA RateBitsIsARate == \A sr \in SampleRates : RateBits(sr) \in HwRates
<1> TAKE sr \in SampleRates
<1> DEFINE above == {r \in HwRates : r >= sr}
<1>1. CASE above = {}
    <2>1. \E r \in HwRates : \A s \in HwRates : s <= r
        BY GreatestExists, RateAssumption
    <2>2. Highest(HwRates) \in HwRates
        BY <2>1 DEF Highest
    <2> QED BY <1>1, <2>2 DEF RateBits
<1>2. CASE above # {}
    <2>1. above \subseteq Nat
        BY RateAssumption
    <2>2. \E r \in above : \A s \in above : r <= s
        BY <1>2, <2>1, LeastExists
    <2>3. Lowest(above) \in above
        BY <2>2 DEF Lowest
    <2> QED BY <1>2, <2>3 DEF RateBits
<1> QED BY <1>1, <1>2

\* Division rounds down.
LEMMA DivIsFloor ==
    ASSUME NEW n \in Int, NEW d \in Nat \ {0}
    PROVE  /\ n \div d \in Int /\ d * (n \div d) <= n /\ n < d * (n \div d) + d
           /\ n >= 0 => n \div d \in Nat
OBVIOUS

\* (n + d - 1) / d rounds up.
LEMMA CeilDivIsCeiling ==
    ASSUME NEW n \in Nat, NEW d \in Nat \ {0}
    PROVE  /\ CeilDiv(n, d) \in Nat /\ n <= d * CeilDiv(n, d) /\ d * CeilDiv(n, d) < n + d
           /\ CeilDiv(n, d) = 0 <=> n = 0
<1>1. n + d - 1 \in Nat
    OBVIOUS
<1>2. CeilDiv(n, d) \in Nat /\ d * CeilDiv(n, d) <= n + d - 1 /\ n + d - 1 < d * CeilDiv(n, d) + d
    BY <1>1, DivIsFloor DEF CeilDiv
<1>3. n = 0 => CeilDiv(n, d) = 0
    <2> SUFFICES ASSUME n = 0, CeilDiv(n, d) >= 1 PROVE FALSE
        BY <1>2
    <2> d * CeilDiv(n, d) >= d
        BY <1>2
    <2> QED BY <1>2
<1>4. CeilDiv(n, d) = 0 => n = 0
    BY <1>2
<1> QED BY <1>2, <1>3, <1>4

\* A watermark is a positive number of whole frames of the board, and no more
\* than asked for unless that is less than the unit.
LEMMA WatermarkIsRounded ==
    ASSUME NEW wm \in Nat
    PROVE  /\ RoundWatermark(wm) \in Nat \ {0} /\ RoundWatermark(wm) % 4 = 0
           /\ RoundWatermark(wm) <= wm \/ RoundWatermark(wm) = Unit
           /\ wm <= RoundWatermark(wm) + (Unit - 1)
<1>1. Unit \in Nat \ {0} /\ Unit % 4 = 0
    BY SizeAssumption
<1>2. CASE wm < Unit
    BY <1>1, <1>2 DEF RoundWatermark
<1>3. CASE ~(wm < Unit)
    <2>1. RoundWatermark(wm) = wm - (wm % Unit)
        BY <1>3 DEF RoundWatermark
    <2>2. wm % Unit \in 0 .. (Unit - 1) /\ wm = Unit * (wm \div Unit) + (wm % Unit)
        BY <1>1
    <2>3. wm \div Unit \in Nat
        BY <1>1, DivIsFloor
    <2>4. Unit = 4 * (Unit \div 4) /\ Unit \div 4 \in Nat
        BY <1>1
    <2> DEFINE q == wm \div Unit
               u == Unit \div 4
    <2>5. RoundWatermark(wm) = Unit * q
        BY <1>1, <2>1, <2>2, <2>3
    <2> HIDE DEF q, u
    <2>6. q \in Nat /\ u \in Nat /\ Unit = 4 * u
        BY <2>3, <2>4 DEF q, u
    <2>7. Unit * q = 4 * (u * q) /\ u * q \in Nat
        BY <2>6
    <2>8. RoundWatermark(wm) % 4 = 0
        BY <2>5, <2>7
    <2> QED BY <2>1, <2>2, <1>3, <2>8, <1>1
<1> QED BY <1>2, <1>3

-----------------------------------------------------------------------------
(* Blocks and chunks.                                                      *)

\* The format is one that nec86hw_set_params() leaves.
Formats ==
    /\ precision \in Precisions /\ channels \in Channels
    /\ orate \in Rate /\ orate.hw = RateBits(orate.sr)
    /\ irate \in Rate /\ irate.hw = RateBits(irate.sr)

\* What nec86hw_set_output_block() and nec86hw_set_input_block() leave, and every
\* chunk after them: a block has chunks exactly as long as it has frames.
BlockType(b) ==
    /\ b \in [count : Nat, nchunk : Nat, watermark : Nat]
    /\ b.watermark % 4 = 0
    /\ b.count > 0 <=> b.nchunk > 0

\* Frames are of 1, 2 or 4 bytes, those of the board of 2 or 4.
LEMMA FrameSizes ==
    ASSUME Formats
    PROVE  /\ FrameBytes \in {1, 2, 4} /\ HwFrameBytes \in {2, 4}
           /\ channels = 2 => FrameBytes = HwFrameBytes
           /\ orate.sr \in Nat \ {0} /\ orate.hw \in Nat \ {0}
           /\ irate.sr \in Nat \ {0} /\ irate.hw \in Nat \ {0}
<1>1. precision \in {8, 16} /\ channels \in {1, 2}
    BY FormatAssumption DEF Formats
<1>2. precision \div 8 \in {1, 2}
    BY <1>1
<1>3. FrameBytes \in {1, 2, 4} /\ HwFrameBytes \in {2, 4} /\ (channels = 2 => FrameBytes = HwFrameBytes)
    BY <1>1, <1>2 DEF FrameBytes, HwFrameBytes
<1> QED BY <1>3, RateAssumption DEF Formats, Rate

\* A block makes at least one frame of the board.
LEMMA BlocksAreLong ==
    ASSUME Formats, NEW cc \in Blocks, NEW r \in {orate, irate}
    PROVE  /\ cc \div FrameBytes \in Nat \ {0}
           /\ (cc \div FrameBytes) * r.hw \in Nat /\ (cc \div FrameBytes) * r.hw >= r.sr
<1> DEFINE fb == FrameBytes
           f == cc \div fb
<1>1. fb \in {1, 2, 4} /\ r.sr \in Nat \ {0} /\ r.hw \in Nat \ {0}
    BY FrameSizes
<1>2. cc \in Nat \ {0}
    BY FormatAssumption
<1>3. cc \div 4 \in Nat /\ f \in Nat /\ f >= cc \div 4
    <2> HIDE DEF fb
    <2> QED BY <1>1, <1>2
<1>4. (cc \div 4) * r.hw >= r.sr
    BY BlockAssumption DEF Formats, Rate
<1> HIDE DEF f
<1> DEFINE c == cc \div 4
           h == r.hw
<1>5. c \in Nat /\ h \in Nat \ {0} /\ c * h >= r.sr
    BY <1>1, <1>3, <1>4
<1>6. f >= c
    BY <1>3
<1> HIDE DEF c, h
<1>7. f * h >= c * h /\ f * h \in Nat
    BY <1>3, <1>5, <1>6
<1>8. f # 0
    BY <1>1, <1>3, <1>5, <1>7
<1> QED BY <1>1, <1>3, <1>5, <1>7, <1>8 DEF f, h

\* hw_blocksize: what a block is on the board, playing and recording.
PlayedBytes(cc) == (((cc \div FrameBytes) * orate.hw) \div orate.sr) * HwFrameBytes
RecordedBytes(cc) == CeilDiv((cc \div FrameBytes) * irate.hw, irate.sr) * HwFrameBytes

\* nec86hw_set_output_block() never divides by zero: the block makes a frame, it has
\* a chunk, and the watermark, a third of the buffer at most, leaves room for it.
\* Its chunks, all of a length, would fit behind what is left at the watermark.
LEMMA OutputBlockType ==
    ASSUME Formats, NEW cc \in Blocks
    PROVE  /\ BlockType(OutputBlock(cc)) /\ OutputBlock(cc).count = cc \div FrameBytes
           /\ 3 * OutputBlock(cc).watermark <= BuffSize
           /\ PlayedBytes(cc) <= OutputBlock(cc).nchunk * (BuffSize - OutputBlock(cc).watermark)
<1> DEFINE frames == cc \div FrameBytes
           size == ((frames * orate.hw) \div orate.sr) * HwFrameBytes
           n == CeilDiv(size * (RatioMax + RatioOut), BuffSize * RatioMax)
           m == (size * RatioOut) \div (n * RatioMax)
           wm == RoundWatermark(m)
<1>1. frames \in Nat \ {0} /\ size \in Nat \ {0}
    <2>1. frames \in Nat \ {0} /\ frames * orate.hw \in Nat /\ frames * orate.hw >= orate.sr
        BY BlocksAreLong
    <2>2. orate.sr \in Nat \ {0} /\ HwFrameBytes \in {2, 4}
        BY FrameSizes
    <2> DEFINE q == (frames * orate.hw) \div orate.sr
    <2>3. q \in Nat \ {0}
        <3>1. q \in Nat /\ frames * orate.hw < orate.sr * q + orate.sr
            <4> DEFINE a == frames * orate.hw
                       d == orate.sr
            <4>1. a \in Int /\ a >= 0 /\ d \in Nat \ {0}
                BY <2>1, <2>2
            <4> HIDE DEF a, d
            <4>2. a \div d \in Nat /\ a < d * (a \div d) + d
                BY <4>1, DivIsFloor
            <4> QED BY <4>2 DEF a, d
        <3>2. q = 0 => orate.sr * q = 0
            BY <2>2
        <3> QED BY <2>1, <2>2, <3>1, <3>2
    <2> HIDE DEF q
    <2> QED BY <2>1, <2>2, <2>3 DEF q
<1> HIDE DEF frames, size
<1>2. BuffSize \in Nat \ {0} /\ Unit \in Nat \ {0} /\ 3 * Unit <= BuffSize
    BY SizeAssumption
<1>3. n \in Nat \ {0} /\ size * 150 <= (BuffSize * 100) * n
    BY <1>1, <1>2, CeilDivIsCeiling DEF RatioMax, RatioOut
<1> HIDE DEF n
<1>4. m \in Nat /\ 3 * m <= BuffSize
    <2>1. m \in Nat /\ (n * 100) * m <= size * 50
        <3> DEFINE a == size * RatioOut
                   d == n * RatioMax
        <3>1. a = size * 50 /\ d = n * 100 /\ a \in Int /\ a >= 0 /\ d \in Nat \ {0}
            BY <1>1, <1>3 DEF RatioMax, RatioOut
        <3> HIDE DEF a, d
        <3>2. a \div d \in Nat /\ d * (a \div d) <= a
            BY <3>1, DivIsFloor
        <3>3. m = a \div d
            BY DEF a, d
        <3> QED BY <3>1, <3>2, <3>3
    <2> HIDE DEF m
    <2>2. (n * 100) * (3 * m) <= (n * 100) * BuffSize
        <3>1. (n * 100) * (3 * m) = 3 * ((n * 100) * m) /\ (BuffSize * 100) * n = (n * 100) * BuffSize
            BY <1>2, <1>3, <2>1
        <3> QED BY <1>1, <1>2, <1>3, <2>1, <3>1
    <2>3. SUFFICES ASSUME 3 * m > BuffSize PROVE FALSE
        BY <1>2, <2>1
    <2>4. (n * 100) * (3 * m) > (n * 100) * BuffSize
        BY <1>2, <1>3, <2>1, <2>3
    <2> QED BY <1>2, <1>3, <2>1, <2>2, <2>4
<1> HIDE DEF m
<1>5. wm \in Nat /\ wm % 4 = 0 /\ BuffSize - wm \in Nat \ {0} /\ 3 * wm <= BuffSize
    BY <1>2, <1>4, WatermarkIsRounded
<1> HIDE DEF wm
<1> DEFINE room == BuffSize - wm
           k == CeilDiv(size, room)
           c == IF size + wm > BuffSize THEN k ELSE n
<1>6. k \in Nat \ {0} /\ size <= room * k
    BY <1>1, <1>5, CeilDivIsCeiling
<1> HIDE DEF k
<1>7. OutputBlock(cc) = [count |-> frames, watermark |-> wm, nchunk |-> c]
    BY DEF OutputBlock, frames, size, n, m, wm, k
<1>8. c \in Nat \ {0} /\ size <= c * room
    <2>1. CASE size + wm > BuffSize
        BY <1>1, <1>5, <1>6, <2>1
    <2>2. CASE ~(size + wm > BuffSize)
        <3>1. c = n /\ size <= room /\ room \in Nat
            BY <1>1, <1>2, <1>5, <2>2
        <3> HIDE DEF room, c
        <3>2. room <= n * room
            BY <1>3, <3>1
        <3> QED BY <1>1, <1>3, <3>1, <3>2
    <2> QED BY <2>1, <2>2
<1>9. PlayedBytes(cc) = size
    BY DEF PlayedBytes, size, frames
<1> HIDE DEF c
<1> QED BY <1>1, <1>5, <1>7, <1>8, <1>9 DEF BlockType, frames

\* The same for nec86hw_set_input_block(), whose watermark is not below the average
\* chunk.
LEMMA InputBlockType ==
    ASSUME Formats, NEW cc \in Blocks
    PROVE  /\ BlockType(InputBlock(cc)) /\ InputBlock(cc).count = cc \div FrameBytes
           /\ RecordedBytes(cc) < InputBlock(cc).nchunk * (InputBlock(cc).watermark + 1)
<1> DEFINE frames == cc \div FrameBytes
           most == RoundWatermark((BuffSize * RatioIn) \div RatioMax)
           size == CeilDiv(frames * irate.hw, irate.sr) * HwFrameBytes
           n == CeilDiv(size, most)
           wm == RoundWatermark((size \div n) + (Unit - 1))
<1>1. frames \in Nat \ {0} /\ frames * irate.hw \in Nat /\ frames * irate.hw >= irate.sr
    BY BlocksAreLong
<1>2. irate.sr \in Nat \ {0} /\ HwFrameBytes \in {2, 4}
    BY FrameSizes
<1>3. size \in Nat \ {0}
    <2> DEFINE a == frames * irate.hw
               q == CeilDiv(a, irate.sr)
    <2>1. a \in Nat /\ a # 0
        BY <1>1, <1>2
    <2> HIDE DEF a
    <2>2. q \in Nat \ {0}
        BY <1>2, <2>1, CeilDivIsCeiling
    <2> HIDE DEF q
    <2> QED BY <1>2, <2>2 DEF q, a
<1>4. BuffSize \in Nat /\ Unit \in Nat \ {0}
    BY SizeAssumption
<1>5. most \in Nat \ {0}
    <2>1. (BuffSize * RatioIn) \div RatioMax \in Nat
        BY <1>4 DEF RatioIn, RatioMax
    <2> QED BY <2>1, WatermarkIsRounded
<1> HIDE DEF size, frames, most
<1>6. n \in Nat \ {0}
    BY <1>3, <1>5, CeilDivIsCeiling
<1> HIDE DEF n
<1> DEFINE s == size \div n
<1>7. s \in Nat /\ size < n * s + n
    BY <1>3, <1>6, DivIsFloor
<1>8. wm \in Nat /\ wm % 4 = 0 /\ s <= wm
    <2> HIDE DEF s
    <2>1. s + (Unit - 1) \in Nat
        BY <1>4, <1>7
    <2>2. wm = RoundWatermark(s + (Unit - 1))
        BY DEF s
    <2> QED BY <1>4, <1>7, <2>1, <2>2, WatermarkIsRounded
<1>9. InputBlock(cc) = [count |-> frames, nchunk |-> n, watermark |-> wm]
    BY DEF InputBlock, frames, most, size, n, wm
<1>10. RecordedBytes(cc) = size
    BY DEF RecordedBytes, size, frames
<1> HIDE DEF wm, s
<1>11. size < n * (wm + 1)
    <2>1. n * s <= n * wm /\ n * s \in Nat /\ n * wm \in Nat
        BY <1>6, <1>7, <1>8
    <2>2. n * (wm + 1) = n * wm + n
        BY <1>6, <1>8
    <2> QED BY <1>3, <1>6, <1>7, <2>1, <2>2
<1> QED BY <1>1, <1>6, <1>8, <1>9, <1>10, <1>11 DEF BlockType, frames

\* A chunk takes no more frames than the block has, and all of them if it is the last.
LEMMA ChunkType ==
    ASSUME NEW b, BlockType(b), b.nchunk > 0
    PROVE  /\ ChunkFrames(b) \in Nat
           /\ BlockType(NextChunk(b)) /\ NextChunk(b).watermark = b.watermark
           /\ NextChunk(b).count = b.count - ChunkFrames(b)
<1> DEFINE c == b.count
           n == b.nchunk
           q == c \div n
<1>1. c \in Nat \ {0} /\ n \in Nat \ {0}
    BY DEF BlockType
<1>2. NextChunk(b) = [count |-> c - q, nchunk |-> n - 1, watermark |-> b.watermark]
    BY DEF NextChunk, ChunkFrames
<1>3. ChunkFrames(b) = q
    BY DEF ChunkFrames
<1> HIDE DEF c, n
<1>4. q \in Nat /\ n * q <= c
    BY <1>1, DivIsFloor
<1>5. n = 1 => q = c
    BY <1>1
<1> HIDE DEF q
<1>6. n > 1 => q < c
    <2> SUFFICES ASSUME n > 1, q >= c PROVE FALSE
        BY <1>1, <1>4
    <2>1. n * q >= 2 * q
        BY <1>1, <1>4
    <2> QED BY <1>1, <1>4, <2>1
<1>7. q <= c /\ c - q \in Nat /\ n - 1 \in Nat /\ (c - q > 0 <=> n - 1 > 0)
    BY <1>1, <1>4, <1>5, <1>6
<1> QED BY <1>2, <1>3, <1>4, <1>7 DEF BlockType, c

\* The loop of the resampling output function ends with conv_acc not negative.
LEMMA OutputChunkOfType ==
    ASSUME Formats, acc \in Nat, NEW b, BlockType(b), b.nchunk > 0
    PROVE  OutputChunkOf(b).hw \in Nat /\ OutputChunkOf(b).acc \in Nat
<1> DEFINE frames == ChunkFrames(b)
           end == frames * orate.hw
           sr == orate.sr
<1>1. frames \in Nat /\ sr \in Nat \ {0} /\ orate.hw \in Nat
    BY ChunkType, FrameSizes
<1>2. CASE ~resamp.out
    BY <1>1, <1>2 DEF OutputChunkOf, OutputDirect
<1>3. CASE resamp.out
    <2>1. end \in Nat
        BY <1>1
    <2>2. OutputChunkOf(b) = LET n == IF acc > end THEN 0 ELSE ((end - acc) \div sr) + 1
                             IN  [hw |-> n, acc |-> acc + n * sr - end]
        BY <1>3 DEF OutputChunkOf, OutputResampled
    <2> HIDE DEF end, sr
    <2>3. CASE acc > end
        BY <1>1, <2>1, <2>2, <2>3
    <2>4. CASE ~(acc > end)
        <3> DEFINE q == (end - acc) \div sr
        <3>1. end - acc \in Nat
            BY <2>1, <2>4
        <3>2. q \in Nat /\ end - acc < sr * q + sr
            <4> DEFINE a == end - acc
            <4>1. a \in Nat
                BY <3>1
            <4> HIDE DEF a
            <4>2. a \div sr \in Nat /\ a < sr * (a \div sr) + sr
                BY <1>1, <4>1, DivIsFloor
            <4> QED BY <4>2 DEF a
        <3>3. OutputChunkOf(b) = [hw |-> q + 1, acc |-> acc + (q + 1) * sr - end]
            BY <2>2, <2>4
        <3> HIDE DEF q
        <3>4. (q + 1) * sr = sr * q + sr /\ sr * q + sr \in Nat
            BY <1>1, <3>2
        <3> QED BY <2>1, <3>2, <3>3, <3>4
    <2> QED BY <2>3, <2>4
<1> QED BY <1>2, <1>3

\* So does that of the input function.
LEMMA InputChunkOfType ==
    ASSUME Formats, acc \in Nat, NEW b, BlockType(b), b.nchunk > 0
    PROVE  InputChunkOf(b).hw \in Nat /\ InputChunkOf(b).acc \in Nat
<1> DEFINE frames == ChunkFrames(b)
           h == irate.hw
           sr == irate.sr
           last == acc + (frames - 1) * h
<1>1. frames \in Nat /\ sr \in Nat \ {0} /\ h \in Nat
    BY ChunkType, FrameSizes
<1>2. CASE ~resamp.in
    BY <1>1, <1>2 DEF InputChunkOf, InputDirect
<1>3. CASE resamp.in
    <2>1. InputChunkOf(b) = LET n == IF last > sr THEN CeilDiv(last, sr) - 1 ELSE 0
                            IN  [hw |-> n, acc |-> last - n * sr + h]
        BY <1>3 DEF InputChunkOf, InputResampled
    <2>2. last \in Int /\ last + h \in Nat
        <3> HIDE DEF frames, h
        <3>1. frames * h \in Nat /\ (frames - 1) * h = frames * h - h
            BY <1>1
        <3> QED BY <1>1, <3>1
    <2> HIDE DEF frames, h, sr, last
    <2>3. CASE last > sr
        <3> DEFINE q == CeilDiv(last, sr)
        <3>1. q \in Nat \ {0} /\ sr * q < last + sr
            <4>1. last \in Nat /\ last # 0
                BY <1>1, <2>2, <2>3
            <4> QED BY <1>1, <4>1, CeilDivIsCeiling
        <3>2. InputChunkOf(b) = [hw |-> q - 1, acc |-> last - (q - 1) * sr + h]
            BY <2>1, <2>3
        <3> HIDE DEF q
        <3>3. (q - 1) * sr = sr * q - sr /\ sr * q \in Nat
            BY <1>1, <3>1
        <3> QED BY <1>1, <2>2, <3>1, <3>2, <3>3
    <2>4. CASE ~(last > sr)
        <3>1. InputChunkOf(b) = [hw |-> 0, acc |-> last - 0 * sr + h]
            BY <2>1, <2>4
        <3> QED BY <1>1, <2>2, <3>1
    <2> QED BY <2>3, <2>4
<1> QED BY <1>2, <1>3

-----------------------------------------------------------------------------
(* The inductive invariant.                                                *)

\* What runs: the board and intr_busy are on between a start and its end, and the
\* FIFO's direction is pdma_mode.  INTRFLG stays set after the end, but not without
\* sc_intr and pdma_mode.
Engine ==
    /\ ctl.run <=> audio = "running"
    /\ busy <=> audio = "running"
    /\ audio = "running" => mode = IF ctl.rec THEN "INPUT" ELSE "OUTPUT"
    /\ mode # "NONE" => handler
    /\ ctl.flg => mode # "NONE"

\* A block has chunks as long as it has frames; the one that is recorded always
\* has some, because its callback starts the next, and it keeps them when it is
\* halted with INTRFLG set.
BlockInv ==
    /\ BlockType(Block)
    /\ mode = "INPUT" /\ (audio = "running" \/ ctl.flg) => count > 0

\* What is in the FIFO: whole frames; while playing, padding only behind a chunk
\* that was padded, and as much of it as the register says, so that an interrupt
\* that is the transfer's own does not come before the last byte of data.
PadInv ==
    /\ audio = "running" /\ mode = "INPUT" => ~padded
    /\ audio = "running" /\ mode = "OUTPUT" =>
           /\ data % HwFrameBytes = 0 /\ pad % HwFrameBytes = 0
           /\ intrblk = watermark
           /\ ~padded => pad = 0
           /\ padded /\ data > 0 => pad = watermark /\ (ctl.flg => stale)

\* The inductive invariant.
NInv == TypeOK /\ Formats /\ Engine /\ BlockInv /\ PadInv /\ PointerFollows

\* nec86hw_output_chunk() leaves whole frames in the FIFO, padding only if it says
\* so and then a whole watermark of it, and pdma_ptr where it should be.
LEMMA OutputChunkStep ==
    ASSUME Formats, acc \in Nat, NEW b, BlockType(b), b.nchunk > 0,
           NEW left \in Int, NEW before \in Nat, OutputChunk(b, left, before)
    PROVE  /\ BlockType(Block') /\ watermark' = b.watermark
           /\ count' \in Nat /\ nchunk' \in Nat /\ watermark' \in Nat
           /\ acc' \in Nat /\ data' \in Nat
           /\ before % HwFrameBytes = 0 => data' % HwFrameBytes = 0
           /\ pad' \in Nat /\ pad' % HwFrameBytes = 0 /\ padded' \in BOOLEAN /\ rest' \in Int
           /\ ~padded' => pad' = 0
           /\ padded' => pad' = watermark'
           /\ channels = 2 /\ ~resamp.out /\ left = b.count * FrameBytes => rest' = count' * FrameBytes
<1> DEFINE hw == OutputChunkOf(b).hw
           nbyte == hw * HwFrameBytes
           c == NextChunk(b)
<1>1. hw \in Nat /\ OutputChunkOf(b).acc \in Nat
    BY OutputChunkOfType
<1>2. HwFrameBytes \in {2, 4} /\ FrameBytes \in {1, 2, 4}
    BY FrameSizes
<1>3. nbyte \in Nat /\ nbyte % HwFrameBytes = 0
    <2> HIDE DEF hw
    <2> QED BY <1>1, <1>2
<1>4. /\ count' = c.count /\ nchunk' = c.nchunk /\ watermark' = c.watermark
      /\ acc' = OutputChunkOf(b).acc
      /\ data' = before + nbyte
      /\ pad' = IF nbyte <= b.watermark THEN b.watermark ELSE 0
      /\ padded' = (nbyte <= b.watermark)
      /\ rest' = left - nbyte
    BY DEF OutputChunk, SetBlock
<1>5. BlockType(c) /\ c.watermark = b.watermark /\ c.count = b.count - ChunkFrames(b) /\ ChunkFrames(b) \in Nat
    BY ChunkType
<1>6. b.watermark \in Nat /\ b.watermark % 4 = 0 /\ b.count \in Nat
    BY DEF BlockType
<1>7. Block' = c
    BY <1>4 DEF Block, NextChunk
<1>8. count' \in Nat /\ nchunk' \in Nat /\ watermark' \in Nat
    BY <1>4, <1>5 DEF BlockType
<1>9. ASSUME channels = 2, ~resamp.out, left = b.count * FrameBytes PROVE rest' = count' * FrameBytes
    <2>1. hw = ChunkFrames(b) /\ FrameBytes = HwFrameBytes
        BY <1>9, FrameSizes DEF OutputChunkOf, OutputDirect
    <2> DEFINE k == ChunkFrames(b)
    <2>2. rest' = b.count * FrameBytes - k * FrameBytes /\ count' = b.count - k
        BY <1>4, <1>5, <1>9, <2>1
    <2>3. k \in Nat
        BY <1>5
    <2> HIDE DEF k
    <2> QED BY <1>2, <1>6, <2>2, <2>3
<1> HIDE DEF nbyte
<1>10. data' \in Nat /\ (before % HwFrameBytes = 0 => data' % HwFrameBytes = 0)
    BY <1>2, <1>3, <1>4
<1>11. b.watermark % HwFrameBytes = 0
    BY <1>2, <1>6
<1>12. /\ pad' \in Nat /\ pad' % HwFrameBytes = 0 /\ padded' \in BOOLEAN
       /\ ~padded' => pad' = 0
       /\ padded' => pad' = watermark'
    <2>1. CASE nbyte <= b.watermark
        <3>1. padded' = TRUE /\ pad' = b.watermark
            BY <1>4, <2>1
        <3> QED BY <1>4, <1>5, <1>6, <1>11, <3>1
    <2>2. CASE ~(nbyte <= b.watermark)
        <3>1. pad' = 0
            BY <1>4, <2>2
        <3>2. padded' = FALSE
            <4>1. padded' = (nbyte <= b.watermark)
                BY <1>4
            <4>2. (nbyte <= b.watermark) = FALSE
                BY <1>3, <1>6, <2>2
            <4> QED BY <4>1, <4>2
        <3>3. 0 % HwFrameBytes = 0
            BY <1>2
        <3> QED BY <3>1, <3>2, <3>3
    <2> QED BY <2>1, <2>2
<1>13. rest' \in Int
    BY <1>3, <1>4
<1> QED BY <1>1, <1>4, <1>5, <1>7, <1>8, <1>9, <1>10, <1>12, <1>13

\* nec86hw_input_chunk() advances pdma_ptr with pdma_count.
LEMMA InputChunkStep ==
    ASSUME NInv, count > 0, InputChunk(Block)
    PROVE  /\ BlockType(Block') /\ watermark' \in Nat /\ count' \in Nat /\ nchunk' \in Nat
           /\ acc' \in Nat /\ data' \in Nat /\ rest' \in Int
           /\ rest = count * FrameBytes => rest' = count' * FrameBytes
           /\ UNCHANGED <<pad, padded>>
<1> DEFINE c == NextChunk(Block)
           k == ChunkFrames(Block)
<1>1. BlockType(Block) /\ Block.nchunk > 0 /\ Block.count = count
    BY DEF NInv, BlockInv, BlockType, Block
<1>2. Formats /\ acc \in Nat /\ data \in Nat
    BY DEF NInv, TypeOK
<1>3. InputChunkOf(Block).hw \in Nat /\ InputChunkOf(Block).acc \in Nat
    BY <1>1, <1>2, InputChunkOfType
<1>4. BlockType(c) /\ c.count = count - k /\ k \in Nat
    BY <1>1, ChunkType
<1>5. /\ count' = c.count /\ nchunk' = c.nchunk /\ watermark' = c.watermark
      /\ acc' = InputChunkOf(Block).acc
      /\ data' = IF InputBytes(Block) <= data THEN data - InputBytes(Block) ELSE 0
      /\ rest' = rest - k * FrameBytes
      /\ UNCHANGED <<pad, padded>>
    BY <1>1 DEF InputChunk, SetBlock
<1>6. Block' = c
    BY <1>5 DEF Block, NextChunk
<1>7. HwFrameBytes \in {2, 4} /\ FrameBytes \in {1, 2, 4}
    BY <1>2, FrameSizes
<1>8. InputBytes(Block) \in Nat
    BY <1>1, <1>3, <1>7 DEF InputBytes
<1>9. count \in Nat /\ rest \in Int
    BY DEF NInv, TypeOK
<1>10. rest' \in Int /\ (rest = count * FrameBytes => rest' = count' * FrameBytes)
    <2>1. rest' = rest - k * FrameBytes /\ count' = count - k
        BY <1>4, <1>5, <1>9
    <2> HIDE DEF k
    <2>2. k \in Nat
        BY <1>4 DEF k
    <2> QED BY <1>7, <1>9, <2>1, <2>2
<1>11. data' \in Nat
    BY <1>2, <1>5, <1>8
<1>12. count' \in Nat /\ nchunk' \in Nat /\ watermark' \in Nat
    BY <1>4, <1>5 DEF BlockType
<1> QED BY <1>3, <1>4, <1>5, <1>6, <1>10, <1>11, <1>12

\* nec86hw_pdma_output(), from the audio layer and from the callback.
LEMMA PdmaOutputStep ==
    ASSUME NInv, NEW cc \in Blocks, NEW before \in Nat, busy => before % HwFrameBytes = 0,
           NEW fifoctl \in Fifoctl, fifoctl.rec = FALSE, busy => fifoctl.run = TRUE,
           fifoctl.flg => stale', audio' = "running",
           PdmaOutput(cc, before, fifoctl), UNCHANGED <<format, resamp>>,
           turn' \in BOOLEAN, stale' \in BOOLEAN
    PROVE  NInv'
<1> DEFINE b == Fresh(TRUE, cc)
           old == IF busy THEN before ELSE 0
<1>1. Formats /\ acc \in Nat /\ busy \in BOOLEAN
    BY DEF NInv, TypeOK
<1>2. cc \div FrameBytes \in Nat \ {0}
    BY <1>1, BlocksAreLong
<1>3. BlockType(b) /\ b.count = cc \div FrameBytes /\ b.nchunk > 0
    <2>1. BlockType(Block) /\ Block.count = count
        BY DEF NInv, BlockInv, Block
    <2>2. BlockType(b) /\ b.count = cc \div FrameBytes
        BY <1>1, <2>1, OutputBlockType DEF Fresh
    <2> HIDE DEF b
    <2>3. b.count > 0
        BY <1>2, <2>2
    <2> QED BY <2>2, <2>3 DEF BlockType
<1>4. HwFrameBytes \in {2, 4} /\ FrameBytes \in {1, 2, 4} /\ cc \in Nat
    BY <1>1, FrameSizes, FormatAssumption
<1>5. old \in Nat /\ old % HwFrameBytes = 0
    BY <1>4
<1>6. /\ cc % FrameBytes = 0
      /\ handler' = TRUE /\ mode' = "OUTPUT" /\ busy' = TRUE
      /\ OutputChunk(b, cc, old)
      /\ WriteWatermark(watermark')
    BY DEF PdmaOutput
<1>7. ctl' \in Fifoctl /\ ctl'.run /\ ~ctl'.rec /\ (ctl'.flg => stale')
    <2>1. CASE busy
        BY <2>1 DEF PdmaOutput, Fifoctl
    <2>2. CASE ~busy
        BY <2>2 DEF PdmaOutput, Fifoctl
    <2> QED BY <2>1, <2>2
<1>8. intrblk' = watermark' /\ pan' = pan
    BY <1>6, <1>7 DEF WriteWatermark
<1>9. cc = b.count * FrameBytes
    <2> DEFINE fb == FrameBytes
    <2>1. fb \in {1, 2, 4} /\ cc \in Nat /\ cc % fb = 0
        BY <1>4, <1>6
    <2> HIDE DEF fb
    <2>2. cc = (cc \div fb) * fb
        BY <2>1
    <2> QED BY <1>3, <2>2 DEF fb
<1> HIDE DEF b, old
<1>10. /\ BlockType(Block') /\ count' \in Nat /\ nchunk' \in Nat /\ watermark' \in Nat
       /\ acc' \in Nat /\ data' \in Nat /\ data' % HwFrameBytes = 0
       /\ pad' \in Nat /\ pad' % HwFrameBytes = 0 /\ padded' \in BOOLEAN /\ rest' \in Int
       /\ ~padded' => pad' = 0
       /\ padded' => pad' = watermark'
       /\ channels = 2 /\ ~resamp.out => rest' = count' * FrameBytes
    BY <1>1, <1>3, <1>4, <1>5, <1>6, <1>9, OutputChunkStep
<1>11. TypeOK'
    <2>1. audio' \in Phases /\ mode' \in Modes
        BY <1>6 DEF Phases, Modes
    <2>2. /\ precision' \in Precisions /\ channels' \in Channels /\ orate' \in Rate /\ irate' \in Rate
          /\ resamp' \in [out : BOOLEAN, in : BOOLEAN]
        BY DEF NInv, TypeOK, format
    <2>3. busy' \in BOOLEAN /\ handler' \in BOOLEAN /\ pan' \in BOOLEAN
        BY <1>6, <1>8 DEF NInv, TypeOK
    <2> QED BY <1>7, <1>8, <1>10, <2>1, <2>2, <2>3 DEF TypeOK
<1>12. Formats' /\ HwFrameBytes' = HwFrameBytes /\ FrameBytes' = FrameBytes
    BY DEF NInv, Formats, format, HwFrameBytes, FrameBytes
<1>13. Engine'
    BY <1>6, <1>7 DEF Engine
<1>14. PadInv' /\ BlockInv' /\ PointerFollows'
    BY <1>6, <1>7, <1>8, <1>10, <1>12 DEF PadInv, BlockInv, PointerFollows, format
<1> QED BY <1>11, <1>12, <1>13, <1>14 DEF NInv

LEMMA StoppedStep ==
    ASSUME NInv, Open \/ Close \/ Commit \/ Halt PROVE NInv'
<1>1. CASE Open \/ Close
    <2>1. /\ audio' \in {"open", "closed"} /\ busy' = FALSE /\ mode' = "NONE" /\ data' = 0 /\ pad' = 0
          /\ handler' = FALSE /\ acc' \in {acc, 0}
          /\ ctl' = [ctl EXCEPT !.run = FALSE, !.enb = FALSE, !.flg = FALSE]
          /\ UNCHANGED <<format, resamp, dma, intrblk, pan, history>>
        BY <1>1 DEF Open, Close, EmptyFifo
    <2>2. ctl' \in Fifoctl /\ ~ctl'.run /\ ~ctl'.flg
        BY <2>1 DEF NInv, TypeOK, Fifoctl
    <2>3. TypeOK' /\ Formats'
        <3>1. audio' \in Phases /\ mode' \in Modes /\ busy' \in BOOLEAN /\ handler' \in BOOLEAN
            BY <2>1 DEF Phases, Modes
        <3>2. acc' \in Nat /\ data' \in Nat /\ pad' \in Nat
            BY <2>1 DEF NInv, TypeOK
        <3> QED BY <2>1, <2>2, <3>1, <3>2 DEF NInv, TypeOK, Formats, format, dma, history
    <2>4. Block' = Block
        BY <2>1 DEF Block, dma
    <2> QED BY <2>1, <2>2, <2>3, <2>4 DEF NInv, Engine, BlockInv, BlockType, PadInv, PointerFollows
<1>2. CASE Commit
    <2>1. TypeOK' /\ Formats' /\ audio' = "ready" /\ audio = "set"
        BY <1>2 DEF Commit, NInv, TypeOK, Formats, format, dma, hardware, history, Phases
    <2>2. Engine'
        BY <1>2, <2>1 DEF Commit, NInv, Engine, hardware
    <2>3. BlockInv'
        BY <1>2, <2>1 DEF Commit, NInv, BlockInv, BlockType, Block, dma, hardware
    <2> QED BY <2>1, <2>2, <2>3 DEF NInv, PadInv, PointerFollows
<1>3. CASE Halt
    <2>1. /\ audio' = "done" /\ busy' = FALSE
          /\ ctl' = [ctl EXCEPT !.run = FALSE, !.enb = FALSE] /\ stale' = FALSE
          /\ UNCHANGED <<format, resamp, acc, mode, dma, handler, data, pad, intrblk, pan, turn>>
        BY <1>3 DEF Halt
    <2>2. ctl' \in Fifoctl /\ ~ctl'.run /\ ctl'.flg = ctl.flg
        BY <2>1 DEF NInv, TypeOK, Fifoctl
    <2>3. TypeOK' /\ Formats'
        <3>1. audio' \in Phases /\ busy' \in BOOLEAN /\ stale' \in BOOLEAN
            BY <2>1 DEF Phases
        <3> QED BY <2>1, <2>2, <3>1 DEF NInv, TypeOK, Formats, format, dma
    <2>4. BlockInv'
        BY <1>3, <2>1, <2>2 DEF Halt, NInv, BlockInv, BlockType, Block, dma
    <2> QED BY <2>1, <2>2, <2>3, <2>4 DEF NInv, Engine, PadInv, PointerFollows
<1> QED BY <1>1, <1>2, <1>3

LEMMA SetParamsStep ==
    ASSUME NInv, NEW p \in Precisions, NEW ch \in Channels, NEW sr \in SampleRates, SetParams(p, ch, sr)
    PROVE  NInv'
<1>1. RateBits(sr) \in HwRates
    BY RateBitsIsARate
<1>2. orate' = [sr |-> sr, hw |-> RateBits(sr)] /\ irate' = orate'
    BY DEF SetParams
<1> DEFINE r == RateBits(sr)
<1>3. /\ orate' \in Rate /\ orate'.sr = sr /\ orate'.hw = r
      /\ irate' \in Rate /\ irate'.sr = sr /\ irate'.hw = r
    BY <1>1, <1>2 DEF Rate
<1>4. Formats'
    BY <1>3 DEF Formats, SetParams
<1>5. TypeOK'
    BY <1>3 DEF NInv, TypeOK, SetParams, Phases, dma, hardware, history
<1>6. Engine' /\ audio' = "set"
    BY DEF NInv, Engine, SetParams, hardware
<1>7. BlockInv'
    BY DEF SetParams, NInv, BlockInv, BlockType, Block, dma, hardware
<1> QED BY <1>4, <1>5, <1>6, <1>7 DEF NInv, PadInv, PointerFollows

LEMMA InitTransferStep ==
    ASSUME NInv, NEW output \in BOOLEAN, NEW cc \in Blocks, InitTransfer(output, cc)
    PROVE  NInv'
<1> DEFINE b == IF output THEN OutputBlock(cc) ELSE InputBlock(cc)
<1>1. BlockType(b) /\ b.count > 0
    BY OutputBlockType, InputBlockType, BlocksAreLong DEF NInv
<1>2. /\ audio' = "init" /\ busy' = FALSE /\ data' = 0 /\ pad' = 0
      /\ SetBlock(b) /\ WriteWatermark(b.watermark)
      /\ ctl' = [ctl EXCEPT !.run = FALSE, !.enb = FALSE, !.rec = ~output]
      /\ UNCHANGED <<format, resamp, acc, mode, padded, rest, handler, history>>
    BY DEF InitTransfer, EmptyFifo
<1> HIDE DEF b
<1>3. ctl' \in Fifoctl /\ ~ctl'.run /\ ctl'.flg = ctl.flg
    BY <1>2 DEF NInv, TypeOK, Fifoctl
<1>4. intrblk' = intrblk /\ pan' \in BOOLEAN
    BY <1>2, <1>3 DEF WriteWatermark
<1>5. Block' = b /\ count' = b.count /\ count' \in Nat /\ nchunk' \in Nat /\ watermark' \in Nat
    BY <1>1, <1>2 DEF BlockType, SetBlock, Block
<1>6. Formats' /\ TypeOK'
    BY <1>2, <1>3, <1>4, <1>5 DEF NInv, TypeOK, Formats, format, history, Phases
<1>7. Engine'
    BY <1>2, <1>3 DEF NInv, Engine
<1> QED BY <1>1, <1>2, <1>5, <1>6, <1>7 DEF NInv, BlockInv, PadInv, PointerFollows

LEMMA StartOutputStep == ASSUME NInv, NEW cc \in Blocks, StartOutput(cc) PROVE NInv'
<1>1. data \in Nat /\ ctl \in Fifoctl /\ ctl.rec = FALSE /\ ~busy
    BY DEF NInv, TypeOK, Fifoctl, Engine, StartOutput
<1>2. turn' \in BOOLEAN /\ stale' \in BOOLEAN /\ stale' = ctl.flg
    BY <1>1 DEF NInv, TypeOK, StartOutput, Fifoctl
<1> QED BY <1>1, <1>2, PdmaOutputStep DEF StartOutput

LEMMA StartInputStep == ASSUME NInv, NEW cc \in Blocks, StartInput(cc) PROVE NInv'
<1> DEFINE b == Fresh(FALSE, cc)
<1>1. Formats /\ BlockType(Block) /\ Block.count = count
    BY DEF NInv, BlockInv, Block, StartInput
<1>2. BlockType(b) /\ b.count = cc \div FrameBytes
    BY <1>1, InputBlockType DEF Fresh
<1>3. /\ audio' = "running" /\ cc % FrameBytes = 0
      /\ handler' = TRUE /\ mode' = "INPUT" /\ busy' = TRUE
      /\ SetBlock(b) /\ padded' = FALSE /\ rest' = cc
      /\ ctl' = [ctl EXCEPT !.rec = TRUE, !.enb = TRUE, !.run = TRUE] /\ stale' = ctl.flg
      /\ data' = 0 /\ pad' = 0
      /\ WriteWatermark(watermark')
      /\ UNCHANGED <<format, resamp, acc, turn>>
    BY DEF StartInput, EmptyFifo
<1> HIDE DEF b
<1>4. ctl' \in Fifoctl /\ ctl'.run /\ ctl'.rec
    BY <1>3 DEF NInv, TypeOK, Fifoctl
<1>5. intrblk' = watermark' /\ pan' = pan
    BY <1>3, <1>4 DEF WriteWatermark
<1>6. Block' = b /\ count' = b.count /\ count' \in Nat /\ nchunk' \in Nat /\ watermark' \in Nat
    BY <1>2, <1>3 DEF BlockType, SetBlock, Block
<1>7. cc \in Nat /\ FrameBytes' = FrameBytes /\ FrameBytes \in {1, 2, 4}
    BY <1>1, <1>3, FrameSizes, FormatAssumption DEF format, FrameBytes
<1>8. rest' = count' * FrameBytes'
    <2> DEFINE fb == FrameBytes
    <2>1. fb \in {1, 2, 4} /\ cc \in Nat /\ cc % fb = 0
        BY <1>3, <1>7
    <2> HIDE DEF fb
    <2>2. cc = (cc \div fb) * fb
        BY <2>1
    <2> QED BY <1>2, <1>3, <1>6, <1>7, <2>2 DEF fb
<1>9. Formats' /\ TypeOK'
    <2>1. rest' \in Int /\ data' \in Nat /\ pad' \in Nat /\ intrblk' \in Nat
        BY <1>3, <1>5, <1>6, <1>7
    <2>4. padded' \in BOOLEAN
        BY <1>3
    <2>2. audio' \in Phases /\ mode' \in Modes /\ handler' \in BOOLEAN /\ busy' \in BOOLEAN
        BY <1>3 DEF Phases, Modes
    <2>3. pan' \in BOOLEAN /\ turn' \in BOOLEAN /\ stale' \in BOOLEAN /\ acc' \in Nat
        BY <1>3, <1>5 DEF NInv, TypeOK, Fifoctl
    <2> QED BY <1>3, <1>4, <1>6, <2>1, <2>2, <2>3, <2>4 DEF NInv, TypeOK, Formats, format
<1>10. Engine'
    BY <1>3, <1>4 DEF Engine
<1>11. count' > 0
    <2>1. cc \div FrameBytes \in Nat \ {0}
        BY <1>1, BlocksAreLong
    <2> QED BY <1>2, <1>6, <2>1
<1> QED BY <1>2, <1>11, <1>3, <1>6, <1>8, <1>9, <1>10 DEF NInv, BlockInv, PadInv, PointerFollows

-----------------------------------------------------------------------------
\* What any interrupt finds, also one that a halted transfer has left.
LEMMA InterruptFinds ==
    ASSUME NInv, Interrupt
    PROVE  /\ ctl \in Fifoctl /\ ctl.flg /\ mode \in {"INPUT", "OUTPUT"} /\ handler
           /\ Cleared \in Fifoctl /\ Cleared.run = ctl.run /\ ~Cleared.flg /\ Cleared.rec = ctl.rec
           /\ Enabled \in Fifoctl /\ Enabled.run = ctl.run /\ ~Enabled.flg /\ Enabled.rec = ctl.rec
           /\ BlockType(Block) /\ Block.count = count /\ Block.nchunk = nchunk
           /\ Block.watermark = watermark /\ (count > 0 => Block.nchunk > 0)
           /\ mode = "INPUT" => count > 0
<1>1. ctl \in Fifoctl /\ ctl.flg
    BY DEF NInv, TypeOK, Interrupt
<1>2. /\ Cleared \in Fifoctl /\ Cleared.run = ctl.run /\ ~Cleared.flg /\ Cleared.rec = ctl.rec
      /\ Enabled \in Fifoctl /\ Enabled.run = ctl.run /\ ~Enabled.flg /\ Enabled.rec = ctl.rec
    BY <1>1 DEF Cleared, Enabled, Fifoctl
<1>3. mode \in {"INPUT", "OUTPUT"} /\ handler
    BY <1>1 DEF NInv, TypeOK, Modes, Engine
<1>4. /\ BlockType(Block) /\ Block.count = count /\ Block.nchunk = nchunk /\ Block.watermark = watermark
      /\ count > 0 => Block.nchunk > 0
    BY DEF NInv, BlockInv, BlockType, Block
<1>5. mode = "INPUT" => count > 0
    BY <1>1 DEF NInv, BlockInv
<1> QED BY <1>1, <1>2, <1>3, <1>4, <1>5

\* While a transfer runs, it finds the board running.
LEMMA RunningFinds ==
    ASSUME NInv, audio = "running"
    PROVE  /\ busy /\ ctl.run /\ (ctl.rec <=> mode = "INPUT") /\ (~ctl.rec <=> mode = "OUTPUT")
BY DEF NInv, TypeOK, Engine

\* What the board holds when a chunk is to be written.
LEMMA LeftInFifo ==
    ASSUME NInv, mode = "OUTPUT"
    PROVE  /\ (IF padded THEN 0 ELSE data + pad) \in Nat
           /\ audio = "running" => (IF padded THEN 0 ELSE data + pad) % HwFrameBytes = 0
<1>1. HwFrameBytes \in {2, 4}
    BY FrameSizes DEF NInv
<1>2. data \in Nat /\ pad \in Nat
    BY DEF NInv, TypeOK
<1>3. audio = "running" => data % HwFrameBytes = 0 /\ pad % HwFrameBytes = 0
    BY DEF NInv, PadInv
<1> QED BY <1>1, <1>2, <1>3

LEMMA IntrOutputStep == ASSUME NInv, IntrOutput PROVE NInv'
<1> DEFINE before == IF padded THEN 0 ELSE data + pad
<1>1. /\ Interrupt /\ mode = "OUTPUT" /\ count > 0
      /\ OutputChunk(Block, rest, before) /\ ctl' = Enabled
      /\ UNCHANGED <<audio, format, resamp, mode, busy, handler, intrblk, pan, history>>
    BY DEF IntrOutput
<1>2. /\ Enabled \in Fifoctl /\ Enabled.run = ctl.run /\ Enabled.rec = ctl.rec /\ ~Enabled.flg
      /\ BlockType(Block) /\ Block.count = count /\ Block.nchunk > 0 /\ Block.watermark = watermark
    BY <1>1, InterruptFinds
<1>3. before \in Nat /\ (audio = "running" => before % HwFrameBytes = 0)
    BY <1>1, LeftInFifo
<1>4. Formats /\ acc \in Nat /\ rest \in Int /\ (audio = "running" => intrblk = watermark)
    BY <1>1 DEF NInv, TypeOK, PadInv
<1> HIDE DEF before
<1>5. /\ BlockType(Block') /\ watermark' = watermark
      /\ count' \in Nat /\ nchunk' \in Nat /\ watermark' \in Nat
      /\ acc' \in Nat /\ data' \in Nat /\ (before % HwFrameBytes = 0 => data' % HwFrameBytes = 0)
      /\ pad' \in Nat /\ pad' % HwFrameBytes = 0 /\ padded' \in BOOLEAN /\ rest' \in Int
      /\ ~padded' => pad' = 0
      /\ padded' => pad' = watermark'
      /\ channels = 2 /\ ~resamp.out /\ rest = count * FrameBytes => rest' = count' * FrameBytes
    BY <1>1, <1>2, <1>3, <1>4, OutputChunkStep
<1>6. Formats' /\ HwFrameBytes' = HwFrameBytes /\ FrameBytes' = FrameBytes
    BY <1>1, <1>4 DEF Formats, format, HwFrameBytes, FrameBytes
<1>7. TypeOK'
    BY <1>1, <1>2, <1>5 DEF NInv, TypeOK, format, history
<1>8. Engine'
    BY <1>1, <1>2 DEF NInv, Engine
<1>9. PadInv' /\ BlockInv'
    BY <1>1, <1>2, <1>3, <1>4, <1>5, <1>6 DEF PadInv, BlockInv
<1>10. PointerFollows'
    BY <1>1, <1>2, <1>5, <1>6 DEF NInv, PointerFollows, format
<1> QED BY <1>6, <1>7, <1>8, <1>9, <1>10 DEF NInv

LEMMA IntrOutputDoneStep == ASSUME NInv, NEW cc \in Blocks, IntrOutputDone(cc) PROVE NInv'
<1> DEFINE before == IF padded THEN 0 ELSE data + pad
<1>1. /\ audio = "running" /\ Interrupt /\ mode = "OUTPUT"
      /\ PdmaOutput(cc, before, Cleared)
      /\ UNCHANGED <<audio, stale>> /\ turn' = ~turn /\ UNCHANGED <<format, resamp>>
    BY DEF IntrOutputDone, Callback
<1>2. /\ Cleared \in Fifoctl /\ Cleared.run /\ ~Cleared.rec /\ ~Cleared.flg
    BY <1>1, InterruptFinds, RunningFinds
<1>3. before \in Nat /\ before % HwFrameBytes = 0
    BY <1>1, LeftInFifo
<1>4. Cleared.run = TRUE /\ Cleared.rec = FALSE /\ Cleared.flg = FALSE
    BY <1>2 DEF Fifoctl
<1>5. turn' \in BOOLEAN /\ stale' \in BOOLEAN
    BY <1>1 DEF NInv, TypeOK
<1> HIDE DEF before
<1> QED BY <1>1, <1>2, <1>3, <1>4, <1>5, PdmaOutputStep

LEMMA IntrInputStep == ASSUME NInv, IntrInput PROVE NInv'
<1>1. /\ Interrupt /\ mode = "INPUT" /\ count > 0 /\ InputChunk(Block) /\ count' > 0 /\ ctl' = Enabled
      /\ UNCHANGED <<audio, format, resamp, mode, busy, handler, intrblk, pan, history>>
    BY DEF IntrInput
<1>2. Enabled \in Fifoctl /\ Enabled.run = ctl.run /\ Enabled.rec = ctl.rec /\ ~Enabled.flg
    BY <1>1, InterruptFinds
<1>3. /\ BlockType(Block') /\ watermark' \in Nat /\ count' \in Nat /\ nchunk' \in Nat
      /\ acc' \in Nat /\ data' \in Nat /\ rest' \in Int
      /\ rest = count * FrameBytes => rest' = count' * FrameBytes
      /\ UNCHANGED <<pad, padded>>
    BY <1>1, InputChunkStep
<1>4. Formats' /\ FrameBytes' = FrameBytes
    BY <1>1 DEF NInv, Formats, format, FrameBytes
<1>5. TypeOK'
    BY <1>1, <1>2, <1>3 DEF NInv, TypeOK, format, history
<1>6. Engine'
    BY <1>1, <1>2 DEF NInv, Engine
<1> QED BY <1>1, <1>3, <1>4, <1>5, <1>6 DEF NInv, BlockInv, PadInv, PointerFollows

LEMMA IntrInputDoneStep == ASSUME NInv, NEW cc \in Blocks, IntrInputDone(cc) PROVE NInv'
<1> DEFINE last == NextChunk(Block)
           b == IF cc \div FrameBytes # last.count THEN InputBlock(cc) ELSE last
<1>1. /\ audio = "running" /\ Interrupt /\ mode = "INPUT" /\ cc % FrameBytes = 0 /\ last.count = 0
      /\ SetBlock(b)
      /\ acc' = InputChunkOf(Block).acc
      /\ data' = IF InputBytes(Block) <= data THEN data - InputBytes(Block) ELSE 0
      /\ padded' = FALSE /\ rest' = cc
      /\ ctl' = Enabled
      /\ WriteWatermark(b.watermark)
      /\ UNCHANGED <<audio, mode, busy, handler, pad, stale>>
      /\ turn' = ~turn /\ UNCHANGED <<format, resamp>>
    BY DEF IntrInputDone, Callback
<1>2. /\ ctl' \in Fifoctl /\ ctl'.run /\ ctl'.rec /\ ~ctl'.flg
      /\ BlockType(Block) /\ Block.nchunk > 0
    BY <1>1, InterruptFinds, RunningFinds
<1>3. Formats /\ acc \in Nat /\ data \in Nat
    BY DEF NInv, TypeOK
<1>4. cc \div FrameBytes \in Nat \ {0}
    BY <1>3, BlocksAreLong
<1>5. b = InputBlock(cc)
    BY <1>1, <1>4
<1>6. BlockType(b) /\ b.count = cc \div FrameBytes
    BY <1>3, <1>5, InputBlockType
<1>8. intrblk' = b.watermark /\ pan' = pan
    BY <1>1, <1>2 DEF WriteWatermark
<1>9. FrameBytes \in {1, 2, 4} /\ HwFrameBytes \in {2, 4} /\ cc \in Nat /\ FrameBytes' = FrameBytes
    BY <1>1, <1>3, FrameSizes, FormatAssumption DEF format, FrameBytes
<1>11. acc' \in Nat /\ data' \in Nat
    <2>1. InputChunkOf(Block).hw \in Nat /\ InputChunkOf(Block).acc \in Nat
        BY <1>2, <1>3, InputChunkOfType
    <2>2. InputBytes(Block) \in Nat
        BY <1>2, <1>9, <2>1 DEF InputBytes
    <2> QED BY <1>1, <1>3, <2>1, <2>2
<1> HIDE DEF b
<1>12. Block' = b /\ count' = b.count /\ count' \in Nat /\ nchunk' \in Nat /\ watermark' \in Nat
    BY <1>1, <1>6 DEF BlockType, SetBlock, Block
<1>13. rest' = count' * FrameBytes' /\ rest' \in Int
    <2> DEFINE fb == FrameBytes
    <2>1. fb \in {1, 2, 4} /\ cc \in Nat /\ cc % fb = 0
        BY <1>1, <1>9
    <2> HIDE DEF fb
    <2>2. cc = (cc \div fb) * fb
        BY <2>1
    <2> QED BY <1>1, <1>6, <1>9, <1>12, <2>2 DEF fb
<1>14. intrblk' \in Nat
    BY <1>6, <1>8 DEF BlockType
<1>15. Formats'
    BY <1>1, <1>3 DEF Formats, format
<1>16. TypeOK'
    <2>1. turn' \in BOOLEAN /\ padded' \in BOOLEAN
        BY <1>1
    <2> QED BY <1>1, <1>2, <1>8, <1>11, <1>12, <1>13, <1>14, <2>1 DEF NInv, TypeOK, format
<1>17. Engine'
    BY <1>1, <1>2 DEF NInv, Engine
<1>18. count' > 0
    BY <1>4, <1>6, <1>12
<1> QED BY <1>1, <1>2, <1>6, <1>12, <1>18, <1>13, <1>15, <1>16, <1>17 DEF NInv, BlockInv, PadInv, PointerFollows

LEMMA BlockEndsStep ==
    ASSUME NInv, Interrupt, BlockEnds, UNCHANGED <<format, resamp>>
    PROVE  /\ BlockType(Block') /\ acc' \in Nat
           /\ count' \in Nat /\ nchunk' \in Nat /\ watermark' \in Nat /\ rest' \in Int
           /\ padded' \in BOOLEAN /\ data' \in Nat /\ pad' \in Nat
<1>1. CASE mode = "OUTPUT"
    <2>1. UNCHANGED <<acc, count, nchunk, watermark, rest>> /\ padded' = FALSE
        BY <1>1 DEF BlockEnds
    <2>2. data' \in {0, data} /\ pad' \in {0, pad}
        BY <1>1 DEF BlockEnds, EmptyFifo
    <2>3. /\ data \in Nat /\ pad \in Nat /\ acc \in Nat /\ count \in Nat /\ nchunk \in Nat
          /\ watermark \in Nat /\ rest \in Int /\ BlockType(Block)
        BY DEF NInv, TypeOK, BlockInv
    <2>4. padded' \in BOOLEAN
        BY <2>1
    <2>5. Block' = Block
        BY <2>1 DEF Block
    <2> QED BY <2>1, <2>2, <2>3, <2>4, <2>5
<1>2. CASE mode = "INPUT"
    <2>1. count > 0 /\ InputChunk(Block)
        BY <1>2 DEF BlockEnds
    <2> QED BY <2>1, InputChunkStep DEF NInv, TypeOK
<1> QED BY <1>1, <1>2, InterruptFinds

LEMMA IntrLastStep == ASSUME NInv, IntrLast PROVE NInv'
<1>1. /\ Interrupt /\ BlockEnds /\ audio = "running" /\ audio' = "done" /\ busy' = FALSE /\ stale' = FALSE
      /\ ctl' = [Cleared EXCEPT !.run = FALSE, !.enb = FALSE]
      /\ UNCHANGED <<mode, handler, intrblk, pan>>
      /\ turn' = ~turn /\ UNCHANGED <<format, resamp>>
    BY DEF IntrLast, Callback
<1>2. Cleared \in Fifoctl /\ ~Cleared.flg
    BY <1>1, InterruptFinds
<1>3. ctl' \in Fifoctl /\ ~ctl'.run /\ ~ctl'.flg
    BY <1>1, <1>2 DEF Fifoctl
<1>4. /\ BlockType(Block') /\ acc' \in Nat
      /\ count' \in Nat /\ nchunk' \in Nat /\ watermark' \in Nat /\ rest' \in Int
      /\ padded' \in BOOLEAN /\ data' \in Nat /\ pad' \in Nat
    BY <1>1, BlockEndsStep
<1>5. Formats'
    BY <1>1 DEF NInv, Formats, format
<1>6. TypeOK'
    <2>1. audio' \in Phases /\ busy' \in BOOLEAN /\ turn' \in BOOLEAN /\ stale' \in BOOLEAN
        BY <1>1 DEF Phases
    <2> QED BY <1>1, <1>3, <1>4, <2>1 DEF NInv, TypeOK, format
<1>7. Engine'
    BY <1>1, <1>3 DEF NInv, Engine
<1> QED BY <1>1, <1>3, <1>4, <1>5, <1>6, <1>7 DEF NInv, BlockInv, PadInv, PointerFollows

LEMMA IntrStaleStep == ASSUME NInv, IntrStale PROVE NInv'
<1>1. /\ Interrupt /\ BlockEnds /\ audio # "running"
      /\ ctl' \in {Enabled, Cleared}
      /\ UNCHANGED <<audio, format, resamp, mode, busy, handler, intrblk, pan, history>>
    BY DEF IntrStale
<1>2. ctl' \in Fifoctl /\ ctl'.run = ctl.run /\ ~ctl'.flg
    BY <1>1, InterruptFinds
<1>3. /\ BlockType(Block') /\ acc' \in Nat
      /\ count' \in Nat /\ nchunk' \in Nat /\ watermark' \in Nat /\ rest' \in Int
      /\ padded' \in BOOLEAN /\ data' \in Nat /\ pad' \in Nat
    BY <1>1, BlockEndsStep
<1>4. Formats'
    BY <1>1 DEF NInv, Formats, format
<1>5. TypeOK'
    BY <1>1, <1>2, <1>3 DEF NInv, TypeOK, format, history
<1>6. Engine'
    BY <1>1, <1>2 DEF NInv, Engine
<1> QED BY <1>1, <1>2, <1>3, <1>4, <1>5, <1>6 DEF NInv, BlockInv, PadInv, PointerFollows

LEMMA PlayStep == ASSUME NInv, Play PROVE NInv'
<1>1. /\ ctl.run /\ ~ctl.rec /\ data + pad > 0
      /\ UNCHANGED <<audio, format, resamp, acc, mode, dma, busy, handler, intrblk, pan, history>>
      /\ ctl' \in {ctl, [ctl EXCEPT !.flg = TRUE]}
      /\ ctl' # ctl => data' + pad' <= intrblk
    BY DEF Play
<1>2. audio = "running" /\ mode = "OUTPUT" /\ ctl \in Fifoctl
    BY <1>1 DEF NInv, TypeOK, Engine
<1>3. /\ data \in Nat /\ pad \in Nat /\ HwFrameBytes \in {2, 4}
      /\ data % HwFrameBytes = 0 /\ pad % HwFrameBytes = 0 /\ intrblk = watermark
      /\ ~padded => pad = 0
      /\ padded /\ data > 0 => pad = watermark /\ (ctl.flg => stale)
    BY <1>2, FrameSizes DEF NInv, TypeOK, PadInv
<1>4. \/ data > 0 /\ data' = data - HwFrameBytes /\ pad' = pad
      \/ data = 0 /\ pad > 0 /\ pad' = pad - HwFrameBytes /\ data' = data
    BY <1>1, <1>3 DEF Play
<1>5. data' \in Nat /\ pad' \in Nat /\ data' % HwFrameBytes = 0 /\ pad' % HwFrameBytes = 0
    BY <1>3, <1>4
<1>6. ctl' \in Fifoctl /\ ctl'.run = ctl.run /\ ctl'.rec = ctl.rec
    BY <1>1, <1>2 DEF Fifoctl
<1>7. Formats' /\ HwFrameBytes' = HwFrameBytes /\ FrameBytes' = FrameBytes
    BY <1>1 DEF NInv, Formats, format, HwFrameBytes, FrameBytes
<1>8. TypeOK'
    BY <1>1, <1>5, <1>6 DEF NInv, TypeOK, format, dma, history
<1>9. Engine'
    BY <1>1, <1>2, <1>6 DEF NInv, Engine
<1>10. ~padded => pad' = 0
    BY <1>3, <1>4, <1>5
<1>11. ASSUME padded, data' > 0 PROVE pad' = watermark /\ (ctl'.flg => stale')
    <2>0. stale' = stale
        BY <1>1 DEF history
    <2>1. data > 0 /\ pad' = pad /\ pad = watermark /\ (ctl.flg => stale)
        BY <1>3, <1>4, <1>11
    <2>2. ~(data' + pad' <= intrblk)
        <3>1. data' \in Nat /\ data' > 0 /\ pad' = intrblk /\ intrblk \in Nat
            BY <1>3, <1>5, <1>11, <2>1
        <3>2. \A d, p, i \in Nat : d > 0 /\ p = i => ~(d + p <= i)
            OBVIOUS
        <3> QED BY <3>1, <3>2
    <2> QED BY <1>1, <2>0, <2>1, <2>2
<1>12. PadInv'
    BY <1>1, <1>2, <1>3, <1>5, <1>7, <1>10, <1>11 DEF PadInv, dma
<1>13. BlockInv' /\ PointerFollows'
    BY <1>1, <1>2, <1>7 DEF NInv, BlockInv, BlockType, Block, PointerFollows, dma, format
<1> QED BY <1>7, <1>8, <1>9, <1>12, <1>13 DEF NInv

LEMMA RecordStep == ASSUME NInv, Record PROVE NInv'
<1>1. /\ ctl.run /\ ctl.rec /\ data' = data + HwFrameBytes
      /\ UNCHANGED <<audio, format, resamp, acc, mode, dma, busy, handler, pad, intrblk, pan, history>>
      /\ ctl' \in {ctl, [ctl EXCEPT !.flg = TRUE]}
    BY DEF Record
<1>2. audio = "running" /\ mode = "INPUT" /\ ctl \in Fifoctl
    BY <1>1 DEF NInv, TypeOK, Engine
<1>3. data' \in Nat
    BY <1>1, FrameSizes DEF NInv, TypeOK
<1>4. ctl' \in Fifoctl /\ ctl'.run = ctl.run /\ ctl'.rec = ctl.rec
    BY <1>1, <1>2 DEF Fifoctl
<1>5. Formats' /\ FrameBytes' = FrameBytes
    BY <1>1 DEF NInv, Formats, format, FrameBytes
<1>6. TypeOK'
    BY <1>1, <1>3, <1>4 DEF NInv, TypeOK, format, dma, history
<1>7. Engine'
    BY <1>1, <1>2, <1>4 DEF NInv, Engine
<1>8. PadInv'
    BY <1>1, <1>2 DEF NInv, PadInv, dma
<1>9. BlockInv' /\ PointerFollows'
    BY <1>1, <1>2, <1>5 DEF NInv, BlockInv, BlockType, Block, PointerFollows, dma, format
<1> QED BY <1>5, <1>6, <1>7, <1>8, <1>9 DEF NInv

-----------------------------------------------------------------------------
(* The theorems.                                                           *)

LEMMA NInvInit == Init => NInv
<1> SUFFICES ASSUME Init PROVE NInv
    OBVIOUS
<1>1. PICK r \in SampleRates : orate = [sr |-> r, hw |-> RateBits(r)] /\ irate = orate
    BY DEF Init
<1>2. RateBits(r) \in HwRates
    BY RateBitsIsARate
<1> DEFINE h == RateBits(r)
<1>3. /\ orate \in Rate /\ orate.sr = r /\ orate.hw = h
      /\ irate \in Rate /\ irate.sr = r /\ irate.hw = h
    BY <1>1, <1>2 DEF Rate
<1>4. Formats
    BY <1>3 DEF Formats, Init
<1>5. Unit \in Nat
    BY SizeAssumption
<1>6. TypeOK
    <2>1. ctl \in Fifoctl
        BY DEF Init, Fifoctl
    <2>2. resamp \in [out : BOOLEAN, in : BOOLEAN]
        BY DEF Init
    <2>3. audio \in Phases /\ mode \in Modes
        BY DEF Init, Phases, Modes
    <2>4. /\ padded \in BOOLEAN /\ busy \in BOOLEAN /\ handler \in BOOLEAN
          /\ pan \in BOOLEAN /\ turn \in BOOLEAN /\ stale \in BOOLEAN
        BY DEF Init
    <2>5. /\ acc \in Nat /\ count \in Nat /\ nchunk \in Nat /\ watermark \in Nat /\ rest \in Int
          /\ data \in Nat /\ pad \in Nat /\ intrblk \in Nat
        BY <1>5 DEF Init
    <2>6. precision \in Precisions /\ channels \in Channels
        BY DEF Init
    <2> QED BY <1>3, <2>1, <2>2, <2>3, <2>4, <2>5, <2>6 DEF TypeOK
<1>7. Engine /\ audio = "closed" /\ mode = "NONE"
    BY DEF Init, Engine
<1>8. BlockType(Block)
    <2>1. count = 0 /\ nchunk = 0 /\ watermark = 0
        BY DEF Init
    <2> QED BY <2>1 DEF Block, BlockType
<1> QED BY <1>4, <1>6, <1>7, <1>8 DEF NInv, BlockInv, PadInv, PointerFollows

LEMMA NInvStep == NInv /\ [Next]_vars => NInv'
<1> SUFFICES ASSUME NInv, [Next]_vars PROVE NInv'
    OBVIOUS
<1>1. CASE AudioLayer
    <2>1. CASE Open \/ Close \/ Commit \/ Halt
        BY <2>1, StoppedStep
    <2>2. CASE \E p \in Precisions, ch \in Channels, sr \in SampleRates : SetParams(p, ch, sr)
        BY <2>2, SetParamsStep
    <2>3. CASE \E cc \in Blocks, output \in BOOLEAN : InitTransfer(output, cc)
        BY <2>3, InitTransferStep
    <2>4. CASE \E cc \in Blocks : StartOutput(cc) \/ StartInput(cc)
        BY <2>4, StartOutputStep, StartInputStep
    <2> QED BY <1>1, <2>1, <2>2, <2>3, <2>4 DEF AudioLayer
<1>2. CASE Intr
    <2>1. CASE IntrOutput \/ IntrInput \/ IntrLast \/ IntrStale
        BY <2>1, IntrOutputStep, IntrInputStep, IntrLastStep, IntrStaleStep
    <2>2. CASE \E cc \in Blocks : IntrOutputDone(cc) \/ IntrInputDone(cc)
        BY <2>2, IntrOutputDoneStep, IntrInputDoneStep
    <2> QED BY <1>2, <2>1, <2>2 DEF Intr
<1>3. CASE Play \/ Record
    BY <1>3, PlayStep, RecordStep
<1>4. CASE UNCHANGED vars
    <2>1. TypeOK' /\ Formats'
        BY <1>4 DEF NInv, TypeOK, Formats, vars, format, dma, hardware, history
    <2>2. Engine' /\ BlockInv' /\ PadInv'
        BY <1>4 DEF NInv, Engine, BlockInv, BlockType, Block, PadInv, vars, format, dma, hardware, history, HwFrameBytes
    <2>3. PointerFollows'
        BY <1>4 DEF NInv, PointerFollows, vars, format, dma, hardware, FrameBytes
    <2> QED BY <2>1, <2>2, <2>3 DEF NInv
<1> QED BY <1>1, <1>2, <1>3, <1>4 DEF Next

\* NInv holds throughout.
LEMMA Invariance == Spec => []NInv
<1> QED BY NInvInit, NInvStep, PTL DEF Spec

\* The variables keep their types: no counter of nec86hw.c goes below zero and no
\* division has a zero divisor.
THEOREM Nec86Types == Spec => []TypeOK
<1>1. NInv => TypeOK
    BY DEF NInv
<1> QED BY <1>1, Invariance, PTL

\* When nec86hw_intr() resets the FIFO to drop padding, every sample written before
\* it has been played, whatever the sizes of blocks and chunks, in every transfer
\* that was started with INTRFLG clear.
THEOREM PaddingIsDroppedLate == Spec => []PaddingOutlastsData
<1>1. NInv => PaddingOutlastsData
    <2> SUFFICES ASSUME NInv, Clean, Interrupt, padded PROVE data = 0
        BY DEF PaddingOutlastsData
    <2>1. audio = "running" /\ ~stale /\ ctl.flg /\ mode \in {"INPUT", "OUTPUT"}
        BY InterruptFinds DEF Clean
    <2>2. data \in Nat
        BY DEF NInv, TypeOK
    <2> QED BY <2>1, <2>2 DEF NInv, PadInv
<1> QED BY <1>1, Invariance, PTL

\* Whenever INTRFLG is set, also when a halted transfer has left it, sc_intr and
\* pdma_mode are set, a block that has frames left has chunks left and a recording has
\* frames left, so that the default branch of nec86hw_intr() ("This should never
\* happen") is dead and sc_intr is not called through NULL.
THEOREM InterruptsAreExpected == Spec => []InterruptIsExpected
<1>1. NInv => InterruptIsExpected
    <2> SUFFICES ASSUME NInv, Interrupt
                 PROVE  /\ handler /\ mode # "NONE" /\ (count > 0 <=> nchunk > 0)
                        /\ mode = "INPUT" => count > 0
        BY DEF InterruptIsExpected
    <2>1. handler /\ mode \in {"INPUT", "OUTPUT"} /\ BlockType(Block) /\ (mode = "INPUT" => count > 0)
        BY InterruptFinds
    <2>2. count > 0 <=> nchunk > 0
        BY <2>1 DEF BlockType, Block
    <2> QED BY <2>1, <2>2
<1> QED BY <1>1, Invariance, PTL

\* pdma_ptr is at the frames that are left when recording, and when playing stereo
\* at a rate of the board.
THEOREM PointerIsRight == Spec => []PointerFollows
<1>1. NInv => PointerFollows
    BY DEF NInv
<1> QED BY <1>1, Invariance, PTL
-----------------------------------------------------------------------------
(* Room in the FIFO, and chunks that are recorded before they are read.    *)
(* Both are false at some rates between those of the table, see            *)
(* nec86_rest.cfg, and hold of programs that ask for rates of the table:   *)
(* then nothing is resampled, and a block that begins with chunks of       *)
(* average length c or less never has a longer one.  Playing, the blocks   *)
(* must also be of one size, as the audio layer makes them, because the    *)
(* chunk that follows a block finds what is left at the block's watermark. *)

RatesOfTheBoard == SampleRates \subseteq HwRates
BlocksOfOneSize == \A b, c \in Blocks : b = c

\* nec86hw_rate_bits() finds a rate that is in the table.
LEMMA RateIsFound ==
    ASSUME RatesOfTheBoard, Formats
    PROVE  orate.hw = orate.sr /\ irate.hw = irate.sr
<1> SUFFICES ASSUME NEW sr \in SampleRates PROVE RateBits(sr) = sr
    BY DEF Formats, Rate
<1> DEFINE above == {r \in HwRates : r >= sr}
<1>1. HwRates \subseteq Nat /\ sr \in HwRates
    BY RateAssumption DEF RatesOfTheBoard
<1>2. sr \in Nat /\ sr >= sr
    BY <1>1
<1>3. sr \in above /\ above \subseteq Nat /\ \A r \in above : sr <= r
    BY <1>1, <1>2
<1>4. RateBits(sr) = Lowest(above)
    BY <1>3 DEF RateBits
<1> HIDE DEF above
<1> DEFINE l == Lowest(above)
<1>5. l \in above /\ \A r \in above : l <= r
    <2>1. \E x \in above : \A r \in above : x <= r
        BY <1>3
    <2> QED BY <2>1 DEF Lowest
<1> HIDE DEF l
<1>6. l \in Nat /\ l <= sr /\ sr <= l
    BY <1>3, <1>5
<1>7. l = sr
    BY <1>2, <1>6
<1> QED BY <1>4, <1>7 DEF l

\* Chunks of at most c frames on average are all of at most c frames: the longer
\* ones, where a block is not a multiple, are of the average rounded up.
LEMMA ChunksStayShort ==
    ASSUME NEW b, BlockType(b), b.nchunk > 0, NEW c \in Nat, b.count <= b.nchunk * c
    PROVE  ChunkFrames(b) <= c /\ NextChunk(b).count <= NextChunk(b).nchunk * c
<1> DEFINE f == b.count
           n == b.nchunk
           q == f \div n
<1>1. f \in Nat /\ n \in Nat \ {0} /\ f <= n * c
    BY DEF BlockType
<1>2. NextChunk(b).count = f - q /\ NextChunk(b).nchunk = n - 1 /\ ChunkFrames(b) = q
    BY DEF NextChunk, ChunkFrames
<1> HIDE DEF f, n
<1>3. q \in Nat /\ n * q <= f /\ f < n * q + n
    BY <1>1, DivIsFloor
<1> HIDE DEF q
<1>4. q <= c
    <2> SUFFICES ASSUME q >= c + 1 PROVE FALSE
        BY <1>3
    <2>1. n * q >= n * (c + 1) /\ n * (c + 1) = n * c + n
        BY <1>1, <1>3
    <2> QED BY <1>1, <1>3, <2>1
<1>5. f - q <= (n - 1) * c
    <2>1. (n - 1) * c = n * c - c /\ n * c \in Nat
        BY <1>1
    <2>2. CASE q = c
        BY <1>1, <1>3, <2>1, <2>2
    <2>3. CASE q # c
        <3>1. c - q - 1 \in Nat
            BY <1>3, <1>4, <2>3
        <3>2. (n - 1) * (c - q - 1) >= 0
            BY <1>1, <3>1
        <3>3. (n - 1) * (c - q - 1) = n * c - n * q - n - c + q + 1 /\ n * q \in Nat
            BY <1>1, <1>3
        <3> QED BY <1>1, <1>3, <2>1, <3>2, <3>3
    <2> QED BY <2>2, <2>3
<1> QED BY <1>2, <1>4, <1>5

\* The frames that fit behind what is left at the watermark wm, and those that are
\* recorded when INTRFLG is set, with the one that sets it.
PlayedFrames(wm)   == (BuffSize - wm) \div HwFrameBytes
RecordedFrames(wm) == (wm \div HwFrameBytes) + 1

\* What nec86hw_set_output_block() computes when it is not resampled.
LEMMA OutputBlockFits ==
    ASSUME Formats, orate.hw = orate.sr, NEW cc \in Blocks, NEW b, b = OutputBlock(cc)
    PROVE  /\ BlockType(b) /\ 3 * b.watermark <= BuffSize
           /\ b.count <= b.nchunk * PlayedFrames(b.watermark)
<1> DEFINE f == b.count
           n == b.nchunk
           wm == b.watermark
           h == HwFrameBytes
<1>1. /\ BlockType(b) /\ f = cc \div FrameBytes /\ 3 * wm <= BuffSize
      /\ PlayedBytes(cc) <= n * (BuffSize - wm)
    BY OutputBlockType
<1>2. f \in Nat /\ n \in Nat /\ wm \in Nat /\ wm % 4 = 0 /\ h \in {2, 4}
    BY <1>1, FrameSizes DEF BlockType
<1>3. BuffSize \in Nat /\ BuffSize % 4 = 0
    BY SizeAssumption
<1>4. PlayedBytes(cc) = f * h
    <2> DEFINE s == orate.sr
    <2>1. s \in Nat \ {0} /\ PlayedBytes(cc) = ((f * s) \div s) * h
        BY <1>1, FrameSizes DEF PlayedBytes
    <2> HIDE DEF s, f, h
    <2>2. (f * s) \div s = f
        <3> DEFINE p == f * s
                   d == p \div s
        <3>1. p \in Nat
            BY <1>2, <2>1
        <3> HIDE DEF p
        <3>2. d \in Nat /\ s * d <= p /\ p < s * d + s
            BY <2>1, <3>1, DivIsFloor
        <3> HIDE DEF d
        <3>3. s * d <= s * f /\ s * f < s * (d + 1)
            BY <1>2, <2>1, <3>2 DEF p
        <3>4. d <= f /\ f < d + 1
            BY <1>2, <2>1, <3>2, <3>3
        <3> QED BY <1>2, <3>2, <3>4 DEF d, p
    <2> QED BY <2>1, <2>2
<1> HIDE DEF f, n, wm, h
<1> DEFINE k == (BuffSize - wm) \div h
<1>5. BuffSize - wm = h * k /\ k \in Nat
    BY <1>1, <1>2, <1>3
<1> HIDE DEF k
<1>6. f <= n * k
    <2> DEFINE p == n * k
    <2>1. p \in Nat /\ n * (h * k) = h * p
        BY <1>2, <1>5
    <2>2. f * h <= h * p
        BY <1>1, <1>4, <1>5, <2>1
    <2> HIDE DEF p
    <2>3. f <= p
        BY <1>2, <2>1, <2>2
    <2> QED BY <2>3 DEF p
<1> QED BY <1>1, <1>6 DEF PlayedFrames, k, f, n, wm, h

\* The same for nec86hw_set_input_block().
LEMMA InputBlockFits ==
    ASSUME Formats, irate.hw = irate.sr, NEW cc \in Blocks, NEW b, b = InputBlock(cc)
    PROVE  BlockType(b) /\ b.count <= b.nchunk * RecordedFrames(b.watermark)
<1> DEFINE f == b.count
           n == b.nchunk
           wm == b.watermark
           h == HwFrameBytes
<1>1. /\ BlockType(b) /\ f = cc \div FrameBytes
      /\ RecordedBytes(cc) < n * (wm + 1)
    BY InputBlockType
<1>2. f \in Nat /\ n \in Nat /\ wm \in Nat /\ wm % 4 = 0 /\ h \in {2, 4}
    BY <1>1, FrameSizes DEF BlockType
<1>3. RecordedBytes(cc) = f * h
    <2> DEFINE s == irate.sr
    <2>1. s \in Nat \ {0} /\ RecordedBytes(cc) = CeilDiv(f * s, s) * h
        BY <1>1, FrameSizes DEF RecordedBytes
    <2> HIDE DEF s, f, h
    <2>2. CeilDiv(f * s, s) = f
        <3> DEFINE p == f * s
                   d == CeilDiv(p, s)
        <3>1. p \in Nat
            BY <1>2, <2>1
        <3> HIDE DEF p
        <3>2. d \in Nat /\ p <= s * d /\ s * d < p + s
            BY <2>1, <3>1, CeilDivIsCeiling
        <3> HIDE DEF d
        <3>3. s * f <= s * d /\ s * d < s * (f + 1)
            BY <1>2, <2>1, <3>2 DEF p
        <3>4. f <= d /\ d < f + 1
            BY <1>2, <2>1, <3>2, <3>3
        <3> QED BY <1>2, <3>2, <3>4 DEF d, p
    <2> QED BY <2>1, <2>2
<1> HIDE DEF f, n, wm, h
<1> DEFINE k == wm \div h
<1>4. wm = h * k /\ k \in Nat
    BY <1>2
<1> HIDE DEF k
<1>5. f <= n * (k + 1)
    <2> DEFINE p == n * k
    <2>1. p \in Nat /\ n * (h * k + 1) = h * p + n /\ n * (k + 1) = p + n
        BY <1>2, <1>4
    <2>2. f * h < h * p + n
        BY <1>1, <1>3, <1>4, <2>1
    <2> HIDE DEF p
    <2>3. f <= p + n
        BY <1>2, <2>1, <2>2
    <2> QED BY <2>1, <2>3
<1> QED BY <1>1, <1>5 DEF RecordedFrames, k, f, n, wm, h

-----------------------------------------------------------------------------
(* Recording.                                                              *)

\* What is left of the block is in chunks that are recorded when INTRFLG is set.
ChunksRecorded == count <= nchunk * RecordedFrames(watermark)

\* A block that is recorded has chunks no longer than what INTRFLG promises, and
\* the flag, unless it is stale, is set only when that much is there.
RecordInv ==
    /\ ~resamp.in
    /\ (audio = "init" /\ ctl.rec) \/ (Clean /\ mode = "INPUT")
           => ChunksRecorded
    /\ Clean /\ mode = "INPUT" =>
           /\ data % HwFrameBytes = 0 /\ intrblk = watermark
           /\ ctl.flg => data > watermark

\* Commit leaves resampling off, because the rates were found.
LEMMA NothingResampled ==
    ASSUME RatesOfTheBoard, NInv, [Next]_vars, ~resamp.in, ~resamp.out
    PROVE  ~resamp'.in /\ ~resamp'.out
<1>1. orate.hw = orate.sr /\ irate.hw = irate.sr
    BY RateIsFound DEF NInv
<1>2. CASE Commit
    BY <1>1, <1>2 DEF Commit
<1>3. CASE ~Commit
    <2>1. resamp' = resamp
        <3>1. CASE AudioLayer
            BY <1>3, <3>1 DEF AudioLayer, Open, Close, Halt, SetParams, InitTransfer, StartOutput, StartInput
        <3>2. CASE Intr
            BY <3>2 DEF Intr, IntrOutput, IntrInput, IntrLast, IntrStale, IntrOutputDone, IntrInputDone, Callback
        <3>3. CASE Play \/ Record \/ UNCHANGED vars
            BY <3>3 DEF Play, Record, vars
        <3> QED BY <3>1, <3>2, <3>3 DEF Next
    <2> QED BY <2>1
<1> QED BY <1>2, <1>3

\* A stale flag that is served while nothing runs takes a chunk from the block, or
\* nothing.
LEMMA StaleTakesAChunk ==
    ASSUME NInv, audio # "running", IntrOutput \/ IntrInput \/ IntrStale
    PROVE  /\ audio' = audio /\ ctl'.rec = ctl.rec /\ UNCHANGED <<format, resamp>>
           /\ BlockType(Block) /\ Block.count = count /\ Block.nchunk = nchunk /\ Block.watermark = watermark
           /\ \/ Block.nchunk > 0 /\ SetBlock(NextChunk(Block))
              \/ UNCHANGED <<count, nchunk, watermark>>
<1>1. Interrupt /\ audio' = audio /\ ctl' \in {Enabled, Cleared} /\ UNCHANGED <<format, resamp>>
    BY DEF IntrOutput, IntrInput, IntrStale
<1>2. /\ ctl'.rec = ctl.rec
      /\ BlockType(Block) /\ Block.count = count /\ Block.nchunk = nchunk /\ Block.watermark = watermark
      /\ count > 0 => Block.nchunk > 0
    BY <1>1, InterruptFinds
<1>3. CASE IntrOutput
    BY <1>1, <1>2, <1>3 DEF IntrOutput, OutputChunk
<1>4. CASE IntrInput
    BY <1>1, <1>2, <1>4 DEF IntrInput, InputChunk
<1>5. CASE IntrStale
    BY <1>1, <1>2, <1>5 DEF IntrStale, BlockEnds, InputChunk
<1> QED BY <1>1, <1>2, <1>3, <1>4, <1>5

\* The other chunks of the block are still recorded when INTRFLG is set.
LEMMA RecordInvStale ==
    ASSUME NInv, RecordInv, audio # "running", IntrOutput \/ IntrInput \/ IntrStale
    PROVE  RecordInv'
<1>1. /\ audio' = audio /\ ctl'.rec = ctl.rec /\ UNCHANGED <<format, resamp>>
      /\ BlockType(Block) /\ Block.count = count /\ Block.nchunk = nchunk /\ Block.watermark = watermark
      /\ \/ Block.nchunk > 0 /\ SetBlock(NextChunk(Block))
         \/ UNCHANGED <<count, nchunk, watermark>>
    BY StaleTakesAChunk
<1>2. HwFrameBytes' = HwFrameBytes
    BY <1>1 DEF format, HwFrameBytes
<1>3. ASSUME ChunksRecorded PROVE ChunksRecorded'
    <2> DEFINE c == RecordedFrames(watermark)
    <2>1. c \in Nat
        <3>1. HwFrameBytes \in {2, 4} /\ watermark \in Nat
            BY FrameSizes DEF NInv, TypeOK
        <3> QED BY <3>1 DEF RecordedFrames
    <2>2. CASE Block.nchunk > 0 /\ SetBlock(NextChunk(Block))
        <3> DEFINE n == NextChunk(Block)
        <3>1. count <= nchunk * c
            BY <1>3 DEF ChunksRecorded
        <3> HIDE DEF c
        <3>2. n.count <= n.nchunk * c /\ n.watermark = watermark
            BY <1>1, <2>1, <2>2, <3>1, ChunksStayShort, ChunkType
        <3>3. SetBlock(n)
            BY <2>2
        <3> HIDE DEF n
        <3> QED BY <1>2, <3>2, <3>3 DEF c, ChunksRecorded, RecordedFrames, SetBlock
    <2>3. CASE UNCHANGED <<count, nchunk, watermark>>
        BY <1>2, <1>3, <2>3 DEF ChunksRecorded, RecordedFrames
    <2> QED BY <1>1, <2>2, <2>3
<1> QED BY <1>1, <1>3 DEF RecordInv, Clean

\* An interrupt finds the chunk that it is for.
LEMMA ChunkIsRecorded ==
    ASSUME NInv, RecordInv, Clean, Interrupt, mode = "INPUT"
    PROVE  /\ BlockType(Block) /\ Block.nchunk > 0 /\ InputBytes(Block) \in Nat
           /\ InputBytes(Block) <= data /\ InputBytes(Block) % HwFrameBytes = 0
           /\ LET n == NextChunk(Block)
              IN  n.watermark = watermark /\ n.count <= n.nchunk * RecordedFrames(n.watermark)
<1> DEFINE h == HwFrameBytes
           q == ChunkFrames(Block)
           c == RecordedFrames(watermark)
<1>1. /\ ctl.flg /\ BlockType(Block) /\ Block.count = count /\ Block.nchunk > 0
      /\ Block.nchunk = nchunk /\ Block.watermark = watermark
    BY InterruptFinds
<1>2. /\ h \in {2, 4} /\ watermark \in Nat /\ watermark % 4 = 0
    BY <1>1, FrameSizes DEF NInv, TypeOK, BlockType
<1>3. /\ data \in Nat /\ data % h = 0 /\ data > watermark /\ count <= nchunk * c
    BY <1>1 DEF NInv, TypeOK, RecordInv, ChunksRecorded
<1>4. c \in Nat /\ h * c = watermark + h
    <2> DEFINE k == watermark \div h
    <2>1. k \in Nat /\ h * k = watermark /\ c = k + 1
        BY <1>2 DEF RecordedFrames
    <2> HIDE DEF k, c, h
    <2> QED BY <1>2, <2>1
<1> HIDE DEF c
<1>5. q <= c /\ NextChunk(Block).count <= NextChunk(Block).nchunk * c
    BY <1>1, <1>3, <1>4, ChunksStayShort
<1>6. q \in Nat /\ NextChunk(Block).watermark = watermark
    BY <1>1, ChunkType
<1>7. InputBytes(Block) = q * h
    BY <1>1 DEF InputBytes, InputChunkOf, InputDirect, RecordInv
<1> HIDE DEF q, h
<1>8. q * h \in Nat /\ (q * h) % h = 0 /\ q * h <= watermark + h
    BY <1>2, <1>4, <1>5, <1>6
<1>9. watermark + h <= data
    BY <1>2, <1>3
<1>10. q * h <= data
    BY <1>2, <1>3, <1>8, <1>9
<1> QED BY <1>1, <1>5, <1>6, <1>7, <1>8, <1>10 DEF c, h

LEMMA RecordInvInit == ASSUME RatesOfTheBoard PROVE Init => RecordInv
<1> SUFFICES ASSUME Init PROVE RecordInv
    OBVIOUS
<1>1. orate.hw = orate.sr /\ irate.hw = irate.sr
    BY NInvInit, RateIsFound DEF NInv
<1> QED BY <1>1 DEF Init, RecordInv

\* What the start of a transfer and the callback of a block leave.
LEMMA FreshInputFits ==
    ASSUME NInv, irate.hw = irate.sr, NEW cc \in Blocks, audio = "init",
           count <= nchunk * RecordedFrames(watermark), NEW b, b = Fresh(FALSE, cc)
    PROVE  BlockType(b) /\ b.count <= b.nchunk * RecordedFrames(b.watermark)
<1>1. Formats /\ BlockType(Block) /\ Block.count = count /\ Block.nchunk = nchunk /\ Block.watermark = watermark
    BY DEF NInv, BlockInv, Block
<1>2. CASE b = InputBlock(cc)
    BY <1>1, <1>2, InputBlockFits
<1>3. CASE b = Block
    BY <1>1, <1>3
<1> QED BY <1>2, <1>3 DEF Fresh

LEMMA RecordInvStart ==
    ASSUME RatesOfTheBoard, NInv, RecordInv, ~resamp'.in, NEW cc \in Blocks, StartInput(cc)
    PROVE  RecordInv'
<1> DEFINE b == Fresh(FALSE, cc)
<1>1. audio = "init" /\ count <= nchunk * RecordedFrames(watermark) /\ irate.hw = irate.sr
    BY RateIsFound DEF StartInput, RecordInv, NInv, ChunksRecorded
<1>2. BlockType(b) /\ b.count <= b.nchunk * RecordedFrames(b.watermark)
    BY <1>1, FreshInputFits
<1>3. /\ SetBlock(b) /\ data' = 0 /\ WriteWatermark(watermark')
      /\ ctl' = [ctl EXCEPT !.rec = TRUE, !.enb = TRUE, !.run = TRUE] /\ stale' = ctl.flg
      /\ UNCHANGED format
    BY DEF StartInput, EmptyFifo
<1> HIDE DEF b
<1>4. ctl'.run /\ (Clean' => ~ctl'.flg)
    BY <1>3 DEF NInv, TypeOK, Fifoctl, Clean
<1>5. intrblk' = watermark'
    BY <1>3, <1>4 DEF WriteWatermark
<1>6. HwFrameBytes' = HwFrameBytes /\ HwFrameBytes \in {2, 4}
    BY <1>3, FrameSizes DEF NInv, format, HwFrameBytes
<1>7. ChunksRecorded'
    BY <1>2, <1>3, <1>6 DEF SetBlock, RecordedFrames, ChunksRecorded
<1>8. data' % HwFrameBytes' = 0
    BY <1>3, <1>6
<1> QED BY <1>4, <1>5, <1>7, <1>8 DEF RecordInv

LEMMA RecordInvChunk ==
    ASSUME RatesOfTheBoard, NInv, RecordInv, Clean, ~resamp'.in, IntrInput
    PROVE  RecordInv'
<1>1. /\ Interrupt /\ mode = "INPUT" /\ count > 0 /\ InputChunk(Block) /\ ctl' = Enabled
      /\ UNCHANGED <<format, intrblk>>
    BY DEF IntrInput
<1> DEFINE n == NextChunk(Block)
           r == InputBytes(Block)
<1>2. /\ BlockType(Block) /\ Block.nchunk > 0 /\ r \in Nat /\ r <= data /\ r % HwFrameBytes = 0
      /\ n.watermark = watermark /\ n.count <= n.nchunk * RecordedFrames(n.watermark)
    BY <1>1, ChunkIsRecorded
<1>3. SetBlock(n) /\ data' = data - r
    BY <1>1, <1>2 DEF InputChunk
<1> HIDE DEF n, r
<1>4. /\ HwFrameBytes' = HwFrameBytes /\ HwFrameBytes \in {2, 4} /\ data \in Nat /\ data % HwFrameBytes = 0
      /\ intrblk = watermark /\ ~ctl'.flg
    BY <1>1, FrameSizes, InterruptFinds DEF NInv, TypeOK, RecordInv, format, HwFrameBytes
<1>5. data' % HwFrameBytes' = 0
    BY <1>2, <1>3, <1>4
<1>6. ChunksRecorded' /\ intrblk' = watermark'
    BY <1>1, <1>2, <1>3, <1>4 DEF SetBlock, RecordedFrames, ChunksRecorded
<1> QED BY <1>4, <1>5, <1>6 DEF RecordInv

LEMMA RecordInvDone ==
    ASSUME RatesOfTheBoard, NInv, RecordInv, Clean, ~resamp'.in, NEW cc \in Blocks, IntrInputDone(cc)
    PROVE  RecordInv'
<1> DEFINE last == NextChunk(Block)
           b == IF cc \div FrameBytes # last.count THEN InputBlock(cc) ELSE last
           r == InputBytes(Block)
<1>1. /\ Interrupt /\ mode = "INPUT" /\ last.count = 0
      /\ SetBlock(b) /\ data' = IF r <= data THEN data - r ELSE 0
      /\ ctl' = Enabled /\ WriteWatermark(b.watermark)
      /\ UNCHANGED format
    BY DEF IntrInputDone, Callback
<1>2. audio = "running" /\ Formats /\ irate.hw = irate.sr
    BY RateIsFound DEF NInv, Clean
<1>4. r \in Nat /\ r <= data /\ r % HwFrameBytes = 0
    BY <1>1, ChunkIsRecorded
<1>5. b = InputBlock(cc)
    BY <1>1, <1>2, BlocksAreLong
<1> HIDE DEF b, r, last
<1>6. b.count <= b.nchunk * RecordedFrames(b.watermark)
    BY <1>2, <1>5, InputBlockFits
<1>7. ctl'.run /\ ~ctl'.flg
    BY <1>1, <1>2, InterruptFinds, RunningFinds
<1>8. intrblk' = b.watermark
    BY <1>1, <1>7 DEF WriteWatermark
<1>9. /\ HwFrameBytes' = HwFrameBytes /\ HwFrameBytes \in {2, 4} /\ data \in Nat /\ data % HwFrameBytes = 0
    BY <1>1, <1>2, FrameSizes DEF NInv, TypeOK, RecordInv, format, HwFrameBytes
<1>10. data' % HwFrameBytes' = 0
    BY <1>1, <1>4, <1>9
<1>11. ChunksRecorded' /\ intrblk' = watermark'
    BY <1>1, <1>6, <1>8, <1>9 DEF SetBlock, RecordedFrames, ChunksRecorded
<1> QED BY <1>7, <1>10, <1>11 DEF RecordInv

LEMMA RecordInvFrame ==
    ASSUME NInv, RecordInv, Clean, ~resamp'.in, Record
    PROVE  RecordInv'
<1>1. /\ ctl.run /\ ctl.rec /\ data' = data + HwFrameBytes
      /\ UNCHANGED <<audio, format, mode, dma, intrblk>>
      /\ ctl' = IF data' > intrblk THEN [ctl EXCEPT !.flg = TRUE] ELSE ctl
    BY DEF Record
<1>2. audio = "running" /\ mode = "INPUT" /\ ctl \in Fifoctl
    BY <1>1 DEF NInv, TypeOK, Engine
<1>3. /\ HwFrameBytes' = HwFrameBytes /\ HwFrameBytes \in {2, 4}
      /\ data \in Nat /\ data % HwFrameBytes = 0
      /\ intrblk = watermark /\ intrblk' = watermark' /\ intrblk \in Nat /\ watermark' = watermark
      /\ ctl.flg => data > watermark
      /\ ChunksRecorded
    BY <1>1, <1>2, FrameSizes DEF NInv, TypeOK, RecordInv, format, HwFrameBytes, dma
<1>4. data' \in Nat /\ data' > data
    BY <1>1, <1>3
<1>5. ctl'.flg => data' > watermark'
    <2>1. CASE data' > intrblk
        BY <1>3, <2>1
    <2>2. CASE ~(data' > intrblk)
        <3>1. ctl'.flg => data > watermark
            BY <1>1, <1>3, <2>2
        <3> QED BY <1>3, <1>4, <2>2, <3>1
    <2> QED BY <2>1, <2>2
<1>6. data' % HwFrameBytes' = 0
    BY <1>1, <1>3
<1>7. ChunksRecorded'
    BY <1>1, <1>3 DEF dma, RecordedFrames, ChunksRecorded
<1> QED BY <1>3, <1>5, <1>6, <1>7 DEF RecordInv

LEMMA RecordInvStep ==
    ASSUME RatesOfTheBoard, NInv, RecordInv, ~resamp'.in, [Next]_vars
    PROVE  RecordInv'
<1>1. CASE AudioLayer
    <2>1. CASE Open \/ Close \/ Commit \/ Halt
        BY <2>1 DEF Open, Close, Commit, Halt, RecordInv, Clean
    <2>2. CASE \E p \in Precisions, ch \in Channels, sr \in SampleRates : SetParams(p, ch, sr)
        BY <2>2 DEF SetParams, RecordInv, Clean
    <2>3. ASSUME NEW cc \in Blocks, NEW output \in BOOLEAN, InitTransfer(output, cc) PROVE RecordInv'
        <3>1. audio' = "init" /\ ctl' = [ctl EXCEPT !.run = FALSE, !.enb = FALSE, !.rec = ~output]
            BY <2>3 DEF InitTransfer
        <3>2. ctl'.rec = ~output
            BY <3>1 DEF NInv, TypeOK, Fifoctl
        <3>3. CASE output
            BY <3>1, <3>2, <3>3 DEF RecordInv, Clean
        <3>4. CASE ~output
            <4> DEFINE b == InputBlock(cc)
            <4>1. SetBlock(b) /\ UNCHANGED format
                BY <2>3, <3>4 DEF InitTransfer
            <4>2. b.count <= b.nchunk * RecordedFrames(b.watermark)
                BY RateIsFound, InputBlockFits DEF NInv
            <4> HIDE DEF b
            <4>3. ChunksRecorded'
                BY <4>1, <4>2 DEF SetBlock, RecordedFrames, ChunksRecorded, format, HwFrameBytes
            <4> QED BY <3>1, <4>3 DEF RecordInv, Clean
        <3> QED BY <3>3, <3>4
    <2>4. ASSUME NEW cc \in Blocks, StartOutput(cc) PROVE RecordInv'
        BY <2>4 DEF StartOutput, PdmaOutput, RecordInv
    <2> QED BY <1>1, <2>1, <2>2, <2>3, <2>4, RecordInvStart DEF AudioLayer
<1>2. CASE Intr
    <2>1. CASE audio # "running" /\ (IntrOutput \/ IntrInput \/ IntrStale)
        BY <2>1, RecordInvStale
    <2>2. CASE audio = "running" /\ stale /\ ~IntrLast
        <3>1. UNCHANGED <<audio, stale>>
            BY <1>2, <2>2 DEF Intr, IntrOutput, IntrInput, IntrStale, IntrOutputDone, IntrInputDone, history
        <3> QED BY <2>2, <3>1 DEF RecordInv, Clean
    <2>3. CASE Clean /\ IntrOutput
        BY <2>3 DEF IntrOutput, RecordInv, Clean
    <2>4. CASE IntrLast
        BY <2>4 DEF IntrLast, RecordInv, Clean
    <2>5. ASSUME NEW cc \in Blocks, Clean, IntrOutputDone(cc) PROVE RecordInv'
        <3>1. audio' = audio /\ audio = "running" /\ mode' = "OUTPUT"
            BY <2>5 DEF IntrOutputDone, PdmaOutput
        <3> QED BY <3>1 DEF RecordInv
    <2>6. CASE Clean /\ IntrInput
        BY <2>6, RecordInvChunk
    <2>7. ASSUME NEW cc \in Blocks, Clean, IntrInputDone(cc) PROVE RecordInv'
        BY <2>7, RecordInvDone
    <2>8. \A cc \in Blocks : IntrOutputDone(cc) \/ IntrInputDone(cc) => audio = "running"
        BY DEF IntrOutputDone, IntrInputDone
    <2>9. ~(IntrStale /\ audio = "running")
        BY DEF IntrStale
    <2> QED BY <1>2, <2>1, <2>2, <2>3, <2>4, <2>5, <2>6, <2>7, <2>8, <2>9 DEF Intr, Clean
<1>3. CASE Play
    <2>1. audio' = "running" /\ mode' = "OUTPUT"
        BY <1>3 DEF Play, NInv, Engine
    <2> QED BY <2>1 DEF RecordInv
<1>4. CASE UNCHANGED vars
    BY <1>4 DEF vars, RecordInv, Clean, RecordedFrames, ChunksRecorded, HwFrameBytes, format, dma, hardware, history
<1>5. CASE Record
    <2>1. CASE Clean
        BY <1>5, <2>1, RecordInvFrame
    <2>2. CASE ~Clean
        <3>1. audio = "running" /\ UNCHANGED <<audio, stale>>
            BY <1>5 DEF Record, NInv, Engine, history
        <3> QED BY <2>2, <3>1 DEF RecordInv, Clean
    <2> QED BY <2>1, <2>2
<1> QED BY <1>1, <1>2, <1>3, <1>4, <1>5 DEF Next

-----------------------------------------------------------------------------
(* Playing.                                                                *)

\* What is left of the block fits, chunk by chunk, behind what the watermark leaves,
\* and the watermark is that of every block.
ChunksFit ==
    /\ 3 * watermark <= BuffSize
    /\ count <= nchunk * PlayedFrames(watermark)
    /\ \A cc \in Blocks : watermark = OutputBlock(cc).watermark

\* The FIFO of a transfer without a stale flag holds what has been written, and no
\* more than a watermark when the next chunk is.
FitInv ==
    /\ ~resamp.out
    /\ Clean => data + pad <= FifoSize
    /\ Clean /\ mode = "INPUT" => pad = 0
    /\ (audio = "init" /\ ~ctl.rec) \/ (Clean /\ mode = "OUTPUT") => ChunksFit
    /\ Clean /\ mode = "OUTPUT" /\ ctl.flg => data + pad <= watermark

\* A block does not depend on what the transfer changes.
LEMMA BlockOfFormat == UNCHANGED format => \A cc \in Blocks : OutputBlock(cc)' = OutputBlock(cc)
BY DEF format, OutputBlock, FrameBytes, HwFrameBytes

LEMMA ChunksFitBecause ==
    ASSUME UNCHANGED format, NEW b, SetBlock(b), 3 * b.watermark <= BuffSize,
           b.count <= b.nchunk * PlayedFrames(b.watermark),
           \A cc \in Blocks : b.watermark = OutputBlock(cc).watermark
    PROVE  ChunksFit'
<1>1. count' = b.count /\ nchunk' = b.nchunk /\ watermark' = b.watermark
    BY DEF SetBlock
<1>2. HwFrameBytes' = HwFrameBytes
    BY DEF format, HwFrameBytes
<1>3. PlayedFrames(watermark)' = PlayedFrames(b.watermark)
    BY <1>1, <1>2 DEF PlayedFrames
<1>4. \A cc \in Blocks : watermark' = OutputBlock(cc)'.watermark
    BY <1>1, BlockOfFormat
<1> QED BY <1>1, <1>3, <1>4 DEF ChunksFit

\* What is left when a stale flag has taken a chunk still fits.
LEMMA FitInvStale ==
    ASSUME NInv, FitInv, audio # "running", IntrOutput \/ IntrInput \/ IntrStale
    PROVE  FitInv'
<1>1. /\ audio' = audio /\ ctl'.rec = ctl.rec /\ UNCHANGED <<format, resamp>>
      /\ BlockType(Block) /\ Block.count = count /\ Block.nchunk = nchunk /\ Block.watermark = watermark
      /\ \/ Block.nchunk > 0 /\ SetBlock(NextChunk(Block))
         \/ UNCHANGED <<count, nchunk, watermark>>
    BY StaleTakesAChunk
<1>2. ASSUME ChunksFit PROVE ChunksFit'
    <2>1. CASE Block.nchunk > 0 /\ SetBlock(NextChunk(Block))
        <3> DEFINE c == PlayedFrames(watermark)
                   n == NextChunk(Block)
        <3>1. c \in Nat
            <4>1. HwFrameBytes \in {2, 4} /\ watermark \in Nat /\ BuffSize \in Nat /\ BuffSize - watermark \in Nat
                BY <1>2, FrameSizes, SizeAssumption DEF NInv, TypeOK, ChunksFit
            <4> QED BY <4>1, DivIsFloor DEF PlayedFrames
        <3>2. count <= nchunk * c /\ 3 * watermark <= BuffSize
            BY <1>2 DEF ChunksFit
        <3> HIDE DEF c
        <3>3. n.count <= n.nchunk * c /\ n.watermark = watermark
            BY <1>1, <2>1, <3>1, <3>2, ChunksStayShort, ChunkType
        <3>4. SetBlock(n)
            BY <2>1
        <3> HIDE DEF n
        <3>5. \A cc \in Blocks : n.watermark = OutputBlock(cc).watermark
            BY <1>2, <3>3 DEF ChunksFit
        <3> QED BY <1>1, <3>2, <3>3, <3>4, <3>5, ChunksFitBecause DEF c
    <2>2. CASE UNCHANGED <<count, nchunk, watermark>>
        <3>1. \A cc \in Blocks : OutputBlock(cc)' = OutputBlock(cc)
            BY <1>1, BlockOfFormat
        <3> QED BY <1>1, <1>2, <2>2, <3>1 DEF ChunksFit, PlayedFrames, HwFrameBytes, format
    <2> QED BY <1>1, <2>1, <2>2
<1> QED BY <1>1, <1>2 DEF FitInv, Clean

LEMMA FramesMeanChunks == \A b, m : BlockType(b) /\ b.count = m /\ m \in Nat \ {0} => b.nchunk > 0
BY DEF BlockType

\* The block that a start or a callback begins with.
LEMMA FreshOutputFits ==
    ASSUME BlocksOfOneSize, Formats, orate.hw = orate.sr, NEW cc \in Blocks,
           ChunksFit, BlockType(Block), NEW b, b = Fresh(TRUE, cc)
    PROVE  /\ BlockType(b) /\ b.nchunk > 0 /\ b.watermark = watermark
           /\ 3 * b.watermark <= BuffSize
           /\ b.count <= b.nchunk * PlayedFrames(b.watermark)
<1>1. PICK m \in Nat \ {0} : m = cc \div FrameBytes
    BY BlocksAreLong
<1>0. Block.count = count /\ Block.nchunk = nchunk /\ Block.watermark = watermark
    BY DEF Block
<1>2. CASE b = OutputBlock(cc)
    <2>1. b.watermark = watermark /\ b.count = m
        BY <1>1, <1>2, OutputBlockType DEF ChunksFit
    <2>2. BlockType(b) /\ 3 * b.watermark <= BuffSize /\ b.count <= b.nchunk * PlayedFrames(b.watermark)
        BY <1>2, OutputBlockFits
    <2>3. b.nchunk > 0
        BY <1>1, <2>1, <2>2, FramesMeanChunks
    <2> QED BY <2>1, <2>2, <2>3
<1>3. CASE b = Block /\ count = m
    <2>1. b.count = m /\ b.count = count /\ b.nchunk = nchunk /\ b.watermark = watermark /\ BlockType(b)
        BY <1>0, <1>3
    <2>2. b.nchunk > 0
        BY <1>1, <2>1, FramesMeanChunks
    <2> QED BY <2>1, <2>2 DEF ChunksFit
<1> QED BY <1>1, <1>2, <1>3 DEF Fresh

\* A chunk, and the padding behind it, fit into what the watermark leaves.
LEMMA ChunkIsPlayed ==
    ASSUME Formats, ~resamp.out, NEW b, BlockType(b), b.nchunk > 0, 3 * b.watermark <= BuffSize,
           b.count <= b.nchunk * PlayedFrames(b.watermark),
           NEW left, NEW before \in Nat, before <= b.watermark, OutputChunk(b, left, before)
    PROVE  /\ data' + pad' <= FifoSize
           /\ LET n == NextChunk(b)
              IN  /\ SetBlock(n) /\ n.watermark = b.watermark
                  /\ n.count <= n.nchunk * PlayedFrames(n.watermark)
<1> DEFINE h == HwFrameBytes
           q == ChunkFrames(b)
           wm == b.watermark
           c == PlayedFrames(wm)
<1>1. h \in {2, 4} /\ wm \in Nat /\ wm % 4 = 0
    BY FrameSizes DEF BlockType
<1>2. BuffSize \in Nat /\ BuffSize % 4 = 0 /\ FifoSize \in Nat /\ BuffSize <= FifoSize
    BY SizeAssumption
<1>3. c \in Nat /\ h * c = BuffSize - wm
    <2> DEFINE d == BuffSize - wm
    <2>1. d \in Nat /\ d % h = 0
        BY <1>1, <1>2
    <2>2. c = d \div h
        BY DEF PlayedFrames
    <2> HIDE DEF d, c, h
    <2>3. c \in Nat /\ h * c = d
        BY <1>1, <2>1, <2>2
    <2> QED BY <2>3 DEF d
<1> HIDE DEF c
<1>4. q <= c /\ NextChunk(b).count <= NextChunk(b).nchunk * c
    BY <1>3, ChunksStayShort DEF c
<1>5. q \in Nat /\ NextChunk(b).watermark = wm
    BY ChunkType
<1> DEFINE k == q * h
<1>6. /\ SetBlock(NextChunk(b)) /\ data' = before + k
      /\ pad' = IF k <= wm THEN wm ELSE 0
    BY DEF OutputChunk, OutputChunkOf, OutputDirect
<1> HIDE DEF q, h
<1>7. k \in Nat /\ k <= BuffSize - wm
    BY <1>1, <1>3, <1>4, <1>5
<1> HIDE DEF k, wm
<1>8. data' + pad' <= FifoSize
    BY <1>1, <1>2, <1>6, <1>7 DEF wm
<1> QED BY <1>4, <1>5, <1>6, <1>8 DEF c, wm

\* nec86hw_pdma_output(), which finds at most a watermark left.
LEMMA FitInvPdma ==
    ASSUME RatesOfTheBoard, BlocksOfOneSize, NInv, FitInv, ~resamp'.out, ChunksFit,
           NEW cc \in Blocks, UNCHANGED format,
           NEW before \in Nat, busy => before <= watermark,
           NEW fifoctl \in Fifoctl, fifoctl.flg => stale', PdmaOutput(cc, before, fifoctl)
    PROVE  FitInv'
<1> DEFINE b == Fresh(TRUE, cc)
           old == IF busy THEN before ELSE 0
<1>1. /\ Formats /\ orate.hw = orate.sr /\ BlockType(Block) /\ ~resamp.out /\ watermark \in Nat
    BY RateIsFound DEF NInv, TypeOK, BlockInv, FitInv
<1>2. /\ BlockType(b) /\ b.nchunk > 0 /\ b.watermark = watermark /\ 3 * b.watermark <= BuffSize
      /\ b.count <= b.nchunk * PlayedFrames(b.watermark)
    BY <1>1, FreshOutputFits
<1>3. mode' = "OUTPUT" /\ OutputChunk(b, cc, old)
    BY DEF PdmaOutput
<1>4. ctl'.flg => stale'
    <2>1. CASE busy
        BY <2>1 DEF PdmaOutput, Fifoctl
    <2>2. CASE ~busy
        BY <2>2 DEF PdmaOutput, Fifoctl
    <2> QED BY <2>1, <2>2
<1> HIDE DEF b
<1>5. old \in Nat /\ old <= b.watermark
    <2>1. old \in Nat /\ old <= watermark
        BY <1>1
    <2> HIDE DEF old
    <2> QED BY <1>2, <2>1
<1> HIDE DEF old
<1> DEFINE n == NextChunk(b)
<1>6. /\ data' + pad' <= FifoSize /\ SetBlock(n) /\ n.watermark = b.watermark
      /\ n.count <= n.nchunk * PlayedFrames(n.watermark)
    BY <1>1, <1>2, <1>3, <1>5, ChunkIsPlayed
<1> HIDE DEF n
<1>7. 3 * n.watermark <= BuffSize /\ \A c \in Blocks : n.watermark = OutputBlock(c).watermark
    BY <1>2, <1>6 DEF ChunksFit
<1>8. ChunksFit'
    BY <1>6, <1>7, ChunksFitBecause
<1> QED BY <1>3, <1>4, <1>6, <1>8 DEF FitInv, Clean

\* What the handler finds, and what is left of it when it has dropped the padding.
LEMMA LeftAtWatermark ==
    ASSUME NInv, FitInv, Clean, Interrupt, mode = "OUTPUT"
    PROVE  /\ ChunksFit
           /\ (IF padded THEN 0 ELSE data + pad) \in Nat
           /\ (IF padded THEN 0 ELSE data + pad) <= watermark
<1>1. ctl.flg
    BY InterruptFinds
<1>2. data \in Nat /\ pad \in Nat /\ watermark \in Nat
    BY DEF NInv, TypeOK
<1> QED BY <1>1, <1>2 DEF FitInv

LEMMA FitInvChunk ==
    ASSUME NInv, FitInv, Clean, ~resamp'.out, IntrOutput PROVE FitInv'
<1> DEFINE before == IF padded THEN 0 ELSE data + pad
<1>1. /\ Interrupt /\ mode = "OUTPUT" /\ count > 0
      /\ OutputChunk(Block, rest, before) /\ ctl' = Enabled
      /\ UNCHANGED <<audio, format, mode>>
    BY DEF IntrOutput
<1>2. audio = "running" /\ ChunksFit /\ before \in Nat /\ before <= watermark
    BY <1>1, LeftAtWatermark DEF Clean
<1> HIDE DEF before
<1>3. /\ BlockType(Block) /\ Block.nchunk > 0 /\ Block.watermark = watermark /\ ~ctl'.flg
      /\ 3 * Block.watermark <= BuffSize
      /\ Block.count <= Block.nchunk * PlayedFrames(Block.watermark)
    BY <1>1, <1>2, InterruptFinds DEF Block, ChunksFit
<1>4. Formats /\ ~resamp.out
    BY DEF NInv, FitInv
<1> DEFINE n == NextChunk(Block)
<1>5. /\ data' + pad' <= FifoSize /\ SetBlock(n) /\ n.watermark = Block.watermark
      /\ n.count <= n.nchunk * PlayedFrames(n.watermark)
    BY <1>1, <1>2, <1>3, <1>4, ChunkIsPlayed
<1> HIDE DEF n
<1>6. 3 * n.watermark <= BuffSize /\ \A c \in Blocks : n.watermark = OutputBlock(c).watermark
    BY <1>2, <1>3, <1>5 DEF ChunksFit
<1>7. ChunksFit'
    BY <1>1, <1>5, <1>6, ChunksFitBecause
<1> QED BY <1>1, <1>3, <1>5, <1>7 DEF FitInv

LEMMA FitInvPlay ==
    ASSUME NInv, FitInv, Clean, ~resamp'.out, Play PROVE FitInv'
<1>1. /\ ctl.run /\ ~ctl.rec /\ data + pad > 0
      /\ UNCHANGED <<audio, format, resamp, acc, mode, dma, busy, handler, intrblk, pan, history>>
      /\ ctl' \in {ctl, [ctl EXCEPT !.flg = TRUE]}
      /\ ctl' # ctl => data' + pad' <= intrblk
    BY DEF Play
<1>2. audio = "running" /\ mode = "OUTPUT"
    BY <1>1 DEF NInv, Engine
<1>3. /\ data \in Nat /\ pad \in Nat /\ HwFrameBytes \in {2, 4} /\ intrblk = watermark
      /\ watermark \in Nat /\ FifoSize \in Nat
    BY <1>2, FrameSizes, SizeAssumption DEF NInv, TypeOK, PadInv
<1>4. \/ data' = data - HwFrameBytes /\ pad' = pad
      \/ pad' = pad - HwFrameBytes /\ data' = data
    BY <1>1, <1>3 DEF Play
<1>5. data' + pad' \in Int /\ data' + pad' <= data + pad
    BY <1>3, <1>4
<1>6. data + pad <= FifoSize /\ ChunksFit /\ (ctl.flg => data + pad <= watermark)
    BY <1>2 DEF FitInv, Clean
<1>7. data' + pad' <= FifoSize
    BY <1>3, <1>5, <1>6
<1>8. ctl'.flg => data' + pad' <= watermark
    <2>1. CASE ctl' = ctl
        BY <1>3, <1>5, <1>6, <2>1
    <2>2. CASE ctl' # ctl
        BY <1>1, <1>3, <2>2
    <2> QED BY <2>1, <2>2
<1>9. ChunksFit' /\ watermark' = watermark
    <2>1. \A cc \in Blocks : OutputBlock(cc)' = OutputBlock(cc)
        BY <1>1, BlockOfFormat
    <2> QED BY <1>1, <1>6, <2>1 DEF ChunksFit, PlayedFrames, HwFrameBytes, dma, format
<1> QED BY <1>1, <1>2, <1>7, <1>8, <1>9 DEF FitInv

LEMMA FitInvRecord ==
    ASSUME NInv, FitInv, Clean, ~resamp'.out, Record PROVE FitInv'
<1>1. /\ ctl.run /\ ctl.rec /\ data + HwFrameBytes <= FifoSize /\ data' = data + HwFrameBytes
      /\ UNCHANGED <<audio, mode, pad>>
    BY DEF Record
<1>2. audio = "running" /\ mode = "INPUT"
    BY <1>1 DEF NInv, Engine
<1>3. data \in Nat /\ HwFrameBytes \in {2, 4} /\ pad = 0
    BY <1>2, FrameSizes DEF NInv, TypeOK, FitInv
<1> QED BY <1>1, <1>2, <1>3 DEF FitInv

\* Reading only empties the FIFO.
LEMMA InputEmpties ==
    ASSUME NInv, mode = "INPUT", Interrupt, NEW d,
           d = IF InputBytes(Block) <= data THEN data - InputBytes(Block) ELSE 0
    PROVE  d \in Int /\ d <= data
<1>1. BlockType(Block) /\ Formats /\ acc \in Nat /\ data \in Nat
    BY InterruptFinds DEF NInv, TypeOK
<1>2. InputBytes(Block) \in Nat
    <2>1. Block.nchunk > 0 => InputChunkOf(Block).hw \in Nat
        BY <1>1, InputChunkOfType
    <2> QED BY <1>1, <2>1, FrameSizes DEF InputBytes
<1> QED BY <1>1, <1>2

LEMMA FitInvRead ==
    ASSUME NInv, FitInv, Clean, ~resamp'.out, mode = "INPUT", Interrupt,
           data' = (IF InputBytes(Block) <= data THEN data - InputBytes(Block) ELSE 0),
           pad' = pad, mode' = mode, audio' = audio
    PROVE  FitInv'
<1>1. audio = "running" /\ pad = 0
    BY DEF FitInv, Clean
<1>2. data' \in Int /\ data' <= data
    BY InputEmpties
<1>3. data \in Nat /\ FifoSize \in Nat /\ data + pad <= FifoSize
    BY SizeAssumption DEF NInv, TypeOK, FitInv
<1> QED BY <1>1, <1>2, <1>3 DEF FitInv

LEMMA FitInvInit == ASSUME RatesOfTheBoard PROVE Init => FitInv
<1> SUFFICES ASSUME Init PROVE FitInv
    OBVIOUS
<1>1. orate.hw = orate.sr /\ irate.hw = irate.sr
    BY NInvInit, RateIsFound DEF NInv
<1>2. ~resamp.out /\ audio = "closed"
    BY <1>1 DEF Init
<1> QED BY <1>2 DEF FitInv, Clean

LEMMA FitInvTransfer ==
    ASSUME RatesOfTheBoard, BlocksOfOneSize, NInv, FitInv, ~resamp'.out,
           NEW cc \in Blocks, NEW output \in BOOLEAN, InitTransfer(output, cc)
    PROVE  FitInv'
<1>1. /\ audio' = "init" /\ UNCHANGED format
      /\ ctl' = [ctl EXCEPT !.run = FALSE, !.enb = FALSE, !.rec = ~output]
    BY DEF InitTransfer
<1>2. ctl'.rec = ~output
    BY <1>1 DEF NInv, TypeOK, Fifoctl
<1>3. ASSUME output PROVE ChunksFit'
    <2> DEFINE b == OutputBlock(cc)
    <2>1. SetBlock(b)
        BY <1>3 DEF InitTransfer
    <2>2. 3 * b.watermark <= BuffSize /\ b.count <= b.nchunk * PlayedFrames(b.watermark)
        BY RateIsFound, OutputBlockFits DEF NInv
    <2>3. \A c \in Blocks : b.watermark = OutputBlock(c).watermark
        BY DEF BlocksOfOneSize
    <2> HIDE DEF b
    <2> QED BY <1>1, <2>1, <2>2, <2>3, ChunksFitBecause
<1> QED BY <1>1, <1>2, <1>3 DEF FitInv, Clean

LEMMA FitInvStep ==
    ASSUME RatesOfTheBoard, BlocksOfOneSize, NInv, FitInv, ~resamp'.out, [Next]_vars
    PROVE  FitInv'
<1>0. data \in Nat /\ pad \in Nat /\ FifoSize \in Nat
    BY SizeAssumption DEF NInv, TypeOK
<1>1. CASE AudioLayer
    <2>1. CASE Open \/ Close \/ Commit \/ Halt
        BY <2>1 DEF Open, Close, Commit, Halt, FitInv, Clean
    <2>2. CASE \E p \in Precisions, ch \in Channels, sr \in SampleRates : SetParams(p, ch, sr)
        BY <2>2 DEF SetParams, FitInv, Clean
    <2>3. ASSUME NEW cc \in Blocks, StartOutput(cc) PROVE FitInv'
        <3>1. /\ audio = "init" /\ ~ctl.rec /\ PdmaOutput(cc, data, ctl) /\ UNCHANGED format
              /\ stale' = ctl.flg
            BY <2>3 DEF StartOutput
        <3>2. ~busy /\ ctl \in Fifoctl /\ ChunksFit
            BY <3>1 DEF NInv, TypeOK, Engine, FitInv
        <3> QED BY <1>0, <3>1, <3>2, FitInvPdma
    <2>4. ASSUME NEW cc \in Blocks, StartInput(cc) PROVE FitInv'
        <3>1. audio' = "running" /\ mode' = "INPUT" /\ data' = 0 /\ pad' = 0
            BY <2>4 DEF StartInput, EmptyFifo
        <3> QED BY <1>0, <3>1 DEF FitInv
    <2> QED BY <1>1, <2>1, <2>2, <2>3, <2>4, FitInvTransfer DEF AudioLayer
<1>2. CASE Intr
    <2>1. CASE audio # "running" /\ (IntrOutput \/ IntrInput \/ IntrStale)
        BY <2>1, FitInvStale
    <2>2. CASE audio = "running" /\ stale /\ ~IntrLast
        <3>1. UNCHANGED <<audio, stale>>
            BY <1>2, <2>2 DEF Intr, IntrOutput, IntrInput, IntrStale, IntrOutputDone, IntrInputDone, history
        <3> QED BY <2>2, <3>1 DEF FitInv, Clean
    <2>3. CASE IntrLast
        BY <2>3 DEF IntrLast, FitInv, Clean
    <2>4. CASE Clean /\ IntrInput
        BY <2>4, FitInvRead DEF IntrInput, InputChunk
    <2>5. ASSUME NEW cc \in Blocks, Clean, IntrInputDone(cc) PROVE FitInv'
        BY <2>5, FitInvRead DEF IntrInputDone
    <2>6. ASSUME NEW cc \in Blocks, Clean, IntrOutputDone(cc) PROVE FitInv'
        <3> DEFINE before == IF padded THEN 0 ELSE data + pad
        <3>1. Interrupt /\ mode = "OUTPUT" /\ PdmaOutput(cc, before, Cleared) /\ UNCHANGED format
            BY <2>6 DEF IntrOutputDone, Callback
        <3>2. ChunksFit /\ before \in Nat /\ before <= watermark
            BY <2>6, <3>1, LeftAtWatermark
        <3> HIDE DEF before
        <3>3. Cleared \in Fifoctl /\ ~Cleared.flg
            BY <3>1, InterruptFinds
        <3> QED BY <3>1, <3>2, <3>3, FitInvPdma
    <2>7. CASE Clean /\ IntrOutput
        BY <2>7, FitInvChunk
    <2>8. \A cc \in Blocks : IntrOutputDone(cc) \/ IntrInputDone(cc) => audio = "running"
        BY DEF IntrOutputDone, IntrInputDone
    <2>9. ~(IntrStale /\ audio = "running")
        BY DEF IntrStale
    <2> QED BY <1>2, <2>1, <2>2, <2>3, <2>4, <2>5, <2>6, <2>7, <2>8, <2>9 DEF Intr, Clean
<1>3. CASE Play \/ Record
    <2>1. CASE Clean
        BY <1>3, <2>1, FitInvPlay, FitInvRecord
    <2>2. CASE ~Clean
        <3>1. audio = "running" /\ UNCHANGED <<audio, stale>>
            BY <1>3 DEF Play, Record, NInv, Engine, history
        <3> QED BY <2>2, <3>1 DEF FitInv, Clean
    <2> QED BY <2>1, <2>2
<1>4. CASE UNCHANGED vars
    <2>1. UNCHANGED <<audio, format, resamp, mode, dma, data, pad, ctl, stale>>
        BY <1>4 DEF vars, hardware, history
    <2>2. \A cc \in Blocks : OutputBlock(cc)' = OutputBlock(cc)
        BY <2>1, BlockOfFormat
    <2>3. ChunksFit' = ChunksFit
        BY <2>1, <2>2 DEF ChunksFit, PlayedFrames, HwFrameBytes, dma, format
    <2> QED BY <2>1, <2>3 DEF FitInv, Clean, dma
<1> QED BY <1>1, <1>2, <1>3, <1>4 DEF Next

-----------------------------------------------------------------------------
(* The theorems about rates of the board.                                  *)

\* No chunk overflows the FIFO when nothing is resampled and blocks are of one size,
\* however many chunks a block has and whatever it leaves over, in every transfer that
\* was started with INTRFLG clear: the driver writes without looking at the FIFO's level.
THEOREM NothingOverflows ==
    ASSUME RatesOfTheBoard, BlocksOfOneSize PROVE Spec => []FifoFits
<1>1. Init => NInv /\ FitInv /\ ~resamp.in /\ ~resamp.out
    BY NInvInit, FitInvInit, RecordInvInit DEF FitInv, RecordInv
<1>2. (NInv /\ FitInv /\ ~resamp.in /\ ~resamp.out) /\ [Next]_vars
          => (NInv /\ FitInv /\ ~resamp.in /\ ~resamp.out)'
    BY NInvStep, NothingResampled, FitInvStep
<1>3. FitInv => FifoFits
    BY DEF FitInv, FifoFits
<1> QED BY <1>1, <1>2, <1>3, PTL DEF Spec

\* Nor is a chunk read before it has been recorded, with blocks of any sizes, in a
\* transfer that was started with INTRFLG clear; and each is copied to the place it
\* belongs, stale flag or not.
THEOREM NothingIsReadEarly ==
    ASSUME RatesOfTheBoard PROVE Spec => []RecordsWhole
<1>1. Init => NInv /\ RecordInv /\ ~resamp.in /\ ~resamp.out
    BY NInvInit, FitInvInit, RecordInvInit DEF FitInv, RecordInv
<1>2. (NInv /\ RecordInv /\ ~resamp.in /\ ~resamp.out) /\ [Next]_vars
          => (NInv /\ RecordInv /\ ~resamp.in /\ ~resamp.out)'
    BY NInvStep, NothingResampled, RecordInvStep
<1>3. NInv /\ RecordInv => RecordsWhole
    <2> SUFFICES ASSUME NInv, RecordInv, Clean, Interrupt, mode = "INPUT" PROVE InputBytes(Block) <= data
        BY DEF RecordsWhole, NoShortRead, NInv
    <2> QED BY ChunkIsRecorded
<1> QED BY <1>1, <1>2, <1>3, PTL DEF Spec
=============================================================================
