------------------------------- MODULE Nec86 -------------------------------
(***************************************************************************)
(* The pseudo-DMA engine of the PC-9801-86 audio driver                    *)
(* (src/dev/nec86hw.c).  A block of the audio layer is cut into chunks     *)
(* that fit the board's FIFO; the first is moved by nec86hw_pdma_output()  *)
(* or when the FIFO has filled up, the others by nec86hw_intr().  Every    *)
(* entry point runs under audio_lock, so that each is one action.  Samples *)
(* are left out: bytes in the FIFO are counted, because every decision of  *)
(* the driver is about their number.                                       *)
(***************************************************************************)
EXTENDS Integers, FiniteSets

CONSTANTS
    FifoSize,   \* bytes in the board's ring buffer
    BuffSize,   \* NEC86_BUFFSIZE, a little less
    Unit,       \* NEC86_INTRBLK_UNIT
    HwRates,    \* nec86hw_rate_table[rate_type]; its first entry is the highest
    SampleRates,\* what programs ask for
    Blocks,     \* bytes per block, as nec86hw_round_blocksize() gives them
    Precisions, \* bits per sample, 8 and 16
    Channels    \* 1 and 2

RatioOut == 50  \* WATERMARK_RATIO_OUT
RatioIn  == 50  \* WATERMARK_RATIO_IN
RatioMax == 100 \* WATERMARK_MAX_RATIO

ASSUME SizeAssumption ==
    /\ Unit \in Nat \ {0} /\ BuffSize \in Nat /\ FifoSize \in Nat
    /\ Unit % 4 = 0 /\ BuffSize % 4 = 0    \* whole frames of the board
    /\ 3 * Unit <= BuffSize /\ BuffSize <= FifoSize
ASSUME RateAssumption ==
    HwRates \subseteq Nat \ {0} /\ HwRates # {} /\ IsFiniteSet(HwRates)
    /\ SampleRates \subseteq Nat \ {0}
ASSUME FormatAssumption ==
    Precisions \subseteq {8, 16} /\ Channels \subseteq {1, 2} /\ Blocks \subseteq Nat \ {0}

VARIABLES
    audio,      \* what the audio layer is about: see Phases
    precision, channels,
    orate, irate,   \* [sr |-> sc_orate, hw |-> hw_orate], the same for input
    resamp,     \* [out, in |-> BOOLEAN]: func_fifo_output, func_fifo_input
    acc,        \* conv_acc
    mode,       \* pdma_mode
    count, nchunk, watermark, padded,   \* pdma_...
    rest,       \* pdma_ptr, counted from the end of the block it points into
    busy,       \* intr_busy
    handler,    \* sc_intr is set
    data,       \* external: sample bytes in the FIFO
    pad,        \* external: padding bytes behind them
    ctl,        \* external: RUN, RECMODE, ENBLINTR and INTRFLG of NEC86_FIFOCTL
    intrblk,    \* external: NEC86_FIFOINTRBLK, in bytes
    pan,        \* external: both PAN bits of NEC86_CTRL are set
    turn,       \* history: changes with every call of sc_intr
    stale       \* history: INTRFLG was set when the running transfer was started

format   == <<precision, channels, orate, irate>>
dma      == <<count, nchunk, watermark, padded, rest>>
hardware == <<data, pad, ctl, intrblk, pan>>
history  == <<turn, stale>>
vars == <<audio, format, resamp, acc, mode, dma, busy, handler, hardware, history>>

Phases == {"closed", "open", "set", "ready", "init", "running", "done"}
Modes  == {"NONE", "OUTPUT", "INPUT"}
Rate   == [sr : SampleRates, hw : HwRates]
Fifoctl == [run : BOOLEAN, rec : BOOLEAN, enb : BOOLEAN, flg : BOOLEAN]

TypeOK ==
    /\ audio \in Phases /\ precision \in Precisions /\ channels \in Channels
    /\ orate \in Rate /\ irate \in Rate /\ resamp \in [out : BOOLEAN, in : BOOLEAN]
    /\ acc \in Nat /\ mode \in Modes
    /\ count \in Nat /\ nchunk \in Nat /\ watermark \in Nat /\ padded \in BOOLEAN
    /\ rest \in Int
    /\ busy \in BOOLEAN /\ handler \in BOOLEAN
    /\ data \in Nat /\ pad \in Nat /\ ctl \in Fifoctl /\ intrblk \in Nat /\ pan \in BOOLEAN
    /\ turn \in BOOLEAN /\ stale \in BOOLEAN

-----------------------------------------------------------------------------
(* Rates, block sizes and watermarks.  Operators named ...Wrong are        *)
(* faulted forms of the operator after them.                               *)

Highest(S) == CHOOSE r \in S : \A s \in S : s <= r
Lowest(S)  == CHOOSE r \in S : \A s \in S : r <= s

\* nec86hw_rate_bits(): the lowest hardware rate that is not below, or the first
RateBits(sr) ==
    LET above == {r \in HwRates : r >= sr}
    IN  IF above = {} THEN Highest(HwRates) ELSE Lowest(above)

\* nec86hw_round_blocksize(): blocks are so long that they make a frame of the board
ASSUME BlockAssumption ==
    \A cc \in Blocks, sr \in SampleRates : (cc \div 4) * RateBits(sr) >= sr

RoundWatermark(wm) == IF wm < Unit THEN Unit ELSE wm - (wm % Unit)

CeilDiv(n, d) == (n + d - 1) \div d

FrameBytes   == channels * (precision \div 8)   \* bpf
HwFrameBytes == 2 * (precision \div 8)          \* the board is always stereo

\* nec86hw_set_output_block() without the second computation of pdma_nchunk
OutputBlockWrong(cc) ==
    LET frames == cc \div FrameBytes
        size == ((frames * orate.hw) \div orate.sr) * HwFrameBytes
        n    == CeilDiv(size * RatioMax, BuffSize * RatioMax)
    IN  [count |-> frames, nchunk |-> n,
         watermark |-> RoundWatermark((size * RatioOut) \div (n * RatioMax))]

\* nec86hw_set_output_block()
OutputBlock(cc) ==
    LET frames == cc \div FrameBytes
        size == ((frames * orate.hw) \div orate.sr) * HwFrameBytes
        n    == CeilDiv(size * (RatioMax + RatioOut), BuffSize * RatioMax)
        wm   == RoundWatermark((size * RatioOut) \div (n * RatioMax))
    IN  [count |-> frames, watermark |-> wm,
         nchunk |-> IF size + wm > BuffSize THEN CeilDiv(size, BuffSize - wm) ELSE n]

\* nec86hw_set_input_block() that rounds the watermark down
InputBlockWrong(cc) ==
    LET frames == cc \div FrameBytes
        most == RoundWatermark((BuffSize * RatioIn) \div RatioMax)
        size == CeilDiv(frames * irate.hw, irate.sr) * HwFrameBytes
        n    == CeilDiv(size, most)
    IN  [count |-> frames, nchunk |-> n, watermark |-> RoundWatermark(size \div n)]

\* nec86hw_set_input_block()
InputBlock(cc) ==
    LET frames == cc \div FrameBytes
        most == RoundWatermark((BuffSize * RatioIn) \div RatioMax)
        size == CeilDiv(frames * irate.hw, irate.sr) * HwFrameBytes
        n    == CeilDiv(size, most)
    IN  [count |-> frames, nchunk |-> n,
         watermark |-> RoundWatermark((size \div n) + (Unit - 1))]

-----------------------------------------------------------------------------
(* The transfer loops: how many hardware frames a chunk of frames makes,   *)
(* and conv_acc after it.                                                  *)

OutputDirect(frames) == [hw |-> frames, acc |-> acc]

\* while (acc <= hw_orate) { write one; acc += orate; }  acc -= hw_orate;
\* once per frame: all that the position acc + n * orate allows are written
OutputResampled(frames) ==
    LET end == frames * orate.hw
        n   == IF acc > end THEN 0 ELSE ((end - acc) \div orate.sr) + 1
    IN  [hw |-> n, acc |-> acc + n * orate.sr - end]

InputDirect(frames) == [hw |-> frames, acc |-> acc]

\* while (acc > irate) { read one; acc -= irate; }  ...  acc += hw_irate;
\* once per frame
InputResampled(frames) ==
    LET last == acc + (frames - 1) * irate.hw
        n    == IF last > irate.sr THEN CeilDiv(last, irate.sr) - 1 ELSE 0
    IN  [hw |-> n, acc |-> last - n * irate.sr + irate.hw]

\* pdma_count / pdma_nchunk
ChunkFrames(b) == b.count \div b.nchunk
OutputChunkOf(b) ==
    IF resamp.out THEN OutputResampled(ChunkFrames(b)) ELSE OutputDirect(ChunkFrames(b))
InputChunkOf(b) ==
    IF resamp.in THEN InputResampled(ChunkFrames(b)) ELSE InputDirect(ChunkFrames(b))

NextChunk(b) ==
    [count |-> b.count - ChunkFrames(b), nchunk |-> b.nchunk - 1, watermark |-> b.watermark]
Block == [count |-> count, nchunk |-> nchunk, watermark |-> watermark]
SetBlock(b) == count' = b.count /\ nchunk' = b.nchunk /\ watermark' = b.watermark

\* nec86hw_output_chunk() without the padding
OutputChunkWrong(b, left, before) ==
    LET chunk == IF b.nchunk > 0 THEN OutputChunkOf(b) ELSE [hw |-> 0, acc |-> acc]
    IN  /\ SetBlock(IF b.nchunk > 0 THEN NextChunk(b) ELSE b)
        /\ acc' = chunk.acc
        /\ data' = before + chunk.hw * HwFrameBytes
        /\ pad' = 0 /\ padded' = FALSE
        /\ rest' = left

\* nec86hw_output_chunk() that pads only up to the watermark
OutputChunkShortPadWrong(b, left, before) ==
    LET chunk == IF b.nchunk > 0 THEN OutputChunkOf(b) ELSE [hw |-> 0, acc |-> acc]
        nbyte == chunk.hw * HwFrameBytes
        small == nbyte <= b.watermark
    IN  /\ SetBlock(IF b.nchunk > 0 THEN NextChunk(b) ELSE b)
        /\ acc' = chunk.acc
        /\ data' = before + nbyte
        /\ pad' = IF small THEN b.watermark - nbyte ELSE 0
        /\ padded' = small
        /\ rest' = left - nbyte

\* nec86hw_output_chunk() for a block b with pdma_ptr at `left' and a FIFO that
\* holds `before' bytes; pdma_ptr advances by the bytes written to the board
OutputChunk(b, left, before) ==
    LET chunk == IF b.nchunk > 0 THEN OutputChunkOf(b) ELSE [hw |-> 0, acc |-> acc]
        nbyte == chunk.hw * HwFrameBytes
        small == nbyte <= b.watermark
    IN  /\ SetBlock(IF b.nchunk > 0 THEN NextChunk(b) ELSE b)
        /\ acc' = chunk.acc
        /\ data' = before + nbyte
        /\ pad' = IF small THEN b.watermark ELSE 0
        /\ padded' = small
        /\ rest' = left - nbyte

InputBytes(b) == IF b.nchunk > 0 THEN InputChunkOf(b).hw * HwFrameBytes ELSE 0

\* nec86hw_input_chunk(); a short read returns what the port shows
InputChunk(b) ==
    /\ SetBlock(IF b.nchunk > 0 THEN NextChunk(b) ELSE b)
    /\ acc' = IF b.nchunk > 0 THEN InputChunkOf(b).acc ELSE acc
    /\ data' = IF InputBytes(b) <= data THEN data - InputBytes(b) ELSE 0
    /\ rest' = IF b.nchunk > 0 THEN rest - ChunkFrames(b) * FrameBytes ELSE rest
    /\ UNCHANGED <<pad, padded>>

-----------------------------------------------------------------------------
(* Entry points.  The audio layer opens, sets parameters, commits them,    *)
(* initializes the direction and starts, and then again from the callback. *)
(* What it sets it commits before it does anything else.                   *)

Init ==
    /\ audio = "closed" /\ precision \in Precisions /\ channels \in Channels
    /\ \E r \in SampleRates :
           orate = [sr |-> r, hw |-> RateBits(r)] /\ irate = orate
    /\ resamp = [out |-> orate.sr # orate.hw, in |-> irate.sr # irate.hw]
    /\ acc = 0 /\ mode = "NONE"
    /\ count = 0 /\ nchunk = 0 /\ watermark = 0 /\ padded = FALSE /\ rest = 0
    /\ busy = FALSE /\ handler = FALSE
    /\ data = 0 /\ pad = 0 /\ intrblk = Unit /\ pan = TRUE /\ turn = FALSE /\ stale = FALSE
    /\ ctl = [run |-> FALSE, rec |-> FALSE, enb |-> FALSE, flg |-> FALSE]

EmptyFifo == data' = 0 /\ pad' = 0

\* nec86hw_open() with nec86hw_reset()
Open ==
    /\ audio = "closed" /\ audio' = "open"
    /\ handler' = FALSE /\ acc' = 0
    /\ busy' = FALSE /\ mode' = "NONE"
    /\ ctl' = [ctl EXCEPT !.run = FALSE, !.enb = FALSE, !.flg = FALSE]
    /\ EmptyFifo
    /\ UNCHANGED <<format, resamp, dma, intrblk, pan, history>>

\* nec86hw_close()
Close ==
    /\ audio \notin {"closed", "set", "running"} /\ audio' = "closed"
    /\ handler' = FALSE
    /\ busy' = FALSE /\ mode' = "NONE"
    /\ ctl' = [ctl EXCEPT !.run = FALSE, !.enb = FALSE, !.flg = FALSE]
    /\ EmptyFifo
    /\ UNCHANGED <<format, resamp, acc, dma, intrblk, pan, history>>

\* nec86hw_set_params(), for both directions
SetParams(prec, ch, sr) ==
    /\ audio \in {"open", "done"} /\ audio' = "set"
    /\ precision' = prec /\ channels' = ch
    /\ orate' = [sr |-> sr, hw |-> RateBits(sr)] /\ irate' = orate'
    /\ UNCHANGED <<resamp, acc, mode, dma, busy, handler, hardware, history>>

\* nec86hw_commit_settings()
Commit ==
    /\ audio = "set" /\ audio' = "ready"
    /\ resamp' = [out |-> orate.sr # orate.hw, in |-> irate.sr # irate.hw]
    /\ UNCHANGED <<format, acc, mode, dma, busy, handler, hardware, history>>

\* nec86hw_set_watermark(): the register is NEC86_CTRL unless the FIFO runs
WriteWatermark(wm) ==
    IF ctl'.run
    THEN intrblk' = wm /\ UNCHANGED pan
    ELSE pan' = ((((wm \div Unit) - 1) \div 16) % 4 = 3) /\ UNCHANGED intrblk

\* nec86hw_pdma_init_output(), nec86hw_pdma_init_input(): INTRFLG stays as it is
InitTransfer(output, cc) ==
    /\ audio \in {"open", "ready", "done"} /\ audio' = "init"
    /\ busy' = FALSE
    /\ ctl' = [ctl EXCEPT !.run = FALSE, !.enb = FALSE, !.rec = ~output]
    /\ EmptyFifo
    /\ LET b == IF output THEN OutputBlock(cc) ELSE InputBlock(cc)
       IN  SetBlock(b) /\ WriteWatermark(b.watermark)
    /\ UNCHANGED <<format, resamp, acc, mode, padded, rest, handler, history>>

\* The block that a start begins with: computed anew if the size differs
Fresh(output, cc) ==
    IF count # cc \div FrameBytes
    THEN IF output THEN OutputBlock(cc) ELSE InputBlock(cc)
    ELSE Block

\* nec86hw_pdma_output(); from nec86hw_intr() when busy, with `before' bytes left
PdmaOutput(cc, before, fifoctl) ==
    /\ cc % FrameBytes = 0
    /\ handler' = TRUE /\ mode' = "OUTPUT" /\ busy' = TRUE
    /\ OutputChunk(Fresh(TRUE, cc), cc, IF busy THEN before ELSE 0)
    /\ ctl' = IF busy THEN [fifoctl EXCEPT !.enb = TRUE]
                      ELSE [fifoctl EXCEPT !.rec = FALSE, !.enb = TRUE, !.run = TRUE]
    /\ WriteWatermark(watermark')

\* nec86hw_pdma_input() on a stopped board
StartInput(cc) ==
    /\ audio = "init" /\ ctl.rec /\ audio' = "running"
    /\ cc % FrameBytes = 0
    /\ handler' = TRUE /\ mode' = "INPUT" /\ busy' = TRUE
    /\ SetBlock(Fresh(FALSE, cc)) /\ padded' = FALSE /\ rest' = cc
    /\ ctl' = [ctl EXCEPT !.rec = TRUE, !.enb = TRUE, !.run = TRUE]
    /\ EmptyFifo
    /\ WriteWatermark(watermark')
    /\ stale' = ctl.flg
    /\ UNCHANGED <<format, resamp, acc, turn>>

StartOutput(cc) ==
    /\ audio = "init" /\ ~ctl.rec /\ audio' = "running"
    /\ PdmaOutput(cc, data, ctl)
    /\ stale' = ctl.flg
    /\ UNCHANGED <<format, resamp, turn>>

\* nec86hw_halt_pdma(); it leaves INTRFLG
Halt ==
    /\ audio = "running" /\ audio' = "done"
    /\ busy' = FALSE
    /\ ctl' = [ctl EXCEPT !.run = FALSE, !.enb = FALSE]
    /\ stale' = FALSE
    /\ UNCHANGED <<format, resamp, acc, mode, dma, handler, data, pad, intrblk, pan, turn>>

-----------------------------------------------------------------------------
(* nec86hw_intr().  Its only test is INTRFLG: a flag that a halted transfer *)
(* has left is served too, in the middle of the next one or when none runs. *)
(* The branch for PDMA_MODE_NONE, and a recording that has no frames left, *)
(* are not reached: InterruptIsExpected.                                   *)

Interrupt == ctl.flg

\* nec86hw_clear_intrflg(), and the enabling after a chunk that has been moved
Cleared == [ctl EXCEPT !.flg = FALSE]
Enabled == [Cleared EXCEPT !.enb = TRUE]

\* The callback of an audio layer that plays or records: it starts the next
\* block or halts
Callback ==
    /\ turn' = ~turn
    /\ UNCHANGED <<format, resamp>>

IntrOutput ==
    /\ Interrupt /\ mode = "OUTPUT" /\ count > 0
    /\ OutputChunk(Block, rest, IF padded THEN 0 ELSE data + pad)
    /\ ctl' = Enabled
    /\ UNCHANGED <<audio, format, resamp, mode, busy, handler, intrblk, pan, history>>

IntrOutputDone(cc) ==
    /\ audio = "running" /\ Interrupt /\ mode = "OUTPUT" /\ count = 0
    /\ PdmaOutput(cc, IF padded THEN 0 ELSE data + pad, Cleared)
    /\ UNCHANGED <<audio, stale>> /\ Callback

IntrInput ==
    /\ Interrupt /\ mode = "INPUT" /\ count > 0
    /\ InputChunk(Block) /\ count' > 0
    /\ ctl' = Enabled
    /\ UNCHANGED <<audio, format, resamp, mode, busy, handler, intrblk, pan, history>>

\* the last chunk, and nec86hw_pdma_input() for the next block from the callback
IntrInputDone(cc) ==
    /\ audio = "running" /\ Interrupt /\ mode = "INPUT" /\ cc % FrameBytes = 0
    /\ LET last == NextChunk(Block)
           n == IF cc \div FrameBytes # last.count THEN InputBlock(cc) ELSE last
       IN  /\ last.count = 0
           /\ SetBlock(n)
           /\ acc' = InputChunkOf(Block).acc
           /\ data' = IF InputBytes(Block) <= data THEN data - InputBytes(Block) ELSE 0
           /\ padded' = FALSE /\ rest' = cc
           /\ ctl' = Enabled
           /\ WriteWatermark(n.watermark)
    /\ UNCHANGED <<audio, mode, busy, handler, pad, stale>> /\ Callback

\* The end of a block: the last chunk that is recorded, or no frames left to play
BlockEnds ==
    \/ mode = "OUTPUT" /\ count = 0 /\ UNCHANGED <<acc, count, nchunk, watermark, rest>>
       /\ padded' = FALSE
       /\ IF padded THEN EmptyFifo ELSE UNCHANGED <<data, pad>>
    \/ mode = "INPUT" /\ count > 0 /\ InputChunk(Block) /\ count' = 0

\* the callback finds nothing to do and calls nec86hw_halt_pdma()
IntrLast ==
    /\ audio = "running" /\ Interrupt /\ BlockEnds
    /\ audio' = "done" /\ busy' = FALSE /\ stale' = FALSE
    /\ ctl' = [Cleared EXCEPT !.run = FALSE, !.enb = FALSE]
    /\ UNCHANGED <<mode, handler, intrblk, pan>> /\ Callback

\* the callback finds an audio layer that is not playing or recording, and returns
IntrStale ==
    /\ audio # "running" /\ Interrupt /\ BlockEnds
    /\ ctl' = IF mode = "INPUT" THEN Enabled ELSE Cleared
    /\ UNCHANGED <<audio, format, resamp, mode, busy, handler, intrblk, pan, history>>

-----------------------------------------------------------------------------
(* The board.  Playing, INTRFLG is set when the FIFO falls to the          *)
(* watermark, and perhaps again below it; recording, while it is above.    *)

Play ==
    /\ ctl.run /\ ~ctl.rec /\ data + pad > 0
    /\ IF data > 0 THEN data' = data - HwFrameBytes /\ UNCHANGED pad
                   ELSE pad' = pad - HwFrameBytes /\ UNCHANGED data
    /\ \/ data' + pad' > intrblk /\ UNCHANGED ctl
       \/ data' + pad' <= intrblk /\ ctl' = [ctl EXCEPT !.flg = TRUE]
       \/ data + pad <= intrblk /\ UNCHANGED ctl
    /\ UNCHANGED <<audio, format, resamp, acc, mode, dma, busy, handler, intrblk, pan, history>>

Record ==
    /\ ctl.run /\ ctl.rec /\ data + HwFrameBytes <= FifoSize
    /\ data' = data + HwFrameBytes
    /\ ctl' = IF data' > intrblk THEN [ctl EXCEPT !.flg = TRUE] ELSE ctl
    /\ UNCHANGED <<audio, format, resamp, acc, mode, dma, busy, handler, pad, intrblk, pan, history>>

Intr ==
    \/ IntrOutput \/ IntrInput \/ IntrLast \/ IntrStale
    \/ \E cc \in Blocks : IntrOutputDone(cc) \/ IntrInputDone(cc)

AudioLayer ==
    \/ Open \/ Close \/ Commit \/ Halt
    \/ \E p \in Precisions, ch \in Channels, sr \in SampleRates : SetParams(p, ch, sr)
    \/ \E cc \in Blocks :
          \/ \E output \in BOOLEAN : InitTransfer(output, cc)
          \/ StartOutput(cc) \/ StartInput(cc)

Next == AudioLayer \/ Intr \/ Play \/ Record

Spec == Init /\ [][Next]_vars

\* the board runs and its interrupts are served while they are enabled
FairSpec == Spec /\ WF_vars(Play) /\ WF_vars(Record) /\ WF_vars(ctl.enb /\ Intr)

-----------------------------------------------------------------------------
\* A transfer that was started with INTRFLG clear: its interrupts are its own.  What a
\* stopped FIFO holds is dropped by the nec86hw_reset_fifo() of the next start.
Clean == audio = "running" /\ ~stale

\* A chunk is written only when there is room for it: what the board still
\* holds at the watermark, the chunk, which resampling makes longer, and the
\* padding fit into the FIFO.  It depends on the rates: where a block is not a
\* multiple of its chunks the later ones are a frame longer than
\* nec86hw_set_output_block() assumes, and nec86_rest.cfg shows one that does not fit.
\* It depends on a start without a stale INTRFLG too: see NeverOverflows.
FifoFits == Clean => data + pad <= FifoSize

\* When the handler resets the FIFO to drop padding, every sample has been
\* played: a padded chunk does not reach the watermark before its last byte.
\* A stale INTRFLG drops the samples of the first chunk with the padding.
PaddingOutlastsData == Clean /\ Interrupt /\ padded => data = 0

\* When the handler reads a chunk, the board has recorded all of it, although
\* the chunk's length is in frames of another rate than the watermark's bytes.
\* conv_acc must be one that recording at this rate leaves: only nec86hw_open()
\* resets it, and what a higher rate has left makes one chunk longer.  Like
\* FifoFits it depends on the rates, see nec86_rest.cfg, and on a start without a
\* stale INTRFLG, which makes the handler read a chunk at once.
NoShortRead ==
    Clean /\ Interrupt /\ mode = "INPUT" /\ acc <= irate.sr + irate.hw
        => InputBytes(Block) <= data

\* pdma_ptr is at the frames that are left wherever a frame of the block is as long
\* as on the board, and always when recording; SendsTheRest is about the others.
PointerFollows ==
    audio = "running" /\ (mode = "INPUT" \/ (channels = 2 /\ ~resamp.out))
        => rest = count * FrameBytes

\* A recorded or played block is that of the audio layer, frame by frame: no chunk
\* is read too early and none is copied to or from the wrong place.
RecordsWhole == NoShortRead /\ PointerFollows

\* Also a flag that a halted transfer has left finds what the handler needs: sc_intr
\* is not NULL, pdma_mode not PDMA_MODE_NONE ("This should never happen"), a block
\* that has frames left has chunks left, and a recording has frames left.
InterruptIsExpected ==
    Interrupt =>
        /\ handler /\ mode # "NONE" /\ (count > 0 <=> nchunk > 0)
        /\ mode = "INPUT" => count > 0

\* The callback of every block comes, unless the audio layer halts.
BlocksEnd ==
    \A b \in BOOLEAN : (audio = "running" /\ turn = b) ~> (audio # "running" \/ turn # b)

\* "if the block is so large that the ring buffer on the hardware would overflow ...
\* we send the first chunk now and the rest in the interrupt handler": no transfer
\* overflows the FIFO.  One that is started with the INTRFLG of the halted transfer
\* before it is interrupted at once, and the second chunk meets a full FIFO.
NeverOverflows == audio = "running" => data + pad <= FifoSize

\* nec86hw_set_watermark() "must be called after nec86hw_start_fifo()": before,
\* the register it writes is the one that nec86hw_attach() has set the panning in.
PanningKept == pan

\* "The rest [of the block] will be sent in the interrupt handler": pdma_ptr is at
\* the frames that are left.
SendsTheRest ==
    audio = "running" /\ mode = "OUTPUT" => rest = count * FrameBytes

=============================================================================
