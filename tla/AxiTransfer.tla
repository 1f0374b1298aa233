---------------------------- MODULE AxiTransfer -----------------------------
(***************************************************************************)
(* How the memory masters of the simulation library cut a transfer into    *)
(* beats and bursts (axi.py), or into single words (axil.py), and where the*)
(* RAM models put a beat.  A command is a record                           *)
(*   [id, addr, len, nb, burst]                                            *)
(* of its number, first byte, length in bytes, bytes per beat (2**size) and*)
(* burst type.  The byte i of a write carries the value <<id, i>>, so that *)
(* a byte that lands elsewhere is seen.                                    *)
(***************************************************************************)
EXTENDS Integers, Sequences, FiniteSets, FiniteSetsExt, SequencesExt

CONSTANTS
    BW,          \* bytes of a word, the width of the data bus
    PAGE,        \* the boundary no burst may cross (0x1000 in the code)
    MAX_BURST,   \* max_burst_len, in beats
    SIZE,        \* bytes of the RAM
    IDS          \* 2**len(m_axi_arid)

ASSUME TransferAssumption ==
    /\ {BW, PAGE, MAX_BURST, SIZE, IDS} \subseteq Nat \ {0}
    /\ PAGE % BW = 0 /\ SIZE % PAGE = 0

Lanes == 0..BW - 1
Word(addr) == (addr \div BW) * BW

-----------------------------------------------------------------------------
(* The beats of a transfer.                                                *)

Aligned(c) == (c.addr \div c.nb) * c.nb
Cycles(c) == (c.len + c.nb - 1 + (c.addr % c.nb)) \div c.nb

\* cur_addr and cycle_offset when beat k is made.
BeatAddr(c, k) == Aligned(c) + k * c.nb
CycleOffset(c, k) == (Aligned(c) - Word(c.addr) + k * c.nb) % BW

\* Mutation: the first beat starts at the first byte of its alignment.
StartLaneAligned(c, k) == CycleOffset(c, k)

StartLane(c, k) == IF k = 0 THEN c.addr % BW ELSE CycleOffset(c, k)
StopLane(c, k) == IF k = Cycles(c) - 1 THEN ((c.addr + c.len - 1) % BW) + 1
                  ELSE CycleOffset(c, k) + c.nb

\* Bytes of the data that the beats before k have used.
Offset(c, k) ==
    LET used[i \in 0..k] == IF i = 0 THEN 0
                            ELSE used[i - 1] + StopLane(c, i - 1) - StartLane(c, i - 1)
    IN  used[k]

Strobe(c, k) == {j \in Lanes : StartLane(c, k) <= j /\ j < StopLane(c, k)}
BeatData(c, k) == [j \in Strobe(c, k) |-> <<c.id, Offset(c, k) + j - StartLane(c, k)>>]

-----------------------------------------------------------------------------
(* The bursts of a transfer: at most MAX_BURST beats, and none past a page.*)

\* Mutation: only the length of a burst is limited.
BurstLengthUnaligned(c, k) == Min({Cycles(c) - k, MAX_BURST})

BurstLength(c, k) ==
    LET beats == Min({Cycles(c) - k, MAX_BURST})
    IN  (Min({beats * c.nb, PAGE - (BeatAddr(c, k) % PAGE)}) + c.nb - 1) \div c.nb

\* The numbers of the beats that open a burst, in order.
BurstStarts(c) ==
    LET from[k \in 0..Cycles(c)] ==
          IF k = Cycles(c) THEN <<>> ELSE <<k>> \o from[k + BurstLength(c, k)]
    IN  from[0]

\* What goes to int_write_addr_queue or int_read_addr_queue; id is cur_read_id
\* (the response to a write is matched by its position, whatever its id).
Bursts(c, id) ==
    LET starts == BurstStarts(c)
    IN  [i \in DOMAIN starts |->
           [addr |-> BeatAddr(c, starts[i]), len |-> BurstLength(c, starts[i]),
            nb |-> c.nb, burst |-> c.burst, id |-> (id + i - 1) % IDS]]

LastOfBurst(c, k) == \E s \in ToSet(BurstStarts(c)) : k = s + BurstLength(c, s) - 1

Beats(c) == [i \in 1..Cycles(c) |->
               [data |-> BeatData(c, i - 1), last |-> LastOfBurst(c, i - 1)]]

-----------------------------------------------------------------------------
(* The same for the Lite master: one address and one answer for each word. *)

LiteCycles(c) == (c.len + BW - 1 + (c.addr % BW)) \div BW
LiteStart(c, k) == IF k = 0 THEN c.addr % BW ELSE 0
LiteStop(c, k) == IF k = LiteCycles(c) - 1 THEN ((c.addr + c.len - 1) % BW) + 1 ELSE BW

LiteWriteAddrs(c) == [i \in 1..LiteCycles(c) |->
                        Word(c.addr) + LiteStart(c, i - 1) + (i - 1) * BW]
LiteReadAddrs(c) == [i \in 1..LiteCycles(c) |->
                       IF i = 1 THEN Word(c.addr) + (c.addr % BW)
                       ELSE Word(c.addr) + (i - 1) * BW]

LiteOffset(c, k) ==
    LET used[i \in 0..k] == IF i = 0 THEN 0
                            ELSE used[i - 1] + LiteStop(c, i - 1) - LiteStart(c, i - 1)
    IN  used[k]

LiteBeats(c) ==
    [i \in 1..LiteCycles(c) |->
       [data |-> [j \in LiteStart(c, i - 1)..LiteStop(c, i - 1) - 1 |->
                    <<c.id, LiteOffset(c, i - 1) + j - LiteStart(c, i - 1)>>],
        last |-> TRUE]]

-----------------------------------------------------------------------------
(* The RAM's side of a burst.                                              *)

TransferSize(b) == b.nb * b.len
RamAligned(b) == (b.addr \div b.nb) * b.nb
LowerWrap(b) == (b.addr \div TransferSize(b)) * TransferSize(b)

\* The assertion of the RAM on a burst, and the address of its beat n.
CrossesPage(b) == b.burst = "INCR" /\ PAGE - (RamAligned(b) % PAGE) < TransferSize(b)
RamBeatAddr(b, n) ==
    CASE b.burst = "FIXED" -> RamAligned(b)
      [] b.burst = "INCR"  -> RamAligned(b) + n * b.nb
      [] b.burst = "WRAP"  -> LowerWrap(b) + ((RamAligned(b) - LowerWrap(b) + n * b.nb)
                                              % TransferSize(b))

\* A word written through its strobes, and read.
WriteWord(mem, addr, data) ==
    [a \in DOMAIN mem |-> IF a - addr \in DOMAIN data THEN data[a - addr] ELSE mem[a]]
ReadWord(mem, addr) == [j \in Lanes |-> mem[addr + j]]

-----------------------------------------------------------------------------
(* The reference: where byte i of a command belongs.                       *)

Place(c, i) ==
    CASE c.burst = "INCR"  -> c.addr + i
      [] c.burst = "FIXED" -> c.addr + (i % c.nb)
      [] c.burst = "WRAP"  -> LET lower == (c.addr \div c.len) * c.len
                              IN  lower + ((c.addr - lower + i) % c.len)

Covers(c, a) == \E i \in 0..c.len - 1 : Place(c, i) = a

=============================================================================
