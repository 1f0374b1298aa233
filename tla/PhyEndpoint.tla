---------------------------- MODULE PhyEndpoint -----------------------------
(***************************************************************************)
(* The frame sources and sinks without backpressure: GMIISource and Sink,  *)
(* with mii_select or without, MIISource and Sink, XGMIISource and Sink on *)
(* 32 or 64 bits, BaseRSerdesSource and Sink of baser_serdes_ep ("serdes") *)
(* and of baser ("baser"), with the default gap and deficit idle count.  A *)
(* frame is [data, user]; user says that its last byte is sent as an error.*)
(*                                                                         *)
(* A word on the wires is the sequence of its characters [d, c]: data and  *)
(* error flag on GMII and MII, where an idle clock has no character; data  *)
(* and control flag of every lane on XGMII.  BASE-R has a block.           *)
(***************************************************************************)
EXTENDS AxisEndpoint, BaseR

VARIABLES
    tx,      \* the source: the rest of its frame, ifg_cnt, deficit_idle_cnt
    word,    \* the wires
    rx,      \* the characters of the frame being received, <<>> for none
    meter    \* of the wires: characters since the last frame, and how far the
             \* gaps together have fallen short of the interframe gap
phyVars == <<tx, word, rx, meter>>

PRE == 85
SFD == 213

IFG == 12
Lanes(phy) == IF phy = "xgmii32" THEN 4 ELSE 8
Xgmii == {"xgmii32", "xgmii64"}
Serdes == {"serdes", "baser"}
Laned == Xgmii \cup Serdes
Nibbled == {"gmii_mii", "mii"}
Quiet(phy) == CASE phy \in Xgmii -> [i \in 1..Lanes(phy) |-> IDLE]
                [] phy \in Serdes -> IdleBlock
                [] OTHER -> <<>>
LongAgo == 2 * IFG

PhyInit(phy) ==
    /\ tx = [rest |-> <<>>, gap |-> 0, deficit |-> 0]
    /\ word = IF phy \in Serdes THEN NoBlock ELSE Quiet(phy)
    /\ rx = <<>> /\ meter = [idle |-> LongAgo, short |-> 0]

-----------------------------------------------------------------------------
(* Frames as characters.                                                   *)

Character(f, i) == [d |-> f.data[i], c |-> IF i = Len(f.data) THEN f.user ELSE 0]

GmiiBuild(f) == [i \in 1..Len(f.data) |-> Character(f, i)]

\* Low nibble first.
Nibble(b, k) == IF k % 2 = 1 THEN b % 16 ELSE b \div 16

\* MIIFrame flags the last nibble, GMIISource both of the last byte.
MiiBuild(f) ==
    [k \in 1..2 * Len(f.data) |-> [d |-> Nibble(f.data[(k + 1) \div 2], k),
                                   c |-> IF k = 2 * Len(f.data) THEN f.user ELSE 0]]
MiiSelect(chars) ==
    [k \in 1..2 * Len(chars) |-> [chars[(k + 1) \div 2] EXCEPT !.d = Nibble(@, k)]]

\* The last byte of a bad frame becomes the error character; the start takes the
\* place of the first byte.
XgmiiBuild(f) ==
    LET chars == [i \in 1..Len(f.data) |-> IF Character(f, i).c = 1 THEN ERROR ELSE Character(f, i)]
    IN  <<START>> \o Tail(chars) \o <<TERM>>

\* The start delimiter, wherever it ends, sets the phase in which two nibbles
\* make a byte; an error flag on either is one on the byte.
Repack(chars) ==
    LET byte(k) == chars[k].d * 16 + (IF k = 1 THEN 0 ELSE chars[k - 1].d)
        found == {k \in DOMAIN chars : byte(k) = SFD}
        phase == IF found = {} THEN 0 ELSE Min(found)
        whole(k) == k = phase \/ (IF k < phase THEN k % 2 = 0 ELSE (k - phase) % 2 = 0)
        bad(k) == chars[k].c = 1 \/ (k > 1 /\ ~whole(k - 1) /\ chars[k - 1].c = 1)
        ends == SelectSeq([k \in DOMAIN chars |-> k], whole)
    IN  [i \in DOMAIN ends |-> [d |-> byte(ends[i]), c |-> IF bad(ends[i]) THEN 1 ELSE 0]]

\* parse(): the error flag of the frame is that of its last byte; on XGMII only an
\* error character is one.
Parse(chars) == [data |-> [i \in DOMAIN chars |-> chars[i].d], user |-> Last(chars).c]
XgmiiParse(chars) == [Parse(chars) EXCEPT !.user = IF Last(chars) = ERROR THEN 1 ELSE 0]

-----------------------------------------------------------------------------
(* GMII and MII: a character per clock.                                    *)

GmiiGap(phy) == IF phy \in Nibbled THEN 2 * IFG ELSE IFG
GmiiChars(phy, f) ==
    CASE phy = "gmii" -> GmiiBuild(f) [] phy = "gmii_mii" -> MiiSelect(GmiiBuild(f))
      [] phy = "mii" -> MiiBuild(f)

\* The source sends nothing through the gap, then what is left of its frame, then
\* the next one.
GmiiSource(phy) ==
    \/ /\ tx.gap > 0 /\ tx' = [tx EXCEPT !.gap = @ - 1]
       /\ word' = <<>> /\ UNCHANGED pq
    \/ /\ tx.gap = 0 /\ tx.rest # <<>>
       /\ word' = <<Head(tx.rest)>>
       /\ tx' = [tx EXCEPT !.rest = Tail(@), !.gap = IF Len(tx.rest) = 1 THEN GmiiGap(phy) ELSE 0]
       /\ UNCHANGED pq
    \/ /\ tx.gap = 0 /\ tx.rest = <<>> /\ pq # <<>>
       /\ \E chars \in {GmiiChars(phy, Head(pq))} :
            word' = <<Head(chars)>> /\ tx' = [tx EXCEPT !.rest = Tail(chars)]
       /\ pq' = Tail(pq)
    \/ /\ tx.gap = 0 /\ tx.rest = <<>> /\ pq = <<>>
       /\ word' = <<>> /\ UNCHANGED <<tx, pq>>

\* The sink takes what is on the wires while the data is valid; the frames it has
\* then put in its queue.
GmiiSink == rx' = IF word = <<>> THEN <<>> ELSE rx \o word
GmiiGot(phy) ==
    IF word # <<>> \/ rx = <<>> THEN <<>>
    ELSE <<Parse(IF phy \in Nibbled THEN Repack(rx) ELSE rx)>>

\* The processes of mii_ep are these, with the nibbles made by the frame.
MiiSource == GmiiSource("mii")
MiiSink == GmiiSink

-----------------------------------------------------------------------------
(* XGMII: a word of lanes per clock.                                       *)

\* Mutation: the deficit is forgotten.
LackForgets(bw, chars, deficit) == IFG - (bw - Len(chars) + 1)

\* What the interframe gap still lacks when the frame ends in this word: the
\* terminator and the idles behind it count.
Lack(bw, chars, deficit) == IFG - (bw - Len(chars) + 1) + deficit

LanesOf(bw, chars) == SubSeq(chars \o [i \in 1..bw |-> IDLE], 1, bw)
Emit(bw, chars, gap, deficit) ==
    /\ word' = LanesOf(bw, chars)
    /\ tx' = [rest |-> SubSeq(chars, bw + 1, Len(chars)), deficit |-> deficit,
              gap |-> IF Len(chars) <= bw THEN Lack(bw, chars, deficit) ELSE gap]

\* baser_serdes_ep encodes the whole frame when it takes it.  A last block
\* without terminator, that of a bad frame, leaves the whole gap to come.
SerdesEmit(bw, chars, gap, deficit) ==
    LET b == SerdesBlock(LanesOf(bw, chars))
        covered == IF b.bt = "TERM" THEN bw - b.at ELSE 0
    IN  /\ word' = b
        /\ tx' = [rest |-> SubSeq(chars, bw + 1, Len(chars)), deficit |-> deficit,
                  gap |-> IF Len(chars) <= bw THEN IFG - covered + deficit ELSE gap]

OffsetIdles(offset) == IF offset THEN <<IDLE, IDLE, IDLE, IDLE>> ELSE <<>>

\* A frame begins in lane 4 where four idles of the gap are left, and what the
\* gap then lacks is owed by the next.
LaneSource(phy) ==
    LET bw == Lanes(phy)
        Send(chars, gap, deficit) == IF phy = "serdes" THEN SerdesEmit(bw, chars, gap, deficit)
                                     ELSE Emit(bw, chars, gap, deficit)
    IN  \/ /\ tx.gap >= bw
           /\ tx' = [tx EXCEPT !.gap = @ - bw] /\ word' = Quiet(phy) /\ UNCHANGED pq
        \/ /\ tx.gap < bw /\ tx.rest # <<>>
           /\ Send(tx.rest, tx.gap, tx.deficit) /\ UNCHANGED pq
        \/ /\ tx.gap < bw /\ tx.rest = <<>> /\ pq # <<>>
           /\ LET offset == bw = 8 /\ tx.gap >= 4
              IN  Send(OffsetIdles(offset) \o XgmiiBuild(Head(pq)), 0,
                       IF offset THEN tx.gap - 4 ELSE tx.gap)
           /\ pq' = Tail(pq)
        \/ /\ tx.gap < bw /\ tx.rest = <<>> /\ pq = <<>>
           /\ tx' = [tx EXCEPT !.gap = 0, !.deficit = 0] /\ word' = Quiet(phy) /\ UNCHANGED pq

XgmiiSource(phy) == LaneSource(phy)

\* A frame begins in lane 0 or 4, and with it the preamble is put back; the first
\* control character of a later word ends it.
Controls(w) == {i \in DOMAIN w : w[i].c = 1}
Begun == <<[d |-> PRE, c |-> 0]>>
LaneSink(w) ==
    rx' = IF rx = <<>>
          THEN IF w[1] = START THEN Begun \o SubSeq(w, 2, Len(w))
               ELSE IF Len(w) = 8 /\ w[5] = START THEN Begun \o SubSeq(w, 6, 8)
               ELSE <<>>
          ELSE IF Controls(w) = {} THEN rx \o w ELSE <<>>
LaneGot(w) ==
    IF rx = <<>> \/ Controls(w) = {} THEN <<>>
    ELSE LET last == IF w[Min(Controls(w))] = TERM THEN Min(Controls(w)) - 1 ELSE Min(Controls(w))
         IN  <<XgmiiParse(rx \o SubSeq(w, 1, last))>>
XgmiiSink(w) == LaneSink(w)
XgmiiGot(w) == LaneGot(w)

-----------------------------------------------------------------------------
(* BASE-R: a block per clock.                                              *)

SerdesSource == LaneSource("serdes")
SerdesSink(w) == LaneSink(w)
SerdesGot(w) == LaneGot(w)

\* baser encodes block by block and keeps the deficit apart from the gap.
BaserEmit(chars, gap, deficit) ==
    /\ word' = BaserBlock(LanesOf(8, chars))
    /\ tx' = [rest |-> SubSeq(chars, 9, Len(chars)), deficit |-> deficit,
              gap |-> IF Len(chars) <= 8 THEN IFG - (8 - (Len(chars) - 1)) ELSE gap]

NonNeg(n) == IF n < 0 THEN 0 ELSE n

BaserSource ==
    LET inGap == tx.gap + tx.deficit > 7
    IN  \/ /\ inGap /\ word' = IdleBlock /\ UNCHANGED pq
           /\ tx' = [tx EXCEPT !.gap = NonNeg(@ - 8),
                               !.deficit = IF tx.gap < 8 THEN NonNeg(@ + tx.gap - 8) ELSE @]
        \/ /\ ~inGap /\ tx.rest # <<>>
           /\ BaserEmit(tx.rest, tx.gap, tx.deficit) /\ UNCHANGED pq
        \/ /\ ~inGap /\ tx.rest = <<>> /\ pq # <<>>
           /\ LET offset == tx.gap > 3 - tx.deficit
              IN  BaserEmit(OffsetIdles(offset) \o XgmiiBuild(Head(pq)), 0,
                            NonNeg(tx.deficit + tx.gap - (IF offset THEN 4 ELSE 0)))
           /\ pq' = Tail(pq)
        \/ /\ ~inGap /\ tx.rest = <<>> /\ pq = <<>>
           /\ tx' = [tx EXCEPT !.gap = 0, !.deficit = 0] /\ word' = IdleBlock /\ UNCHANGED pq

\* active: the block on the wires is one of a frame.
BaserActive == word \notin {NoBlock, IdleBlock}

\* Its sink looks for a start in every lane, behind the end of a frame too; a
\* block has one start at most, and only data behind it.
BaserSink(w) ==
    LET starts == {i \in DOMAIN w : w[i] = START /\ (rx = <<>> \/ i > Min(Controls(w)))}
    IN  rx' = IF starts # {} THEN Begun \o SubSeq(w, Max(starts) + 1, 8)
              ELSE IF rx # <<>> /\ Controls(w) = {} THEN rx \o w ELSE <<>>
BaserGot(w) == LaneGot(w)

-----------------------------------------------------------------------------
(* The meter: characters from the end of a frame, as a receiver sees it, to*)
(* the start of the next, the terminator included.                         *)

Shortfall(phy, gap) ==
    NonNeg(meter.short + (IF phy \in Laned THEN IFG ELSE GmiiGap(phy)) - gap)

\* In a word that holds no start: a frame may go on in it, end or have ended.
IdleLanes(w) ==
    IF meter.idle > 0 THEN meter.idle + Len(w)
    ELSE IF Controls(w) = {} THEN 0
    ELSE Len(w) - Min(Controls(w)) + (IF w[Min(Controls(w))] = TERM THEN 1 ELSE 0)

Seen(phy, wires) == IF phy \in Serdes THEN Unblock(wires) ELSE wires

Metered(phy) ==
    \E w \in {Seen(phy, word')} :
      LET starts == {i \in DOMAIN w : w[i] = START}
          begins == IF phy \in Laned THEN starts # {} ELSE word = <<>> /\ w # <<>>
          before == IF phy \in Laned /\ begins THEN Max(starts) - 1 ELSE 0
          idle == IF begins THEN 0
                  ELSE IF phy \in Laned THEN IdleLanes(w)
                  ELSE IF w = <<>> THEN meter.idle + 1 ELSE 0
      IN  meter' = [idle |-> IF idle > LongAgo THEN LongAgo ELSE idle,
                    short |-> IF begins THEN Shortfall(phy, meter.idle + before) ELSE meter.short]

\* w is what the sink sees on the wires.
PhyStep(phy, w) ==
    /\ \/ phy \in {"gmii", "gmii_mii"} /\ GmiiSource(phy) /\ GmiiSink
       \/ phy = "mii" /\ MiiSource /\ MiiSink
       \/ phy \in Xgmii /\ XgmiiSource(phy) /\ XgmiiSink(w)
       \/ phy = "serdes" /\ SerdesSource /\ SerdesSink(w)
       \/ phy = "baser" /\ BaserSource /\ BaserSink(w)
    /\ Metered(phy)

PhyGot(phy, w) ==
    CASE phy \in Xgmii -> XgmiiGot(w) [] phy = "serdes" -> SerdesGot(w) [] phy = "baser" -> BaserGot(w)
      [] OTHER -> GmiiGot(phy)

\* What the sources assert of the frame it loads; an empty one fails on GMII too.
BadFrame(phy) ==
    /\ tx.rest = <<>> /\ pq # <<>>
    /\ Head(pq).data = <<>> \/ (phy \in Laned /\ Head(pq).data[1] # PRE)

\* The frames in progress are forgotten, the queue is kept.
PhyReset(phy) ==
    /\ tx' = [rest |-> <<>>, gap |-> 0, deficit |-> 0]
    /\ word' = Quiet(phy) /\ rx' = <<>> /\ meter' = [idle |-> LongAgo, short |-> 0]

=============================================================================
