------------------------- MODULE FrameBench_proofs --------------------------
(***************************************************************************)
(* The interframe gap of the PHY sources, for any number of frames of any  *)
(* length, good or bad, in any order and at any time: over all of them the *)
(* gaps fall short of the standard by three characters at most.            *)
(*                                                                         *)
(* A source keeps two numbers, ifg_cnt and deficit_idle_cnt, and counts    *)
(* what it sends; the meter counts what a receiver sees.  On BASE-R the two*)
(* differ: a bad frame loses its last block.                               *)
(***************************************************************************)
EXTENDS FrameBench, SequenceTheorems, TLAPS

-----------------------------------------------------------------------------
(* The least and the largest of a set.                                     *)

\* Min of FiniteSetsExt is the least element.
LEMMA MinIs ==
    ASSUME NEW S \in SUBSET Int, NEW m \in S, \A y \in S : m <= y
    PROVE  Min(S) = m
<1>1. \A x \in S : (\A y \in S : x <= y) => x = m OBVIOUS
<1> QED BY <1>1 DEF Min

\* Max of FiniteSetsExt is the largest element.
LEMMA MaxIs ==
    ASSUME NEW S \in SUBSET Int, NEW m \in S, \A y \in S : y <= m
    PROVE  Max(S) = m
<1>1. \A x \in S : (\A y \in S : x >= y) => x = m OBVIOUS
<1> QED BY <1>1 DEF Max

-----------------------------------------------------------------------------
(* Characters, words and blocks.                                           *)

Chars == [d : Int, c : Int]

\* What is left of a frame: data up to its terminator, and the byte before it is
\* the error character if the frame is bad.
Following(chars) ==
    /\ chars \in Seq(Chars) /\ chars # <<>> /\ chars[Len(chars)] = TERM
    /\ \A i \in 1..Len(chars) - 1 : chars[i].c = 0 \/ (chars[i] = ERROR /\ i = Len(chars) - 1)

\* A whole one: the start, then at least eight characters of data.
Whole(chars) ==
    /\ chars \in Seq(Chars) /\ Len(chars) >= 10
    /\ chars[1] = START /\ chars[Len(chars)] = TERM
    /\ \A i \in 2..Len(chars) - 1 : chars[i].c = 0 \/ (chars[i] = ERROR /\ i = Len(chars) - 1)

\* The control characters are four different ones.
LEMMA Controlled ==
    /\ {IDLE, START, TERM, ERROR} \subseteq Chars
    /\ IDLE.c = 1 /\ START.c = 1 /\ TERM.c = 1 /\ ERROR.c = 1
    /\ IDLE # START /\ IDLE # TERM /\ ERROR # START /\ ERROR # TERM /\ START # TERM
    /\ IDLE.d = 7
BY DEF IDLE, START, TERM, ERROR, Chars

\* The lanes of a word, and what is left for the next.
LEMMA LanesShape ==
    ASSUME NEW bw \in {4, 8}, NEW chars \in Seq(Chars)
    PROVE  /\ LanesOf(bw, chars) \in Seq(Chars) /\ Len(LanesOf(bw, chars)) = bw
           /\ \A i \in 1..bw :
                LanesOf(bw, chars)[i] = IF i <= Len(chars) THEN chars[i] ELSE IDLE
<1> DEFINE pad == [i \in 1..bw |-> IDLE]
<1>1. pad \in Seq(Chars) /\ Len(pad) = bw BY Controlled
<1>2. /\ chars \o pad \in Seq(Chars) /\ Len(chars \o pad) = Len(chars) + bw
      /\ \A i \in 1..Len(chars) + bw :
           (chars \o pad)[i] = IF i <= Len(chars) THEN chars[i] ELSE IDLE
  BY <1>1
<1> HIDE DEF pad
<1>3. LanesOf(bw, chars) = SubSeq(chars \o pad, 1, bw) BY DEF LanesOf, pad
<1>4. Len(chars) \in Nat OBVIOUS
<1>5. SubSeq(chars \o pad, 1, bw) = [i \in 1..bw |-> (chars \o pad)[i]]
  BY <1>2, <1>4
<1> QED BY <1>2, <1>3, <1>4, <1>5

\* What is left of a frame after a word.
LEMMA RestShape ==
    ASSUME NEW bw \in {4, 8}, NEW chars \in Seq(Chars)
    PROVE  LET r == SubSeq(chars, bw + 1, Len(chars))
           IN  /\ r \in Seq(Chars)
               /\ Len(chars) <= bw => r = <<>>
               /\ Len(chars) > bw => /\ Len(r) = Len(chars) - bw
                                     /\ \A i \in 1..Len(r) : r[i] = chars[bw + i]
OBVIOUS

\* No code stands for a start or a terminator.
LEMMA DecodedShape ==
    ASSUME NEW code
    PROVE  Decoded(code).c = 1 /\ Decoded(code) # START /\ Decoded(code) # TERM
<1>1. CASE \E p \in Codes : p[2] = code
  <2>1. PICK p \in Codes : Decoded(code) = [d |-> p[1], c |-> 1] BY <1>1 DEF Decoded
  <2>2. p[1] \notin {251, 253} BY DEF Codes
  <2> QED BY <2>1, <2>2 DEF START, TERM
<1>2. CASE ~\E p \in Codes : p[2] = code BY <1>2, Controlled DEF Decoded
<1> QED BY <1>1, <1>2

\* A word of eight lanes.
EightLanes == {w \in Seq(Chars) : Len(w) = 8}

\* The block of a word of data.
LEMMA DataBlock ==
    ASSUME NEW w \in EightLanes, NEW codes, DataOnly(w, 1..8)
    PROVE  /\ Block(w, codes).bt = "DATA"
           /\ \A i \in 1..8 : Unblock(Block(w, codes))[i].c = 0
<1> DEFINE b == Block(w, codes)
<1>1. b.bt = "DATA" /\ b.at = 0
  <2>1. \A i \in 1..8 : w[i] # START /\ w[i] # TERM BY Controlled DEF DataOnly
  <2>2. StartLanes(w) = {} /\ TermLanes(w) = {} BY <2>1 DEF StartLanes, TermLanes
  <2> QED BY <2>2 DEF Block
<1>2. DataLanes(b.bt, b.at) = 1..8 BY <1>1 DEF DataLanes
<1> HIDE DEF b
<1>3. \A i \in 1..8 : Unblock(b)[i] = [d |-> b.field[i], c |-> 0] BY <1>1, <1>2 DEF Unblock
<1> QED BY <1>1, <1>3 DEF b

\* The block of a word in which a frame begins, in lane 0 or lane 4.
LEMMA StartBlock ==
    ASSUME NEW w \in EightLanes, NEW codes, NEW k \in {1, 5}, w[k] = START,
           \A i \in 1..8 : (i < k => w[i] = IDLE) /\ (i > k => w[i].c = 0)
    PROVE  /\ Unblock(Block(w, codes))[k] = START
           /\ \A i \in 1..8 : i # k => Unblock(Block(w, codes))[i] # START
<1> DEFINE b == Block(w, codes)
<1>1. ~DataOnly(w, 1..8) BY Controlled DEF DataOnly
<1>2. StartLanes(w) = {k - 1}
  <2>1. DataOnly(w, DataLanes("START", k - 1)) BY DEF DataOnly, DataLanes
  <2>2. \A l \in {0, 4} : w[l + 1] = START => l = k - 1 BY Controlled
  <2> QED BY <2>1, <2>2 DEF StartLanes
<1>3. b.bt = "START" /\ b.at = k - 1
  <2>1. \A i \in 1..8 : w[i] # TERM BY Controlled
  <2>2. TermLanes(w) = {} BY <2>1 DEF TermLanes
  <2> QED BY <1>1, <1>2, <2>2 DEF Block
<1>4. /\ \A i \in 1..8 : i \in DataLanes(b.bt, b.at) <=> i > k
      /\ Marked(b.bt, b.at) = {k}
  BY <1>3 DEF DataLanes, Marked
<1> HIDE DEF b
<1>5. ASSUME NEW i \in 1..8 PROVE (Unblock(b)[i] = START) <=> (i = k)
  <2>1. CASE i > k
    <3>1. Unblock(b)[i] = [d |-> b.field[i], c |-> 0] BY <1>3, <1>4, <2>1 DEF Unblock
    <3> QED BY <2>1, <3>1, Controlled
  <2>2. CASE i = k BY <1>3, <1>4, <2>2 DEF Unblock
  <2>3. CASE i < k
    <3>1. Unblock(b)[i] = Decoded(b.field[i]) BY <1>3, <1>4, <2>3 DEF Unblock
    <3> QED BY <2>3, <3>1, DecodedShape
  <2> QED BY <2>1, <2>2, <2>3
<1> QED BY <1>5 DEF b

\* The block of a word in which a good frame ends.
LEMMA TermBlock ==
    ASSUME NEW w \in EightLanes, NEW codes, NEW k \in 1..8, w[k] = TERM,
           \A i \in 1..8 : (i < k => w[i].c = 0) /\ (i > k => w[i] = IDLE)
    PROVE  /\ Block(w, codes).bt = "TERM" /\ Block(w, codes).at = k - 1
           /\ \A i \in 1..8 : LET u == Unblock(Block(w, codes))[i]
                              IN  /\ u # START /\ (i < k => u.c = 0)
                                  /\ (i = k => u = TERM) /\ (i > k => u.c = 1)
<1> DEFINE b == Block(w, codes)
<1>1. ~DataOnly(w, 1..8) BY Controlled DEF DataOnly
<1>2. StartLanes(w) = {}
  <2>1. \A i \in 1..8 : w[i] # START BY Controlled
  <2> QED BY <2>1 DEF StartLanes
<1>3. TermLanes(w) = {k - 1}
  <2>1. DataOnly(w, DataLanes("TERM", k - 1)) BY DEF DataOnly, DataLanes
  <2>2. \A l \in 0..7 : w[l + 1] = TERM => l = k - 1 BY Controlled
  <2> QED BY <2>1, <2>2 DEF TermLanes
<1>4. b.bt = "TERM" /\ b.at = k - 1 BY <1>1, <1>2, <1>3 DEF Block
<1>5. /\ \A i \in 1..8 : i \in DataLanes(b.bt, b.at) <=> i < k
      /\ Marked(b.bt, b.at) = {k}
  BY <1>4 DEF DataLanes, Marked
<1> HIDE DEF b
<1>6. ASSUME NEW i \in 1..8
      PROVE  LET u == Unblock(b)[i]
             IN  u # START /\ (i < k => u.c = 0) /\ (i = k => u = TERM) /\ (i > k => u.c = 1)
  <2>1. CASE i < k
    <3>1. Unblock(b)[i] = [d |-> b.field[i], c |-> 0] BY <1>4, <1>5, <2>1 DEF Unblock
    <3> QED BY <2>1, <3>1, Controlled
  <2>2. CASE i = k BY <1>4, <1>5, <2>2, Controlled DEF Unblock
  <2>3. CASE i > k
    <3>1. Unblock(b)[i] = Decoded(b.field[i]) BY <1>4, <1>5, <2>3 DEF Unblock
    <3> QED BY <2>3, <3>1, DecodedShape
  <2> QED BY <2>1, <2>2, <2>3
<1> QED BY <1>4, <1>6 DEF b

\* The block of a word with an error in it has no lane of data.
LEMMA ErrorBlock ==
    ASSUME NEW w \in EightLanes, NEW codes, NEW k \in 1..8, w[k] = ERROR,
           \A i \in 1..8 : (i < k => w[i].c = 0) /\ (i > k => w[i] \in {TERM, IDLE})
    PROVE  /\ Block(w, codes).bt = "CTRL"
           /\ \A i \in 1..8 : LET u == Unblock(Block(w, codes))[i]
                              IN  u # START /\ u # TERM /\ u.c = 1
<1> DEFINE b == Block(w, codes)
<1>1. ~DataOnly(w, 1..8) BY Controlled DEF DataOnly
<1>2. StartLanes(w) = {}
  <2>1. \A i \in 1..8 : w[i] # START BY Controlled
  <2> QED BY <2>1 DEF StartLanes
<1>3. TermLanes(w) = {}
  <2>1. SUFFICES ASSUME NEW l \in 0..7, w[l + 1] = TERM, DataOnly(w, DataLanes("TERM", l))
                 PROVE  FALSE
    BY DEF TermLanes
  <2>2. l + 1 > k BY <2>1, Controlled
  <2>3. k \in DataLanes("TERM", l) BY <2>2 DEF DataLanes
  <2> QED BY <2>1, <2>3, Controlled DEF DataOnly
<1>4. b.bt = "CTRL" /\ b.at = 0 BY <1>1, <1>2, <1>3 DEF Block
<1>5. DataLanes(b.bt, b.at) = {} /\ Marked(b.bt, b.at) = {} BY <1>4 DEF DataLanes, Marked
<1> HIDE DEF b
<1>6. \A i \in 1..8 : Unblock(b)[i] = Decoded(b.field[i]) BY <1>4, <1>5 DEF Unblock
<1> QED BY <1>4, <1>6, DecodedShape DEF b

-----------------------------------------------------------------------------
(* What a receiver sees of a frame.                                        *)

\* What the source drives when chars is what it has to send.
Wire(phy, chars) ==
    IF phy \in Xgmii THEN LanesOf(Lanes(phy), chars)
    ELSE IF phy = "serdes" THEN SerdesBlock(LanesOf(8, chars)) ELSE BaserBlock(LanesOf(8, chars))

Shown(phy, chars) == Seen(phy, Wire(phy, chars))

\* Idle characters of a word in which a frame ends.
EndIdle(v) ==
    IF Controls(v) = {} THEN 0
    ELSE Len(v) - Min(Controls(v)) + (IF v[Min(Controls(v))] = TERM THEN 1 ELSE 0)

\* A word has four or eight lanes, a block eight.
LEMMA LanesNumber ==
    ASSUME NEW phy \in Laned
    PROVE  /\ Lanes(phy) \in {4, 8} /\ (phy \in Serdes => Lanes(phy) = 8)
           /\ (phy \in Serdes) <=> (phy \notin Xgmii)
           /\ phy \in Serdes => phy \in {"serdes", "baser"}
BY DEF Lanes, Laned, Xgmii, Serdes

\* A sink makes eight characters of a block.
LEMMA UnblockShape ==
    ASSUME NEW b
    PROVE  DOMAIN Unblock(b) = 1..8 /\ Len(Unblock(b)) = 8
BY DEF Unblock

\* A sink sees as many characters as a word has lanes.
LEMMA ShownShape ==
    ASSUME NEW phy \in Laned, NEW chars \in Seq(Chars)
    PROVE  /\ DOMAIN Shown(phy, chars) = 1..Lanes(phy) /\ Len(Shown(phy, chars)) = Lanes(phy)
           /\ phy \in Xgmii => Shown(phy, chars) = LanesOf(Lanes(phy), chars)
           /\ phy \in Serdes => \E codes :
                 Shown(phy, chars) = Unblock(Block(LanesOf(8, chars), codes))
<1>1. CASE phy \in Xgmii
  <2>1. Shown(phy, chars) = LanesOf(Lanes(phy), chars)
    BY <1>1, LanesNumber DEF Shown, Seen, Wire
  <2>2. LanesOf(Lanes(phy), chars) \in Seq(Chars) /\ Len(LanesOf(Lanes(phy), chars)) = Lanes(phy)
    BY LanesShape, LanesNumber
  <2>3. DOMAIN LanesOf(Lanes(phy), chars) = 1..Lanes(phy) BY <2>2
  <2> QED BY <1>1, <2>1, <2>2, <2>3, LanesNumber
<1>2. CASE phy \in Serdes
  <2>1. Shown(phy, chars) = Unblock(Wire(phy, chars)) BY <1>2 DEF Shown, Seen
  <2>2. \E codes : Wire(phy, chars) = Block(LanesOf(8, chars), codes)
    BY <1>2, LanesNumber DEF Wire, SerdesBlock, BaserBlock
  <2> QED BY <1>2, <2>1, <2>2, UnblockShape, LanesNumber
<1> QED BY <1>1, <1>2, LanesNumber

\* The end of a frame is where the first control character is.
LEMMA EndIdleIs ==
    ASSUME NEW v, NEW n \in Nat, DOMAIN v = 1..n, Len(v) = n, NEW k \in 1..n, v[k].c = 1,
           \A i \in 1..k - 1 : v[i].c # 1
    PROVE  EndIdle(v) = n - k + (IF v[k] = TERM THEN 1 ELSE 0)
<1>1. k \in Controls(v) /\ Controls(v) \in SUBSET Int /\ \A y \in Controls(v) : k <= y
  BY DEF Controls
<1>2. Min(Controls(v)) = k BY <1>1, MinIs
<1> QED BY <1>1, <1>2 DEF EndIdle

\* The first word of a frame shows its start where it is, and only there.
LEMMA ShownStart ==
    ASSUME NEW phy \in Laned, NEW x, Whole(x), NEW offset \in BOOLEAN, offset => Lanes(phy) = 8,
           NEW k, k = IF offset THEN 5 ELSE 1
    PROVE  LET chars == OffsetIdles(offset) \o x
               v == Shown(phy, chars)
           IN  /\ chars \in Seq(Chars) /\ Len(chars) > Lanes(phy)
               /\ k \in DOMAIN v /\ v[k] = START /\ \A i \in DOMAIN v : i # k => v[i] # START
               /\ Following(SubSeq(chars, Lanes(phy) + 1, Len(chars)))
<1>1. PICK bw \in {4, 8} : bw = Lanes(phy) BY LanesNumber
<1> DEFINE chars == OffsetIdles(offset) \o x
           v == Shown(phy, chars)
           w == LanesOf(bw, chars)
           r == SubSeq(chars, bw + 1, Len(chars))
<1>2. PICK m \in {0, 4} : m = k - 1 OBVIOUS
<1>3. /\ chars \in Seq(Chars) /\ Len(chars) = Len(x) + m /\ Len(x) \in Nat /\ Len(x) >= 10
      /\ \A i \in 1..Len(chars) : chars[i] = IF i <= m THEN IDLE ELSE x[i - m]
  BY <1>2, Controlled DEF Whole, OffsetIdles
<1>4. m = 4 => bw = 8 BY <1>1, <1>2
<1>5. Len(chars) > bw BY <1>1, <1>3
<1>6. chars[Len(chars)] = TERM BY <1>2, <1>3, SMTT(30) DEF Whole
<1>7. \A i \in 1..Len(chars) : i > m + 1 /\ i < Len(chars) =>
          chars[i].c = 0 \/ (chars[i] = ERROR /\ i = Len(chars) - 1)
  BY <1>2, <1>3, SMTT(30) DEF Whole
<1>8. chars[k] = START BY <1>2, <1>3 DEF Whole
<1> HIDE DEF chars
<1>9. Following(r)
  <2>1. r \in Seq(Chars) /\ Len(r) = Len(chars) - bw /\ \A i \in 1..Len(r) : r[i] = chars[bw + i]
    BY <1>3, <1>5, RestShape
  <2> HIDE DEF r
  <2>2. bw > m BY <1>4
  <2>3. r # <<>> /\ r[Len(r)] = TERM
    <3>1. Len(r) \in 1..Len(r) /\ bw + Len(r) = Len(chars) BY <1>3, <1>5, <2>1
    <3> QED BY <1>6, <2>1, <3>1
  <2>4. ASSUME NEW i \in 1..Len(r) - 1
        PROVE  r[i].c = 0 \/ (r[i] = ERROR /\ i = Len(r) - 1)
    <3>1. bw + i \in 1..Len(chars) /\ bw + i > m + 1 /\ bw + i < Len(chars)
      BY <1>3, <1>5, <2>1, <2>2, SMTT(30)
    <3>2. r[i] = chars[bw + i] BY <2>1
    <3>3. chars[bw + i].c = 0 \/ (chars[bw + i] = ERROR /\ bw + i = Len(chars) - 1)
      BY <1>7, <3>1
    <3> QED BY <1>3, <2>1, <3>2, <3>3
  <2> QED BY <2>1, <2>3, <2>4 DEF Following
<1> HIDE DEF r
<1>10. w \in Seq(Chars) /\ Len(w) = bw /\ \A i \in 1..bw : w[i] = chars[i]
  <2>1. /\ w \in Seq(Chars) /\ Len(w) = bw
        /\ \A i \in 1..bw : w[i] = IF i <= Len(chars) THEN chars[i] ELSE IDLE
    BY <1>3, LanesShape
  <2>2. \A i \in 1..bw : i <= Len(chars) BY <1>3, <1>5
  <2> QED BY <2>1, <2>2
<1>11. /\ k \in 1..bw /\ w[k] = START
       /\ \A i \in 1..bw : (i < k => w[i] = IDLE) /\ (i > k => w[i].c = 0)
  <2>1. k \in 1..bw /\ w[k] = START BY <1>1, <1>2, <1>4, <1>8, <1>10
  <2>2. ASSUME NEW i \in 1..bw, i < k PROVE w[i] = IDLE
    <3>1. i \in 1..Len(chars) /\ i <= m BY <1>2, <1>3, <1>5, <2>2
    <3>2. chars[i] = IDLE BY <1>3, <3>1
    <3> QED BY <1>10, <3>2
  <2>3. ASSUME NEW i \in 1..bw, i > k PROVE w[i].c = 0
    <3>1. i \in 1..Len(chars) /\ i > m + 1 /\ i < Len(chars) - 1
      BY <1>1, <1>2, <1>3, <1>4, <2>3
    <3>2. chars[i].c = 0 BY <1>3, <1>7, <3>1
    <3> QED BY <1>10, <3>2
  <2> QED BY <2>1, <2>2, <2>3
<1>12. v[k] = START /\ \A i \in 1..bw : i # k => v[i] # START
  <2>1. CASE phy \in Xgmii
    <3>1. v = w BY <1>1, <1>3, <2>1, ShownShape
    <3> QED BY <1>1, <1>2, <1>11, <3>1, Controlled
  <2>2. CASE phy \in Serdes
    <3>1. bw = 8 BY <1>1, <2>2, LanesNumber
    <3>2. PICK codes : v = Unblock(Block(w, codes)) BY <1>3, <2>2, <3>1, ShownShape
    <3>3. w \in EightLanes BY <1>10, <3>1 DEF EightLanes
    <3>4. k \in {1, 5} BY <1>2
    <3> QED BY <1>11, <3>1, <3>2, <3>3, <3>4, StartBlock
  <2> QED BY <2>1, <2>2, LanesNumber
<1>13. DOMAIN v = 1..bw BY <1>1, <1>3, ShownShape
<1> QED BY <1>1, <1>3, <1>5, <1>9, <1>11, <1>12, <1>13 DEF chars, r

\* A word with no control character, or an error in its last lane, ends nothing.
LEMMA ShownMiddle ==
    ASSUME NEW phy \in Laned, NEW chars, Following(chars), Len(chars) > Lanes(phy)
    PROVE  LET v == Shown(phy, chars)
               r == SubSeq(chars, Lanes(phy) + 1, Len(chars))
           IN  /\ \A i \in DOMAIN v : v[i] # START
               /\ Following(r)
               /\ EndIdle(v) = 0 \/ (phy \in Serdes /\ r = <<TERM>> /\ EndIdle(v) = 7)
<1>1. PICK bw \in {4, 8} : bw = Lanes(phy) BY LanesNumber
<1> DEFINE v == Shown(phy, chars)
           w == LanesOf(bw, chars)
           r == SubSeq(chars, bw + 1, Len(chars))
<1>2. /\ chars \in Seq(Chars) /\ Len(chars) \in Nat /\ Len(chars) > bw
      /\ chars[Len(chars)] = TERM
      /\ \A i \in 1..Len(chars) - 1 : chars[i].c = 0 \/ (chars[i] = ERROR /\ i = Len(chars) - 1)
  BY <1>1 DEF Following
<1>3. r \in Seq(Chars) /\ Len(r) = Len(chars) - bw /\ \A i \in 1..Len(r) : r[i] = chars[bw + i]
  BY <1>2, RestShape
<1> HIDE DEF r
<1>4. Following(r)
  <2>1. Len(r) \in 1..Len(r) /\ bw + Len(r) = Len(chars) BY <1>2, <1>3
  <2>2. r # <<>> /\ r[Len(r)] = TERM BY <1>2, <1>3, <2>1
  <2>3. ASSUME NEW i \in 1..Len(r) - 1
        PROVE  r[i].c = 0 \/ (r[i] = ERROR /\ i = Len(r) - 1)
    <3>1. bw + i \in 1..Len(chars) - 1 /\ i \in 1..Len(r) BY <1>2, <1>3
    <3>2. r[i] = chars[bw + i] BY <1>3, <3>1
    <3>3. chars[bw + i].c = 0 \/ (chars[bw + i] = ERROR /\ bw + i = Len(chars) - 1)
      BY <1>2, <3>1
    <3> QED BY <1>2, <1>3, <3>2, <3>3
  <2> QED BY <1>3, <2>2, <2>3 DEF Following
<1>5. w \in Seq(Chars) /\ Len(w) = bw /\ \A i \in 1..bw : w[i] = chars[i]
  <2>1. /\ w \in Seq(Chars) /\ Len(w) = bw
        /\ \A i \in 1..bw : w[i] = IF i <= Len(chars) THEN chars[i] ELSE IDLE
    BY <1>2, LanesShape
  <2>2. \A i \in 1..bw : i <= Len(chars) BY <1>2
  <2> QED BY <2>1, <2>2
<1>6. DOMAIN v = 1..bw /\ Len(v) = bw BY <1>1, <1>2, ShownShape
<1>7. phy \in Serdes => bw = 8 /\ w \in EightLanes BY <1>1, <1>5, LanesNumber DEF EightLanes
<1>8. ASSUME phy \in Serdes PROVE \E codes : v = Unblock(Block(w, codes))
  BY <1>2, <1>7, <1>8, ShownShape
<1>9. phy \in Xgmii => v = w BY <1>1, <1>2, ShownShape
<1> HIDE DEF v, w
<1>10. CASE \A i \in 1..bw : w[i].c = 0
  <2>1. \A i \in 1..bw : v[i].c = 0
    <3>1. CASE phy \in Xgmii BY <1>9, <1>10, <3>1
    <3>2. CASE phy \in Serdes
      <4>1. PICK codes : v = Unblock(Block(w, codes)) BY <1>8, <3>2
      <4>2. DataOnly(w, 1..8) BY <1>7, <1>10, <3>2 DEF DataOnly
      <4> QED BY <1>7, <3>2, <4>1, <4>2, DataBlock
    <3> QED BY <3>1, <3>2, LanesNumber
  <2>2. EndIdle(v) = 0 /\ \A i \in DOMAIN v : v[i] # START
    BY <1>6, <2>1, Controlled DEF EndIdle, Controls
  <2> QED BY <1>1, <1>4, <2>2 DEF v, r
<1>11. CASE ~\A i \in 1..bw : w[i].c = 0
  <2>1. PICK j \in 1..bw : w[j].c # 0 BY <1>11
  <2>2. j \in 1..Len(chars) - 1 /\ chars[j].c # 0 BY <1>2, <1>5, <2>1
  <2>3. chars[j] = ERROR /\ j = Len(chars) - 1 BY <1>2, <2>2
  <2>4. j = bw /\ Len(chars) = bw + 1 BY <1>2, <2>3
  <2>5. w[bw] = ERROR BY <1>5, <2>3, <2>4
  <2>6. ASSUME NEW i \in 1..bw, i < bw PROVE w[i].c = 0
    <3>1. i \in 1..Len(chars) - 1 /\ i # Len(chars) - 1 BY <2>4, <2>6
    <3> QED BY <1>2, <1>5, <3>1
  <2>7. r = <<TERM>>
    <3>1. Len(r) = 1 /\ r[1] = TERM BY <1>2, <1>3, <2>4
    <3> QED BY <1>3, <3>1
  <2>8. CASE phy \in Xgmii
    <3>1. v = w BY <1>9, <2>8
    <3>2. bw \in 1..bw /\ v[bw].c = 1 /\ \A i \in 1..bw - 1 : v[i].c # 1
      BY <2>5, <2>6, <3>1, Controlled
    <3>3. EndIdle(v) = bw - bw + 0 BY <1>6, <2>5, <3>1, <3>2, EndIdleIs, Controlled
    <3>4. \A i \in DOMAIN v : v[i] # START BY <1>6, <2>5, <2>6, <3>1, Controlled
    <3> QED BY <1>1, <1>4, <3>3, <3>4 DEF v, r
  <2>9. CASE phy \in Serdes
    <3>1. PICK codes : v = Unblock(Block(w, codes)) BY <1>8, <2>9
    <3>2. bw = 8 /\ w \in EightLanes BY <1>7, <2>9
    <3>3. \A i \in 1..8 : (i < 8 => w[i].c = 0) /\ (i > 8 => w[i] \in {TERM, IDLE})
      BY <2>6, <3>2
    <3>4. 8 \in 1..8 /\ w[8] = ERROR BY <2>5, <3>2
    <3>5. \A i \in 1..8 : v[i] # START /\ v[i] # TERM /\ v[i].c = 1
      BY <3>1, <3>2, <3>3, <3>4, ErrorBlock
    <3>6. EndIdle(v) = 8 - 1 + 0
      <4>1. 1 \in 1..8 /\ v[1].c = 1 /\ v[1] # TERM /\ \A i \in 1..1 - 1 : v[i].c # 1 BY <3>5
      <4>2. DOMAIN v = 1..8 /\ Len(v) = 8 /\ 8 \in Nat BY <1>6, <3>2
      <4>3. EndIdle(v) = 8 - 1 + (IF v[1] = TERM THEN 1 ELSE 0)
        BY <4>1, <4>2, EndIdleIs
      <4> QED BY <4>1, <4>3
    <3> QED BY <1>1, <1>4, <1>6, <2>7, <2>9, <3>2, <3>5, <3>6 DEF v, r
  <2> QED BY <2>8, <2>9, LanesNumber
<1> QED BY <1>10, <1>11

\* In the word in which a frame ends a receiver counts at least the terminator and
\* what is behind it.
LEMMA ShownEnd ==
    ASSUME NEW phy \in Laned, NEW chars, Following(chars), Len(chars) <= Lanes(phy)
    PROVE  LET v == Shown(phy, chars)
           IN  /\ \A i \in DOMAIN v : v[i] # START
               /\ EndIdle(v) \in Lanes(phy) - Len(chars) + 1 .. Lanes(phy)
               /\ phy = "serdes" => LET b == SerdesBlock(LanesOf(8, chars))
                                    IN  b.bt = "TERM" => b.at = Len(chars) - 1
<1>1. PICK bw \in {4, 8} : bw = Lanes(phy) BY LanesNumber
<1>2. PICK n \in Nat : n = Len(chars) BY DEF Following
<1> DEFINE v == Shown(phy, chars)
           w == LanesOf(bw, chars)
<1>3. /\ chars \in Seq(Chars) /\ n \in 1..bw /\ chars[n] = TERM
      /\ \A i \in 1..n - 1 : chars[i].c = 0 \/ (chars[i] = ERROR /\ i = n - 1)
  BY <1>1, <1>2 DEF Following
<1>4. /\ w \in Seq(Chars) /\ Len(w) = bw
      /\ \A i \in 1..bw : w[i] = IF i <= n THEN chars[i] ELSE IDLE
  BY <1>2, <1>3, LanesShape
<1>5. DOMAIN v = 1..bw /\ Len(v) = bw /\ bw \in Nat BY <1>1, <1>3, ShownShape
<1>6. phy \in Serdes => bw = 8 /\ w \in EightLanes BY <1>1, <1>4, LanesNumber DEF EightLanes
<1>7. ASSUME phy \in Serdes PROVE \E codes : v = Unblock(Block(w, codes))
  BY <1>3, <1>6, <1>7, ShownShape
<1>8. phy \in Xgmii => v = w BY <1>1, <1>3, ShownShape
<1>9. phy = "serdes" => \E codes : SerdesBlock(LanesOf(8, chars)) = Block(w, codes)
  BY <1>6 DEF SerdesBlock, Serdes
<1>10. phy = "serdes" => phy \in Serdes BY DEF Serdes
<1>11. w[n] = TERM /\ \A i \in 1..bw : i > n => w[i] = IDLE BY <1>3, <1>4
<1> HIDE DEF v, w
<1>12. CASE \A i \in 1..n - 1 : chars[i].c = 0
  <2>1. \A i \in 1..bw : i < n => w[i].c = 0 BY <1>3, <1>4, <1>12
  <2>2. \A i \in 1..bw : v[i] # START /\ (i < n => v[i].c = 0) /\ (i = n => v[i] = TERM)
    <3>1. CASE phy \in Xgmii BY <1>8, <1>11, <2>1, <3>1, Controlled
    <3>2. CASE phy \in Serdes
      <4>1. PICK codes : v = Unblock(Block(w, codes)) BY <1>7, <3>2
      <4>2. bw = 8 /\ w \in EightLanes BY <1>6, <3>2
      <4>3. /\ n \in 1..8 /\ w[n] = TERM
            /\ \A i \in 1..8 : (i < n => w[i].c = 0) /\ (i > n => w[i] = IDLE)
        BY <1>3, <1>11, <2>1, <4>2
      <4> QED BY <4>1, <4>2, <4>3, TermBlock, SMTT(30)
    <3> QED BY <3>1, <3>2, LanesNumber
  <2>3. EndIdle(v) = bw - n + 1
    <3>1. v[n].c = 1 /\ v[n] = TERM /\ \A i \in 1..n - 1 : v[i].c # 1
      BY <1>3, <2>2, Controlled
    <3>2. EndIdle(v) = bw - n + (IF v[n] = TERM THEN 1 ELSE 0)
      BY <1>3, <1>5, <3>1, EndIdleIs
    <3> QED BY <3>1, <3>2
  <2>4. phy = "serdes" => SerdesBlock(LanesOf(8, chars)).at = n - 1
    <3>1. SUFFICES ASSUME phy = "serdes" PROVE SerdesBlock(LanesOf(8, chars)).at = n - 1
      OBVIOUS
    <3>2. PICK codes : SerdesBlock(LanesOf(8, chars)) = Block(w, codes) BY <1>9, <3>1
    <3>3. bw = 8 /\ w \in EightLanes BY <1>6, <1>10, <3>1
    <3>4. /\ n \in 1..8 /\ w[n] = TERM
          /\ \A i \in 1..8 : (i < n => w[i].c = 0) /\ (i > n => w[i] = IDLE)
      BY <1>3, <1>11, <2>1, <3>3
    <3> QED BY <3>2, <3>3, <3>4, TermBlock, SMTT(30)
  <2> QED BY <1>1, <1>2, <1>3, <1>5, <2>2, <2>3, <2>4 DEF v
<1>13. CASE ~\A i \in 1..n - 1 : chars[i].c = 0
  <2>1. PICK j \in 1..n - 1 : chars[j].c # 0 BY <1>13
  <2>2. chars[j] = ERROR /\ j = n - 1 /\ n > 1 BY <1>3, <2>1
  <2>3. j \in 1..bw /\ w[j] = ERROR BY <1>3, <1>4, <2>2
  <2>4. \A i \in 1..bw : i < j => w[i].c = 0 BY <1>3, <1>4, <2>2
  <2>5. \A i \in 1..bw : i > j => w[i] \in {TERM, IDLE} BY <1>3, <1>11, <2>2
  <2>6. CASE phy \in Xgmii
    <3>1. v = w BY <1>8, <2>6
    <3>2. v[j].c = 1 /\ v[j] # TERM /\ \A i \in 1..j - 1 : v[i].c # 1
      BY <1>3, <2>2, <2>3, <2>4, <3>1, Controlled
    <3>3. EndIdle(v) = bw - j + (IF v[j] = TERM THEN 1 ELSE 0)
      BY <1>5, <2>3, <3>2, EndIdleIs
    <3>4. EndIdle(v) = bw - n + 1 BY <1>3, <2>2, <3>2, <3>3
    <3>5. \A i \in 1..bw : v[i] # START
      BY <2>2, <2>3, <2>4, <2>5, <3>1, Controlled
    <3>6. phy # "serdes" BY <1>10, <2>6, LanesNumber
    <3> QED BY <1>1, <1>2, <1>3, <1>5, <3>4, <3>5, <3>6 DEF v
  <2>7. CASE phy \in Serdes
    <3>1. PICK codes : v = Unblock(Block(w, codes)) BY <1>7, <2>7
    <3>2. bw = 8 /\ w \in EightLanes BY <1>6, <2>7
    <3>3. /\ j \in 1..8 /\ w[j] = ERROR
          /\ \A i \in 1..8 : (i < j => w[i].c = 0) /\ (i > j => w[i] \in {TERM, IDLE})
      BY <2>3, <2>4, <2>5, <3>2
    <3>4. \A i \in 1..8 : v[i] # START /\ v[i] # TERM /\ v[i].c = 1
      BY <3>1, <3>2, <3>3, ErrorBlock
    <3>5. EndIdle(v) = 7
      <4>1. 1 \in 1..8 /\ v[1].c = 1 /\ v[1] # TERM /\ \A i \in 1..1 - 1 : v[i].c # 1 BY <3>4
      <4>2. DOMAIN v = 1..8 /\ Len(v) = 8 /\ 8 \in Nat BY <1>5, <3>2
      <4>3. EndIdle(v) = 8 - 1 + (IF v[1] = TERM THEN 1 ELSE 0)
        BY <4>1, <4>2, EndIdleIs
      <4> QED BY <4>1, <4>3
    <3>6. phy = "serdes" => SerdesBlock(LanesOf(8, chars)).bt = "CTRL"
      <4>1. SUFFICES ASSUME phy = "serdes" PROVE SerdesBlock(LanesOf(8, chars)).bt = "CTRL"
        OBVIOUS
      <4>2. PICK k : SerdesBlock(LanesOf(8, chars)) = Block(w, k) BY <1>9, <4>1
      <4> QED BY <3>2, <3>3, <4>2, ErrorBlock
    <3>7. 7 \in bw - n + 1 .. bw BY <2>2, <3>2
    <3> QED BY <1>1, <1>2, <1>5, <3>2, <3>4, <3>5, <3>6, <3>7 DEF v
  <2> QED BY <2>6, <2>7, LanesNumber
<1> QED BY <1>12, <1>13

-----------------------------------------------------------------------------
(* The meter.                                                              *)

\* A word in which a frame begins: the gap ends before its start.
LEMMA MeterStart ==
    ASSUME NEW phy \in Laned, Metered(phy), NEW v, Seen(phy, word') = v, DOMAIN v \in SUBSET Int,
           NEW k \in DOMAIN v, v[k] = START, \A i \in DOMAIN v : i # k => v[i] # START
    PROVE  meter' = [idle |-> 0, short |-> NonNeg(meter.short + IFG - (meter.idle + (k - 1)))]
<1> DEFINE starts == {i \in DOMAIN v : v[i] = START}
           before == IF phy \in Laned /\ starts # {} THEN Max(starts) - 1 ELSE 0
<1>1. starts = {k} OBVIOUS
<1>2. Max({k}) = k
  <2>1. {k} \in SUBSET Int /\ k \in {k} /\ \A y \in {k} : y <= k OBVIOUS
  <2> QED BY <2>1, MaxIs
<1>3. before = k - 1 BY <1>1, <1>2
<1>4. starts # {} BY <1>1
<1> HIDE DEF starts
<1>5. meter' = [idle |-> IF 0 > LongAgo THEN LongAgo ELSE 0,
                short |-> Shortfall(phy, meter.idle + before)]
  BY <1>4 DEF Metered, starts
<1> HIDE DEF before
<1> QED BY <1>3, <1>5 DEF Shortfall, LongAgo, IFG

\* Any other word.
LEMMA MeterOn ==
    ASSUME NEW phy \in Laned, Metered(phy), NEW v, Seen(phy, word') = v,
           \A i \in DOMAIN v : v[i] # START, meter.idle \in Nat, Len(v) \in Nat, EndIdle(v) \in Nat
    PROVE  LET idle == IF meter.idle > 0 THEN meter.idle + Len(v) ELSE EndIdle(v)
           IN  /\ meter'.idle = IF idle > LongAgo THEN LongAgo ELSE idle
               /\ meter'.short = meter.short
<1>1. {i \in DOMAIN v : v[i] = START} = {} OBVIOUS
<1>2. IdleLanes(v) = IF meter.idle > 0 THEN meter.idle + Len(v) ELSE EndIdle(v)
  BY DEF IdleLanes, EndIdle
<1> QED BY <1>1, <1>2 DEF Metered

\* The meter is a record of two counters.
LEMMA MeterShape ==
    ASSUME NEW phy, Metered(phy), NEW a, NEW b, meter'.idle \in a, meter'.short \in b
    PROVE  meter' \in [idle : a, short : b]
BY DEF Metered

\* A word without a frame.
LEMMA QuietShown ==
    ASSUME NEW phy \in Laned
    PROVE  LET v == Seen(phy, Quiet(phy))
           IN  Len(v) = Lanes(phy) /\ \A i \in DOMAIN v : v[i] # START
<1>1. CASE phy \in Xgmii
  <2>1. PICK bw \in {4, 8} : bw = Lanes(phy) BY LanesNumber
  <2> DEFINE u == Seen(phy, Quiet(phy))
  <2>2. u = [i \in 1..bw |-> IDLE]
    BY <1>1, <2>1, LanesNumber DEF Seen, Quiet
  <2>3. Len([i \in 1..bw |-> IDLE]) = bw OBVIOUS
  <2>4. \A i \in 1..bw : [j \in 1..bw |-> IDLE][i] # START BY Controlled
  <2>5. DOMAIN [i \in 1..bw |-> IDLE] = 1..bw OBVIOUS
  <2> HIDE DEF u
  <2>6. Len(u) = bw BY <2>2, <2>3
  <2>7. \A i \in DOMAIN u : u[i] # START BY <2>2, <2>4, <2>5
  <2> QED BY <2>1, <2>6, <2>7 DEF u
<1>2. CASE phy \in Serdes
  <2>1. Seen(phy, Quiet(phy)) = Unblock(IdleBlock) BY <1>2, LanesNumber DEF Seen, Quiet
  <2>2. DataLanes("CTRL", 0) = {} /\ Marked("CTRL", 0) = {} BY DEF DataLanes, Marked
  <2>3. \A i \in 1..8 : Unblock(IdleBlock)[i] = Decoded(IdleBlock.field[i])
    BY <2>2 DEF Unblock, IdleBlock
  <2>4. \A i \in 1..8 : Unblock(IdleBlock)[i] # START BY <2>3, DecodedShape
  <2>5. Lanes(phy) = 8 BY <1>2, LanesNumber
  <2>6. DOMAIN Unblock(IdleBlock) = 1..8 /\ Len(Unblock(IdleBlock)) = 8 BY UnblockShape
  <2> QED BY <2>1, <2>4, <2>5, <2>6
<1> QED BY <1>1, <1>2, LanesNumber

-----------------------------------------------------------------------------
(* The sources with lanes.                                                 *)

\* The idles that the source still has to send.
Owed(phy) == IF phy = "baser" THEN tx.gap + tx.deficit ELSE tx.gap

TxTypes == [rest : Seq(Chars), gap : Nat, deficit : 0..3]
MeterTypes == [idle : 0..LongAgo, short : 0..3]

\* Between two frames the idles seen and those to come make up for the standard gap
\* and for what is owed from before.
BetweenFrames(phy) == meter.idle > 0 /\ meter.short + IFG <= meter.idle + Owed(phy)

\* Within a frame no more is owed than the source has noted.  The last block of a
\* bad frame may be seen as the end of it.
WithinFrame(phy) ==
    /\ Following(tx.rest) /\ tx.gap = 0 /\ meter.short <= tx.deficit
    /\ meter.idle = 0 \/ (phy \in Serdes /\ tx.rest = <<TERM>>)

LanedGap(phy) ==
    /\ tx \in TxTypes /\ meter \in MeterTypes
    /\ tx.rest = <<>> => BetweenFrames(phy)
    /\ tx.rest # <<>> => WithinFrame(phy)

\* The numbers of the invariant.
LEMMA Numbers ==
    ASSUME NEW phy, tx \in TxTypes
    PROVE  tx.gap \in Nat /\ tx.deficit \in 0..3 /\ tx.rest \in Seq(Chars) /\ Owed(phy) \in Nat
BY DEF TxTypes, Owed

\* The numbers of the meter.
LEMMA Counted ==
    ASSUME meter \in MeterTypes
    PROVE  meter.idle \in 0..24 /\ meter.short \in 0..3
BY DEF MeterTypes, LongAgo, IFG

\* The source after a step.
LEMMA TxNext ==
    ASSUME NEW r \in Seq(Chars), NEW g \in Nat, NEW d \in 0..3,
           tx' = [rest |-> r, gap |-> g, deficit |-> d]
    PROVE  tx' \in TxTypes /\ tx'.rest = r /\ tx'.gap = g /\ tx'.deficit = d
<1>1. [rest |-> r, gap |-> g, deficit |-> d] \in TxTypes BY DEF TxTypes
<1> QED BY <1>1

\* A frame begins, and what the gap before it lacks is noted.
LEMMA BeginStep ==
    ASSUME NEW phy \in Laned, LanedGap(phy), tx.rest = <<>>, Metered(phy),
           NEW x, Whole(x), NEW offset \in BOOLEAN, offset => Lanes(phy) = 8,
           NEW d \in 0..3, Owed(phy) <= d + (IF offset THEN 4 ELSE 0),
           NEW chars, chars = OffsetIdles(offset) \o x, word' = Wire(phy, chars),
           tx' = [rest |-> SubSeq(chars, Lanes(phy) + 1, Len(chars)), gap |-> 0, deficit |-> d]
    PROVE  LanedGap(phy)'
<1>1. PICK k \in {1, 5} : k = IF offset THEN 5 ELSE 1 OBVIOUS
<1> DEFINE v == Shown(phy, chars)
           r == SubSeq(chars, Lanes(phy) + 1, Len(chars))
<1>2. /\ chars \in Seq(Chars) /\ k \in DOMAIN v /\ v[k] = START
      /\ \A i \in DOMAIN v : i # k => v[i] # START
      /\ Following(r)
  BY <1>1, ShownStart
<1>3. DOMAIN v \in SUBSET Int
  <2>1. PICK bw \in {4, 8} : bw = Lanes(phy) BY LanesNumber
  <2>2. DOMAIN v = 1..bw BY <1>2, <2>1, ShownShape
  <2> HIDE DEF v
  <2> QED BY <2>2
<1>4. Seen(phy, word') = v BY DEF Shown
<1>5. tx' = [rest |-> r, gap |-> 0, deficit |-> d] OBVIOUS
<1> HIDE DEF v, r
<1>6. meter' = [idle |-> 0, short |-> NonNeg(meter.short + IFG - (meter.idle + (k - 1)))]
  BY <1>2, <1>3, <1>4, MeterStart, SMTT(30)
<1>7. PICK s \in 0..3 : s = meter.short BY Counted DEF LanedGap
<1>8. PICK e \in 0..24 : e = meter.idle BY Counted DEF LanedGap
<1>9. PICK o \in Nat : o = Owed(phy) BY Numbers DEF LanedGap
<1>10. s + 12 <= e + o /\ o <= d + (k - 1)
  BY <1>1, <1>7, <1>8, <1>9 DEF LanedGap, BetweenFrames, IFG
<1>11. PICK n \in Int : n = s + 12 - (e + (k - 1)) /\ n <= d BY <1>10
<1>12. meter' = [idle |-> 0, short |-> NonNeg(n)] BY <1>6, <1>7, <1>8, <1>11 DEF IFG
<1>13. NonNeg(n) \in 0..d /\ NonNeg(n) \in 0..3 BY <1>11 DEF NonNeg
<1>14. meter'.idle = 0 /\ meter'.short <= d /\ meter' \in MeterTypes
  BY <1>12, <1>13 DEF MeterTypes, LongAgo, IFG
<1>15. r \in Seq(Chars) /\ r # <<>> BY <1>2 DEF Following
<1>16. tx' \in TxTypes /\ tx'.rest = r /\ tx'.gap = 0 /\ tx'.deficit = d
  BY <1>5, <1>15, 0 \in Nat, TxNext
<1> QED BY <1>2, <1>14, <1>15, <1>16 DEF LanedGap, WithinFrame

\* A frame goes on.
LEMMA MiddleStep ==
    ASSUME NEW phy \in Laned, LanedGap(phy), tx.rest # <<>>, Len(tx.rest) > Lanes(phy),
           Metered(phy), word' = Wire(phy, tx.rest),
           tx' = [rest |-> SubSeq(tx.rest, Lanes(phy) + 1, Len(tx.rest)),
                  gap |-> tx.gap, deficit |-> tx.deficit]
    PROVE  LanedGap(phy)'
<1>1. PICK chars : chars = tx.rest OBVIOUS
<1> DEFINE v == Shown(phy, chars)
           r == SubSeq(chars, Lanes(phy) + 1, Len(chars))
<1>2. PICK d \in 0..3 : d = tx.deficit BY Numbers DEF LanedGap
<1>3. PICK s \in 0..3 : s = meter.short BY Counted DEF LanedGap
<1>4. /\ Following(chars) /\ tx.gap = 0 /\ s <= d /\ chars \in Seq(Chars)
      /\ meter.idle = 0 \/ chars = <<TERM>>
  BY <1>1, <1>2, <1>3 DEF LanedGap, WithinFrame, TxTypes
<1>5. /\ \A i \in DOMAIN v : v[i] # START
      /\ Following(r)
      /\ EndIdle(v) = 0 \/ (phy \in Serdes /\ r = <<TERM>> /\ EndIdle(v) = 7)
  BY <1>1, <1>4, ShownMiddle
<1>6. meter.idle = 0
  <2>1. chars # <<TERM>>
    <3>1. Len(<<TERM>>) = 1 OBVIOUS
    <3> QED BY <1>1, <3>1, LanesNumber
  <2> QED BY <1>4, <2>1
<1>7. Len(v) \in Nat BY <1>4, ShownShape, LanesNumber
<1>8. Seen(phy, word') = v BY <1>1 DEF Shown
<1>9. tx' = [rest |-> r, gap |-> 0, deficit |-> d] BY <1>1, <1>2, <1>4
<1> HIDE DEF v, r
<1>10. EndIdle(v) \in {0, 7} BY <1>5
<1>11. meter'.idle = EndIdle(v) /\ meter'.short = meter.short
  <2>1. meter.idle \in Nat /\ EndIdle(v) \in Nat BY <1>6, <1>10
  <2>2. /\ meter'.idle = IF EndIdle(v) > LongAgo THEN LongAgo ELSE EndIdle(v)
        /\ meter'.short = meter.short
    BY <1>5, <1>6, <1>7, <1>8, <2>1, MeterOn
  <2> QED BY <1>10, <2>2 DEF LongAgo, IFG
<1>12. meter' \in MeterTypes
  <2>1. meter'.idle \in 0..LongAgo /\ meter'.short \in 0..3
    BY <1>3, <1>10, <1>11 DEF LongAgo, IFG
  <2> QED BY <2>1, MeterShape DEF MeterTypes
<1>13. r \in Seq(Chars) /\ r # <<>> BY <1>5 DEF Following
<1>14. tx' \in TxTypes /\ tx'.rest = r /\ tx'.gap = 0 /\ tx'.deficit = d
  BY <1>9, <1>13, 0 \in Nat, TxNext
<1>15. meter'.idle = 0 \/ (phy \in Serdes /\ tx'.rest = <<TERM>>) BY <1>5, <1>11, <1>14
<1>16. meter'.short <= tx'.deficit BY <1>3, <1>4, <1>11, <1>14
<1> QED BY <1>5, <1>12, <1>13, <1>14, <1>15, <1>16 DEF LanedGap, WithinFrame

\* A frame ends: what the source has yet to send makes the gap whole.
LEMMA EndStep ==
    ASSUME NEW phy \in Laned, LanedGap(phy), tx.rest # <<>>, Len(tx.rest) <= Lanes(phy),
           Metered(phy), word' = Wire(phy, tx.rest), NEW g \in Nat,
           tx' = [rest |-> <<>>, gap |-> g, deficit |-> tx.deficit],
           IFG + tx.deficit <=
             (Lanes(phy) - Len(tx.rest) + 1) + g + (IF phy = "baser" THEN tx.deficit ELSE 0)
    PROVE  LanedGap(phy)'
<1>1. PICK chars : chars = tx.rest OBVIOUS
<1>2. PICK d \in 0..3 : d = tx.deficit BY Numbers DEF LanedGap
<1>3. PICK s \in 0..3 : s = meter.short BY Counted DEF LanedGap
<1>4. PICK m \in 0..24 : m = meter.idle BY Counted DEF LanedGap
<1>5. PICK bw \in {4, 8} : bw = Lanes(phy) BY LanesNumber
<1>6. Following(chars) /\ s <= d /\ chars \in Seq(Chars)
  BY <1>1, <1>2, <1>3 DEF LanedGap, WithinFrame, TxTypes
<1>7. PICK e \in 1..bw : e = bw - Len(chars) + 1
  <2>1. Len(chars) \in Nat /\ Len(chars) > 0 /\ Len(chars) <= bw BY <1>1, <1>5, <1>6
  <2>2. bw - Len(chars) + 1 \in 1..bw BY <2>1
  <2> QED BY <2>2
<1>8. PICK o \in Nat : o = g + (IF phy = "baser" THEN d ELSE 0) OBVIOUS
<1>9. 12 + d <= e + o BY <1>1, <1>2, <1>5, <1>7, <1>8, SMTT(30) DEF IFG
<1> DEFINE v == Shown(phy, chars)
<1>10. (\A i \in DOMAIN v : v[i] # START) /\ EndIdle(v) \in e..bw
  BY <1>1, <1>5, <1>6, <1>7, ShownEnd
<1>11. Len(v) = bw BY <1>5, <1>6, ShownShape
<1>12. Seen(phy, word') = v BY <1>1 DEF Shown
<1> HIDE DEF v
<1>13. PICK q \in e..bw : q = EndIdle(v) BY <1>10
<1>14. PICK t \in e..32 : t = IF m > 0 THEN m + bw ELSE q
  <2>1. bw = 4 \/ bw = 8 OBVIOUS
  <2>2. (IF m > 0 THEN m + bw ELSE q) \in e..32 BY <2>1
  <2> QED BY <2>2
<1>15. meter'.idle = (IF t > 24 THEN 24 ELSE t) /\ meter'.short = s
  <2>1. meter.idle \in Nat /\ Len(v) \in Nat /\ EndIdle(v) \in Nat
    <3>1. m \in Nat OBVIOUS
    <3>2. bw \in Nat OBVIOUS
    <3>3. q \in Nat BY <3>2
    <3> QED BY <1>4, <1>11, <1>13, <3>1, <3>2, <3>3
  <2>2. LET idle == IF meter.idle > 0 THEN meter.idle + Len(v) ELSE EndIdle(v)
        IN  /\ meter'.idle = IF idle > LongAgo THEN LongAgo ELSE idle
            /\ meter'.short = meter.short
    BY <1>10, <1>12, <2>1, MeterOn
  <2> QED BY <1>3, <1>4, <1>11, <1>13, <1>14, <2>2 DEF LongAgo, IFG
<1>16. PICK f \in e..24 : f = meter'.idle BY <1>7, <1>14, <1>15
<1>17. meter' \in MeterTypes
  <2>1. meter'.idle \in 0..LongAgo /\ meter'.short \in 0..3
    BY <1>7, <1>15, <1>16 DEF LongAgo, IFG
  <2> QED BY <2>1, MeterShape DEF MeterTypes
<1>18. f > 0 /\ s + 12 <= f + o BY <1>6, <1>7, <1>9
<1>19. tx' = [rest |-> <<>>, gap |-> g, deficit |-> d] BY <1>2
<1>20. tx' \in TxTypes /\ tx'.rest = <<>> BY <1>19 DEF TxTypes
<1>21. Owed(phy)' = o BY <1>8, <1>19 DEF Owed
<1>22. BetweenFrames(phy)' BY <1>15, <1>16, <1>18, <1>21 DEF BetweenFrames, IFG
<1> QED BY <1>17, <1>20, <1>22 DEF LanedGap

\* A word of idles: what is seen grows by as much as what is owed falls.
LEMMA IdleStep ==
    ASSUME NEW phy \in Laned, LanedGap(phy), tx.rest = <<>>, Metered(phy), word' = Quiet(phy),
           tx' \in TxTypes, tx'.rest = <<>>, Owed(phy) <= Owed(phy)' + Lanes(phy)
    PROVE  LanedGap(phy)'
<1> DEFINE v == Seen(phy, Quiet(phy))
<1>1. PICK bw \in {4, 8} : bw = Lanes(phy) BY LanesNumber
<1>2. Len(v) = bw /\ (\A i \in DOMAIN v : v[i] # START) BY <1>1, QuietShown
<1>3. Seen(phy, word') = v OBVIOUS
<1> HIDE DEF v
<1>4. PICK s \in 0..3 : s = meter.short BY Counted DEF LanedGap
<1>5. PICK m \in 0..24 : m = meter.idle BY Counted DEF LanedGap
<1>6. PICK o \in Nat : o = Owed(phy) BY Numbers DEF LanedGap
<1>7. PICK p \in Nat : p = Owed(phy)' BY DEF TxTypes, Owed
<1>8. o <= p + bw BY <1>1, <1>6, <1>7
<1>9. m > 0 /\ s + 12 <= m + o BY <1>4, <1>5, <1>6 DEF LanedGap, BetweenFrames, IFG
<1>10. {i \in DOMAIN v : v[i] = START} = {} BY <1>2
<1>11. IdleLanes(v) = m + bw BY <1>2, <1>5, <1>9 DEF IdleLanes
<1>12. PICK f \in 1..24 : f = IF m + bw > 24 THEN 24 ELSE m + bw BY <1>9
<1>13. meter'.idle = f /\ meter'.short = s
  BY <1>3, <1>4, <1>10, <1>11, <1>12 DEF Metered, LongAgo, IFG
<1>14. s + 12 <= f + p BY <1>8, <1>9, <1>12
<1>15. meter' \in MeterTypes
  <2>1. meter'.idle \in 0..LongAgo /\ meter'.short \in 0..3 BY <1>13 DEF LongAgo, IFG
  <2> QED BY <2>1, MeterShape DEF MeterTypes
<1>16. BetweenFrames(phy)' BY <1>7, <1>13, <1>14 DEF BetweenFrames, IFG
<1> QED BY <1>15, <1>16 DEF LanedGap

-----------------------------------------------------------------------------
(* A frame is sent whole.                                                  *)

\* A frame of the test: the preamble, the start delimiter and n bytes at least.
RawFrames(n) == {f \in [data : Seq(Int), user : {0, 1}] : Len(f.data) >= 8 + n}

\* The characters of a frame on XGMII and BASE-R.
LEMMA BuildWhole ==
    ASSUME NEW f \in RawFrames(1)
    PROVE  Whole(XgmiiBuild(f))
<1>1. PICK n \in Nat : n = Len(f.data) /\ n >= 9 BY DEF RawFrames
<1> DEFINE body == [i \in 1..n |-> IF Character(f, i).c = 1 THEN ERROR ELSE Character(f, i)]
<1>2. ASSUME NEW i \in 1..n
      PROVE  /\ body[i] \in Chars
             /\ body[i].c = 0 \/ (body[i] = ERROR /\ i = n)
  <2>1. f.data[i] \in Int BY <1>1 DEF RawFrames
  <2>2. Character(f, i) = [d |-> f.data[i], c |-> IF i = n THEN f.user ELSE 0]
    BY <1>1 DEF Character
  <2>3. (IF i = n THEN f.user ELSE 0) \in {0, 1} BY DEF RawFrames
  <2>4. Character(f, i) \in Chars /\ Character(f, i).c \in {0, 1} BY <2>1, <2>2, <2>3 DEF Chars
  <2>5. Character(f, i).c = 1 => i = n BY <2>2
  <2>6. body[i] = IF Character(f, i).c = 1 THEN ERROR ELSE Character(f, i) OBVIOUS
  <2> QED BY <2>4, <2>5, <2>6, Controlled
<1>3. body \in Seq(Chars) /\ Len(body) = n
  <2>1. DOMAIN body = 1..n /\ \A i \in 1..n : body[i] \in Chars BY <1>2
  <2>2. body = [i \in 1..n |-> body[i]] OBVIOUS
  <2> HIDE DEF body
  <2> QED BY <1>1, <2>1, <2>2
<1>4. XgmiiBuild(f) = <<START>> \o Tail(body) \o <<TERM>> BY <1>1 DEF XgmiiBuild
<1> HIDE DEF body
<1>5. PICK x : x = XgmiiBuild(f) OBVIOUS
<1>6. /\ Tail(body) \in Seq(Chars) /\ Len(Tail(body)) = n - 1
      /\ \A i \in 1..n - 1 : Tail(body)[i] = body[i + 1]
  BY <1>1, <1>3
<1>7. PICK b : b = Tail(body) OBVIOUS
<1>8. x = <<START>> \o b \o <<TERM>> BY <1>4, <1>5, <1>7
<1>9. b \in Seq(Chars) /\ Len(b) = n - 1 /\ START \in Chars /\ TERM \in Chars
  BY <1>6, <1>7, Controlled
<1>10. /\ x \in Seq(Chars) /\ Len(x) = n + 1 /\ x[1] = START /\ x[n + 1] = TERM
       /\ \A i \in 2..n : x[i] = b[i - 1]
  BY <1>1, <1>8, <1>9
<1>11. ASSUME NEW i \in 2..n PROVE x[i].c = 0 \/ (x[i] = ERROR /\ i = n)
  <2>1. i - 1 \in 1..n - 1 /\ i \in 1..n /\ (i - 1) + 1 = i BY <1>1
  <2>2. x[i] = body[i] BY <1>6, <1>7, <1>10, <2>1
  <2> QED BY <1>2, <2>1, <2>2
<1>12. Whole(x)
  <2>1. Len(x) >= 10 /\ Len(x) - 1 = n BY <1>1, <1>10
  <2> QED BY <1>10, <1>11, <2>1 DEF Whole
<1> QED BY <1>5, <1>12

-----------------------------------------------------------------------------
(* A clock of a source with lanes.                                         *)

\* A word of a frame is driven; g is what the source then sets its gap to if the
\* frame ends, enough with what is behind the terminator.
SentWith(phy, chars, gap, d, g) ==
    /\ word' = Wire(phy, chars)
    /\ tx' = [rest |-> SubSeq(chars, Lanes(phy) + 1, Len(chars)), deficit |-> d,
              gap |-> IF Len(chars) <= Lanes(phy) THEN g ELSE gap]
    /\ Following(chars) /\ Len(chars) <= Lanes(phy) =>
         /\ g \in Nat
         /\ IFG + d <= (Lanes(phy) - Len(chars) + 1) + g + (IF phy = "baser" THEN d ELSE 0)
Sent(phy, chars, gap, d) == \E g : SentWith(phy, chars, gap, d, g)

\* XGMIISource: the gap it sets makes up for what the last word lacks.
LEMMA EmitSent ==
    ASSUME NEW phy \in Xgmii, NEW chars, NEW gap, NEW d \in 0..3,
           Emit(Lanes(phy), chars, gap, d)
    PROVE  Sent(phy, chars, gap, d)
<1>1. phy \in Laned /\ phy # "baser" BY DEF Laned, Xgmii
<1>2. PICK bw \in {4, 8} : bw = Lanes(phy) BY <1>1, LanesNumber
<1> DEFINE g == Lack(bw, chars, d)
<1>3. word' = Wire(phy, chars) BY DEF Emit, Wire
<1>4. tx' = [rest |-> SubSeq(chars, Lanes(phy) + 1, Len(chars)), deficit |-> d,
             gap |-> IF Len(chars) <= Lanes(phy) THEN g ELSE gap]
  BY <1>2 DEF Emit
<1>5. ASSUME Following(chars), Len(chars) <= bw
      PROVE  g \in Nat /\ IFG + d <= (bw - Len(chars) + 1) + g
  <2>1. Len(chars) \in Nat BY <1>5 DEF Following
  <2>2. PICK n \in Nat : n = Len(chars) /\ n <= bw BY <1>5, <2>1
  <2>3. n > 0 BY <1>5, <2>2 DEF Following
  <2>4. g = 12 - (bw - n + 1) + d BY <2>2 DEF Lack, IFG
  <2> HIDE DEF g
  <2> QED BY <2>2, <2>3, <2>4 DEF IFG
<1> HIDE DEF g
<1>6. SentWith(phy, chars, gap, d, g) BY <1>1, <1>2, <1>3, <1>4, <1>5 DEF SentWith
<1> QED BY <1>6 DEF Sent

\* The same of baser_serdes_ep, which counts no idle behind an error.
LEMMA SerdesSent ==
    ASSUME NEW chars, NEW gap, NEW d \in 0..3, SerdesEmit(Lanes("serdes"), chars, gap, d)
    PROVE  Sent("serdes", chars, gap, d)
<1>1. "serdes" \in Laned /\ "serdes" \notin Xgmii /\ Lanes("serdes") = 8
  BY DEF Laned, Xgmii, Serdes, Lanes
<1> DEFINE b == SerdesBlock(LanesOf(8, chars))
           covered == IF b.bt = "TERM" THEN 8 - b.at ELSE 0
           g == IFG - covered + d
<1>2. word' = Wire("serdes", chars) BY <1>1 DEF SerdesEmit, Wire
<1>3. tx' = [rest |-> SubSeq(chars, 8 + 1, Len(chars)), deficit |-> d,
             gap |-> IF Len(chars) <= 8 THEN g ELSE gap]
  BY <1>1 DEF SerdesEmit
<1>4. ASSUME Following(chars), Len(chars) <= 8
      PROVE  g \in Nat /\ IFG + d <= (8 - Len(chars) + 1) + g
  <2>1. PICK n \in Nat : n = Len(chars) /\ n <= 8 /\ n > 0 BY <1>4 DEF Following
  <2>2. b.bt = "TERM" => b.at = n - 1 BY <1>1, <1>4, <2>1, ShownEnd
  <2> HIDE DEF b
  <2>3. covered \in 0 .. 8 - n + 1 BY <2>1, <2>2
  <2> HIDE DEF covered
  <2> QED BY <2>1, <2>3 DEF IFG
<1> HIDE DEF g
<1>5. SentWith("serdes", chars, gap, d, g)
  <2>1. ASSUME Following(chars), Len(chars) <= 8
        PROVE  IFG + d <= (8 - Len(chars) + 1) + g + (IF "serdes" = "baser" THEN d ELSE 0)
    <3>1. PICK n \in Nat : n = Len(chars) BY <2>1 DEF Following
    <3>2. g \in Nat /\ IFG + d <= (8 - n + 1) + g BY <1>4, <2>1, <3>1
    <3>3. (IF "serdes" = "baser" THEN d ELSE 0) = 0 OBVIOUS
    <3> QED BY <3>1, <3>2, <3>3
  <2> QED BY <1>1, <1>2, <1>3, <1>4, <2>1 DEF SentWith
<1> QED BY <1>5 DEF Sent

\* The same of baser, which keeps the deficit apart from the gap.
LEMMA BaserSent ==
    ASSUME NEW chars, NEW gap, NEW d \in 0..3, BaserEmit(chars, gap, d)
    PROVE  Sent("baser", chars, gap, d)
<1>1. "baser" \in Laned /\ "baser" \notin Xgmii /\ Lanes("baser") = 8
  BY DEF Laned, Xgmii, Serdes, Lanes
<1> DEFINE g == IFG - (8 - (Len(chars) - 1))
<1>2. word' = Wire("baser", chars) BY <1>1 DEF BaserEmit, Wire
<1>3. tx' = [rest |-> SubSeq(chars, 8 + 1, Len(chars)), deficit |-> d,
             gap |-> IF Len(chars) <= 8 THEN g ELSE gap]
  BY <1>1 DEF BaserEmit
<1>4. ASSUME Following(chars), Len(chars) <= 8
      PROVE  g \in Nat /\ IFG + d <= (8 - Len(chars) + 1) + g + d
  <2>1. PICK n \in Nat : n = Len(chars) /\ n <= 8 /\ n > 0 BY <1>4 DEF Following
  <2> QED BY <2>1 DEF IFG
<1> HIDE DEF g
<1>5. SentWith("baser", chars, gap, d, g) BY <1>1, <1>2, <1>3, <1>4 DEF SentWith
<1> QED BY <1>5 DEF Sent

\* The frame in progress goes on or ends.
LEMMA GoOnStep ==
    ASSUME NEW phy \in Laned, LanedGap(phy), tx.rest # <<>>, Metered(phy),
           NEW chars, chars = tx.rest, NEW gap, gap = tx.gap, NEW d, d = tx.deficit,
           Sent(phy, chars, gap, d)
    PROVE  LanedGap(phy)'
<1>1. PICK g : SentWith(phy, chars, gap, d, g) BY DEF Sent
<1>2. Following(chars) /\ chars \in Seq(Chars) BY DEF LanedGap, WithinFrame, TxTypes
<1>3. PICK bw \in {4, 8} : bw = Lanes(phy) BY LanesNumber
<1>4. CASE Len(chars) > bw
  <2>1. ~(Len(chars) <= bw) BY <1>2, <1>4
  <2>2. /\ word' = Wire(phy, tx.rest)
        /\ tx' = [rest |-> SubSeq(tx.rest, Lanes(phy) + 1, Len(tx.rest)),
                  gap |-> tx.gap, deficit |-> tx.deficit]
    BY <1>1, <1>3, <2>1 DEF SentWith
  <2> QED BY <1>3, <1>4, <2>2, MiddleStep
<1>5. CASE Len(chars) <= bw
  <2>1. SubSeq(chars, bw + 1, Len(chars)) = <<>> BY <1>2, <1>5, RestShape
  <2>2. /\ word' = Wire(phy, tx.rest) /\ g \in Nat
        /\ tx' = [rest |-> <<>>, gap |-> g, deficit |-> tx.deficit]
        /\ IFG + tx.deficit <=
             (Lanes(phy) - Len(tx.rest) + 1) + g + (IF phy = "baser" THEN tx.deficit ELSE 0)
    BY <1>1, <1>2, <1>3, <1>5, <2>1 DEF SentWith
  <2> QED BY <1>3, <1>5, <2>2, EndStep
<1> QED BY <1>2, <1>3, <1>4, <1>5

\* The next frame begins.
LEMMA LoadStep ==
    ASSUME NEW phy \in Laned, LanedGap(phy), tx.rest = <<>>, Metered(phy),
           NEW x, Whole(x), NEW offset \in BOOLEAN, offset => Lanes(phy) = 8,
           NEW d \in 0..3, Owed(phy) <= d + (IF offset THEN 4 ELSE 0),
           Sent(phy, OffsetIdles(offset) \o x, 0, d)
    PROVE  LanedGap(phy)'
<1>1. PICK chars : chars = OffsetIdles(offset) \o x OBVIOUS
<1>2. PICK g : SentWith(phy, chars, 0, d, g) BY <1>1 DEF Sent
<1>3. PICK k : k = IF offset THEN 5 ELSE 1 OBVIOUS
<1>4. chars \in Seq(Chars) /\ Len(chars) > Lanes(phy) BY <1>1, <1>3, ShownStart
<1>5. ~(Len(chars) <= Lanes(phy)) BY <1>4, LanesNumber
<1>6. /\ word' = Wire(phy, chars)
      /\ tx' = [rest |-> SubSeq(chars, Lanes(phy) + 1, Len(chars)), gap |-> 0, deficit |-> d]
  BY <1>2, <1>5 DEF SentWith
<1> QED BY <1>1, <1>6, BeginStep

\* XGMII, and BASE-R of baser_serdes_ep.
LEMMA LaneStep ==
    ASSUME NEW phy \in Xgmii \cup {"serdes"}, LanedGap(phy), LaneSource(phy), Metered(phy),
           pq # <<>> => Head(pq) \in RawFrames(1)
    PROVE  LanedGap(phy)'
<1>1. phy \in Laned /\ phy # "baser" BY DEF Laned, Xgmii, Serdes
<1>2. PICK bw \in {4, 8} : bw = Lanes(phy) BY <1>1, LanesNumber
<1>3. PICK g \in Nat : g = tx.gap BY Numbers DEF LanedGap
<1>4. PICK d \in 0..3 : d = tx.deficit BY Numbers DEF LanedGap
<1>5. tx \in TxTypes BY DEF LanedGap
<1>6. Owed(phy) = g BY <1>1, <1>3 DEF Owed
<1>7. tx.rest # <<>> => g = 0 BY <1>3 DEF LanedGap, WithinFrame
<1>8. ASSUME NEW chars, NEW a, NEW b \in 0..3,
             IF phy = "serdes" THEN SerdesEmit(bw, chars, a, b) ELSE Emit(bw, chars, a, b)
      PROVE  Sent(phy, chars, a, b)
  <2>1. CASE phy = "serdes" BY <1>2, <1>8, <2>1, SerdesSent
  <2>2. CASE phy # "serdes" BY <1>2, <1>8, <2>2, EmitSent
  <2> QED BY <2>1, <2>2
<1>9. CASE /\ tx.gap >= bw /\ tx' = [tx EXCEPT !.gap = @ - bw] /\ word' = Quiet(phy)
  <2>1. g >= bw /\ tx.rest = <<>> BY <1>3, <1>7, <1>9
  <2>2. g - bw \in Nat BY <2>1
  <2>3. tx' = [rest |-> <<>>, gap |-> g - bw, deficit |-> d]
    BY <1>3, <1>4, <1>5, <1>9, <2>1 DEF TxTypes
  <2>4. <<>> \in Seq(Chars) OBVIOUS
  <2>5. tx' \in TxTypes /\ tx'.rest = <<>> /\ tx'.gap = g - bw BY <2>2, <2>3, <2>4, TxNext
  <2>6. Owed(phy)' = g - bw BY <1>1, <2>5 DEF Owed
  <2>7. Owed(phy) <= Owed(phy)' + Lanes(phy) BY <1>2, <1>6, <2>6
  <2> QED BY <1>1, <1>9, <2>1, <2>5, <2>7, IdleStep
<1>10. CASE /\ tx.rest # <<>>
            /\ IF phy = "serdes" THEN SerdesEmit(bw, tx.rest, tx.gap, tx.deficit)
               ELSE Emit(bw, tx.rest, tx.gap, tx.deficit)
  <2>1. PICK chars : chars = tx.rest OBVIOUS
  <2>2. Sent(phy, chars, g, d) BY <1>3, <1>4, <1>8, <1>10, <2>1
  <2> QED BY <1>1, <1>3, <1>4, <1>10, <2>1, <2>2, GoOnStep
<1>11. CASE /\ tx.gap < bw /\ tx.rest = <<>> /\ pq # <<>>
            /\ LET offset == bw = 8 /\ tx.gap >= 4
                   chars == OffsetIdles(offset) \o XgmiiBuild(Head(pq))
                   b == IF offset THEN tx.gap - 4 ELSE tx.gap
               IN  IF phy = "serdes" THEN SerdesEmit(bw, chars, 0, b) ELSE Emit(bw, chars, 0, b)
  <2>1. PICK x : x = XgmiiBuild(Head(pq)) OBVIOUS
  <2>2. Whole(x) BY <1>11, <2>1, BuildWhole
  <2>3. PICK offset \in BOOLEAN : offset = (bw = 8 /\ g >= 4) OBVIOUS
  <2>4. PICK b \in 0..3 : b = IF offset THEN g - 4 ELSE g
    <3>1. g < bw BY <1>3, <1>11
    <3>2. bw = 8 /\ g >= 4 => g - 4 \in 0..3 BY <3>1
    <3>3. ~(bw = 8 /\ g >= 4) => g \in 0..3 BY <3>1
    <3>4. (IF offset THEN g - 4 ELSE g) \in 0..3 BY <2>3, <3>2, <3>3, Zenon
    <3> QED BY <3>4
  <2>5. Sent(phy, OffsetIdles(offset) \o x, 0, b) BY <1>3, <1>8, <1>11, <2>1, <2>3, <2>4
  <2>6. Owed(phy) <= b + (IF offset THEN 4 ELSE 0) BY <1>6, <2>4
  <2>7. offset => Lanes(phy) = 8 BY <1>2, <2>3
  <2> QED BY <1>1, <1>11, <2>2, <2>5, <2>6, <2>7, LoadStep
<1>12. CASE /\ tx.gap < bw /\ tx.rest = <<>>
            /\ tx' = [tx EXCEPT !.gap = 0, !.deficit = 0] /\ word' = Quiet(phy)
  <2>1. tx' = [rest |-> <<>>, gap |-> 0, deficit |-> 0] BY <1>5, <1>12 DEF TxTypes
  <2>2. <<>> \in Seq(Chars) /\ 0 \in Nat /\ 0 \in 0..3 OBVIOUS
  <2>3. tx' \in TxTypes /\ tx'.rest = <<>> /\ tx'.gap = 0 BY <2>1, <2>2, TxNext
  <2>4. Owed(phy)' = 0 BY <1>1, <2>3 DEF Owed
  <2>5. Owed(phy) <= Owed(phy)' + Lanes(phy) BY <1>2, <1>3, <1>6, <1>12, <2>4
  <2> QED BY <1>1, <1>12, <2>3, <2>5, IdleStep
<1> QED BY <1>2, <1>9, <1>10, <1>11, <1>12 DEF LaneSource

\* BASE-R of baser.
LEMMA BaserStep ==
    ASSUME LanedGap("baser"), BaserSource, Metered("baser"),
           pq # <<>> => Head(pq) \in RawFrames(1)
    PROVE  LanedGap("baser")'
<1>1. "baser" \in Laned /\ Lanes("baser") = 8 /\ Quiet("baser") = IdleBlock
  BY DEF Laned, Serdes, Xgmii, Lanes, Quiet
<1>2. PICK g \in Nat : g = tx.gap BY Numbers DEF LanedGap
<1>3. PICK d \in 0..3 : d = tx.deficit BY Numbers DEF LanedGap
<1>4. tx \in TxTypes BY DEF LanedGap
<1>5. Owed("baser") = g + d BY <1>2, <1>3 DEF Owed
<1>6. tx.rest # <<>> => g = 0 BY <1>2 DEF LanedGap, WithinFrame
<1>7. CASE /\ tx.gap + tx.deficit > 7 /\ word' = IdleBlock
           /\ tx' = [tx EXCEPT !.gap = NonNeg(@ - 8),
                               !.deficit = IF tx.gap < 8 THEN NonNeg(@ + tx.gap - 8) ELSE @]
  <2>1. g + d > 7 /\ tx.rest = <<>> BY <1>2, <1>3, <1>6, <1>7
  <2>2. PICK h \in Nat : h = NonNeg(g - 8) BY DEF NonNeg
  <2>3. PICK e \in 0..3 : e = IF g < 8 THEN NonNeg(d + g - 8) ELSE d
    <3>1. (IF g < 8 THEN NonNeg(d + g - 8) ELSE d) \in 0..3 BY DEF NonNeg
    <3> QED BY <3>1
  <2>4. g + d <= h + e + 8 BY <2>2, <2>3 DEF NonNeg
  <2>5. tx' = [rest |-> <<>>, gap |-> h, deficit |-> e]
    BY <1>2, <1>3, <1>4, <1>7, <2>1, <2>2, <2>3 DEF TxTypes
  <2>6. <<>> \in Seq(Chars) OBVIOUS
  <2>7. tx' \in TxTypes /\ tx'.rest = <<>> /\ tx'.gap = h /\ tx'.deficit = e
    BY <2>5, <2>6, TxNext
  <2>8. Owed("baser")' = h + e BY <2>7 DEF Owed
  <2>9. Owed("baser") <= Owed("baser")' + Lanes("baser") BY <1>1, <1>5, <2>4, <2>8
  <2> QED BY <1>1, <1>7, <2>1, <2>7, <2>9, IdleStep
<1>8. CASE tx.rest # <<>> /\ BaserEmit(tx.rest, tx.gap, tx.deficit)
  <2>1. PICK chars : chars = tx.rest OBVIOUS
  <2>2. BaserEmit(chars, g, d) BY <1>2, <1>3, <1>8, <2>1
  <2>3. Sent("baser", chars, g, d) BY <2>2, BaserSent
  <2> QED BY <1>1, <1>2, <1>3, <1>8, <2>1, <2>3, GoOnStep
<1>9. CASE /\ ~(tx.gap + tx.deficit > 7) /\ tx.rest = <<>> /\ pq # <<>>
           /\ LET offset == tx.gap > 3 - tx.deficit
              IN  BaserEmit(OffsetIdles(offset) \o XgmiiBuild(Head(pq)), 0,
                            NonNeg(tx.deficit + tx.gap - (IF offset THEN 4 ELSE 0)))
  <2>1. PICK x : x = XgmiiBuild(Head(pq)) OBVIOUS
  <2>2. Whole(x) BY <1>9, <2>1, BuildWhole
  <2>3. PICK offset \in BOOLEAN : offset = (g > 3 - d)
    <3>1. (g > 3 - d) \in BOOLEAN OBVIOUS
    <3> QED BY <3>1
  <2>4. g + d <= 7 BY <1>2, <1>3, <1>9
  <2>5. PICK b \in 0..3 : b = NonNeg(d + g - (IF offset THEN 4 ELSE 0))
    <3>1. g > 3 - d => d + g - 4 \in 0..3 BY <2>4
    <3>2. ~(g > 3 - d) => d + g - 0 \in 0..3 BY <2>4
    <3>3. d + g - (IF offset THEN 4 ELSE 0) \in 0..3 BY <2>3, <3>1, <3>2, Zenon
    <3>4. PICK n \in 0..3 : n = d + g - (IF offset THEN 4 ELSE 0) BY <3>3
    <3>5. NonNeg(n) = n BY DEF NonNeg
    <3> QED BY <3>4, <3>5
  <2>6. g + d <= b + (IF offset THEN 4 ELSE 0) BY <2>3, <2>5 DEF NonNeg
  <2>7. PICK chars : chars = OffsetIdles(offset) \o x OBVIOUS
  <2>8. BaserEmit(chars, 0, b) BY <1>2, <1>3, <1>9, <2>1, <2>3, <2>5, <2>7
  <2>9. Sent("baser", chars, 0, b) BY <2>8, BaserSent
  <2> QED BY <1>1, <1>5, <1>9, <2>2, <2>6, <2>7, <2>9, LoadStep
<1>10. CASE /\ ~(tx.gap + tx.deficit > 7) /\ tx.rest = <<>>
            /\ tx' = [tx EXCEPT !.gap = 0, !.deficit = 0] /\ word' = IdleBlock
  <2>1. tx' = [rest |-> <<>>, gap |-> 0, deficit |-> 0] BY <1>4, <1>10 DEF TxTypes
  <2>2. <<>> \in Seq(Chars) /\ 0 \in Nat /\ 0 \in 0..3 OBVIOUS
  <2>3. tx' \in TxTypes /\ tx'.rest = <<>> /\ tx'.gap = 0 /\ tx'.deficit = 0
    BY <2>1, <2>2, TxNext
  <2>4. Owed("baser")' = 0 BY <2>3 DEF Owed
  <2>5. Owed("baser") <= Owed("baser")' + Lanes("baser")
    BY <1>1, <1>2, <1>3, <1>5, <1>10, <2>4
  <2> QED BY <1>1, <1>10, <2>3, <2>5, IdleStep
<1> QED BY <1>7, <1>8, <1>9, <1>10 DEF BaserSource

-----------------------------------------------------------------------------
(* GMII and MII.                                                           *)

Lined == Nibbled \cup {"gmii"}

\* Between two frames the idle clocks seen and those to come are a whole gap, and
\* within one no clock is idle.
LineGap(phy) ==
    /\ tx \in TxTypes /\ meter \in MeterTypes /\ meter.short = 0
    /\ tx.rest = <<>> => /\ GmiiGap(phy) <= meter.idle + tx.gap
                         /\ tx.gap < GmiiGap(phy) => word = <<>>
    /\ tx.rest # <<>> => tx.gap = 0 /\ word # <<>>

\* A nibble is a number.
LEMMA NibbleInt == ASSUME NEW b \in Int, NEW k PROVE Nibble(b, k) \in Int
<1>1. b % 16 \in Int /\ b \div 16 \in Int OBVIOUS
<1> QED BY <1>1 DEF Nibble

\* A frame has more characters than one.
LEMMA LineChars ==
    ASSUME NEW phy \in Lined, NEW f \in RawFrames(0)
    PROVE  GmiiChars(phy, f) \in Seq(Chars) /\ Len(GmiiChars(phy, f)) >= 2
<1>1. PICK n \in Nat : n = Len(f.data) /\ n >= 8 BY DEF RawFrames
<1>2. f.data \in Seq(Int) /\ f.user \in {0, 1} BY DEF RawFrames
<1>3. \A i \in 1..n : f.data[i] \in Int BY <1>1, <1>2
<1>4. ASSUME NEW i \in 1..n PROVE Character(f, i) \in Chars
  <2>1. (IF i = n THEN f.user ELSE 0) \in Int BY <1>2
  <2> QED BY <1>1, <1>3, <2>1 DEF Character, Chars
<1> DEFINE g == [i \in 1..n |-> Character(f, i)]
<1>5. GmiiBuild(f) = g BY <1>1 DEF GmiiBuild
<1>6. g \in Seq(Chars) /\ Len(g) = n
  <2>1. DOMAIN g = 1..n /\ \A i \in 1..n : g[i] \in Chars BY <1>4
  <2>2. g = [i \in 1..n |-> g[i]] OBVIOUS
  <2> HIDE DEF g
  <2> QED BY <2>1, <2>2
<1> HIDE DEF g
<1>7. \A k \in 1..2 * n : (k + 1) \div 2 \in 1..n BY <1>1
<1>8. CASE phy = "gmii" BY <1>1, <1>5, <1>6, <1>8 DEF GmiiChars
<1>9. CASE phy = "gmii_mii"
  <2> DEFINE s == [k \in 1..2 * n |-> [g[(k + 1) \div 2] EXCEPT !.d = Nibble(@, k)]]
  <2>1. GmiiChars(phy, f) = s BY <1>5, <1>6, <1>9 DEF GmiiChars, MiiSelect
  <2>2. ASSUME NEW k \in 1..2 * n PROVE s[k] \in Chars
    <3>1. PICK c : c = g[(k + 1) \div 2] OBVIOUS
    <3>2. c \in Chars BY <1>6, <1>7, <3>1
    <3>3. Nibble(c.d, k) \in Int BY <3>2, NibbleInt DEF Chars
    <3>4. [c EXCEPT !.d = Nibble(@, k)] \in Chars BY <3>2, <3>3 DEF Chars
    <3> QED BY <3>1, <3>4
  <2>3. DOMAIN s = 1..2 * n /\ s = [k \in 1..2 * n |-> s[k]] OBVIOUS
  <2> HIDE DEF s
  <2>4. 2 * n \in Nat /\ 2 * n >= 2 BY <1>1
  <2>5. s \in Seq(Chars) /\ Len(s) = 2 * n BY <2>2, <2>3, <2>4
  <2> QED BY <2>1, <2>4, <2>5
<1>10. CASE phy = "mii"
  <2> DEFINE s == [k \in 1..2 * n |-> [d |-> Nibble(f.data[(k + 1) \div 2], k),
                                       c |-> IF k = 2 * n THEN f.user ELSE 0]]
  <2>1. GmiiChars(phy, f) = s BY <1>1, <1>10 DEF GmiiChars, MiiBuild
  <2>2. ASSUME NEW k \in 1..2 * n PROVE s[k] \in Chars
    <3>1. PICK b \in Int : b = f.data[(k + 1) \div 2] BY <1>3, <1>7
    <3>2. Nibble(b, k) \in Int BY NibbleInt
    <3>3. (IF k = 2 * n THEN f.user ELSE 0) \in Int BY <1>2
    <3> QED BY <3>1, <3>2, <3>3 DEF Chars
  <2>3. DOMAIN s = 1..2 * n /\ s = [k \in 1..2 * n |-> s[k]] OBVIOUS
  <2> HIDE DEF s
  <2>4. 2 * n \in Nat /\ 2 * n >= 2 BY <1>1
  <2>5. s \in Seq(Chars) /\ Len(s) = 2 * n BY <2>2, <2>3, <2>4
  <2> QED BY <2>1, <2>4, <2>5
<1> QED BY <1>8, <1>9, <1>10 DEF Lined, Nibbled

\* A clock of the meter on these wires.
LEMMA LineMeter ==
    ASSUME NEW phy \in Lined, Metered(phy)
    PROVE  LET begins == word = <<>> /\ word' # <<>>
               idle == IF begins THEN 0 ELSE IF word' = <<>> THEN meter.idle + 1 ELSE 0
           IN  meter' = [idle |-> IF idle > LongAgo THEN LongAgo ELSE idle,
                         short |-> IF ~begins THEN meter.short
                                   ELSE NonNeg(meter.short + GmiiGap(phy) - (meter.idle + 0))]
<1>1. phy \notin Laned /\ phy \notin Serdes BY DEF Lined, Nibbled, Laned, Xgmii, Serdes
<1>2. Seen(phy, word') = word' BY <1>1 DEF Seen
<1> QED BY <1>1, <1>2 DEF Metered, Shortfall

\* A clock of GMIISource or MIISource.
LEMMA LineStep ==
    ASSUME NEW phy \in Lined, LineGap(phy), GmiiSource(phy), Metered(phy),
           pq # <<>> => Head(pq) \in RawFrames(0)
    PROVE  LineGap(phy)'
<1>1. PICK g \in Nat : g = tx.gap BY Numbers DEF LineGap
<1>2. PICK d \in 0..3 : d = tx.deficit BY Numbers DEF LineGap
<1>3. PICK m \in 0..24 : m = meter.idle BY Counted DEF LineGap
<1>4. tx \in TxTypes /\ tx.rest \in Seq(Chars) /\ meter.short = 0 BY Numbers DEF LineGap
<1>5. PICK k \in {12, 24} : k = GmiiGap(phy) BY DEF GmiiGap, IFG
<1>6. tx.rest = <<>> => k <= m + g /\ (g < k => word = <<>>) BY <1>1, <1>3, <1>5 DEF LineGap
<1>7. tx.rest # <<>> => g = 0 /\ word # <<>> BY <1>1 DEF LineGap
<1>8. <<>> \in Seq(Chars) /\ 0 \in Nat OBVIOUS
<1>9. LongAgo = 24 BY DEF LongAgo, IFG
<1>10. ASSUME NEW h \in Nat, tx.rest = <<>>, tx' = [rest |-> <<>>, gap |-> h, deficit |-> d],
              word' = <<>>, g <= h + 1
       PROVE  LineGap(phy)'
  <2>1. PICK f \in 0..24 : f = IF m + 1 > 24 THEN 24 ELSE m + 1 OBVIOUS
  <2>2. meter' = [idle |-> f, short |-> 0] BY <1>3, <1>4, <1>9, <1>10, <2>1, LineMeter
  <2>3. meter' \in MeterTypes /\ meter'.short = 0 /\ meter'.idle = f
    BY <1>9, <2>2 DEF MeterTypes
  <2>4. tx' \in TxTypes /\ tx'.rest = <<>> /\ tx'.gap = h BY <1>8, <1>10, TxNext
  <2>5. k <= f + h BY <1>6, <1>10, <2>1
  <2> QED BY <1>5, <1>10, <2>3, <2>4, <2>5 DEF LineGap
<1>11. ASSUME meter' = [idle |-> 0, short |-> 0]
       PROVE  meter' \in MeterTypes /\ meter'.short = 0 /\ meter'.idle = 0
  BY <1>9, <1>11 DEF MeterTypes
<1>12. CASE tx.gap > 0 /\ tx' = [tx EXCEPT !.gap = @ - 1] /\ word' = <<>>
  <2>1. g > 0 /\ tx.rest = <<>> BY <1>1, <1>7, <1>12
  <2>2. g - 1 \in Nat /\ g <= (g - 1) + 1 BY <2>1
  <2>3. tx' = [rest |-> <<>>, gap |-> g - 1, deficit |-> d]
    BY <1>1, <1>2, <1>4, <1>12, <2>1 DEF TxTypes
  <2> QED BY <1>10, <1>12, <2>1, <2>2, <2>3
<1>13. CASE /\ tx.rest # <<>> /\ word' = <<Head(tx.rest)>>
            /\ tx' = [tx EXCEPT !.rest = Tail(@),
                                !.gap = IF Len(tx.rest) = 1 THEN GmiiGap(phy) ELSE 0]
  <2>1. PICK r : r = Tail(tx.rest) OBVIOUS
  <2>2. r \in Seq(Chars) /\ (r = <<>> <=> Len(tx.rest) = 1) BY <1>4, <1>13, <2>1, SMTT(30)
  <2>3. PICK h \in Nat : h = IF Len(tx.rest) = 1 THEN k ELSE 0 OBVIOUS
  <2>4. tx' = [rest |-> r, gap |-> h, deficit |-> d]
    BY <1>2, <1>4, <1>5, <1>13, <2>1, <2>3 DEF TxTypes
  <2>5. tx' \in TxTypes /\ tx'.rest = r /\ tx'.gap = h BY <2>2, <2>4, TxNext
  <2>6. word' # <<>> BY <1>13
  <2>7. meter' = [idle |-> 0, short |-> 0]
    BY <1>4, <1>7, <1>9, <1>13, <2>6, LineMeter
  <2>8. r = <<>> => h = k BY <2>2, <2>3
  <2>9. r # <<>> => h = 0 BY <2>2, <2>3
  <2>10. r = <<>> => k <= 0 + h /\ ~(h < k) BY <2>8
  <2> QED BY <1>5, <1>11, <2>5, <2>6, <2>7, <2>9, <2>10 DEF LineGap
<1>14. CASE /\ tx.gap = 0 /\ tx.rest = <<>> /\ pq # <<>>
            /\ \E chars \in {GmiiChars(phy, Head(pq))} :
                 word' = <<Head(chars)>> /\ tx' = [tx EXCEPT !.rest = Tail(chars)]
  <2>1. PICK chars : chars = GmiiChars(phy, Head(pq)) OBVIOUS
  <2>2. word' = <<Head(chars)>> /\ tx' = [tx EXCEPT !.rest = Tail(chars)] BY <1>14, <2>1
  <2>3. chars \in Seq(Chars) /\ Len(chars) >= 2 BY <1>14, <2>1, LineChars
  <2>4. PICK r : r = Tail(chars) OBVIOUS
  <2>5. r \in Seq(Chars) /\ r # <<>>
    <3>1. chars # <<>> BY <2>3
    <3>2. Tail(chars) \in Seq(Chars) /\ Len(Tail(chars)) = Len(chars) - 1 BY <2>3, <3>1
    <3>3. Len(r) # 0 BY <2>3, <2>4, <3>2
    <3> QED BY <2>4, <3>2, <3>3
  <2>6. tx' = [rest |-> r, gap |-> 0, deficit |-> d]
    BY <1>2, <1>4, <1>14, <2>2, <2>4 DEF TxTypes
  <2>7. tx' \in TxTypes /\ tx'.rest = r /\ tx'.gap = 0 BY <1>8, <2>5, <2>6, TxNext
  <2>8. word = <<>> /\ k <= m BY <1>1, <1>6, <1>14, SMTT(30)
  <2>9. word' # <<>> BY <2>2
  <2>10. meter' = [idle |-> 0, short |-> NonNeg(0 + k - (m + 0))]
    BY <1>3, <1>4, <1>5, <1>9, <2>8, <2>9, LineMeter
  <2>11. NonNeg(0 + k - (m + 0)) = 0 BY <2>8 DEF NonNeg
  <2> QED BY <1>11, <2>5, <2>7, <2>9, <2>10, <2>11 DEF LineGap
<1>15. CASE tx.gap = 0 /\ tx.rest = <<>> /\ word' = <<>> /\ tx' = tx
  <2>1. tx' = [rest |-> <<>>, gap |-> g, deficit |-> d] BY <1>1, <1>2, <1>4, <1>15 DEF TxTypes
  <2>2. g <= g + 1 OBVIOUS
  <2> QED BY <1>10, <1>15, <2>1, <2>2
<1> QED BY <1>12, <1>13, <1>14, <1>15 DEF GmiiSource

-----------------------------------------------------------------------------
(* The bench.                                                              *)

\* The least payload of a frame: a bad frame without one would lose its start with
\* the block of its error.
LeastPayload(phy) == IF phy \in Laned THEN 1 ELSE 0

GapInv ==
    /\ layer \in Phys => /\ pq \in Seq(RawFrames(LeastPayload(layer)))
                         /\ sent \in Seq([frame : Seq(Int), user : {0, 1}])
    /\ layer \in Laned => LanedGap(layer)
    /\ layer \in Lined => LineGap(layer)
    /\ layer \notin Phys => meter.short = 0

\* The PHYs are those with lanes and those with a character per clock.
LEMMA Layers ==
    /\ Phys = Laned \cup Lined /\ Laned \cap Lined = {}
    /\ Laned = Xgmii \cup {"serdes", "baser"}
BY DEF Phys, Laned, Lined, Nibbled, Xgmii, Serdes

NoFrame == [rest |-> <<>>, gap |-> 0, deficit |-> 0]
NoGap == [idle |-> LongAgo, short |-> 0]

\* Nothing has been sent for long: the gap is whole.
LEMMA FreshGap ==
    ASSUME NEW phy
    PROVE  /\ NoFrame \in TxTypes /\ NoFrame.gap = 0 /\ NoFrame.deficit = 0 /\ NoFrame.rest = <<>>
           /\ NoGap \in MeterTypes /\ NoGap.idle = 24 /\ NoGap.short = 0
           /\ GmiiGap(phy) \in {12, 24}
<1>1. <<>> \in Seq(Chars) /\ 0 \in Nat /\ 0 \in 0..3 OBVIOUS
<1> QED BY <1>1 DEF NoFrame, NoGap, TxTypes, MeterTypes, LongAgo, IFG, GmiiGap

\* The frames of the test.
LEMMA TestRawShape ==
    ASSUME NEW n \in Nat, NEW len \in Nat
    PROVE  TestRaw(n, len) \in Seq(Int) /\ Len(TestRaw(n, len)) = 8 + len
<1> DEFINE a == [i \in 1..8 |-> IF i < 8 THEN PRE ELSE SFD]
           b == [i \in 1..len |-> 256 - 16 * n - i]
<1>1. a \in Seq(Int) /\ Len(a) = 8 BY DEF PRE, SFD
<1>2. b \in Seq(Int) /\ Len(b) = len
  <2>1. DOMAIN b = 1..len /\ \A i \in 1..len : b[i] \in Int OBVIOUS
  <2>2. b = [i \in 1..len |-> b[i]] OBVIOUS
  <2> HIDE DEF b
  <2> QED BY <2>1, <2>2
<1>3. TestRaw(n, len) = a \o b BY DEF TestRaw, TestPayload
<1> HIDE DEF a, b
<1>4. Len(a \o b) = Len(a) + Len(b) /\ a \o b \in Seq(Int) BY <1>1, <1>2, ConcatProperties
<1>5. Len(a \o b) = 8 + len BY <1>1, <1>2, <1>4
<1> QED BY <1>3, <1>4, <1>5

\* A source takes the frames from its queue one by one.
LEMMA QueueStep ==
    ASSUME NEW phy, NEW w, PhyStep(phy, w)
    PROVE  pq' = pq \/ (pq # <<>> /\ pq' = Tail(pq))
<1>1. ASSUME NEW p, GmiiSource(p) PROVE pq' = pq \/ (pq # <<>> /\ pq' = Tail(pq))
  BY <1>1 DEF GmiiSource
<1>2. ASSUME NEW p, LaneSource(p) PROVE pq' = pq \/ (pq # <<>> /\ pq' = Tail(pq))
  BY <1>2 DEF LaneSource
<1>3. ASSUME BaserSource PROVE pq' = pq \/ (pq # <<>> /\ pq' = Tail(pq))
  BY <1>3 DEF BaserSource
<1> QED BY <1>1, <1>2, <1>3 DEF PhyStep, MiiSource, XgmiiSource, SerdesSource

\* The test sends a frame.
LEMMA RawStep ==
    ASSUME GapInv, TestSendsRaw, 0 \notin LANE_PAYLOADS
    PROVE  GapInv'
<1>1. layer \in Phys /\ UNCHANGED <<phyVars, layer>> BY DEF TestSendsRaw
<1>2. PICK len \in IF layer \in Laned THEN LANE_PAYLOADS ELSE PHY_PAYLOADS :
           LET f == TestRaw(Len(sent) + 1, len)
               user == Len(sent) % 2
           IN  /\ pq' = Append(pq, [data |-> f, user |-> user])
               /\ sent' = Append(sent, [frame |-> f, user |-> user])
  BY DEF TestSendsRaw
<1>3. len \in Nat /\ len >= LeastPayload(layer)
  <2>1. LANE_PAYLOADS \subseteq Nat /\ PHY_PAYLOADS \subseteq Nat BY BenchAssumption
  <2>2. CASE layer \in Laned
    <3>1. len \in Nat /\ len # 0 BY <1>2, <2>1, <2>2
    <3> QED BY <2>2, <3>1 DEF LeastPayload
  <2>3. CASE layer \notin Laned
    <3>1. len \in Nat BY <1>2, <2>1, <2>3
    <3> QED BY <2>3, <3>1 DEF LeastPayload
  <2> QED BY <2>2, <2>3
<1>4. PICK least \in {0, 1} : least = LeastPayload(layer) BY DEF LeastPayload
<1>5. pq \in Seq(RawFrames(least)) /\ sent \in Seq([frame : Seq(Int), user : {0, 1}])
  BY <1>1, <1>4 DEF GapInv
<1>6. PICK n \in Nat : n = Len(sent) BY <1>5
<1>7. PICK f : f = TestRaw(n + 1, len) OBVIOUS
<1>8. PICK u \in {0, 1} : u = n % 2
  <2>1. n % 2 \in {0, 1} OBVIOUS
  <2> QED BY <2>1
<1>9. f \in Seq(Int) /\ Len(f) = 8 + len
  <2>1. n + 1 \in Nat OBVIOUS
  <2> QED BY <1>3, <1>7, <2>1, TestRawShape
<1>10. [data |-> f, user |-> u] \in RawFrames(least) BY <1>3, <1>4, <1>9 DEF RawFrames
<1>11. /\ pq' = Append(pq, [data |-> f, user |-> u])
       /\ sent' = Append(sent, [frame |-> f, user |-> u])
  BY <1>2, <1>6, <1>7, <1>8
<1>12. pq' \in Seq(RawFrames(least)) BY <1>5, <1>10, <1>11
<1>13. sent' \in Seq([frame : Seq(Int), user : {0, 1}])
  <2>1. [frame |-> f, user |-> u] \in [frame : Seq(Int), user : {0, 1}] BY <1>9
  <2> QED BY <1>5, <1>11, <2>1
<1>14. LeastPayload(layer)' = least BY <1>1, <1>4 DEF LeastPayload
<1>15. PICK phy : phy = layer OBVIOUS
<1>16. (layer \in Laned => LanedGap(layer))' /\ (layer \in Lined => LineGap(layer))'
  <2>1. tx' = tx /\ meter' = meter /\ word' = word /\ layer' = phy BY <1>1, <1>15 DEF phyVars
  <2>2. LanedGap(phy) => LanedGap(phy)'
    BY <2>1 DEF LanedGap, BetweenFrames, WithinFrame, Owed
  <2>3. LineGap(phy) => LineGap(phy)' BY <2>1 DEF LineGap
  <2> QED BY <1>15, <2>1, <2>2, <2>3 DEF GapInv
<1> QED BY <1>1, <1>12, <1>13, <1>14, <1>16 DEF GapInv

\* A clock of a PHY.
LEMMA PhyEdgeStep ==
    ASSUME GapInv, PhyEdge
    PROVE  GapInv'
<1>1. layer \in Phys /\ UNCHANGED <<layer, sent>> BY DEF PhyEdge
<1>2. PICK phy : phy = layer OBVIOUS
<1>3. PICK w : PhyStep(phy, w) BY <1>2 DEF PhyEdge
<1>4. layer' = phy /\ phy \in Phys BY <1>1, <1>2
<1>5. PICK least \in {0, 1} : least = LeastPayload(phy) BY DEF LeastPayload
<1>6. pq \in Seq(RawFrames(least)) BY <1>1, <1>2, <1>5 DEF GapInv
<1>7. pq # <<>> => Head(pq) \in RawFrames(least) BY <1>6
<1>8. pq' \in Seq(RawFrames(least)) BY <1>3, <1>6, QueueStep
<1>9. Metered(phy) BY <1>3 DEF PhyStep
<1>10. CASE phy \in Xgmii \cup {"serdes"}
  <2>1. LaneSource(phy) /\ phy \in Laned
    BY <1>3, <1>10 DEF PhyStep, XgmiiSource, SerdesSource, Xgmii, Laned, Serdes
  <2>2. LanedGap(phy) /\ least = 1 BY <1>2, <1>5, <2>1 DEF GapInv, LeastPayload
  <2>3. LanedGap(phy)' BY <1>7, <1>9, <1>10, <2>1, <2>2, LaneStep
  <2>4. phy \notin Lined BY <2>1, Layers
  <2> QED BY <1>1, <1>4, <1>5, <1>8, <2>3, <2>4 DEF GapInv
<1>11. CASE phy = "baser"
  <2>1. BaserSource /\ phy \in Laned BY <1>3, <1>11 DEF PhyStep, Xgmii, Laned, Serdes
  <2>2. LanedGap(phy) /\ least = 1 BY <1>2, <1>5, <2>1 DEF GapInv, LeastPayload
  <2>3. LanedGap(phy)' BY <1>7, <1>9, <1>11, <2>1, <2>2, BaserStep
  <2>4. phy \notin Lined BY <2>1, Layers
  <2> QED BY <1>1, <1>4, <1>5, <1>8, <2>3, <2>4 DEF GapInv
<1>12. CASE phy \in Lined
  <2>1. GmiiSource(phy) BY <1>3, <1>12 DEF PhyStep, MiiSource, Lined, Nibbled, Xgmii
  <2>2. phy \notin Laned BY <1>12, Layers
  <2>3. LineGap(phy) /\ least = 0 BY <1>2, <1>5, <1>12, <2>2 DEF GapInv, LeastPayload
  <2>4. LineGap(phy)' BY <1>7, <1>9, <1>12, <2>1, <2>3, LineStep
  <2> QED BY <1>1, <1>4, <1>5, <1>8, <2>2, <2>4 DEF GapInv
<1> QED BY <1>4, <1>10, <1>11, <1>12, Layers

\* The invariant holds at first,
LEMMA GapInit ==
    ASSUME Init
    PROVE  GapInv
<1>1. tx = NoFrame /\ meter = NoGap /\ pq = <<>> /\ sent = <<>>
  BY DEF Init, PhyInit, AxisInit, NoFrame, NoGap
<1>2. layer \in Lined => word = <<>>
  BY DEF Init, PhyInit, Quiet, Lined, Nibbled, Xgmii, Serdes
<1>3. meter.idle = 24 /\ meter.short = 0 /\ tx.gap = 0 /\ tx.deficit = 0 /\ tx.rest = <<>>
  BY <1>1, FreshGap
<1>4. tx \in TxTypes /\ meter \in MeterTypes BY <1>1, FreshGap
<1>5. BetweenFrames(layer) BY <1>3 DEF BetweenFrames, Owed, IFG
<1>6. GmiiGap(layer) <= meter.idle + tx.gap BY <1>3, FreshGap
<1>7. LanedGap(layer) /\ (layer \in Lined => LineGap(layer))
  BY <1>2, <1>3, <1>4, <1>5, <1>6 DEF LanedGap, LineGap
<1> QED BY <1>1, <1>3, <1>7, Layers DEF GapInv

\* and every step keeps it.
LEMMA GapStep ==
    ASSUME GapInv, [Next]_vars, 0 \notin LANE_PAYLOADS
    PROVE  GapInv'
<1>1. CASE TestSendsRaw BY <1>1, RawStep
<1>2. CASE PhyEdge BY <1>2, PhyEdgeStep
<1>3. ASSUME layer \notin Phys, UNCHANGED <<meter, layer>> PROVE GapInv'
  BY <1>3, Layers DEF GapInv
<1>4. CASE TestSends
  <2>1. layer \notin Phys
    <3>1. layer \in Phys => TestFrames(Len(sent) + 1) = {}
      BY DEF TestFrames, Phys, Laned, Nibbled, Xgmii, Serdes
    <3> QED BY <1>4, <3>1 DEF TestSends
  <2> QED BY <1>3, <1>4, <2>1 DEF TestSends, phyVars
<1>5. CASE Clock BY <1>3, <1>5 DEF Clock, Edge, phyVars
<1>6. CASE Reset
  <2>1. CASE layer \notin Phys BY <1>3, <1>6, <2>1 DEF Reset, phyVars
  <2>2. CASE layer \in Phys
    <3>1. PICK phy \in Phys : phy = layer BY <2>2
    <3>2. /\ tx' = NoFrame /\ word' = Quiet(phy) /\ meter' = NoGap
          /\ pq' = pq /\ sent' = sent /\ layer' = phy
      BY <1>6, <2>2, <3>1 DEF Reset, PhyReset, AxisReset, NoFrame, NoGap
    <3>3. phy \in Lined => word' = <<>> BY <3>2 DEF Quiet, Lined, Nibbled, Xgmii, Serdes
    <3>4. (phy \in Laned => LanedGap(phy)') /\ (phy \in Lined => LineGap(phy)')
      <4>1. /\ meter'.idle = 24 /\ meter'.short = 0
            /\ tx'.gap = 0 /\ tx'.deficit = 0 /\ tx'.rest = <<>>
        BY <3>2, FreshGap
      <4>2. tx' \in TxTypes /\ meter' \in MeterTypes BY <3>2, FreshGap
      <4>3. BetweenFrames(phy)' BY <4>1 DEF BetweenFrames, Owed, IFG
      <4>4. GmiiGap(phy) <= meter'.idle + tx'.gap BY <4>1, FreshGap
      <4> QED BY <3>3, <4>1, <4>2, <4>3, <4>4 DEF LanedGap, LineGap
    <3>5. LeastPayload(layer)' = LeastPayload(layer) BY <3>1, <3>2 DEF LeastPayload
    <3> QED BY <3>1, <3>2, <3>4, <3>5 DEF GapInv
  <2> QED BY <2>1, <2>2
<1>7. CASE UNCHANGED vars
  <2>1. PICK phy : phy = layer OBVIOUS
  <2>2. /\ tx' = tx /\ meter' = meter /\ word' = word /\ layer' = phy /\ pq' = pq /\ sent' = sent
    BY <1>7, <2>1 DEF vars, axisVars, phyVars, benchVars
  <2>3. LanedGap(phy) => LanedGap(phy)'
    BY <2>2 DEF LanedGap, BetweenFrames, WithinFrame, Owed
  <2>4. LineGap(phy) => LineGap(phy)' BY <2>2 DEF LineGap
  <2>5. LeastPayload(layer)' = LeastPayload(layer) BY <2>1, <2>2 DEF LeastPayload
  <2> QED BY <2>1, <2>2, <2>3, <2>4, <2>5 DEF GapInv
<1> QED BY <1>1, <1>2, <1>4, <1>5, <1>6, <1>7 DEF Next

\* Over any number of frames, of any length, good or bad, whenever they are sent and
\* whatever the resets, the gaps that XGMIISource and the two BaseRSerdesSource leave
\* fall short of the interframe gap by three characters at most, and those of
\* GMIISource and MIISource by none.  On the sources with lanes a frame has a byte
\* behind its start delimiter.
THEOREM GapAlwaysKept ==
    ASSUME 0 \notin LANE_PAYLOADS
    PROVE  Spec => []GapKept
<1>1. Init => GapInv BY GapInit
<1>2. GapInv /\ [Next]_vars => GapInv' BY GapStep
<1>3. GapInv => GapKept
  <2>1. SUFFICES ASSUME GapInv PROVE GapKept OBVIOUS
  <2>2. CASE layer \in Laned
    <3>1. meter.short \in 0..3 BY <2>1, <2>2, Counted DEF GapInv, LanedGap
    <3> QED BY <2>2, <3>1 DEF GapKept
  <2>3. CASE layer \notin Laned
    <3>1. meter.short = 0 BY <2>1, <2>3, Layers DEF GapInv, LineGap
    <3> QED BY <2>3, <3>1 DEF GapKept
  <2> QED BY <2>2, <2>3
<1> QED BY <1>1, <1>2, <1>3, PTL DEF Spec

=============================================================================
