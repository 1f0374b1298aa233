-------------------------------- MODULE BaseR -------------------------------
(***************************************************************************)
(* The 10GBASE-R code of the simulation library: eight XGMII characters as *)
(* a block of 66 bits and back.  A character is [d, c], data and control   *)
(* flag.  A block is [bt, at, field]: its type, the lane, from 0, of the   *)
(* start or the terminator, and for every lane the byte or the seven-bit   *)
(* code it carries.  bt "DATA" is the sync header of data; "NONE" is an    *)
(* invalid header, which the wires have before the first clock.            *)
(*                                                                         *)
(* The frames hold no ordered sets, so neither do the blocks.  The block   *)
(* goes over the wires unscrambled and in bit order (scramble and reverse  *)
(* False, no slip).                                                        *)
(***************************************************************************)
EXTENDS Integers, Sequences

IDLE == [d |-> 7, c |-> 1]
START == [d |-> 251, c |-> 1]
TERM == [d |-> 253, c |-> 1]
ERROR == [d |-> 254, c |-> 1]

\* Idle, LPI, error and the six reserved characters have a code.
CTRL_ERROR == 30
Codes == {<<7, 0>>, <<6, 6>>, <<254, CTRL_ERROR>>, <<28, 45>>, <<60, 51>>, <<124, 75>>,
          <<188, 85>>, <<220, 102>>, <<247, 120>>}
CodeOf(d) == IF \E p \in Codes : p[1] = d THEN (CHOOSE p \in Codes : p[1] = d)[2] ELSE CTRL_ERROR

\* baser_serdes_ep codes a data byte as an error, baser looks at the byte alone.
SerdesCode(ch) == IF ch.c = 1 THEN CodeOf(ch.d) ELSE CTRL_ERROR
BaserCode(ch) == CodeOf(ch.d)

Decoded(code) == IF \E p \in Codes : p[2] = code
                 THEN [d |-> (CHOOSE p \in Codes : p[2] = code)[1], c |-> 1] ELSE ERROR

NoBlock == [bt |-> "NONE", at |-> 0, field |-> [i \in 1..8 |-> 0]]
IdleBlock == [bt |-> "CTRL", at |-> 0, field |-> [i \in 1..8 |-> 0]]

\* Which lanes of a block are data.
DataLanes(bt, at) ==
    CASE bt = "DATA" -> 1..8 [] bt = "START" -> at + 2 .. 8
      [] bt = "TERM" -> 1..at [] OTHER -> {}
Marked(bt, at) == IF bt \in {"START", "TERM"} THEN {at + 1} ELSE {}

DataOnly(w, lanes) == \A i \in lanes : w[i].c = 0

\* A start only counts with nothing but data behind it, and so does a terminator
\* with nothing but data before it: any other word is all control.
StartLanes(w) == {l \in {0, 4} : w[l + 1] = START /\ DataOnly(w, DataLanes("START", l))}
TermLanes(w) == {l \in 0..7 : w[l + 1] = TERM /\ DataOnly(w, DataLanes("TERM", l))}

\* codes holds what each lane is if it is control.
Block(w, codes) ==
    LET made(bt, at) ==
          [bt |-> bt, at |-> at,
           field |-> [i \in 1..8 |-> IF i \in DataLanes(bt, at) THEN w[i].d
                                     ELSE IF i \in Marked(bt, at) THEN 0 ELSE codes[i]]]
    IN  CASE DataOnly(w, 1..8)  -> made("DATA", 0)
          [] StartLanes(w) # {} -> made("START", CHOOSE l \in StartLanes(w) : TRUE)
          [] TermLanes(w) # {}  -> made("TERM", CHOOSE l \in TermLanes(w) : TRUE)
          [] OTHER              -> made("CTRL", 0)

SerdesBlock(w) == Block(w, [i \in 1..8 |-> SerdesCode(w[i])])
BaserBlock(w) == Block(w, [i \in 1..8 |-> BaserCode(w[i])])

\* The characters the sinks make of a block.
Unblock(b) ==
    [i \in 1..8 |->
       IF b.bt = "NONE" THEN ERROR
       ELSE IF i \in DataLanes(b.bt, b.at) THEN [d |-> b.field[i], c |-> 0]
       ELSE IF i \in Marked(b.bt, b.at) THEN IF b.bt = "START" THEN START ELSE TERM
       ELSE Decoded(b.field[i])]

=============================================================================
