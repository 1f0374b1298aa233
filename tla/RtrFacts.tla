------------------------------ MODULE RtrFacts ------------------------------
(***************************************************************************)
(* What the proofs about the retransmission engine share: PSN arithmetic,  *)
(* FIFOs, and what one clock edge does to the write side, whatever drives  *)
(* it: its types, the descriptor register, the two FIFO chains, and the    *)
(* order of the packets.                                                   *)
(***************************************************************************)
EXTENDS WriteInv, SequenceTheorems, TLAPS

\* PSN arithmetic and slot addresses stay in range.
LEMMA PsnRange ==
    ASSUME NEW p \in Int
    PROVE  /\ p % PSN_MOD \in Psn
           /\ SlotOf(p) \in Slot
           /\ HdrSlotOf(p) \in 0..(HDR_SLOTS - 1)
BY PsnAssumption, SlotsAssumption, WriteAssumption DEF Psn, SlotOf, Slot, HdrSlotOf

\* The successor and predecessor of a PSN are PSNs, and a PSN has its two slots.
LEMMA PsnSteps ==
    ASSUME NEW p \in Psn
    PROVE  /\ PsnInc(p) \in Psn /\ PsnDec(p) \in Psn
           /\ SlotOf(p) \in Slot /\ HdrSlotOf(p) \in 0..(HDR_SLOTS - 1)
BY PsnRange, PsnAssumption DEF Psn, PsnInc, PsnDec

\* The reset values are in range, and the empty register is no packet.
LEMMA Constants ==
    /\ PSN_RESET \in Psn /\ 0 \in Psn /\ 0 \in QPs /\ None \notin QPs /\ None \notin Psn
    /\ NoPkt \notin Packets /\ NoWrite \in WritePort
BY PsnAssumption, QpAssumption DEF PSN_RESET, Psn, QPs, None, NoPkt, Packets, NoWrite, WritePort

-----------------------------------------------------------------------------
(* PSN arithmetic, without %.                                              *)

\* The remainder of a number below twice the modulus.
LEMMA SmallMod ==
    ASSUME NEW M \in Nat, M >= 2, NEW x \in Int
    PROVE  /\ 0 <= x /\ x < M => x % M = x
           /\ M <= x /\ x < 2 * M => x % M = x - M
OBVIOUS

\* The count of a PSN.
LEMMA IndexIs ==
    ASSUME NEW p \in Psn
    PROVE  /\ Index(p) = IF p >= OpenPsn THEN p - OpenPsn ELSE p + PSN_MOD - OpenPsn
           /\ Index(p) \in Psn
<1>1. p \in Nat /\ p < PSN_MOD /\ OpenPsn \in Nat /\ OpenPsn < PSN_MOD
  BY PsnAssumption, EnvAssumption DEF Psn
<1> DEFINE x == p + PSN_MOD - OpenPsn
<1>2. x \in Int /\ 0 <= x /\ x < 2 * PSN_MOD
  BY <1>1, PsnAssumption
<1>3. Index(p) = x % PSN_MOD
  BY DEF Index, PsnDist
<1> HIDE DEF x
<1>4. Index(p) = IF x < PSN_MOD THEN x ELSE x - PSN_MOD
  BY <1>2, <1>3, SmallMod, PsnAssumption
<1> QED BY <1>1, <1>4, PsnAssumption DEF x, Psn

\* Stepping a PSN steps its count, except at the end of the PSN space.
LEMMA IndexSteps ==
    ASSUME NEW p \in Psn
    PROVE  /\ PsnInc(p) = IF p = PSN_MOD - 1 THEN 0 ELSE p + 1
           /\ Index(p) < PSN_MOD - 1 => Index(PsnInc(p)) = Index(p) + 1
           /\ PsnInc(PsnDec(p)) = p
<1>1. PsnInc(p) = IF p = PSN_MOD - 1 THEN 0 ELSE p + 1
  BY SmallMod, PsnAssumption DEF PsnInc, Psn
<1>2. PsnDec(p) = IF p = 0 THEN PSN_MOD - 1 ELSE p - 1
  BY SmallMod, PsnAssumption DEF PsnDec, Psn
<1>3. PsnInc(p) \in Psn /\ PsnDec(p) \in Psn
  BY PsnSteps
<1>4. Index(p) < PSN_MOD - 1 => Index(PsnInc(p)) = Index(p) + 1
  BY <1>1, <1>3, IndexIs, PsnAssumption, EnvAssumption DEF Psn
<1>5. PsnInc(PsnDec(p)) = p
  <2>1. PsnInc(PsnDec(p)) = IF PsnDec(p) = PSN_MOD - 1 THEN 0 ELSE PsnDec(p) + 1
    BY <1>3, SmallMod, PsnAssumption DEF PsnInc, Psn
  <2> QED BY <2>1, <1>2, PsnAssumption DEF Psn
<1> QED BY <1>1, <1>4, <1>5

\* Two PSNs of one connection that are less than H apart have different remainders
\* by H, even where the PSN wraps, because H divides the PSN space.
LEMMA DistinctMod ==
    ASSUME NEW H \in Nat, H >= 1, PSN_MOD % H = 0, NEW p \in Psn, NEW r \in Psn,
           Index(r) < Index(p), Index(p) - Index(r) < H
    PROVE  p % H # r % H
<1>1. SUFFICES ASSUME p % H = r % H PROVE FALSE
  OBVIOUS
<1> DEFINE a == p \div H
           b == r \div H
           k == PSN_MOD \div H
<1>2. p = H * a + (p % H) /\ r = H * b + (r % H) /\ PSN_MOD = H * k + 0 /\ a \in Int /\ b \in Int /\ k \in Int
  BY PsnAssumption DEF Psn
<1>3. p - r = Index(p) - Index(r) \/ p - r = Index(p) - Index(r) - PSN_MOD
  BY IndexIs, PsnAssumption, EnvAssumption DEF Psn
<1>4. \A m \in Int : ~ (0 < H * m /\ H * m < H)
  <2> SUFFICES ASSUME NEW m \in Int, 0 < H * m, H * m < H PROVE FALSE
    OBVIOUS
  <2>1. CASE m <= 0
    <3>1. H * m <= 0
      BY <2>1
    <3> QED BY <3>1
  <2>2. CASE m >= 1
    <3>1. H * m >= H
      BY <2>2
    <3> QED BY <3>1
  <2> QED BY <2>1, <2>2
<1>5. PICK m \in Int : Index(p) - Index(r) = H * m
  <2>1. p - r = H * a - H * b
    <3> HIDE DEF a, b, k
    <3>1. p % H \in Int /\ H * a \in Int /\ H * b \in Int
      BY <1>2 DEF Psn
    <3> QED BY <1>1, <1>2, <3>1
  <2>2. p - r = H * (a - b) /\ p - r + PSN_MOD = H * (a - b + k)
    <3> HIDE DEF a, b, k
    <3>1. H * (a - b) = H * a - H * b /\ H * (a - b + k) = H * a - H * b + H * k
      BY <1>2
    <3> QED BY <1>2, <2>1, <3>1
  <2>3. Index(p) \in Int /\ Index(r) \in Int /\ p \in Int /\ r \in Int
    BY IndexIs DEF Psn
  <2>4. a - b \in Int /\ a - b + k \in Int
    BY <1>2
  <2> QED BY <1>3, <2>2, <2>3, <2>4, PsnAssumption
<1> QED BY <1>4, <1>5, IndexIs DEF Psn

-----------------------------------------------------------------------------
(* Sequences: the FIFOs.                                                   *)

\* Pop and Push keep a FIFO a sequence of its items.
LEMMA FifoTypes ==
    ASSUME NEW S, NEW s \in Seq(S), NEW go \in BOOLEAN, NEW valid \in BOOLEAN, NEW x,
           valid => x \in S
    PROVE  /\ Pop(s, go) \in Seq(S) /\ Push(valid, x) \in Seq(S)
           /\ Pop(s, go) \o Push(valid, x) \in Seq(S)
<1>1. Pop(s, go) \in Seq(S)
  BY HeadTailProperties DEF Pop
<1>2. Push(valid, x) \in Seq(S)
  BY DEF Push
<1> QED BY <1>1, <1>2, ConcatProperties

\* The head and the tail of a FIFO, alone and in front of another one.
LEMMA HeadTail ==
    ASSUME NEW S, NEW s \in Seq(S), s # <<>>
    PROVE  <<Head(s)>> \o Tail(s) = s
<1>1. Head(s) \in S /\ Tail(s) \in Seq(S) /\ Len(Tail(s)) = Len(s) - 1
  BY HeadTailProperties
<1>2. \A i \in 1..Len(Tail(s)) : Tail(s)[i] = s[i + 1]
  BY HeadTailProperties
<1>3. <<Head(s)>> \in Seq(S) /\ Len(<<Head(s)>>) = 1 /\ <<Head(s)>>[1] = Head(s)
  BY <1>1
<1> DEFINE h == <<Head(s)>>
<1> HIDE DEF h
<1>4. /\ h \o Tail(s) \in Seq(S) /\ Len(h \o Tail(s)) = Len(s)
      /\ \A i \in 1..Len(s) : (h \o Tail(s))[i] = IF i <= 1 THEN h[i] ELSE Tail(s)[i - 1]
  BY <1>1, <1>3, ConcatProperties, LenProperties DEF h
<1>5. \A i \in 1..Len(s) : (h \o Tail(s))[i] = s[i]
  BY <1>1, <1>2, <1>3, <1>4, LenProperties DEF h
<1>6. h \o Tail(s) = s
  BY <1>4, <1>5, SeqEqual
<1> QED BY <1>6 DEF h

\* Taking the head of a chain of two FIFOs takes it from the first one.
LEMMA ConcatHeadTail ==
    ASSUME NEW S, NEW s \in Seq(S), NEW t \in Seq(S), s # <<>>
    PROVE  /\ s \o t # <<>>
           /\ Head(s \o t) = Head(s)
           /\ Tail(s \o t) = Tail(s) \o t
<1>0. Len(s) \in Nat /\ Len(t) \in Nat /\ Len(s) >= 1
  BY EmptySeq, LenProperties
<1>1. /\ s \o t \in Seq(S) /\ Len(s \o t) = Len(s) + Len(t)
      /\ \A i \in 1..(Len(s) + Len(t)) :
           (s \o t)[i] = IF i <= Len(s) THEN s[i] ELSE t[i - Len(s)]
  BY ConcatProperties
<1>2. s \o t # <<>>
  BY <1>0, <1>1, EmptySeq
<1>3. Head(s \o t) = Head(s)
  <2>1. (s \o t)[1] = s[1]
    BY <1>0, <1>1
  <2> QED BY <1>0, <1>1, <1>2, <2>1
<1>4. /\ Tail(s) \in Seq(S) /\ Len(Tail(s)) = Len(s) - 1
      /\ \A i \in 1..Len(Tail(s)) : Tail(s)[i] = s[i + 1]
  BY HeadTailProperties
<1>5. /\ Tail(s \o t) \in Seq(S) /\ Len(Tail(s \o t)) = Len(s \o t) - 1
      /\ \A i \in 1..Len(Tail(s \o t)) : Tail(s \o t)[i] = (s \o t)[i + 1]
  BY <1>1, <1>2, HeadTailProperties
<1>6. /\ Tail(s) \o t \in Seq(S) /\ Len(Tail(s) \o t) = Len(s) - 1 + Len(t)
      /\ \A i \in 1..(Len(s) - 1 + Len(t)) :
           (Tail(s) \o t)[i] = IF i <= Len(s) - 1 THEN Tail(s)[i] ELSE t[i - (Len(s) - 1)]
  BY <1>4, ConcatProperties
<1>7. ASSUME NEW i \in 1..(Len(s) - 1 + Len(t))
      PROVE  Tail(s \o t)[i] = (Tail(s) \o t)[i]
  <2>1. Tail(s \o t)[i] = (s \o t)[i + 1]
    BY <1>0, <1>1, <1>5
  <2>2. CASE i <= Len(s) - 1
    <3>1. (s \o t)[i + 1] = s[i + 1]
      BY <1>0, <1>1, <2>2
    <3>2. (Tail(s) \o t)[i] = s[i + 1]
      BY <1>0, <1>4, <1>6, <2>2
    <3> QED BY <2>1, <3>1, <3>2
  <2>3. CASE ~(i <= Len(s) - 1)
    <3>1. (s \o t)[i + 1] = t[i + 1 - Len(s)]
      BY <1>0, <1>1, <2>3
    <3>2. (Tail(s) \o t)[i] = t[i - (Len(s) - 1)]
      BY <1>0, <1>6, <2>3
    <3>3. i + 1 - Len(s) = i - (Len(s) - 1)
      BY <1>0
    <3> QED BY <2>1, <3>1, <3>2, <3>3
  <2> QED BY <2>2, <2>3
<1>8. Tail(s \o t) = Tail(s) \o t
  <2>1. /\ Len(Tail(s \o t)) = Len(Tail(s) \o t)
        /\ Len(Tail(s \o t)) = Len(s) - 1 + Len(t)
    BY <1>0, <1>1, <1>5, <1>6
  <2> QED BY <1>5, <1>6, <1>7, <2>1, SeqEqual
<1> QED BY <1>2, <1>3, <1>8

\* Popping does not lengthen a FIFO.
LEMMA PopLen ==
    ASSUME NEW S, NEW s \in Seq(S), NEW go \in BOOLEAN
    PROVE  Pop(s, go) \in Seq(S) /\ Len(Pop(s, go)) \in Nat /\ Len(Pop(s, go)) <= Len(s)
BY HeadTailProperties, LenProperties DEF Pop

\* A FIFO that takes an item only when it has room never holds more than its depth.
LEMMA FifoBound ==
    ASSUME NEW S, NEW s \in Seq(S), NEW go \in BOOLEAN, NEW valid \in BOOLEAN, NEW x,
           NEW depth \in Nat, Len(s) <= depth, valid => x \in S /\ Len(s) < depth
    PROVE  Len(Pop(s, go) \o Push(valid, x)) <= depth
<1>1. /\ Pop(s, go) \in Seq(S) /\ Len(Pop(s, go)) \in Nat /\ Len(Pop(s, go)) <= Len(s)
      /\ Len(s) \in Nat
  BY PopLen, LenProperties
<1>2. Push(valid, x) \in Seq(S) /\ Len(Push(valid, x)) = IF valid THEN 1 ELSE 0
  BY EmptySeq DEF Push
<1>3. Len(Pop(s, go) \o Push(valid, x)) = Len(Pop(s, go)) + Len(Push(valid, x))
  BY <1>1, <1>2, ConcatProperties
<1> QED BY <1>1, <1>2, <1>3

\* A status that arrives while a descriptor is being worked on pops the front of
\* the whole chain.
LEMMA PopConcat ==
    ASSUME NEW S, NEW s \in Seq(S), NEW t \in Seq(S), NEW go \in BOOLEAN, go => s # <<>>
    PROVE  Pop(s \o t, go) = Pop(s, go) \o t
BY ConcatHeadTail DEF Pop

\* The items that stay in a FIFO move up by the one popped, and the item that
\* enters comes last.
Moved(s, u, go, valid, x) ==
    \E d \in {0, 1} :
        /\ go /\ s # <<>> => d = 1
        /\ ~go => d = 0
        /\ Len(u) = Len(s) - d + (IF valid THEN 1 ELSE 0)
        /\ d <= Len(s)
        /\ \A i \in 1..(Len(s) - d) : u[i] = s[i + d]
        /\ valid => u[Len(s) - d + 1] = x

\* That is what one edge makes of a FIFO.
LEMMA FifoItems ==
    ASSUME NEW S, NEW s \in Seq(S), NEW go \in BOOLEAN, NEW valid \in BOOLEAN, NEW x,
           valid => x \in S, NEW u, u = Pop(s, go) \o Push(valid, x)
    PROVE  /\ u \in Seq(S) /\ Len(u) \in Nat
           /\ Moved(s, u, go, valid, x)
<1> DEFINE p == Pop(s, go)
           d == IF go /\ s # <<>> THEN 1 ELSE 0
           e == IF valid THEN 1 ELSE 0
           v == Push(valid, x)
<1>0. Len(s) \in Nat /\ (s # <<>> => Len(s) >= 1)
  BY EmptySeq, LenProperties
<1>1. p \in Seq(S) /\ Len(p) = Len(s) - d /\ \A i \in 1..(Len(s) - d) : p[i] = s[i + d]
  BY <1>0, HeadTailProperties DEF Pop
<1>2. v \in Seq(S) /\ Len(v) = e /\ (valid => v[1] = x)
  BY EmptySeq DEF Push
<1>a. e \in {0, 1} /\ d \in {0, 1} /\ d <= Len(s) /\ (valid => e = 1) /\ u = p \o v
  BY <1>0
<1>b. e = IF valid THEN 1 ELSE 0
  OBVIOUS
<1>c. (go /\ s # <<>> => d = 1) /\ (~go => d = 0)
  OBVIOUS
<1> HIDE DEF p, d, e, v
<1>3. /\ u \in Seq(S) /\ Len(u) = Len(p) + Len(v)
      /\ \A i \in 1..(Len(p) + Len(v)) : u[i] = IF i <= Len(p) THEN p[i] ELSE v[i - Len(p)]
  BY <1>1, <1>2, <1>a, ConcatProperties
<1>4. Len(u) = Len(s) - d + e /\ Len(u) \in Nat
  BY <1>0, <1>1, <1>2, <1>3, <1>a
<1>5. \A i \in 1..(Len(s) - d) : u[i] = s[i + d]
  BY <1>0, <1>1, <1>2, <1>3, <1>a
<1>6. valid => u[Len(s) - d + 1] = x
  BY <1>0, <1>1, <1>2, <1>3, <1>a
<1> QED BY <1>3, <1>4, <1>5, <1>6, <1>a, <1>b, <1>c DEF Moved

\* Joining three FIFOs in either order.
Assoc(s, t, u) == (s \o t) \o u = s \o (t \o u)

\* Joining FIFOs gives a FIFO.
LEMMA Joined ==
    ASSUME NEW s \in Seq(Packets), NEW t \in Seq(Packets)
    PROVE  s \o t \in Seq(Packets)
BY ConcatProperties

\* The order of joining does not matter.
LEMMA JoinedAssoc ==
    ASSUME NEW s \in Seq(Packets), NEW t \in Seq(Packets), NEW u \in Seq(Packets)
    PROVE  Assoc(s, t, u)
BY ConcatAssociative, SMTT(30) DEF Assoc

-----------------------------------------------------------------------------
(* Types of the write side.                                                *)

\* Every register, FIFO and memory of the write side holds a value of its range.
WriteTypes ==
    /\ wr_table \in [QPs -> Psn] /\ m_table_rst \in WritePort /\ m_wr_table \in WritePort
    /\ w_state \in {"IDLE", "DMA_WAIT_READY"} /\ bth_ready \in BOOLEAN
    /\ dma_desc \in Packets \cup {NoPkt} /\ wr_entry \in Packets \cup {NoPkt}
    /\ desc_fifo \in Seq(Packets) /\ entry_fifo \in Seq(Packets) /\ dma_busy \in Seq(Packets)
    /\ hdr_ram \in [QPs -> [0..(HDR_SLOTS - 1) -> Psn \cup {None}]]
    /\ mem \in [QPs -> [Slot -> Psn \cup {None}]]
    /\ qp_flush \in [QPs -> BOOLEAN]
    /\ conn \in [QPs -> {"none", "open", "closed"}] /\ np \in [QPs -> Psn]

\* The inputs of an edge are packets, statuses and queue pairs.
InputsOK(pkt, done, cm, close) ==
    /\ pkt \in Packets \cup {NoPkt}
    /\ done # "NONE" => dma_busy # <<>>
    /\ CloseQpn(cm, close) \in QPs \cup {None}
    /\ cm.req = "OPEN" => cm.qpn \in QPs
    /\ TableReset(cm, close) \in WritePort

\* What is accepted is the next packet of a queue pair that may send, and an OPEN
\* comes once, with the first PSN and not together with a close.
EdgeInputs(pkt, done, cm, close) ==
    /\ InputsOK(pkt, done, cm, close)
    /\ Accepts(pkt) => \E q \in QPs : Sending(q) /\ pkt = NextPacket(q)
    /\ cm.req = "OPEN" =>
         cm.psn = OpenPsn /\ conn[cm.qpn] = "none" /\ CloseQpn(cm, close) = None

\* A clock edge keeps every register of the write side in its range.
LEMMA WriteTypesEdge ==
    ASSUME WriteTypes, NEW cm, NEW close, NEW pkt, NEW take \in BOOLEAN, NEW done,
           InputsOK(pkt, done, cm, close),
           TablesStep(cm, close), WriteStep(pkt, take, done, cm, close), Producer(cm, close, pkt)
    PROVE  WriteTypes'
<1> USE DEF WriteTypes
<1>0. /\ pkt \in Packets \cup {NoPkt}
      /\ done # "NONE" => dma_busy # <<>>
      /\ CloseQpn(cm, close) \in QPs \cup {None}
      /\ cm.req = "OPEN" => cm.qpn \in QPs
      /\ TableReset(cm, close) \in WritePort
  BY DEF InputsOK
<1>1. /\ wr_table' \in [QPs -> Psn] /\ m_table_rst' \in WritePort
  BY <1>0 DEF TablesStep, TableWrite, WritePort
<1>2. m_wr_table' \in WritePort
  <2>1. CASE done = "OK" /\ entry_fifo # <<>> /\ ~qp_flush[Head(entry_fifo).qpn]
    <3>1. Head(entry_fifo) \in Packets
      BY <2>1, HeadTailProperties
    <3> QED BY <2>1, <3>1 DEF WriteStep, Announce, Write, WritePort, Packets
  <2>2. CASE ~(done = "OK" /\ entry_fifo # <<>> /\ ~qp_flush[Head(entry_fifo).qpn])
    BY <2>2, Constants DEF WriteStep, Announce
  <2> QED BY <2>1, <2>2
<1>3. w_state' \in {"IDLE", "DMA_WAIT_READY"} /\ bth_ready' \in BOOLEAN
  BY DEF WriteStep, WriteFsm
<1>4. dma_desc' \in Packets \cup {NoPkt} /\ wr_entry' \in Packets \cup {NoPkt}
  BY <1>0 DEF WriteStep, Descriptor, TableEntry
<1>5. desc_fifo' \in Seq(Packets)
  <2>1. /\ desc_fifo' = Pop(desc_fifo, take) \o Push(dma_desc # NoPkt /\ DescReady, dma_desc)
        /\ dma_desc # NoPkt /\ DescReady => dma_desc \in Packets
    BY DEF WriteStep, DmaEngine
  <2> QED BY <2>1, FifoTypes
<1>6. entry_fifo' \in Seq(Packets)
  <2>1. /\ entry_fifo' = Pop(entry_fifo, done # "NONE") \o
                           Push(wr_entry # NoPkt /\ EntryReady, wr_entry)
        /\ wr_entry # NoPkt /\ EntryReady => wr_entry \in Packets
    BY DEF WriteStep, Announce
  <2> QED BY <2>1, FifoTypes
<1>7. dma_busy' \in Seq(Packets)
  <2> DEFINE item == IF desc_fifo = <<>> THEN NoPkt ELSE Head(desc_fifo)
  <2>1. dma_busy' = Pop(dma_busy, done # "NONE") \o Push(take /\ desc_fifo # <<>>, item)
    BY DEF WriteStep, DmaEngine
  <2>2. take /\ desc_fifo # <<>> => item \in Packets
    BY HeadTailProperties
  <2> HIDE DEF item
  <2> QED BY <2>1, <2>2, FifoTypes
<1>8. hdr_ram' \in [QPs -> [0..(HDR_SLOTS - 1) -> Psn \cup {None}]]
  BY DEF WriteStep, WriteFsm, Packets
<1>9. mem' \in [QPs -> [Slot -> Psn \cup {None}]]
  <2>1. CASE done = "NONE"
    BY <2>1 DEF WriteStep, DmaEngine
  <2>2. CASE done # "NONE"
    <3>1. Head(dma_busy) \in Packets
      BY <1>0, <2>2, HeadTailProperties
    <3> QED BY <2>2, <3>1 DEF WriteStep, DmaEngine, Packets
  <2> QED BY <2>1, <2>2
<1>10. qp_flush' \in [QPs -> BOOLEAN]
  BY <1>0 DEF WriteStep, Flush
<1>11. conn' \in [QPs -> {"none", "open", "closed"}]
  BY DEF Producer
<1>12. np' \in [QPs -> Psn]
  BY <1>0, PsnSteps DEF Producer, Accepts, Packets
<1> QED BY <1>1, <1>2, <1>3, <1>4, <1>5, <1>6, <1>7, <1>8, <1>9, <1>10, <1>11, <1>12

-----------------------------------------------------------------------------
(* The descriptor register.                                                *)

\* The ready of the descriptor FIFO is a Boolean, its fill a number.
LEMMA DescReadyType == WriteTypes => DescReady \in BOOLEAN /\ Len(desc_fifo) \in Nat
BY LenProperties DEF WriteTypes, DescReady

\* One edge: ReadyMeansFree is kept, and so is a descriptor that found the FIFO full.
LEMMA ReadyEdge ==
    ASSUME WriteTypes, ReadyMeansFree, NEW cm, NEW close, NEW pkt, NEW take \in BOOLEAN, NEW done,
           WriteEdge(pkt, take, done, cm, close)
    PROVE  /\ ReadyMeansFree'
           /\ dma_desc # NoPkt /\ ~DescReady => dma_desc' = dma_desc
<1> USE DEF ReadyMeansFree
<1>1. /\ bth_ready' = (w_state = "IDLE" /\ ~Accepts(pkt))
      /\ w_state' = IF (Accepts(pkt) \/ w_state = "DMA_WAIT_READY") /\ ~DescReady
                      THEN "DMA_WAIT_READY" ELSE "IDLE"
      /\ dma_desc' = IF Accepts(pkt) THEN pkt ELSE IF DescReady THEN NoPkt ELSE dma_desc
      /\ desc_fifo' = Pop(desc_fifo, take) \o Push(dma_desc # NoPkt /\ DescReady, dma_desc)
  BY DEF WriteEdge, WriteStep, WriteFsm, Descriptor, DmaEngine
<1>2. w_state \in {"IDLE", "DMA_WAIT_READY"} /\ bth_ready \in BOOLEAN
  BY DEF WriteTypes
<1>3. Accepts(pkt) => dma_desc = NoPkt /\ pkt # NoPkt /\ w_state = "IDLE"
  BY DEF Accepts
<1>4. ~Accepts(pkt) /\ w_state = "IDLE" /\ dma_desc # NoPkt => DescReady
  BY <1>2
<1>5. Accepts(pkt) /\ DescReady => DescReady'
  <2> SUFFICES ASSUME Accepts(pkt), DescReady PROVE DescReady'
    OBVIOUS
  <2>1. desc_fifo' = Pop(desc_fifo, take) \o <<>>
    BY <1>1, <1>3 DEF Push
  <2>2. Pop(desc_fifo, take) \in Seq(Packets) /\ Len(Pop(desc_fifo, take)) <= Len(desc_fifo)
    BY PopLen DEF WriteTypes
  <2>3. desc_fifo' = Pop(desc_fifo, take)
    BY <2>1, <2>2, ConcatEmptySeq
  <2> QED BY <2>2, <2>3, DescReadyType, PopLen, WriteAssumption DEF DescReady, WriteTypes
<1>6. (w_state = "IDLE" /\ bth_ready => dma_desc = NoPkt)'
  BY <1>1, <1>2, <1>3, <1>4
<1>7. (w_state = "IDLE" /\ ~bth_ready /\ dma_desc # NoPkt => DescReady)'
  <2> SUFFICES ASSUME w_state' = "IDLE", ~bth_ready', dma_desc' # NoPkt PROVE DescReady'
    BY DEF DescReady
  <2>1. CASE Accepts(pkt)
    BY <1>1, <1>5, <2>1
  <2>2. CASE ~Accepts(pkt)
    BY <1>1, <1>2, <2>2
  <2> QED BY <2>1, <2>2
<1>8. (w_state = "DMA_WAIT_READY" => ~bth_ready /\ dma_desc # NoPkt)'
  BY <1>1, <1>2, <1>3
<1>9. dma_desc # NoPkt /\ ~DescReady => dma_desc' = dma_desc
  BY <1>1, <1>3
<1> QED BY <1>6, <1>7, <1>8, <1>9

-----------------------------------------------------------------------------
(* The two FIFO chains.                                                    *)

\* The descriptors in the FIFO and in the DMA engine after a status, and the one
\* that enters the FIFO at the same edge.
Front(done) == Pop(dma_busy, done # "NONE") \o desc_fifo
Entering    == Push(dma_desc # NoPkt /\ DescReady, dma_desc)

\* What an edge makes of the descriptors in the FIFO and in the DMA engine.
LEMMA Chain ==
    ASSUME WriteTypes, NEW cm, NEW close, NEW pkt, NEW take \in BOOLEAN, NEW done,
           WriteEdge(pkt, take, done, cm, close)
    PROVE  dma_busy' \o desc_fifo' = Front(done) \o Entering
<1> DEFINE item == IF desc_fifo = <<>> THEN NoPkt ELSE Head(desc_fifo)
           P == Pop(dma_busy, done # "NONE")
           H == Push(take /\ desc_fifo # <<>>, item)
           T == Pop(desc_fifo, take)
           U == Push(dma_desc # NoPkt /\ DescReady, dma_desc)
<1>1. dma_busy' = P \o H /\ desc_fifo' = T \o U
  BY DEF WriteEdge, WriteStep, DmaEngine
<1>2. P \in Seq(Packets) /\ T \in Seq(Packets)
  BY PopLen DEF WriteTypes
<1>3. U \in Seq(Packets)
  BY DEF Push, WriteTypes
<1>4. H \in Seq(Packets)
  <2>1. desc_fifo # <<>> => item \in Packets
    BY HeadTailProperties DEF WriteTypes
  <2> HIDE DEF item
  <2> QED BY <2>1 DEF Push
<1>5. H \o T = desc_fifo
  <2>1. desc_fifo \in Seq(Packets)
    BY DEF WriteTypes
  <2>2. CASE take /\ desc_fifo # <<>>
    <3>1. H = <<Head(desc_fifo)>> /\ T = Tail(desc_fifo)
      BY <2>2 DEF Push, Pop
    <3> QED BY <2>1, <2>2, <3>1, HeadTail
  <2>3. CASE ~(take /\ desc_fifo # <<>>)
    <3>1. H = <<>> /\ T = desc_fifo
      BY <2>3 DEF Push, Pop
    <3> QED BY <2>1, <3>1, ConcatEmptySeq
  <2> QED BY <2>2, <2>3
<1> HIDE DEF item, P, H, T, U
<1>b. desc_fifo \in Seq(Packets)
  BY DEF WriteTypes
<1>6. T \o U \in Seq(Packets)
  BY <1>2, <1>3, Joined
<1>7. Assoc(P, H, T \o U) /\ Assoc(H, T, U) /\ Assoc(P, desc_fifo, U)
  BY ONLY <1>2, <1>3, <1>4, <1>6, <1>b, JoinedAssoc
<1>8. dma_busy' \o desc_fifo' = (P \o desc_fifo) \o U
  BY ONLY <1>1, <1>5, <1>7 DEF Assoc
<1> QED BY <1>8 DEF P, U, Front, Entering

\* A close raises the flush of the queue pair it closes, an OPEN lowers it.
LEMMA FlushEdge ==
    ASSUME WriteTypes, FlushedClosed, NEW cm, NEW close, NEW pkt, NEW take, NEW done,
           EdgeInputs(pkt, done, cm, close), WriteEdge(pkt, take, done, cm, close)
    PROVE  FlushedClosed'
<1>1. /\ qp_flush' = IF CloseQpn(cm, close) # None
                       THEN [qp_flush EXCEPT ![CloseQpn(cm, close)] = TRUE]
                     ELSE IF cm.req = "OPEN" THEN [qp_flush EXCEPT ![cm.qpn] = FALSE]
                     ELSE qp_flush
      /\ conn' = [q \in QPs |-> IF CloseQpn(cm, close) = q THEN "closed"
                                ELSE IF cm.req = "OPEN" /\ cm.qpn = q THEN "open" ELSE conn[q]]
  BY DEF WriteEdge, WriteStep, Flush, Producer
<1>2. SUFFICES ASSUME NEW q \in QPs, qp_flush'[q] PROVE conn'[q] = "closed"
  BY DEF FlushedClosed
<1>3. CASE CloseQpn(cm, close) = q
  BY <1>1, <1>3
<1>4. CASE CloseQpn(cm, close) # q
  <2>1. CASE cm.req = "OPEN" /\ cm.qpn = q
    <3>1. CloseQpn(cm, close) = None
      BY <2>1 DEF EdgeInputs
    <3> QED BY <1>1, <1>2, <2>1, <3>1 DEF WriteTypes
  <2>2. CASE ~(cm.req = "OPEN" /\ cm.qpn = q)
    <3>1. conn'[q] = conn[q]
      BY <1>1, <1>4, <2>2
    <3>2. qp_flush[q]
      BY <1>1, <1>2, <1>4, <2>2 DEF WriteTypes
    <3> QED BY <3>1, <3>2 DEF FlushedClosed
  <2> QED BY <2>1, <2>2
<1> QED BY <1>3, <1>4

\* An accepted packet is one of an open queue pair, so it is not flushed.
LEMMA AcceptedNotFlushed ==
    ASSUME ~StaleProducer, FlushedClosed, NEW pkt, NEW done, NEW cm, NEW close,
           EdgeInputs(pkt, done, cm, close), Accepts(pkt)
    PROVE  conn[pkt.qpn] = "open" /\ ~qp_flush[pkt.qpn]
<1>1. PICK q \in QPs : Sending(q) /\ pkt = NextPacket(q)
  BY DEF EdgeInputs
<1>2. conn[q] = "open" /\ pkt.qpn = q
  BY <1>1 DEF Sending, NextPacket
<1> QED BY <1>2 DEF FlushedClosed

\* One edge keeps the chains aligned.
LEMMA ChainedEdge ==
    ASSUME ~StaleProducer, Len(Descriptors) <= ENTRY_DEPTH,
           WriteTypes, ReadyMeansFree, FlushedClosed, Chained,
           NEW cm, NEW close, NEW pkt, NEW take \in BOOLEAN,
           NEW done, EdgeInputs(pkt, done, cm, close),
           WriteEdge(pkt, take, done, cm, close)
    PROVE  Chained'
<1> DEFINE go == done # "NONE"
           reg == Registered(dma_desc)
           front == Pop(dma_busy, go) \o desc_fifo
<1>a. \A s, t \in Seq(Packets) : s \o t \in Seq(Packets)
  BY Joined
<1>b. \A s \in Seq(Packets) : s \o <<>> = s
  BY ConcatEmptySeq
<1>c. \A s, t \in Seq(Packets) : Len(s \o t) = Len(s) + Len(t) /\ Len(s) \in Nat
  BY ConcatProperties, LenProperties
<1>d. /\ dma_busy \in Seq(Packets) /\ desc_fifo \in Seq(Packets) /\ entry_fifo \in Seq(Packets)
      /\ dma_desc \in Packets \cup {NoPkt} /\ wr_entry \in Packets \cup {NoPkt}
  BY DEF WriteTypes
<1>e. pkt \in Packets \cup {NoPkt} /\ (go => dma_busy # <<>>)
  BY DEF EdgeInputs, InputsOK
<1>f. reg \in Seq(Packets) /\ (dma_desc # NoPkt => reg = <<dma_desc>>)
                          /\ (dma_desc = NoPkt => reg = <<>>)
  BY <1>d DEF Registered
<1>g. /\ Pop(dma_busy, go) \in Seq(Packets) /\ Len(Pop(dma_busy, go)) <= Len(dma_busy)
      /\ front \in Seq(Packets)
  BY <1>a, <1>d, PopLen
<1>1. Pop(dma_busy \o desc_fifo, go) = front
  BY <1>d, <1>e, PopConcat
<1>2. Pop(Descriptors, go) = front \o reg
  <2>1. Descriptors = dma_busy \o (desc_fifo \o reg) /\ desc_fifo \o reg \in Seq(Packets)
    <3> HIDE DEF reg
    <3>1. Assoc(dma_busy, desc_fifo, reg) /\ desc_fifo \o reg \in Seq(Packets)
      BY <1>a, <1>d, <1>f, JoinedAssoc
    <3> QED BY <3>1 DEF Descriptors, Assoc, reg
  <2>2. Pop(Descriptors, go) = Pop(dma_busy, go) \o (desc_fifo \o reg)
    BY <1>d, <1>e, <2>1, PopConcat
  <2>3. (Pop(dma_busy, go) \o desc_fifo) \o reg = Pop(dma_busy, go) \o (desc_fifo \o reg)
    <3> HIDE DEF go, reg
    <3>1. Pop(dma_busy, go) \in Seq(Packets) /\ desc_fifo \in Seq(Packets) /\ reg \in Seq(Packets)
      BY <1>d, <1>f, <1>g
    <3>2. Assoc(Pop(dma_busy, go), desc_fifo, reg)
      BY ONLY <3>1, JoinedAssoc
    <3> QED BY ONLY <3>2 DEF Assoc
  <2> QED BY <2>2, <2>3
<1>3. dma_busy' \o desc_fifo' = front \o Push(dma_desc # NoPkt /\ DescReady, dma_desc)
  <2>1. WriteTypes /\ take \in BOOLEAN /\ WriteEdge(pkt, take, done, cm, close)
    OBVIOUS
  <2>2. dma_busy' \o desc_fifo' = Front(done) \o Entering
    BY <2>1, Chain
  <2> QED BY <2>2 DEF front, go, Front, Entering
<1>4. entry_fifo' = Pop(entry_fifo, go) \o Push(wr_entry # NoPkt /\ EntryReady, wr_entry)
  BY DEF WriteEdge, WriteStep, Announce
<1>5. /\ dma_desc' = IF Accepts(pkt) THEN pkt ELSE IF DescReady THEN NoPkt ELSE dma_desc
      /\ wr_entry' = IF Accepts(pkt) THEN IF qp_flush[pkt.qpn] THEN NoPkt ELSE pkt
                     ELSE IF EntryReady THEN NoPkt ELSE wr_entry
  BY DEF WriteEdge, WriteStep, Descriptor, TableEntry
<1>6. Descriptors' = (dma_busy' \o desc_fifo') \o Registered(dma_desc')
  BY DEF Descriptors, Registered
<1>8. Len(Descriptors) \in Nat
  BY <1>a, <1>c, <1>d, <1>f DEF Descriptors
<1> HIDE DEF go, reg, front
<1>9. CASE Accepts(pkt)
  \* The descriptor register was free; the new packet enters both registers.
  <2>1. dma_desc = NoPkt /\ pkt # NoPkt /\ pkt \in Packets
    BY <1>9, <1>e DEF Accepts, ReadyMeansFree
  <2>2. dma_desc' = pkt /\ wr_entry' = pkt
    BY <1>5, <1>9, <2>1, AcceptedNotFlushed
  <2>3. wr_entry = NoPkt
    BY <2>1 DEF Chained
  <2>4. reg = <<>>
    BY <1>f, <2>1
  <2>5. dma_busy' \o desc_fifo' = front
    BY <1>3, <1>b, <1>g, <2>1 DEF Push
  <2>6. entry_fifo' = front
    <3>1. entry_fifo = Descriptors
      BY <2>3 DEF Chained
    <3>2. Pop(entry_fifo, go) = front
      BY <1>2, <1>b, <1>g, <2>4, <3>1
    <3> QED BY <1>4, <1>b, <1>g, <2>3, <3>2 DEF Push
  <2> QED BY <2>1, <2>2, <2>5, <2>6 DEF Chained
<1>10. CASE ~Accepts(pkt)
  <2>1. Descriptors' = front \o reg
    <3>1. CASE dma_desc # NoPkt /\ DescReady
      <4>1. dma_desc' = NoPkt /\ Registered(dma_desc') = <<>>
        BY <1>5, <1>10, <3>1 DEF Registered
      <4>2. dma_busy' \o desc_fifo' = front \o reg /\ front \o reg \in Seq(Packets)
        BY <1>3, <1>a, <1>f, <1>g, <3>1 DEF Push
      <4> QED BY <1>6, <1>b, <4>1, <4>2
    <3>2. CASE ~(dma_desc # NoPkt /\ DescReady)
      <4>1. dma_desc' = dma_desc /\ Registered(dma_desc') = reg
        BY <1>5, <1>10, <3>2 DEF reg
      <4>2. dma_busy' \o desc_fifo' = front
        BY <1>3, <1>b, <1>g, <3>2 DEF Push
      <4> QED BY <1>6, <4>1, <4>2
    <3> QED BY <3>1, <3>2
  <2>2. wr_entry' = NoPkt /\ entry_fifo' = front \o reg
    <3>1. CASE wr_entry = NoPkt
      <4>1. Pop(entry_fifo, go) = front \o reg /\ front \o reg \in Seq(Packets)
        BY <1>2, <1>a, <1>f, <1>g, <3>1 DEF Chained
      <4>2. entry_fifo' = front \o reg
        BY <1>4, <1>b, <3>1, <4>1 DEF Push
      <4> QED BY <1>5, <1>10, <3>1, <4>2
    <3>2. CASE wr_entry # NoPkt
      <4>1. dma_desc = wr_entry /\ entry_fifo = dma_busy \o desc_fifo
        BY <3>2 DEF Chained
      <4>2. Descriptors = entry_fifo \o reg /\ reg = <<dma_desc>> /\ Len(reg) = 1
        BY <1>f, <3>2, <4>1 DEF Descriptors, reg
      <4>3. Len(entry_fifo) \in Nat /\ Len(entry_fifo) + 1 <= ENTRY_DEPTH
        BY <1>8, <1>c, <1>d, <1>f, <4>2
      <4>4. EntryReady
        BY <4>3, WriteAssumption DEF EntryReady
      <4>5. Pop(entry_fifo, go) = front
        BY <1>1, <4>1
      <4> QED BY <1>4, <1>5, <1>10, <3>2, <4>1, <4>2, <4>4, <4>5 DEF Push
    <3> QED BY <3>1, <3>2
  <2> QED BY <2>1, <2>2 DEF Chained
<1> QED BY <1>9, <1>10

\* The packet a status is about is the one whose entry it pops.
LEMMA StatusMatches ==
    ASSUME WriteTypes, Chained, dma_busy # <<>>, entry_fifo # <<>>
    PROVE  Head(entry_fifo) = Head(dma_busy)
<1>1. /\ dma_busy \in Seq(Packets) /\ desc_fifo \in Seq(Packets)
      /\ Registered(dma_desc) \in Seq(Packets)
  BY DEF WriteTypes, Registered
<1>2. Head(dma_busy \o desc_fifo) = Head(dma_busy) /\ dma_busy \o desc_fifo # <<>>
  BY <1>1, ConcatHeadTail
<1>3. Head(Descriptors) = Head(dma_busy)
  <2>1. dma_busy \o desc_fifo \in Seq(Packets)
    BY <1>1, ConcatProperties
  <2> QED BY <1>1, <1>2, <2>1, ConcatHeadTail DEF Descriptors
<1> QED BY <1>2, <1>3 DEF Chained

\* An announcement made at an edge is of a packet stored by then.
LEMMA StoredEdge ==
    ASSUME WriteTypes, Chained, NEW cm, NEW close, NEW pkt, NEW take,
           NEW done, EdgeInputs(pkt, done, cm, close),
           WriteEdge(pkt, take, done, cm, close)
    PROVE  m_wr_table'.we => mem'[m_wr_table'.qpn][SlotOf(m_wr_table'.psn)] = m_wr_table'.psn
<1>1. /\ m_wr_table' = IF done = "OK" /\ entry_fifo # <<>> /\ ~qp_flush[Head(entry_fifo).qpn]
                         THEN Write(Head(entry_fifo).qpn, Head(entry_fifo).psn)
                         ELSE NoWrite
      /\ mem' = IF done = "NONE" THEN mem
                ELSE [mem EXCEPT ![Head(dma_busy).qpn][SlotOf(Head(dma_busy).psn)] =
                                   IF done = "OK" THEN Head(dma_busy).psn ELSE None]
  BY DEF WriteEdge, WriteStep, Announce, DmaEngine
<1> SUFFICES ASSUME m_wr_table'.we
             PROVE  mem'[m_wr_table'.qpn][SlotOf(m_wr_table'.psn)] = m_wr_table'.psn
  OBVIOUS
<1>2. done = "OK" /\ entry_fifo # <<>>
  BY <1>1 DEF NoWrite
<1>3. dma_busy # <<>>
  BY <1>2 DEF EdgeInputs, InputsOK
<1>4. Head(entry_fifo) = Head(dma_busy)
  BY <1>2, <1>3, StatusMatches
<1> DEFINE h == Head(dma_busy)
<1>5. h \in Packets
  BY <1>3, HeadTailProperties DEF WriteTypes
<1>6. m_wr_table'.qpn = h.qpn /\ m_wr_table'.psn = h.psn
  BY <1>1, <1>4 DEF Write, NoWrite
<1>7. mem' = [mem EXCEPT ![h.qpn][SlotOf(h.psn)] = h.psn]
  BY <1>1, <1>2
<1> HIDE DEF h
<1>8. h.qpn \in QPs /\ SlotOf(h.psn) \in Slot
  BY <1>5, PsnSteps DEF Packets
<1> QED BY <1>6, <1>7, <1>8 DEF WriteTypes

-----------------------------------------------------------------------------
(* The order of the entries.                                               *)

\* What an edge leaves in the entry FIFO, and what it announces.
LEMMA EntryFifoEdge ==
    ASSUME WriteTypes, NEW cm, NEW close, NEW pkt, NEW take, NEW done,
           WriteEdge(pkt, take, done, cm, close)
    PROVE  /\ Moved(entry_fifo, entry_fifo', done # "NONE",
                    wr_entry # NoPkt /\ EntryReady, wr_entry)
           /\ \A x \in ItemsOf(entry_fifo') :
                \/ \E k \in 1..Len(entry_fifo) : x = entry_fifo[k] /\ (m_wr_table'.we => k >= 2)
                \/ wr_entry # NoPkt /\ EntryReady /\ x = wr_entry
           /\ m_wr_table'.we => /\ entry_fifo # <<>> /\ Head(entry_fifo) = entry_fifo[1]
                                /\ m_wr_table' = Write(Head(entry_fifo).qpn, Head(entry_fifo).psn)
<1> DEFINE go == done # "NONE"
           v == wr_entry # NoPkt /\ EntryReady
<1>1. /\ entry_fifo' = Pop(entry_fifo, go) \o Push(v, wr_entry)
      /\ m_wr_table' = IF done = "OK" /\ entry_fifo # <<>> /\ ~qp_flush[Head(entry_fifo).qpn]
                         THEN Write(Head(entry_fifo).qpn, Head(entry_fifo).psn) ELSE NoWrite
  BY DEF WriteEdge, WriteStep, Announce
<1>2. /\ entry_fifo \in Seq(Packets) /\ Len(entry_fifo) \in Nat
      /\ v => wr_entry \in Packets
      /\ v \in BOOLEAN /\ go \in BOOLEAN
  BY LenProperties DEF WriteTypes, EntryReady
<1>a. v => wr_entry # NoPkt /\ EntryReady
  OBVIOUS
<1>3. m_wr_table'.we => /\ go /\ entry_fifo # <<>> /\ Head(entry_fifo) = entry_fifo[1]
                        /\ m_wr_table' = Write(Head(entry_fifo).qpn, Head(entry_fifo).psn)
  BY <1>1 DEF NoWrite
<1> HIDE DEF go, v
<1>b. Moved(entry_fifo, entry_fifo', go, v, wr_entry)
  BY <1>1, <1>2, FifoItems, ZenonT(60)
<1>4. PICK d \in {0, 1} :
        /\ go /\ entry_fifo # <<>> => d = 1
        /\ Len(entry_fifo') = Len(entry_fifo) - d + (IF v THEN 1 ELSE 0)
        /\ d <= Len(entry_fifo)
        /\ \A i \in 1..(Len(entry_fifo) - d) : entry_fifo'[i] = entry_fifo[i + d]
        /\ v => entry_fifo'[Len(entry_fifo) - d + 1] = wr_entry
  BY <1>b DEF Moved
<1>5. ASSUME NEW x \in ItemsOf(entry_fifo')
      PROVE  \/ \E k \in 1..Len(entry_fifo) : x = entry_fifo[k] /\ (m_wr_table'.we => k >= 2)
             \/ wr_entry # NoPkt /\ EntryReady /\ x = wr_entry
  <2>1. PICK i \in 1..Len(entry_fifo') : x = entry_fifo'[i]
    BY DEF ItemsOf
  <2>2. CASE i <= Len(entry_fifo) - d
    <3>1. x = entry_fifo[i + d] /\ i + d \in 1..Len(entry_fifo)
      BY <1>2, <1>4, <2>1, <2>2
    <3>2. m_wr_table'.we => i + d >= 2
      BY <1>3, <1>4, <2>1
    <3> QED BY <3>1, <3>2
  <2>3. CASE ~(i <= Len(entry_fifo) - d)
    <3>1. v /\ i = Len(entry_fifo) - d + 1
      BY <1>2, <1>4, <2>1, <2>3
    <3> QED BY <1>4, <1>a, <2>1, <3>1
  <2> QED BY <2>2, <2>3
<1> QED BY <1>3, <1>5, <1>b DEF go, v

\* What an edge leaves waiting: entries that waited (without the one it
\* announces) and the packet it takes.
LEMMA PendingEdge ==
    ASSUME WriteTypes, NEW cm, NEW close, NEW pkt, NEW take, NEW done,
           WriteEdge(pkt, take, done, cm, close)
    PROVE  \A x \in Pending' :
             \/ \E k \in 1..Len(entry_fifo) : x = entry_fifo[k] /\ (m_wr_table'.we => k >= 2)
             \/ wr_entry # NoPkt /\ x = wr_entry
             \/ Accepts(pkt) /\ x = pkt
<1>1. wr_entry' = IF Accepts(pkt) THEN IF qp_flush[pkt.qpn] THEN NoPkt ELSE pkt
                  ELSE IF EntryReady THEN NoPkt ELSE wr_entry
  BY DEF WriteEdge, WriteStep, TableEntry
<1>2. \A x \in ItemsOf(entry_fifo') :
        \/ \E k \in 1..Len(entry_fifo) : x = entry_fifo[k] /\ (m_wr_table'.we => k >= 2)
        \/ wr_entry # NoPkt /\ EntryReady /\ x = wr_entry
  BY EntryFifoEdge
<1>3. ASSUME NEW x \in ItemsOf(Registered(wr_entry'))
      PROVE  \/ wr_entry # NoPkt /\ x = wr_entry
             \/ Accepts(pkt) /\ x = pkt
  <2>1. wr_entry' # NoPkt /\ x = wr_entry'
    BY DEF ItemsOf, Registered
  <2> QED BY <1>1, <2>1
<1>4. ASSUME NEW x \in Pending'
      PROVE  x \in ItemsOf(entry_fifo') \/ x \in ItemsOf(Registered(wr_entry'))
  BY DEF Pending, ItemsOf, Registered
<1> QED BY <1>2, <1>3, <1>4

\* An accepted packet carries the next number of an opened queue pair; no other
\* number changes.
LEMMA NumbersEdge ==
    ASSUME WriteTypes, Numbered, NEW cm, NEW close, NEW pkt, NEW take, NEW done,
           EdgeInputs(pkt, done, cm, close), WriteEdge(pkt, take, done, cm, close)
    PROVE  /\ Accepts(pkt) => /\ pkt \in Packets /\ pkt.psn = np[pkt.qpn]
                              /\ Index(np[pkt.qpn]) < MaxPkts /\ conn[pkt.qpn] # "none"
           /\ \A q \in QPs : /\ Index(np[q]) \in Nat /\ Index(np'[q]) \in Nat
                             /\ np'[q] = np[q] \/ (Accepts(pkt) /\ pkt.qpn = q)
                             /\ Index(np[q]) <= Index(np'[q])
                             /\ Accepts(pkt) /\ pkt.qpn = q => Index(np'[q]) = Index(np[q]) + 1
           /\ Numbered'
<1>1. /\ np' = IF Accepts(pkt) THEN [np EXCEPT ![pkt.qpn] = PsnInc(@)] ELSE np
      /\ conn' = [q \in QPs |-> IF CloseQpn(cm, close) = q THEN "closed"
                                ELSE IF cm.req = "OPEN" /\ cm.qpn = q THEN "open" ELSE conn[q]]
  BY DEF WriteEdge, Producer
<1>2. np \in [QPs -> Psn] /\ MaxPkts \in 0..(PSN_MOD - 1) /\ PSN_MOD \in Nat
  BY EnvAssumption, PsnAssumption DEF WriteTypes
<1>3. \A q \in QPs : Index(np[q]) \in Nat /\ Index(np[q]) <= MaxPkts
  BY <1>2, IndexIs DEF Psn, Numbered
<1>4. Accepts(pkt) => /\ pkt \in Packets /\ pkt.psn = np[pkt.qpn]
                      /\ Index(np[pkt.qpn]) < MaxPkts /\ conn[pkt.qpn] # "none"
  <2>1. SUFFICES ASSUME Accepts(pkt)
                 PROVE  /\ pkt \in Packets /\ pkt.psn = np[pkt.qpn]
                        /\ Index(np[pkt.qpn]) < MaxPkts /\ conn[pkt.qpn] # "none"
    OBVIOUS
  <2>2. PICK q \in QPs : Sending(q) /\ pkt = NextPacket(q)
    BY <2>1 DEF EdgeInputs
  <2> QED BY <2>2, <1>2 DEF Sending, NextPacket, Index, Packets
<1>5. ASSUME NEW q \in QPs
      PROVE  /\ Index(np'[q]) \in Nat /\ Index(np[q]) <= Index(np'[q]) /\ Index(np'[q]) <= MaxPkts
             /\ np'[q] = np[q] \/ (Accepts(pkt) /\ pkt.qpn = q)
             /\ Accepts(pkt) /\ pkt.qpn = q => Index(np'[q]) = Index(np[q]) + 1
             /\ conn'[q] = "none" => np'[q] = OpenPsn
  <2>1. CASE Accepts(pkt) /\ pkt.qpn = q
    <3>1. np'[q] = PsnInc(np[q])
      BY <1>1, <1>2, <2>1
    <3>2. Index(np'[q]) = Index(np[q]) + 1
      BY <1>2, <1>3, <1>4, <2>1, <3>1, IndexSteps
    <3>3. conn[q] # "none"
      BY <1>4, <2>1
    <3> QED BY <1>1, <1>2, <1>3, <1>4, <2>1, <3>2, <3>3
  <2>2. CASE ~(Accepts(pkt) /\ pkt.qpn = q)
    <3>1. np'[q] = np[q]
      BY <1>1, <1>2, <2>2
    <3> QED BY <1>1, <1>3, <2>2, <3>1 DEF Numbered
  <2> QED BY <2>1, <2>2
<1>6. Numbered'
  BY <1>5 DEF Numbered, Index, PsnDist
<1> QED BY <1>3, <1>4, <1>5, <1>6

\* The entries and the announcement are packets.
LEMMA PendingTypes == WriteTypes => \A x \in Pending : x \in Packets /\ Index(x.psn) \in Nat
<1> SUFFICES ASSUME WriteTypes, NEW x \in Pending PROVE x \in Packets /\ Index(x.psn) \in Nat
  OBVIOUS
<1>1. x \in Packets
  BY ElementOfSeq DEF WriteTypes, Pending, ItemsOf, Registered
<1> QED BY <1>1, IndexIs DEF Packets, Psn

\* One edge keeps the entries in order.
LEMMA OrderedEdge ==
    ASSUME WriteTypes, EntriesOrdered, Numbered, NEW cm, NEW close, NEW pkt, NEW take,
           NEW done, EdgeInputs(pkt, done, cm, close),
           WriteEdge(pkt, take, done, cm, close)
    PROVE  EntriesOrdered'
<1>1. \A x \in Pending' :
        \/ \E k \in 1..Len(entry_fifo) : x = entry_fifo[k] /\ (m_wr_table'.we => k >= 2)
        \/ wr_entry # NoPkt /\ x = wr_entry
        \/ Accepts(pkt) /\ x = pkt
  BY PendingEdge
<1>2. m_wr_table'.we => /\ entry_fifo # <<>> /\ Head(entry_fifo) = entry_fifo[1]
                        /\ m_wr_table' = Write(Head(entry_fifo).qpn, Head(entry_fifo).psn)
  BY EntryFifoEdge
<1>3. /\ Accepts(pkt) => pkt \in Packets /\ pkt.psn = np[pkt.qpn]
      /\ \A q \in QPs : /\ Index(np[q]) \in Nat /\ Index(np'[q]) \in Nat
                        /\ Index(np[q]) <= Index(np'[q])
                        /\ Accepts(pkt) /\ pkt.qpn = q => Index(np'[q]) = Index(np[q]) + 1
  BY NumbersEdge
<1>4. \A x \in Pending : x \in Packets /\ Index(x.psn) \in Nat
  BY PendingTypes
<1>5. Len(entry_fifo) \in Nat /\ (entry_fifo # <<>> => Len(entry_fifo) >= 1)
  BY LenProperties, EmptySeq DEF WriteTypes
<1>6. /\ \A k \in 1..Len(entry_fifo) : entry_fifo[k] \in Pending /\ entry_fifo[k] \in ItemsOf(entry_fifo)
      /\ wr_entry # NoPkt => wr_entry \in Pending
  BY DEF Pending, ItemsOf, Registered
<1>7. \A x \in Pending' : \A q \in QPs : x.qpn = q => Index(x.psn) < Index(np'[q])
  BY <1>1, <1>3, <1>4, <1>6 DEF EntriesOrdered
<1>8. \A x \in Pending' : x.qpn \in QPs
  BY <1>1, <1>3, <1>4, <1>6 DEF Packets
<1>9. wr_entry' = IF Accepts(pkt) THEN IF qp_flush[pkt.qpn] THEN NoPkt ELSE pkt
                  ELSE IF EntryReady THEN NoPkt ELSE wr_entry
  BY DEF WriteEdge, WriteStep, TableEntry
<1>10. ASSUME NEW i \in 1..Len(entry_fifo'), NEW j \in 1..Len(entry_fifo'), i < j
       PROVE  Before(entry_fifo'[i], entry_fifo'[j])
  <2> DEFINE go == done # "NONE"
             v == wr_entry # NoPkt /\ EntryReady
  <2>1. Moved(entry_fifo, entry_fifo', go, v, wr_entry)
    BY EntryFifoEdge
  <2>a. v => wr_entry # NoPkt
    OBVIOUS
  <2> HIDE DEF go, v
  <2>2. PICK d \in {0, 1} :
          /\ Len(entry_fifo') = Len(entry_fifo) - d + (IF v THEN 1 ELSE 0)
          /\ d <= Len(entry_fifo)
          /\ \A k \in 1..(Len(entry_fifo) - d) : entry_fifo'[k] = entry_fifo[k + d]
          /\ v => entry_fifo'[Len(entry_fifo) - d + 1] = wr_entry
    BY <2>1 DEF Moved
  <2>3. i <= Len(entry_fifo) - d
    BY <1>5, <1>10, <2>2
  <2>4. entry_fifo'[i] = entry_fifo[i + d] /\ i + d \in 1..Len(entry_fifo)
    BY <1>5, <2>2, <2>3
  <2>5. CASE j <= Len(entry_fifo) - d
    <3>1. entry_fifo'[j] = entry_fifo[j + d] /\ j + d \in 1..Len(entry_fifo) /\ i + d < j + d
      BY <1>5, <1>10, <2>2, <2>5
    <3> QED BY <2>4, <3>1 DEF EntriesOrdered
  <2>6. CASE ~(j <= Len(entry_fifo) - d)
    <3>1. v /\ entry_fifo'[j] = wr_entry
      BY <1>5, <2>2, <2>6
    <3>2. entry_fifo[i + d] \in ItemsOf(entry_fifo)
      BY <1>6, <2>4
    <3> QED BY <2>4, <2>a, <3>1, <3>2 DEF EntriesOrdered
  <2> QED BY <2>5, <2>6
<1>11. ASSUME wr_entry' # NoPkt, NEW x \in ItemsOf(entry_fifo')
       PROVE  Before(x, wr_entry')
  <2>1. \/ x \in ItemsOf(entry_fifo)
        \/ wr_entry # NoPkt /\ EntryReady /\ x = wr_entry
    BY <1>6, EntryFifoEdge
  <2>2. CASE Accepts(pkt)
    <3>1. wr_entry' = pkt
      BY <1>9, <1>11, <2>2
    <3>2. x \in Pending
      BY <1>6, <2>1 DEF Pending
    <3> QED BY <1>3, <2>2, <3>1, <3>2 DEF Before, EntriesOrdered
  <2>3. CASE ~Accepts(pkt)
    <3>1. wr_entry' = wr_entry /\ ~EntryReady
      BY <1>9, <1>11, <2>3
    <3> QED BY <1>11, <2>1, <3>1 DEF EntriesOrdered
  <2> QED BY <2>2, <2>3
<1>12. ASSUME m_wr_table'.we, NEW x \in Pending'
       PROVE  Before(m_wr_table', x)
  <2> DEFINE h == entry_fifo[1]
  <2>1. m_wr_table'.qpn = h.qpn /\ m_wr_table'.psn = h.psn /\ 1 \in 1..Len(entry_fifo)
    BY <1>2, <1>5, <1>12 DEF Write
  <2>2. h \in Pending /\ h \in ItemsOf(entry_fifo)
    BY <1>6, <2>1
  <2>3. CASE \E k \in 1..Len(entry_fifo) : x = entry_fifo[k] /\ k >= 2
    <3>1. Before(h, x)
      BY <2>1, <2>3 DEF EntriesOrdered
    <3> QED BY <2>1, <3>1 DEF Before
  <2>4. CASE wr_entry # NoPkt /\ x = wr_entry
    <3>1. Before(h, x)
      BY <2>2, <2>4 DEF EntriesOrdered
    <3> QED BY <2>1, <3>1 DEF Before
  <2>5. CASE Accepts(pkt) /\ x = pkt
    <3>1. Index(h.psn) < Index(np[h.qpn])
      BY <2>2 DEF EntriesOrdered
    <3> QED BY <1>3, <2>1, <2>5, <3>1 DEF Before
  <2> QED BY <1>1, <1>12, <2>3, <2>4, <2>5
<1>13. m_wr_table'.we => Index(m_wr_table'.psn) < Index(np'[m_wr_table'.qpn])
  <2> SUFFICES ASSUME m_wr_table'.we
               PROVE  Index(m_wr_table'.psn) < Index(np'[m_wr_table'.qpn])
    OBVIOUS
  <2> DEFINE h == entry_fifo[1]
  <2>1. m_wr_table'.qpn = h.qpn /\ m_wr_table'.psn = h.psn /\ h \in Pending
    BY <1>2, <1>5, <1>6 DEF Write
  <2>2. h.qpn \in QPs /\ Index(h.psn) \in Nat
    BY <1>4, <2>1 DEF Packets
  <2>3. Index(h.psn) < Index(np[h.qpn])
    BY <2>1 DEF EntriesOrdered
  <2> HIDE DEF h
  <2> QED BY <1>3, <2>1, <2>2, <2>3
<1>14. \A x \in Pending' : Index(x.psn) < Index(np'[x.qpn])
  BY <1>7, <1>8
<1> QED BY <1>10, <1>11, <1>12, <1>13, <1>14 DEF EntriesOrdered, Before, Index, PsnDist

\* wr_table stays behind everything that is not announced, through the OPEN and
\* its registered reset.
LEMMA BehindEdge ==
    ASSUME WriteTypes, EntriesOrdered, Numbered, TableBehind, NEW cm, NEW close,
           NEW pkt, NEW take, NEW done, EdgeInputs(pkt, done, cm, close),
           WriteEdge(pkt, take, done, cm, close)
    PROVE  TableBehind'
<1> DEFINE After(q) == Index(PsnInc(wr_table[q]))
           AfterP(q) == Index(PsnInc(wr_table'[q]))
<1>1. /\ wr_table' = IF m_table_rst.we THEN [wr_table EXCEPT ![m_table_rst.qpn] = m_table_rst.psn]
                     ELSE IF m_wr_table.we THEN [wr_table EXCEPT ![m_wr_table.qpn] = m_wr_table.psn]
                     ELSE wr_table
      /\ m_table_rst' = TableReset(cm, close)
      /\ conn' = [q \in QPs |-> IF CloseQpn(cm, close) = q THEN "closed"
                                ELSE IF cm.req = "OPEN" /\ cm.qpn = q THEN "open" ELSE conn[q]]
  BY DEF WriteEdge, TablesStep, TableWrite, Producer
<1>2. /\ Accepts(pkt) => pkt \in Packets /\ pkt.psn = np[pkt.qpn] /\ conn[pkt.qpn] # "none"
      /\ \A q \in QPs : /\ Index(np[q]) \in Nat /\ Index(np'[q]) \in Nat
                        /\ np'[q] = np[q] \/ (Accepts(pkt) /\ pkt.qpn = q)
                        /\ Index(np[q]) <= Index(np'[q])
  BY NumbersEdge
<1>3. /\ \A x \in Pending' : x \in Pending \/ (Accepts(pkt) /\ x = pkt)
      /\ m_wr_table'.we => \E x \in Pending : x.qpn = m_wr_table'.qpn /\ x.psn = m_wr_table'.psn
  <2>1. /\ \A k \in 1..Len(entry_fifo) : entry_fifo[k] \in Pending
        /\ wr_entry # NoPkt => wr_entry \in Pending
    BY DEF Pending, ItemsOf, Registered
  <2>2. entry_fifo # <<>> => 1 \in 1..Len(entry_fifo)
    BY LenProperties, EmptySeq DEF WriteTypes
  <2> QED BY <2>1, <2>2, PendingEdge, EntryFifoEdge DEF Write
<1>4. \A x \in Pending : x \in Packets /\ Index(x.psn) \in Nat
  BY PendingTypes
<1>5. SUFFICES ASSUME NEW q \in QPs, conn'[q] = "open"
               PROVE  IF m_table_rst'.we /\ m_table_rst'.qpn = q
                      THEN np'[q] = OpenPsn /\ m_table_rst'.psn = PsnDec(OpenPsn)
                      ELSE /\ AfterP(q) <= Index(np'[q])
                           /\ \A x \in Pending' : x.qpn = q => AfterP(q) <= Index(x.psn)
                           /\ m_wr_table'.we /\ m_wr_table'.qpn = q => AfterP(q) <= Index(m_wr_table'.psn)
  BY DEF TableBehind, Index, PsnDist, PsnInc, PsnDec
<1>6. CASE cm.req = "OPEN" /\ cm.qpn = q
  <2>1. cm.psn = OpenPsn /\ conn[q] = "none" /\ CloseQpn(cm, close) = None
    BY <1>6 DEF EdgeInputs
  <2>2. m_table_rst' = Write(q, PsnDec(OpenPsn))
    BY <1>1, <1>6, <2>1 DEF TableReset
  <2>3. np'[q] = OpenPsn
    BY <1>2, <2>1 DEF Numbered
  <2> QED BY <2>2, <2>3 DEF Write
<1>7. CASE ~(cm.req = "OPEN" /\ cm.qpn = q)
  <2>1. conn[q] = "open" /\ CloseQpn(cm, close) # q
    BY <1>1, <1>5, <1>7
  <2>2. ~(m_table_rst'.we /\ m_table_rst'.qpn = q)
    BY <1>1, <1>7, <2>1 DEF TableReset, Write, NoWrite, CloseQpn
  <2>3. \/ AfterP(q) = 0
        \/ /\ AfterP(q) \in Nat /\ AfterP(q) <= Index(np[q])
           /\ \A x \in Pending : x.qpn = q => AfterP(q) <= Index(x.psn)
    <3>1. CASE m_table_rst.we /\ m_table_rst.qpn = q
      <4>1. wr_table'[q] = PsnDec(OpenPsn)
        BY <1>1, <2>1, <3>1 DEF WriteTypes, TableBehind
      <4>2. AfterP(q) = Index(OpenPsn)
        BY <4>1, IndexSteps, EnvAssumption
      <4>3. Index(OpenPsn) = 0
        BY IndexIs, EnvAssumption DEF Psn
      <4> QED BY <4>2, <4>3
    <3>2. CASE ~(m_table_rst.we /\ m_table_rst.qpn = q)
      <4>1. /\ After(q) <= Index(np[q])
            /\ \A x \in Pending : x.qpn = q => After(q) <= Index(x.psn)
        BY <2>1, <3>2 DEF TableBehind
      <4>2. After(q) \in Nat
        BY PsnSteps, IndexIs DEF WriteTypes, Psn
      <4>3. CASE wr_table'[q] = wr_table[q]
        BY <4>1, <4>2, <4>3
      <4>4. CASE m_wr_table.we /\ m_wr_table.qpn = q /\ wr_table'[q] = m_wr_table.psn
        <5>1. m_wr_table.psn \in Psn /\ Index(m_wr_table.psn) < Index(np[q])
          BY <4>4 DEF WriteTypes, WritePort, EntriesOrdered
        <5>2. Index(np[q]) <= PSN_MOD - 1 /\ Index(m_wr_table.psn) \in Nat
          BY <5>1, IndexIs, PsnAssumption, SMTT(30) DEF WriteTypes, Psn
        <5>3. AfterP(q) = Index(m_wr_table.psn) + 1
          BY <1>2, <4>4, <5>1, <5>2, IndexSteps, PsnAssumption
        <5>4. \A x \in Pending : x.qpn = q => Index(m_wr_table.psn) < Index(x.psn)
          BY <4>4 DEF EntriesOrdered, Before
        <5> QED BY <1>2, <1>4, <5>1, <5>2, <5>3, <5>4
      <4>5. wr_table'[q] = wr_table[q] \/ (m_wr_table.we /\ m_wr_table.qpn = q /\ wr_table'[q] = m_wr_table.psn)
        BY <1>1, <3>2 DEF WriteTypes, WritePort
      <4> QED BY <4>3, <4>4, <4>5
    <3> QED BY <3>1, <3>2
  <2> HIDE DEF After, AfterP
  <2>4. /\ AfterP(q) <= Index(np'[q])
        /\ \A x \in Pending' : x.qpn = q => AfterP(q) <= Index(x.psn)
    BY <1>2, <1>3, <1>4, <2>3
  <2>5. m_wr_table'.we /\ m_wr_table'.qpn = q => AfterP(q) <= Index(m_wr_table'.psn)
    BY <1>3, <1>4, <2>3
  <2> QED BY <2>2, <2>4, <2>5
<1> QED BY <1>6, <1>7

-----------------------------------------------------------------------------
(* The chain of descriptors, item by item.                                 *)

\* What an edge makes of the chain of descriptors: a status pops its front, an
\* accepted packet joins at its end.
LEMMA DescriptorsEdge ==
    ASSUME WriteTypes, ReadyMeansFree, NEW cm, NEW close, NEW pkt \in Packets \cup {NoPkt},
           NEW take \in BOOLEAN, NEW done, done # "NONE" => dma_busy # <<>>, WriteEdge(pkt, take, done, cm, close)
    PROVE  /\ Descriptors \in Seq(Packets)
           /\ Moved(Descriptors, Descriptors', done # "NONE", Accepts(pkt), pkt)
           /\ Moved(dma_busy \o desc_fifo, dma_busy' \o desc_fifo', done # "NONE",
                    dma_desc # NoPkt /\ DescReady, dma_desc)
<1> DEFINE go == done # "NONE"
           chain == dma_busy \o desc_fifo
           enters == dma_desc # NoPkt /\ DescReady
<1>1. chain \in Seq(Packets) /\ dma_busy \in Seq(Packets) /\ desc_fifo \in Seq(Packets)
  BY Joined DEF WriteTypes
<1>2. dma_busy' \o desc_fifo' = Pop(chain, go) \o Push(enters, dma_desc)
  <2>1. Pop(chain, go) = Pop(dma_busy, go) \o desc_fifo
    BY <1>1, PopConcat
  <2>2. dma_busy' \o desc_fifo' = Front(done) \o Entering
    BY Chain
  <2>3. Front(done) = Pop(chain, go) /\ Entering = Push(enters, dma_desc)
    BY <2>1 DEF Front, Entering
  <2> QED BY <2>2, <2>3
<1>3. Registered(dma_desc) \in Seq(Packets)
  BY DEF Registered, WriteTypes
<1>4. Descriptors \in Seq(Packets)
  BY <1>1, <1>3, Joined DEF Descriptors
<1>5. Moved(chain, dma_busy' \o desc_fifo', go, enters, dma_desc)
  <2>1. /\ enters => dma_desc \in Packets
        /\ enters \in BOOLEAN /\ go \in BOOLEAN
    BY DescReadyType DEF WriteTypes
  <2> HIDE DEF chain, enters, go
  <2> QED BY <1>1, <1>2, <2>1, FifoItems, ZenonT(60)
<1>6. Descriptors' = Pop(Descriptors, go) \o Push(Accepts(pkt), pkt)
  <2>1. dma_desc' = IF Accepts(pkt) THEN pkt ELSE IF DescReady THEN NoPkt ELSE dma_desc
    BY DEF WriteEdge, WriteStep, Descriptor
  <2>2. Accepts(pkt) => pkt # NoPkt /\ dma_desc = NoPkt
    BY DEF Accepts, ReadyMeansFree
  <2>3. Pop(chain, go) \in Seq(Packets) /\ (go => chain # <<>>)
    BY <1>1, PopLen, ConcatHeadTail
  <2>4. Pop(Descriptors, go) = Pop(chain, go) \o Registered(dma_desc)
    BY <1>1, <1>3, <2>3, PopConcat DEF Descriptors
  <2>5. Descriptors' = (dma_busy' \o desc_fifo') \o Registered(dma_desc')
    BY DEF Descriptors, Registered
  <2>a. \A s \in Seq(Packets) : s \o <<>> = s
    BY ConcatEmptySeq
  <2>b. Pop(chain, go) \o Registered(dma_desc) \in Seq(Packets)
    BY <1>3, <2>3, Joined
  <2> HIDE DEF chain, go
  <2>6. CASE Accepts(pkt)
    BY <1>2, <2>1, <2>2, <2>3, <2>4, <2>5, <2>6, <2>a DEF Push, Registered
  <2>7. CASE ~Accepts(pkt) /\ enters
    BY <1>2, <2>1, <2>3, <2>4, <2>5, <2>7, <2>a, <2>b DEF Push, Registered
  <2>8. CASE ~Accepts(pkt) /\ ~enters
    BY <1>2, <2>1, <2>3, <2>4, <2>5, <2>8, <2>a, <2>b DEF Push, Registered
  <2> QED BY <2>6, <2>7, <2>8
<1>7. Moved(Descriptors, Descriptors', go, Accepts(pkt), pkt)
  <2>1. Accepts(pkt) => pkt \in Packets
    BY DEF Accepts
  <2>2. Accepts(pkt) \in BOOLEAN /\ go \in BOOLEAN
    BY DEF Accepts, WriteTypes
  <2> HIDE DEF go
  <2> QED BY <1>4, <1>6, <2>1, <2>2, FifoItems, ZenonT(60)
<1> QED BY <1>4, <1>5, <1>7

\* The packets under way are in order, too.
LEMMA DescriptorsOrdered ==
    ASSUME WriteTypes, Chained, EntriesOrdered
    PROVE  /\ Descriptors \in Seq(Packets)
           /\ \A i, j \in 1..Len(Descriptors) : i < j => Before(Descriptors[i], Descriptors[j])
           /\ \A i \in 1..Len(Descriptors) : Descriptors[i] \in Pending
<1>1. entry_fifo \in Seq(Packets) /\ Len(entry_fifo) \in Nat
  BY LenProperties DEF WriteTypes
<1>2. CASE wr_entry = NoPkt
  BY <1>1, <1>2 DEF Chained, EntriesOrdered, Pending, ItemsOf
<1>3. CASE wr_entry # NoPkt
  <2>1. Descriptors = entry_fifo \o <<wr_entry>> /\ wr_entry \in Packets
    BY <1>3 DEF Chained, Descriptors, Registered, WriteTypes
  <2> DEFINE w == <<wr_entry>>
  <2>2. w \in Seq(Packets) /\ Len(w) = 1 /\ w[1] = wr_entry
    BY <2>1
  <2> HIDE DEF w
  <2>3. /\ Descriptors \in Seq(Packets) /\ Len(Descriptors) = Len(entry_fifo) + 1
        /\ \A k \in 1..Len(entry_fifo) : Descriptors[k] = entry_fifo[k]
        /\ Descriptors[Len(entry_fifo) + 1] = wr_entry
    <3>1. Descriptors = entry_fifo \o w
      BY <2>1 DEF w
    <3>2. /\ entry_fifo \o w \in Seq(Packets) /\ Len(entry_fifo \o w) = Len(entry_fifo) + 1
          /\ \A k \in 1..(Len(entry_fifo) + 1) :
               (entry_fifo \o w)[k] = IF k <= Len(entry_fifo) THEN entry_fifo[k] ELSE w[k - Len(entry_fifo)]
      <4> DEFINE e == entry_fifo
                 u == e \o w
      <4>1. e \in Seq(Packets) /\ w \in Seq(Packets)
        BY <1>1, <2>2
      <4> HIDE DEF e
      <4>2. /\ u \in Seq(Packets) /\ Len(u) = Len(e) + Len(w)
            /\ \A k \in 1..(Len(e) + Len(w)) : u[k] = IF k <= Len(e) THEN e[k] ELSE w[k - Len(e)]
        BY ONLY <4>1, ConcatProperties
      <4> QED BY <2>2, <4>2 DEF e
    <3> QED BY <1>1, <2>2, <3>1, <3>2
  <2>4. \A k \in 1..Len(entry_fifo) : entry_fifo[k] \in ItemsOf(entry_fifo)
    BY DEF ItemsOf
  <2>5. wr_entry \in ItemsOf(Registered(wr_entry))
    BY <1>3 DEF ItemsOf, Registered
  <2>6. \A i, j \in 1..Len(Descriptors) : i < j => Before(Descriptors[i], Descriptors[j])
    <3> SUFFICES ASSUME NEW i \in 1..Len(Descriptors), NEW j \in 1..Len(Descriptors), i < j
                 PROVE  Before(Descriptors[i], Descriptors[j])
      OBVIOUS
    <3>1. i \in 1..Len(entry_fifo) /\ Descriptors[i] = entry_fifo[i]
      BY <1>1, <2>3
    <3>2. CASE j \in 1..Len(entry_fifo)
      BY <2>3, <3>1, <3>2 DEF EntriesOrdered
    <3>3. CASE j = Len(entry_fifo) + 1
      BY <1>3, <2>3, <2>4, <3>1, <3>3 DEF EntriesOrdered
    <3> QED BY <1>1, <2>3, <3>2, <3>3
  <2>7. \A i \in 1..Len(Descriptors) : Descriptors[i] \in Pending
    BY <1>1, <2>3, <2>4, <2>5 DEF Pending
  <2> QED BY <2>3, <2>6, <2>7
<1> QED BY <1>2, <1>3

\* The descriptors that left the register are the chain without its last one.
LEMMA ChainFront ==
    ASSUME WriteTypes
    PROVE  LET chain == dma_busy \o desc_fifo
           IN  /\ chain \in Seq(Packets) /\ Len(chain) \in Nat
               /\ \A i \in 1..Len(chain) : i \in 1..Len(Descriptors) /\ chain[i] = Descriptors[i]
               /\ dma_desc # NoPkt => /\ Len(Descriptors) = Len(chain) + 1
                                      /\ Descriptors[Len(chain) + 1] = dma_desc
<1> DEFINE chain == dma_busy \o desc_fifo
           reg == Registered(dma_desc)
<1>1. chain \in Seq(Packets) /\ Len(chain) \in Nat
  BY Joined, LenProperties DEF WriteTypes
<1>2. reg \in Seq(Packets) /\ Len(reg) \in Nat /\ (dma_desc # NoPkt => Len(reg) = 1 /\ reg[1] = dma_desc)
  BY LenProperties, EmptySeq DEF WriteTypes, Registered
<1>3. Descriptors = chain \o reg
  BY DEF Descriptors
<1> HIDE DEF chain, reg
<1>4. /\ Len(Descriptors) = Len(chain) + Len(reg)
      /\ \A k \in 1..(Len(chain) + Len(reg)) :
           Descriptors[k] = IF k <= Len(chain) THEN chain[k] ELSE reg[k - Len(chain)]
  BY ONLY <1>1, <1>2, <1>3, ConcatProperties
<1>5. \A i \in 1..Len(chain) : i \in 1..Len(Descriptors) /\ chain[i] = Descriptors[i]
  BY <1>1, <1>2, <1>4
<1>6. dma_desc # NoPkt => /\ Len(Descriptors) = Len(chain) + 1
                          /\ Descriptors[Len(chain) + 1] = dma_desc
  <2> SUFFICES ASSUME dma_desc # NoPkt
               PROVE  /\ Len(Descriptors) = Len(chain) + 1
                      /\ Descriptors[Len(chain) + 1] = dma_desc
    OBVIOUS
  <2>1. Len(reg) = 1 /\ reg[1] = dma_desc
    BY <1>2
  <2>2. Descriptors[Len(chain) + 1] = reg[Len(chain) + 1 - Len(chain)]
    BY <1>1, <1>4, <2>1
  <2>3. Len(chain) + 1 - Len(chain) = 1
    BY <1>1
  <2> QED BY <1>4, <2>1, <2>2, <2>3
<1> QED BY <1>1, <1>5, <1>6 DEF chain

=============================================================================
