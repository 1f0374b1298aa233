-------------------------- MODULE WriteSide_proofs --------------------------
(***************************************************************************)
(* Proofs about the write side of the retransmission engine, for every     *)
(* number of queue pairs, every PSN space, every FIFO depth and every      *)
(* behaviour of the DMA engine: its types and its descriptor register, its *)
(* two FIFO chains, and the order and the headers of its packets.          *)
(***************************************************************************)
EXTENDS WriteSide, RtrFacts

-----------------------------------------------------------------------------
(* Type correctness.                                                       *)

\* The inputs of an edge have the types the registers need.
LEMMA InputTypes ==
    ASSUME TypeOK, NEW cm \in CmInputs, NEW pkt \in Offers \cup {NoPkt}, NEW done \in DoneInputs
    PROVE  /\ pkt \in Packets \cup {NoPkt}
           /\ done # "NONE" => dma_busy # <<>>
           /\ CloseQpn(cm, None) \in QPs \cup {None}
           /\ cm.req = "OPEN" => cm.qpn \in QPs
           /\ TableReset(cm, None) \in WritePort
<1>1. pkt \in Packets \cup {NoPkt}
  BY DEF Offers, NextPacket, Packets, TypeOK
<1>2. done # "NONE" => dma_busy # <<>>
  BY DEF DoneInputs
<1>3. PsnDec(OpenPsn) \in Psn
  BY PsnSteps, EnvAssumption
<1>4. CASE cm = CmNone
  BY <1>1, <1>2, <1>4, Constants DEF CmNone, CloseQpn, TableReset
<1>5. CASE cm \in ClosePulses
  BY <1>1, <1>2, <1>5, Constants, EnvAssumption
     DEF ClosePulses, CmClose, CloseQpn, TableReset, Write, WritePort
<1>6. CASE cm \in {CmOpen(q, OpenPsn) : q \in {a \in ActiveQPs : conn[a] = "none"}}
  BY <1>1, <1>2, <1>3, <1>6, Constants, EnvAssumption
     DEF CmOpen, CloseQpn, TableReset, Write, WritePort
<1> QED BY <1>4, <1>5, <1>6 DEF CmInputs

\* The reset branch leaves every register of the write side in its range.
LEMMA TypeInit == Init => TypeOK
<1> SUFFICES ASSUME Init PROVE TypeOK
  OBVIOUS
<1>1. desc_fifo \in Seq(Packets) /\ entry_fifo \in Seq(Packets) /\ dma_busy \in Seq(Packets)
  BY EmptySeq DEF Init, WriteInit
<1>2. /\ wr_table \in [QPs -> Psn] /\ m_table_rst \in WritePort /\ m_wr_table \in WritePort
      /\ qp_flush \in [QPs -> BOOLEAN] /\ bth_ready \in BOOLEAN
      /\ conn \in [QPs -> {"none", "open", "closed"}] /\ np \in [QPs -> Psn]
  BY Constants, EnvAssumption DEF Init, TablesInit, WriteInit, EnvInit
<1>3. /\ hdr_ram \in [QPs -> [0..(HDR_SLOTS - 1) -> Psn \cup {None}]]
      /\ mem \in [QPs -> [Slot -> Psn \cup {None}]]
  BY DEF Init, WriteInit
<1> QED BY <1>1, <1>2, <1>3 DEF Init, WriteInit, TypeOK

\* These are the types the shared lemmas speak of.
LEMMA SameTypes == /\ TypeOK <=> WriteTypes
                   /\ TypeOK' <=> WriteTypes'
BY DEF TypeOK, WriteTypes

\* The DMA engine takes a descriptor or not.
LEMMA TakeType == TakeInputs \subseteq BOOLEAN
BY EnvAssumption DEF TakeInputs

\* A clock edge keeps every register in its range.
LEMMA TypeEdge ==
    ASSUME TypeOK, NEW cm \in CmInputs, NEW pkt \in Offers \cup {NoPkt},
           NEW take \in TakeInputs, NEW done \in DoneInputs, Edge(pkt, cm, take, done)
    PROVE  TypeOK'
<1>1. InputsOK(pkt, done, cm, None)
  BY InputTypes DEF InputsOK
<1>2. WriteTypes'
  BY <1>1, TakeType, SameTypes, WriteTypesEdge DEF Edge, WriteEdge
<1> QED BY <1>2, SameTypes

\* What drives an edge of the write side by itself is what its lemmas ask for.
LEMMA EdgeIs ==
    ASSUME TypeOK, NEW cm \in CmInputs, NEW pkt \in Offers \cup {NoPkt}, NEW take,
           NEW done \in DoneInputs, Edge(pkt, cm, take, done)
    PROVE  WriteTypes /\ EdgeInputs(pkt, done, cm, None) /\ WriteEdge(pkt, take, done, cm, None)
<1>1. InputsOK(pkt, done, cm, None)
  BY InputTypes DEF InputsOK
<1>2. Accepts(pkt) => \E q \in QPs : Sending(q) /\ pkt = NextPacket(q)
  BY DEF Offers, Accepts
<1>3. cm.req = "OPEN" =>
        cm.psn = OpenPsn /\ conn[cm.qpn] = "none" /\ CloseQpn(cm, None) = None
  BY DEF CmInputs, CmNone, ClosePulses, CmClose, CmOpen, CloseQpn
<1> QED BY <1>1, <1>2, <1>3, SameTypes DEF EdgeInputs, Edge

\* A step is a clock edge with inputs of these types.
LEMMA NextIsEdge ==
    ASSUME TypeOK, Next
    PROVE  \E pkt \in Offers \cup {NoPkt}, cm \in CmInputs, take \in TakeInputs, done \in DoneInputs :
             Edge(pkt, cm, take, done)
BY DEF Next, Offered, Idling

\* Type correctness of the write side (RoCE_rtr_write_module, wr_table): whatever
\* the producer, the connection manager and the DMA engine do, every register,
\* FIFO and memory stays in its declared range.
THEOREM TypeCorrect == Spec => []TypeOK
<1>1. TypeOK /\ [Next]_vars => TypeOK'
  <2>1. TypeOK /\ Next => TypeOK'
    BY NextIsEdge, TypeEdge
  <2>2. TypeOK /\ UNCHANGED vars => TypeOK'
    BY DEF TypeOK, vars, tableVars, writeVars
  <2> QED BY <2>1, <2>2
<1> QED BY TypeInit, <1>1, PTL DEF Spec

-----------------------------------------------------------------------------
(* The descriptor register.                                                *)

\* Every clock edge keeps the accept FSM and the descriptor register in step.
LEMMA ReadyStep ==
    ASSUME TypeOK, ReadyMeansFree, [Next]_vars
    PROVE  /\ ReadyMeansFree'
           /\ dma_desc # NoPkt /\ ~DescReady => dma_desc' = dma_desc
<1>1. CASE Next
  <2>1. PICK pkt \in Offers \cup {NoPkt}, cm \in CmInputs, take \in TakeInputs, done \in DoneInputs :
          Edge(pkt, cm, take, done)
    BY <1>1, NextIsEdge
  <2> QED BY <2>1, EdgeIs, TakeType, ReadyEdge
<1>2. CASE UNCHANGED vars
  BY <1>2 DEF ReadyMeansFree, DescReady, vars, writeVars
<1> QED BY <1>1, <1>2

\* They are in step after reset.
LEMMA ReadyInit == Init => ReadyMeansFree
BY DEF Init, WriteInit, ReadyMeansFree

\* The write FSM never replaces a descriptor the FIFO has not taken, with any
\* FIFO depth and any pace of the DMA engine: it needs no handshake of its own
\* with the FIFO, because ready falls for a cycle after each header and stays low
\* in STATE_DMA_WAIT_READY.
THEOREM DescriptorsHeld == Spec => DescriptorHeld
<1>1. TypeOK /\ ReadyMeansFree /\ [Next]_vars => ReadyMeansFree'
  BY ReadyStep
<1>2. TypeOK /\ ReadyMeansFree /\ [Next]_vars =>
        [dma_desc # NoPkt /\ ~DescReady => dma_desc' = dma_desc]_vars
  BY ReadyStep
<1> QED BY TypeCorrect, ReadyInit, <1>1, <1>2, PTL DEF Spec, DescriptorHeld

-----------------------------------------------------------------------------
(* The two FIFO chains.                                                    *)

\* After reset both chains are empty and no queue pair is flushed.
LEMMA AlignedInit == Init => Aligned /\ FlushedClosed
<1> SUFFICES ASSUME Init PROVE Aligned /\ FlushedClosed
  OBVIOUS
<1>1. Descriptors = <<>>
  <2>1. <<>> \o <<>> = <<>>
    BY ConcatEmptySeq, EmptySeq
  <2> QED BY <2>1 DEF Init, WriteInit, Descriptors, Registered
<1>2. Len(<<>>) = 0
  BY EmptySeq
<1>3. Aligned
  BY <1>1, <1>2, EnvAssumption, WriteAssumption DEF Init, WriteInit, Aligned, FifosFit, Chained
<1> QED BY <1>3 DEF Init, WriteInit, FlushedClosed

\* The DMA engine and the descriptor FIFO take a descriptor only when they have room.
LEMMA FifosEdge ==
    ASSUME TypeOK, FifosFit, NEW cm, NEW pkt, NEW take \in TakeInputs, NEW done,
           Edge(pkt, cm, take, done)
    PROVE  FifosFit'
<1>1. Len(desc_fifo') <= DESC_DEPTH
  <2>1. desc_fifo' = Pop(desc_fifo, take) \o Push(dma_desc # NoPkt /\ DescReady, dma_desc)
    BY DEF Edge, WriteEdge, WriteStep, DmaEngine
  <2> QED BY <2>1, TakeType, FifoBound, WriteAssumption DEF TypeOK, FifosFit, DescReady
<1>2. Len(dma_busy') <= DMA_OUTSTANDING
  <2> DEFINE taken == take /\ desc_fifo # <<>>
             item == IF desc_fifo = <<>> THEN NoPkt ELSE Head(desc_fifo)
  <2>1. dma_busy' = Pop(dma_busy, done # "NONE") \o Push(taken, item)
    BY DEF Edge, WriteEdge, WriteStep, DmaEngine
  <2>2. taken => item \in Packets /\ Len(dma_busy) < DMA_OUTSTANDING
    <3> SUFFICES ASSUME taken PROVE item \in Packets /\ Len(dma_busy) < DMA_OUTSTANDING
      OBVIOUS
    <3>1. desc_fifo \in Seq(Packets) /\ desc_fifo # <<>> /\ take
      BY DEF TypeOK
    <3>2. item \in Packets
      BY <3>1, HeadTailProperties
    <3>3. Len(dma_busy) \in Nat
      BY LenProperties DEF TypeOK
    <3>4. ~(Len(dma_busy) >= DMA_OUTSTANDING)
      BY <3>1 DEF TakeInputs
    <3> QED BY <3>2, <3>3, <3>4, EnvAssumption
  <2>3. taken \in BOOLEAN
    BY TakeType
  <2> HIDE DEF taken, item
  <2> QED BY <2>1, <2>2, <2>3, FifoBound, EnvAssumption DEF TypeOK, FifosFit
<1> QED BY <1>1, <1>2 DEF FifosFit

\* So the packets under way are bounded without a word from the write FSM.
LEMMA FewUnderWay ==
    ASSUME TypeOK, FifosFit
    PROVE  /\ Len(Descriptors) \in Nat
           /\ Len(Descriptors) <= DMA_OUTSTANDING + DESC_DEPTH + 1
<1>1. /\ Registered(dma_desc) \in Seq(Packets) /\ Len(Registered(dma_desc)) \in Nat
      /\ Len(Registered(dma_desc)) <= 1
  BY EmptySeq, LenProperties DEF TypeOK, Registered
<1>2. /\ dma_busy \in Seq(Packets) /\ Len(dma_busy) \in Nat /\ Len(dma_busy) <= DMA_OUTSTANDING
      /\ desc_fifo \in Seq(Packets) /\ Len(desc_fifo) \in Nat /\ Len(desc_fifo) <= DESC_DEPTH
  BY LenProperties DEF TypeOK, FifosFit
<1>3. Len(dma_busy \o desc_fifo) = Len(dma_busy) + Len(desc_fifo)
  BY <1>2, ConcatProperties
<1>4. Len(Descriptors) = Len(dma_busy) + Len(desc_fifo) + Len(Registered(dma_desc))
  BY <1>1, <1>2, <1>3, ConcatProperties, Joined DEF Descriptors
<1> QED BY <1>1, <1>2, <1>4, EnvAssumption, WriteAssumption

\* One edge keeps the chains aligned when the entry FIFO is the deeper one.
LEMMA AlignedEdge ==
    ASSUME ~StaleProducer, DMA_OUTSTANDING + DESC_DEPTH < ENTRY_DEPTH,
           TypeOK, ReadyMeansFree, FlushedClosed, Aligned,
           NEW cm \in CmInputs, NEW pkt \in Offers \cup {NoPkt}, NEW take \in TakeInputs,
           NEW done \in DoneInputs, Edge(pkt, cm, take, done)
    PROVE  Aligned'
<1>1. /\ WriteTypes /\ EdgeInputs(pkt, done, cm, None) /\ WriteEdge(pkt, take, done, cm, None)
      /\ pkt \in Packets \cup {NoPkt} /\ (done # "NONE" => dma_busy # <<>>)
  BY EdgeIs, InputTypes
<1>2. FifosFit'
  BY FifosEdge DEF Aligned
<1>3. Chained'
  <2>1. Len(Descriptors) <= ENTRY_DEPTH /\ Chained
    BY FewUnderWay, EnvAssumption, WriteAssumption DEF Aligned
  <2> QED BY <1>1, <2>1, TakeType, ChainedEdge
<1> QED BY <1>2, <1>3 DEF Aligned

\* The inductive invariant holds after reset.
LEMMA ChainInit == Init => ChainInv
<1>1. Init => AnnouncedStored
  BY DEF Init, WriteInit, NoWrite, AnnouncedStored
<1> QED BY <1>1, TypeInit, ReadyInit, AlignedInit DEF ChainInv

\* ChainInv is inductive if the producer stops at a close and the entry FIFO is deeper
\* than the descriptor FIFO and the DMA engine together.
LEMMA ChainStep ==
    ASSUME ~StaleProducer, DMA_OUTSTANDING + DESC_DEPTH < ENTRY_DEPTH, ChainInv, [Next]_vars
    PROVE  ChainInv'
<1> USE DEF ChainInv
<1>1. CASE Next
  <2>1. PICK pkt \in Offers \cup {NoPkt}, cm \in CmInputs, take \in TakeInputs, done \in DoneInputs :
          Edge(pkt, cm, take, done)
    BY <1>1, NextIsEdge
  <2>2. TypeOK'
    BY <2>1, TypeEdge
  <2>a. WriteTypes /\ EdgeInputs(pkt, done, cm, None) /\ WriteEdge(pkt, take, done, cm, None)
    BY <2>1, EdgeIs
  <2>3. ReadyMeansFree'
    BY <2>a, TakeType, ReadyEdge
  <2>4. FlushedClosed'
    BY <2>a, FlushEdge
  <2>5. Aligned'
    BY <2>1, AlignedEdge
  <2>6. AnnouncedStored'
    BY <2>a, TakeType, StoredEdge DEF Aligned, AnnouncedStored, SlotOf
  <2> QED BY <2>2, <2>3, <2>4, <2>5, <2>6
<1>2. CASE UNCHANGED vars
  BY <1>2 DEF vars, tableVars, writeVars, TypeOK, ReadyMeansFree, DescReady, FlushedClosed,
              Aligned, FifosFit, Chained, Descriptors, AnnouncedStored
<1> QED BY <1>1, <1>2

\* ChainInv holds in every state.
THEOREM ChainHolds ==
    ASSUME ~StaleProducer, DMA_OUTSTANDING + DESC_DEPTH < ENTRY_DEPTH
    PROVE  Spec => []ChainInv
<1>1. ChainInv /\ [Next]_vars => ChainInv'
  BY ChainStep
<1> QED BY ChainInit, <1>1, PTL DEF Spec

\* A packet is announced in wr_table only when the DMA engine has written its
\* payload, for any number of queue pairs closing and opening and any DMA errors,
\* as long as no packet of a closed queue pair is taken and the entry FIFO, whose
\* ready nobody looks at, is deeper than the FIFO whose ready the FSM does look at
\* and the DMA engine together.
THEOREM AnnouncedOnlyStored ==
    ASSUME ~StaleProducer, DMA_OUTSTANDING + DESC_DEPTH < ENTRY_DEPTH
    PROVE  Spec => []AnnouncedStored
<1>1. ChainInv => AnnouncedStored
  BY DEF ChainInv
<1> QED BY ChainHolds, <1>1, PTL

-----------------------------------------------------------------------------
(* The order of the entries.                                               *)

\* After reset nothing waits and nothing is open.
LEMMA OrderInit == Init => OrderInv
<1> SUFFICES ASSUME Init PROVE OrderInv
  OBVIOUS
<1>1. TypeOK
  BY TypeInit
<1>2. EntriesOrdered
  <2>1. entry_fifo = <<>> /\ wr_entry = NoPkt /\ ~m_wr_table.we
    BY DEF Init, WriteInit, NoWrite
  <2>2. ItemsOf(<<>>) = {} /\ Pending = {}
    BY <2>1 DEF ItemsOf, Pending, Registered
  <2> QED BY <2>1, <2>2 DEF EntriesOrdered
<1>3. Numbered
  <2>1. Index(OpenPsn) = 0
    BY IndexIs, EnvAssumption DEF Psn
  <2> QED BY <2>1, EnvAssumption DEF Init, EnvInit, Numbered
<1>4. TableBehind
  BY DEF Init, EnvInit, TableBehind
<1> QED BY <1>1, <1>2, <1>3, <1>4 DEF OrderInv

\* Every clock edge keeps the order.
LEMMA OrderStep == OrderInv /\ [Next]_vars => OrderInv'
<1> SUFFICES ASSUME OrderInv, [Next]_vars PROVE OrderInv'
  OBVIOUS
<1> USE DEF OrderInv
<1>1. CASE Next
  <2>1. PICK pkt \in Offers \cup {NoPkt}, cm \in CmInputs, take \in TakeInputs, done \in DoneInputs :
          Edge(pkt, cm, take, done)
    BY <1>1, NextIsEdge
  <2>2. TypeOK'
    BY <2>1, TypeEdge
  <2>a. WriteTypes /\ EdgeInputs(pkt, done, cm, None) /\ WriteEdge(pkt, take, done, cm, None)
    BY <2>1, EdgeIs
  <2>3. EntriesOrdered'
    BY <2>a, TakeType, OrderedEdge
  <2>4. Numbered'
    BY <2>a, TakeType, NumbersEdge
  <2>5. TableBehind'
    BY <2>a, TakeType, BehindEdge
  <2> QED BY <2>2, <2>3, <2>4, <2>5
<1>2. CASE UNCHANGED vars
  <2>1. UNCHANGED <<tableVars, writeVars, conn, np>>
    BY <1>2 DEF vars
  <2>2. TypeOK'
    BY <2>1 DEF tableVars, writeVars, TypeOK
  <2>3. Pending' = Pending
    BY <2>1 DEF writeVars, Pending, ItemsOf, Registered
  <2>4. EntriesOrdered'
    BY <2>1, <2>3 DEF writeVars, EntriesOrdered, ItemsOf, Before, Index, PsnDist
  <2>5. Numbered'
    BY <2>1 DEF Numbered, Index, PsnDist
  <2>6. TableBehind'
    BY <2>1, <2>3 DEF tableVars, writeVars, TableBehind, Index, PsnDist, PsnInc, PsnDec
  <2> QED BY <2>2, <2>4, <2>5, <2>6
<1> QED BY <1>1, <1>2

\* wr_table follows the order of the packets without any condition: whatever is
\* flushed, lost to a DMA error or overwritten in the entry register, and even
\* when packets of a closed queue pair go on coming, no announcement moves the
\* table of an open queue pair back or announces the same packet twice.
THEOREM AnnouncedAlwaysInOrder == Spec => []AnnouncedInOrder
<1>1. OrderInv => AnnouncedInOrder
  <2> SUFFICES ASSUME OrderInv, m_wr_table.we, conn[m_wr_table.qpn] = "open", ~m_table_rst.we
               PROVE  Index(m_wr_table.psn) >= Index(PsnInc(wr_table[m_wr_table.qpn]))
    BY DEF AnnouncedInOrder, Index
  <2>1. m_wr_table.qpn \in QPs /\ m_wr_table.psn \in Psn
    BY DEF OrderInv, TypeOK, WritePort
  <2>2. /\ Index(m_wr_table.psn) \in Nat
        /\ Index(PsnInc(wr_table[m_wr_table.qpn])) \in Nat
    <3>1. wr_table[m_wr_table.qpn] \in Psn
      BY <2>1 DEF OrderInv, TypeOK
    <3>2. PsnInc(wr_table[m_wr_table.qpn]) \in Psn
      BY <3>1, PsnSteps
    <3> QED BY <2>1, <3>2, IndexIs DEF Psn
  <2>3. Index(PsnInc(wr_table[m_wr_table.qpn])) <= Index(m_wr_table.psn)
    BY <2>1 DEF OrderInv, TableBehind
  <2> QED BY <2>2, <2>3
<1> QED BY OrderInit, OrderStep, <1>1, PTL DEF Spec

-----------------------------------------------------------------------------
(* The headers.                                                            *)

\* The packets under way stay the last ones the producer numbered.
LEMMA ReachEdge ==
    ASSUME TypeOK, ReadyMeansFree, Numbered, WithinReach, NEW cm \in CmInputs,
           NEW pkt \in Offers \cup {NoPkt}, NEW take \in TakeInputs, NEW done \in DoneInputs,
           Edge(pkt, cm, take, done)
    PROVE  WithinReach'
<1>a. /\ WriteTypes /\ EdgeInputs(pkt, done, cm, None) /\ WriteEdge(pkt, take, done, cm, None)
      /\ pkt \in Packets \cup {NoPkt} /\ (done # "NONE" => dma_busy # <<>>)
  BY EdgeIs, InputTypes
<1>1. /\ Descriptors \in Seq(Packets)
      /\ Moved(Descriptors, Descriptors', done # "NONE", Accepts(pkt), pkt)
  BY <1>a, TakeType, DescriptorsEdge
<1>2. /\ Accepts(pkt) => pkt \in Packets /\ pkt.psn = np[pkt.qpn]
      /\ \A q \in QPs : /\ Index(np[q]) \in Nat /\ Index(np'[q]) \in Nat
                        /\ np'[q] = np[q] \/ (Accepts(pkt) /\ pkt.qpn = q)
                        /\ Accepts(pkt) /\ pkt.qpn = q => Index(np'[q]) = Index(np[q]) + 1
  BY <1>a, NumbersEdge
<1>3. PICK d \in {0, 1} :
        /\ Len(Descriptors') = Len(Descriptors) - d + (IF Accepts(pkt) THEN 1 ELSE 0)
        /\ d <= Len(Descriptors)
        /\ \A i \in 1..(Len(Descriptors) - d) : Descriptors'[i] = Descriptors[i + d]
        /\ Accepts(pkt) => Descriptors'[Len(Descriptors) - d + 1] = pkt
  BY <1>1 DEF Moved
<1> DEFINE L == Len(Descriptors)
           LP == Len(Descriptors')
           D(k) == Descriptors[k]
           DP(k) == Descriptors'[k]
<1>4. L \in Nat /\ \A k \in 1..L : D(k) \in Packets
  BY <1>1, LenProperties, ElementOfSeq
<1>5. \A k \in 1..L : D(k).qpn \in QPs /\ Index(D(k).psn) \in Nat
  BY <1>4, IndexIs DEF Packets, Psn
<1>6. \A k \in 1..L : Index(np[D(k).qpn]) <= Index(D(k).psn) + L - k + 1
  BY DEF WithinReach
<1>7. SUFFICES ASSUME NEW i \in 1..LP
               PROVE  Index(np'[DP(i).qpn]) <= Index(DP(i).psn) + LP - i + 1
  BY DEF WithinReach, Index, PsnDist
<1>8. CASE i <= L - d
  <2>1. DP(i) = D(i + d) /\ i + d \in 1..L
    BY <1>3, <1>4, <1>8
  <2>2. LP - i + 1 = L - (i + d) + 1 + (IF Accepts(pkt) THEN 1 ELSE 0) /\ LP \in Int
    <3> HIDE DEF D, DP
    <3> DEFINE e == IF Accepts(pkt) THEN 1 ELSE 0
    <3>1. LP = L - d + e /\ e \in Int /\ L \in Int
      BY <1>3, <1>4
    <3> HIDE DEF e, L, LP
    <3>2. LP - i + 1 = L - (i + d) + 1 + e /\ LP \in Int
      BY <3>1
    <3> QED BY <3>2 DEF e
  <2> DEFINE x == D(i + d)
  <2>3. Index(np[x.qpn]) <= Index(x.psn) + L - (i + d) + 1
    BY <1>6, <2>1
  <2>4. x.qpn \in QPs /\ Index(x.psn) \in Nat
    BY <1>5, <2>1
  <2> HIDE DEF x, L, LP, D, DP
  <2>5. Index(np'[x.qpn]) <= Index(np[x.qpn]) + (IF Accepts(pkt) THEN 1 ELSE 0)
    BY <1>2, <2>4
  <2>6. Index(np'[x.qpn]) <= Index(x.psn) + LP - i + 1
    BY <1>2, <1>4, <2>2, <2>3, <2>4, <2>5
  <2> QED BY <2>1, <2>6 DEF x
<1>9. CASE ~(i <= L - d)
  <2>1. Accepts(pkt) /\ i = L - d + 1 /\ LP = i /\ DP(i) = pkt
    BY <1>3, <1>4, <1>9
  <2>2. Index(np'[pkt.qpn]) = Index(pkt.psn) + 1 /\ Index(pkt.psn) \in Nat
    BY <1>2, <2>1 DEF Packets
  <2> QED BY <2>1, <2>2
<1> QED BY <1>8, <1>9

\* The header that is written takes no slot of a packet still under way.
LEMMA SlotsApart ==
    ASSUME DMA_OUTSTANDING + DESC_DEPTH < HDR_SLOTS, PSN_MOD % HDR_SLOTS = 0,
           TypeOK, Aligned, EntriesOrdered, WithinReach, dma_desc # NoPkt,
           NEW i \in 1..Len(dma_busy \o desc_fifo),
           Descriptors[i].qpn = dma_desc.qpn
    PROVE  HdrSlotOf(Descriptors[i].psn) # HdrSlotOf(dma_desc.psn)
<1> DEFINE n == Len(dma_busy \o desc_fifo)
           r == Descriptors[i].psn
           p == dma_desc.psn
<1>1. /\ n \in Nat /\ Len(Descriptors) = n + 1 /\ i \in 1..Len(Descriptors)
      /\ Descriptors[n + 1] = dma_desc
  BY ChainFront, SameTypes
<1>2. /\ \A j, k \in 1..Len(Descriptors) : j < k => Before(Descriptors[j], Descriptors[k])
      /\ \A k \in 1..Len(Descriptors) : Descriptors[k] \in Pending
  BY DescriptorsOrdered, SameTypes DEF Aligned
<1>a. Descriptors[i] \in Packets /\ dma_desc \in Packets
  BY <1>1, DescriptorsOrdered, SameTypes, ElementOfSeq DEF TypeOK, Aligned
<1> HIDE DEF n
<1>3. n + 1 \in 1..Len(Descriptors) /\ i < n + 1
  BY <1>1 DEF n
<1>4. Index(r) < Index(p)
  <2>1. Before(Descriptors[i], dma_desc)
    BY <1>1, <1>2, <1>3
  <2> QED BY <2>1 DEF Before
<1>5. Index(p) < Index(np[dma_desc.qpn])
  BY <1>1, <1>2, <1>3 DEF EntriesOrdered
<1>6. Index(np[dma_desc.qpn]) <= Index(r) + Len(Descriptors) - i + 1
  BY <1>1 DEF WithinReach
<1>7. r \in Psn /\ p \in Psn /\ np[dma_desc.qpn] \in Psn
  BY <1>a DEF Packets, TypeOK
<1>8. Index(r) \in Nat /\ Index(p) \in Nat /\ Index(np[dma_desc.qpn]) \in Nat
  <2>1. Index(r) \in Psn /\ Index(p) \in Psn /\ Index(np[dma_desc.qpn]) \in Psn
    BY ONLY <1>7, IndexIs
  <2> QED BY <2>1 DEF Psn
<1>9. Len(Descriptors) \in Nat /\ Len(Descriptors) <= HDR_SLOTS
  BY FewUnderWay, EnvAssumption, WriteAssumption, PsnAssumption DEF Aligned
<1> HIDE DEF r, p
<1>10. Index(p) - Index(r) < HDR_SLOTS
  BY <1>1, <1>4, <1>5, <1>6, <1>8, <1>9, WriteAssumption, PsnAssumption
<1>11. p % HDR_SLOTS # r % HDR_SLOTS
  BY <1>4, <1>7, <1>10, DistinctMod, WriteAssumption
<1> QED BY <1>11 DEF HdrSlotOf, r, p

\* One edge keeps the headers of the packets under way, and of the one announced.
LEMMA HeadersEdge ==
    ASSUME DMA_OUTSTANDING + DESC_DEPTH < HDR_SLOTS, PSN_MOD % HDR_SLOTS = 0,
           TypeOK, ReadyMeansFree, Aligned, EntriesOrdered, WithinReach, HeadersHeld,
           NEW cm \in CmInputs, NEW pkt \in Offers \cup {NoPkt}, NEW take \in TakeInputs,
           NEW done \in DoneInputs, Edge(pkt, cm, take, done)
    PROVE  HeadersHeld' /\ AnnouncedHeader'
<1> DEFINE chain == dma_busy \o desc_fifo
           Held(x) == hdr_ram'[x.qpn][HdrSlotOf(x.psn)] = x.psn
<1>a. /\ WriteTypes /\ EdgeInputs(pkt, done, cm, None) /\ WriteEdge(pkt, take, done, cm, None)
      /\ pkt \in Packets \cup {NoPkt} /\ (done # "NONE" => dma_busy # <<>>)
  BY EdgeIs, InputTypes
<1>1. hdr_ram' = IF dma_desc = NoPkt THEN hdr_ram
                 ELSE [hdr_ram EXCEPT ![dma_desc.qpn][HdrSlotOf(dma_desc.psn)] = dma_desc.psn]
  BY DEF Edge, WriteEdge, WriteStep, WriteFsm
<1>2. /\ chain \in Seq(Packets) /\ Len(chain) \in Nat
      /\ \A i \in 1..Len(chain) : chain[i] = Descriptors[i]
  BY <1>a, ChainFront
<1>3. \A x \in Packets : x.qpn \in QPs /\ HdrSlotOf(x.psn) \in 0..(HDR_SLOTS - 1)
  BY PsnSteps DEF Packets
<1>4. dma_desc # NoPkt => dma_desc \in Packets
  BY DEF TypeOK
<1>5. \A i \in 1..Len(chain) : Held(chain[i])
  <2> SUFFICES ASSUME NEW i \in 1..Len(chain) PROVE Held(chain[i])
    OBVIOUS
  <2> DEFINE x == chain[i]
  <2>1. x \in Packets /\ x = Descriptors[i]
    BY <1>2, ElementOfSeq
  <2>2. hdr_ram[x.qpn][HdrSlotOf(x.psn)] = x.psn
    BY DEF HeadersHeld, ItemsOf
  <2>3. dma_desc # NoPkt /\ x.qpn = dma_desc.qpn => HdrSlotOf(x.psn) # HdrSlotOf(dma_desc.psn)
    BY <2>1, SlotsApart
  <2> HIDE DEF x
  <2>4. Held(x)
    BY <1>1, <1>3, <1>4, <2>1, <2>2, <2>3 DEF TypeOK
  <2> QED BY <2>4 DEF x
<1>6. dma_desc # NoPkt => Held(dma_desc)
  BY <1>1, <1>3, <1>4 DEF TypeOK
<1>7. Moved(chain, dma_busy' \o desc_fifo', done # "NONE", dma_desc # NoPkt /\ DescReady, dma_desc)
  BY <1>a, TakeType, DescriptorsEdge
<1> HIDE DEF Held, chain
<1>8. HeadersHeld'
  <2>1. PICK d \in {0, 1} :
          /\ Len(dma_busy' \o desc_fifo') =
               Len(chain) - d + (IF dma_desc # NoPkt /\ DescReady THEN 1 ELSE 0)
          /\ d <= Len(chain)
          /\ \A i \in 1..(Len(chain) - d) : (dma_busy' \o desc_fifo')[i] = chain[i + d]
          /\ dma_desc # NoPkt /\ DescReady =>
               (dma_busy' \o desc_fifo')[Len(chain) - d + 1] = dma_desc
    BY <1>7 DEF Moved
  <2>2. SUFFICES ASSUME NEW i \in 1..Len(dma_busy' \o desc_fifo')
                 PROVE  Held((dma_busy' \o desc_fifo')[i])
    BY DEF HeadersHeld, ItemsOf, Held, HdrSlotOf
  <2>3. CASE i <= Len(chain) - d
    <3>1. i \in 1..(Len(chain) - d) /\ i + d \in 1..Len(chain)
      BY <1>2, <2>1, <2>3
    <3> QED BY <1>5, <2>1, <3>1
  <2>4. CASE ~(i <= Len(chain) - d)
    <3>1. dma_desc # NoPkt /\ DescReady /\ i = Len(chain) - d + 1
      BY <1>2, <2>1, <2>4
    <3> QED BY <1>6, <2>1, <3>1
  <2> QED BY <2>3, <2>4
<1>9. AnnouncedHeader'
  <2> SUFFICES ASSUME m_wr_table'.we
               PROVE  hdr_ram'[m_wr_table'.qpn][HdrSlotOf(m_wr_table'.psn)] = m_wr_table'.psn
    BY DEF AnnouncedHeader, HdrSlotOf
  <2>1. entry_fifo # <<>> /\ m_wr_table' = Write(Head(entry_fifo).qpn, Head(entry_fifo).psn)
    BY <1>a, TakeType, EntryFifoEdge
  <2>2. dma_busy # <<>>
    <3>1. done # "NONE"
      BY DEF Edge, WriteEdge, WriteStep, Announce, NoWrite
    <3> QED BY <1>a, <3>1
  <2>3. Head(entry_fifo) = chain[1] /\ 1 \in 1..Len(chain)
    <3>1. Head(entry_fifo) = Head(dma_busy)
      BY <1>a, <2>1, <2>2, StatusMatches DEF Aligned
    <3>2. chain # <<>> /\ Head(chain) = Head(dma_busy)
      BY <2>2, ConcatHeadTail DEF chain, TypeOK
    <3> QED BY <1>2, <3>1, <3>2, EmptySeq
  <2>4. Held(Head(entry_fifo))
    BY <1>5, <2>3
  <2> QED BY <2>1, <2>4 DEF Held, Write
<1> QED BY <1>8, <1>9

\* The whole invariant holds after reset.
LEMMA InvInit == Init => Inv
<1> SUFFICES ASSUME Init PROVE Inv
  OBVIOUS
<1>1. Descriptors = <<>> /\ dma_busy \o desc_fifo = <<>>
  <2>1. <<>> \o <<>> = <<>>
    BY ConcatEmptySeq, EmptySeq
  <2> QED BY <2>1 DEF Init, WriteInit, Descriptors, Registered
<1>2. WithinReach
  BY <1>1, EmptySeq DEF WithinReach
<1>3. HeadersHeld
  <2>1. ItemsOf(<<>>) = {}
    BY DEF ItemsOf
  <2> QED BY <1>1, <2>1 DEF HeadersHeld
<1>4. AnnouncedHeader
  BY DEF Init, WriteInit, NoWrite, AnnouncedHeader
<1> QED BY <1>2, <1>3, <1>4, ChainInit, OrderInit DEF Inv

\* And every clock edge keeps it.
LEMMA InvStep ==
    ASSUME ~StaleProducer, DMA_OUTSTANDING + DESC_DEPTH < ENTRY_DEPTH,
           DMA_OUTSTANDING + DESC_DEPTH < HDR_SLOTS, PSN_MOD % HDR_SLOTS = 0, Inv, [Next]_vars
    PROVE  Inv'
<1> USE DEF Inv
<1>1. ChainInv' /\ OrderInv'
  BY ChainStep, OrderStep
<1>2. CASE Next
  <2>0. TypeOK /\ ReadyMeansFree /\ Aligned /\ EntriesOrdered /\ Numbered
    BY DEF ChainInv, OrderInv
  <2>1. PICK pkt \in Offers \cup {NoPkt}, cm \in CmInputs, take \in TakeInputs, done \in DoneInputs :
          Edge(pkt, cm, take, done)
    BY <1>2, <2>0, NextIsEdge
  <2>2. WithinReach'
    BY <2>0, <2>1, ReachEdge
  <2>3. HeadersHeld' /\ AnnouncedHeader'
    BY <2>0, <2>1, HeadersEdge
  <2> QED BY <1>1, <2>2, <2>3
<1>3. CASE UNCHANGED vars
  <2>1. UNCHANGED <<writeVars, np>>
    BY <1>3 DEF vars
  <2>2. Descriptors' = Descriptors
    BY <2>1 DEF writeVars, Descriptors, Registered
  <2>3. WithinReach'
    BY <2>1, <2>2 DEF WithinReach, Index, PsnDist
  <2>4. HeadersHeld' /\ AnnouncedHeader'
    BY <2>1 DEF writeVars, HeadersHeld, ItemsOf, AnnouncedHeader, HdrSlotOf
  <2> QED BY <1>1, <2>3, <2>4
<1> QED BY <1>2, <1>3

\* Inv holds in every state if the producer stops at a close, the entry FIFO and
\* the header RAM each have more places than the descriptor FIFO and the DMA engine
\* together, and the header RAM divides the PSN space (in the code both are powers
\* of two).
THEOREM InvHolds ==
    ASSUME ~StaleProducer, DMA_OUTSTANDING + DESC_DEPTH < ENTRY_DEPTH,
           DMA_OUTSTANDING + DESC_DEPTH < HDR_SLOTS, PSN_MOD % HDR_SLOTS = 0
    PROVE  Spec => []Inv
<1>1. Inv /\ [Next]_vars => Inv'
  BY InvStep
<1> QED BY InvInit, <1>1, PTL DEF Spec

\* Under these conditions the header RAM still holds the header of a packet when it
\* is announced: no later packet of the queue pair has been given its slot, also
\* where the PSN wraps.
THEOREM AnnouncedWithHeader ==
    ASSUME ~StaleProducer, DMA_OUTSTANDING + DESC_DEPTH < ENTRY_DEPTH,
           DMA_OUTSTANDING + DESC_DEPTH < HDR_SLOTS, PSN_MOD % HDR_SLOTS = 0
    PROVE  Spec => []AnnouncedHeader
<1>1. Inv => AnnouncedHeader
  BY DEF Inv
<1> QED BY InvHolds, <1>1, PTL

=============================================================================
