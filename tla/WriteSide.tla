----------------------------- MODULE WriteSide ------------------------------
(***************************************************************************)
(* The write side of the retransmission engine by itself: the write module *)
(* and wr_table, with the read module's half of the tables at rest.  Every *)
(* step is one clock edge.                                                 *)
(***************************************************************************)
EXTENDS WriteInv

idle == <<m_rd_table, rx, aeth_ready>>
vars == <<tableVars, writeVars, conn, np, idle>>

Init ==
    /\ TablesInit /\ WriteInit /\ EnvInit
    /\ m_rd_table = NoWrite /\ rx = NoAck /\ aeth_ready = FALSE

CmInputs == {CmNone} \cup ClosePulses \cup
    {CmOpen(q, OpenPsn) : q \in {a \in ActiveQPs : conn[a] = "none"}}

\* A packet of any queue pair whose producer has one: the write side counts nothing.
Offers == {NextPacket(q) : q \in {s \in QPs : Sending(s)}}

Edge(pkt, cm, take, done) == WriteEdge(pkt, take, done, cm, None) /\ UNCHANGED idle

\* An edge at which a packet is at the input, and one at which there is none.
Offered == \E pkt \in Offers, cm \in CmInputs, take \in TakeInputs, done \in DoneInputs :
             Edge(pkt, cm, take, done)
Idling  == \E cm \in CmInputs, take \in TakeInputs, done \in DoneInputs :
             Edge(NoPkt, cm, take, done)

Next == Offered \/ Idling

Spec == Init /\ [][Next]_vars

-----------------------------------------------------------------------------
(* Properties.                                                             *)

\* Every register, FIFO and memory of the write side holds a value of its range.
TypeOK ==
    /\ wr_table \in [QPs -> Psn] /\ m_table_rst \in WritePort /\ m_wr_table \in WritePort
    /\ w_state \in {"IDLE", "DMA_WAIT_READY"} /\ bth_ready \in BOOLEAN
    /\ dma_desc \in Packets \cup {NoPkt} /\ wr_entry \in Packets \cup {NoPkt}
    /\ desc_fifo \in Seq(Packets) /\ entry_fifo \in Seq(Packets) /\ dma_busy \in Seq(Packets)
    /\ hdr_ram \in [QPs -> [0..(HDR_SLOTS - 1) -> Psn \cup {None}]]
    /\ mem \in [QPs -> [Slot -> Psn \cup {None}]]
    /\ qp_flush \in [QPs -> BOOLEAN]
    /\ conn \in [QPs -> {"none", "open", "closed"}] /\ np \in [QPs -> Psn]

\* A packet is announced in wr_table only when its payload is in the memory:
\* the status of the DMA engine releases the entry of the packet it is about
\* (s_axis_dma_write_desc_status_valid), although two FIFOs separate them.
AnnouncedStored ==
    m_wr_table.we => mem[m_wr_table.qpn][SlotOf(m_wr_table.psn)] = m_wr_table.psn

\* And its header is still in the header RAM, not that of a later packet.
AnnouncedHeader ==
    m_wr_table.we => hdr_ram[m_wr_table.qpn][HdrSlotOf(m_wr_table.psn)] = m_wr_table.psn

\* A descriptor in the output register is never replaced before the FIFO has
\* taken it (STATE_DMA_WAIT_READY, and ready low for a cycle after a header).
DescriptorHeld == [][dma_desc # NoPkt /\ ~DescReady => dma_desc' = dma_desc]_vars

\* wr_table follows the order of the packets: an announcement never moves it back.
AnnouncedInOrder ==
    m_wr_table.we /\ conn[m_wr_table.qpn] = "open" /\ ~m_table_rst.we =>
        PsnDist(m_wr_table.psn, OpenPsn) >= PsnDist(PsnInc(wr_table[m_wr_table.qpn]), OpenPsn)

-----------------------------------------------------------------------------
(* What makes them inductive.                                              *)

\* The descriptor chain is limited by its own two FIFOs and by nothing else.
FifosFit == Len(dma_busy) <= DMA_OUTSTANDING /\ Len(desc_fifo) <= DESC_DEPTH

\* The entry chain agrees with it.
Aligned == FifosFit /\ Chained

\* The two chains carry the same packets, so that a status meets its own entry.
ChainInv == TypeOK /\ ReadyMeansFree /\ FlushedClosed /\ Aligned /\ AnnouncedStored

\* Announcements are made in the order of the packets.
OrderInv == TypeOK /\ EntriesOrdered /\ Numbered /\ TableBehind

\* The packets under way are the last ones the producer numbered.
WithinReach ==
    \A i \in 1..Len(Descriptors) :
        Index(np[Descriptors[i].qpn]) <= Index(Descriptors[i].psn) + Len(Descriptors) - i + 1

\* The header of every packet that left the descriptor register is in its slot.
HeadersHeld == \A x \in ItemsOf(dma_busy \o desc_fifo) : hdr_ram[x.qpn][HdrSlotOf(x.psn)] = x.psn

\* Both, and the headers of the packets under way are where they belong.
Inv == ChainInv /\ OrderInv /\ WithinReach /\ HeadersHeld /\ AnnouncedHeader

=============================================================================
