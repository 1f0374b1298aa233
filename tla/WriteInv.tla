------------------------------ MODULE WriteInv ------------------------------
(***************************************************************************)
(* What one clock edge of the write side is, whatever drives it, and what  *)
(* such edges keep: the two FIFO chains carry the same packets, in the     *)
(* order in which the producer numbered them, and wr_table follows.  The   *)
(* write side by itself and the whole engine share these invariants.       *)
(***************************************************************************)
EXTENDS RtrEnv

\* The write side, the tables and the producer advance together.
WriteEdge(pkt, take, done, cm, close) ==
    /\ WriteStep(pkt, take, done, cm, close)
    /\ TablesStep(cm, close)
    /\ Producer(cm, close, pkt)

Registered(reg) == IF reg = NoPkt THEN <<>> ELSE <<reg>>

\* The packets whose payload is on its way to the memory, oldest first.
Descriptors == dma_busy \o desc_fifo \o Registered(dma_desc)

\* ready is up only while the descriptor register is free, and a descriptor
\* that found the FIFO full keeps the FSM in DMA_WAIT_READY.
ReadyMeansFree ==
    /\ w_state = "IDLE" /\ bth_ready => dma_desc = NoPkt
    /\ w_state = "IDLE" /\ ~bth_ready /\ dma_desc # NoPkt => DescReady
    /\ w_state = "DMA_WAIT_READY" => ~bth_ready /\ dma_desc # NoPkt

\* Only a closed queue pair is flushed.
FlushedClosed == \A q \in QPs : qp_flush[q] => conn[q] = "closed"

\* The two FIFO chains hold the same packets in the same order.
Chained ==
    IF wr_entry = NoPkt THEN entry_fifo = Descriptors
    ELSE dma_desc = wr_entry /\ entry_fifo = dma_busy \o desc_fifo

\* The number of a packet in its connection.
Index(p) == PsnDist(p, OpenPsn)

\* Two packets of one connection, the first of which came first.
Before(x, y) == x.qpn = y.qpn => Index(x.psn) < Index(y.psn)

\* The packets in a FIFO.
ItemsOf(s) == {s[i] : i \in 1..Len(s)}

\* The entries that wait for a status.
Pending == ItemsOf(entry_fifo) \cup ItemsOf(Registered(wr_entry))

\* The entries of a queue pair keep the order in which the producer numbered
\* them, all before its next number.
EntriesOrdered ==
    /\ \A i, j \in 1..Len(entry_fifo) : i < j => Before(entry_fifo[i], entry_fifo[j])
    /\ wr_entry # NoPkt => \A x \in ItemsOf(entry_fifo) : Before(x, wr_entry)
    /\ m_wr_table.we => \A x \in Pending : Before(m_wr_table, x)
    /\ \A x \in Pending : Index(x.psn) < Index(np[x.qpn])
    /\ m_wr_table.we => Index(m_wr_table.psn) < Index(np[m_wr_table.qpn])

\* The producer numbers at most MaxPkts packets, none before the OPEN.
Numbered == \A q \in QPs : Index(np[q]) <= MaxPkts /\ (conn[q] = "none" => np[q] = OpenPsn)

\* The OPEN resets wr_table before the first packet is numbered; from then on it
\* is behind everything that is not announced.
TableBehind ==
    \A q \in QPs : conn[q] = "open" =>
        IF m_table_rst.we /\ m_table_rst.qpn = q
        THEN np[q] = OpenPsn /\ m_table_rst.psn = PsnDec(OpenPsn)
        ELSE LET next == Index(PsnInc(wr_table[q]))
             IN  /\ next <= Index(np[q])
                 /\ \A x \in Pending : x.qpn = q => next <= Index(x.psn)
                 /\ m_wr_table.we /\ m_wr_table.qpn = q => next <= Index(m_wr_table.psn)

=============================================================================
