------------------------------ MODULE RtrWrite ------------------------------
(***************************************************************************)
(* RoCE_rtr_write_module: a packet is stored in the retransmission buffer  *)
(* (header RAM and payload memory) and, once the DMA engine reports that   *)
(* the payload has been written, announced in wr_table.                    *)
(*                                                                         *)
(* The descriptor handed to the DMA engine and the wr_table entry that     *)
(* waits for its completion travel in two separate FIFOs.  Nothing but     *)
(* their order ties them together.                                         *)
(***************************************************************************)
EXTENDS RtrTables

CONSTANTS
    DESC_DEPTH,     \* dma_write_command_fifo (8)
    ENTRY_DEPTH,    \* write_table_entry_fifo (8)
    HDR_SLOTS       \* headers of one queue pair in the header RAM

ASSUME WriteAssumption ==
    DESC_DEPTH \in Nat \ {0} /\ ENTRY_DEPTH \in Nat \ {0} /\ HDR_SLOTS \in 1..PSN_MOD

VARIABLES
    w_state,        \* state_reg of the write module
    bth_ready,      \* s_roce_bth_ready_reg
    dma_desc,       \* dma_write_desc_{valid,addr}_reg
    wr_entry,       \* wr_table_{valid,qpn,psn}_reg
    desc_fifo, entry_fifo,
    dma_busy,       \* descriptors the DMA engine has taken and not completed
    hdr_ram, mem,   \* the PSN stored in each slot of each queue pair
    qp_flush        \* qp_flush_reg

writeVars == <<w_state, bth_ready, dma_desc, wr_entry, desc_fifo, entry_fifo,
               dma_busy, hdr_ram, mem, qp_flush, m_wr_table>>

Packets == [qpn : QPs, psn : Psn]
NoPkt   == [qpn |-> None, psn |-> None]
\* Mutation: an address one bit short.
HdrSlotShort(p) == p % (HDR_SLOTS \div 2)
HdrSlotOf(p) == p % HDR_SLOTS

WriteInit ==
    /\ w_state = "IDLE" /\ bth_ready = FALSE
    /\ dma_desc = NoPkt /\ wr_entry = NoPkt
    /\ desc_fifo = <<>> /\ entry_fifo = <<>> /\ dma_busy = <<>>
    /\ hdr_ram = [q \in QPs |-> [s \in 0..(HDR_SLOTS - 1) |-> None]]
    /\ mem     = [q \in QPs |-> [s \in Slot |-> None]]
    /\ qp_flush = [q \in QPs |-> FALSE]
    /\ m_wr_table = NoWrite

DescReady  == Len(desc_fifo) < DESC_DEPTH
EntryReady == Len(entry_fifo) < ENTRY_DEPTH

\* A header is taken when the FSM is idle, has raised ready, and sees valid.
Accepts(pkt) == w_state = "IDLE" /\ bth_ready /\ pkt # NoPkt

\* Mutation: STATE_DMA_WAIT_READY is never entered.
WriteFsmNoWait(pkt) ==
    /\ bth_ready' = (w_state = "IDLE" /\ ~Accepts(pkt))
    /\ w_state' = "IDLE"
    /\ hdr_ram' = IF dma_desc = NoPkt THEN hdr_ram
                  ELSE [hdr_ram EXCEPT ![dma_desc.qpn][HdrSlotOf(dma_desc.psn)] = dma_desc.psn]

\* The FSM lowers ready for one cycle after each header, and waits for the
\* descriptor FIFO when it was full at that moment.  The header reaches the RAM
\* from a register, one edge after it was taken: dma_desc then still holds its
\* packet (to write it again while the descriptor waits changes nothing).
WriteFsm(pkt) ==
    /\ bth_ready' = (w_state = "IDLE" /\ ~Accepts(pkt))
    /\ w_state' = IF (Accepts(pkt) \/ w_state = "DMA_WAIT_READY") /\ ~DescReady
                    THEN "DMA_WAIT_READY" ELSE "IDLE"
    /\ hdr_ram' = IF dma_desc = NoPkt THEN hdr_ram
                  ELSE [hdr_ram EXCEPT ![dma_desc.qpn][HdrSlotOf(dma_desc.psn)] = dma_desc.psn]

\* Mutation: the entry stays valid after the FIFO has taken it.
TableEntryStuck(pkt) ==
    wr_entry' = IF Accepts(pkt) THEN IF qp_flush[pkt.qpn] THEN NoPkt ELSE pkt ELSE wr_entry

\* Both registers hold their value until the FIFO takes it, but a new header
\* overwrites them.  A flushed queue pair queues a descriptor and no entry.
Descriptor(pkt) ==
    dma_desc' = IF Accepts(pkt) THEN pkt ELSE IF DescReady THEN NoPkt ELSE dma_desc

TableEntry(pkt) ==
    wr_entry' = IF Accepts(pkt) THEN IF qp_flush[pkt.qpn] THEN NoPkt ELSE pkt
                ELSE IF EntryReady THEN NoPkt ELSE wr_entry

Push(valid, item) == IF valid THEN <<item>> ELSE <<>>
Pop(fifo, go)     == IF go /\ fifo # <<>> THEN Tail(fifo) ELSE fifo

\* The DMA engine takes descriptors and completes them in order.  done is the
\* status of this cycle: "NONE", "OK" or "ERROR".
DmaEngine(take, done) ==
    /\ desc_fifo' = Pop(desc_fifo, take) \o Push(dma_desc # NoPkt /\ DescReady, dma_desc)
    /\ dma_busy' = Pop(dma_busy, done # "NONE") \o
                   Push(take /\ desc_fifo # <<>>, IF desc_fifo = <<>> THEN NoPkt ELSE Head(desc_fifo))
    /\ mem' = IF done = "NONE" THEN mem
              ELSE [mem EXCEPT ![Head(dma_busy).qpn][SlotOf(Head(dma_busy).psn)] =
                                 IF done = "OK" THEN Head(dma_busy).psn ELSE None]

\* Mutation: an error pops no entry.
AnnounceKeepsOnError(done) ==
    /\ entry_fifo' = Pop(entry_fifo, done = "OK") \o
                     Push(wr_entry # NoPkt /\ EntryReady, wr_entry)
    /\ m_wr_table' = IF done = "OK" /\ entry_fifo # <<>> /\ ~qp_flush[Head(entry_fifo).qpn]
                       THEN Write(Head(entry_fifo).qpn, Head(entry_fifo).psn)
                       ELSE NoWrite

\* Every status pops an entry; a successful one announces it unless flushed.
Announce(done) ==
    /\ entry_fifo' = Pop(entry_fifo, done # "NONE") \o
                     Push(wr_entry # NoPkt /\ EntryReady, wr_entry)
    /\ m_wr_table' = IF done = "OK" /\ entry_fifo # <<>> /\ ~qp_flush[Head(entry_fifo).qpn]
                       THEN Write(Head(entry_fifo).qpn, Head(entry_fifo).psn)
                       ELSE NoWrite

\* The OPEN branch indexes with the close's queue pair number, which the wiring
\* makes the OPEN's own whenever no close is valid.
Flush(cm, close) ==
    qp_flush' = IF CloseQpn(cm, close) # None
                  THEN [qp_flush EXCEPT ![CloseQpn(cm, close)] = TRUE]
                ELSE IF cm.req = "OPEN" THEN [qp_flush EXCEPT ![cm.qpn] = FALSE]
                ELSE qp_flush

WriteStep(pkt, take, done, cm, close) ==
    /\ WriteFsm(pkt)
    /\ Descriptor(pkt)
    /\ TableEntry(pkt)
    /\ DmaEngine(take, done)
    /\ Announce(done)
    /\ Flush(cm, close)

=============================================================================
