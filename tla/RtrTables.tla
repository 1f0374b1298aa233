----------------------------- MODULE RtrTables ------------------------------
(***************************************************************************)
(* The three PSN tables of RoCE_retransmission_module_v2 and the registered *)
(* write that re-initialises all three when a queue pair closes or opens.  *)
(*                                                                         *)
(*   wr_table   last PSN whose payload is in the retransmission buffer     *)
(*   rd_table   last PSN handed to the output                              *)
(*   cpl_table  last PSN acknowledged by the remote side                   *)
(*                                                                         *)
(* Each table has one write port.  A reset write takes the port, whatever  *)
(* queue pair it addresses, so a write of the data path in the same clock  *)
(* cycle is lost.                                                          *)
(***************************************************************************)
EXTENDS RoceParams

VARIABLES
    wr_table, rd_table, cpl_table,
    m_table_rst,    \* m_{wr,rd,cpl}_table_{we,qpn,psn}_rst
    m_rd_table,     \* m_rd_table_{we,qpn,psn}: registered write of the read FSM
    m_wr_table,     \* m_wr_table_{valid,qpn,psn}: registered write of the write side
    rx,             \* BTH/AETH presented by the receive path, valid unless NoAck
    aeth_ready      \* s_roce_rx_aeth_ready_reg

tableVars == <<wr_table, rd_table, cpl_table, m_table_rst>>

WritePort == [we : BOOLEAN, qpn : QPs, psn : Psn]
Write(q, p) == [we |-> TRUE, qpn |-> q, psn |-> p]
NoWrite     == [we |-> FALSE, qpn |-> 0, psn |-> 0]

\* What the AETH of an acknowledge packet says (syndrome[6:5] and [4:0]).
Syndromes == {"ACK", "RNR_NAK", "RESERVED", "PSN_SEQ_NAK", "FATAL_NAK"}
Acks      == [qpn : QPs, psn : Psn, syndrome : Syndromes]
NoAck     == [qpn |-> None, psn |-> None, syndrome |-> "NONE"]

\* Clocked inputs.  cm is the connection manager's one-cycle pulse.
CmNone        == [req |-> "NONE",  qpn |-> None, psn |-> None]
CmOpen(q, p)  == [req |-> "OPEN",  qpn |-> q, psn |-> p]
CmClose(q)    == [req |-> "CLOSE", qpn |-> q, psn |-> None]

TablesInit ==
    /\ wr_table  = [q \in QPs |-> PSN_RESET]
    /\ rd_table  = [q \in QPs |-> PSN_RESET]
    /\ cpl_table = [q \in QPs |-> PSN_RESET]
    /\ m_table_rst = NoWrite

\* One clock edge of a table: the reset write wins the port.
TableWrite(table, w) ==
    IF m_table_rst.we THEN [table EXCEPT ![m_table_rst.qpn] = m_table_rst.psn]
    ELSE IF w.we      THEN [table EXCEPT ![w.qpn] = w.psn]
    ELSE table

\* An acknowledge is consumed when valid and ready meet; only a positive one
\* moves cpl_table.  Its PSN is stored as it is, whatever the table held.
AckAccepted == rx # NoAck /\ aeth_ready
CplWrite    == IF AckAccepted /\ rx.syndrome = "ACK"
                 THEN Write(rx.qpn, rx.psn) ELSE NoWrite

\* The close seen by the tables and by the write side: the handshake of the
\* read module's own close request, or the connection manager's request.
\* close is the queue pair of the handshake in this cycle, or None.
CloseQpn(cm, close) ==
    IF close # None THEN close ELSE IF cm.req = "CLOSE" THEN cm.qpn ELSE None

\* Mutation: an OPEN stores its first PSN instead of the one before it.
TableResetAtFirst(cm, close) ==
    IF CloseQpn(cm, close) # None THEN Write(CloseQpn(cm, close), PSN_RESET)
    ELSE IF cm.req = "OPEN"       THEN Write(cm.qpn, cm.psn)
    ELSE NoWrite

TableReset(cm, close) ==
    IF CloseQpn(cm, close) # None THEN Write(CloseQpn(cm, close), PSN_RESET)
    ELSE IF cm.req = "OPEN"       THEN Write(cm.qpn, PsnDec(cm.psn))
    ELSE NoWrite

TablesStep(cm, close) ==
    /\ wr_table'  = TableWrite(wr_table, m_wr_table)
    /\ rd_table'  = TableWrite(rd_table, m_rd_table)
    /\ cpl_table' = TableWrite(cpl_table, CplWrite)
    /\ m_table_rst' = TableReset(cm, close)

=============================================================================
