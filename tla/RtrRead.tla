------------------------------- MODULE RtrRead ------------------------------
(***************************************************************************)
(* RoCE_rtr_read_module: the scheduler of the retransmission engine.       *)
(*                                                                         *)
(* Two machines share its registers and advance on every clock edge.  The  *)
(* FSM visits the queue pairs round robin, reads the three tables, and     *)
(* launches the next packet or rewinds rd_table.  The sweep visits the     *)
(* queue pairs with a pointer of its own, decodes the acknowledge at the   *)
(* input when it is addressed to the queue pair under the pointer, and     *)
(* runs the retransmission and RNR timers.                                 *)
(*                                                                         *)
(* An operator of this module describes one clock edge of one machine.     *)
(* Both read only unprimed registers, as non-blocking assignments do.      *)
(***************************************************************************)
EXTENDS RtrTables

VARIABLES
    state, state_cached,
    rr_qpn,                        \* round_robin_qpn_reg
    hdr_wait,                      \* cycles until hdr_ram_data_valid
    s_wr, s_rd, s_cpl,             \* the values read from the tables
    dma_rd_cmd_sent,
    close_req,                     \* m_qp_close_{valid,loc_qpn}_reg, None if not valid
    qp_closed, qp_started_retrans, qp_transmission_complete, stall_qp,
    retry_counter, rnr_retry_counter, retry_psn_mark, rnr_retry_psn_mark,
    rr_qpn_timeout,                \* round_robin_qpn_timeout_reg
    tmr                            \* per queue pair, the registers of the sweep

tableRegs == <<s_wr, s_rd, s_cpl>>
retryVars == <<retry_counter, rnr_retry_counter, retry_psn_mark, rnr_retry_psn_mark>>
qpFlags   == <<qp_closed, qp_started_retrans, qp_transmission_complete, stall_qp>>
fsmVars   == <<state, state_cached, rr_qpn, hdr_wait, dma_rd_cmd_sent, close_req,
               m_rd_table, tableRegs, retryVars, qpFlags>>
readVars  == <<fsmVars, rr_qpn_timeout, tmr, aeth_ready>>

FsmStates == {"CHECK_TIMEOUT", "UPDATE_RD_TABLE", "FETCH_TABLES", "COMPARE", "FETCH_HDR",
              "SEND_HDR", "WAIT_DMA", "CHANGE_QPN", "WAIT_1CLK"}

Counter == 0..(COUNTER_MOD - 1)

Timers == [timed_out : BOOLEAN, psn_error : BOOLEAN, rnr_wait : BOOLEAN,
           rnr_wait_done : BOOLEAN, error : BOOLEAN, psn_nak : Psn,
           timeout_counter : Counter, rnr_counter : Counter]

\* The reset branch leaves timeout_counter alone, so its value at start is
\* whatever the register held: the power-up zero, a value that runs out at
\* once, or a full period.
CountersAtReset == {0, MAX_QPS % COUNTER_MOD, timeout_period}

ReadInit ==
    /\ state = "CHECK_TIMEOUT" /\ state_cached = "CHECK_TIMEOUT"
    /\ rr_qpn = 0 /\ hdr_wait = 0 /\ dma_rd_cmd_sent = FALSE /\ close_req = None
    /\ m_rd_table = NoWrite
    /\ s_wr = PSN_RESET /\ s_rd = PSN_RESET /\ s_cpl = PSN_RESET
    /\ qp_closed = [q \in QPs |-> FALSE]
    /\ qp_started_retrans = [q \in QPs |-> FALSE]
    /\ qp_transmission_complete = [q \in QPs |-> FALSE]
    /\ stall_qp = [q \in QPs |-> FALSE]
    /\ retry_counter = [q \in QPs |-> 0] /\ rnr_retry_counter = [q \in QPs |-> 0]
    /\ retry_psn_mark = [q \in QPs |-> 0] /\ rnr_retry_psn_mark = [q \in QPs |-> 0]
    /\ rr_qpn_timeout = 0 /\ aeth_ready = FALSE
    /\ \E c \in CountersAtReset :
         tmr = [q \in QPs |-> [timed_out |-> FALSE, psn_error |-> FALSE, rnr_wait |-> FALSE,
                               rnr_wait_done |-> FALSE, error |-> FALSE, psn_nak |-> 0,
                               timeout_counter |-> c, rnr_counter |-> 0]]

-----------------------------------------------------------------------------
(* The sweep.  r is the record of the queue pair before the edge, t what   *)
(* the earlier assignments of the same edge have made of it.               *)

\* rnr_wait_done is raised when the RNR timer runs out, and both flags fall
\* once the FSM has started the retransmission.
RnrTimer(q, r) ==
    IF r.rnr_wait /\ ~r.rnr_wait_done
    THEN IF qp_closed[q]
           THEN [r EXCEPT !.rnr_wait = FALSE]
         ELSE IF CounterOut(r.rnr_counter) \/ r.rnr_counter = 0
           THEN [r EXCEPT !.rnr_wait_done = TRUE]
         ELSE [r EXCEPT !.rnr_counter = CounterStep(@)]
    ELSE IF qp_started_retrans[q] /\ r.rnr_wait_done
      THEN [r EXCEPT !.rnr_wait = FALSE, !.rnr_wait_done = FALSE]
    ELSE r

\* Mutation: one RNR attempt too many.
RnrRetryLeftLate(q) == rnr_retry_counter[q] <= rnr_retry_count \/ rnr_retry_count = 7
RnrRetryLeft(q) == rnr_retry_counter[q] < rnr_retry_count \/ rnr_retry_count = 7

OnAck(t) ==
    [t EXCEPT !.timed_out = FALSE, !.psn_error = FALSE, !.rnr_wait = FALSE,
              !.rnr_wait_done = FALSE, !.timeout_counter = timeout_period, !.rnr_counter = 0]

OnRnrNak(q, t) ==
    [t EXCEPT !.timed_out = FALSE, !.psn_error = FALSE, !.rnr_wait_done = FALSE,
              !.psn_nak = rx.psn,
              !.timeout_counter = (RNR_TIMER + timeout_period) % COUNTER_MOD,
              !.rnr_counter = RNR_TIMER,
              !.rnr_wait = RnrRetryLeft(q),
              !.error = @ \/ ~RnrRetryLeft(q)]

\* A sequence error is ignored while an RNR wait is on.  The limit compared
\* here is the largest value of the counter, not retry_count.
OnSeqNak(q, r, t) ==
    IF r.rnr_wait THEN [t EXCEPT !.timed_out = FALSE]
    ELSE IF retry_counter[q] = 7 THEN [t EXCEPT !.timed_out = FALSE, !.error = TRUE]
    ELSE [t EXCEPT !.timed_out = FALSE, !.psn_error = TRUE, !.rnr_wait = FALSE,
                   !.rnr_wait_done = FALSE, !.psn_nak = rx.psn,
                   !.timeout_counter = timeout_period]

OnReserved(t) ==
    [t EXCEPT !.timed_out = FALSE, !.psn_error = FALSE, !.rnr_wait = FALSE,
              !.timeout_counter = CounterStep(@)]

OnResponse(q, r, t) ==
    CASE rx.syndrome = "ACK"         -> OnAck(t)
      [] rx.syndrome = "RNR_NAK"     -> OnRnrNak(q, t)
      [] rx.syndrome = "PSN_SEQ_NAK" -> OnSeqNak(q, r, t)
      [] rx.syndrome = "FATAL_NAK"   -> [t EXCEPT !.timed_out = FALSE, !.error = TRUE]
      [] OTHER                       -> OnReserved(t)

\* Mutation: timed_out is not lowered when the retransmission has started.
RetransTimerSticky(q, r, t) ==
    IF CounterOut(r.timeout_counter)
    THEN [t EXCEPT !.timed_out = TRUE]
    ELSE [t EXCEPT !.timed_out = FALSE,
                   !.timeout_counter = IF qp_transmission_complete[q]
                                         THEN timeout_period ELSE CounterStep(@)]

\* The timer holds its last value while timed_out is up; it is reloaded when
\* the FSM has started the retransmission or nothing is outstanding.
RetransTimer(q, r, t) ==
    IF CounterOut(r.timeout_counter)
    THEN IF qp_started_retrans[q]
           THEN [t EXCEPT !.timeout_counter = timeout_period, !.timed_out = FALSE]
           ELSE [t EXCEPT !.timed_out = TRUE]
    ELSE [t EXCEPT !.timed_out = FALSE,
                   !.timeout_counter = IF qp_transmission_complete[q]
                                         THEN timeout_period ELSE CounterStep(@)]

AfterClose(q, t) ==
    IF qp_closed[q]
      THEN [t EXCEPT !.error = FALSE, !.timed_out = FALSE, !.timeout_counter = timeout_period,
                     !.rnr_wait = FALSE, !.rnr_wait_done = FALSE, !.psn_error = FALSE]
      ELSE t

AfterStart(q, t) == IF qp_started_retrans[q] THEN [t EXCEPT !.psn_error = FALSE] ELSE t

Addressed(q) == rx # NoAck /\ rx.qpn = q

Sweep ==
    LET q == rr_qpn_timeout
        r == tmr[q]
        t == IF Addressed(q) THEN OnResponse(q, r, RnrTimer(q, r))
                             ELSE RetransTimer(q, r, RnrTimer(q, r))
    IN /\ tmr' = [tmr EXCEPT ![q] = AfterStart(q, AfterClose(q, t))]
       /\ aeth_ready' = Addressed(q)
       /\ rr_qpn_timeout' = NextQpn(q)

-----------------------------------------------------------------------------
(* The FSM.                                                                *)

\* An OPEN clears the counters of its queue pair, whatever the FSM assigns.
OpenClears(counter, cm) == IF cm.req = "OPEN" THEN [counter EXCEPT ![cm.qpn] = 0] ELSE counter

\* Frames: what a step leaves alone, up to the OPEN and the close handshake.
KeepRetry(cm) ==
    /\ retry_counter' = OpenClears(retry_counter, cm)
    /\ rnr_retry_counter' = OpenClears(rnr_retry_counter, cm)
    /\ UNCHANGED <<retry_psn_mark, rnr_retry_psn_mark>>
KeepClose(close) == close_req' = IF close # None THEN None ELSE close_req
NoRdWrite        == m_rd_table' = [m_rd_table EXCEPT !.we = FALSE]

GoTo(s)   == state' = s /\ UNCHANGED <<rr_qpn, state_cached>>
NextQp    == state' = "CHECK_TIMEOUT" /\ rr_qpn' = NextQpn(rr_qpn) /\ UNCHANGED state_cached
Via1Clk(s) == state' = "WAIT_1CLK" /\ state_cached' = s /\ UNCHANGED rr_qpn

\* CHECK_TIMEOUT -----------------------------------------------------------

CheckError(cm, close) ==
    /\ state = "CHECK_TIMEOUT" /\ tmr[rr_qpn].error
    /\ close_req' = rr_qpn
    /\ qp_closed' = [qp_closed EXCEPT ![rr_qpn] = TRUE]
    /\ qp_started_retrans' = [qp_started_retrans EXCEPT ![rr_qpn] = FALSE]
    /\ NextQp /\ NoRdWrite /\ KeepRetry(cm)
    /\ UNCHANGED <<qp_transmission_complete, stall_qp, tableRegs, hdr_wait, dma_rd_cmd_sent>>

InRnrWait(q) == tmr[q].rnr_wait /\ ~tmr[q].rnr_wait_done

RetryExhausted(q) == tmr[q].timed_out /\ retry_counter[q] = retry_count

CheckExhausted(cm, close) ==
    /\ state = "CHECK_TIMEOUT" /\ ~tmr[rr_qpn].error /\ ~InRnrWait(rr_qpn)
    /\ RetryExhausted(rr_qpn)
    /\ close_req' = rr_qpn
    /\ qp_closed' = [qp_closed EXCEPT ![rr_qpn] = TRUE]
    /\ qp_started_retrans' = [qp_started_retrans EXCEPT ![rr_qpn] = FALSE]
    /\ retry_psn_mark' = [retry_psn_mark EXCEPT ![rr_qpn] = 0]
    /\ retry_counter' = OpenClears(retry_counter, cm)
    /\ rnr_retry_counter' = OpenClears(rnr_retry_counter, cm)
    /\ Via1Clk("CHANGE_QPN") /\ NoRdWrite
    /\ UNCHANGED <<qp_transmission_complete, stall_qp, tableRegs, hdr_wait, dma_rd_cmd_sent,
                   rnr_retry_psn_mark>>

CheckTimedOut(cm, close) ==
    /\ state = "CHECK_TIMEOUT" /\ ~tmr[rr_qpn].error /\ ~InRnrWait(rr_qpn)
    /\ tmr[rr_qpn].timed_out /\ ~RetryExhausted(rr_qpn)
    /\ Via1Clk("UPDATE_RD_TABLE") /\ NoRdWrite /\ KeepRetry(cm) /\ KeepClose(close)
    /\ UNCHANGED <<qpFlags, tableRegs, hdr_wait, dma_rd_cmd_sent>>

CheckRewind(cm, close) ==
    /\ state = "CHECK_TIMEOUT" /\ ~tmr[rr_qpn].error /\ ~InRnrWait(rr_qpn)
    /\ ~tmr[rr_qpn].timed_out /\ (tmr[rr_qpn].psn_error \/ tmr[rr_qpn].rnr_wait_done)
    /\ GoTo("UPDATE_RD_TABLE") /\ NoRdWrite /\ KeepRetry(cm) /\ KeepClose(close)
    /\ UNCHANGED <<qpFlags, tableRegs, hdr_wait, dma_rd_cmd_sent>>

\* Nothing to repair, or an RNR wait during which only the stall is decided.
CheckClean(cm, close) ==
    /\ state = "CHECK_TIMEOUT" /\ ~tmr[rr_qpn].error
    /\ \/ InRnrWait(rr_qpn)
       \/ ~(tmr[rr_qpn].timed_out \/ tmr[rr_qpn].psn_error \/ tmr[rr_qpn].rnr_wait_done)
    /\ qp_started_retrans' = [qp_started_retrans EXCEPT ![rr_qpn] = FALSE]
    /\ GoTo("FETCH_TABLES") /\ NoRdWrite /\ KeepRetry(cm) /\ KeepClose(close)
    /\ UNCHANGED <<qp_closed, qp_transmission_complete, stall_qp, tableRegs, hdr_wait,
                   dma_rd_cmd_sent>>

\* UPDATE_RD_TABLE ---------------------------------------------------------

\* Mutation: the rewind forgets that rd_table holds the last PSN sent, not the next.
RewindPsnLate(q) ==
    IF tmr[q].timed_out THEN PsnInc(s_cpl)
    ELSE IF tmr[q].psn_error \/ tmr[q].rnr_wait_done THEN tmr[q].psn_nak
    ELSE m_rd_table.psn

\* The flags are read again here; when an acknowledge has lowered them since
\* CHECK_TIMEOUT, the PSN register keeps what the previous write left in it.
RewindPsn(q) ==
    IF tmr[q].timed_out THEN s_cpl
    ELSE IF tmr[q].psn_error \/ tmr[q].rnr_wait_done THEN PsnDec(tmr[q].psn_nak)
    ELSE m_rd_table.psn

CountsRetry(q)    == tmr[q].timed_out \/ tmr[q].psn_error
CountsRnrRetry(q) == ~CountsRetry(q) /\ tmr[q].rnr_wait_done
Bump(counter, q)  == [counter EXCEPT ![q] = (@ + 1) % 8]
Marks(mark, q)    == [mark EXCEPT ![q] = PsnInc(RewindPsn(q))]

UpdateRdTable(cm, close) ==
    /\ state = "UPDATE_RD_TABLE" /\ ~m_rd_table.we
    /\ m_rd_table' = Write(rr_qpn, RewindPsn(rr_qpn))
    /\ retry_counter' =
         OpenClears(IF CountsRetry(rr_qpn) THEN Bump(retry_counter, rr_qpn) ELSE retry_counter, cm)
    /\ rnr_retry_counter' =
         OpenClears(IF CountsRnrRetry(rr_qpn) THEN Bump(rnr_retry_counter, rr_qpn)
                                              ELSE rnr_retry_counter, cm)
    /\ retry_psn_mark' =
         IF CountsRetry(rr_qpn) THEN Marks(retry_psn_mark, rr_qpn) ELSE retry_psn_mark
    /\ rnr_retry_psn_mark' =
         IF CountsRnrRetry(rr_qpn) THEN Marks(rnr_retry_psn_mark, rr_qpn) ELSE rnr_retry_psn_mark
    /\ qp_started_retrans' =
         [qp_started_retrans EXCEPT ![rr_qpn] = @ \/ CountsRetry(rr_qpn) \/ CountsRnrRetry(rr_qpn)]
    /\ GoTo("UPDATE_RD_TABLE") /\ KeepClose(close)
    /\ UNCHANGED <<qp_closed, qp_transmission_complete, stall_qp, tableRegs, hdr_wait,
                   dma_rd_cmd_sent>>

UpdateRdTableDone(cm, close) ==
    /\ state = "UPDATE_RD_TABLE" /\ m_rd_table.we
    /\ GoTo("FETCH_TABLES") /\ NoRdWrite /\ KeepRetry(cm) /\ KeepClose(close)
    /\ UNCHANGED <<qpFlags, tableRegs, hdr_wait, dma_rd_cmd_sent>>

\* FETCH_TABLES ------------------------------------------------------------

FetchTables(cm, close) ==
    /\ state = "FETCH_TABLES"
    /\ s_wr' = wr_table[rr_qpn] /\ s_rd' = rd_table[rr_qpn] /\ s_cpl' = cpl_table[rr_qpn]
    /\ GoTo("COMPARE") /\ NoRdWrite /\ KeepRetry(cm) /\ KeepClose(close)
    /\ UNCHANGED <<qpFlags, hdr_wait, dma_rd_cmd_sent>>

\* COMPARE -----------------------------------------------------------------

CompareClosed(cm, close) ==
    /\ state = "COMPARE" /\ qp_closed[rr_qpn]
    /\ qp_closed' = [qp_closed EXCEPT ![rr_qpn] = FALSE]
    /\ retry_counter' = OpenClears([retry_counter EXCEPT ![rr_qpn] = 0], cm)
    /\ rnr_retry_counter' = OpenClears(rnr_retry_counter, cm)
    /\ NextQp /\ NoRdWrite /\ KeepClose(close)
    /\ UNCHANGED <<qp_started_retrans, qp_transmission_complete, stall_qp, tableRegs, hdr_wait,
                   dma_rd_cmd_sent, retry_psn_mark, rnr_retry_psn_mark>>

\* Mutation: progress does not clear a retry counter.
ClearNever(counter, mark, q) == counter

\* Progress beyond the PSN of the last rewind clears the retry counters.
ClearIfMoved(counter, mark, q) ==
    IF s_cpl # PsnDec(mark[q]) THEN [counter EXCEPT ![q] = 0] ELSE counter

CompareCounters(cm) ==
    /\ retry_counter' = OpenClears(ClearIfMoved(retry_counter, retry_psn_mark, rr_qpn), cm)
    /\ rnr_retry_counter' =
         OpenClears(ClearIfMoved(rnr_retry_counter, rnr_retry_psn_mark, rr_qpn), cm)
    /\ qp_transmission_complete' = [qp_transmission_complete EXCEPT ![rr_qpn] = s_cpl = s_wr]
    /\ UNCHANGED <<retry_psn_mark, rnr_retry_psn_mark, qp_closed, qp_started_retrans>>

\* The stall decision, taken only when there is something to send.
Outstanding == PsnDist(s_wr, s_cpl)
StallDecision(default) ==
    IF Outstanding > psn_stall_thr_stop THEN TRUE
    ELSE IF stall_qp[rr_qpn] THEN Outstanding > psn_stall_thr_release
    ELSE default

\* Mutation: an idle queue pair keeps its stall.
CompareIdleKeepsStall(cm, close) ==
    /\ state = "COMPARE" /\ ~qp_closed[rr_qpn] /\ s_wr = s_rd
    /\ CompareCounters(cm) /\ NextQp /\ NoRdWrite /\ KeepClose(close)
    /\ UNCHANGED <<stall_qp, tableRegs, hdr_wait, dma_rd_cmd_sent>>

CompareIdle(cm, close) ==
    /\ state = "COMPARE" /\ ~qp_closed[rr_qpn] /\ s_wr = s_rd
    /\ stall_qp' = [stall_qp EXCEPT ![rr_qpn] = FALSE]
    /\ CompareCounters(cm) /\ NextQp /\ NoRdWrite /\ KeepClose(close)
    /\ UNCHANGED <<tableRegs, hdr_wait, dma_rd_cmd_sent>>

CompareRnrWait(cm, close) ==
    /\ state = "COMPARE" /\ ~qp_closed[rr_qpn] /\ s_wr # s_rd /\ tmr[rr_qpn].rnr_wait
    /\ stall_qp' = [stall_qp EXCEPT ![rr_qpn] = StallDecision(@)]
    /\ CompareCounters(cm) /\ NextQp /\ NoRdWrite /\ KeepClose(close)
    /\ UNCHANGED <<tableRegs, hdr_wait, dma_rd_cmd_sent>>

CompareSend(cm, close) ==
    /\ state = "COMPARE" /\ ~qp_closed[rr_qpn] /\ s_wr # s_rd /\ ~tmr[rr_qpn].rnr_wait
    /\ stall_qp' = [stall_qp EXCEPT ![rr_qpn] = StallDecision(FALSE)]
    /\ hdr_wait' = HDR_LATENCY
    /\ CompareCounters(cm) /\ GoTo("FETCH_HDR") /\ NoRdWrite /\ KeepClose(close)
    /\ UNCHANGED <<tableRegs, dma_rd_cmd_sent>>

\* FETCH_HDR, SEND_HDR, WAIT_DMA -------------------------------------------

FetchHdrWait(cm, close) ==
    /\ state = "FETCH_HDR" /\ hdr_wait > 0
    /\ hdr_wait' = hdr_wait - 1
    /\ GoTo("FETCH_HDR") /\ NoRdWrite /\ KeepRetry(cm) /\ KeepClose(close)
    /\ UNCHANGED <<qpFlags, tableRegs, dma_rd_cmd_sent>>

Launching    == state = "FETCH_HDR" /\ hdr_wait = 0
LaunchedPsn  == PsnInc(s_rd)

\* The header goes to the output FIFO and the read descriptor to the DMA FIFO;
\* m_roce_ready and dma_ready say whether each FIFO has room.
FetchHdr(cm, close, m_roce_ready, dma_ready) ==
    /\ Launching
    /\ m_rd_table' = Write(rr_qpn, LaunchedPsn)
    /\ dma_rd_cmd_sent' = IF ~dma_ready THEN dma_rd_cmd_sent ELSE ~m_roce_ready
    /\ IF m_roce_ready /\ dma_ready THEN NextQp
       ELSE GoTo(IF m_roce_ready THEN "WAIT_DMA" ELSE "SEND_HDR")
    /\ KeepRetry(cm) /\ KeepClose(close)
    /\ UNCHANGED <<qpFlags, tableRegs, hdr_wait>>

SendHdr(cm, close, m_roce_ready, dma_ready) ==
    /\ state = "SEND_HDR"
    /\ LET sent == dma_rd_cmd_sent \/ dma_ready
       IN /\ IF m_roce_ready /\ sent THEN NextQp
             ELSE GoTo(IF m_roce_ready THEN "WAIT_DMA" ELSE "SEND_HDR")
          /\ dma_rd_cmd_sent' = (sent /\ ~m_roce_ready)
    /\ NoRdWrite /\ KeepRetry(cm) /\ KeepClose(close)
    /\ UNCHANGED <<qpFlags, tableRegs, hdr_wait>>

WaitDma(cm, close, dma_ready) ==
    /\ state = "WAIT_DMA"
    /\ IF dma_ready THEN NextQp /\ dma_rd_cmd_sent' = FALSE
                    ELSE GoTo("WAIT_DMA") /\ UNCHANGED dma_rd_cmd_sent
    /\ NoRdWrite /\ KeepRetry(cm) /\ KeepClose(close)
    /\ UNCHANGED <<qpFlags, tableRegs, hdr_wait>>

\* CHANGE_QPN, WAIT_1CLK ---------------------------------------------------

ChangeQpn(cm, close) ==
    /\ state = "CHANGE_QPN"
    /\ NextQp /\ NoRdWrite /\ KeepRetry(cm) /\ KeepClose(close)
    /\ UNCHANGED <<qpFlags, tableRegs, hdr_wait, dma_rd_cmd_sent>>

\* The cpl_table read requested with the timeout arrives at this edge.
Wait1Clk(cm, close) ==
    /\ state = "WAIT_1CLK"
    /\ s_cpl' = IF state_cached = "UPDATE_RD_TABLE" THEN cpl_table[rr_qpn] ELSE s_cpl
    /\ GoTo(state_cached) /\ NoRdWrite /\ KeepRetry(cm) /\ KeepClose(close)
    /\ UNCHANGED <<qpFlags, s_wr, s_rd, hdr_wait, dma_rd_cmd_sent>>

=============================================================================
