------------------------ MODULE Retransmission_proofs -----------------------
(***************************************************************************)
(* Safety of the retransmission engine for every number of queue pairs,    *)
(* every PSN space and buffer, every timer and retry setting, and a network*)
(* that loses, delays and refuses whatever it likes: its type invariant, a *)
(* timeout is served once, and the retry counters are bounded.             *)
(*                                                                         *)
(* A step is cut into its machines: the FSM of the read module (FsmStep),  *)
(* the sweep, the tables and the write side, and the responder.            *)
(*                                                                         *)
(* The FSM visits the queue pairs at its own pace, the sweep at one queue  *)
(* pair per edge.  What the two tell each other (a flag the FSM acts on,   *)
(* the started bit the sweep lowers the flag for) is right because the     *)
(* sweep passes a queue pair before the FSM can be back at it: Far counts  *)
(* the edges the FSM needs, Near those the sweep needs.                    *)
(***************************************************************************)
EXTENDS Retransmission, RtrFacts

-----------------------------------------------------------------------------
(* A step of the engine.                                                   *)

\* What the FSM of the read module does at one edge, whatever its state.
FsmStep(cm, close) ==
    \/ CheckError(cm, close) \/ CheckExhausted(cm, close) \/ CheckTimedOut(cm, close)
    \/ CheckRewind(cm, close) \/ CheckClean(cm, close)
    \/ UpdateRdTable(cm, close) \/ UpdateRdTableDone(cm, close)
    \/ FetchTables(cm, close)
    \/ CompareClosed(cm, close) \/ CompareIdle(cm, close)
    \/ CompareRnrWait(cm, close) \/ CompareSend(cm, close)
    \/ FetchHdrWait(cm, close)
    \/ \E m_roce_ready, dma_ready \in BOOLEAN :
         \/ FetchHdr(cm, close, m_roce_ready, dma_ready)
         \/ SendHdr(cm, close, m_roce_ready, dma_ready)
         \/ WaitDma(cm, close, dma_ready)
    \/ ChangeQpn(cm, close) \/ Wait1Clk(cm, close)

\* What the responder makes of the packet on the wire, if there is one.
Responds(outcome) ==
    \/ outcome = NoOutcome /\ UNCHANGED epsn
    \/ Launching /\ outcome \in Outcomes /\ epsn' = [epsn EXCEPT ![rr_qpn] = outcome.epsn]

\* Every step is an edge of all the machines with the same pulses.
LEMMA NextIsEdge ==
    ASSUME Next
    PROVE  \E cm \in CmInputs, close \in CloseInputs : \E outcome :
             FsmStep(cm, close) /\ Tick(cm, close, outcome) /\ Responds(outcome)
<1> USE DEF FsmStep, Responds
<1>1. CASE Edge(CheckError) \/ Edge(CheckExhausted) \/ Edge(CheckTimedOut)
           \/ Edge(CheckRewind) \/ Edge(CheckClean)
  BY <1>1 DEF Edge
<1>2. CASE Edge(UpdateRdTable) \/ Edge(UpdateRdTableDone) \/ Edge(FetchTables)
  BY <1>2 DEF Edge
<1>3. CASE Edge(CompareClosed) \/ Edge(CompareIdle) \/ Edge(CompareRnrWait) \/ Edge(CompareSend)
  BY <1>3 DEF Edge
<1>4. CASE Edge(FetchHdrWait) \/ Edge(ChangeQpn) \/ Edge(Wait1Clk)
  BY <1>4 DEF Edge
<1>5. CASE Launch
  BY <1>5, NetworkAssumption DEF Launch, FetchHdr
<1>6. CASE \E m_roce_ready, dma_ready \in ReadyInputs : HandOver(m_roce_ready, dma_ready)
  BY <1>6, NetworkAssumption DEF HandOver
<1> QED BY <1>1, <1>2, <1>3, <1>4, <1>5, <1>6 DEF Next

-----------------------------------------------------------------------------
(* Numbers.                                                                *)

\* The next queue pair of a round and a counter's next value are in range.
LEMMA StepTypes ==
    /\ \A q \in QPs : NextQpn(q) \in QPs
    /\ \A c \in Counter : CounterStep(c) \in Counter
    /\ timeout_period \in Counter /\ RNR_TIMER \in Counter /\ 0 \in Counter
    /\ (RNR_TIMER + timeout_period) % COUNTER_MOD \in Counter
    /\ MAX_QPS % COUNTER_MOD \in Counter
BY QpAssumption, CounterAssumption, TimerAssumption
   DEF NextQpn, QPs, CounterStep, Counter

-----------------------------------------------------------------------------
(* The sweep.                                                              *)

\* The RNR timer keeps the record of a queue pair in its type.
LEMMA RnrTimerType ==
    ASSUME NEW q, NEW r \in Timers
    PROVE  RnrTimer(q, r) \in Timers
BY StepTypes DEF RnrTimer, Timers

\* So does a response, whatever its syndrome.
LEMMA OnResponseType ==
    ASSUME NEW q, NEW r \in Timers, NEW t \in Timers, rx \in Acks
    PROVE  OnResponse(q, r, t) \in Timers
<1>1. rx.psn \in Psn
  BY DEF Acks
<1>2. OnAck(t) \in Timers
  BY StepTypes DEF OnAck, Timers
<1>3. OnRnrNak(q, t) \in Timers
  <2>1. RnrRetryLeft(q) \in BOOLEAN /\ (t.error \/ ~RnrRetryLeft(q)) \in BOOLEAN
    BY DEF RnrRetryLeft
  <2>2. (RNR_TIMER + timeout_period) % COUNTER_MOD \in Counter /\ RNR_TIMER \in Counter
    BY StepTypes
  <2> QED BY <1>1, <2>1, <2>2, ZenonT(60) DEF OnRnrNak, Timers
<1>4. OnSeqNak(q, r, t) \in Timers
  BY <1>1, StepTypes DEF OnSeqNak, Timers
<1>5. OnReserved(t) \in Timers
  BY StepTypes DEF OnReserved, Timers
<1>6. [t EXCEPT !.timed_out = FALSE, !.error = TRUE] \in Timers
  BY DEF Timers
<1> QED BY <1>2, <1>3, <1>4, <1>5, <1>6 DEF OnResponse

\* So do the retransmission timer and the two assignments at the end of the edge.
LEMMA TimerTypes ==
    ASSUME NEW q, NEW r \in Timers, NEW t \in Timers
    PROVE  /\ RetransTimer(q, r, t) \in Timers
           /\ AfterClose(q, t) \in Timers
           /\ AfterStart(q, t) \in Timers
<1>1. RetransTimer(q, r, t) \in Timers
  BY StepTypes DEF RetransTimer, Timers
<1>2. AfterClose(q, t) \in Timers
  BY StepTypes DEF AfterClose, Timers
<1>3. AfterStart(q, t) \in Timers
  BY DEF AfterStart, Timers
<1> QED BY <1>1, <1>2, <1>3

\* The registers of the sweep stay in range.
LEMMA SweepTypes ==
    ASSUME TypeOK, Sweep
    PROVE  tmr' \in [QPs -> Timers] /\ aeth_ready' \in BOOLEAN /\ rr_qpn_timeout' \in QPs
<1> DEFINE q == rr_qpn_timeout
           r == tmr[q]
           t == IF Addressed(q) THEN OnResponse(q, r, RnrTimer(q, r))
                                ELSE RetransTimer(q, r, RnrTimer(q, r))
<1>1. q \in QPs /\ r \in Timers /\ tmr \in [QPs -> Timers] /\ rx \in Acks \cup {NoAck}
  BY DEF TypeOK
<1>2. tmr' = [tmr EXCEPT ![q] = AfterStart(q, AfterClose(q, t))]
  BY DEF Sweep
<1>3. aeth_ready' = Addressed(q) /\ rr_qpn_timeout' = NextQpn(q)
  BY DEF Sweep
<1>4. t \in Timers
  <2>1. RnrTimer(q, r) \in Timers
    BY <1>1, RnrTimerType
  <2>2. Addressed(q) => rx \in Acks
    BY <1>1 DEF Addressed
  <2>3. RetransTimer(q, r, RnrTimer(q, r)) \in Timers
    BY <1>1, <2>1, TimerTypes
  <2>4. Addressed(q) => OnResponse(q, r, RnrTimer(q, r)) \in Timers
    BY <1>1, <2>1, <2>2, OnResponseType
  <2> QED BY <2>3, <2>4
<1> HIDE DEF t
<1>5. AfterStart(q, AfterClose(q, t)) \in Timers
  BY <1>4, TimerTypes
<1>6. tmr' \in [QPs -> Timers]
  BY <1>1, <1>2, <1>5
<1>7. aeth_ready' \in BOOLEAN
  BY <1>3 DEF Addressed
<1> QED BY <1>1, <1>3, <1>6, <1>7, StepTypes

-----------------------------------------------------------------------------
(* The FSM.                                                                *)

\* The registers of the FSM.
FsmTypes ==
    /\ m_rd_table \in WritePort
    /\ state \in FsmStates /\ state_cached \in FsmStates
    /\ rr_qpn \in QPs /\ hdr_wait \in 0..HDR_LATENCY
    /\ s_wr \in Psn /\ s_rd \in Psn /\ s_cpl \in Psn
    /\ dma_rd_cmd_sent \in BOOLEAN /\ close_req \in QPs \cup {None}
    /\ qp_closed \in [QPs -> BOOLEAN] /\ qp_started_retrans \in [QPs -> BOOLEAN]
    /\ qp_transmission_complete \in [QPs -> BOOLEAN] /\ stall_qp \in [QPs -> BOOLEAN]
    /\ retry_counter \in [QPs -> 0..7] /\ rnr_retry_counter \in [QPs -> 0..7]
    /\ retry_psn_mark \in [QPs -> Psn] /\ rnr_retry_psn_mark \in [QPs -> Psn]

\* The registers that most steps leave alone, or that an OPEN or a handshake
\* clears: they stay in range.
LEMMA FrameTypes ==
    ASSUME FsmTypes, NEW cm, NEW close
    PROVE  /\ \A c \in [QPs -> 0..7] : OpenClears(c, cm) \in [QPs -> 0..7]
           /\ KeepRetry(cm) => /\ retry_counter' \in [QPs -> 0..7]
                               /\ rnr_retry_counter' \in [QPs -> 0..7]
                               /\ retry_psn_mark' \in [QPs -> Psn]
                               /\ rnr_retry_psn_mark' \in [QPs -> Psn]
           /\ KeepClose(close) => close_req' \in QPs \cup {None}
           /\ NoRdWrite => m_rd_table' \in WritePort
           /\ NextQp => state' \in FsmStates /\ state_cached' \in FsmStates /\ rr_qpn' \in QPs
           /\ \A s \in FsmStates : GoTo(s) \/ Via1Clk(s) =>
                state' \in FsmStates /\ state_cached' \in FsmStates /\ rr_qpn' \in QPs
<1>1. \A c \in [QPs -> 0..7] : OpenClears(c, cm) \in [QPs -> 0..7]
  <2> TAKE c \in [QPs -> 0..7]
  <2>1. ASSUME NEW q PROVE [c EXCEPT ![q] = 0] \in [QPs -> 0..7]
    <3>1. 0 \in 0..7
      OBVIOUS
    <3> QED BY <3>1, Zenon
  <2> QED BY <2>1 DEF OpenClears
<1>2. KeepRetry(cm) => /\ retry_counter' \in [QPs -> 0..7]
                       /\ rnr_retry_counter' \in [QPs -> 0..7]
                       /\ retry_psn_mark' \in [QPs -> Psn]
                       /\ rnr_retry_psn_mark' \in [QPs -> Psn]
  BY <1>1 DEF KeepRetry, FsmTypes
<1>3. KeepClose(close) => close_req' \in QPs \cup {None}
  BY DEF KeepClose, FsmTypes
<1>4. NoRdWrite => m_rd_table' \in WritePort
  BY DEF NoRdWrite, FsmTypes, WritePort
<1>5. NextQp => state' \in FsmStates /\ state_cached' \in FsmStates /\ rr_qpn' \in QPs
  BY StepTypes DEF NextQp, FsmTypes, FsmStates
<1>6. \A s \in FsmStates : GoTo(s) \/ Via1Clk(s) =>
        state' \in FsmStates /\ state_cached' \in FsmStates /\ rr_qpn' \in QPs
  BY DEF GoTo, Via1Clk, FsmTypes, FsmStates
<1> QED BY <1>1, <1>2, <1>3, <1>4, <1>5, <1>6

\* A rewind writes a PSN and marks one; the counters keep their three bits.
LEMMA RewindTypes ==
    ASSUME TypeOK, NEW q \in QPs
    PROVE  /\ RewindPsn(q) \in Psn
           /\ Bump(retry_counter, q) \in [QPs -> 0..7]
           /\ Bump(rnr_retry_counter, q) \in [QPs -> 0..7]
           /\ Marks(retry_psn_mark, q) \in [QPs -> Psn]
           /\ Marks(rnr_retry_psn_mark, q) \in [QPs -> Psn]
<1>1. RewindPsn(q) \in Psn
  <2>1. tmr[q].psn_nak \in Psn /\ m_rd_table.psn \in Psn /\ s_cpl \in Psn
    BY DEF TypeOK, Timers, WritePort
  <2> QED BY <2>1, PsnSteps DEF RewindPsn
<1>2. PsnInc(RewindPsn(q)) \in Psn
  BY <1>1, PsnSteps
<1>3. \A n \in 0..7 : (n + 1) % 8 \in 0..7
  OBVIOUS
<1> QED BY <1>1, <1>2, <1>3 DEF Bump, Marks, TypeOK

\* The decisions of COMPARE keep the flags and the counters in range.
LEMMA CompareTypes ==
    ASSUME FsmTypes, NEW cm, CompareCounters(cm)
    PROVE  /\ retry_counter' \in [QPs -> 0..7] /\ rnr_retry_counter' \in [QPs -> 0..7]
           /\ retry_psn_mark' \in [QPs -> Psn] /\ rnr_retry_psn_mark' \in [QPs -> Psn]
           /\ qp_closed' \in [QPs -> BOOLEAN] /\ qp_started_retrans' \in [QPs -> BOOLEAN]
           /\ qp_transmission_complete' \in [QPs -> BOOLEAN]
<1>1. /\ ClearIfMoved(retry_counter, retry_psn_mark, rr_qpn) \in [QPs -> 0..7]
      /\ ClearIfMoved(rnr_retry_counter, rnr_retry_psn_mark, rr_qpn) \in [QPs -> 0..7]
  BY DEF ClearIfMoved, FsmTypes
<1>2. retry_counter' \in [QPs -> 0..7] /\ rnr_retry_counter' \in [QPs -> 0..7]
  BY <1>1, FrameTypes DEF CompareCounters
<1>3. qp_transmission_complete' \in [QPs -> BOOLEAN]
  <2> DEFINE b == (s_cpl = s_wr)
  <2>1. b \in BOOLEAN
    OBVIOUS
  <2>2. qp_transmission_complete' = [qp_transmission_complete EXCEPT ![rr_qpn] = b]
    BY DEF CompareCounters
  <2> HIDE DEF b
  <2> QED BY <2>1, <2>2 DEF FsmTypes
<1> QED BY <1>2, <1>3 DEF CompareCounters, FsmTypes

\* The steps of CHECK_TIMEOUT keep the registers of the FSM in range.
LEMMA CheckTypes ==
    ASSUME TypeOK, FsmTypes, NEW cm, NEW close,
           \/ CheckError(cm, close) \/ CheckExhausted(cm, close) \/ CheckTimedOut(cm, close)
           \/ CheckRewind(cm, close) \/ CheckClean(cm, close)
    PROVE  FsmTypes'
<1>0. {"CHANGE_QPN", "UPDATE_RD_TABLE", "FETCH_TABLES"} \subseteq FsmStates
  BY DEF FsmStates
<1>1. CASE CheckError(cm, close)
  BY <1>0, <1>1, FrameTypes DEF CheckError, FsmTypes, tableRegs
<1>2. CASE CheckExhausted(cm, close)
  BY <1>0, <1>2, FrameTypes, Constants DEF CheckExhausted, FsmTypes, tableRegs
<1>3. CASE CheckTimedOut(cm, close)
  BY <1>0, <1>3, FrameTypes DEF CheckTimedOut, FsmTypes, tableRegs, qpFlags
<1>4. CASE CheckRewind(cm, close)
  BY <1>0, <1>4, FrameTypes DEF CheckRewind, FsmTypes, tableRegs, qpFlags
<1>5. CASE CheckClean(cm, close)
  BY <1>0, <1>5, FrameTypes DEF CheckClean, FsmTypes, tableRegs
<1> QED BY <1>1, <1>2, <1>3, <1>4, <1>5

\* So do the rewind and the reading of the tables.
LEMMA TableStateTypes ==
    ASSUME TypeOK, FsmTypes, NEW cm, NEW close,
           \/ UpdateRdTable(cm, close) \/ UpdateRdTableDone(cm, close) \/ FetchTables(cm, close)
           \/ Wait1Clk(cm, close)
    PROVE  FsmTypes'
<1>0. {"UPDATE_RD_TABLE", "FETCH_TABLES", "COMPARE"} \subseteq FsmStates
  BY DEF FsmStates
<1>1. CASE UpdateRdTable(cm, close)
  <2>1. rr_qpn \in QPs
    BY DEF FsmTypes
  <2>2. /\ RewindPsn(rr_qpn) \in Psn
        /\ Bump(retry_counter, rr_qpn) \in [QPs -> 0..7]
        /\ Bump(rnr_retry_counter, rr_qpn) \in [QPs -> 0..7]
        /\ Marks(retry_psn_mark, rr_qpn) \in [QPs -> Psn]
        /\ Marks(rnr_retry_psn_mark, rr_qpn) \in [QPs -> Psn]
    BY <2>1, RewindTypes
  <2>3. m_rd_table' \in WritePort
    BY <1>1, <2>1, <2>2 DEF UpdateRdTable, Write, WritePort
  <2>4. retry_counter' \in [QPs -> 0..7] /\ rnr_retry_counter' \in [QPs -> 0..7]
    BY <1>1, <2>2, FrameTypes DEF UpdateRdTable, FsmTypes
  <2>5. retry_psn_mark' \in [QPs -> Psn] /\ rnr_retry_psn_mark' \in [QPs -> Psn]
    BY <1>1, <2>2 DEF UpdateRdTable, FsmTypes
  <2>6. qp_started_retrans' \in [QPs -> BOOLEAN]
    BY <1>1, <2>1 DEF UpdateRdTable, FsmTypes
  <2>7. state' \in FsmStates /\ state_cached' \in FsmStates /\ rr_qpn' \in QPs
        /\ close_req' \in QPs \cup {None}
    BY <1>0, <1>1, FrameTypes DEF UpdateRdTable
  <2> QED BY <1>1, <2>3, <2>4, <2>5, <2>6, <2>7 DEF UpdateRdTable, FsmTypes, tableRegs
<1>2. CASE UpdateRdTableDone(cm, close)
  BY <1>0, <1>2, FrameTypes DEF UpdateRdTableDone, FsmTypes, tableRegs, qpFlags
<1>3. CASE FetchTables(cm, close)
  <2>1. s_wr' \in Psn /\ s_rd' \in Psn /\ s_cpl' \in Psn
    BY <1>3 DEF FetchTables, TypeOK
  <2> QED BY <1>0, <1>3, <2>1, FrameTypes DEF FetchTables, FsmTypes, qpFlags
<1>4. CASE Wait1Clk(cm, close)
  <2>1. s_cpl' \in Psn
    BY <1>4 DEF Wait1Clk, TypeOK
  <2>2. state_cached \in FsmStates
    BY DEF FsmTypes
  <2> QED BY <1>4, <2>1, <2>2, FrameTypes DEF Wait1Clk, FsmTypes, qpFlags
<1> QED BY <1>1, <1>2, <1>3, <1>4

\* So do the steps of COMPARE.
LEMMA CompareStateTypes ==
    ASSUME TypeOK, FsmTypes, NEW cm, NEW close,
           \/ CompareClosed(cm, close) \/ CompareIdle(cm, close)
           \/ CompareRnrWait(cm, close) \/ CompareSend(cm, close)
    PROVE  FsmTypes'
<1>0. "FETCH_HDR" \in FsmStates /\ HDR_LATENCY \in 0..HDR_LATENCY
  BY LatencyAssumption DEF FsmStates
<1>d. \A b \in BOOLEAN : StallDecision(b) \in BOOLEAN
  <2> TAKE b \in BOOLEAN
  <2>1. (Outstanding > psn_stall_thr_release) \in BOOLEAN
    OBVIOUS
  <2>2. CASE Outstanding > psn_stall_thr_stop
    BY <2>2, Zenon DEF StallDecision
  <2>3. CASE ~(Outstanding > psn_stall_thr_stop) /\ stall_qp[rr_qpn]
    BY <2>1, <2>3, Zenon DEF StallDecision
  <2>4. CASE ~(Outstanding > psn_stall_thr_stop) /\ ~stall_qp[rr_qpn]
    BY <2>4, Zenon DEF StallDecision
  <2> QED BY <2>2, <2>3, <2>4
<1>1. CASE CompareClosed(cm, close)
  <2>1. [retry_counter EXCEPT ![rr_qpn] = 0] \in [QPs -> 0..7]
    BY DEF FsmTypes
  <2>2. retry_counter' \in [QPs -> 0..7] /\ rnr_retry_counter' \in [QPs -> 0..7]
    BY <1>1, <2>1, FrameTypes DEF CompareClosed, FsmTypes
  <2> QED BY <1>1, <2>2, FrameTypes DEF CompareClosed, FsmTypes, tableRegs
<1>2. CASE CompareIdle(cm, close)
  BY <1>2, CompareTypes, FrameTypes DEF CompareIdle, FsmTypes, tableRegs
<1>3. CASE CompareRnrWait(cm, close)
  <2>1. stall_qp' \in [QPs -> BOOLEAN]
    <3>1. StallDecision(stall_qp[rr_qpn]) \in BOOLEAN
      BY <1>d DEF FsmTypes
    <3>2. stall_qp' = [stall_qp EXCEPT ![rr_qpn] = StallDecision(stall_qp[rr_qpn])]
      BY <1>3 DEF CompareRnrWait, FsmTypes
    <3> QED BY <3>1, <3>2 DEF FsmTypes
  <2> QED BY <1>3, <2>1, CompareTypes, FrameTypes DEF CompareRnrWait, FsmTypes, tableRegs
<1>4. CASE CompareSend(cm, close)
  <2>1. stall_qp' \in [QPs -> BOOLEAN]
    BY <1>4, <1>d DEF CompareSend, FsmTypes
  <2> QED BY <1>0, <1>4, <2>1, CompareTypes, FrameTypes DEF CompareSend, FsmTypes, tableRegs
<1> QED BY <1>1, <1>2, <1>3, <1>4

\* So does the launch of a packet, with either FIFO full or not.
LEMMA LaunchTypes ==
    ASSUME TypeOK, FsmTypes, NEW cm, NEW close,
           NEW m_roce_ready \in BOOLEAN, NEW dma_ready \in BOOLEAN,
           \/ FetchHdrWait(cm, close)
           \/ FetchHdr(cm, close, m_roce_ready, dma_ready)
           \/ SendHdr(cm, close, m_roce_ready, dma_ready)
           \/ WaitDma(cm, close, dma_ready)
           \/ ChangeQpn(cm, close)
    PROVE  FsmTypes'
<1>0. {"FETCH_HDR", "SEND_HDR", "WAIT_DMA"} \subseteq FsmStates
  BY DEF FsmStates
<1>1. CASE FetchHdrWait(cm, close)
  <2>1. hdr_wait' \in 0..HDR_LATENCY
    BY <1>1, LatencyAssumption DEF FetchHdrWait, FsmTypes
  <2> QED BY <1>0, <1>1, <2>1, FrameTypes DEF FetchHdrWait, FsmTypes, tableRegs, qpFlags
<1>2. CASE FetchHdr(cm, close, m_roce_ready, dma_ready)
  <2>1. m_rd_table' \in WritePort
    <3>1. LaunchedPsn \in Psn
      BY PsnSteps DEF LaunchedPsn, FsmTypes
    <3> QED BY <1>2, <3>1 DEF FetchHdr, Write, WritePort, FsmTypes
  <2>2. dma_rd_cmd_sent' \in BOOLEAN
    BY <1>2 DEF FetchHdr, FsmTypes
  <2>3. state' \in FsmStates /\ state_cached' \in FsmStates /\ rr_qpn' \in QPs
    BY <1>0, <1>2, FrameTypes DEF FetchHdr
  <2> QED BY <1>2, <2>1, <2>2, <2>3, FrameTypes DEF FetchHdr, FsmTypes, tableRegs, qpFlags
<1>3. CASE SendHdr(cm, close, m_roce_ready, dma_ready)
  <2>1. dma_rd_cmd_sent' \in BOOLEAN
    BY <1>3 DEF SendHdr, FsmTypes
  <2>2. state' \in FsmStates /\ state_cached' \in FsmStates /\ rr_qpn' \in QPs
    BY <1>0, <1>3, FrameTypes DEF SendHdr
  <2> QED BY <1>3, <2>1, <2>2, FrameTypes DEF SendHdr, FsmTypes, tableRegs, qpFlags
<1>4. CASE WaitDma(cm, close, dma_ready)
  <2>1. state' \in FsmStates /\ state_cached' \in FsmStates /\ rr_qpn' \in QPs
    BY <1>0, <1>4, FrameTypes DEF WaitDma
  <2> QED BY <1>4, <2>1, FrameTypes DEF WaitDma, FsmTypes, tableRegs, qpFlags
<1>5. CASE ChangeQpn(cm, close)
  BY <1>5, FrameTypes DEF ChangeQpn, FsmTypes, tableRegs, qpFlags
<1> QED BY <1>1, <1>2, <1>3, <1>4, <1>5

\* Every step of the FSM keeps its registers in range.
LEMMA FsmStepTypes ==
    ASSUME TypeOK, NEW cm, NEW close, FsmStep(cm, close)
    PROVE  FsmTypes'
<1>1. FsmTypes
  BY DEF TypeOK, FsmTypes
<1> QED BY <1>1, CheckTypes, TableStateTypes, CompareStateTypes, LaunchTypes DEF FsmStep

-----------------------------------------------------------------------------
(* The responder and the network.                                          *)

OutcomeOK(o) == o.epsn \in Psn /\ o.reply \in Seq(Acks)

\* One response is a sequence of responses, and so is none.
LEMMA ReplyTypes ==
    ASSUME NEW q \in QPs, NEW p \in Psn, NEW s \in Syndromes
    PROVE  Reply(q, p, s) \in Seq(Acks)
BY DEF Reply, Acks

\* A PSN to expect and the responses sent make an outcome.
LEMMA OutcomeMade ==
    ASSUME NEW e \in Psn, NEW r \in Seq(Acks)
    PROVE  OutcomeOK(Outcome(e, r))
BY DEF OutcomeOK, Outcome

\* What a packet makes the responder do: it expects a PSN and answers with responses.
LEMMA ReceivedTypes ==
    ASSUME TypeOK, NEW q \in QPs, NEW p \in Psn
    PROVE  \A o \in Received(q, p) : OutcomeOK(o)
<1>1. epsn[q] \in Psn /\ PsnInc(p) \in Psn /\ PsnDec(epsn[q]) \in Psn
  BY PsnSteps DEF TypeOK
<1>2. {"ACK", "PSN_SEQ_NAK"} \subseteq Syndromes /\ Responses \subseteq Syndromes
  BY NetworkAssumption DEF Syndromes
<1>3. <<>> \in Seq(Acks)
  BY EmptySeq
<1>4. CASE conn[q] # "open"
  BY <1>1, <1>3, <1>4, OutcomeMade DEF Received
<1>5. CASE conn[q] = "open" /\ p = epsn[q]
  <2>1. \A s \in Responses : Reply(q, p, s) \in Seq(Acks)
    BY <1>2, ReplyTypes
  <2>2. \A s \in Responses : /\ OutcomeOK(Outcome(PsnInc(p), Reply(q, p, s)))
                             /\ OutcomeOK(Outcome(p, Reply(q, p, s)))
    BY <1>1, <2>1, OutcomeMade
  <2> QED BY <1>5, <2>2 DEF Received
<1>6. CASE conn[q] = "open" /\ p # epsn[q] /\ Ahead(p, epsn[q])
  <2>1. Reply(q, epsn[q], "PSN_SEQ_NAK") \in Seq(Acks)
    BY <1>1, <1>2, ReplyTypes
  <2>2. /\ OutcomeOK(Outcome(epsn[q], Reply(q, epsn[q], "PSN_SEQ_NAK")))
        /\ OutcomeOK(Outcome(epsn[q], <<>>))
    BY <1>1, <1>3, <2>1, OutcomeMade
  <2> QED BY <1>6, <2>2 DEF Received
<1>7. CASE conn[q] = "open" /\ p # epsn[q] /\ ~Ahead(p, epsn[q])
  <2>1. Reply(q, PsnDec(epsn[q]), "ACK") \in Seq(Acks)
    BY <1>1, <1>2, ReplyTypes
  <2>2. OutcomeOK(Outcome(epsn[q], Reply(q, PsnDec(epsn[q]), "ACK")))
    BY <1>1, <2>1, OutcomeMade
  <2> QED BY <1>7, <2>2 DEF Received
<1> QED BY <1>4, <1>5, <1>6, <1>7

\* So does a launch, whatever the network loses of it.
LEMMA OutcomeTypes ==
    ASSUME TypeOK, NEW o \in Outcomes
    PROVE  OutcomeOK(o)
<1> DEFINE q == rr_qpn
           p == hdr_ram[q][HdrSlotOf(LaunchedPsn)]
           r == IF p = None THEN {Outcome(epsn[q], <<>>)} ELSE Received(q, p)
<1>1. q \in QPs /\ epsn[q] \in Psn
  BY DEF TypeOK
<1>2. p \in Psn \cup {None}
  <2>1. LaunchedPsn \in Psn
    BY PsnSteps DEF TypeOK, LaunchedPsn
  <2>2. HdrSlotOf(LaunchedPsn) \in 0..(HDR_SLOTS - 1)
    BY <2>1, PsnSteps
  <2>3. hdr_ram \in [QPs -> [0..(HDR_SLOTS - 1) -> Psn \cup {None}]]
    BY DEF TypeOK
  <2> QED BY <1>1, <2>2, <2>3
<1>3. OutcomeOK(Outcome(epsn[q], <<>>))
  BY <1>1, EmptySeq DEF OutcomeOK, Outcome
<1>4. \A u \in r : OutcomeOK(u)
  <2>1. CASE p = None
    BY <1>3, <2>1
  <2>2. CASE p # None
    BY <1>1, <1>2, <2>2, ReceivedTypes
  <2> QED BY <2>1, <2>2
<1>5. \A u \in r : OutcomeOK(Outcome(u.epsn, <<>>))
  BY <1>4, EmptySeq DEF OutcomeOK, Outcome
<1>6. o \in r \/ o = Outcome(epsn[q], <<>>) \/ \E u \in r : o = Outcome(u.epsn, <<>>)
  BY DEF Outcomes
<1> QED BY <1>3, <1>4, <1>5, <1>6

\* The queue of responses and the one at the input stay responses.
LEMMA ReceiveTypes ==
    ASSUME TypeOK, NEW outcome, Responds(outcome), NEW arrives \in ArriveInputs,
           Receive(outcome, arrives)
    PROVE  rx' \in Acks \cup {NoAck} /\ ackq' \in Seq(Acks) /\ epsn' \in [QPs -> Psn]
<1>1. outcome.reply \in Seq(Acks)
  <2>1. CASE outcome = NoOutcome
    <3>1. outcome.reply = <<>>
      BY <2>1 DEF NoOutcome, Outcome
    <3> QED BY <3>1, EmptySeq
  <2>2. CASE outcome \in Outcomes
    BY <2>2, OutcomeTypes DEF OutcomeOK
  <2> QED BY <2>1, <2>2 DEF Responds
<1>2. ackq \in Seq(Acks) /\ rx \in Acks \cup {NoAck} /\ epsn \in [QPs -> Psn] /\ rr_qpn \in QPs
  BY DEF TypeOK
<1>3. arrives => ackq # <<>>
  BY DEF ArriveInputs
<1>4. arrives => Head(ackq) \in Acks /\ Tail(ackq) \in Seq(Acks)
  BY <1>2, <1>3, HeadTailProperties
<1>5. rx' \in Acks \cup {NoAck}
  BY <1>2, <1>4 DEF Receive
<1>6. ackq' \in Seq(Acks)
  <2> DEFINE left == IF arrives THEN Tail(ackq) ELSE ackq
  <2>1. left \in Seq(Acks)
    BY <1>2, <1>4
  <2>2. ackq' = IF Len(left) < MaxAcks THEN left \o outcome.reply ELSE left
    BY DEF Receive
  <2> HIDE DEF left
  <2>3. left \o outcome.reply \in Seq(Acks)
    BY <1>1, <2>1, ConcatProperties
  <2> QED BY <2>1, <2>2, <2>3
<1>7. epsn' \in [QPs -> Psn]
  BY <1>2, OutcomeTypes DEF Responds, OutcomeOK
<1> QED BY <1>5, <1>6, <1>7

-----------------------------------------------------------------------------
(* The whole engine.                                                       *)

\* The pulses of the connection manager and the close handshake name queue pairs.
LEMMA PulseTypes ==
    ASSUME TypeOK, NEW cm \in CmInputs, NEW close \in CloseInputs
    PROVE  /\ close \in QPs \cup {None}
           /\ CloseQpn(cm, close) \in QPs \cup {None}
           /\ cm.req = "OPEN" => cm.qpn \in QPs
           /\ TableReset(cm, close) \in WritePort
<1>1. close \in QPs \cup {None}
  BY DEF CloseInputs, TypeOK
<1>2. PsnDec(OpenPsn) \in Psn
  BY PsnSteps, EnvAssumption
<1>3. CASE cm = CmNone
  BY <1>1, <1>3, Constants DEF CmNone, CloseQpn, TableReset, Write, WritePort
<1>4. CASE cm \in ClosePulses
  BY <1>1, <1>4, Constants, EnvAssumption
     DEF ClosePulses, CmClose, CloseQpn, TableReset, Write, WritePort
<1>5. CASE cm \in {CmOpen(q, OpenPsn) : q \in {a \in ActiveQPs : Quiet(a)}}
  BY <1>1, <1>2, <1>5, Constants, EnvAssumption
     DEF CmOpen, CloseQpn, TableReset, Write, WritePort
<1> QED BY <1>3, <1>4, <1>5 DEF CmInputs

\* The inputs of the write side have the types its registers need.
LEMMA InputTypes ==
    ASSUME TypeOK, NEW cm \in CmInputs, NEW close \in CloseInputs, NEW pkt \in PktInputs,
           NEW take \in TakeInputs, NEW done \in DoneInputs
    PROVE  InputsOK(pkt, done, cm, close) /\ take \in BOOLEAN
<1>1. pkt \in Packets \cup {NoPkt}
  BY DEF PktInputs, NextPacket, Packets, TypeOK
<1>2. done # "NONE" => dma_busy # <<>>
  BY DEF DoneInputs
<1>3. take \in BOOLEAN
  BY EnvAssumption DEF TakeInputs
<1> QED BY <1>1, <1>2, <1>3, PulseTypes DEF InputsOK

\* The three tables keep PSNs.
LEMMA TableTypes ==
    ASSUME TypeOK, NEW cm, NEW close, TablesStep(cm, close)
    PROVE  rd_table' \in [QPs -> Psn] /\ cpl_table' \in [QPs -> Psn]
<1>1. CplWrite.we => CplWrite.qpn \in QPs /\ CplWrite.psn \in Psn
  BY DEF CplWrite, AckAccepted, TypeOK, Acks, Write, NoWrite
<1>2. cpl_table' \in [QPs -> Psn]
  BY <1>1 DEF TablesStep, TableWrite, TypeOK, WritePort
<1> QED BY <1>2 DEF TablesStep, TableWrite, TypeOK, WritePort

\* The two FIFOs of the write side never hold more than their depth.
LEMMA FifoDepths ==
    ASSUME TypeOK, NEW cm, NEW close, NEW pkt, NEW take \in BOOLEAN, NEW done,
           WriteStep(pkt, take, done, cm, close)
    PROVE  Len(desc_fifo)' <= DESC_DEPTH /\ Len(entry_fifo)' <= ENTRY_DEPTH
<1>1. Len(desc_fifo)' <= DESC_DEPTH
  <2>1. desc_fifo' = Pop(desc_fifo, take) \o Push(dma_desc # NoPkt /\ DescReady, dma_desc)
    BY DEF WriteStep, DmaEngine
  <2> QED BY <2>1, FifoBound, WriteAssumption DEF TypeOK, DescReady
<1>2. Len(entry_fifo)' <= ENTRY_DEPTH
  <2>1. entry_fifo' = Pop(entry_fifo, done # "NONE") \o Push(wr_entry # NoPkt /\ EntryReady, wr_entry)
    BY DEF WriteStep, Announce
  <2> QED BY <2>1, FifoBound, WriteAssumption DEF TypeOK, EntryReady
<1> QED BY <1>1, <1>2

\* The reset branches leave every register in its range.
LEMMA TypeInit == Init => TypeOK
<1> SUFFICES ASSUME Init PROVE TypeOK
  OBVIOUS
<1>1. WriteTypes
  <2>1. desc_fifo \in Seq(Packets) /\ entry_fifo \in Seq(Packets) /\ dma_busy \in Seq(Packets)
    BY EmptySeq DEF Init, WriteInit
  <2>2. /\ hdr_ram \in [QPs -> [0..(HDR_SLOTS - 1) -> Psn \cup {None}]]
        /\ mem \in [QPs -> [Slot -> Psn \cup {None}]]
    BY DEF Init, WriteInit
  <2> QED BY <2>1, <2>2, Constants, EnvAssumption
          DEF Init, TablesInit, WriteInit, EnvInit, WriteTypes
<1>2. FsmTypes
  <2>1. /\ qp_closed \in [QPs -> BOOLEAN] /\ qp_started_retrans \in [QPs -> BOOLEAN]
        /\ qp_transmission_complete \in [QPs -> BOOLEAN] /\ stall_qp \in [QPs -> BOOLEAN]
    BY DEF Init, ReadInit
  <2>2. /\ retry_counter \in [QPs -> 0..7] /\ rnr_retry_counter \in [QPs -> 0..7]
        /\ retry_psn_mark \in [QPs -> Psn] /\ rnr_retry_psn_mark \in [QPs -> Psn]
    BY Constants DEF Init, ReadInit
  <2>3. state \in FsmStates /\ state_cached \in FsmStates /\ hdr_wait \in 0..HDR_LATENCY
    BY LatencyAssumption DEF Init, ReadInit, FsmStates
  <2>4. /\ m_rd_table \in WritePort /\ rr_qpn \in QPs /\ close_req \in QPs \cup {None}
        /\ s_wr \in Psn /\ s_rd \in Psn /\ s_cpl \in Psn /\ dma_rd_cmd_sent \in BOOLEAN
    BY Constants DEF Init, ReadInit
  <2> QED BY <2>1, <2>2, <2>3, <2>4 DEF FsmTypes
<1>3. tmr \in [QPs -> Timers]
  <2>1. PICK c \in CountersAtReset :
          tmr = [q \in QPs |-> [timed_out |-> FALSE, psn_error |-> FALSE, rnr_wait |-> FALSE,
                                rnr_wait_done |-> FALSE, error |-> FALSE, psn_nak |-> 0,
                                timeout_counter |-> c, rnr_counter |-> 0]]
    BY DEF Init, ReadInit
  <2>2. c \in Counter
    BY StepTypes DEF CountersAtReset
  <2> QED BY <2>1, <2>2, StepTypes, Constants DEF Timers
<1>4. Len(desc_fifo) <= DESC_DEPTH /\ Len(entry_fifo) <= ENTRY_DEPTH
  BY WriteAssumption, EmptySeq DEF Init, WriteInit
<1>5. epsn \in [QPs -> Psn] /\ ackq \in Seq(Acks) /\ rx \in Acks \cup {NoAck}
  BY EnvAssumption, EmptySeq DEF Init
<1>6. /\ rd_table \in [QPs -> Psn] /\ cpl_table \in [QPs -> Psn]
      /\ rr_qpn_timeout \in QPs /\ aeth_ready \in BOOLEAN
  BY Constants DEF Init, TablesInit, ReadInit
<1> QED BY <1>1, <1>2, <1>3, <1>4, <1>5, <1>6 DEF WriteTypes, FsmTypes, TypeOK

\* A clock edge of all the machines keeps every register in its range.
LEMMA TypeEdge ==
    ASSUME TypeOK, NEW cm \in CmInputs, NEW close \in CloseInputs, NEW outcome,
           FsmStep(cm, close), Tick(cm, close, outcome), Responds(outcome)
    PROVE  TypeOK'
<1>1. PICK pkt \in PktInputs, take \in TakeInputs, done \in DoneInputs, arrives \in ArriveInputs :
        /\ Receive(outcome, arrives) /\ Producer(cm, close, pkt)
        /\ WriteStep(pkt, take, done, cm, close)
  BY DEF Tick
<1>2. TablesStep(cm, close) /\ Sweep
  BY DEF Tick
<1>3. InputsOK(pkt, done, cm, close) /\ take \in BOOLEAN
  BY InputTypes
<1>4. WriteTypes
  BY DEF TypeOK, WriteTypes
<1>5. WriteTypes'
  BY <1>1, <1>2, <1>3, <1>4, WriteTypesEdge
<1>6. FsmTypes'
  BY FsmStepTypes
<1>7. tmr' \in [QPs -> Timers] /\ aeth_ready' \in BOOLEAN /\ rr_qpn_timeout' \in QPs
  BY <1>2, SweepTypes
<1>8. rx' \in Acks \cup {NoAck} /\ ackq' \in Seq(Acks) /\ epsn' \in [QPs -> Psn]
  BY <1>1, ReceiveTypes
<1>9. rd_table' \in [QPs -> Psn] /\ cpl_table' \in [QPs -> Psn]
  BY <1>2, TableTypes
<1>10. Len(desc_fifo)' <= DESC_DEPTH /\ Len(entry_fifo)' <= ENTRY_DEPTH
  BY <1>1, <1>3, FifoDepths
<1> QED BY <1>5, <1>6, <1>7, <1>8, <1>9, <1>10 DEF WriteTypes, FsmTypes, TypeOK

\* A step that changes nothing keeps the types.
LEMMA TypeStutter ==
    ASSUME TypeOK, UNCHANGED vars
    PROVE  TypeOK'
BY DEF TypeOK, vars, tableVars, readVars, fsmVars, tableRegs, retryVars, qpFlags, writeVars, envVars

\* Type correctness of the retransmission engine (RoCE_retransmission_module_v2
\* with its read and write modules and its tables): every table keeps PSNs, every
\* counter its width, both FIFOs their depth, and the FSM leaves through no state
\* it does not have, whatever the network, the DMA engine and the connection
\* manager do.
THEOREM TypeCorrect == Spec => []TypeOK
<1>1. TypeOK /\ [Next]_vars => TypeOK'
  <2>1. TypeOK /\ Next => TypeOK'
    BY NextIsEdge, TypeEdge
  <2> QED BY <2>1, TypeStutter
<1> QED BY TypeInit, <1>1, PTL DEF Spec

-----------------------------------------------------------------------------
(* The flags of a queue pair between the sweep and the FSM.                *)

\* The FSM has found a flag raised and has not acted on it yet.
Rewinding ==
    \/ state = "WAIT_1CLK" /\ state_cached = "UPDATE_RD_TABLE"
    \/ state = "UPDATE_RD_TABLE" /\ ~m_rd_table.we

\* The flags of the current queue pair have not been acted on in this visit.
Checking == state = "CHECK_TIMEOUT" \/ Rewinding

\* Steps of a round from one queue pair to another.
Distance(p, q) == IF q >= p THEN q - p ELSE q - p + MAX_QPS

\* Edges before the FSM can check q, at the least, and before the sweep is at q.
Far(q)  == IF rr_qpn # q THEN Distance(rr_qpn, q) ELSE IF Checking THEN 0 ELSE MAX_QPS
Near(q) == Distance(rr_qpn_timeout, q)

\* WAIT_1CLK is entered from CHECK_TIMEOUT only.
OneClkFrom == state = "WAIT_1CLK" => state_cached \in {"UPDATE_RD_TABLE", "CHANGE_QPN"}

\* A flag that has been acted on is lowered before the FSM is back.
FlagServed ==
    \A q \in QPs : qp_started_retrans[q] /\ (tmr[q].timed_out \/ tmr[q].psn_error) =>
        Far(q) > Near(q)

\* An RNR wait is granted while there is an attempt left.  If the counter has
\* passed the limit since, the wait has been acted on and ends before the FSM is
\* back.
Overdrawn(q) ==
    /\ tmr[q].rnr_wait \/ tmr[q].rnr_wait_done
    /\ rnr_retry_counter[q] > rnr_retry_count /\ rnr_retry_count # 7

WaitServed ==
    \A q \in QPs : Overdrawn(q) =>
        tmr[q].rnr_wait_done /\ qp_started_retrans[q] /\ Far(q) > Near(q)

ServedInv == TypeOK /\ OneClkFrom /\ FlagServed /\ WaitServed /\ RnrRetryBounded

\* A responder that neither asks to wait nor reports a gap.
Calm == {a \in Acks : a.syndrome \notin {"RNR_NAK", "PSN_SEQ_NAK"}}

CalmResponses == ackq \in Seq(Calm) /\ rx \in Calm \cup {NoAck}
CalmTimers    == \A q \in QPs : ~tmr[q].psn_error /\ ~tmr[q].rnr_wait /\ ~tmr[q].rnr_wait_done

\* The comparison with retry_count at CHECK_TIMEOUT still holds where the rewind
\* counts.
RetryLeft == Rewinding => retry_counter[rr_qpn] < retry_count

\* The number of attempts is bounded by retry_count.
RetryBounded == \A q \in QPs : retry_counter[q] <= retry_count

RetryInv == TypeOK /\ OneClkFrom /\ CalmResponses /\ CalmTimers /\ RetryLeft /\ RetryBounded

-----------------------------------------------------------------------------
(* Rounds.                                                                 *)

\* The queue pair after the last one is the first one.
LEMMA NextInRound ==
    ASSUME NEW p \in QPs
    PROVE  NextQpn(p) = IF p = MAX_QPS - 1 THEN 0 ELSE p + 1
<1>1. CASE p = MAX_QPS - 1
  BY <1>1, QpAssumption DEF NextQpn, QPs
<1>2. CASE p # MAX_QPS - 1
  BY <1>2, QpAssumption DEF NextQpn, QPs
<1> QED BY <1>1, <1>2

\* A step of a round comes one nearer to every queue pair but the one it leaves.
LEMMA RoundStep ==
    ASSUME NEW p \in QPs, NEW q \in QPs
    PROVE  /\ Distance(p, q) \in 0..(MAX_QPS - 1)
           /\ p # q => Distance(NextQpn(p), q) = Distance(p, q) - 1
           /\ Distance(NextQpn(q), q) = MAX_QPS - 1 /\ NextQpn(q) # q
           /\ NextQpn(p) = q => Distance(p, q) = 1
BY NextInRound, QpAssumption DEF Distance, QPs

\* What a step of the FSM does to its position: it stays at the queue pair, and
\* once past the check of its flags does not return to it, or it moves on.
Stays  == rr_qpn' = rr_qpn /\ (Checking \/ ~Checking')
Leaves == rr_qpn' = NextQpn(rr_qpn) /\ state' = "CHECK_TIMEOUT"

\* Hence the FSM comes nearer to a check by at most one per edge.
LEMMA FarStep ==
    ASSUME rr_qpn \in QPs, Stays \/ Leaves, NEW q \in QPs
    PROVE  Far(q) \in 0..MAX_QPS /\ Far(q)' \in 0..MAX_QPS /\ Far(q)' >= Far(q) - 1
<1>0. /\ Distance(rr_qpn, q) \in 0..(MAX_QPS - 1) /\ MAX_QPS \in Nat
      /\ rr_qpn # q => Distance(NextQpn(rr_qpn), q) = Distance(rr_qpn, q) - 1
      /\ Distance(NextQpn(q), q) = MAX_QPS - 1 /\ NextQpn(q) # q
      /\ NextQpn(rr_qpn) = q => Distance(rr_qpn, q) = 1
  BY RoundStep, QpAssumption
<1>1. Far(q) = IF rr_qpn # q THEN Distance(rr_qpn, q) ELSE IF Checking THEN 0 ELSE MAX_QPS
  BY DEF Far
<1>2. Far(q)' = IF rr_qpn' # q THEN Distance(rr_qpn', q) ELSE IF Checking' THEN 0 ELSE MAX_QPS
  BY DEF Far, Distance
<1> HIDE DEF Checking, Far, Distance
<1>3. CASE Stays
  BY <1>0, <1>1, <1>2, <1>3 DEF Stays
<1>4. CASE Leaves
  <2>1. Checking'
    BY <1>4 DEF Leaves, Checking
  <2>2. CASE rr_qpn = q
    BY <1>0, <1>1, <1>2, <1>4, <2>2 DEF Leaves
  <2>3. CASE rr_qpn # q /\ NextQpn(rr_qpn) = q
    BY <1>0, <1>1, <1>2, <1>4, <2>1, <2>3 DEF Leaves
  <2>4. CASE rr_qpn # q /\ NextQpn(rr_qpn) # q
    <3>1. NextQpn(rr_qpn) \in QPs
      BY StepTypes
    <3>2. Distance(NextQpn(rr_qpn), q) \in 0..(MAX_QPS - 1)
      BY <3>1, RoundStep
    <3> QED BY <1>0, <1>1, <1>2, <1>4, <2>4, <3>2 DEF Leaves
  <2> QED BY <2>2, <2>3, <2>4
<1> QED BY <1>3, <1>4

\* The sweep comes nearer by exactly one per edge.
LEMMA NearStep ==
    ASSUME TypeOK, Sweep, NEW q \in QPs
    PROVE  /\ Near(q) \in 0..(MAX_QPS - 1) /\ Near(q)' \in 0..(MAX_QPS - 1)
           /\ rr_qpn_timeout # q => Near(q)' = Near(q) - 1
<1>1. rr_qpn_timeout \in QPs /\ rr_qpn_timeout' = NextQpn(rr_qpn_timeout)
  BY DEF TypeOK, Sweep
<1>2. NextQpn(rr_qpn_timeout) \in QPs
  BY <1>1, StepTypes
<1>3. Near(q) = Distance(rr_qpn_timeout, q) /\ Near(q)' = Distance(rr_qpn_timeout', q)
  BY DEF Near, Distance
<1> QED BY <1>1, <1>2, <1>3, RoundStep

-----------------------------------------------------------------------------
(* The FSM.                                                                *)

\* The FSM acts on the flags of q: it is past the check of this visit.
Acts(q) == rr_qpn = q /\ rr_qpn' = q /\ ~Checking'

\* It raises the started bit of q, and counts an RNR attempt, only when it acts
\* on q, and lowers the bit only where it checks q.
StartedMoves ==
    \A q \in QPs : /\ qp_started_retrans'[q] /\ ~qp_started_retrans[q] => Acts(q)
                   /\ qp_started_retrans[q] /\ ~qp_started_retrans'[q] => rr_qpn = q /\ Checking

RnrCounts(q) ==
    /\ Acts(q) /\ Checking /\ tmr[q].rnr_wait_done /\ qp_started_retrans'[q]
    /\ rnr_retry_counter'[q] <= rnr_retry_counter[q] + 1
RnrCounterMoves ==
    \A q \in QPs : rnr_retry_counter'[q] <= rnr_retry_counter[q] \/ RnrCounts(q)

\* An OPEN, or progress, never raises a counter.
LEMMA ClearedCounter ==
    ASSUME NEW c \in [QPs -> 0..7], NEW cm, NEW q \in QPs, NEW mark, NEW p
    PROVE  /\ OpenClears(c, cm)[q] \in {0, c[q]}
           /\ OpenClears(ClearIfMoved(c, mark, p), cm)[q] \in {0, c[q]}
           /\ OpenClears([c EXCEPT ![p] = 0], cm)[q] \in {0, c[q]}
<1>1. ASSUME NEW d \in [QPs -> 0..7], NEW k
      PROVE  [d EXCEPT ![k] = 0] \in [QPs -> 0..7] /\ [d EXCEPT ![k] = 0][q] \in {0, d[q]}
  <2>1. 0 \in 0..7
    OBVIOUS
  <2> QED BY <2>1, Zenon
<1>2. \A d \in [QPs -> 0..7] : OpenClears(d, cm)[q] \in {0, d[q]}
  BY <1>1 DEF OpenClears
<1>3. /\ ClearIfMoved(c, mark, p) \in [QPs -> 0..7]
      /\ ClearIfMoved(c, mark, p)[q] \in {0, c[q]}
  BY <1>1 DEF ClearIfMoved
<1> QED BY <1>1, <1>2, <1>3

\* Hence a step that leaves the counters to the OPEN does not raise them.
LEMMA KeptCounter ==
    ASSUME FsmTypes, NEW cm,
           \/ KeepRetry(cm) \/ CompareCounters(cm)
           \/ rnr_retry_counter' = OpenClears(rnr_retry_counter, cm)
    PROVE  RnrCounterMoves
<1> SUFFICES ASSUME NEW q \in QPs PROVE rnr_retry_counter'[q] <= rnr_retry_counter[q]
  BY DEF RnrCounterMoves
<1>1. rnr_retry_counter \in [QPs -> 0..7]
  BY DEF FsmTypes
<1>2. rnr_retry_counter'[q] \in {0, rnr_retry_counter[q]}
  <2>1. CASE rnr_retry_counter' = OpenClears(rnr_retry_counter, cm)
    BY <1>1, <2>1, ClearedCounter
  <2>2. CASE CompareCounters(cm)
    <3>1. rnr_retry_counter' =
            OpenClears(ClearIfMoved(rnr_retry_counter, rnr_retry_psn_mark, rr_qpn), cm)
      BY <2>2 DEF CompareCounters
    <3> QED BY <1>1, <3>1, ClearedCounter
  <2> QED BY <2>1, <2>2 DEF KeepRetry
<1> QED BY <1>1, <1>2

\* A step within a visit, and the one that ends it.
LEMMA Position ==
    ASSUME FsmTypes, NEW s
    PROVE  /\ NextQp => Leaves /\ OneClkFrom'
           /\ GoTo(s) /\ s \notin {"CHECK_TIMEOUT", "WAIT_1CLK", "UPDATE_RD_TABLE"} =>
                Stays /\ OneClkFrom'
           /\ GoTo(s) /\ s # "WAIT_1CLK" /\ Checking => Stays /\ OneClkFrom'
           /\ Via1Clk(s) /\ s \in {"UPDATE_RD_TABLE", "CHANGE_QPN"} /\ Checking =>
                Stays /\ OneClkFrom'
<1>1. NextQp => Leaves /\ OneClkFrom'
  BY DEF NextQp, Leaves, OneClkFrom
<1>2. GoTo(s) /\ s \notin {"CHECK_TIMEOUT", "WAIT_1CLK", "UPDATE_RD_TABLE"} => Stays /\ OneClkFrom'
  BY DEF GoTo, Stays, Checking, Rewinding, OneClkFrom
<1>3. GoTo(s) /\ s # "WAIT_1CLK" /\ Checking => Stays /\ OneClkFrom'
  BY DEF GoTo, Stays, OneClkFrom
<1>4. Via1Clk(s) /\ s \in {"UPDATE_RD_TABLE", "CHANGE_QPN"} /\ Checking => Stays /\ OneClkFrom'
  BY DEF Via1Clk, Stays, OneClkFrom
<1> QED BY <1>1, <1>2, <1>3, <1>4

\* What the proofs need to know of any step of the FSM.
Moves == (Stays \/ Leaves) /\ OneClkFrom' /\ StartedMoves /\ RnrCounterMoves

\* The started bits of a step that does not touch them, or only lowers that of the
\* queue pair it checks.
LEMMA KeptStarted ==
    ASSUME FsmTypes,
           \/ UNCHANGED qp_started_retrans
           \/ Checking /\ qp_started_retrans' = [qp_started_retrans EXCEPT ![rr_qpn] = FALSE]
    PROVE  StartedMoves
BY DEF FsmTypes, StartedMoves

\* The steps of CHECK_TIMEOUT.
LEMMA CheckMoves ==
    ASSUME FsmTypes, NEW cm, NEW close,
           \/ CheckError(cm, close) \/ CheckExhausted(cm, close) \/ CheckTimedOut(cm, close)
           \/ CheckRewind(cm, close) \/ CheckClean(cm, close)
    PROVE  Moves
<1>0. state = "CHECK_TIMEOUT"
  BY DEF CheckError, CheckExhausted, CheckTimedOut, CheckRewind, CheckClean
<1>1. Checking
  BY <1>0 DEF Checking
<1>2. CASE CheckError(cm, close)
  BY <1>1, <1>2, Position, KeptStarted, KeptCounter DEF CheckError, Moves
<1>3. CASE CheckExhausted(cm, close)
  BY <1>1, <1>3, Position, KeptStarted, KeptCounter DEF CheckExhausted, Moves
<1>4. CASE CheckTimedOut(cm, close)
  BY <1>1, <1>4, Position, KeptStarted, KeptCounter DEF CheckTimedOut, Moves, qpFlags
<1>5. CASE CheckRewind(cm, close)
  BY <1>1, <1>5, Position, KeptStarted, KeptCounter DEF CheckRewind, Moves, qpFlags
<1>6. CASE CheckClean(cm, close)
  BY <1>1, <1>6, Position, KeptStarted, KeptCounter DEF CheckClean, Moves
<1> QED BY <1>2, <1>3, <1>4, <1>5, <1>6

\* The rewind, and the states that read the tables.
LEMMA TableStateMoves ==
    ASSUME TypeOK, FsmTypes, OneClkFrom, NEW cm, NEW close,
           \/ UpdateRdTable(cm, close) \/ UpdateRdTableDone(cm, close) \/ FetchTables(cm, close)
           \/ Wait1Clk(cm, close)
    PROVE  Moves
<1>1. CASE UpdateRdTable(cm, close)
  <2>1. Checking /\ ~Checking' /\ rr_qpn' = rr_qpn /\ OneClkFrom'
    BY <1>1 DEF UpdateRdTable, GoTo, Write, Checking, Rewinding, OneClkFrom
  <2>2. StartedMoves
    BY <1>1, <2>1 DEF UpdateRdTable, FsmTypes, StartedMoves, Acts
  <2>3. ASSUME NEW q \in QPs
        PROVE  rnr_retry_counter'[q] <= rnr_retry_counter[q] \/ RnrCounts(q)
    <3>0. rnr_retry_counter \in [QPs -> 0..7] /\ rr_qpn \in QPs
      BY DEF FsmTypes
    <3>1. CASE CountsRnrRetry(rr_qpn)
      <4> DEFINE b == Bump(rnr_retry_counter, rr_qpn)
      <4>1. rnr_retry_counter' = OpenClears(b, cm)
        BY <1>1, <3>1 DEF UpdateRdTable
      <4>2. b \in [QPs -> 0..7]
        BY <3>0, RewindTypes
      <4>3. \A n \in 0..7 : (n + 1) % 8 <= n + 1
        OBVIOUS
      <4>4. /\ q # rr_qpn => b[q] = rnr_retry_counter[q]
            /\ b[q] <= rnr_retry_counter[q] + 1
        BY <3>0, <4>3 DEF Bump
      <4> HIDE DEF b
      <4>5. rnr_retry_counter'[q] \in {0, b[q]}
        BY <4>1, <4>2, ClearedCounter
      <4>6. qp_started_retrans'[rr_qpn]
        BY <1>1, <3>0, <3>1 DEF UpdateRdTable, FsmTypes
      <4>7. tmr[rr_qpn].rnr_wait_done
        BY <3>1 DEF CountsRnrRetry
      <4> QED BY <2>1, <3>0, <4>4, <4>5, <4>6, <4>7 DEF RnrCounts, Acts
    <3>2. CASE ~CountsRnrRetry(rr_qpn)
      <4>1. rnr_retry_counter' = OpenClears(rnr_retry_counter, cm)
        BY <1>1, <3>2 DEF UpdateRdTable
      <4> QED BY <4>1, KeptCounter DEF RnrCounterMoves
    <3> QED BY <3>1, <3>2
  <2> QED BY <2>1, <2>2, <2>3 DEF Moves, Stays, RnrCounterMoves
<1>2. CASE UpdateRdTableDone(cm, close)
  BY <1>2, Position, KeptStarted, KeptCounter DEF UpdateRdTableDone, Moves, qpFlags
<1>3. CASE FetchTables(cm, close)
  BY <1>3, Position, KeptStarted, KeptCounter DEF FetchTables, Moves, qpFlags
<1>4. CASE Wait1Clk(cm, close)
  <2>1. Stays /\ OneClkFrom'
    <3>1. CASE state_cached = "UPDATE_RD_TABLE"
      BY <1>4, <3>1, Position DEF Wait1Clk, Checking, Rewinding
    <3>2. CASE state_cached = "CHANGE_QPN"
      BY <1>4, <3>2, Position DEF Wait1Clk
    <3> QED BY <1>4, <3>1, <3>2 DEF Wait1Clk, OneClkFrom
  <2> QED BY <1>4, <2>1, KeptStarted, KeptCounter DEF Wait1Clk, Moves, qpFlags
<1> QED BY <1>1, <1>2, <1>3, <1>4

\* COMPARE.
LEMMA CompareMoves ==
    ASSUME FsmTypes, NEW cm, NEW close,
           \/ CompareClosed(cm, close) \/ CompareIdle(cm, close)
           \/ CompareRnrWait(cm, close) \/ CompareSend(cm, close)
    PROVE  Moves
<1>1. CASE CompareClosed(cm, close)
  BY <1>1, Position, KeptStarted, KeptCounter DEF CompareClosed, Moves
<1>2. CASE CompareIdle(cm, close)
  BY <1>2, Position, KeptStarted, KeptCounter DEF CompareIdle, Moves, CompareCounters
<1>3. CASE CompareRnrWait(cm, close)
  BY <1>3, Position, KeptStarted, KeptCounter DEF CompareRnrWait, Moves, CompareCounters
<1>4. CASE CompareSend(cm, close)
  BY <1>4, Position, KeptStarted, KeptCounter DEF CompareSend, Moves, CompareCounters
<1> QED BY <1>1, <1>2, <1>3, <1>4

\* The launch of a packet, and the end of a visit.
LEMMA LaunchMoves ==
    ASSUME FsmTypes, NEW cm, NEW close,
           NEW m_roce_ready \in BOOLEAN, NEW dma_ready \in BOOLEAN,
           \/ FetchHdrWait(cm, close)
           \/ FetchHdr(cm, close, m_roce_ready, dma_ready)
           \/ SendHdr(cm, close, m_roce_ready, dma_ready)
           \/ WaitDma(cm, close, dma_ready)
           \/ ChangeQpn(cm, close)
    PROVE  Moves
<1>1. CASE FetchHdrWait(cm, close)
  BY <1>1, Position, KeptStarted, KeptCounter DEF FetchHdrWait, Moves, qpFlags
<1>2. CASE FetchHdr(cm, close, m_roce_ready, dma_ready)
  BY <1>2, Position, KeptStarted, KeptCounter DEF FetchHdr, Moves, qpFlags
<1>3. CASE SendHdr(cm, close, m_roce_ready, dma_ready)
  BY <1>3, Position, KeptStarted, KeptCounter DEF SendHdr, Moves, qpFlags
<1>4. CASE WaitDma(cm, close, dma_ready)
  BY <1>4, Position, KeptStarted, KeptCounter DEF WaitDma, Moves, qpFlags
<1>5. CASE ChangeQpn(cm, close)
  BY <1>5, Position, KeptStarted, KeptCounter DEF ChangeQpn, Moves, qpFlags
<1> QED BY <1>1, <1>2, <1>3, <1>4, <1>5

\* Every step of the FSM.
LEMMA FsmMoves ==
    ASSUME TypeOK, OneClkFrom, NEW cm, NEW close, FsmStep(cm, close)
    PROVE  Moves
<1>1. FsmTypes
  BY DEF TypeOK, FsmTypes
<1> QED BY <1>1, CheckMoves, TableStateMoves, CompareMoves, LaunchMoves DEF FsmStep

-----------------------------------------------------------------------------
(* The sweep.                                                              *)

\* A wait that is still on in t was on in r, and had not been acted on.
Waits(r) == r.rnr_wait \/ r.rnr_wait_done
WaitKept(q, r, t) ==
    Waits(t) => /\ Waits(r) /\ ~(r.rnr_wait_done /\ qp_started_retrans[q])
                /\ r.rnr_wait_done => t.rnr_wait_done

\* An RNR NAK grants a wait only while there is an attempt left.
Granted(q, t) == Waits(t) => RnrRetryLeft(q)

\* The RNR timer ends a wait that has been acted on.
LEMMA RnrTimerKeeps ==
    ASSUME NEW q, NEW r \in Timers
    PROVE  WaitKept(q, r, RnrTimer(q, r))
BY DEF RnrTimer, Timers, WaitKept, Waits

\* A response lowers timed_out, and grants a wait only while there is an attempt left.
LEMMA OnResponseServes ==
    ASSUME NEW q, NEW r \in Timers, NEW t \in Timers, rx \in Acks
    PROVE  /\ ~OnResponse(q, r, t).timed_out
           /\ WaitKept(q, r, t) =>
                WaitKept(q, r, OnResponse(q, r, t)) \/ Granted(q, OnResponse(q, r, t))
<1>1. CASE rx.syndrome = "ACK"
  BY <1>1 DEF OnResponse, OnAck, Timers, WaitKept, Waits
<1>2. CASE rx.syndrome = "RNR_NAK"
  <2>1. RnrRetryLeft(q) \in BOOLEAN
    BY DEF RnrRetryLeft
  <2>2. OnResponse(q, r, t) = OnRnrNak(q, t)
    BY <1>2 DEF OnResponse
  <2>3. /\ ~OnRnrNak(q, t).timed_out /\ ~OnRnrNak(q, t).rnr_wait_done
        /\ OnRnrNak(q, t).rnr_wait = RnrRetryLeft(q)
    BY <2>1 DEF OnRnrNak, Timers
  <2> QED BY <2>2, <2>3 DEF Granted, Waits
<1>3. CASE rx.syndrome = "PSN_SEQ_NAK"
  BY <1>3 DEF OnResponse, OnSeqNak, Timers, WaitKept, Waits
<1>4. CASE rx.syndrome = "FATAL_NAK"
  BY <1>4 DEF OnResponse, Timers, WaitKept, Waits
<1>5. CASE rx.syndrome \notin {"ACK", "RNR_NAK", "PSN_SEQ_NAK", "FATAL_NAK"}
  BY <1>5 DEF OnResponse, OnReserved, Timers, WaitKept, Waits
<1> QED BY <1>1, <1>2, <1>3, <1>4, <1>5

\* Once a retransmission has started the timer lowers timed_out, and the two
\* assignments at the end of the edge raise nothing.
LEMMA TimerServes ==
    ASSUME NEW q, NEW r \in Timers, NEW t \in Timers
    PROVE  /\ qp_started_retrans[q] => ~RetransTimer(q, r, t).timed_out
           /\ WaitKept(q, r, t) => WaitKept(q, r, RetransTimer(q, r, t))
           /\ ~t.timed_out => ~AfterStart(q, AfterClose(q, t)).timed_out
           /\ qp_started_retrans[q] => ~AfterStart(q, AfterClose(q, t)).psn_error
           /\ WaitKept(q, r, t) => WaitKept(q, r, AfterStart(q, AfterClose(q, t)))
           /\ Granted(q, t) => Granted(q, AfterStart(q, AfterClose(q, t)))
<1>1. /\ qp_started_retrans[q] => ~RetransTimer(q, r, t).timed_out
      /\ WaitKept(q, r, t) => WaitKept(q, r, RetransTimer(q, r, t))
  BY DEF RetransTimer, Timers, WaitKept, Waits
<1>2. AfterClose(q, t) \in Timers
  BY TimerTypes
<1>3. /\ ~t.timed_out => ~AfterClose(q, t).timed_out
      /\ AfterClose(q, t).rnr_wait => t.rnr_wait
      /\ AfterClose(q, t).rnr_wait_done => t.rnr_wait_done
      /\ Waits(AfterClose(q, t)) => AfterClose(q, t) = t
  BY DEF AfterClose, Timers, Waits
<1>4. ASSUME NEW u \in Timers
      PROVE  /\ AfterStart(q, u).timed_out = u.timed_out
             /\ qp_started_retrans[q] => ~AfterStart(q, u).psn_error
             /\ AfterStart(q, u).rnr_wait = u.rnr_wait
             /\ AfterStart(q, u).rnr_wait_done = u.rnr_wait_done
  BY DEF AfterStart, Timers
<1> QED BY <1>1, <1>2, <1>3, <1>4 DEF WaitKept, Waits, Granted

\* One edge of the sweep.
LEMMA SweepServes ==
    ASSUME TypeOK, Sweep, NEW q \in QPs
    PROVE  /\ rr_qpn_timeout # q => tmr'[q] = tmr[q]
           /\ rr_qpn_timeout = q /\ qp_started_retrans[q] =>
                ~tmr'[q].timed_out /\ ~tmr'[q].psn_error
           /\ rr_qpn_timeout = q => WaitKept(q, tmr[q], tmr'[q]) \/ Granted(q, tmr'[q])
<1>1. tmr \in [QPs -> Timers] /\ rr_qpn_timeout \in QPs
  BY DEF TypeOK
<1>2. rr_qpn_timeout # q => tmr'[q] = tmr[q]
  BY <1>1 DEF Sweep
<1>3. ASSUME rr_qpn_timeout = q
      PROVE  /\ qp_started_retrans[q] => ~tmr'[q].timed_out /\ ~tmr'[q].psn_error
             /\ WaitKept(q, tmr[q], tmr'[q]) \/ Granted(q, tmr'[q])
  <2> DEFINE r == tmr[q]
             n == RnrTimer(q, r)
             t == IF Addressed(q) THEN OnResponse(q, r, n) ELSE RetransTimer(q, r, n)
  <2>1. tmr'[q] = AfterStart(q, AfterClose(q, t))
    BY <1>1, <1>3 DEF Sweep
  <2>2. r \in Timers /\ n \in Timers
    BY <1>1, RnrTimerType
  <2>3. WaitKept(q, r, n)
    BY <2>2, RnrTimerKeeps
  <2>4. Addressed(q) => rx \in Acks
    BY DEF TypeOK, Addressed
  <2>5. /\ t \in Timers
        /\ qp_started_retrans[q] => ~t.timed_out
        /\ WaitKept(q, r, t) \/ Granted(q, t)
    <3> HIDE DEF r, n
    <3>1. CASE Addressed(q)
      <4>1. t = OnResponse(q, r, n)
        BY <3>1
      <4> QED BY <2>2, <2>3, <2>4, <3>1, <4>1, OnResponseType, OnResponseServes
    <3>2. CASE ~Addressed(q)
      <4>1. t = RetransTimer(q, r, n)
        BY <3>2
      <4> QED BY <2>2, <2>3, <4>1, TimerTypes, TimerServes
    <3> QED BY <3>1, <3>2
  <2> HIDE DEF r, n, t
  <2>6. WaitKept(q, r, tmr'[q]) \/ Granted(q, tmr'[q])
    BY <2>1, <2>2, <2>5, TimerServes
  <2>7. qp_started_retrans[q] => ~tmr'[q].timed_out /\ ~tmr'[q].psn_error
    BY <2>1, <2>2, <2>5, TimerServes
  <2> QED BY <2>6, <2>7 DEF r
<1> QED BY <1>2, <1>3

-----------------------------------------------------------------------------
(* A flag is served once, and RNR waits are bounded.                       *)

\* The sweep is at q at least once before the FSM is back at it: a distance that
\* shrinks by at most one stays ahead of one that shrinks by exactly one.
LEMMA StaysAhead ==
    ASSUME TypeOK, Stays \/ Leaves, Sweep, NEW q \in QPs
    PROVE  /\ rr_qpn_timeout # q /\ Far(q) > Near(q) => Far(q)' > Near(q)'
           /\ Acts(q) => Far(q)' > Near(q)'
           /\ rr_qpn = q /\ Checking => ~(Far(q) > Near(q))
<1>1. /\ Far(q) \in 0..MAX_QPS /\ Far(q)' \in 0..MAX_QPS /\ Far(q)' >= Far(q) - 1
  BY FarStep DEF TypeOK
<1>2. /\ Near(q) \in 0..(MAX_QPS - 1) /\ Near(q)' \in 0..(MAX_QPS - 1)
      /\ rr_qpn_timeout # q => Near(q)' = Near(q) - 1
  BY NearStep
<1>3. Acts(q) => Far(q)' = MAX_QPS
  BY DEF Acts, Far
<1>4. rr_qpn = q /\ Checking => Far(q) = 0
  BY DEF Far
<1> QED BY <1>1, <1>2, <1>3, <1>4, QpAssumption

\* One edge keeps FlagServed.
LEMMA FlagEdge ==
    ASSUME TypeOK, FlagServed, Moves, Sweep
    PROVE  FlagServed'
<1> SUFFICES ASSUME NEW q \in QPs, qp_started_retrans'[q],
                    tmr'[q].timed_out \/ tmr'[q].psn_error
             PROVE  Far(q)' > Near(q)'
  BY DEF FlagServed
<1>1. /\ rr_qpn_timeout # q => tmr'[q] = tmr[q]
      /\ rr_qpn_timeout = q => ~qp_started_retrans[q]
  BY SweepServes
<1>2. CASE qp_started_retrans[q]
  <2>1. rr_qpn_timeout # q /\ Far(q) > Near(q)
    BY <1>1, <1>2 DEF FlagServed
  <2> QED BY <2>1, StaysAhead DEF Moves
<1>3. CASE ~qp_started_retrans[q]
  BY <1>3, StaysAhead DEF Moves, StartedMoves
<1> QED BY <1>2, <1>3

\* One edge keeps WaitServed, and the bound it is there for.
LEMMA WaitEdge ==
    ASSUME TypeOK, TypeOK', WaitServed, RnrRetryBounded, Moves, Sweep
    PROVE  WaitServed' /\ RnrRetryBounded'
<1> SUFFICES ASSUME NEW q \in QPs
             PROVE  /\ rnr_retry_counter'[q] <= rnr_retry_count + 1
                    /\ Overdrawn(q)' => /\ tmr'[q].rnr_wait_done /\ qp_started_retrans'[q]
                                        /\ Far(q)' > Near(q)'
  BY DEF WaitServed, RnrRetryBounded
<1>0. /\ rnr_retry_counter[q] \in 0..7 /\ rnr_retry_counter'[q] \in 0..7
      /\ rnr_retry_count \in 0..7 /\ rnr_retry_counter[q] <= rnr_retry_count + 1
  BY RetryAssumption DEF TypeOK, RnrRetryBounded
<1>1. rnr_retry_counter'[q] <= rnr_retry_counter[q] \/ RnrCounts(q)
  BY DEF Moves, RnrCounterMoves
<1>2. Overdrawn(q) => /\ tmr[q].rnr_wait_done /\ qp_started_retrans[q]
                      /\ Far(q) > Near(q) /\ ~(rr_qpn = q /\ Checking)
  BY StaysAhead DEF WaitServed, Moves
<1>3. RnrCounts(q) => rnr_retry_counter[q] <= rnr_retry_count \/ rnr_retry_count = 7
  BY <1>0, <1>2 DEF RnrCounts, Acts, Overdrawn
<1>4. rnr_retry_counter'[q] <= rnr_retry_count + 1
  BY <1>0, <1>1, <1>3 DEF RnrCounts
<1>5. ASSUME Overdrawn(q)'
      PROVE  tmr'[q].rnr_wait_done /\ qp_started_retrans'[q] /\ Far(q)' > Near(q)'
  <2>1. /\ Waits(tmr'[q]) /\ rnr_retry_counter'[q] > rnr_retry_count /\ rnr_retry_count # 7
    BY <1>5 DEF Overdrawn, Waits
  <2>2. ~(rnr_retry_counter[q] < rnr_retry_count)
    BY <1>0, <1>1, <2>1 DEF RnrCounts
  <2>3. ~Granted(q, tmr'[q])
    BY <2>1, <2>2 DEF Granted, RnrRetryLeft
  <2>4. /\ rr_qpn_timeout # q => tmr'[q] = tmr[q]
        /\ rr_qpn_timeout = q => WaitKept(q, tmr[q], tmr'[q])
    BY <2>3, SweepServes
  <2>5. Waits(tmr[q]) /\ (tmr[q].rnr_wait_done => tmr'[q].rnr_wait_done)
    BY <2>1, <2>4 DEF WaitKept
  <2>6. CASE RnrCounts(q)
    BY <2>5, <2>6, StaysAhead DEF RnrCounts, Moves
  <2>7. CASE ~RnrCounts(q)
    <3>1. Overdrawn(q)
      BY <1>0, <1>1, <2>1, <2>5, <2>7 DEF Overdrawn, Waits
    <3>2. rr_qpn_timeout # q
      BY <1>2, <2>1, <2>4, <3>1 DEF WaitKept
    <3>3. qp_started_retrans'[q]
      BY <1>2, <3>1 DEF Moves, StartedMoves
    <3> QED BY <1>2, <2>5, <3>1, <3>2, <3>3, StaysAhead DEF Moves
  <2> QED BY <2>6, <2>7
<1> QED BY <1>4, <1>5

\* The conjunction is inductive.
LEMMA ServedStep == ServedInv /\ [Next]_vars => ServedInv'
<1> SUFFICES ASSUME ServedInv, [Next]_vars PROVE ServedInv'
  OBVIOUS
<1> USE DEF ServedInv
<1>1. CASE Next
  <2>1. PICK cm \in CmInputs, close \in CloseInputs : \E outcome :
          FsmStep(cm, close) /\ Tick(cm, close, outcome) /\ Responds(outcome)
    BY <1>1, NextIsEdge
  <2>2. PICK outcome : FsmStep(cm, close) /\ Tick(cm, close, outcome) /\ Responds(outcome)
    BY <2>1
  <2>3. Sweep
    BY <2>2 DEF Tick
  <2>4. Moves
    BY <2>2, FsmMoves
  <2>5. TypeOK'
    BY <2>2, TypeEdge
  <2>6. FlagServed'
    BY <2>3, <2>4, FlagEdge
  <2>7. WaitServed' /\ RnrRetryBounded'
    BY <2>3, <2>4, <2>5, WaitEdge
  <2> QED BY <2>4, <2>5, <2>6, <2>7 DEF Moves
<1>2. CASE UNCHANGED vars
  <2>1. TypeOK'
    BY <1>2, TypeStutter
  <2>2. UNCHANGED <<state, state_cached, rr_qpn, rr_qpn_timeout, m_rd_table, tmr,
                    qp_started_retrans, rnr_retry_counter>>
    BY <1>2 DEF vars, readVars, fsmVars, retryVars, qpFlags
  <2>3. OneClkFrom' /\ RnrRetryBounded'
    BY <2>2 DEF OneClkFrom, RnrRetryBounded
  <2>4. \A q : Far(q)' = Far(q) /\ Near(q)' = Near(q)
    BY <2>2 DEF Far, Near, Checking, Rewinding, Distance
  <2>5. FlagServed' /\ WaitServed'
    BY <2>2, <2>4 DEF FlagServed, WaitServed, Overdrawn
  <2> QED BY <2>1, <2>3, <2>5
<1> QED BY <1>1, <1>2

\* It holds after reset, when no flag is up.
LEMMA ServedInit == Init => ServedInv
<1> SUFFICES ASSUME Init PROVE ServedInv
  OBVIOUS
<1>1. TypeOK
  BY TypeInit
<1>2. OneClkFrom
  BY DEF Init, ReadInit, OneClkFrom
<1>3. \A q \in QPs : ~qp_started_retrans[q] /\ rnr_retry_counter[q] = 0
  BY DEF Init, ReadInit
<1> QED BY <1>1, <1>2, <1>3, RetryAssumption
        DEF ServedInv, FlagServed, WaitServed, Overdrawn, RnrRetryBounded

\* Hence it holds in every state.
LEMMA ServedHolds == Spec => []ServedInv
BY ServedInit, ServedStep, PTL DEF Spec

\* A timeout or a sequence error is served once (CHECK_TIMEOUT of the read module):
\* when the FSM is back at a queue pair whose retransmission it has started, the
\* sweep has lowered both flags, however many queue pairs there are and however
\* short the other visits were.
THEOREM ServedOnlyOnce == Spec => []ServedOnce
<1>1. ServedInv => ServedOnce
  <2> SUFFICES ASSUME ServedInv, state = "CHECK_TIMEOUT", qp_started_retrans[rr_qpn]
               PROVE  ~tmr[rr_qpn].timed_out /\ ~tmr[rr_qpn].psn_error
    BY DEF ServedOnce
  <2>1. rr_qpn \in QPs /\ rr_qpn_timeout \in QPs
    BY DEF ServedInv, TypeOK
  <2>2. Far(rr_qpn) = 0
    BY DEF Far, Checking
  <2>3. Near(rr_qpn) \in 0..(MAX_QPS - 1)
    BY <2>1, RoundStep DEF Near
  <2>4. ~(Far(rr_qpn) > Near(rr_qpn))
    BY <2>2, <2>3, QpAssumption
  <2> QED BY <2>1, <2>4 DEF ServedInv, FlagServed
<1> QED BY ServedHolds, <1>1, PTL

\* The counter of RNR waits passes rnr_retry_count by one at most, whatever the
\* responder answers and whenever its answers are decoded: the comparison in the
\* sweep and the increment in the FSM can miss each other once, not twice.
THEOREM RnrRetriesBounded == Spec => []RnrRetryBounded
<1>1. ServedInv => RnrRetryBounded
  BY DEF ServedInv
<1> QED BY ServedHolds, <1>1, PTL

-----------------------------------------------------------------------------
(* The number of attempts.                                                 *)

\* The responder and the network add no wait and no gap to a calm exchange.
LEMMA CalmReply ==
    ASSUME Responses \cap {"RNR_NAK", "PSN_SEQ_NAK"} = {}, TypeOK, NEW outcome, Responds(outcome)
    PROVE  outcome.reply \in Seq(Calm)
<1>1. \A q \in QPs, p \in Psn, s \in Syndromes \ {"RNR_NAK", "PSN_SEQ_NAK"} :
        Reply(q, p, s) \in Seq(Calm)
  BY DEF Reply, Calm, Acks
<1>2. <<>> \in Seq(Calm)
  BY EmptySeq
<1>3. \A e, r : Outcome(e, r).reply = r
  BY DEF Outcome
<1>4. ASSUME NEW q \in QPs, NEW p \in Psn, NEW o \in Received(q, p)
      PROVE  o.reply \in Seq(Calm)
  <2>1. epsn[q] \in Psn /\ PsnDec(epsn[q]) \in Psn
    BY PsnSteps DEF TypeOK
  <2>2. "ACK" \in Syndromes \ {"RNR_NAK", "PSN_SEQ_NAK"}
    BY DEF Syndromes
  <2>3. Responses \subseteq Syndromes \ {"RNR_NAK", "PSN_SEQ_NAK"}
    BY NetworkAssumption
  <2>4. CASE conn[q] # "open"
    BY <1>2, <1>3, <2>4 DEF Received
  <2>5. CASE conn[q] = "open" /\ p = epsn[q]
    <3>1. PICK s \in Responses : \E e : o = Outcome(e, Reply(q, p, s))
      BY <2>5 DEF Received
    <3> QED BY <1>1, <1>3, <2>3, <3>1
  <2>6. CASE conn[q] = "open" /\ p # epsn[q] /\ Ahead(p, epsn[q])
    <3>1. o = Outcome(epsn[q], <<>>)
      BY <2>6 DEF Received
    <3> QED BY <1>2, <1>3, <3>1
  <2>7. CASE conn[q] = "open" /\ p # epsn[q] /\ ~Ahead(p, epsn[q])
    <3>1. o = Outcome(epsn[q], Reply(q, PsnDec(epsn[q]), "ACK"))
      BY <2>7 DEF Received
    <3> QED BY <1>1, <1>3, <2>1, <2>2, <3>1
  <2> QED BY <2>4, <2>5, <2>6, <2>7
<1>5. CASE outcome = NoOutcome
  BY <1>2, <1>3, <1>5 DEF NoOutcome
<1>6. CASE outcome \in Outcomes
  <2> DEFINE p == hdr_ram[rr_qpn][HdrSlotOf(LaunchedPsn)]
             r == IF p = None THEN {Outcome(epsn[rr_qpn], <<>>)} ELSE Received(rr_qpn, p)
  <2>1. rr_qpn \in QPs /\ p \in Psn \cup {None}
    <3>1. HdrSlotOf(LaunchedPsn) \in 0..(HDR_SLOTS - 1) /\ rr_qpn \in QPs
      BY PsnSteps DEF TypeOK, LaunchedPsn
    <3> QED BY <3>1 DEF TypeOK
  <2>2. outcome \in r \/ \E e : outcome = Outcome(e, <<>>)
    BY <1>6 DEF Outcomes
  <2>3. \A o \in r : o.reply \in Seq(Calm)
    <3>1. CASE p = None
      BY <1>2, <1>3, <3>1
    <3>2. CASE p # None
      BY <1>4, <2>1, <3>2
    <3> QED BY <3>1, <3>2
  <2> QED BY <1>2, <1>3, <2>2, <2>3
<1> QED BY <1>5, <1>6 DEF Responds

\* What is on its way back stays calm.
LEMMA CalmReceive ==
    ASSUME CalmResponses, NEW outcome, outcome.reply \in Seq(Calm),
           NEW arrives \in ArriveInputs, Receive(outcome, arrives)
    PROVE  CalmResponses'
<1>1. ackq \in Seq(Calm) /\ rx \in Calm \cup {NoAck}
  BY DEF CalmResponses
<1>2. arrives => Head(ackq) \in Calm /\ Tail(ackq) \in Seq(Calm)
  BY <1>1, HeadTailProperties DEF ArriveInputs
<1>3. rx' \in Calm \cup {NoAck}
  BY <1>1, <1>2 DEF Receive
<1>4. ackq' \in Seq(Calm)
  <2> DEFINE left == IF arrives THEN Tail(ackq) ELSE ackq
  <2>1. left \in Seq(Calm)
    BY <1>1, <1>2
  <2>2. ackq' = IF Len(left) < MaxAcks THEN left \o outcome.reply ELSE left
    BY DEF Receive
  <2> HIDE DEF left
  <2>3. left \o outcome.reply \in Seq(Calm)
    BY <2>1, ConcatProperties
  <2> QED BY <2>1, <2>2, <2>3
<1> QED BY <1>3, <1>4 DEF CalmResponses

CalmTimer(t) == ~t.psn_error /\ ~t.rnr_wait /\ ~t.rnr_wait_done

\* Neither another response nor the timer raises a flag of a wait or of a gap.
LEMMA CalmResponse ==
    ASSUME NEW q, NEW r \in Timers, CalmTimer(r)
    PROVE  /\ rx.syndrome \notin {"RNR_NAK", "PSN_SEQ_NAK"} => CalmTimer(OnResponse(q, r, r))
           /\ CalmTimer(RetransTimer(q, r, r))
<1>1. rx.syndrome = "ACK" => CalmTimer(OnResponse(q, r, r))
  BY DEF OnResponse, OnAck, Timers, CalmTimer
<1>2. rx.syndrome = "FATAL_NAK" => CalmTimer(OnResponse(q, r, r))
  BY DEF OnResponse, Timers, CalmTimer
<1>3. rx.syndrome \notin {"ACK", "RNR_NAK", "PSN_SEQ_NAK", "FATAL_NAK"} =>
        CalmTimer(OnResponse(q, r, r))
  BY DEF OnResponse, OnReserved, Timers, CalmTimer
<1>4. CalmTimer(RetransTimer(q, r, r))
  BY DEF RetransTimer, Timers, CalmTimer
<1> QED BY <1>1, <1>2, <1>3, <1>4

\* Without an RNR or a sequence NAK at the input no such flag goes up.
LEMMA CalmSweep ==
    ASSUME TypeOK, CalmTimers, CalmResponses, Sweep
    PROVE  CalmTimers'
<1> SUFFICES ASSUME NEW q \in QPs PROVE CalmTimer(tmr'[q])
  BY DEF CalmTimers, CalmTimer
<1>1. tmr \in [QPs -> Timers] /\ rr_qpn_timeout \in QPs /\ CalmTimer(tmr[q])
  BY DEF TypeOK, CalmTimers, CalmTimer
<1>2. CASE rr_qpn_timeout # q
  BY <1>1, <1>2, SweepServes
<1>3. CASE rr_qpn_timeout = q
  <2> DEFINE r == tmr[q]
             t == IF Addressed(q) THEN OnResponse(q, r, r) ELSE RetransTimer(q, r, r)
  <2>1. r \in Timers /\ RnrTimer(q, r) = r
    BY <1>1 DEF RnrTimer, CalmTimer
  <2>2. tmr'[q] = AfterStart(q, AfterClose(q, t))
    BY <1>1, <1>3, <2>1 DEF Sweep
  <2>3. Addressed(q) => rx \in Acks /\ rx.syndrome \notin {"RNR_NAK", "PSN_SEQ_NAK"}
    BY DEF CalmResponses, Calm, Addressed
  <2>4. t \in Timers /\ CalmTimer(t)
    <3>0. CalmTimer(r)
      BY <1>1
    <3> HIDE DEF r
    <3>1. CASE Addressed(q)
      BY <2>1, <2>3, <3>0, <3>1, OnResponseType, CalmResponse
    <3>2. CASE ~Addressed(q)
      BY <2>1, <3>0, <3>2, TimerTypes, CalmResponse
    <3> QED BY <3>1, <3>2
  <2> HIDE DEF t
  <2>5. AfterClose(q, t) \in Timers /\ CalmTimer(AfterClose(q, t))
    BY <2>4, TimerTypes DEF AfterClose, Timers, CalmTimer
  <2> QED BY <2>2, <2>5 DEF AfterStart, Timers, CalmTimer
<1> QED BY <1>2, <1>3

\* A step of the FSM counts an attempt only where it has found one left; in all
\* others the counters stay or fall.
RetryCounts(q) ==
    q = rr_qpn /\ Rewinding /\ ~Rewinding' /\ retry_counter'[q] <= retry_counter[q] + 1
RetryMoves ==
    /\ \A q \in QPs : retry_counter'[q] \in {0, retry_counter[q]} \/ RetryCounts(q)
    /\ Rewinding' => /\ rr_qpn' = rr_qpn
                     /\ Rewinding \/ retry_counter[rr_qpn] # retry_count

\* The counters of a step that leaves them to an OPEN or to progress.
LEMMA KeptRetries ==
    ASSUME FsmTypes, NEW cm, NEW q \in QPs,
           \/ KeepRetry(cm) \/ CompareCounters(cm)
           \/ retry_counter' = OpenClears(retry_counter, cm)
           \/ retry_counter' = OpenClears([retry_counter EXCEPT ![rr_qpn] = 0], cm)
    PROVE  retry_counter'[q] \in {0, retry_counter[q]}
<1>1. retry_counter \in [QPs -> 0..7]
  BY DEF FsmTypes
<1>2. CASE CompareCounters(cm)
  <2>1. retry_counter' = OpenClears(ClearIfMoved(retry_counter, retry_psn_mark, rr_qpn), cm)
    BY <1>2 DEF CompareCounters
  <2> QED BY <1>1, <2>1, ClearedCounter
<1>3. CASE retry_counter' = OpenClears(retry_counter, cm)
  BY <1>1, <1>3, ClearedCounter
<1>4. CASE retry_counter' = OpenClears([retry_counter EXCEPT ![rr_qpn] = 0], cm)
  BY <1>1, <1>4, ClearedCounter
<1> QED BY <1>2, <1>3, <1>4 DEF KeepRetry

\* Which steps lead to a rewind.
LEMMA ToRewind ==
    ASSUME NEW s
    PROVE  /\ NextQp => ~Rewinding'
           /\ GoTo(s) /\ s \notin {"WAIT_1CLK", "UPDATE_RD_TABLE"} => ~Rewinding'
           /\ Via1Clk(s) /\ s # "UPDATE_RD_TABLE" => ~Rewinding'
<1>1. NextQp => ~Rewinding'
  BY DEF NextQp, Rewinding
<1>2. GoTo(s) /\ s \notin {"WAIT_1CLK", "UPDATE_RD_TABLE"} => ~Rewinding'
  BY DEF GoTo, Rewinding
<1>3. Via1Clk(s) /\ s # "UPDATE_RD_TABLE" => ~Rewinding'
  BY DEF Via1Clk, Rewinding
<1> QED BY <1>1, <1>2, <1>3

\* Every step of the FSM, when no gap and no wait is reported.
LEMMA FsmRetries ==
    ASSUME TypeOK, CalmTimers, OneClkFrom, NEW cm, NEW close, FsmStep(cm, close)
    PROVE  RetryMoves
<1>0. FsmTypes /\ rr_qpn \in QPs
  BY DEF TypeOK, FsmTypes
<1>1. ASSUME \A q \in QPs : retry_counter'[q] \in {0, retry_counter[q]}, ~Rewinding'
      PROVE  RetryMoves
  BY <1>1 DEF RetryMoves
<1>2. CASE CheckError(cm, close)
  BY <1>0, <1>1, <1>2, KeptRetries, ToRewind DEF CheckError
<1>3. CASE CheckExhausted(cm, close)
  BY <1>0, <1>1, <1>3, KeptRetries, ToRewind DEF CheckExhausted
<1>4. CASE CheckTimedOut(cm, close)
  <2>1. \A q \in QPs : retry_counter'[q] \in {0, retry_counter[q]}
    BY <1>0, <1>4, KeptRetries DEF CheckTimedOut
  <2>2. rr_qpn' = rr_qpn /\ retry_counter[rr_qpn] # retry_count
    BY <1>4 DEF CheckTimedOut, RetryExhausted, Via1Clk
  <2> QED BY <2>1, <2>2 DEF RetryMoves
<1>5. ~CheckRewind(cm, close)
  BY <1>0 DEF CheckRewind, CalmTimers
<1>6. CASE CheckClean(cm, close)
  BY <1>0, <1>1, <1>6, KeptRetries, ToRewind DEF CheckClean
<1>7. CASE UpdateRdTable(cm, close)
  <2>1. Rewinding /\ ~Rewinding'
    BY <1>7 DEF UpdateRdTable, GoTo, Write, Rewinding
  <2>2. ASSUME NEW q \in QPs
        PROVE  retry_counter'[q] \in {0, retry_counter[q]} \/ RetryCounts(q)
    <3>1. CASE CountsRetry(rr_qpn)
      <4> DEFINE b == Bump(retry_counter, rr_qpn)
      <4>1. retry_counter' = OpenClears(b, cm)
        BY <1>7, <3>1 DEF UpdateRdTable
      <4>2. b \in [QPs -> 0..7] /\ retry_counter \in [QPs -> 0..7]
        BY <1>0, RewindTypes DEF FsmTypes
      <4>3. \A n \in 0..7 : (n + 1) % 8 <= n + 1
        OBVIOUS
      <4>4. /\ q # rr_qpn => b[q] = retry_counter[q]
            /\ b[q] <= retry_counter[q] + 1
        BY <1>0, <4>2, <4>3 DEF Bump
      <4> HIDE DEF b
      <4>5. retry_counter'[q] \in {0, b[q]}
        BY <4>1, <4>2, ClearedCounter
      <4> QED BY <2>1, <4>2, <4>4, <4>5 DEF RetryCounts
    <3>2. CASE ~CountsRetry(rr_qpn)
      <4>1. retry_counter' = OpenClears(retry_counter, cm)
        BY <1>7, <3>2 DEF UpdateRdTable
      <4> QED BY <1>0, <4>1, KeptRetries
    <3> QED BY <3>1, <3>2
  <2> QED BY <2>1, <2>2 DEF RetryMoves
<1>8. CASE UpdateRdTableDone(cm, close)
  BY <1>0, <1>1, <1>8, KeptRetries, ToRewind DEF UpdateRdTableDone
<1>9. CASE FetchTables(cm, close)
  BY <1>0, <1>1, <1>9, KeptRetries, ToRewind DEF FetchTables
<1>10. CASE CompareClosed(cm, close)
  BY <1>0, <1>1, <1>10, KeptRetries, ToRewind DEF CompareClosed
<1>11. CASE CompareIdle(cm, close) \/ CompareRnrWait(cm, close)
  BY <1>0, <1>1, <1>11, KeptRetries, ToRewind DEF CompareIdle, CompareRnrWait
<1>12. CASE CompareSend(cm, close)
  BY <1>0, <1>1, <1>12, KeptRetries, ToRewind DEF CompareSend
<1>13. CASE FetchHdrWait(cm, close) \/ ChangeQpn(cm, close)
  BY <1>0, <1>1, <1>13, KeptRetries, ToRewind DEF FetchHdrWait, ChangeQpn
<1>14. CASE \E m_roce_ready, dma_ready \in BOOLEAN :
              \/ FetchHdr(cm, close, m_roce_ready, dma_ready)
              \/ SendHdr(cm, close, m_roce_ready, dma_ready)
              \/ WaitDma(cm, close, dma_ready)
  <2>1. KeepRetry(cm)
    BY <1>14 DEF FetchHdr, SendHdr, WaitDma
  <2>2. \E s \in {"SEND_HDR", "WAIT_DMA"} : NextQp \/ GoTo(s)
    BY <1>14 DEF FetchHdr, SendHdr, WaitDma
  <2>3. ~Rewinding'
    BY <2>2, ToRewind
  <2> QED BY <1>0, <1>1, <2>1, <2>3, KeptRetries
<1>15. CASE Wait1Clk(cm, close)
  <2>1. \A q \in QPs : retry_counter'[q] \in {0, retry_counter[q]}
    BY <1>0, <1>15, KeptRetries DEF Wait1Clk
  <2>2. CASE state_cached = "UPDATE_RD_TABLE"
    BY <1>15, <2>1, <2>2 DEF Wait1Clk, GoTo, Rewinding, RetryMoves
  <2>3. CASE state_cached = "CHANGE_QPN"
    BY <1>1, <1>15, <2>1, <2>3, ToRewind DEF Wait1Clk
  <2> QED BY <1>15, <2>2, <2>3 DEF Wait1Clk, OneClkFrom
<1> QED BY <1>2, <1>3, <1>4, <1>5, <1>6, <1>7, <1>8, <1>9, <1>10, <1>11, <1>12, <1>13,
           <1>14, <1>15 DEF FsmStep

\* Hence the counter of the queue pair that is being rewound is below the limit,
\* and no counter passes it.
LEMMA RetryEdge ==
    ASSUME TypeOK, TypeOK', RetryLeft, RetryBounded, RetryMoves
    PROVE  RetryLeft' /\ RetryBounded'
<1>0. /\ retry_counter \in [QPs -> 0..7] /\ retry_counter' \in [QPs -> 0..7]
      /\ retry_count \in 0..7 /\ rr_qpn \in QPs
  BY RetryAssumption DEF TypeOK
<1>1. ASSUME NEW q \in QPs PROVE retry_counter'[q] <= retry_count
  <2>1. retry_counter[q] <= retry_count
    BY DEF RetryBounded
  <2>2. RetryCounts(q) => retry_counter[q] < retry_count
    BY DEF RetryCounts, RetryLeft
  <2> QED BY <1>0, <2>1, <2>2 DEF RetryMoves, RetryCounts
<1>2. ASSUME Rewinding' PROVE retry_counter'[rr_qpn'] < retry_count
  <2>1. rr_qpn' = rr_qpn /\ retry_counter'[rr_qpn] \in {0, retry_counter[rr_qpn]}
    BY <1>0, <1>2 DEF RetryMoves, RetryCounts
  <2>2. retry_counter[rr_qpn] < retry_count
    BY <1>0, <1>2 DEF RetryMoves, RetryLeft, RetryBounded
  <2> QED BY <1>0, <2>1, <2>2
<1> QED BY <1>1, <1>2 DEF RetryLeft, RetryBounded

\* The conjunction is inductive.
LEMMA RetryStep ==
    ASSUME Responses \cap {"RNR_NAK", "PSN_SEQ_NAK"} = {}
    PROVE  RetryInv /\ [Next]_vars => RetryInv'
<1> SUFFICES ASSUME RetryInv, [Next]_vars PROVE RetryInv'
  OBVIOUS
<1> USE DEF RetryInv
<1>1. CASE Next
  <2>1. PICK cm \in CmInputs, close \in CloseInputs : \E outcome :
          FsmStep(cm, close) /\ Tick(cm, close, outcome) /\ Responds(outcome)
    BY <1>1, NextIsEdge
  <2>2. PICK outcome : FsmStep(cm, close) /\ Tick(cm, close, outcome) /\ Responds(outcome)
    BY <2>1
  <2>3. PICK arrives \in ArriveInputs : Receive(outcome, arrives)
    BY <2>2 DEF Tick
  <2>4. TypeOK'
    BY <2>2, TypeEdge
  <2>5. CalmResponses'
    BY <2>2, <2>3, CalmReply, CalmReceive
  <2>6. CalmTimers'
    BY <2>2, CalmSweep DEF Tick
  <2>7. OneClkFrom'
    BY <2>2, FsmMoves DEF Moves
  <2>8. RetryLeft' /\ RetryBounded'
    BY <2>2, <2>4, FsmRetries, RetryEdge
  <2> QED BY <2>4, <2>5, <2>6, <2>7, <2>8
<1>2. CASE UNCHANGED vars
  <2>1. TypeOK'
    BY <1>2, TypeStutter
  <2>2. UNCHANGED <<state, state_cached, rr_qpn, m_rd_table, tmr, retry_counter, ackq, rx>>
    BY <1>2 DEF vars, readVars, fsmVars, retryVars, envVars
  <2> QED BY <2>1, <2>2
          DEF OneClkFrom, CalmResponses, CalmTimers, RetryLeft, Rewinding, RetryBounded
<1> QED BY <1>1, <1>2

\* It holds after reset.
LEMMA RetryInit == Init => RetryInv
<1> SUFFICES ASSUME Init PROVE RetryInv
  OBVIOUS
<1>1. TypeOK
  BY TypeInit
<1>2. OneClkFrom /\ RetryLeft
  BY DEF Init, ReadInit, OneClkFrom, RetryLeft, Rewinding
<1>3. CalmResponses
  BY EmptySeq DEF Init, CalmResponses
<1>4. CalmTimers
  BY DEF Init, ReadInit, CalmTimers
<1>5. RetryBounded
  BY RetryAssumption DEF Init, ReadInit, RetryBounded
<1> QED BY <1>1, <1>2, <1>3, <1>4, <1>5 DEF RetryInv

\* The number of attempts is bounded by retry_count when the responder reports no
\* gap and asks for no wait: the comparison in CHECK_TIMEOUT and the increment two
\* or three edges later, with the flag read again, agree.  (A sequence NAK compares
\* with the counter's largest value instead, and may go beyond.)
THEOREM RetriesBounded ==
    ASSUME Responses \cap {"RNR_NAK", "PSN_SEQ_NAK"} = {}
    PROVE  Spec => []RetryBounded
<1>1. RetryInv => RetryBounded
  BY DEF RetryInv
<1>2. RetryInv /\ [Next]_vars => RetryInv'
  BY RetryStep
<1> QED BY RetryInit, <1>1, <1>2, PTL DEF Spec

=============================================================================
