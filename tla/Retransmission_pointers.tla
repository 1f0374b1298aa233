----------------------- MODULE Retransmission_pointers -----------------------
(***************************************************************************)
(* The pointers of one connection: that its three PSN tables keep their    *)
(* order, for every window, PSN space and buffer, every loss and every     *)
(* delay.                                                                  *)
(*                                                                         *)
(* The queue pair is called a.  It is opened once; the others are idle.    *)
(***************************************************************************)
EXTENDS Retransmission_proofs

-----------------------------------------------------------------------------
(* The invariant.                                                          *)

\* The three tables and the two ends of the connection, as counts of packets.
W(a) == Count(wr_table[a])
R(a) == Count(rd_table[a])
C(a) == Count(cpl_table[a])
E(a) == Index(epsn[a])
N(a) == Index(np[a])

\* From the OPEN to the edge at which its reset reaches the tables.
Opening(a) == conn[a] = "open" /\ m_table_rst.we
Fresh(a)   == conn[a] = "none" \/ Opening(a)

\* timed_out is up only while the timer has run out.
TimedOutIsOut == \A q \in QPs : tmr[q].timed_out => CounterOut(tmr[q].timeout_counter)

\* The sweep clears the timer of a queue pair that was given up before the FSM is
\* back at it.
ClosedServed ==
    \A q \in QPs : qp_closed[q] /\ tmr[q].timed_out /\ ~tmr[q].error => Far(q) > Near(q)

\* The write of the FSM to rd_table is over before the FSM reads the table.
RdWriteStates ==
    m_rd_table.we => state \in {"UPDATE_RD_TABLE", "CHECK_TIMEOUT", "SEND_HDR", "WAIT_DMA"}

\* A slot of the header RAM holds only PSNs that belong there.
SlotsKept ==
    \A q \in QPs, s \in 0..(HDR_SLOTS - 1) :
        hdr_ram[q][s] # None => HdrSlotOf(hdr_ram[q][s]) = s

\* No other queue pair is opened.
OnlyOne(a) == \A q \in QPs : q # a => conn[q] # "open"

\* Announcements, entries and responses are those of a.
Mine(a) ==
    /\ m_wr_table.we => m_wr_table.qpn = a
    /\ \A x \in Pending : x.qpn = a
    /\ rx # NoAck => rx.qpn = a
    /\ \A i \in 1..Len(ackq) : ackq[i].qpn = a

\* A rewind goes on until it is done, unless an acknowledge ends its reason.
RewindKept(a) ==
    Rewinding => /\ ~qp_started_retrans[rr_qpn] /\ ~qp_closed[rr_qpn]
                 /\ tmr[rr_qpn].timed_out \/ (rr_qpn = a /\ conn[a] = "open")

\* A queue pair without packets: its tables say so, and the FSM finds nothing to send.
Unused(q) ==
    /\ wr_table[q] = PSN_RESET /\ rd_table[q] = PSN_RESET /\ cpl_table[q] = PSN_RESET
    /\ m_rd_table.we /\ m_rd_table.qpn = q => m_rd_table.psn = PSN_RESET
    /\ ~tmr[q].error
    /\ rr_qpn = q => /\ state \notin {"FETCH_HDR", "SEND_HDR", "WAIT_DMA"}
                     /\ state = "UPDATE_RD_TABLE" /\ ~m_rd_table.we => s_cpl = PSN_RESET
                     /\ state = "COMPARE" => s_wr = s_rd /\ s_cpl = s_wr

\* All but a are unused, and so is a before its OPEN.
OthersUnused(a) ==
    /\ \A q \in QPs : q # a \/ Fresh(a) => Unused(q)
    /\ m_table_rst.we => m_table_rst.psn = PSN_RESET \/ Opening(a)

\* Nothing of a connection is there before it.
FreshStart(a) ==
    Fresh(a) => /\ epsn[a] = OpenPsn /\ rx = NoAck /\ ackq = <<>>
                /\ ~m_wr_table.we /\ Pending = {}

\* The reset write of the OPEN meets no other write and no rewind.
OpeningClean(a) ==
    Opening(a) => /\ m_table_rst = Write(a, PsnDec(OpenPsn)) /\ np[a] = OpenPsn
                  /\ \A q \in QPs : ~tmr[q].timed_out
                  /\ ~Rewinding /\ ~m_rd_table.we

\* The other queue pairs are at rest while a is open.
OthersRest(a) == conn[a] = "open" => \A q \in QPs : q # a => AtRest(q)

\* The order of the pointers, and how far apart they are.
Bounds(a) ==
    /\ C(a) <= E(a) /\ E(a) <= W(a) /\ W(a) <= N(a) /\ R(a) <= W(a)
    /\ E(a) <= R(a) + Window /\ N(a) <= C(a) + Window

\* The register behind rd_table: it holds what the table has or will have, and that
\* fits; or it has not been used yet, and no acknowledge can take the reason of a
\* rewind away.
RdFits(a) ==
    /\ m_rd_table.qpn = a /\ (m_rd_table.we \/ m_rd_table.psn = rd_table[a])
    /\ Count(m_rd_table.psn) <= W(a) /\ E(a) <= Count(m_rd_table.psn) + Window
RdUnused(a) ==
    /\ rx = NoAck /\ ackq = <<>> /\ ~m_rd_table.we
    /\ Rewinding /\ rr_qpn = a => tmr[a].timed_out

\* Acknowledges come in order, between what has been acknowledged and what has been
\* received.
AckOrder(a) ==
    /\ rx.syndrome = "ACK" => C(a) <= Count(rx.psn) /\ Count(rx.psn) <= E(a)
    /\ \A i \in 1..Len(ackq) : ackq[i].syndrome = "ACK" =>
         /\ C(a) <= Count(ackq[i].psn) /\ Count(ackq[i].psn) <= E(a)
         /\ rx.syndrome = "ACK" => Count(rx.psn) <= Count(ackq[i].psn)
         /\ \A j \in 1..Len(ackq) : i < j /\ ackq[j].syndrome = "ACK" =>
              Count(ackq[i].psn) <= Count(ackq[j].psn)

\* What the FSM has read is what it may act upon.
ToSend(a) == s_rd = rd_table[a] /\ Count(s_rd) < Count(s_wr) /\ Count(s_wr) <= W(a)
ReadFits(a) ==
    rr_qpn = a =>
        /\ state = "COMPARE" => s_wr = s_rd \/ ToSend(a)
        /\ state = "FETCH_HDR" => ToSend(a)
        /\ state = "UPDATE_RD_TABLE" /\ ~m_rd_table.we /\ tmr[a].timed_out =>
             Count(s_cpl) <= C(a) /\ E(a) <= Count(s_cpl) + Window

Ordered(a) == Running(a) => Bounds(a) /\ (RdFits(a) \/ RdUnused(a)) /\ AckOrder(a) /\ ReadFits(a)

\* What holds in every state, and what holds until a is closed.
Always(a) ==
    /\ ServedInv /\ CalmResponses /\ CalmTimers /\ TimedOutIsOut /\ ClosedServed
    /\ RdWriteStates /\ SlotsKept /\ EntriesOrdered /\ Numbered /\ TableBehind /\ OnlyOne(a)
Session(a) ==
    /\ Mine(a) /\ RewindKept(a) /\ OthersUnused(a) /\ FreshStart(a) /\ OpeningClean(a)
    /\ OthersRest(a) /\ Ordered(a)
PointerInv(a) == Always(a) /\ (conn[a] # "closed" => Session(a))

-----------------------------------------------------------------------------
(* The FSM.                                                                *)

\* What a step of the FSM writes to rd_table.
RdMoves ==
    /\ \/ m_rd_table' = [m_rd_table EXCEPT !.we = FALSE]
       \/ /\ state = "UPDATE_RD_TABLE" /\ ~m_rd_table.we /\ state' = "UPDATE_RD_TABLE"
          /\ m_rd_table' = Write(rr_qpn, RewindPsn(rr_qpn))
       \/ Launching /\ state' \in {"CHECK_TIMEOUT", "SEND_HDR", "WAIT_DMA"}
    /\ Launching => m_rd_table' = Write(rr_qpn, LaunchedPsn)

\* What it has read when it compares and when it launches.
RegMoves ==
    /\ state' = "COMPARE" =>
         /\ state = "FETCH_TABLES" /\ rr_qpn' = rr_qpn
         /\ s_wr' = wr_table[rr_qpn] /\ s_rd' = rd_table[rr_qpn] /\ s_cpl' = cpl_table[rr_qpn]
    /\ state' = "FETCH_HDR" =>
         /\ rr_qpn' = rr_qpn /\ s_wr' = s_wr /\ s_rd' = s_rd
         /\ (state = "COMPARE" /\ s_wr # s_rd) \/ state = "FETCH_HDR"
    /\ state' \in {"SEND_HDR", "WAIT_DMA"} =>
         rr_qpn' = rr_qpn /\ state \in {"FETCH_HDR", "SEND_HDR", "WAIT_DMA"}

\* Where a rewind begins and what it has read.
RewindMoves ==
    Rewinding' =>
        /\ rr_qpn' = rr_qpn /\ UNCHANGED <<qp_started_retrans, qp_closed>>
        /\ Rewinding \/ (state = "CHECK_TIMEOUT" /\ tmr[rr_qpn].timed_out /\ ~tmr[rr_qpn].error)
        /\ state' = "UPDATE_RD_TABLE" => state = "WAIT_1CLK" /\ s_cpl' = cpl_table[rr_qpn]

\* Where a queue pair is given up and where it is found complete.
FlagMoves ==
    /\ \A q \in QPs : qp_closed'[q] /\ ~qp_closed[q] => rr_qpn = q /\ (tmr[q].error \/ Acts(q))
    /\ \A q \in QPs :
         \/ qp_transmission_complete'[q] = qp_transmission_complete[q]
         \/ rr_qpn = q /\ state = "COMPARE" /\ qp_transmission_complete'[q] = (s_cpl = s_wr)
    /\ \/ close_req' \in {None, close_req}
       \/ close_req' = rr_qpn /\ (tmr[rr_qpn].error \/ tmr[rr_qpn].timed_out)

ReadMoves == RdMoves /\ RegMoves /\ RewindMoves /\ FlagMoves

\* A step that leaves the table, the rewind and the launch alone.
LEMMA PlainStep ==
    ASSUME FsmTypes, NoRdWrite, ~Rewinding', ~Launching,
           state' \notin {"COMPARE", "FETCH_HDR", "SEND_HDR", "WAIT_DMA"}
    PROVE  RdMoves /\ RegMoves /\ RewindMoves
BY DEF FsmTypes, NoRdWrite, RdMoves, RegMoves, RewindMoves

\* Where the three ways to leave a state lead.
LEMMA ToState ==
    ASSUME NEW s
    PROVE  /\ NextQp => state' = "CHECK_TIMEOUT"
           /\ GoTo(s) => state' = s /\ rr_qpn' = rr_qpn
           /\ Via1Clk(s) => state' = "WAIT_1CLK" /\ rr_qpn' = rr_qpn
BY DEF NextQp, GoTo, Via1Clk

\* Steps that give no queue pair up and find none complete.
LEMMA FlagsKept ==
    ASSUME FsmTypes, NEW close, KeepClose(close), UNCHANGED <<qp_closed, qp_transmission_complete>>
    PROVE  FlagMoves
BY DEF FlagMoves, KeepClose

\* What the states CHECK_TIMEOUT and CHECK_ERROR do to the read pointer.
LEMMA CheckShape ==
    ASSUME FsmTypes, CalmTimers, NEW cm, NEW close,
           \/ CheckError(cm, close) \/ CheckExhausted(cm, close) \/ CheckTimedOut(cm, close)
           \/ CheckRewind(cm, close) \/ CheckClean(cm, close)
    PROVE  ReadMoves
<1>0. rr_qpn \in QPs /\ qp_closed \in [QPs -> BOOLEAN]
  BY DEF FsmTypes
<1>1. ~CheckRewind(cm, close)
  BY <1>0 DEF CheckRewind, CalmTimers
<1>2. CASE CheckError(cm, close)
  <2>1. RdMoves /\ RegMoves /\ RewindMoves
    BY <1>2, PlainStep, ToState, ToRewind DEF CheckError, Launching
  <2>2. FlagMoves
    BY <1>0, <1>2 DEF CheckError, FlagMoves
  <2> QED BY <2>1, <2>2 DEF ReadMoves
<1>3. CASE CheckExhausted(cm, close)
  <2>1. RdMoves /\ RegMoves /\ RewindMoves
    BY <1>3, PlainStep, ToState, ToRewind DEF CheckExhausted, Launching
  <2>2. Acts(rr_qpn)
    BY <1>3 DEF CheckExhausted, Acts, Checking, Rewinding, Via1Clk
  <2>3. FlagMoves
    BY <1>0, <1>3, <2>2 DEF CheckExhausted, FlagMoves, RetryExhausted
  <2> QED BY <2>1, <2>3 DEF ReadMoves
<1>4. CASE CheckTimedOut(cm, close)
  <2>1. RdMoves /\ RegMoves /\ RewindMoves
    BY <1>4 DEF CheckTimedOut, Via1Clk, NoRdWrite, qpFlags, Launching, RdMoves, RegMoves,
                RewindMoves
  <2>2. FlagMoves
    BY <1>4, FlagsKept DEF CheckTimedOut, qpFlags
  <2> QED BY <2>1, <2>2 DEF ReadMoves
<1>5. CASE CheckClean(cm, close)
  <2>1. RdMoves /\ RegMoves /\ RewindMoves
    BY <1>5, PlainStep, ToState, ToRewind DEF CheckClean, Launching
  <2>2. FlagMoves
    BY <1>5, FlagsKept DEF CheckClean
  <2> QED BY <2>1, <2>2 DEF ReadMoves
<1> QED BY <1>1, <1>2, <1>3, <1>4, <1>5

\* What the states that write and read the tables do.
LEMMA TableStateShape ==
    ASSUME FsmTypes, OneClkFrom, NEW cm, NEW close,
           \/ UpdateRdTable(cm, close) \/ UpdateRdTableDone(cm, close) \/ FetchTables(cm, close)
           \/ Wait1Clk(cm, close)
    PROVE  ReadMoves
<1>1. CASE UpdateRdTable(cm, close)
  <2>1. ~Rewinding'
    BY <1>1 DEF UpdateRdTable, Rewinding, GoTo, Write
  <2>2. RdMoves /\ RegMoves /\ RewindMoves
    BY <1>1, <2>1 DEF UpdateRdTable, GoTo, Launching, RdMoves, RegMoves, RewindMoves
  <2>3. FlagMoves
    BY <1>1, FlagsKept DEF UpdateRdTable
  <2> QED BY <2>2, <2>3 DEF ReadMoves
<1>2. CASE UpdateRdTableDone(cm, close)
  <2>1. RdMoves /\ RegMoves /\ RewindMoves
    BY <1>2, PlainStep, ToState, ToRewind DEF UpdateRdTableDone, Launching
  <2>2. FlagMoves
    BY <1>2, FlagsKept DEF UpdateRdTableDone, qpFlags
  <2> QED BY <2>1, <2>2 DEF ReadMoves
<1>3. CASE FetchTables(cm, close)
  <2>1. RdMoves /\ RegMoves /\ RewindMoves
    BY <1>3 DEF FetchTables, GoTo, NoRdWrite, Launching, RdMoves, RegMoves, RewindMoves, Rewinding
  <2>2. FlagMoves
    BY <1>3, FlagsKept DEF FetchTables, qpFlags
  <2> QED BY <2>1, <2>2 DEF ReadMoves
<1>4. CASE Wait1Clk(cm, close)
  <2>1. RdMoves /\ RegMoves
    BY <1>4 DEF OneClkFrom, Wait1Clk, GoTo, NoRdWrite, Launching, RdMoves, RegMoves
  <2>2. RewindMoves
    BY <1>4 DEF OneClkFrom, Wait1Clk, GoTo, Rewinding, RewindMoves, qpFlags
  <2>3. FlagMoves
    BY <1>4, FlagsKept DEF Wait1Clk, qpFlags
  <2> QED BY <2>1, <2>2, <2>3 DEF ReadMoves
<1> QED BY <1>1, <1>2, <1>3, <1>4

\* What the state that compares the pointers does.
LEMMA CompareShape ==
    ASSUME FsmTypes, NEW cm, NEW close,
           \/ CompareClosed(cm, close) \/ CompareIdle(cm, close)
           \/ CompareRnrWait(cm, close) \/ CompareSend(cm, close)
    PROVE  ReadMoves
<1>0. /\ rr_qpn \in QPs /\ qp_closed \in [QPs -> BOOLEAN]
      /\ qp_transmission_complete \in [QPs -> BOOLEAN]
  BY DEF FsmTypes
<1>1. ASSUME state = "COMPARE", CompareCounters(cm), KeepClose(close)
      PROVE  FlagMoves
  BY <1>0, <1>1 DEF CompareCounters, KeepClose, FlagMoves
<1>2. CASE CompareClosed(cm, close)
  <2>1. RdMoves /\ RegMoves /\ RewindMoves
    BY <1>2, PlainStep, ToState, ToRewind DEF CompareClosed, Launching
  <2>2. FlagMoves
    BY <1>0, <1>2 DEF CompareClosed, FlagMoves, KeepClose
  <2> QED BY <2>1, <2>2 DEF ReadMoves
<1>3. CASE CompareIdle(cm, close) \/ CompareRnrWait(cm, close)
  <2>1. RdMoves /\ RegMoves /\ RewindMoves
    BY <1>3, PlainStep, ToState, ToRewind DEF CompareIdle, CompareRnrWait, Launching
  <2>2. FlagMoves
    BY <1>1, <1>3 DEF CompareIdle, CompareRnrWait
  <2> QED BY <2>1, <2>2 DEF ReadMoves
<1>4. CASE CompareSend(cm, close)
  <2>1. ~Rewinding'
    BY <1>4, ToRewind DEF CompareSend
  <2>2. RdMoves /\ RegMoves /\ RewindMoves
    BY <1>4, <2>1 DEF CompareSend, GoTo, NoRdWrite, Launching, RdMoves, RegMoves, RewindMoves,
                      tableRegs
  <2>3. FlagMoves
    BY <1>1, <1>4 DEF CompareSend
  <2> QED BY <2>2, <2>3 DEF ReadMoves
<1> QED BY <1>2, <1>3, <1>4

\* What the states that fetch and send a packet do.
LEMMA LaunchShape ==
    ASSUME FsmTypes, NEW cm, NEW close,
           NEW m_roce_ready \in BOOLEAN, NEW dma_ready \in BOOLEAN,
           \/ FetchHdrWait(cm, close)
           \/ FetchHdr(cm, close, m_roce_ready, dma_ready)
           \/ SendHdr(cm, close, m_roce_ready, dma_ready)
           \/ WaitDma(cm, close, dma_ready)
           \/ ChangeQpn(cm, close)
    PROVE  ReadMoves
<1>1. FlagMoves
  BY FlagsKept DEF FetchHdrWait, FetchHdr, SendHdr, WaitDma, ChangeQpn, qpFlags
<1>2. CASE FetchHdrWait(cm, close)
  <2>1. ~Rewinding'
    BY <1>2, ToRewind DEF FetchHdrWait
  <2>2. RdMoves /\ RegMoves /\ RewindMoves
    BY <1>2, <2>1 DEF FetchHdrWait, GoTo, NoRdWrite, Launching, RdMoves, RegMoves, RewindMoves,
                      tableRegs
  <2> QED BY <1>1, <2>2 DEF ReadMoves
<1>3. CASE FetchHdr(cm, close, m_roce_ready, dma_ready)
  <2>1. \E s \in {"SEND_HDR", "WAIT_DMA"} : NextQp \/ GoTo(s)
    BY <1>3 DEF FetchHdr
  <2>2. ~Rewinding' /\ state' \in {"CHECK_TIMEOUT", "SEND_HDR", "WAIT_DMA"}
        /\ (state' # "CHECK_TIMEOUT" => rr_qpn' = rr_qpn)
    BY <2>1, ToRewind, ToState
  <2>3. Launching /\ m_rd_table' = Write(rr_qpn, LaunchedPsn)
    BY <1>3 DEF FetchHdr, Launching
  <2>4. RdMoves /\ RegMoves /\ RewindMoves
    BY <2>2, <2>3 DEF Launching, RdMoves, RegMoves, RewindMoves
  <2> QED BY <1>1, <2>4 DEF ReadMoves
<1>4. CASE SendHdr(cm, close, m_roce_ready, dma_ready) \/ WaitDma(cm, close, dma_ready)
  <2>1. \E s \in {"SEND_HDR", "WAIT_DMA"} : NextQp \/ GoTo(s)
    BY <1>4 DEF SendHdr, WaitDma
  <2>2. ~Rewinding' /\ state' \in {"CHECK_TIMEOUT", "SEND_HDR", "WAIT_DMA"}
        /\ (state' # "CHECK_TIMEOUT" => rr_qpn' = rr_qpn)
    BY <2>1, ToRewind, ToState
  <2>3. NoRdWrite /\ state \in {"SEND_HDR", "WAIT_DMA"}
    BY <1>4 DEF SendHdr, WaitDma
  <2>4. RdMoves /\ RegMoves /\ RewindMoves
    BY <2>2, <2>3 DEF NoRdWrite, Launching, RdMoves, RegMoves, RewindMoves
  <2> QED BY <1>1, <2>4 DEF ReadMoves
<1>5. CASE ChangeQpn(cm, close)
  <2>1. RdMoves /\ RegMoves /\ RewindMoves
    BY <1>5, PlainStep, ToState, ToRewind DEF ChangeQpn, Launching
  <2> QED BY <1>1, <2>1 DEF ReadMoves
<1> QED BY <1>2, <1>3, <1>4, <1>5

\* Hence every step of the FSM.
LEMMA FsmShape ==
    ASSUME TypeOK, OneClkFrom, CalmTimers, NEW cm, NEW close, FsmStep(cm, close)
    PROVE  ReadMoves
<1>0. FsmTypes
  BY DEF TypeOK, FsmTypes
<1>1. ReadMoves \/ \E m_roce_ready, dma_ready \in BOOLEAN :
           \/ FetchHdr(cm, close, m_roce_ready, dma_ready)
           \/ SendHdr(cm, close, m_roce_ready, dma_ready)
           \/ WaitDma(cm, close, dma_ready)
  BY <1>0, CheckShape, TableStateShape, CompareShape, LaunchShape DEF FsmStep
<1> QED BY <1>0, <1>1, LaunchShape

-----------------------------------------------------------------------------
(* The sweep.                                                              *)

\* What one edge makes of the timer r of q when the responses are calm.
TimerMoves(q, r, t) ==
    /\ t.timed_out => CounterOut(t.timeout_counter) /\ ~qp_closed[q] /\ ~Addressed(q)
    /\ CounterOut(r.timeout_counter) /\ ~t.timed_out =>
         qp_started_retrans[q] \/ qp_closed[q] \/ Addressed(q)
    /\ t.error /\ ~r.error => Addressed(q)
    /\ r.error /\ ~t.error => ~t.timed_out
    /\ /\ r.timeout_counter = timeout_period /\ ~CounterOut(timeout_period)
       /\ qp_transmission_complete[q] /\ ~Addressed(q)
       => t.timeout_counter = timeout_period

\* Without an RNR NAK the RNR timer does not run.
LEMMA CalmRnrTimer ==
    ASSUME NEW q, NEW r, CalmTimer(r)
    PROVE  RnrTimer(q, r) = r
BY DEF CalmTimer, RnrTimer

\* A clock of the timers with a response.
LEMMA ResponseMoves ==
    ASSUME NEW q \in QPs, NEW r \in Timers, CalmResponses, Addressed(q)
    PROVE  TimerMoves(q, r, AfterStart(q, AfterClose(q, OnResponse(q, r, r))))
<1> DEFINE t == OnResponse(q, r, r)
<1>1. rx.syndrome \in {"ACK", "RESERVED", "FATAL_NAK"}
  BY DEF CalmResponses, Calm, Acks, Syndromes, Addressed
<1>2. ~t.timed_out /\ t \in Timers /\ (r.error => t.error)
  <2>1. CASE rx.syndrome = "ACK"
    BY <2>1, StepTypes DEF OnResponse, OnAck, Timers
  <2>2. CASE rx.syndrome = "FATAL_NAK"
    BY <2>2 DEF OnResponse, Timers
  <2>3. CASE rx.syndrome = "RESERVED"
    BY <2>3, StepTypes DEF OnResponse, OnReserved, Timers
  <2> QED BY <1>1, <2>1, <2>2, <2>3
<1> HIDE DEF t
<1>3. LET u == AfterStart(q, AfterClose(q, t)) IN ~u.timed_out
  BY <1>2, StepTypes DEF AfterStart, AfterClose, Timers
<1> QED BY <1>3 DEF t, TimerMoves

\* A clock of the timers without a response.
LEMMA CountdownMoves ==
    ASSUME NEW q \in QPs, NEW r \in Timers, ~Addressed(q)
    PROVE  TimerMoves(q, r, AfterStart(q, AfterClose(q, RetransTimer(q, r, r))))
<1> DEFINE t == RetransTimer(q, r, r)
           u == AfterStart(q, AfterClose(q, t))
<1>1. /\ t \in Timers /\ t.error = r.error
      /\ t.timed_out => CounterOut(t.timeout_counter)
      /\ CounterOut(r.timeout_counter) /\ ~t.timed_out => qp_started_retrans[q]
      /\ /\ r.timeout_counter = timeout_period /\ ~CounterOut(timeout_period)
         /\ qp_transmission_complete[q]
         => t.timeout_counter = timeout_period
  BY StepTypes DEF RetransTimer, Timers
<1> HIDE DEF t
<1>2. CASE qp_closed[q]
  <2>1. ~u.timed_out /\ ~u.error /\ u.timeout_counter = timeout_period
    BY <1>1, <1>2, StepTypes DEF AfterStart, AfterClose, Timers
  <2> QED BY <1>2, <2>1 DEF t, TimerMoves
<1>3. CASE ~qp_closed[q]
  <2>1. u.timed_out = t.timed_out /\ u.error = t.error /\ u.timeout_counter = t.timeout_counter
    BY <1>1, <1>3 DEF AfterStart, AfterClose, Timers
  <2> HIDE DEF u
  <2> QED BY <1>1, <1>3, <2>1 DEF t, u, TimerMoves
<1> QED BY <1>2, <1>3

\* The sweep on q, and on another queue pair.
LEMMA SweepMoves ==
    ASSUME TypeOK, CalmTimers, CalmResponses, Sweep, NEW q \in QPs
    PROVE  /\ rr_qpn_timeout # q => tmr'[q] = tmr[q]
           /\ rr_qpn_timeout = q => TimerMoves(q, tmr[q], tmr'[q])
           /\ aeth_ready' => Addressed(rr_qpn_timeout)
<1>1. rr_qpn_timeout # q => tmr'[q] = tmr[q]
  BY SweepServes
<1>2. ASSUME rr_qpn_timeout = q PROVE TimerMoves(q, tmr[q], tmr'[q])
  <2>1. tmr[q] \in Timers /\ CalmTimer(tmr[q])
    BY DEF TypeOK, CalmTimers, CalmTimer
  <2>2. RnrTimer(q, tmr[q]) = tmr[q]
    BY <2>1, CalmRnrTimer
  <2>3. tmr'[q] = AfterStart(q, AfterClose(q, IF Addressed(q) THEN OnResponse(q, tmr[q], tmr[q])
                                              ELSE RetransTimer(q, tmr[q], tmr[q])))
    BY <1>2, <2>2 DEF Sweep, TypeOK
  <2>4. CASE Addressed(q)
    BY <2>1, <2>3, <2>4, ResponseMoves
  <2>5. CASE ~Addressed(q)
    BY <2>1, <2>3, <2>5, CountdownMoves
  <2> QED BY <2>4, <2>5
<1>3. aeth_ready' => Addressed(rr_qpn_timeout)
  BY DEF Sweep
<1> QED BY <1>1, <1>2, <1>3

\* timed_out goes up only when the timer has run out.
LEMMA OutEdge ==
    ASSUME TypeOK, CalmTimers, CalmResponses, TimedOutIsOut, Sweep
    PROVE  TimedOutIsOut'
<1> SUFFICES ASSUME NEW q \in QPs, tmr'[q].timed_out
             PROVE  CounterOut(tmr'[q].timeout_counter)
  BY DEF TimedOutIsOut, CounterOut, CounterStep
<1> QED BY SweepMoves DEF TimedOutIsOut, TimerMoves

\* A queue pair that was given up has its timer cleared in time.
LEMMA ClosedEdge ==
    ASSUME TypeOK, CalmTimers, CalmResponses, ClosedServed, Moves, FlagMoves, Sweep
    PROVE  ClosedServed'
<1> SUFFICES ASSUME NEW q \in QPs, qp_closed'[q], tmr'[q].timed_out, ~tmr'[q].error
             PROVE  Far(q)' > Near(q)'
  BY DEF ClosedServed
<1>1. /\ rr_qpn_timeout # q => tmr'[q] = tmr[q]
      /\ rr_qpn_timeout = q => ~qp_closed[q] /\ ~tmr[q].error
  BY SweepMoves DEF TimerMoves
<1>2. CASE qp_closed[q]
  <2>1. rr_qpn_timeout # q /\ Far(q) > Near(q)
    BY <1>1, <1>2 DEF ClosedServed
  <2> QED BY <2>1, StaysAhead DEF Moves
<1>3. CASE ~qp_closed[q]
  <2>1. Acts(q)
    BY <1>1, <1>3 DEF FlagMoves
  <2> QED BY <2>1, StaysAhead DEF Moves
<1> QED BY <1>2, <1>3

-----------------------------------------------------------------------------
(* Counting packets.                                                       *)

\* The count up to a PSN is the place of the next one, without overflow.
LEMMA Counts ==
    ASSUME NEW p \in Psn
    PROVE  /\ Count(p) = Index(PsnInc(p)) /\ Count(p) \in 0..(PSN_MOD - 1)
           /\ Index(p) \in 0..(PSN_MOD - 1) /\ Index(OpenPsn) = 0
           /\ Index(p) < PSN_MOD - 1 => Count(p) = Index(p) + 1
           /\ Count(PsnDec(p)) = Index(p)
<1>1. PsnInc(p) \in Psn /\ PsnDec(p) \in Psn
  BY PsnSteps
<1>2. Count(p) = Index(PsnInc(p)) /\ Count(PsnDec(p)) = Index(PsnInc(PsnDec(p)))
  BY DEF Count, Index
<1>3. OpenPsn \in Psn
  BY EnvAssumption
<1>4. Index(OpenPsn) = 0
  BY <1>3, IndexIs, PsnAssumption DEF Psn
<1> QED BY <1>1, <1>2, <1>4, IndexIs, IndexSteps DEF Psn

\* Equal places are equal PSNs.
LEMMA IndexInjective ==
    ASSUME NEW p \in Psn, NEW r \in Psn, Index(p) = Index(r)
    PROVE  p = r
<1>1. OpenPsn \in Psn
  BY EnvAssumption
<1> QED BY <1>1, IndexIs, PsnAssumption DEF Psn

\* Equal counts are equal PSNs,
LEMMA CountInjective ==
    ASSUME NEW p \in Psn, NEW r \in Psn, Count(p) = Count(r)
    PROVE  p = r
<1>1. PsnInc(p) \in Psn /\ PsnInc(r) \in Psn
  BY PsnSteps
<1>2. PsnInc(p) = PsnInc(r)
  BY <1>1, Counts, IndexInjective
<1> QED BY <1>2, IndexSteps, PsnAssumption DEF Psn

\* The distance of two PSNs is the difference of their numbers.
LEMMA Distances ==
    ASSUME NEW p \in Psn, NEW r \in Psn, Index(r) <= Index(p)
    PROVE  PsnDist(p, r) = Index(p) - Index(r)
<1>1. OpenPsn \in Psn /\ PSN_MOD \in Nat /\ PSN_MOD >= 2
  BY EnvAssumption, PsnAssumption
<1> DEFINE x == p + PSN_MOD - r
<1>2. x \in Int /\ 0 <= x /\ x < 2 * PSN_MOD /\ PsnDist(p, r) = x % PSN_MOD
  BY <1>1 DEF Psn, PsnDist
<1> HIDE DEF x
<1>3. /\ x >= PSN_MOD => PsnDist(p, r) = x - PSN_MOD
      /\ x < PSN_MOD => PsnDist(p, r) = x
  BY <1>1, <1>2, SmallMod
<1> QED BY <1>1, <1>2, <1>3, IndexIs DEF Psn, x

-----------------------------------------------------------------------------
(* One edge of the engine.                                                 *)

\* What the proofs suppose of the connection: it is the only one, the responder
\* acknowledges or refuses, the producer stops with its queue pair, the window is
\* smaller than the header RAM, and the timer does not run out at once.
Setting(a) ==
    /\ a \in QPs /\ ActiveQPs \subseteq {a}
    /\ Responses \cap {"RNR_NAK", "PSN_SEQ_NAK"} = {}
    /\ ~StaleProducer
    /\ Window < HDR_SLOTS /\ PSN_MOD % HDR_SLOTS = 0
    /\ ~CounterOut(timeout_period)

Inputs(cm, close, pkt, take, done, arrives) ==
    /\ cm \in CmInputs /\ close \in CloseInputs /\ pkt \in PktInputs
    /\ take \in TakeInputs /\ done \in DoneInputs /\ arrives \in ArriveInputs

EngineEdge(cm, close, pkt, take, done, arrives, outcome) ==
    /\ Inputs(cm, close, pkt, take, done, arrives)
    /\ FsmStep(cm, close) /\ Sweep
    /\ Responds(outcome) /\ Receive(outcome, arrives)
    /\ WriteEdge(pkt, take, done, cm, close)

\* Every step of the engine is a clock edge.
LEMMA NextIsEngineEdge ==
    ASSUME Next
    PROVE  \E cm, close, pkt, take, done, arrives, outcome :
             EngineEdge(cm, close, pkt, take, done, arrives, outcome)
<1>1. PICK cm \in CmInputs, close \in CloseInputs : \E outcome :
        FsmStep(cm, close) /\ Tick(cm, close, outcome) /\ Responds(outcome)
  BY NextIsEdge
<1>2. PICK outcome : FsmStep(cm, close) /\ Tick(cm, close, outcome) /\ Responds(outcome)
  BY <1>1
<1>3. PICK pkt \in PktInputs, take \in TakeInputs, done \in DoneInputs, arrives \in ArriveInputs :
        /\ Receive(outcome, arrives) /\ Producer(cm, close, pkt)
        /\ WriteStep(pkt, take, done, cm, close)
  BY <1>2 DEF Tick
<1>4. EngineEdge(cm, close, pkt, take, done, arrives, outcome)
  BY <1>1, <1>2, <1>3 DEF EngineEdge, Inputs, Tick, WriteEdge
<1> QED BY <1>4

\* The connection manager opens a when everything is at rest, and closes what is open.
LEMMA Pulses ==
    ASSUME NEW a, Setting(a), TypeOK, NEW cm \in CmInputs, NEW close \in CloseInputs
    PROVE  /\ cm.req = "OPEN" => /\ cm.qpn = a /\ cm.psn = OpenPsn /\ conn[a] = "none"
                                 /\ CloseQpn(cm, close) = None
                                 /\ \A q \in QPs : AtRest(q)
           /\ close # None => close = close_req
           /\ cm.req = "CLOSE" => conn[cm.qpn] = "open"
           /\ cm.req \in {"NONE", "OPEN", "CLOSE"}
<1>1. close # None => close = close_req
  BY DEF CloseInputs
<1>2. CASE cm = CmNone
  BY <1>1, <1>2 DEF CmNone
<1>3. CASE cm \in ClosePulses
  BY <1>1, <1>3 DEF ClosePulses, CmClose
<1>4. CASE cm \in {CmOpen(q, OpenPsn) : q \in {b \in ActiveQPs : Quiet(b)}}
  <2>1. PICK q \in ActiveQPs : Quiet(q) /\ cm = CmOpen(q, OpenPsn)
    BY <1>4
  <2>2. q = a /\ conn[a] = "none" /\ \A p \in QPs : AtRest(p)
    BY <2>1 DEF Quiet, Setting
  <2>3. close_req = None
    BY <2>2 DEF AtRest, TypeOK
  <2>4. cm.req = "OPEN" /\ cm.qpn = a /\ cm.psn = OpenPsn
    BY <2>1, <2>2 DEF CmOpen
  <2>5. CloseQpn(cm, close) = None
    BY <1>1, <2>3, <2>4 DEF CloseQpn
  <2> QED BY <1>1, <2>2, <2>4, <2>5
<1> QED BY <1>2, <1>3, <1>4 DEF CmInputs

\* The write side sees the inputs it expects.
LEMMA EngineInputs ==
    ASSUME NEW a, Setting(a), TypeOK, NEW cm, NEW close, NEW pkt, NEW take, NEW done, NEW arrives,
           Inputs(cm, close, pkt, take, done, arrives)
    PROVE  /\ EdgeInputs(pkt, done, cm, close) /\ take \in BOOLEAN
           /\ pkt # NoPkt => \E q \in QPs : MaySend(q) /\ WithinWindow(q) /\ pkt = NextPacket(q)
<1>1. InputsOK(pkt, done, cm, close) /\ take \in BOOLEAN
  BY InputTypes DEF Inputs
<1>2. pkt # NoPkt => \E q \in QPs : MaySend(q) /\ WithinWindow(q) /\ pkt = NextPacket(q)
  BY DEF Inputs, PktInputs
<1>3. Accepts(pkt) => \E q \in QPs : Sending(q) /\ pkt = NextPacket(q)
  BY <1>2 DEF Accepts, MaySend
<1>4. cm.req = "OPEN" => cm.psn = OpenPsn /\ conn[cm.qpn] = "none" /\ CloseQpn(cm, close) = None
  BY Pulses DEF Inputs
<1> QED BY <1>1, <1>2, <1>3, <1>4 DEF EdgeInputs

\* The shapes of the parts of an edge.
LEMMA EdgeParts ==
    ASSUME NEW a, Setting(a), Always(a), NEW cm, NEW close, NEW pkt, NEW take, NEW done,
           NEW arrives, NEW outcome, EngineEdge(cm, close, pkt, take, done, arrives, outcome)
    PROVE  /\ TypeOK /\ WriteTypes /\ OneClkFrom /\ Moves /\ ReadMoves /\ Sweep
           /\ EdgeInputs(pkt, done, cm, close) /\ take \in BOOLEAN
           /\ WriteEdge(pkt, take, done, cm, close)
           /\ TypeOK' /\ CalmResponses' /\ CalmTimers'
<1>1. TypeOK /\ OneClkFrom /\ CalmTimers /\ CalmResponses
  BY DEF Always, ServedInv
<1>2. Moves /\ ReadMoves /\ Sweep
  BY <1>1, FsmMoves, FsmShape DEF EngineEdge
<1>3. WriteTypes
  BY <1>1 DEF TypeOK, WriteTypes
<1>4. /\ EdgeInputs(pkt, done, cm, close) /\ take \in BOOLEAN
      /\ WriteEdge(pkt, take, done, cm, close)
  BY <1>1, EngineInputs DEF EngineEdge
<1>5. Tick(cm, close, outcome) /\ cm \in CmInputs /\ close \in CloseInputs
  BY DEF EngineEdge, Inputs, WriteEdge, Tick
<1>6. TypeOK'
  BY <1>1, <1>5, TypeEdge DEF EngineEdge
<1>7. CalmResponses' /\ CalmTimers'
  BY <1>1, CalmReply, CalmReceive, CalmSweep DEF EngineEdge, Inputs, Setting
<1> QED BY <1>1, <1>2, <1>3, <1>4, <1>6, <1>7

\* The header RAM is written through one port, at the slot of the PSN.
LEMMA SlotsEdge ==
    ASSUME WriteTypes, SlotsKept, NEW cm, NEW close, NEW pkt, NEW take, NEW done,
           WriteEdge(pkt, take, done, cm, close)
    PROVE  SlotsKept'
<1> SUFFICES ASSUME NEW q \in QPs, NEW s \in 0..(HDR_SLOTS - 1), hdr_ram'[q][s] # None
             PROVE  HdrSlotOf(hdr_ram'[q][s]) = s
  BY DEF SlotsKept, HdrSlotOf
<1>1. hdr_ram' = IF dma_desc = NoPkt THEN hdr_ram
                 ELSE [hdr_ram EXCEPT ![dma_desc.qpn][HdrSlotOf(dma_desc.psn)] = dma_desc.psn]
  BY DEF WriteEdge, WriteStep, WriteFsm
<1>2. CASE dma_desc = NoPkt
  BY <1>1, <1>2 DEF SlotsKept
<1>3. CASE dma_desc # NoPkt
  <2>1. /\ dma_desc.qpn \in QPs /\ dma_desc.psn \in Psn
        /\ HdrSlotOf(dma_desc.psn) \in 0..(HDR_SLOTS - 1)
    BY <1>3, PsnSteps DEF WriteTypes, Packets
  <2>2. hdr_ram'[q][s] = IF q = dma_desc.qpn /\ s = HdrSlotOf(dma_desc.psn) THEN dma_desc.psn
                         ELSE hdr_ram[q][s]
    BY <1>1, <1>3, <2>1 DEF WriteTypes
  <2> QED BY <2>2 DEF SlotsKept
<1> QED BY <1>2, <1>3

\* Only three states leave a write of the read table behind.
LEMMA RdWriteEdge ==
    ASSUME FsmTypes, RdMoves
    PROVE  RdWriteStates'
BY DEF FsmTypes, RdMoves, RdWriteStates, WritePort, Write

\* One edge keeps what holds in every state.
LEMMA AlwaysEdge ==
    ASSUME NEW a, Setting(a), Always(a), ServedInv', NEW cm, NEW close, NEW pkt, NEW take, NEW done,
           NEW arrives, NEW outcome, EngineEdge(cm, close, pkt, take, done, arrives, outcome)
    PROVE  Always(a)'
<1>0. /\ TypeOK /\ WriteTypes /\ Moves /\ ReadMoves /\ Sweep
      /\ EdgeInputs(pkt, done, cm, close) /\ take \in BOOLEAN
      /\ WriteEdge(pkt, take, done, cm, close)
      /\ CalmResponses' /\ CalmTimers'
  BY EdgeParts
<1>1. /\ CalmTimers /\ CalmResponses /\ TimedOutIsOut /\ ClosedServed /\ SlotsKept
      /\ EntriesOrdered /\ Numbered /\ TableBehind /\ OnlyOne(a)
  BY DEF Always
<1>2. TimedOutIsOut' /\ ClosedServed'
  BY <1>0, <1>1, OutEdge, ClosedEdge DEF ReadMoves
<1>3. RdWriteStates'
  BY <1>0, RdWriteEdge DEF TypeOK, FsmTypes, ReadMoves
<1>4. SlotsKept'
  BY <1>0, <1>1, SlotsEdge
<1>5. EntriesOrdered' /\ Numbered' /\ TableBehind'
  BY <1>0, <1>1, OrderedEdge, NumbersEdge, BehindEdge
<1>6. OnlyOne(a)'
  <2> SUFFICES ASSUME NEW q \in QPs, q # a PROVE conn'[q] # "open"
    BY DEF OnlyOne
  <2>1. cm.req = "OPEN" => cm.qpn = a
    BY <1>0, Pulses DEF EngineEdge, Inputs
  <2> QED BY <1>0, <1>1, <2>1 DEF OnlyOne, WriteEdge, Producer
<1> QED BY <1>0, <1>2, <1>3, <1>4, <1>5, <1>6 DEF Always

-----------------------------------------------------------------------------
(* The phases of a connection.                                             *)

\* From the OPEN on nothing but the close of a changes conn or resets the tables.
LEMMA Phases ==
    ASSUME NEW a, Setting(a), Always(a), Session(a), NEW cm, NEW close, NEW pkt, NEW take, NEW done,
           NEW arrives, NEW outcome, EngineEdge(cm, close, pkt, take, done, arrives, outcome),
           conn[a] # "closed", conn'[a] # "closed"
    PROVE  /\ conn[a] = "open" => conn'[a] = "open" /\ ~m_table_rst'.we
           /\ conn'[a] = "none" =>
                conn[a] = "none" /\ (m_table_rst'.we => m_table_rst'.psn = PSN_RESET)
           /\ conn[a] = "none" /\ conn'[a] = "open" => Opening(a)'
           /\ Opening(a)' => /\ conn[a] = "none" /\ m_table_rst' = Write(a, PsnDec(OpenPsn))
                             /\ \A q \in QPs : AtRest(q)
<1>0. TypeOK /\ a \in QPs /\ conn[a] \in {"none", "open", "closed"}
  BY DEF Always, ServedInv, TypeOK, Setting
<1>1. /\ conn' = [q \in QPs |-> IF CloseQpn(cm, close) = q THEN "closed"
                                ELSE IF cm.req = "OPEN" /\ cm.qpn = q THEN "open" ELSE conn[q]]
      /\ m_table_rst' = TableReset(cm, close)
  BY DEF EngineEdge, WriteEdge, Producer, TablesStep
<1>2. /\ cm.req = "OPEN" => /\ cm.qpn = a /\ cm.psn = OpenPsn /\ conn[a] = "none"
                            /\ CloseQpn(cm, close) = None
                            /\ \A q \in QPs : AtRest(q)
      /\ close # None => close = close_req
      /\ cm.req = "CLOSE" => conn[cm.qpn] = "open"
  BY <1>0, Pulses DEF EngineEdge, Inputs
<1>3. CloseQpn(cm, close) \in QPs \cup {None} /\ CloseQpn(cm, close) # a
  BY <1>0, <1>1, PulseTypes DEF EngineEdge, Inputs
<1>4. CASE conn[a] = "open"
  <2>1. CloseQpn(cm, close) = None
    <3>1. \A q \in QPs : q # a => close_req # q
      BY <1>4 DEF Session, OthersRest, AtRest
    <3>2. \A q \in QPs : q # a => conn[q] # "open"
      BY DEF Always, OnlyOne
    <3> QED BY <1>2, <1>3, <3>1, <3>2 DEF CloseQpn
  <2>2. m_table_rst' = NoWrite /\ conn'[a] = "open"
    BY <1>0, <1>1, <1>2, <1>4, <2>1 DEF TableReset
  <2> QED BY <1>4, <2>2 DEF NoWrite, Opening
<1>5. CASE conn[a] = "none" /\ cm.req = "OPEN"
  <2>1. m_table_rst' = Write(a, PsnDec(OpenPsn)) /\ conn'[a] = "open"
    BY <1>0, <1>1, <1>2, <1>5 DEF TableReset
  <2> QED BY <1>2, <1>5, <2>1 DEF Opening, Write
<1>6. CASE conn[a] = "none" /\ cm.req # "OPEN"
  <2>1. conn'[a] = "none"
    BY <1>0, <1>1, <1>3, <1>6
  <2>2. m_table_rst'.we => m_table_rst'.psn = PSN_RESET
    BY <1>1, <1>6 DEF TableReset, Write, NoWrite
  <2> QED BY <1>6, <2>1, <2>2 DEF Opening
<1> QED BY <1>0, <1>4, <1>5, <1>6

-----------------------------------------------------------------------------
(* The responder and the way back.                                         *)

\* A response is for the queue pair of the packet, and an acknowledge says what the
\* responder expects from then on.
Answers(q, o) ==
    \/ o.reply = <<>>
    \/ /\ conn[q] = "open"
       /\ \E x \in Acks : /\ o.reply = <<x>> /\ x.qpn = q
                          /\ x.syndrome = "ACK" => Count(x.psn) = Index(o.epsn)

\* What the responder may answer to a packet with PSN p.
LEMMA ReceivedShape ==
    ASSUME TypeOK, NEW q \in QPs, NEW p \in Psn, NEW o \in Received(q, p)
    PROVE  /\ o.epsn = epsn[q] \/ (conn[q] = "open" /\ p = epsn[q] /\ o.epsn = PsnInc(p))
           /\ Answers(q, o)
<1>0. epsn[q] \in Psn /\ PsnDec(epsn[q]) \in Psn
  BY PsnSteps DEF TypeOK
<1>1. \A e, r : Outcome(e, r).reply = r /\ Outcome(e, r).epsn = e
  BY DEF Outcome
<1>2. ASSUME NEW e, NEW r \in Psn, NEW s \in Syndromes, conn[q] = "open",
             s = "ACK" => Count(r) = Index(e)
      PROVE  Answers(q, Outcome(e, Reply(q, r, s)))
  <2> DEFINE x == [qpn |-> q, psn |-> r, syndrome |-> s]
  <2>1. x \in Acks /\ x.qpn = q /\ (x.syndrome = "ACK" => Count(x.psn) = Index(e))
    BY <1>2 DEF Acks
  <2>2. Reply(q, r, s) = <<x>>
    BY DEF Reply
  <2> HIDE DEF x
  <2>3. \E y \in Acks : /\ Outcome(e, Reply(q, r, s)).reply = <<y>> /\ y.qpn = q
                        /\ y.syndrome = "ACK" => Count(y.psn) = Index(Outcome(e, Reply(q, r, s)).epsn)
    BY <1>1, <2>1, <2>2
  <2> QED BY <1>2, <2>3 DEF Answers
<1>3. CASE conn[q] # "open"
  BY <1>1, <1>3 DEF Received, Answers
<1>4. CASE conn[q] = "open" /\ p = epsn[q]
  <2>1. CASE o \in {Outcome(PsnInc(p), Reply(q, p, s)) : s \in Responses \cap {"ACK"}}
    <3>1. o = Outcome(PsnInc(p), Reply(q, p, "ACK")) /\ Count(p) = Index(PsnInc(p))
      BY <2>1, Counts
    <3>2. Answers(q, o)
      BY <1>2, <1>4, <3>1 DEF Syndromes
    <3> QED BY <1>1, <1>4, <3>1, <3>2
  <2>2. CASE o \in {Outcome(p, Reply(q, p, s)) : s \in Responses \cap {"RNR_NAK", "FATAL_NAK"}}
    <3>1. PICK s \in Syndromes : s # "ACK" /\ o = Outcome(p, Reply(q, p, s))
      BY <2>2, NetworkAssumption
    <3> QED BY <1>1, <1>2, <1>4, <3>1
  <2> QED BY <1>4, <2>1, <2>2 DEF Received
<1>5. CASE conn[q] = "open" /\ p # epsn[q] /\ Ahead(p, epsn[q])
  <2>1. o = Outcome(epsn[q], <<>>) \/ o = Outcome(epsn[q], Reply(q, epsn[q], "PSN_SEQ_NAK"))
    BY <1>5 DEF Received
  <2>2. "PSN_SEQ_NAK" \in Syndromes
    BY DEF Syndromes
  <2>3. Answers(q, Outcome(epsn[q], <<>>))
    BY <1>1 DEF Answers
  <2>4. Answers(q, o)
    BY <1>0, <1>2, <1>5, <2>1, <2>2, <2>3
  <2> QED BY <1>1, <2>1, <2>4
<1>6. CASE conn[q] = "open" /\ p # epsn[q] /\ ~Ahead(p, epsn[q])
  <2>1. o = Outcome(epsn[q], Reply(q, PsnDec(epsn[q]), "ACK"))
    BY <1>6 DEF Received
  <2>2. "ACK" \in Syndromes /\ Count(PsnDec(epsn[q])) = Index(epsn[q])
    BY <1>0, Counts DEF Syndromes
  <2> QED BY <1>0, <1>1, <1>2, <1>6, <2>1, <2>2
<1> QED BY <1>3, <1>4, <1>5, <1>6

\* The packet that the responder of a takes for the one it expects.
Taken(a) == /\ Launching /\ rr_qpn = a /\ conn[a] = "open"
            /\ hdr_ram[a][HdrSlotOf(LaunchedPsn)] = epsn[a]

\* The responder expects the next PSN after it has taken a packet, and acknowledges what it took.
LEMMA ResponseShape ==
    ASSUME NEW a \in QPs, TypeOK, OnlyOne(a), NEW outcome, Responds(outcome)
    PROVE  /\ epsn'[a] = epsn[a] \/ (Taken(a) /\ epsn'[a] = PsnInc(epsn[a]))
           /\ outcome.reply # <<>> =>
                /\ Launching /\ rr_qpn = a /\ conn[a] = "open"
                /\ \E x \in Acks : /\ outcome.reply = <<x>> /\ x.qpn = a
                                   /\ x.syndrome = "ACK" => Count(x.psn) = Index(epsn'[a])
<1>1. \A e, r : Outcome(e, r).reply = r /\ Outcome(e, r).epsn = e
  BY DEF Outcome
<1>2. CASE outcome = NoOutcome /\ UNCHANGED epsn
  BY <1>1, <1>2 DEF NoOutcome
<1>3. CASE Launching /\ outcome \in Outcomes /\ epsn' = [epsn EXCEPT ![rr_qpn] = outcome.epsn]
  <2> DEFINE q == rr_qpn
             p == hdr_ram[q][HdrSlotOf(LaunchedPsn)]
             r == IF p = None THEN {Outcome(epsn[q], <<>>)} ELSE Received(q, p)
  <2>1. q \in QPs /\ p \in Psn \cup {None}
    <3>1. HdrSlotOf(LaunchedPsn) \in 0..(HDR_SLOTS - 1) /\ rr_qpn \in QPs
      BY PsnSteps DEF TypeOK, LaunchedPsn
    <3> QED BY <3>1 DEF TypeOK
  <2>2. ASSUME NEW o \in r
        PROVE  /\ o.epsn = epsn[q] \/ (conn[q] = "open" /\ p = epsn[q] /\ o.epsn = PsnInc(p))
               /\ Answers(q, o)
    <3>1. CASE p = None
      BY <1>1, <3>1 DEF Answers
    <3>2. CASE p # None
      BY <2>1, <3>2, ReceivedShape
    <3> QED BY <3>1, <3>2
  <2>3. \/ outcome \in r \/ outcome = Outcome(epsn[q], <<>>)
        \/ \E o \in r : outcome = Outcome(o.epsn, <<>>)
    BY <1>3 DEF Outcomes
  <2>4. /\ \/ outcome.epsn = epsn[q]
           \/ conn[q] = "open" /\ p = epsn[q] /\ outcome.epsn = PsnInc(p)
        /\ Answers(q, outcome)
    <3>1. CASE outcome \in r
      BY <2>2, <3>1
    <3>2. CASE outcome = Outcome(epsn[q], <<>>)
      BY <1>1, <3>2 DEF Answers
    <3>3. CASE \E o \in r : outcome = Outcome(o.epsn, <<>>)
      BY <1>1, <2>2, <3>3 DEF Answers
    <3> QED BY <2>3, <3>1, <3>2, <3>3
  <2>5. conn[q] = "open" => q = a
    BY <2>1 DEF OnlyOne
  <2>6. /\ q = a => epsn'[a] = outcome.epsn
        /\ q # a => epsn'[a] = epsn[a]
    BY <1>3, <2>1 DEF TypeOK
  <2>7. epsn'[a] = epsn[a] \/ (Taken(a) /\ epsn'[a] = PsnInc(epsn[a]))
    BY <1>3, <2>4, <2>5, <2>6 DEF Taken
  <2> HIDE DEF r, p
  <2> QED BY <1>3, <2>4, <2>5, <2>6, <2>7 DEF Answers
<1> QED BY <1>2, <1>3 DEF Responds

\* What arrives leaves the network, what was accepted leaves the input, and at most
\* one response enters.
LEMMA ReceiveShape ==
    ASSUME NEW a \in QPs, TypeOK, OnlyOne(a), NEW outcome, Responds(outcome),
           NEW arrives \in ArriveInputs, Receive(outcome, arrives)
    PROVE  /\ \/ rx' = NoAck \/ (rx' = rx /\ ~AckAccepted)
              \/ arrives /\ ackq # <<>> /\ rx' = ackq[1]
           /\ \E valid \in BOOLEAN, x \in Acks :
                /\ Moved(ackq, ackq', arrives, valid, x)
                /\ valid => /\ Launching /\ rr_qpn = a /\ conn[a] = "open" /\ x.qpn = a
                            /\ x.syndrome = "ACK" => Count(x.psn) = Index(epsn'[a])
<1>1. arrives \in BOOLEAN /\ (arrives => ackq # <<>>) /\ ackq \in Seq(Acks)
  BY DEF ArriveInputs, TypeOK
<1>2. \/ rx' = NoAck \/ (rx' = rx /\ ~AckAccepted)
      \/ arrives /\ ackq # <<>> /\ rx' = ackq[1]
  BY <1>1 DEF Receive
<1> DEFINE left == Pop(ackq, arrives)
<1>3. left = (IF arrives THEN Tail(ackq) ELSE ackq) /\ left \in Seq(Acks)
  BY <1>1 DEF Pop
<1>4. ackq' = IF Len(left) < MaxAcks THEN left \o outcome.reply ELSE left
  BY <1>3 DEF Receive
<1> HIDE DEF left
<1>5. CASE outcome.reply # <<>> /\ Len(left) < MaxAcks
  <2>1. PICK x \in Acks : /\ outcome.reply = <<x>> /\ x.qpn = a
                          /\ x.syndrome = "ACK" => Count(x.psn) = Index(epsn'[a])
    BY <1>5, ResponseShape
  <2>v. PICK v \in BOOLEAN : v
    OBVIOUS
  <2>2. ackq' = Pop(ackq, arrives) \o Push(v, x)
    BY <1>4, <1>5, <2>1, <2>v DEF left, Push
  <2>x. v => x \in Acks
    BY <2>1
  <2>3. Moved(ackq, ackq', arrives, v, x)
    BY <1>1, <2>2, <2>x, FifoItems, ZenonT(60)
  <2>4. Launching /\ rr_qpn = a /\ conn[a] = "open"
    BY <1>5, ResponseShape
  <2> QED BY <1>2, <2>1, <2>3, <2>4
<1>6. CASE outcome.reply = <<>> \/ ~(Len(left) < MaxAcks)
  <2>1. PICK x : x \in Acks
    <3>1. [qpn |-> 0, psn |-> 0, syndrome |-> "ACK"] \in Acks
      BY Constants DEF Acks, Syndromes
    <3> QED BY <3>1
  <2>2. ackq' = left
    <3>1. left \o <<>> = left
      BY <1>3
    <3> QED BY <1>4, <1>6, <3>1
  <2>3. ackq' = Pop(ackq, arrives) \o Push(FALSE, x)
    BY <1>3, <2>2 DEF left, Push
  <2>4. Moved(ackq, ackq', arrives, FALSE, x)
    BY <1>1, <2>3, FifoItems
  <2> QED BY <1>2, <2>1, <2>4
<1> QED BY <1>5, <1>6

-----------------------------------------------------------------------------
(* The session: an edge before and after which a is not closed.            *)

Lives(a, cm, close, pkt, take, done, arrives, outcome) ==
    /\ Setting(a) /\ Always(a) /\ Session(a) /\ Always(a)'
    /\ conn[a] # "closed" /\ conn'[a] # "closed"
    /\ EngineEdge(cm, close, pkt, take, done, arrives, outcome)

\* The facts about one edge that the lemmas below use.
LEMMA LifeParts ==
    ASSUME NEW a, NEW cm, NEW close, NEW pkt, NEW take, NEW done, NEW arrives, NEW outcome,
           Lives(a, cm, close, pkt, take, done, arrives, outcome)
    PROVE  /\ a \in QPs /\ TypeOK /\ WriteTypes /\ Moves /\ ReadMoves /\ Sweep /\ TypeOK'
           /\ EdgeInputs(pkt, done, cm, close) /\ WriteEdge(pkt, take, done, cm, close)
           /\ Responds(outcome) /\ arrives \in ArriveInputs /\ Receive(outcome, arrives)
           /\ conn[a] \in {"none", "open"} /\ conn'[a] \in {"none", "open"}
           /\ conn[a] = "open" => Running(a)'
           /\ conn'[a] = "none" =>
                conn[a] = "none" /\ (m_table_rst'.we => m_table_rst'.psn = PSN_RESET)
           /\ conn[a] = "none" /\ conn'[a] = "open" => Opening(a)'
           /\ Opening(a)' => /\ conn[a] = "none" /\ m_table_rst' = Write(a, PsnDec(OpenPsn))
                             /\ \A q \in QPs : AtRest(q)
<1>1. /\ a \in QPs /\ Setting(a) /\ Always(a) /\ Session(a)
      /\ conn[a] # "closed" /\ conn'[a] # "closed"
      /\ EngineEdge(cm, close, pkt, take, done, arrives, outcome)
  BY DEF Lives, Setting
<1>2. /\ TypeOK /\ WriteTypes /\ Moves /\ ReadMoves /\ Sweep /\ TypeOK'
      /\ EdgeInputs(pkt, done, cm, close) /\ WriteEdge(pkt, take, done, cm, close)
  BY <1>1, EdgeParts
<1>3. Responds(outcome) /\ arrives \in ArriveInputs /\ Receive(outcome, arrives)
  BY <1>1 DEF EngineEdge, Inputs
<1>4. conn[a] \in {"none", "open"} /\ conn'[a] \in {"none", "open"}
  BY <1>1, <1>2 DEF TypeOK
<1>5. /\ conn[a] = "open" => conn'[a] = "open" /\ ~m_table_rst'.we
      /\ conn'[a] = "none" =>
           conn[a] = "none" /\ (m_table_rst'.we => m_table_rst'.psn = PSN_RESET)
      /\ conn[a] = "none" /\ conn'[a] = "open" => Opening(a)'
      /\ Opening(a)' => /\ conn[a] = "none" /\ m_table_rst' = Write(a, PsnDec(OpenPsn))
                        /\ \A q \in QPs : AtRest(q)
  BY <1>1, Phases
<1> QED BY <1>1, <1>2, <1>3, <1>4, <1>5 DEF Running

\* Before the OPEN, and until its reset is done, there is nothing at the input.
LEMMA FreshBefore ==
    ASSUME NEW a, NEW cm, NEW close, NEW pkt, NEW take, NEW done, NEW arrives, NEW outcome,
           Lives(a, cm, close, pkt, take, done, arrives, outcome)
    PROVE  /\ Fresh(a)' => conn[a] = "none"
           /\ conn[a] = "none" => Fresh(a)
           /\ rx # NoAck => conn[a] = "open" /\ rx.qpn = a
           /\ \A q \in QPs : q # a \/ Fresh(a) => ~Addressed(q) /\ ~(CplWrite.we /\ CplWrite.qpn = q)
           /\ \A q \in QPs : q # a \/ Fresh(a) => ~(m_wr_table.we /\ m_wr_table.qpn = q)
<1>1. Fresh(a)' => conn[a] = "none"
  BY LifeParts DEF Fresh, Opening, Running
<1>2. conn[a] = "none" => Fresh(a)
  BY DEF Fresh
<1>3. Mine(a) /\ FreshStart(a) /\ conn[a] \in {"none", "open"}
  BY LifeParts DEF Lives, Session
<1>4. rx # NoAck => conn[a] = "open" /\ rx.qpn = a
  BY <1>2, <1>3 DEF Mine, FreshStart
<1>5. CplWrite.we => rx # NoAck /\ CplWrite.qpn = rx.qpn
  BY DEF CplWrite, AckAccepted, Write, NoWrite
<1>6. Fresh(a) => rx = NoAck /\ ~m_wr_table.we
  BY <1>3 DEF FreshStart
<1>7. m_wr_table.we => m_wr_table.qpn = a
  BY <1>3 DEF Mine
<1> QED BY <1>1, <1>2, <1>4, <1>5, <1>6, <1>7 DEF Addressed

\* Every table write, packet and response is of the one connection.
LEMMA MineEdge ==
    ASSUME NEW a, NEW cm, NEW close, NEW pkt, NEW take, NEW done, NEW arrives, NEW outcome,
           Lives(a, cm, close, pkt, take, done, arrives, outcome)
    PROVE  Mine(a)'
<1>0. /\ a \in QPs /\ TypeOK /\ WriteTypes /\ EdgeInputs(pkt, done, cm, close)
      /\ WriteEdge(pkt, take, done, cm, close)
      /\ Responds(outcome) /\ arrives \in ArriveInputs /\ Receive(outcome, arrives)
  BY LifeParts
<1>1. OnlyOne(a) /\ Mine(a) /\ ~StaleProducer
  BY DEF Lives, Always, Session, Setting
<1>2. \A i \in 1..Len(entry_fifo) : entry_fifo[i] \in Pending
  BY DEF Pending, ItemsOf
<1>3. m_wr_table'.we => m_wr_table'.qpn = a
  <2>1. m_wr_table'.we => /\ entry_fifo # <<>> /\ Head(entry_fifo) = entry_fifo[1]
                          /\ m_wr_table' = Write(Head(entry_fifo).qpn, Head(entry_fifo).psn)
    BY <1>0, EntryFifoEdge
  <2>2. entry_fifo # <<>> => 1 \in 1..Len(entry_fifo)
    BY <1>0 DEF WriteTypes
  <2> QED BY <1>1, <1>2, <2>1, <2>2 DEF Mine, Write
<1>4. Accepts(pkt) => pkt.qpn = a
  BY <1>0, <1>1 DEF EdgeInputs, Sending, NextPacket, OnlyOne
<1>5. wr_entry # NoPkt => wr_entry \in Pending
  <2>1. wr_entry # NoPkt => Registered(wr_entry) = <<wr_entry>>
    BY DEF Registered
  <2>2. wr_entry \in ItemsOf(<<wr_entry>>)
    BY DEF ItemsOf
  <2> QED BY <2>1, <2>2 DEF Pending
<1>6. \A x \in Pending' : x.qpn = a
  BY <1>0, <1>1, <1>2, <1>4, <1>5, PendingEdge DEF Mine
<1>7. rx' # NoAck => rx'.qpn = a
  <2>1. \/ rx' = NoAck \/ rx' = rx \/ (ackq # <<>> /\ rx' = ackq[1])
    BY <1>0, <1>1, ReceiveShape
  <2>2. ackq # <<>> => 1 \in 1..Len(ackq)
    BY <1>0 DEF TypeOK
  <2> QED BY <1>1, <2>1, <2>2 DEF Mine
<1>8. \A i \in 1..Len(ackq') : ackq'[i].qpn = a
  <2>1. PICK valid \in BOOLEAN, x \in Acks : /\ Moved(ackq, ackq', arrives, valid, x)
                                             /\ valid => x.qpn = a
    BY <1>0, <1>1, ReceiveShape
  <2>2. Len(ackq) \in Nat
    BY <1>0 DEF TypeOK
  <2>3. \A i \in 1..Len(ackq) : ackq[i].qpn = a
    BY <1>1 DEF Mine
  <2>4. PICK d \in {0, 1} : /\ Len(ackq') = Len(ackq) - d + (IF valid THEN 1 ELSE 0) /\ d <= Len(ackq)
                            /\ \A i \in 1..Len(ackq) - d : ackq'[i] = ackq[i + d]
                            /\ valid => ackq'[Len(ackq) - d + 1] = x
    BY <2>1 DEF Moved
  <2>5. ASSUME NEW i \in 1..Len(ackq')
        PROVE  ackq'[i].qpn = a
    <3>1. CASE i \in 1..Len(ackq) - d
      <4>1. i + d \in 1..Len(ackq) BY <2>2, <3>1
      <4> QED BY <2>3, <2>4, <3>1, <4>1
    <3>2. CASE ~(i \in 1..Len(ackq) - d)
      <4>1. valid /\ i = Len(ackq) - d + 1 BY <2>2, <2>4, <3>2
      <4> QED BY <2>1, <2>4, <4>1
    <3> QED BY <3>1, <3>2
  <2> QED BY <2>5
<1> QED BY <1>3, <1>6, <1>7, <1>8 DEF Mine

\* A rewind loses its reason only to an acknowledge.
LEMMA ReasonKept ==
    ASSUME TypeOK, CalmTimers, CalmResponses, TimedOutIsOut, Sweep, NEW q \in QPs,
           tmr[q].timed_out, ~qp_started_retrans[q], ~qp_closed[q]
    PROVE  tmr'[q].timed_out \/ Addressed(q)
BY SweepMoves DEF TimerMoves, TimedOutIsOut

\* What a rewind begins with.
LEMMA RewindBegins ==
    ASSUME TypeOK, FlagServed, ClosedServed, Moves, Sweep,
           state = "CHECK_TIMEOUT", tmr[rr_qpn].timed_out, ~tmr[rr_qpn].error
    PROVE  ~qp_started_retrans[rr_qpn] /\ ~qp_closed[rr_qpn]
<1>1. rr_qpn \in QPs /\ Checking
  BY DEF TypeOK, Checking
<1>2. ~(Far(rr_qpn) > Near(rr_qpn))
  BY <1>1, StaysAhead DEF Moves
<1> QED BY <1>1, <1>2 DEF FlagServed, ClosedServed

\* A rewind that is under way keeps its PSN.
LEMMA RewindEdge ==
    ASSUME NEW a, NEW cm, NEW close, NEW pkt, NEW take, NEW done, NEW arrives, NEW outcome,
           Lives(a, cm, close, pkt, take, done, arrives, outcome)
    PROVE  RewindKept(a)'
<1> SUFFICES ASSUME Rewinding'
             PROVE  /\ ~qp_started_retrans'[rr_qpn'] /\ ~qp_closed'[rr_qpn']
                    /\ tmr'[rr_qpn'].timed_out \/ (rr_qpn' = a /\ conn'[a] = "open")
  BY DEF RewindKept
<1>0. /\ a \in QPs /\ TypeOK /\ Moves /\ ReadMoves /\ Sweep
      /\ conn[a] = "open" => conn'[a] = "open"
  BY LifeParts DEF Running
<1>1. /\ FlagServed /\ ClosedServed /\ CalmTimers /\ CalmResponses /\ TimedOutIsOut
      /\ RewindKept(a)
  BY DEF Lives, Always, Session, ServedInv
<1>2. /\ rr_qpn' = rr_qpn /\ UNCHANGED <<qp_started_retrans, qp_closed>>
      /\ Rewinding \/ (state = "CHECK_TIMEOUT" /\ tmr[rr_qpn].timed_out /\ ~tmr[rr_qpn].error)
  BY <1>0 DEF ReadMoves, RewindMoves
<1>3. /\ ~qp_started_retrans[rr_qpn] /\ ~qp_closed[rr_qpn]
      /\ tmr[rr_qpn].timed_out \/ (rr_qpn = a /\ conn[a] = "open")
  BY <1>0, <1>1, <1>2, RewindBegins DEF RewindKept
<1>4. tmr[rr_qpn].timed_out => tmr'[rr_qpn].timed_out \/ Addressed(rr_qpn)
  BY <1>0, <1>1, <1>3, ReasonKept DEF TypeOK
<1>5. Addressed(rr_qpn) => rr_qpn = a /\ conn[a] = "open"
  BY FreshBefore DEF Addressed
<1> QED BY <1>0, <1>2, <1>3, <1>4, <1>5

\* An edge leaves a queue pair unused that no announcement, no response and no
\* reset but that of a close addresses, and that rewinds only when its timer is out.
LEMMA UnusedStep ==
    ASSUME NEW q \in QPs, TypeOK, TypeOK', CalmTimers, CalmResponses, RdWriteStates, Unused(q),
           ReadMoves, Sweep, NEW cm, NEW close, TablesStep(cm, close),
           ~Addressed(q), ~(CplWrite.we /\ CplWrite.qpn = q), ~(m_wr_table.we /\ m_wr_table.qpn = q),
           m_table_rst.we /\ m_table_rst.qpn = q => m_table_rst.psn = PSN_RESET,
           Rewinding /\ rr_qpn = q => tmr[q].timed_out
    PROVE  Unused(q)'
<1>1. /\ wr_table[q] = PSN_RESET /\ rd_table[q] = PSN_RESET /\ cpl_table[q] = PSN_RESET
      /\ m_rd_table.we /\ m_rd_table.qpn = q => m_rd_table.psn = PSN_RESET
      /\ ~tmr[q].error
      /\ rr_qpn = q => /\ state \notin {"FETCH_HDR", "SEND_HDR", "WAIT_DMA"}
                       /\ state = "UPDATE_RD_TABLE" /\ ~m_rd_table.we => s_cpl = PSN_RESET
                       /\ state = "COMPARE" => s_wr = s_rd /\ s_cpl = s_wr
  BY DEF Unused
<1>2. /\ wr_table \in [QPs -> Psn] /\ rd_table \in [QPs -> Psn] /\ cpl_table \in [QPs -> Psn]
      /\ rr_qpn \in QPs /\ m_rd_table \in WritePort /\ tmr \in [QPs -> Timers]
  BY DEF TypeOK
<1>3. /\ wr_table'  = TableWrite(wr_table, m_wr_table)
      /\ rd_table'  = TableWrite(rd_table, m_rd_table)
      /\ cpl_table' = TableWrite(cpl_table, CplWrite)
  BY DEF TablesStep
<1>4. wr_table'[q] = PSN_RESET /\ rd_table'[q] = PSN_RESET /\ cpl_table'[q] = PSN_RESET
  BY <1>1, <1>2, <1>3 DEF TableWrite
<1>5. m_rd_table'.we /\ m_rd_table'.qpn = q => m_rd_table'.psn = PSN_RESET
  <2> SUFFICES ASSUME m_rd_table'.we, m_rd_table'.qpn = q PROVE m_rd_table'.psn = PSN_RESET
    OBVIOUS
  <2>1. \/ m_rd_table' = [m_rd_table EXCEPT !.we = FALSE]
        \/ /\ state = "UPDATE_RD_TABLE" /\ ~m_rd_table.we
           /\ m_rd_table' = Write(rr_qpn, RewindPsn(rr_qpn))
        \/ Launching /\ m_rd_table' = Write(rr_qpn, LaunchedPsn)
    BY DEF ReadMoves, RdMoves
  <2>2. m_rd_table' # [m_rd_table EXCEPT !.we = FALSE]
    BY <1>2 DEF WritePort
  <2>3. ASSUME Launching, m_rd_table' = Write(rr_qpn, LaunchedPsn) PROVE FALSE
    BY <1>1, <2>3 DEF Launching, Write
  <2>4. ASSUME state = "UPDATE_RD_TABLE", ~m_rd_table.we,
               m_rd_table' = Write(rr_qpn, RewindPsn(rr_qpn))
        PROVE  m_rd_table'.psn = PSN_RESET
    <3>1. rr_qpn = q /\ m_rd_table'.psn = RewindPsn(q)
      BY <2>4 DEF Write
    <3>2. tmr[q].timed_out
      BY <2>4, <3>1 DEF Rewinding
    <3> QED BY <1>1, <2>4, <3>1, <3>2 DEF RewindPsn
  <2> QED BY <2>1, <2>2, <2>3, <2>4
<1>6. ~tmr'[q].error
  BY <1>1, SweepMoves DEF TimerMoves
<1>7. ASSUME rr_qpn' = q
      PROVE  /\ state' \notin {"FETCH_HDR", "SEND_HDR", "WAIT_DMA"}
             /\ state' = "UPDATE_RD_TABLE" /\ ~m_rd_table'.we => s_cpl' = PSN_RESET
             /\ state' = "COMPARE" => s_wr' = s_rd' /\ s_cpl' = s_wr'
  <2>1. state' \notin {"FETCH_HDR", "SEND_HDR", "WAIT_DMA"}
    BY <1>1, <1>7 DEF ReadMoves, RegMoves
  <2>2. state' = "UPDATE_RD_TABLE" /\ ~m_rd_table'.we => s_cpl' = PSN_RESET
    BY <1>1, <1>7 DEF ReadMoves, RewindMoves, Rewinding
  <2>3. state' = "COMPARE" => s_wr' = s_rd' /\ s_cpl' = s_wr'
    BY <1>1, <1>7 DEF ReadMoves, RegMoves
  <2> QED BY <2>1, <2>2, <2>3
<1> QED BY <1>4, <1>5, <1>6, <1>7 DEF Unused

\* The other queue pairs stay unused.
LEMMA UnusedEdge ==
    ASSUME NEW a, NEW cm, NEW close, NEW pkt, NEW take, NEW done, NEW arrives, NEW outcome,
           Lives(a, cm, close, pkt, take, done, arrives, outcome)
    PROVE  OthersUnused(a)'
<1>0. /\ a \in QPs /\ TypeOK /\ TypeOK' /\ ReadMoves /\ Sweep /\ TablesStep(cm, close)
  BY LifeParts DEF WriteEdge
<1>1. /\ CalmTimers /\ CalmResponses /\ RdWriteStates
      /\ OthersUnused(a) /\ RewindKept(a) /\ OpeningClean(a)
  BY DEF Lives, Always, Session
<1>2. /\ Fresh(a)' => conn[a] = "none"
      /\ conn[a] = "none" => Fresh(a)
  BY FreshBefore
<1>3. ASSUME NEW q \in QPs, q # a \/ Fresh(a)' PROVE Unused(q)'
  <2>1. (q # a \/ Fresh(a)) /\ (q = a => conn[a] = "none")
    BY <1>2, <1>3
  <2>2. Unused(q)
    BY <1>1, <2>1 DEF OthersUnused
  <2>3. ~Addressed(q) /\ ~(CplWrite.we /\ CplWrite.qpn = q)
        /\ ~(m_wr_table.we /\ m_wr_table.qpn = q)
    BY <2>1, FreshBefore
  <2>4. m_table_rst.we /\ m_table_rst.qpn = q => m_table_rst.psn = PSN_RESET
    <3>1. Opening(a) => m_table_rst.qpn = a /\ conn[a] = "open"
      BY <1>1 DEF OpeningClean, Opening, Write
    <3> QED BY <1>1, <2>1, <3>1 DEF OthersUnused
  <2>5. Rewinding /\ rr_qpn = q => tmr[q].timed_out
    BY <1>1, <2>1 DEF RewindKept
  <2> QED BY <1>0, <1>1, <2>2, <2>3, <2>4, <2>5, UnusedStep
<1>4. m_table_rst'.we => m_table_rst'.psn = PSN_RESET \/ Opening(a)'
  BY LifeParts DEF Opening
<1> QED BY <1>3, <1>4 DEF OthersUnused

\* Nobody sends before the OPEN.
LEMMA NobodySends ==
    ASSUME NEW a, NEW cm, NEW close, NEW pkt, NEW take, NEW done, NEW arrives, NEW outcome,
           Lives(a, cm, close, pkt, take, done, arrives, outcome), conn[a] = "none"
    PROVE  ~Accepts(pkt)
<1>1. EdgeInputs(pkt, done, cm, close) /\ OnlyOne(a) /\ ~StaleProducer
  BY LifeParts DEF Lives, Always, Setting
<1> QED BY <1>1 DEF EdgeInputs, OnlyOne, Sending

\* Before its OPEN the connection has received, announced and stored nothing.
LEMMA FreshEdge ==
    ASSUME NEW a, NEW cm, NEW close, NEW pkt, NEW take, NEW done, NEW arrives, NEW outcome,
           Lives(a, cm, close, pkt, take, done, arrives, outcome), conn[a] = "none"
    PROVE  /\ epsn'[a] = OpenPsn /\ rx' = NoAck /\ ackq' = <<>>
           /\ ~m_wr_table'.we /\ Pending' = {}
<1>0. /\ a \in QPs /\ TypeOK /\ WriteTypes /\ WriteEdge(pkt, take, done, cm, close)
      /\ Responds(outcome) /\ arrives \in ArriveInputs /\ Receive(outcome, arrives)
      /\ TypeOK'
  BY LifeParts
<1>1. /\ epsn[a] = OpenPsn /\ rx = NoAck /\ ackq = <<>> /\ ~m_wr_table.we /\ Pending = {}
      /\ OnlyOne(a)
  BY FreshBefore DEF Lives, Always, Session, FreshStart
<1>2. epsn'[a] = OpenPsn
  BY <1>0, <1>1, ResponseShape DEF Taken
<1>3. rx' = NoAck
  BY <1>0, <1>1, ReceiveShape
<1>4. ackq' = <<>>
  <2>1. PICK valid \in BOOLEAN, x \in Acks : /\ Moved(ackq, ackq', arrives, valid, x) /\ ~valid
    BY <1>0, ReceiveShape, <1>1
  <2>2. Len(ackq') = 0
    BY <1>1, <2>1 DEF Moved
  <2> QED BY <1>0, <2>2 DEF TypeOK
<1>5. Len(entry_fifo) = 0 /\ wr_entry = NoPkt
  <2>1. \A i \in 1..Len(entry_fifo) : entry_fifo[i] \in Pending
    BY DEF Pending, ItemsOf
  <2>2. Len(entry_fifo) \in Nat
    BY <1>0 DEF WriteTypes
  <2>3. wr_entry # NoPkt => wr_entry \in ItemsOf(Registered(wr_entry))
    BY DEF Registered, ItemsOf
  <2> QED BY <1>1, <2>1, <2>2, <2>3 DEF Pending
<1>6. ~m_wr_table'.we
  BY <1>0, <1>5, EntryFifoEdge
<1>7. Pending' = {}
  BY <1>0, <1>5, NobodySends, PendingEdge
<1> QED BY <1>2, <1>3, <1>4, <1>6, <1>7

\* A queue pair at rest that is unused stays at rest.
LEMMA RestStep ==
    ASSUME NEW q \in QPs, TypeOK, CalmTimers, CalmResponses, TimedOutIsOut, TimedOutIsOut',
           Unused(q), AtRest(q), ~CounterOut(timeout_period), FlagMoves, Sweep, ~Addressed(q)
    PROVE  AtRest(q)' /\ ~tmr[q].timed_out /\ ~tmr'[q].timed_out
<1>1. /\ qp_transmission_complete[q] /\ tmr[q].timeout_counter = timeout_period
      /\ close_req # q /\ ~tmr[q].error
      /\ rr_qpn = q /\ state = "COMPARE" => s_cpl = s_wr
  BY DEF AtRest, Unused
<1>2. ~tmr[q].timed_out
  BY <1>1 DEF TimedOutIsOut
<1>3. tmr'[q].timeout_counter = timeout_period
  BY <1>1, SweepMoves DEF TimerMoves
<1>4. ~tmr'[q].timed_out
  BY <1>3 DEF TimedOutIsOut, CounterOut, CounterStep
<1>5. qp_transmission_complete'[q]
  BY <1>1 DEF FlagMoves
<1>6. close_req' # q
  <2>1. q # None
    BY Constants
  <2> QED BY <1>1, <1>2, <2>1 DEF FlagMoves
<1> QED BY <1>2, <1>3, <1>4, <1>5, <1>6 DEF AtRest

\* The other queue pairs stay at rest, and an OPEN finds everything at rest.
LEMMA RestEdge ==
    ASSUME NEW a, NEW cm, NEW close, NEW pkt, NEW take, NEW done, NEW arrives, NEW outcome,
           Lives(a, cm, close, pkt, take, done, arrives, outcome)
    PROVE  OthersRest(a)' /\ OpeningClean(a)'
<1>0. /\ a \in QPs /\ TypeOK /\ ReadMoves /\ Sweep /\ WriteTypes /\ WriteEdge(pkt, take, done, cm, close)
      /\ Opening(a)' => /\ conn[a] = "none" /\ m_table_rst' = Write(a, PsnDec(OpenPsn))
                        /\ \A q \in QPs : AtRest(q)
      /\ conn[a] \in {"none", "open"} /\ (conn[a] = "open" => Running(a)')
  BY LifeParts
<1>1. /\ CalmTimers /\ CalmResponses /\ TimedOutIsOut /\ TimedOutIsOut' /\ Numbered
      /\ ~CounterOut(timeout_period)
      /\ OthersUnused(a) /\ OthersRest(a) /\ RewindKept(a)
  BY DEF Lives, Always, Session, Setting
<1>2. ASSUME NEW q \in QPs, q # a \/ Fresh(a), AtRest(q)
      PROVE  AtRest(q)' /\ ~tmr[q].timed_out /\ ~tmr'[q].timed_out
  <2>1. Unused(q) /\ ~Addressed(q)
    BY <1>1, <1>2, FreshBefore DEF OthersUnused
  <2> QED BY <1>0, <1>1, <1>2, <2>1, RestStep DEF ReadMoves
<1>3. OthersRest(a)'
  <2> SUFFICES ASSUME conn'[a] = "open", NEW q \in QPs, q # a PROVE AtRest(q)'
    BY DEF OthersRest
  <2>1. CASE conn[a] = "open"
    BY <1>1, <1>2, <2>1 DEF OthersRest
  <2>2. CASE conn[a] = "none"
    <3>1. Opening(a)'
      BY <2>2, LifeParts
    <3> QED BY <1>0, <1>2, <3>1
  <2> QED BY <1>0, <2>1, <2>2
<1>4. OpeningClean(a)'
  <2> SUFFICES ASSUME Opening(a)'
               PROVE  /\ m_table_rst' = Write(a, PsnDec(OpenPsn)) /\ np'[a] = OpenPsn
                      /\ \A q \in QPs : ~tmr'[q].timed_out
                      /\ ~Rewinding' /\ ~m_rd_table'.we
    BY DEF OpeningClean, Write, PsnDec
  <2>1. /\ conn[a] = "none" /\ m_table_rst' = Write(a, PsnDec(OpenPsn)) /\ Fresh(a)
        /\ \A q \in QPs : AtRest(q)
    BY <1>0, FreshBefore
  <2>2. \A q \in QPs : ~tmr[q].timed_out /\ ~tmr'[q].timed_out
    BY <1>2, <2>1
  <2>3. rr_qpn \in QPs /\ ~Rewinding
    BY <1>0, <1>1, <2>1, <2>2 DEF TypeOK, RewindKept
  <2>4. ~Rewinding'
    BY <1>0, <2>2, <2>3 DEF ReadMoves, RewindMoves
  <2>5. ~Launching
    BY <1>1, <2>1, <2>3 DEF OthersUnused, Unused, Launching
  <2>6. ~m_rd_table'.we
    BY <1>0, <2>3, <2>5 DEF ReadMoves, RdMoves, Rewinding, TypeOK, WritePort
  <2>7. np'[a] = OpenPsn
    <3>1. np[a] = OpenPsn
      BY <1>0, <1>1, <2>1 DEF Numbered
    <3>2. np' = np
      BY <1>0, <2>1, NobodySends DEF WriteEdge, Producer
    <3> QED BY <3>1, <3>2
  <2> QED BY <2>1, <2>2, <2>4, <2>6, <2>7
<1> QED BY <1>3, <1>4

-----------------------------------------------------------------------------
(* The pointers.                                                           *)

\* The pointers and the next numbers are PSNs.
LEMMA PointerTypes ==
    ASSUME NEW a \in QPs, TypeOK
    PROVE  /\ wr_table[a] \in Psn /\ rd_table[a] \in Psn /\ cpl_table[a] \in Psn
           /\ epsn[a] \in Psn /\ np[a] \in Psn
           /\ W(a) \in 0..(PSN_MOD - 1) /\ R(a) \in 0..(PSN_MOD - 1) /\ C(a) \in 0..(PSN_MOD - 1)
           /\ E(a) \in 0..(PSN_MOD - 1) /\ N(a) \in 0..(PSN_MOD - 1)
<1>1. /\ wr_table[a] \in Psn /\ rd_table[a] \in Psn /\ cpl_table[a] \in Psn
      /\ epsn[a] \in Psn /\ np[a] \in Psn
  BY DEF TypeOK
<1> QED BY <1>1, Counts DEF W, R, C, E, N

\* The producer stays within the window.
LEMMA WindowKept ==
    ASSUME NEW a, NEW cm, NEW close, NEW pkt, NEW take, NEW done, NEW arrives, NEW outcome,
           Lives(a, cm, close, pkt, take, done, arrives, outcome),
           C(a) <= N(a), N(a) <= C(a) + Window
    PROVE  N(a)' \in Nat /\ N(a) <= N(a)' /\ N(a)' <= C(a) + Window
<1>0. /\ a \in QPs /\ TypeOK /\ WriteTypes /\ WriteEdge(pkt, take, done, cm, close)
      /\ EdgeInputs(pkt, done, cm, close)
  BY LifeParts
<1>1. Numbered /\ Setting(a) /\ Inputs(cm, close, pkt, take, done, arrives)
  BY DEF Lives, Always, EngineEdge
<1>2. /\ Index(np[a]) \in Nat /\ Index(np'[a]) \in Nat
      /\ np'[a] = np[a] \/ (Accepts(pkt) /\ pkt.qpn = a)
      /\ Index(np[a]) <= Index(np'[a])
      /\ Accepts(pkt) /\ pkt.qpn = a => Index(np'[a]) = Index(np[a]) + 1
  BY <1>0, <1>1, NumbersEdge
<1>3. N(a)' = Index(np'[a])
  BY DEF N, Index, PsnDist
<1>4. Accepts(pkt) /\ pkt.qpn = a => PsnDist(np[a], PsnInc(cpl_table[a])) < Window
  <2>1. Accepts(pkt) => \E q \in QPs : WithinWindow(q) /\ pkt = NextPacket(q)
    BY <1>0, <1>1, EngineInputs DEF Accepts
  <2> QED BY <2>1 DEF WithinWindow, NextPacket
<1>5. PsnDist(np[a], PsnInc(cpl_table[a])) = N(a) - C(a)
  <2>1. /\ np[a] \in Psn /\ PsnInc(cpl_table[a]) \in Psn
        /\ Index(PsnInc(cpl_table[a])) = C(a) /\ Index(np[a]) = N(a)
    BY <1>0, PointerTypes, PsnSteps, Counts DEF C, N
  <2> QED BY <2>1, Distances
<1>6. Window \in Nat /\ C(a) \in Nat /\ N(a) = Index(np[a])
  BY <1>0, PointerTypes, NetworkAssumption DEF N
<1> QED BY <1>2, <1>3, <1>4, <1>5, <1>6

\* The edge at which the reset of the OPEN reaches the tables.
LEMMA OpeningEdge ==
    ASSUME NEW a, NEW cm, NEW close, NEW pkt, NEW take, NEW done, NEW arrives, NEW outcome,
           Lives(a, cm, close, pkt, take, done, arrives, outcome), Opening(a)
    PROVE  /\ Ordered(a)'
           /\ W(a)' = 0 /\ R(a)' = 0 /\ C(a)' = 0 /\ E(a)' = 0 /\ ~m_rd_table'.we
<1>0. /\ a \in QPs /\ TypeOK /\ TypeOK' /\ ReadMoves /\ Sweep /\ WriteTypes
      /\ WriteEdge(pkt, take, done, cm, close) /\ EdgeInputs(pkt, done, cm, close)
      /\ Responds(outcome) /\ arrives \in ArriveInputs /\ Receive(outcome, arrives)
  BY LifeParts
<1>1. /\ OthersUnused(a) /\ FreshStart(a) /\ OpeningClean(a) /\ Fresh(a) /\ OnlyOne(a)
      /\ Numbered /\ Setting(a) /\ Inputs(cm, close, pkt, take, done, arrives)
  BY DEF Lives, Always, Session, Fresh, EngineEdge
<1>2. /\ m_table_rst = Write(a, PsnDec(OpenPsn)) /\ np[a] = OpenPsn
      /\ \A q \in QPs : ~tmr[q].timed_out
      /\ ~Rewinding /\ ~m_rd_table.we
      /\ epsn[a] = OpenPsn /\ rx = NoAck /\ ackq = <<>>
  BY <1>1 DEF OpeningClean, FreshStart
<1>3. rr_qpn \in QPs /\ \A q \in QPs : Unused(q)
  BY <1>0, <1>1 DEF TypeOK, OthersUnused
<1>4. ~Launching
  BY <1>3 DEF Unused, Launching
<1>5. OpenPsn \in Psn /\ PsnDec(OpenPsn) \in Psn
  BY EnvAssumption, PsnSteps
<1>6. W(a)' = 0 /\ R(a)' = 0 /\ C(a)' = 0
  <2>1. /\ wr_table'[a] = PsnDec(OpenPsn) /\ rd_table'[a] = PsnDec(OpenPsn)
        /\ cpl_table'[a] = PsnDec(OpenPsn)
    BY <1>0, <1>2 DEF WriteEdge, TablesStep, TableWrite, Write, TypeOK
  <2>2. Count(PsnDec(OpenPsn)) = 0
    BY <1>5, Counts
  <2> QED BY <2>1, <2>2 DEF W, R, C, Count, PsnDist, PsnInc
<1>7. E(a)' = 0
  <2>1. epsn'[a] = OpenPsn
    BY <1>0, <1>1, <1>2, <1>4, ResponseShape DEF Taken
  <2> QED BY <1>5, <2>1, Counts DEF E, Index, PsnDist
<1>8. N(a)' \in Nat /\ N(a)' <= Window
  <2>1. /\ Index(np[a]) \in Nat /\ Index(np'[a]) \in Nat
        /\ np'[a] = np[a] \/ (Accepts(pkt) /\ pkt.qpn = a)
        /\ Accepts(pkt) /\ pkt.qpn = a => Index(np'[a]) = Index(np[a]) + 1
    BY <1>0, <1>1, NumbersEdge
  <2>2. Accepts(pkt) => \E q \in QPs : WithinWindow(q)
    BY <1>0, <1>1, EngineInputs DEF Accepts
  <2>3. ASSUME NEW q \in QPs, WithinWindow(q) PROVE 0 < Window
    <3>1. np[q] \in Psn /\ PsnInc(cpl_table[q]) \in Psn
      BY <1>0, PointerTypes, PsnSteps
    <3>2. PsnDist(np[q], PsnInc(cpl_table[q])) >= 0
      BY <3>1, PsnAssumption DEF PsnDist, Psn
    <3>3. PsnDist(np[q], PsnInc(cpl_table[q])) \in Int
      BY <3>1, PsnAssumption DEF PsnDist, Psn
    <3> QED BY <2>3, <3>2, <3>3, NetworkAssumption DEF WithinWindow
  <2>4. Index(np[a]) = 0 /\ Window \in Nat
    BY <1>2, <1>5, Counts, NetworkAssumption
  <2>5. N(a)' = Index(np'[a])
    BY DEF N, Index, PsnDist
  <2> QED BY <2>1, <2>2, <2>3, <2>4, <2>5
<1>9. Bounds(a)'
  BY <1>6, <1>7, <1>8, NetworkAssumption DEF Bounds
<1>10. rx' = NoAck /\ ackq' = <<>>
  <2>1. rx' = NoAck
    BY <1>0, <1>1, <1>2, ReceiveShape
  <2>2. PICK valid \in BOOLEAN, x \in Acks : /\ Moved(ackq, ackq', arrives, valid, x) /\ ~valid
    BY <1>0, <1>1, <1>4, ReceiveShape
  <2>3. Len(ackq') = 0
    BY <1>2, <2>2 DEF Moved
  <2> QED BY <1>0, <2>1, <2>3 DEF TypeOK
<1>11. ~Rewinding'
  BY <1>0, <1>2, <1>3 DEF ReadMoves, RewindMoves
<1>12. ~m_rd_table'.we
  BY <1>0, <1>2, <1>4 DEF ReadMoves, RdMoves, Rewinding, TypeOK, WritePort
<1>13. RdUnused(a)'
  BY <1>10, <1>11, <1>12 DEF RdUnused, NoAck
<1>14. AckOrder(a)'
  BY <1>10 DEF AckOrder, NoAck
<1>15. ReadFits(a)'
  <2> SUFFICES ASSUME rr_qpn' = a
               PROVE  /\ state' = "COMPARE" => s_wr' = s_rd'
                      /\ state' # "FETCH_HDR"
                      /\ ~(state' = "UPDATE_RD_TABLE" /\ ~m_rd_table'.we)
    BY DEF ReadFits
  <2>1. state' = "COMPARE" => s_wr' = s_rd'
    BY <1>0, <1>3 DEF ReadMoves, RegMoves, Unused
  <2>2. state' # "FETCH_HDR"
    BY <1>0, <1>3 DEF ReadMoves, RegMoves, Unused
  <2>3. ~(state' = "UPDATE_RD_TABLE" /\ ~m_rd_table'.we)
    BY <1>11 DEF Rewinding
  <2> QED BY <2>1, <2>2, <2>3
<1>16. Ordered(a)'
  BY <1>9, <1>13, <1>14, <1>15 DEF Ordered
<1> QED BY <1>6, <1>7, <1>12, <1>16

\* How the pointers move while a is open.
PointerMoves(a) ==
    /\ W(a) <= W(a)' /\ W(a)' <= N(a)
    /\ C(a) <= C(a)' /\ C(a)' <= E(a)
    /\ IF AckAccepted /\ rx.syndrome = "ACK" THEN C(a)' = Count(rx.psn) ELSE C(a)' = C(a)
    /\ \/ E(a)' = E(a)
       \/ Launching /\ rr_qpn = a /\ E(a) <= R(a) /\ E(a)' = E(a) + 1
    /\ ~m_rd_table.we => rd_table'[a] = rd_table[a]
    /\ m_rd_table.we => RdFits(a) /\ rd_table'[a] = m_rd_table.psn /\ ~Launching

\* The write side announces in order, and what it announces has been numbered.
LEMMA WrMoves ==
    ASSUME NEW a, NEW cm, NEW close, NEW pkt, NEW take, NEW done, NEW arrives, NEW outcome,
           Lives(a, cm, close, pkt, take, done, arrives, outcome), Running(a)
    PROVE  W(a) <= W(a)' /\ W(a)' <= N(a)
<1>0. /\ a \in QPs /\ TypeOK /\ TypeOK' /\ WriteEdge(pkt, take, done, cm, close)
      /\ W(a) \in Nat /\ N(a) \in Nat
  BY LifeParts, PointerTypes
<1>1. EntriesOrdered /\ Numbered /\ TableBehind /\ Mine(a) /\ ~m_table_rst.we /\ conn[a] = "open"
  BY DEF Lives, Always, Session, Running
<1>2. /\ Index(PsnInc(wr_table[a])) <= Index(np[a])
      /\ m_wr_table.we => Index(PsnInc(wr_table[a])) <= Index(m_wr_table.psn)
  BY <1>0, <1>1 DEF TableBehind, Mine
<1>3. W(a) = Index(PsnInc(wr_table[a])) /\ N(a) = Index(np[a])
  BY <1>0, PointerTypes, Counts DEF W, N
<1>4. CASE ~m_wr_table.we
  <2>1. wr_table' = wr_table
    BY <1>0, <1>1, <1>4 DEF WriteEdge, TablesStep, TableWrite
  <2>2. W(a)' = W(a)
    BY <2>1 DEF W, Count, PsnDist, PsnInc
  <2> QED BY <1>0, <1>2, <1>3, <2>2
<1>5. CASE m_wr_table.we
  <2>1. /\ m_wr_table.qpn = a /\ m_wr_table.psn \in Psn
        /\ Index(m_wr_table.psn) < Index(np[a]) /\ Index(np[a]) <= MaxPkts
    BY <1>0, <1>1, <1>5 DEF Mine, EntriesOrdered, Numbered, TypeOK, WritePort
  <2>2. wr_table'[a] = m_wr_table.psn
    BY <1>0, <1>1, <1>5, <2>1 DEF WriteEdge, TablesStep, TableWrite, TypeOK
  <2>3. W(a)' = Count(m_wr_table.psn)
    BY <2>2 DEF W, Count, PsnDist, PsnInc
  <2>4. Index(m_wr_table.psn) \in Nat /\ Index(m_wr_table.psn) < PSN_MOD - 1
    BY <1>0, <1>3, <2>1, Counts, EnvAssumption, PsnAssumption
  <2>5. Count(m_wr_table.psn) = Index(m_wr_table.psn) + 1
    BY <2>1, <2>4, Counts
  <2> QED BY <1>0, <1>2, <1>3, <1>5, <2>1, <2>3, <2>4, <2>5
<1> QED BY <1>4, <1>5

\* An acknowledge moves cpl_table forward, to what the responder has received.
LEMMA CplMoves ==
    ASSUME NEW a, NEW cm, NEW close, NEW pkt, NEW take, NEW done, NEW arrives, NEW outcome,
           Lives(a, cm, close, pkt, take, done, arrives, outcome), Running(a)
    PROVE  /\ C(a) <= C(a)' /\ C(a)' <= E(a)
           /\ IF AckAccepted /\ rx.syndrome = "ACK" THEN C(a)' = Count(rx.psn) ELSE C(a)' = C(a)
<1>0. /\ a \in QPs /\ TypeOK /\ TypeOK' /\ WriteEdge(pkt, take, done, cm, close)
      /\ C(a) \in Nat /\ E(a) \in Nat
  BY LifeParts, PointerTypes
<1>1. Mine(a) /\ ~m_table_rst.we /\ Bounds(a) /\ AckOrder(a)
  BY DEF Lives, Session, Running, Ordered
<1>2. CASE AckAccepted /\ rx.syndrome = "ACK"
  <2>1. CplWrite.we /\ CplWrite.qpn = a /\ CplWrite.psn = rx.psn
    BY <1>1, <1>2 DEF CplWrite, Write, Mine, AckAccepted
  <2>2. cpl_table'[a] = rx.psn
    BY <1>0, <1>1, <2>1 DEF WriteEdge, TablesStep, TableWrite, TypeOK
  <2>3. C(a)' = Count(rx.psn)
    BY <2>2 DEF C, Count, PsnDist, PsnInc
  <2> QED BY <1>1, <1>2, <2>3 DEF AckOrder
<1>3. CASE ~(AckAccepted /\ rx.syndrome = "ACK")
  <2>1. ~CplWrite.we
    BY <1>3 DEF CplWrite, NoWrite
  <2>2. cpl_table' = cpl_table
    BY <1>0, <1>1, <2>1 DEF WriteEdge, TablesStep, TableWrite
  <2>3. C(a)' = C(a)
    BY <2>2 DEF C, Count, PsnDist, PsnInc
  <2> QED BY <1>0, <1>1, <1>3, <2>3 DEF Bounds
<1> QED BY <1>2, <1>3

\* The FSM launches the packet after rd_table.
LEMMA LaunchAt ==
    ASSUME NEW a \in QPs, TypeOK, Running(a), Bounds(a), ReadFits(a), RdWriteStates,
           Launching, rr_qpn = a
    PROVE  /\ LaunchedPsn \in Psn /\ Index(LaunchedPsn) = R(a) /\ Count(LaunchedPsn) = R(a) + 1
           /\ R(a) + 1 <= W(a) /\ ~m_rd_table.we
<1>1. s_rd = rd_table[a] /\ Count(s_rd) < Count(s_wr) /\ Count(s_wr) <= W(a)
  BY DEF ReadFits, ToSend, Launching
<1>2. s_rd \in Psn /\ s_wr \in Psn /\ LaunchedPsn \in Psn
  BY PsnSteps DEF TypeOK, LaunchedPsn
<1>3. /\ Index(LaunchedPsn) = Count(s_rd) /\ Count(s_rd) = R(a)
      /\ Count(s_wr) \in Nat /\ R(a) \in Nat /\ W(a) \in 0..(PSN_MOD - 1)
  BY <1>1, <1>2, Counts, PointerTypes DEF LaunchedPsn, R
<1>4. R(a) + 1 <= W(a) /\ R(a) < PSN_MOD - 1
  BY <1>1, <1>3, PsnAssumption
<1>5. Count(LaunchedPsn) = R(a) + 1
  BY <1>2, <1>3, <1>4, Counts
<1>6. ~m_rd_table.we
  BY DEF RdWriteStates, Launching
<1> QED BY <1>2, <1>3, <1>4, <1>5, <1>6

\* The header that the responder takes for the next one is not that of an earlier
\* packet: the window is smaller than the header RAM.
LEMMA TakenNotBehind ==
    ASSUME NEW a \in QPs, TypeOK, SlotsKept, Bounds(a), Window < HDR_SLOTS, PSN_MOD % HDR_SLOTS = 0,
           LaunchedPsn \in Psn, Index(LaunchedPsn) = R(a),
           hdr_ram[a][HdrSlotOf(LaunchedPsn)] = epsn[a]
    PROVE  E(a) <= R(a)
<1>1. epsn[a] \in Psn /\ E(a) = Index(epsn[a]) /\ E(a) \in Nat /\ R(a) \in Nat
  BY PointerTypes DEF E
<1>2. HdrSlotOf(epsn[a]) = HdrSlotOf(LaunchedPsn)
  <2>1. HdrSlotOf(LaunchedPsn) \in 0..(HDR_SLOTS - 1)
    BY PsnSteps
  <2>2. epsn[a] # None
    BY <1>1, Constants
  <2> QED BY <2>1, <2>2 DEF SlotsKept
<1> SUFFICES ASSUME R(a) < E(a) PROVE FALSE
  BY <1>1
<1>3. HDR_SLOTS \in Nat /\ HDR_SLOTS >= 1 /\ Window \in Nat
  BY WriteAssumption, PsnAssumption, NetworkAssumption
<1>4. Index(epsn[a]) - Index(LaunchedPsn) < HDR_SLOTS
  BY <1>1, <1>3 DEF Bounds
<1>5. epsn[a] % HDR_SLOTS # LaunchedPsn % HDR_SLOTS
  BY <1>1, <1>3, <1>4, DistinctMod
<1> QED BY <1>2, <1>5 DEF HdrSlotOf

\* The packet the responder takes has been announced.
LEMMA EpsnMoves ==
    ASSUME NEW a, NEW cm, NEW close, NEW pkt, NEW take, NEW done, NEW arrives, NEW outcome,
           Lives(a, cm, close, pkt, take, done, arrives, outcome), Running(a)
    PROVE  \/ E(a)' = E(a)
           \/ Launching /\ rr_qpn = a /\ E(a) <= R(a) /\ E(a)' = E(a) + 1
<1>0. /\ a \in QPs /\ TypeOK /\ Responds(outcome)
      /\ OnlyOne(a) /\ SlotsKept /\ RdWriteStates /\ Bounds(a) /\ ReadFits(a)
      /\ Window < HDR_SLOTS /\ PSN_MOD % HDR_SLOTS = 0
  BY LifeParts DEF Lives, Always, Session, Ordered, Setting
<1>1. CASE epsn'[a] = epsn[a]
  BY <1>1 DEF E, Index, PsnDist
<1>2. CASE Taken(a) /\ epsn'[a] = PsnInc(epsn[a])
  <2>1. Launching /\ rr_qpn = a /\ hdr_ram[a][HdrSlotOf(LaunchedPsn)] = epsn[a]
    BY <1>2 DEF Taken
  <2>2. LaunchedPsn \in Psn /\ Index(LaunchedPsn) = R(a) /\ R(a) + 1 <= W(a)
    BY <1>0, <2>1, LaunchAt
  <2>3. epsn[a] \in Psn /\ E(a) = Index(epsn[a]) /\ E(a) \in Nat /\ R(a) \in Nat
        /\ W(a) \in 0..(PSN_MOD - 1)
    BY <1>0, PointerTypes DEF E
  <2>5. E(a) <= R(a)
    BY <1>0, <2>1, <2>2, TakenNotBehind
  <2>6. Index(PsnInc(epsn[a])) = E(a) + 1
    <3>1. Index(epsn[a]) < PSN_MOD - 1
      BY <2>2, <2>3, <2>5, PsnAssumption
    <3> QED BY <2>3, <3>1, IndexSteps
  <2>7. E(a)' = Index(PsnInc(epsn[a]))
    BY <1>2 DEF E, Index, PsnDist
  <2> QED BY <2>1, <2>5, <2>6, <2>7
<1> QED BY <1>0, <1>1, <1>2, ResponseShape

\* One edge of a connection moves its counts as PointerMoves says.
LEMMA AllMove ==
    ASSUME NEW a, NEW cm, NEW close, NEW pkt, NEW take, NEW done, NEW arrives, NEW outcome,
           Lives(a, cm, close, pkt, take, done, arrives, outcome), Running(a)
    PROVE  PointerMoves(a)
<1>0. a \in QPs /\ TypeOK /\ WriteEdge(pkt, take, done, cm, close)
  BY LifeParts
<1>1. /\ RdFits(a) \/ RdUnused(a)
      /\ RdWriteStates /\ ~m_table_rst.we
  BY DEF Lives, Always, Session, Ordered, Running
<1>2. rd_table' = TableWrite(rd_table, m_rd_table)
  BY <1>0 DEF WriteEdge, TablesStep
<1>3. ~m_rd_table.we => rd_table'[a] = rd_table[a]
  BY <1>1, <1>2 DEF TableWrite
<1>4. m_rd_table.we => RdFits(a) /\ rd_table'[a] = m_rd_table.psn /\ ~Launching
  <2> SUFFICES ASSUME m_rd_table.we PROVE RdFits(a) /\ rd_table'[a] = m_rd_table.psn /\ ~Launching
    OBVIOUS
  <2>1. RdFits(a) /\ m_rd_table.qpn = a
    BY <1>1 DEF RdUnused, RdFits
  <2>2. rd_table'[a] = m_rd_table.psn
    BY <1>0, <1>1, <1>2, <2>1 DEF TableWrite, TypeOK
  <2>3. ~Launching
    BY <1>1 DEF RdWriteStates, Launching
  <2> QED BY <2>1, <2>2, <2>3
<1> QED BY <1>3, <1>4, WrMoves, CplMoves, EpsnMoves DEF PointerMoves

\* All that is a number.
LEMMA PointerRanges ==
    ASSUME NEW a, NEW cm, NEW close, NEW pkt, NEW take, NEW done, NEW arrives, NEW outcome,
           Lives(a, cm, close, pkt, take, done, arrives, outcome)
    PROVE  /\ W(a) \in Nat /\ R(a) \in Nat /\ C(a) \in Nat /\ E(a) \in Nat /\ N(a) \in Nat
           /\ W(a)' \in Nat /\ R(a)' \in Nat /\ C(a)' \in Nat /\ E(a)' \in Nat /\ N(a)' \in Nat
           /\ Window \in Nat
<1>1. a \in QPs /\ TypeOK /\ TypeOK'
  BY LifeParts
<1>2. /\ W(a) \in Nat /\ R(a) \in Nat /\ C(a) \in Nat /\ E(a) \in Nat /\ N(a) \in Nat
  BY <1>1, PointerTypes
<1>3. /\ wr_table'[a] \in Psn /\ rd_table'[a] \in Psn /\ cpl_table'[a] \in Psn
      /\ epsn'[a] \in Psn /\ np'[a] \in Psn
  BY <1>1 DEF TypeOK
<1>4. /\ Count(wr_table'[a]) \in Nat /\ Count(rd_table'[a]) \in Nat /\ Count(cpl_table'[a]) \in Nat
      /\ Index(epsn'[a]) \in Nat /\ Index(np'[a]) \in Nat
  BY <1>3, Counts
<1> QED BY <1>2, <1>4, NetworkAssumption DEF W, R, C, E, N, Count, Index, PsnDist, PsnInc

\* One edge keeps the counts in order.
LEMMA BoundsEdge ==
    ASSUME NEW a, NEW cm, NEW close, NEW pkt, NEW take, NEW done, NEW arrives, NEW outcome,
           Lives(a, cm, close, pkt, take, done, arrives, outcome), Running(a)
    PROVE  Bounds(a)'
<1>0. /\ W(a) \in Nat /\ R(a) \in Nat /\ C(a) \in Nat /\ E(a) \in Nat /\ N(a) \in Nat
      /\ W(a)' \in Nat /\ R(a)' \in Nat /\ C(a)' \in Nat /\ E(a)' \in Nat /\ N(a)' \in Nat
      /\ Window \in Nat
  BY PointerRanges
<1>1. a \in QPs /\ TypeOK /\ Bounds(a) /\ ReadFits(a) /\ RdWriteStates
  BY LifeParts DEF Lives, Always, Session, Ordered
<1>2. /\ W(a) <= W(a)' /\ W(a)' <= N(a) /\ C(a) <= C(a)' /\ C(a)' <= E(a)
      /\ \/ E(a)' = E(a)
         \/ Launching /\ rr_qpn = a /\ E(a) <= R(a) /\ E(a)' = E(a) + 1
      /\ ~m_rd_table.we => rd_table'[a] = rd_table[a]
      /\ m_rd_table.we => RdFits(a) /\ rd_table'[a] = m_rd_table.psn /\ ~Launching
  BY AllMove DEF PointerMoves
<1>3. N(a) <= N(a)' /\ N(a)' <= C(a) + Window
  BY <1>0, <1>1, WindowKept DEF Bounds
<1>4. /\ ~m_rd_table.we => R(a)' = R(a)
      /\ m_rd_table.we => R(a)' = Count(m_rd_table.psn)
  BY <1>2 DEF R, Count, PsnDist, PsnInc
<1>5. Launching /\ rr_qpn = a => R(a) + 1 <= W(a) /\ ~m_rd_table.we
  BY <1>1, LaunchAt
<1>6. m_rd_table.we => /\ Count(m_rd_table.psn) <= W(a) /\ E(a) <= Count(m_rd_table.psn) + Window
                       /\ E(a)' = E(a)
  BY <1>2 DEF RdFits
<1> QED BY <1>0, <1>1, <1>2, <1>3, <1>4, <1>5, <1>6 DEF Bounds

\* Acknowledges leave in the order in which they were sent.
LEMMA AckEdge ==
    ASSUME NEW a, NEW cm, NEW close, NEW pkt, NEW take, NEW done, NEW arrives, NEW outcome,
           Lives(a, cm, close, pkt, take, done, arrives, outcome), Running(a)
    PROVE  AckOrder(a)'
<1>0. /\ a \in QPs /\ TypeOK /\ TypeOK' /\ OnlyOne(a) /\ AckOrder(a)
      /\ Responds(outcome) /\ arrives \in ArriveInputs /\ Receive(outcome, arrives)
  BY LifeParts DEF Lives, Always, Session, Ordered
<1>1. /\ C(a) \in Nat /\ E(a) \in Nat /\ C(a)' \in Nat /\ E(a)' \in Nat
      /\ C(a)' <= E(a) /\ E(a) <= E(a)' /\ C(a) <= C(a)'
      /\ IF AckAccepted /\ rx.syndrome = "ACK" THEN C(a)' = Count(rx.psn) ELSE C(a)' = C(a)
  BY PointerRanges, AllMove DEF PointerMoves
<1>2. /\ \/ rx' = NoAck \/ (rx' = rx /\ ~AckAccepted)
         \/ arrives /\ ackq # <<>> /\ rx' = ackq[1]
  BY <1>0, ReceiveShape
<1>3. PICK valid \in BOOLEAN, x \in Acks :
        /\ Moved(ackq, ackq', arrives, valid, x)
        /\ valid /\ x.syndrome = "ACK" => Count(x.psn) = Index(epsn'[a])
  BY <1>0, ReceiveShape
<1>4. Len(ackq) \in Nat /\ Len(ackq') \in Nat
      /\ (ackq # <<>> => 1 \in 1..Len(ackq))
      /\ \A i \in 1..Len(ackq) : ackq[i] \in Acks /\ Count(ackq[i].psn) \in Nat
  <2>1. ackq \in Seq(Acks) /\ ackq' \in Seq(Acks)
    BY <1>0 DEF TypeOK
  <2>2. \A i \in 1..Len(ackq) : ackq[i] \in Acks
    BY <2>1
  <2>3. \A y \in Acks : Count(y.psn) \in Nat
    BY Counts DEF Acks
  <2> QED BY <2>1, <2>2, <2>3
<1>5. PICK d \in {0, 1} :
        /\ arrives /\ ackq # <<>> => d = 1
        /\ Len(ackq') = Len(ackq) - d + (IF valid THEN 1 ELSE 0)
        /\ d <= Len(ackq)
        /\ \A i \in 1..(Len(ackq) - d) : ackq'[i] = ackq[i + d]
        /\ valid => ackq'[Len(ackq) - d + 1] = x
  BY <1>3 DEF Moved
<1>6. valid /\ x.syndrome = "ACK" => Count(x.psn) = E(a)'
  BY <1>3 DEF E, Index, PsnDist
\* Every acknowledge under way was under way, or is the new one.
<1>7. \A i \in 1..Len(ackq') :
        \/ i \in 1..(Len(ackq) - d) /\ i + d \in 1..Len(ackq) /\ ackq'[i] = ackq[i + d]
        \/ valid /\ i = Len(ackq) - d + 1 /\ ackq'[i] = x
  BY <1>4, <1>5
<1>8. \A i \in 1..Len(ackq) : ackq[i].syndrome = "ACK" =>
        C(a)' <= Count(ackq[i].psn) /\ Count(ackq[i].psn) <= E(a)'
  <2> SUFFICES ASSUME NEW i \in 1..Len(ackq), ackq[i].syndrome = "ACK"
               PROVE  C(a)' <= Count(ackq[i].psn) /\ Count(ackq[i].psn) <= E(a)'
    OBVIOUS
  <2>1. /\ C(a) <= Count(ackq[i].psn) /\ Count(ackq[i].psn) <= E(a)
        /\ rx.syndrome = "ACK" => Count(rx.psn) <= Count(ackq[i].psn)
    BY <1>0 DEF AckOrder
  <2> QED BY <1>1, <1>4, <2>1
<1>9. rx'.syndrome = "ACK" =>
        /\ C(a)' <= Count(rx'.psn) /\ Count(rx'.psn) <= E(a)'
        /\ \A i \in 1..Len(ackq') : ackq'[i].syndrome = "ACK" => Count(rx'.psn) <= Count(ackq'[i].psn)
  <2> SUFFICES ASSUME rx'.syndrome = "ACK"
               PROVE  /\ C(a)' <= Count(rx'.psn) /\ Count(rx'.psn) <= E(a)'
                      /\ \A i \in 1..Len(ackq') : ackq'[i].syndrome = "ACK" =>
                           Count(rx'.psn) <= Count(ackq'[i].psn)
    OBVIOUS
  <2>1. rx' # NoAck
    BY DEF NoAck
  <2>2. CASE rx' = rx /\ ~AckAccepted
    <3>1. /\ C(a)' <= Count(rx.psn) /\ Count(rx.psn) <= E(a)' /\ rx.syndrome = "ACK"
          /\ Count(rx.psn) \in Nat
      <4>1. rx \in Acks /\ rx.psn \in Psn
        BY <1>0, <2>1, <2>2 DEF TypeOK, Acks
      <4> QED BY <1>0, <1>1, <2>2, <4>1, Counts DEF AckOrder
    <3>2. \A i \in 1..Len(ackq) : ackq[i].syndrome = "ACK" => Count(rx.psn) <= Count(ackq[i].psn)
      BY <1>0, <3>1 DEF AckOrder
    <3>3. valid /\ x.syndrome = "ACK" => Count(rx.psn) <= Count(x.psn)
      BY <1>6, <3>1
    <3> QED BY <1>7, <2>2, <3>1, <3>2, <3>3
  <2>3. CASE arrives /\ ackq # <<>> /\ rx' = ackq[1]
    <3>1. /\ C(a)' <= Count(ackq[1].psn) /\ Count(ackq[1].psn) <= E(a)'
          /\ ackq[1].syndrome = "ACK" /\ 1 \in 1..Len(ackq)
      BY <1>4, <1>8, <2>3
    <3>2. \A j \in 1..Len(ackq) : 1 < j /\ ackq[j].syndrome = "ACK" =>
             Count(ackq[1].psn) <= Count(ackq[j].psn)
      BY <1>0, <3>1 DEF AckOrder
    <3>3. \A i \in 1..Len(ackq') : ackq'[i].syndrome = "ACK" =>
             Count(ackq[1].psn) <= Count(ackq'[i].psn)
      <4> SUFFICES ASSUME NEW i \in 1..Len(ackq'), ackq'[i].syndrome = "ACK"
                   PROVE  Count(ackq[1].psn) <= Count(ackq'[i].psn)
        OBVIOUS
      <4>1. CASE i + d \in 1..Len(ackq) /\ ackq'[i] = ackq[i + d]
        <5>1. d = 1 /\ 1 < i + d
          BY <1>5, <2>3
        <5> QED BY <3>2, <4>1, <5>1
      <4>2. CASE valid /\ ackq'[i] = x
        BY <1>6, <3>1, <4>2
      <4> QED BY <1>7, <4>1, <4>2
    <3> QED BY <2>3, <3>1, <3>3
  <2> QED BY <1>2, <2>1, <2>2, <2>3
<1>10. ASSUME NEW i \in 1..Len(ackq'), ackq'[i].syndrome = "ACK"
       PROVE  /\ C(a)' <= Count(ackq'[i].psn) /\ Count(ackq'[i].psn) <= E(a)'
              /\ \A j \in 1..Len(ackq') : i < j /\ ackq'[j].syndrome = "ACK" =>
                   Count(ackq'[i].psn) <= Count(ackq'[j].psn)
  <2>1. CASE i + d \in 1..Len(ackq) /\ ackq'[i] = ackq[i + d]
    <3>1. C(a)' <= Count(ackq'[i].psn) /\ Count(ackq'[i].psn) <= E(a)'
      BY <1>8, <1>10, <2>1
    <3>2. ASSUME NEW j \in 1..Len(ackq'), i < j, ackq'[j].syndrome = "ACK"
          PROVE  Count(ackq'[i].psn) <= Count(ackq'[j].psn)
      <4>1. CASE j + d \in 1..Len(ackq) /\ ackq'[j] = ackq[j + d]
        <5>1. i + d < j + d
          BY <3>2
        <5> QED BY <1>0, <1>10, <2>1, <3>2, <4>1, <5>1 DEF AckOrder
      <4>2. CASE valid /\ ackq'[j] = x
        BY <1>6, <3>1, <3>2, <4>2
      <4> QED BY <1>7, <4>1, <4>2
    <3> QED BY <3>1, <3>2
  <2>2. CASE valid /\ i = Len(ackq) - d + 1 /\ ackq'[i] = x
    <3>1. i = Len(ackq')
      BY <1>4, <1>5, <2>2
    <3>2. Count(ackq'[i].psn) = E(a)'
      BY <1>6, <1>10, <2>2
    <3> QED BY <1>1, <1>4, <3>1, <3>2
  <2> QED BY <1>7, <2>1, <2>2
<1> QED BY <1>9, <1>10 DEF AckOrder, Count, PsnDist, PsnInc

\* The register behind rd_table.
LEMMA RdRegEdge ==
    ASSUME NEW a, NEW cm, NEW close, NEW pkt, NEW take, NEW done, NEW arrives, NEW outcome,
           Lives(a, cm, close, pkt, take, done, arrives, outcome), Running(a)
    PROVE  RdFits(a)' \/ RdUnused(a)'
<1>0. /\ W(a) \in Nat /\ R(a) \in Nat /\ C(a) \in Nat /\ E(a) \in Nat
      /\ W(a)' \in Nat /\ E(a)' \in Nat /\ Window \in Nat
  BY PointerRanges
<1>1. /\ a \in QPs /\ TypeOK /\ TypeOK' /\ ReadMoves /\ Moves /\ Sweep
      /\ Responds(outcome) /\ arrives \in ArriveInputs /\ Receive(outcome, arrives)
  BY LifeParts
<1>2. /\ OnlyOne(a) /\ CalmTimers /\ CalmResponses /\ TimedOutIsOut /\ RdWriteStates
      /\ FlagServed /\ ClosedServed
      /\ RewindKept(a) /\ OthersUnused(a) /\ OthersRest(a) /\ conn[a] = "open"
      /\ Bounds(a) /\ (RdFits(a) \/ RdUnused(a)) /\ ReadFits(a) /\ ~CounterOut(timeout_period)
  BY DEF Lives, Always, ServedInv, Session, Ordered, Running, Setting
<1>3. /\ W(a) <= W(a)'
      /\ E(a)' = E(a) \/ (Launching /\ rr_qpn = a /\ E(a) <= R(a) /\ E(a)' = E(a) + 1)
  BY AllMove DEF PointerMoves
<1>4. ASSUME NEW p \in Psn, m_rd_table'.qpn = a, m_rd_table'.psn = p,
             m_rd_table'.we \/ rd_table'[a] = p, Count(p) <= W(a)', E(a)' <= Count(p) + Window
      PROVE  RdFits(a)'
  BY <1>4 DEF RdFits, Count, PsnDist, PsnInc
<1>5. rr_qpn \in QPs /\ m_rd_table \in WritePort
  BY <1>1 DEF TypeOK
<1>6. CASE Launching
  <2>1. rr_qpn = a
    BY <1>2, <1>5, <1>6 DEF OthersUnused, Unused, Launching
  <2>2. /\ LaunchedPsn \in Psn /\ Count(LaunchedPsn) = R(a) + 1 /\ R(a) + 1 <= W(a)
    BY <1>1, <1>2, <1>6, <2>1, LaunchAt
  <2>3. m_rd_table'.qpn = a /\ m_rd_table'.psn = LaunchedPsn /\ m_rd_table'.we
    BY <1>1, <1>6, <2>1 DEF ReadMoves, RdMoves, Write
  <2>4. Count(LaunchedPsn) <= W(a)' /\ E(a)' <= Count(LaunchedPsn) + Window
    BY <1>0, <1>2, <1>3, <2>2 DEF Bounds
  <2> QED BY <1>4, <2>2, <2>3, <2>4
<1>7. CASE state = "UPDATE_RD_TABLE" /\ ~m_rd_table.we /\ m_rd_table' = Write(rr_qpn, RewindPsn(rr_qpn))
  <2>1. Rewinding /\ ~Launching
    BY <1>7 DEF Rewinding, Launching
  <2>2. rr_qpn = a
    <3>1. ASSUME rr_qpn # a PROVE FALSE
      <4>1. tmr[rr_qpn].timed_out
        BY <1>2, <2>1, <3>1 DEF RewindKept
      <4>2. tmr[rr_qpn].timeout_counter = timeout_period
        BY <1>2, <1>5, <3>1 DEF OthersRest, AtRest
      <4> QED BY <1>2, <1>5, <4>1, <4>2 DEF TimedOutIsOut
    <3> QED BY <3>1
  <2>3. m_rd_table'.qpn = a /\ m_rd_table'.psn = RewindPsn(a) /\ m_rd_table'.we /\ E(a)' = E(a)
    BY <1>3, <1>7, <2>1, <2>2 DEF Write
  <2>4. CASE tmr[a].timed_out
    <3>1. RewindPsn(a) = s_cpl /\ s_cpl \in Psn /\ Count(s_cpl) \in Nat
      BY <1>1, <2>4, Counts DEF RewindPsn, TypeOK
    <3>2. Count(s_cpl) <= C(a) /\ E(a) <= Count(s_cpl) + Window
      BY <1>2, <1>7, <2>2, <2>4 DEF ReadFits
    <3>3. Count(s_cpl) <= W(a)' /\ E(a)' <= Count(s_cpl) + Window
      BY <1>0, <1>2, <1>3, <2>3, <3>1, <3>2 DEF Bounds
    <3> QED BY <1>4, <2>3, <3>1, <3>3
  <2>5. CASE ~tmr[a].timed_out
    <3>1. RewindPsn(a) = m_rd_table.psn /\ m_rd_table.psn \in Psn /\ Count(m_rd_table.psn) \in Nat
      <4>1. m_rd_table.psn \in Psn
        BY <1>5 DEF WritePort
      <4> QED BY <1>1, <1>2, <2>5, <4>1, Counts DEF RewindPsn, CalmTimers
    <3>2. RdFits(a)
      BY <1>2, <2>1, <2>2, <2>5 DEF RdUnused
    <3>3. Count(m_rd_table.psn) <= W(a)' /\ E(a)' <= Count(m_rd_table.psn) + Window
      BY <1>0, <1>3, <2>3, <3>1, <3>2 DEF RdFits
    <3> QED BY <1>4, <2>3, <3>1, <3>3
  <2> QED BY <2>4, <2>5
<1>8. CASE ~Launching /\ m_rd_table' = [m_rd_table EXCEPT !.we = FALSE]
  <2>1. /\ m_rd_table'.qpn = m_rd_table.qpn /\ m_rd_table'.psn = m_rd_table.psn
        /\ ~m_rd_table'.we /\ m_rd_table.psn \in Psn /\ Count(m_rd_table.psn) \in Nat
    BY <1>5, <1>8, Counts DEF WritePort
  <2>2. E(a)' = E(a)
    BY <1>3, <1>8
  <2>3. CASE RdFits(a)
    <3>1. m_rd_table.qpn = a /\ Count(m_rd_table.psn) <= W(a) /\ E(a) <= Count(m_rd_table.psn) + Window
      BY <2>3 DEF RdFits
    <3>2. Count(m_rd_table.psn) <= W(a)' /\ E(a)' <= Count(m_rd_table.psn) + Window
      BY <1>0, <1>3, <2>1, <2>2, <3>1
    <3>3. rd_table'[a] = m_rd_table.psn
      BY <2>3, AllMove DEF RdFits, PointerMoves
    <3> QED BY <1>4, <2>1, <3>1, <3>2, <3>3
  <2>4. CASE RdUnused(a)
    <3>1. rx = NoAck /\ ackq = <<>> /\ (Rewinding /\ rr_qpn = a => tmr[a].timed_out)
      BY <2>4 DEF RdUnused
    <3>2. rx' = NoAck
      BY <1>1, <1>2, <3>1, ReceiveShape
    <3>3. ackq' = <<>>
      <4>1. PICK valid \in BOOLEAN, x \in Acks : Moved(ackq, ackq', arrives, valid, x) /\ ~valid
        BY <1>1, <1>2, <1>8, ReceiveShape
      <4>2. Len(ackq') = 0
        BY <3>1, <4>1 DEF Moved
      <4> QED BY <1>1, <4>2 DEF TypeOK
    <3>4. Rewinding' /\ rr_qpn' = a => tmr'[a].timed_out
      <4> SUFFICES ASSUME Rewinding', rr_qpn' = a PROVE tmr'[a].timed_out
        OBVIOUS
      <4>1. /\ rr_qpn = a
            /\ Rewinding \/ (state = "CHECK_TIMEOUT" /\ tmr[a].timed_out /\ ~tmr[a].error)
        BY <1>1 DEF ReadMoves, RewindMoves
      <4>2. tmr[a].timed_out /\ ~qp_started_retrans[a] /\ ~qp_closed[a]
        BY <1>1, <1>2, <3>1, <4>1, RewindBegins DEF RewindKept
      <4>3. ~Addressed(a)
        BY <3>1 DEF Addressed
      <4> QED BY <1>1, <1>2, <4>2, <4>3, ReasonKept
    <3>5. RdUnused(a)'
      BY <2>1, <3>2, <3>3, <3>4 DEF RdUnused, NoAck
    <3> QED BY <3>5
  <2> QED BY <1>2, <2>3, <2>4
<1> QED BY <1>1, <1>6, <1>7, <1>8 DEF ReadMoves, RdMoves

\* What the FSM reads.
LEMMA ReadEdge ==
    ASSUME NEW a, NEW cm, NEW close, NEW pkt, NEW take, NEW done, NEW arrives, NEW outcome,
           Lives(a, cm, close, pkt, take, done, arrives, outcome), Running(a)
    PROVE  ReadFits(a)'
<1>0. /\ W(a) \in Nat /\ R(a) \in Nat /\ C(a) \in Nat /\ E(a) \in Nat /\ N(a) \in Nat
      /\ W(a)' \in Nat /\ C(a)' \in Nat /\ E(a)' \in Nat /\ Window \in Nat
  BY PointerRanges
<1>1. /\ a \in QPs /\ TypeOK /\ ReadMoves /\ RdWriteStates /\ Bounds(a) /\ ReadFits(a)
      /\ s_wr \in Psn
  <2>1. a \in QPs /\ TypeOK /\ ReadMoves
    BY LifeParts
  <2>2. RdWriteStates /\ Ordered(a)
    BY DEF Lives, Always, Session
  <2>3. s_wr \in Psn
    BY <2>1 DEF TypeOK
  <2> QED BY <2>1, <2>2, <2>3 DEF Ordered
<1>2. /\ W(a) <= W(a)' /\ C(a) <= C(a)'
      /\ E(a)' = E(a) \/ Launching
      /\ ~m_rd_table.we => rd_table'[a] = rd_table[a]
  BY AllMove DEF PointerMoves
<1>3. ASSUME s_rd' = rd_table'[a], NEW p \in Psn, NEW r \in Psn, s_rd' = p, s_wr' = r,
             Count(p) < Count(r), Count(r) <= W(a)
      PROVE  ToSend(a)'
  <2>1. Count(r) <= W(a)'
    BY <1>0, <1>2, <1>3, Counts
  <2> QED BY <1>3, <2>1 DEF ToSend, Count, PsnDist, PsnInc
<1> SUFFICES ASSUME rr_qpn' = a
             PROVE  /\ state' = "COMPARE" => s_wr' = s_rd' \/ ToSend(a)'
                    /\ state' = "FETCH_HDR" => ToSend(a)'
                    /\ state' = "UPDATE_RD_TABLE" /\ ~m_rd_table'.we =>
                         Count(s_cpl') <= C(a)' /\ E(a)' <= Count(s_cpl') + Window
  BY DEF ReadFits, Count, PsnDist, PsnInc
<1>4. state' = "COMPARE" => s_wr' = s_rd' \/ ToSend(a)'
  <2> SUFFICES ASSUME state' = "COMPARE", s_wr' # s_rd' PROVE ToSend(a)'
    OBVIOUS
  <2>1. /\ state = "FETCH_TABLES" /\ s_wr' = wr_table[a] /\ s_rd' = rd_table[a]
    BY <1>1 DEF ReadMoves, RegMoves
  <2>2. rd_table'[a] = rd_table[a]
    BY <1>1, <1>2, <2>1 DEF RdWriteStates
  <2>3. wr_table[a] \in Psn /\ rd_table[a] \in Psn
    BY <1>1, PointerTypes
  <2>4. Count(rd_table[a]) < Count(wr_table[a])
    <3>1. R(a) # W(a)
      BY <2>1, <2>3, CountInjective DEF R, W
    <3> QED BY <1>0, <1>1, <3>1 DEF Bounds, R, W
  <2>5. Count(wr_table[a]) <= W(a)
    BY <1>0 DEF W
  <2> QED BY <1>3, <2>1, <2>2, <2>3, <2>4, <2>5
<1>5. state' = "FETCH_HDR" => ToSend(a)'
  <2> SUFFICES ASSUME state' = "FETCH_HDR" PROVE ToSend(a)'
    OBVIOUS
  <2>1. /\ rr_qpn = a /\ s_wr' = s_wr /\ s_rd' = s_rd
        /\ (state = "COMPARE" /\ s_wr # s_rd) \/ state = "FETCH_HDR"
    BY <1>1 DEF ReadMoves, RegMoves
  <2>2. s_rd = rd_table[a] /\ Count(s_rd) < Count(s_wr) /\ Count(s_wr) <= W(a)
    BY <1>1, <2>1 DEF ReadFits, ToSend
  <2>3. rd_table'[a] = rd_table[a]
    BY <1>1, <1>2, <2>1 DEF RdWriteStates
  <2> QED BY <1>1, <1>3, <2>1, <2>2, <2>3 DEF TypeOK
<1>6. state' = "UPDATE_RD_TABLE" /\ ~m_rd_table'.we =>
        Count(s_cpl') <= C(a)' /\ E(a)' <= Count(s_cpl') + Window
  <2> SUFFICES ASSUME state' = "UPDATE_RD_TABLE", ~m_rd_table'.we
               PROVE  Count(s_cpl') <= C(a)' /\ E(a)' <= Count(s_cpl') + Window
    OBVIOUS
  <2>1. rr_qpn = a /\ state = "WAIT_1CLK" /\ s_cpl' = cpl_table[a]
    BY <1>1 DEF ReadMoves, RewindMoves, Rewinding
  <2>2. Count(s_cpl') = C(a)
    BY <2>1 DEF C
  <2>3. E(a)' = E(a)
    BY <1>2, <2>1 DEF Launching
  <2> QED BY <1>0, <1>1, <1>2, <2>2, <2>3 DEF Bounds
<1> QED BY <1>4, <1>5, <1>6

\* One edge keeps the session.
LEMMA SessionEdge ==
    ASSUME NEW a, NEW cm, NEW close, NEW pkt, NEW take, NEW done, NEW arrives, NEW outcome,
           Lives(a, cm, close, pkt, take, done, arrives, outcome)
    PROVE  Session(a)'
<1>1. Mine(a)' /\ RewindKept(a)' /\ OthersUnused(a)' /\ OpeningClean(a)' /\ OthersRest(a)'
  BY MineEdge, RewindEdge, UnusedEdge, RestEdge
<1>2. FreshStart(a)'
  BY FreshBefore, FreshEdge DEF FreshStart
<1>3. Ordered(a)'
  <2>1. CASE Opening(a)
    BY <2>1, OpeningEdge
  <2>2. CASE Running(a)
    BY <2>2, BoundsEdge, AckEdge, RdRegEdge, ReadEdge DEF Ordered
  <2>3. CASE conn[a] = "none"
    <3>1. ~Running(a)'
      BY <2>3, LifeParts DEF Opening, Running
    <3> QED BY <3>1 DEF Ordered
  <2> QED BY <2>1, <2>2, <2>3, LifeParts DEF Opening, Running
<1> QED BY <1>1, <1>2, <1>3 DEF Session

-----------------------------------------------------------------------------
(* The invariant holds.                                                    *)

\* The invariant holds at reset,
LEMMA PointerInit ==
    ASSUME NEW a, Setting(a)
    PROVE  Init => PointerInv(a)
<1> SUFFICES ASSUME Init PROVE PointerInv(a)
  OBVIOUS
<1> USE DEF Init, TablesInit, ReadInit, WriteInit, EnvInit
<1>1. ServedInv
  BY ServedInit
<1>2. CalmResponses /\ CalmTimers
  BY RetryInit DEF RetryInv
<1>3. a \in QPs /\ state = "CHECK_TIMEOUT" /\ ~Rewinding /\ rr_qpn = 0
      /\ m_rd_table = NoWrite /\ m_table_rst = NoWrite /\ m_wr_table = NoWrite
      /\ conn[a] = "none" /\ epsn[a] = OpenPsn /\ rx = NoAck /\ ackq = <<>>
      /\ \A q \in QPs : ~tmr[q].timed_out /\ ~tmr[q].error
  BY DEF Setting, Rewinding
<1>4. Pending = {}
  BY DEF Pending, ItemsOf, Registered
<1>5. /\ TimedOutIsOut /\ ClosedServed /\ RdWriteStates /\ SlotsKept /\ OnlyOne(a)
  BY <1>3 DEF TimedOutIsOut, ClosedServed, RdWriteStates, SlotsKept, OnlyOne, NoWrite
<1>6. EntriesOrdered /\ TableBehind
  BY <1>3, <1>4 DEF EntriesOrdered, TableBehind, ItemsOf, NoWrite
<1>7. Numbered
  <2>1. Index(OpenPsn) = 0 /\ MaxPkts \in Nat
    BY Counts, EnvAssumption
  <2> QED BY <2>1 DEF Numbered
<1>8. Mine(a) /\ RewindKept(a) /\ FreshStart(a) /\ OpeningClean(a) /\ OthersRest(a) /\ Ordered(a)
  BY <1>3, <1>4 DEF Mine, RewindKept, FreshStart, OpeningClean, OthersRest, Ordered, Opening,
       Running,
                    NoWrite
<1>9. OthersUnused(a)
  BY <1>3 DEF OthersUnused, Unused, NoWrite
<1> QED BY <1>1, <1>2, <1>5, <1>6, <1>7, <1>8, <1>9 DEF PointerInv, Always, Session

\* A stuttering step keeps it.
LEMMA PointerStutter ==
    ASSUME NEW a, PointerInv(a), ServedInv', UNCHANGED vars
    PROVE  PointerInv(a)'
<1>1. /\ UNCHANGED <<wr_table, rd_table, cpl_table, m_table_rst, m_rd_table, m_wr_table, rx>>
      /\ UNCHANGED <<state, state_cached, rr_qpn, s_wr, s_rd, s_cpl, close_req>>
      /\ UNCHANGED <<qp_closed, qp_started_retrans, qp_transmission_complete>>
      /\ UNCHANGED <<rr_qpn_timeout, tmr, wr_entry, entry_fifo, hdr_ram, conn, np, epsn, ackq>>
  BY DEF vars, tableVars, readVars, fsmVars, tableRegs, qpFlags, writeVars, envVars
<1>2. Rewinding' = Rewinding /\ Checking' = Checking
  BY <1>1 DEF Rewinding, Checking
<1>4. Pending' = Pending /\ (\A q : AtRest(q)' = AtRest(q)) /\ (\A q : Unused(q)' = Unused(q))
  BY <1>1 DEF Pending, ItemsOf, Registered, AtRest, Unused
<1>5. Opening(a)' = Opening(a) /\ Running(a)' = Running(a) /\ Fresh(a)' = Fresh(a)
  BY <1>1 DEF Opening, Running, Fresh
<1>6. /\ (CalmResponses /\ CalmTimers) => (CalmResponses' /\ CalmTimers')
      /\ (TimedOutIsOut /\ RdWriteStates) => (TimedOutIsOut' /\ RdWriteStates')
      /\ (SlotsKept /\ OnlyOne(a)) => (SlotsKept' /\ OnlyOne(a)')
  BY <1>1 DEF CalmResponses, CalmTimers, TimedOutIsOut, RdWriteStates, SlotsKept, OnlyOne
<1>7. ClosedServed => ClosedServed'
  BY <1>1, <1>2 DEF ClosedServed, Far, Near
<1>8. (EntriesOrdered /\ Numbered /\ TableBehind) => (EntriesOrdered' /\ Numbered' /\ TableBehind')
  BY <1>1, <1>4 DEF EntriesOrdered, Numbered, TableBehind
<1>9. (Mine(a) /\ RewindKept(a)) => (Mine(a)' /\ RewindKept(a)')
  BY <1>1, <1>2, <1>4 DEF Mine, RewindKept
<1>10. (OthersUnused(a) /\ FreshStart(a)) => (OthersUnused(a)' /\ FreshStart(a)')
  BY <1>1, <1>4, <1>5 DEF OthersUnused, FreshStart
<1>11. (OpeningClean(a) /\ OthersRest(a)) => (OpeningClean(a)' /\ OthersRest(a)')
  BY <1>1, <1>2, <1>4, <1>5 DEF OpeningClean, OthersRest
<1>12. Ordered(a) => Ordered(a)'
  <2>1. Bounds(a)' = Bounds(a) /\ RdFits(a)' = RdFits(a) /\ AckOrder(a)' = AckOrder(a)
    BY <1>1 DEF Bounds, RdFits, AckOrder, W, R, C, E, N
  <2>2. RdUnused(a)' = RdUnused(a) /\ ReadFits(a)' = ReadFits(a)
    BY <1>1, <1>2 DEF RdUnused, ReadFits, ToSend, W, C, E
  <2> QED BY <1>5, <2>1, <2>2 DEF Ordered
<1> QED BY <1>1, <1>6, <1>7, <1>8, <1>9, <1>10, <1>11, <1>12 DEF PointerInv, Always, Session

\* A connection that is closed stays so.
LEMMA StaysClosed ==
    ASSUME NEW a, Setting(a), PointerInv(a), NEW cm, NEW close, NEW pkt, NEW take, NEW done,
           NEW arrives, NEW outcome, EngineEdge(cm, close, pkt, take, done, arrives, outcome),
           conn'[a] # "closed"
    PROVE  conn[a] # "closed"
<1>1. a \in QPs /\ TypeOK /\ Producer(cm, close, pkt) /\ cm \in CmInputs /\ close \in CloseInputs
  BY DEF PointerInv, Always, ServedInv, Setting, EngineEdge, WriteEdge, Inputs
<1>2. cm.req = "OPEN" => conn[a] = "none"
  BY <1>1, Pulses
<1> QED BY <1>1, <1>2 DEF Producer

\* and every step keeps it.
LEMMA PointerStep ==
    ASSUME NEW a, Setting(a)
    PROVE  PointerInv(a) /\ [Next]_vars => PointerInv(a)'
<1> SUFFICES ASSUME PointerInv(a), [Next]_vars PROVE PointerInv(a)'
  OBVIOUS
<1>0. ServedInv'
  BY ServedStep DEF PointerInv, Always
<1>1. CASE Next
  <2>1. PICK cm, close, pkt, take, done, arrives, outcome :
          EngineEdge(cm, close, pkt, take, done, arrives, outcome)
    BY <1>1, NextIsEngineEdge
  <2>2. Always(a)'
    BY <1>0, <2>1, AlwaysEdge DEF PointerInv
  <2>3. conn'[a] # "closed" => conn[a] # "closed"
    BY <2>1, StaysClosed
  <2>4. ASSUME conn'[a] # "closed" PROVE Session(a)'
    <3>1. Lives(a, cm, close, pkt, take, done, arrives, outcome)
      BY <2>1, <2>2, <2>3, <2>4 DEF Lives, PointerInv
    <3> QED BY <3>1, SessionEdge
  <2> QED BY <2>2, <2>4 DEF PointerInv
<1>2. CASE UNCHANGED vars
  BY <1>0, <1>2, PointerStutter
<1> QED BY <1>1, <1>2

\* It implies the order of the pointers.
LEMMA PointersImplied ==
    ASSUME NEW a, Setting(a), PointerInv(a)
    PROVE  PointersOrdered
<1> SUFFICES ASSUME NEW q \in QPs, conn[q] = "open", ~m_table_rst.we
             PROVE  /\ Count(rd_table[q]) <= Count(wr_table[q])
                    /\ Count(cpl_table[q]) <= Count(wr_table[q])
  BY DEF PointersOrdered
<1>1. q = a /\ a \in QPs /\ TypeOK
  BY DEF PointerInv, Always, ServedInv, OnlyOne, Setting
<1>2. Bounds(a)
  BY <1>1 DEF PointerInv, Session, Ordered, Running
<1>3. /\ W(a) \in Nat /\ R(a) \in Nat /\ C(a) \in Nat /\ E(a) \in Nat
  BY <1>1, PointerTypes
<1> QED BY <1>1, <1>2, <1>3 DEF Bounds, W, R, C

\* For one connection whose window is smaller than the header RAM, and a responder
\* that acknowledges or refuses: neither what has been sent nor what has been
\* acknowledged passes what has been stored, whatever is lost, however long the
\* acknowledges take, and wherever a rewind (UPDATE_RD_TABLE) meets an acknowledge,
\* an announcement or a launch.
THEOREM PointersStayOrdered ==
    ASSUME NEW a \in QPs, ActiveQPs \subseteq {a},
           Responses \cap {"RNR_NAK", "PSN_SEQ_NAK"} = {}, ~StaleProducer,
           Window < HDR_SLOTS, PSN_MOD % HDR_SLOTS = 0, ~CounterOut(timeout_period)
    PROVE  Spec => []PointersOrdered
<1>0. Setting(a)
  BY DEF Setting
<1>1. Init => PointerInv(a)
  BY <1>0, PointerInit
<1>2. PointerInv(a) /\ [Next]_vars => PointerInv(a)'
  BY <1>0, PointerStep
<1>3. PointerInv(a) => PointersOrdered
  BY <1>0, PointersImplied
<1> QED BY <1>1, <1>2, <1>3, PTL DEF Spec

=============================================================================
