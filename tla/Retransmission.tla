--------------------------- MODULE Retransmission ---------------------------
(***************************************************************************)
(* RoCE_retransmission_module_v2: the write side, the three tables and the *)
(* read scheduler on one clock, between a producer of packets (the header  *)
(* producer behind the arbiter), the connection manager, the DMA engine,   *)
(* and a network with a remote responder.  Every step is one clock edge,   *)
(* on which all the parts of the engine advance together.                  *)
(*                                                                         *)
(* The environment is external.  The producer numbers its packets from the *)
(* PSN of the OPEN and obeys stall_qp.  A launched packet or its response  *)
(* may be lost; responses arrive in order and after any delay, which also  *)
(* stands for the time a packet is on its way.                             *)
(***************************************************************************)
EXTENDS RtrRead, RtrEnv

CONSTANTS
    Window,           \* packets the application leaves unacknowledged
    MaxAcks,          \* responses in flight; more are dropped
    Losses,           \* {"packet", "response"}: what the network may lose
    Responses,        \* syndromes the responder may choose from
    ReadyInputs,      \* values of m_roce_ready and dma_ready: {TRUE} or both
    CloseReadyInputs  \* values of m_qp_close_ready

ASSUME NetworkAssumption ==
    /\ Window \in Nat /\ MaxAcks \in Nat
    /\ Losses \subseteq {"packet", "response"} /\ Responses \subseteq Syndromes
    /\ ReadyInputs \subseteq BOOLEAN /\ CloseReadyInputs \subseteq BOOLEAN

VARIABLES
    epsn,           \* next PSN the responder expects, per queue pair
    ackq            \* responses on their way back

envVars == <<conn, np, epsn, ackq, rx>>
vars    == <<tableVars, readVars, writeVars, envVars>>

Init ==
    /\ TablesInit /\ ReadInit /\ WriteInit /\ EnvInit
    /\ epsn = [q \in QPs |-> OpenPsn]
    /\ ackq = <<>> /\ rx = NoAck

-----------------------------------------------------------------------------
(* Inputs of one clock edge.                                               *)

\* The FSM has found the queue pair with nothing outstanding, the sweep has reloaded
\* its timer, and no close of it is waiting.
AtRest(q) == /\ qp_transmission_complete[q] /\ tmr[q].timeout_counter = timeout_period
             /\ close_req # q

\* An OPEN takes an exchange of messages, by which time both machines have long
\* been past the queue pair and those that nobody uses, whose timers the reset
\* leaves undefined.
Quiet(q) == conn[q] = "none" /\ \A p \in (QPs \ ActiveQPs) \cup {q} : AtRest(p)

CmInputs == {CmNone} \cup ClosePulses \cup
    {CmOpen(q, OpenPsn) : q \in {a \in ActiveQPs : Quiet(a)}}

CloseInputs == IF close_req = None THEN {None}
               ELSE {IF r THEN close_req ELSE None : r \in CloseReadyInputs}

\* The engine takes packets of every queue pair it does not stall.  That is the only
\* limit it sets.
MaySend(q) == Sending(q) /\ bth_ready /\ ~stall_qp[q]

\* Assumed of the application, not of the engine: what it leaves unacknowledged.
\* Nothing is assumed when Window = PSN_MOD.
WithinWindow(q) == PsnDist(np[q], PsnInc(cpl_table[q])) < Window

PktInputs == {NoPkt} \cup {NextPacket(q) : q \in {s \in QPs : MaySend(s) /\ WithinWindow(s)}}

ArriveInputs == IF ackq # <<>> /\ (rx = NoAck \/ AckAccepted) THEN BOOLEAN ELSE {FALSE}

-----------------------------------------------------------------------------
(* The responder: what a packet with PSN p makes it do.  An outcome is the  *)
(* PSN it expects next and the responses it sends.                         *)

Outcome(e, r)     == [epsn |-> e, reply |-> r]
Reply(q, p, s)    == <<[qpn |-> q, psn |-> p, syndrome |-> s]>>
Ahead(p, e)       == PsnDist(p, e) < PSN_MOD \div 2

Received(q, p) ==
    IF conn[q] # "open" THEN {Outcome(epsn[q], <<>>)}
    ELSE IF p = epsn[q]
      THEN {Outcome(PsnInc(p), Reply(q, p, s)) : s \in Responses \cap {"ACK"}} \cup
           {Outcome(p, Reply(q, p, s)) : s \in Responses \cap {"RNR_NAK", "FATAL_NAK"}}
    ELSE IF Ahead(p, epsn[q])
      THEN {Outcome(epsn[q], IF "PSN_SEQ_NAK" \in Responses
                               THEN Reply(q, epsn[q], "PSN_SEQ_NAK") ELSE <<>>)}
    ELSE {Outcome(epsn[q], Reply(q, PsnDec(epsn[q]), "ACK"))}

\* The header is latched at this edge, and the responder decides by its PSN alone.
\* The payload follows by a DMA read at some later edge.  No outcome depends on it:
\* that it still is the right one at any of these edges is UnackedStored.
Outcomes ==
    LET q == rr_qpn
        p == hdr_ram[q][HdrSlotOf(LaunchedPsn)]
        r == IF p = None THEN {Outcome(epsn[q], <<>>)} ELSE Received(q, p)
    IN r \cup (IF "packet" \in Losses THEN {Outcome(epsn[q], <<>>)} ELSE {})
         \cup (IF "response" \in Losses THEN {Outcome(o.epsn, <<>>) : o \in r} ELSE {})

\* Responses beyond MaxAcks are dropped.
Receive(outcome, arrives) ==
    LET left == IF arrives THEN Tail(ackq) ELSE ackq
    IN /\ rx' = IF arrives THEN Head(ackq) ELSE IF AckAccepted THEN NoAck ELSE rx
       /\ ackq' = IF Len(left) < MaxAcks THEN left \o outcome.reply ELSE left

-----------------------------------------------------------------------------
\* One clock edge of everything but the FSM of the read module.
Tick(cm, close, outcome) ==
    /\ TablesStep(cm, close)
    /\ Sweep
    /\ \E pkt \in PktInputs, take \in TakeInputs, done \in DoneInputs, arrives \in ArriveInputs :
         /\ Receive(outcome, arrives)
         /\ Producer(cm, close, pkt)
         /\ WriteStep(pkt, take, done, cm, close)

NoOutcome == Outcome(None, <<>>)

\* One edge with the FSM step Step, in which no packet is launched.
Edge(Step(_, _)) ==
    \E cm \in CmInputs, close \in CloseInputs :
        Step(cm, close) /\ Tick(cm, close, NoOutcome) /\ UNCHANGED epsn

Launch ==
    \E cm \in CmInputs, close \in CloseInputs, m_roce_ready, dma_ready \in ReadyInputs :
        /\ FetchHdr(cm, close, m_roce_ready, dma_ready)
        /\ \E outcome \in Outcomes :
             Tick(cm, close, outcome) /\ epsn' = [epsn EXCEPT ![rr_qpn] = outcome.epsn]

HandOver(m_roce_ready, dma_ready) ==
    \E cm \in CmInputs, close \in CloseInputs :
        /\ \/ SendHdr(cm, close, m_roce_ready, dma_ready)
           \/ WaitDma(cm, close, dma_ready)
        /\ Tick(cm, close, NoOutcome) /\ UNCHANGED epsn

Next ==
    \/ Edge(CheckError) \/ Edge(CheckExhausted) \/ Edge(CheckTimedOut)
    \/ Edge(CheckRewind) \/ Edge(CheckClean)
    \/ Edge(UpdateRdTable) \/ Edge(UpdateRdTableDone)
    \/ Edge(FetchTables)
    \/ Edge(CompareClosed) \/ Edge(CompareIdle) \/ Edge(CompareRnrWait) \/ Edge(CompareSend)
    \/ Edge(FetchHdrWait) \/ Launch
    \/ \E m_roce_ready, dma_ready \in ReadyInputs : HandOver(m_roce_ready, dma_ready)
    \/ Edge(ChangeQpn) \/ Edge(Wait1Clk)

Spec == Init /\ [][Next]_vars

\* The close request of the read module is taken.
CloseTaken == close_req # None /\ m_table_rst' = Write(close_req, PSN_RESET)

\* The clock never stops, an output FIFO that is full drains, and the close
\* arbiter takes a request in the end.  Nothing is asked of the network.
Fairness == WF_vars(Next) /\ WF_vars(HandOver(TRUE, TRUE)) /\ WF_vars(CloseTaken /\ Next)
FairSpec == Spec /\ Fairness

-----------------------------------------------------------------------------
(* Properties.                                                             *)

\* Every register, table, FIFO and memory of the engine holds a value of its
\* declared width or range.
TypeOK ==
    /\ wr_table \in [QPs -> Psn] /\ rd_table \in [QPs -> Psn] /\ cpl_table \in [QPs -> Psn]
    /\ m_table_rst \in WritePort /\ m_rd_table \in WritePort /\ m_wr_table \in WritePort
    /\ rx \in Acks \cup {NoAck} /\ aeth_ready \in BOOLEAN
    /\ state \in FsmStates /\ state_cached \in FsmStates
    /\ rr_qpn \in QPs /\ hdr_wait \in 0..HDR_LATENCY
    /\ s_wr \in Psn /\ s_rd \in Psn /\ s_cpl \in Psn
    /\ dma_rd_cmd_sent \in BOOLEAN /\ close_req \in QPs \cup {None}
    /\ qp_closed \in [QPs -> BOOLEAN] /\ qp_started_retrans \in [QPs -> BOOLEAN]
    /\ qp_transmission_complete \in [QPs -> BOOLEAN] /\ stall_qp \in [QPs -> BOOLEAN]
    /\ retry_counter \in [QPs -> 0..7] /\ rnr_retry_counter \in [QPs -> 0..7]
    /\ retry_psn_mark \in [QPs -> Psn] /\ rnr_retry_psn_mark \in [QPs -> Psn]
    /\ rr_qpn_timeout \in QPs /\ tmr \in [QPs -> Timers]
    /\ w_state \in {"IDLE", "DMA_WAIT_READY"} /\ bth_ready \in BOOLEAN
    /\ dma_desc \in Packets \cup {NoPkt} /\ wr_entry \in Packets \cup {NoPkt}
    /\ desc_fifo \in Seq(Packets) /\ entry_fifo \in Seq(Packets) /\ dma_busy \in Seq(Packets)
    /\ Len(desc_fifo) <= DESC_DEPTH /\ Len(entry_fifo) <= ENTRY_DEPTH
    /\ hdr_ram \in [QPs -> [0..(HDR_SLOTS - 1) -> Psn \cup {None}]]
    /\ mem \in [QPs -> [Slot -> Psn \cup {None}]]
    /\ qp_flush \in [QPs -> BOOLEAN]
    /\ conn \in [QPs -> {"none", "open", "closed"}]
    /\ np \in [QPs -> Psn] /\ epsn \in [QPs -> Psn] /\ ackq \in Seq(Acks)

\* Packets of a connection up to and including p, counted from its first PSN.
Count(p) == PsnDist(PsnInc(p), OpenPsn)

\* The three pointers of an open queue pair keep their order: neither what has
\* been sent (UPDATE_RD_TABLE, FETCH_HDR) nor what has been acknowledged is
\* ahead of what has been stored, however rewinds, acknowledges, the DMA
\* completion and the reset write of an OPEN interleave.
PointersOrdered ==
    \A q \in QPs : conn[q] = "open" /\ ~m_table_rst.we =>
        Count(rd_table[q]) <= Count(wr_table[q]) /\ Count(cpl_table[q]) <= Count(wr_table[q])

\* Every packet that may still have to be retransmitted is in the buffer:
\* neither its header nor its payload has been overwritten.
UnackedStored ==
    \A q \in QPs : conn[q] = "open" => \A p \in Psn :
        PsnDist(p, cpl_table[q]) \in 1..PsnDist(wr_table[q], cpl_table[q]) =>
            hdr_ram[q][HdrSlotOf(p)] = p /\ mem[q][SlotOf(p)] = p

\* A connection from the edge at which the reset write of its OPEN has reached the
\* tables, as a go-back-N sender.  A write of rd_table that is under way counts.
Running(q) == conn[q] = "open" /\ ~m_table_rst.we
Since(q, n) == IF Running(q) THEN n ELSE 0
Accepted(q) == IF conn[q] = "open" THEN PsnDist(np[q], OpenPsn) ELSE 0
LastSent(q) == IF m_rd_table.we THEN m_rd_table.psn ELSE rd_table[q]
Sender(q) == INSTANCE GoBackN WITH
    phase    <- conn[q],
    accepted <- Accepted(q),
    stored   <- Since(q, Count(wr_table[q])),
    sent     <- Since(q, Count(LastSent(q))),
    received <- Since(q, PsnDist(epsn[q], OpenPsn)),
    acked    <- Since(q, Count(cpl_table[q]))

\* The engine, the network and the responder together are a go-back-N protocol:
\* packets are stored and sent in order and one at a time, a rewind goes back to
\* what is not acknowledged, not further than a window, although it acts on a
\* copy of cpl_table and its reason may be gone when it acts, and what the
\* responder takes and acknowledges is what was sent.
GoesBackN == /\ \A q \in ActiveQPs : Sender(q)!ConnInit
             /\ [][\A q \in ActiveQPs : Sender(q)!ConnNext \/ UNCHANGED Sender(q)!connVars]_vars

\* A timeout or a sequence error is served once: when the FSM comes back to the
\* queue pair, the sweep has lowered the flag it acted on, so that one lost
\* packet costs one retry.
ServedOnce ==
    state = "CHECK_TIMEOUT" /\ qp_started_retrans[rr_qpn] =>
        ~tmr[rr_qpn].timed_out /\ ~tmr[rr_qpn].psn_error

\* A queue pair is given up (CHECK_TIMEOUT, retry_counter == retry_count) only
\* if no acknowledge has moved cpl_table since the last rewind.
GivesUpWithoutProgress ==
    [][\A q \in QPs : ~qp_closed[q] /\ qp_closed'[q] /\ ~tmr[q].error =>
          retry_count = 0 \/ cpl_table[q] = PsnDec(retry_psn_mark[q])]_vars

\* The counter of RNR waits passes rnr_retry_count by one at most.  It is compared
\* where a NAK is decoded and raised where the FSM rewinds; a NAK decoded at the
\* very edge of the rewind sees the old value and earns one more wait, not more.
RnrRetryBounded == \A q \in QPs : rnr_retry_counter[q] <= rnr_retry_count + 1

\* Every packet the engine has accepted is settled: it is stored, sent and
\* acknowledged, or its queue pair is closed, whatever the network loses.
Settled ==
    \A q \in ActiveQPs : (conn[q] = "open" /\ cpl_table[q] # PsnDec(np[q]))
                           ~> (cpl_table[q] = PsnDec(np[q]) \/ conn[q] = "closed")

\* A stalled queue pair is released in the end.
StallReleased == \A q \in ActiveQPs : stall_qp[q] ~> ~stall_qp[q]

=============================================================================
