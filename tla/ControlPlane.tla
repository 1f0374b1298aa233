---------------------------- MODULE ControlPlane ----------------------------
(***************************************************************************)
(* The control plane of the stack: the connection manager with its pool on *)
(* clk_stack, the QP state module on clk_roce_eng, and the two FIFOs that  *)
(* carry requests and statuses between the clocks.  The edges of the two   *)
(* clocks interleave in any way.                                           *)
(*                                                                         *)
(* Environment: clients send requests, the transmitter takes replies when  *)
(* it is free, and the TX engine raises closes and updates and hands on    *)
(* fatal NAKs.                                                             *)
(***************************************************************************)
EXTENDS CmSlave, QpState

CONSTANTS
    CROSSING,      \* edges of the reading clock that a FIFO entry needs to cross
    LateFaults     \* may a fault of a connection arrive after its close?

\* Two synchroniser stages at least.
ASSUME CrossingAssumption == CROSSING \in Nat /\ CROSSING >= 2 /\ LateFaults \in BOOLEAN

VARIABLES
    req_fifo, status_fifo,   \* cm_qp_async_fifo, cm_qp_status_async_fifo
    lost                     \* a request of the connection manager was not served

vars == <<poolVars, slaveVars, qpVars, req_fifo, status_fifo, lost>>

Init ==
    /\ PoolInit /\ SlaveInit /\ QpInit
    /\ req_fifo = <<>> /\ status_fifo = <<>>
    /\ lost = FALSE

-----------------------------------------------------------------------------
(* The clock crossing.  Nothing looks at the ready of either side: an      *)
(* entry is offered to the reader for one edge.                            *)

REQ_DEPTH    == 3
STATUS_DEPTH == 4

Entry(x) == [item |-> x, age |-> 0]
Arrived(fifo) == fifo # <<>> /\ Head(fifo).age = CROSSING
Offered(fifo, nothing) == IF Arrived(fifo) THEN Head(fifo).item ELSE nothing
Written(fifo, valid, x) == IF valid THEN Append(fifo, Entry(x)) ELSE fifo
Read(fifo) ==
    LET rest == IF Arrived(fifo) THEN Tail(fifo) ELSE fifo
    IN  [i \in DOMAIN rest |->
           [rest[i] EXCEPT !.age = IF @ < CROSSING THEN @ + 1 ELSE @]]

-----------------------------------------------------------------------------
(* The two clocks.                                                         *)

\* Clients wait neither for one another nor for a reply to be taken.  But after a
\* fault that outlives its connection an OPEN may be answered twice; where there are
\* such faults, nobody sends between the two answers.
NothingUnderWay ==
    /\ ~cm_valid /\ req_fifo = <<>> /\ status_fifo = <<>> /\ qp_status = "NONE"
    /\ q_state \in {"IDLE", "UPDATE_QP", "ERROR_QP"}
MaySend == LateFaults => NothingUnderWay

\* The number in an OPEN, or in a request of another type, is not looked at; and
\* the client only in an OPEN: anybody may modify or close any queue pair.
Anybody == CHOOSE c \in CLIENTS : TRUE
ClientRequests == {r \in Requests : /\ r.type \in {"OPEN", "OTHER"} => r.qpn = BadQpn
                                    /\ r.type # "OPEN" => r.from = Anybody}

\* Only the idle FSM looks at a request: those that arrive meanwhile are ignored.
CmInputs == {NoReq} \cup IF cm_state = "IDLE" /\ MaySend THEN ClientRequests ELSE {}

CmEdge(r, tx_ready) ==
    /\ SlaveStep(r, Offered(status_fifo, "NONE"), tx_ready)
    /\ req_fifo' = Written(req_fifo, cm_valid, cm_req)
    /\ status_fifo' = Read(status_fifo)

\* Without late faults, a close is of a connection open when the FSM serves it.
CloseTimely(close) ==
    close \in QPNs => LateFaults \/ (q_state' = "IDLE" /\ qp_contex'[close].state # "RESET")

QpEdge(nak, close, update) ==
    LET cm == Offered(req_fifo, NoReq)
    IN  /\ QpStep(cm, nak, close, update)
        /\ CloseTimely(close)
        /\ req_fifo' = Read(req_fifo)
        /\ status_fifo' = Written(status_fifo, qp_status # "NONE", qp_status)
        /\ lost' = (lost \/ (cm # NoReq /\ ~Takes(cm, nak)))

StackClock ==
    /\ UNCHANGED <<qpVars, lost>>
    /\ \E r \in CmInputs, tx_ready \in BOOLEAN :
         (~qp_info.valid => tx_ready) /\ CmEdge(r, tx_ready)

\* Faults belong to a connection: one that is open or, with late faults, one that may
\* have been closed since.  Only the idle FSM sees a NAK; a new close or update comes
\* when none is held.
Naks ==
    {NoQpn} \cup {q \in QPNs : /\ q_state = "IDLE" /\ qp_contex[q].peer # NoClient
                               /\ LateFaults \/ qp_contex[q].state # "RESET"}
Closes ==
    {NoQpn} \cup {q \in QPNs : /\ close_req = NoQpn \/ q_state = "ERROR_QP"
                               /\ qp_contex[q].peer # NoClient}
Updates == IF update_req /\ q_state # "UPDATE_QP" THEN {FALSE} ELSE BOOLEAN
EngineClock ==
    /\ UNCHANGED <<poolVars, slaveVars>>
    /\ \E nak \in Naks, close \in Closes, update \in Updates : QpEdge(nak, close, update)

Next == StackClock \/ EngineClock

Spec == Init /\ [][Next]_vars

\* Both clocks run freely.  Only while a request of the connection manager, or its
\* status, is on its side must a clock tick for the answer to come.
Waiting    == cm_state = "MODIFY_QP" /\ ~lost
StackTicks ==
    Waiting /\ (cm_valid \/ status_fifo # <<>>) /\ StackClock
EngineTicks ==
    Waiting /\ (req_fifo # <<>> \/ q_state # "IDLE" \/ qp_status # "NONE") /\ EngineClock
LiveSpec == Spec /\ WF_vars(StackTicks) /\ WF_vars(EngineTicks)

-----------------------------------------------------------------------------
(* Properties.                                                             *)

\* Every register holds a value of its range, and the crossing FIFOs, whose
\* ready nobody looks at, never hold more than they have room for.
TypeOK ==
    /\ pool_fifo \in Seq(QPNs) /\ Len(pool_fifo) <= N_QUEUE_PAIRS
    /\ m_qpn \in QPNs \cup {NoQpn} /\ pool_state \in {"IDLE", "PASSTHROUGH"}
    /\ qpn_reg \in QPNs \cup {NoQpn} /\ {s_qpn_ready, qpn_valid, cm_valid, qp_close_req, m_ready,
                            qp_active, update_req, lost} \subseteq BOOLEAN
    /\ cm_state \in {"IDLE", "MODIFY_QP", "SEND_ERROR"} /\ s_qpn \in QPNs \cup {NoQpn}
    /\ cm_req \in Requests \cup {NoReq}
    /\ qp_info \in [valid : BOOLEAN, type : ReqTypes \cup {"NULL"}, ack : Acks,
                    qpn : QPNs \cup {BadQpn}, to : CLIENTS \cup {NoClient}]
    /\ q_state \in {"IDLE", "OPEN_QP", "MODIFY_QP_RTS", "CLOSE_QP", "UPDATE_CONTEXT",
                    "UPDATE_QP", "ERROR_QP"}
    /\ qp_contex \in [QPNs -> [state : QpStates, peer : CLIENTS \cup {NoClient}]]
    /\ close_req \in QPNs \cup {NoQpn} /\ qp_status \in {"NONE", "OK", "ERROR"}
    /\ Len(req_fifo) <= REQ_DEPTH /\ Len(status_fifo) <= STATUS_DEPTH

\* The free numbers, wherever in the pool they are: offered, queued, or returned
\* and on their way in.
Pooled ==
    (IF m_qpn # NoQpn /\ ~m_ready THEN <<m_qpn>> ELSE <<>>) \o pool_fifo
    \o (IF qpn_reg # NoQpn THEN <<qpn_reg>> ELSE <<>>)
    \o (IF s_qpn # NoQpn THEN <<s_qpn>> ELSE <<>>)
Free == {Pooled[i] : i \in DOMAIN Pooled}

\* A number is in the pool at most once and never while its queue pair is in
\* use: qpn_fifo_init is "filled if a qp is closed", and only then.
PoolSound ==
    /\ Len(Pooled) = Cardinality(Free)
    /\ \A q \in Free : qp_contex[q].state \notin {"INIT", "RTS"}

\* What the ACK being prepared says is true: an opened queue pair is ready to send
\* (or has failed since) and bound to the client addressed, a closed one is reset and
\* its number free again.
ReplyTrue ==
    LET context == qp_contex[qp_info.qpn]
    IN  /\ qp_info.type \in {"OPEN", "MODIFY_RTS"} => context.state \in {"RTS", "ERROR"}
        /\ qp_info.type = "OPEN" => context.peer = qp_info.to
        /\ qp_info.type = "CLOSE" => context.state = "RESET" /\ qp_info.qpn \in Free

\* The connection manager acknowledges only what is true when it does, whatever
\* other clients asked for while it waited, and whatever became of their replies.
\* (A reply not yet taken is no longer safe: the next request overwrites its fields.)
AckTruthful == [][cm_state = "MODIFY_QP" /\ cm_state' = "IDLE" => ReplyTrue']_vars

\* Where each queue pair is in its life: a number that is reset but not free is
\* in the hands of the connection manager, which opens or closes it.
LifeOf ==
    LET free == Free
    IN  [q \in QPNs |->
             CASE qp_contex[q].state \in {"INIT", "RTS"} -> "open"
               [] qp_contex[q].state = "ERROR"           -> "failed"
               [] OTHER -> IF q \in free THEN "free"
                           ELSE IF cm_req.type = "OPEN" THEN "granted" ELSE "closing"]
OwnerOf == [q \in QPNs |-> IF qp_contex[q].state = "RESET" THEN NoClient ELSE qp_contex[q].peer]

Lifecycle == INSTANCE QpLifecycle WITH life <- LifeOf, owner <- OwnerOf

\* The pool, the connection manager and the QP state module together keep the
\* life cycle of a queue pair: no step of any of them skips a stage, touches two
\* numbers at once, or begins with one number while another is half done.  So a
\* failed queue pair is not made ready again by an OPEN or MODIFY in service, and
\* no number is lost on its way back to the pool.
KeepsLifecycle == Lifecycle!LifeSpec

\* The connection manager leaves MODIFY_QP, where it has no timeout, unless the
\* QP state module was busy or refused the number when the request pulse came.
Answered == cm_state = "MODIFY_QP" ~> (cm_state # "MODIFY_QP" \/ lost)

=============================================================================
