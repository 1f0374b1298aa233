------------------------------ MODULE CmSlave -------------------------------
(***************************************************************************)
(* udp_RoCE_connection_manager in its Slave direction: it answers the OPEN,*)
(* MODIFY and CLOSE requests of clients, takes queue pair numbers from the *)
(* pool and returns them, and has the QP state module change the contexts. *)
(* It waits in MODIFY_QP for the status of its request, for ever if need   *)
(* be; requests that arrive meanwhile are ignored.                         *)
(***************************************************************************)
EXTENDS QpnPool

VARIABLES
    cm_state,        \* state_reg
    cm_valid,        \* cm_qp_valid_reg
    cm_req,          \* cm_qp_{req_type,loc_qpn,rem_*}_reg in MODIFY_QP, else NoReq
    qp_close_req,    \* qp_close_req_reg
    m_ready,         \* m_qpn_fifo_ready_reg
    s_qpn,           \* s_qpn_reg when s_qpn_fifo_valid_reg, else NoQpn
    qp_info          \* the reply: qp_info_*_reg, addressed to rem_ip_addr

slaveVars == <<cm_state, cm_valid, cm_req, qp_close_req, m_ready, s_qpn, qp_info>>

Acks == {"NULL", "ACK", "NO_QP", "NAK", "ERROR"}

SlaveInit ==
    /\ cm_state = "IDLE" /\ cm_valid = FALSE /\ cm_req = NoReq
    /\ qp_close_req = FALSE /\ m_ready = FALSE
    /\ s_qpn = NoQpn
    /\ qp_info = [valid |-> FALSE, type |-> "NULL", ack |-> "NULL",
                  qpn |-> 0, to |-> NoClient]

\* A reply stays valid until the transmitter takes it; its ack type, which the
\* next reply sets anew, is then forgotten.
Pending(tx_ready) == qp_info.valid /\ ~tx_ready
Kept(tx_ready) == IF Pending(tx_ready) THEN qp_info
                  ELSE [qp_info EXCEPT !.valid = FALSE, !.ack = "NULL"]

\* The request goes to the QP state module, and the reply is made ready.
Forward(type, q, r, tx_ready) ==
    /\ cm_state' = "MODIFY_QP" /\ cm_valid' = TRUE
    /\ cm_req' = [type |-> type, qpn |-> q, from |-> r.from]
    /\ qp_info' = [Kept(tx_ready) EXCEPT !.type = type, !.qpn = q, !.to = r.from]
    /\ s_qpn' = NoQpn

\* Mutation: the valid of the request is not a pulse.
QuietHeld == UNCHANGED <<cm_valid, cm_req>> /\ s_qpn' = NoQpn

\* No request goes out and no number comes back.
Quiet ==
    /\ cm_valid' = FALSE
    /\ cm_req' = IF cm_state' = "MODIFY_QP" THEN cm_req ELSE NoReq
    /\ s_qpn' = NoQpn

OpenQp(r, tx_ready) ==
    /\ cm_state = "IDLE" /\ r.type = "OPEN" /\ m_qpn # NoQpn
    /\ Forward("OPEN", m_qpn, r, tx_ready)
    /\ m_ready' = TRUE /\ qp_close_req' = FALSE

\* An error reply keeps the type, number and address of the reply before it.
SendError(ack, tx_ready) ==
    /\ cm_state' = "SEND_ERROR"
    /\ qp_info' = [qp_info EXCEPT !.valid = Pending(tx_ready), !.ack = ack]
    /\ Quiet /\ m_ready' = FALSE /\ qp_close_req' = FALSE

NoQpLeft(r, tx_ready) ==
    /\ cm_state = "IDLE" /\ r.type = "OPEN" /\ m_qpn = NoQpn
    /\ SendError("NO_QP", tx_ready)

\* The number of a MODIFY is not checked.
ModifyQp(r, tx_ready) ==
    /\ cm_state = "IDLE" /\ r.type = "MODIFY_RTS"
    /\ Forward("MODIFY_RTS", r.qpn, r, tx_ready)
    /\ m_ready' = FALSE /\ qp_close_req' = FALSE

CloseQp(r, tx_ready) ==
    /\ cm_state = "IDLE" /\ r.type = "CLOSE" /\ InRange(r.qpn)
    /\ Forward("CLOSE", r.qpn, r, tx_ready)
    /\ m_ready' = FALSE /\ qp_close_req' = TRUE

CloseRefused(r, tx_ready) ==
    /\ cm_state = "IDLE" /\ r.type = "CLOSE" /\ ~InRange(r.qpn)
    /\ SendError("NAK", tx_ready)

UnknownRequest(r) ==
    /\ cm_state = "IDLE" /\ r.type = "OTHER"
    /\ cm_state' = "IDLE"
    /\ qp_info' = [qp_info EXCEPT !.valid = FALSE, !.type = "NULL", !.ack = "NULL"]
    /\ Quiet /\ m_ready' = FALSE /\ qp_close_req' = FALSE

Idle(r, tx_ready) ==
    /\ cm_state = "IDLE" /\ r = NoReq
    /\ cm_state' = "IDLE"
    /\ qp_info' = Kept(tx_ready)
    /\ Quiet /\ m_ready' = FALSE /\ qp_close_req' = FALSE

Wait(status, tx_ready) ==
    /\ cm_state = "MODIFY_QP" /\ status = "NONE"
    /\ cm_state' = "MODIFY_QP"
    /\ qp_info' = Kept(tx_ready)
    /\ Quiet /\ m_ready' = FALSE /\ UNCHANGED qp_close_req

\* Success: a closed queue pair's number goes back to the pool, if the pool is
\* ready for it.
Acknowledge(status) ==
    /\ cm_state = "MODIFY_QP" /\ status = "OK" /\ (qp_close_req => s_qpn_ready)
    /\ cm_state' = "IDLE"
    /\ qp_info' = [qp_info EXCEPT !.valid = TRUE, !.ack = "ACK"]
    /\ s_qpn' = IF qp_close_req THEN cm_req.qpn ELSE NoQpn
    /\ cm_valid' = FALSE /\ cm_req' = NoReq /\ m_ready' = FALSE /\ UNCHANGED qp_close_req

\* Mutation: the number of a refused close is returned as well.
FailReturning(status) ==
    /\ cm_state = "MODIFY_QP"
    /\ status = "ERROR" \/ (status = "OK" /\ qp_close_req /\ ~s_qpn_ready)
    /\ cm_state' = "SEND_ERROR"
    /\ qp_info' = [qp_info EXCEPT !.valid = FALSE, !.ack = "ERROR"]
    /\ s_qpn' = IF qp_close_req THEN cm_req.qpn ELSE NoQpn
    /\ cm_valid' = FALSE /\ cm_req' = NoReq /\ m_ready' = FALSE /\ UNCHANGED qp_close_req

Fail(status) ==
    /\ cm_state = "MODIFY_QP"
    /\ status = "ERROR" \/ (status = "OK" /\ qp_close_req /\ ~s_qpn_ready)
    /\ cm_state' = "SEND_ERROR"
    /\ qp_info' = [qp_info EXCEPT !.valid = FALSE, !.ack = "ERROR"]
    /\ Quiet /\ m_ready' = FALSE /\ UNCHANGED qp_close_req

ReplyError ==
    /\ cm_state = "SEND_ERROR"
    /\ cm_state' = "IDLE"
    /\ qp_info' = [qp_info EXCEPT !.valid = TRUE]
    /\ Quiet /\ m_ready' = FALSE /\ qp_close_req' = FALSE

SlaveStep(r, status, tx_ready) ==
    /\ \/ OpenQp(r, tx_ready) \/ NoQpLeft(r, tx_ready)
       \/ ModifyQp(r, tx_ready)
       \/ CloseQp(r, tx_ready) \/ CloseRefused(r, tx_ready)
       \/ UnknownRequest(r) \/ Idle(r, tx_ready)
       \/ Wait(status, tx_ready) \/ Acknowledge(status) \/ Fail(status)
       \/ ReplyError
    /\ PoolStep(m_ready, s_qpn)

=============================================================================
