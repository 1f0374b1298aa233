------------------------------ MODULE QpState -------------------------------
(***************************************************************************)
(* RoCE_qp_state_module: the context of every queue pair and the FSM that  *)
(* serves, one at a time, fatal NAKs, closes and PSN updates of the TX     *)
(* engine, and requests of the connection manager.  Of a context the state *)
(* and the remote peer are kept.                                           *)
(*                                                                         *)
(* A NAK and a connection-manager request are pulses: what arrives while   *)
(* the FSM is not idle, or together with something of higher priority, is  *)
(* gone.  The engine's closes and updates are held until they are taken.   *)
(*                                                                         *)
(* cm_qp_ptr, qp_update_ptr and qp_close_ptr are one variable: each is     *)
(* written on leaving IDLE and read only until the FSM is back there.  For  *)
(* the same reason the copies of a request that is not served are left out,*)
(* and those of the last one are forgotten on the way back to IDLE.        *)
(***************************************************************************)
EXTENDS CmParams

VARIABLES
    q_state,       \* state_reg
    req_type,      \* cm_qp_req_type_reg
    ptr, peer_reg, \* the three pointers; cm_qp_rem_*_reg
    qp_contex,     \* state and peer of each queue pair
    state_temp,    \* qp_contex_state_temp
    qp_status,     \* qp_open_status_valid and error_qp_request
    qp_active, qp_active_pipes,
    close_req, update_req    \* s_qp_close_*, s_qp_update_context_valid

qpVars == <<q_state, req_type, ptr, peer_reg, qp_contex, state_temp, qp_status,
            qp_active, qp_active_pipes, close_req, update_req>>

QpStates == {"RESET", "INIT", "RTS", "ERROR"}

QpInit ==
    /\ q_state = "IDLE" /\ req_type = "NULL" /\ ptr = NoQpn /\ peer_reg = NoClient
    /\ qp_contex = [q \in QPNs |-> [state |-> "RESET", peer |-> NoClient]]
    /\ state_temp = "RESET" /\ qp_status = "NONE"
    /\ qp_active = FALSE /\ qp_active_pipes = <<FALSE, FALSE>>
    /\ close_req = NoQpn /\ update_req = FALSE

GoTo(state, q) == q_state' = state /\ ptr' = q
Back == GoTo("IDLE", NoQpn) /\ req_type' = "NULL" /\ peer_reg' = NoClient /\ state_temp' = "RESET"

\* A fatal NAK overrides everything else the idle FSM would have done.
FatalNak(nak) ==
    /\ q_state = "IDLE" /\ nak # NoQpn
    /\ GoTo("ERROR_QP", nak)
    /\ UNCHANGED <<req_type, peer_reg, qp_contex, state_temp>> /\ qp_status' = "NONE"

EngineClose(nak) ==
    /\ q_state = "IDLE" /\ nak = NoQpn /\ close_req # NoQpn
    /\ GoTo("ERROR_QP", close_req)
    /\ UNCHANGED <<req_type, peer_reg, qp_contex, state_temp>> /\ qp_status' = "NONE"

EngineUpdate(nak) ==
    /\ q_state = "IDLE" /\ nak = NoQpn /\ close_req = NoQpn /\ update_req
    /\ q_state' = "UPDATE_QP"
    /\ UNCHANGED <<req_type, ptr, peer_reg, qp_contex, state_temp>> /\ qp_status' = "NONE"

\* The request cm is taken into service.
Takes(cm, nak) ==
    /\ q_state = "IDLE" /\ nak = NoQpn /\ close_req = NoQpn /\ ~update_req
    /\ cm # NoReq /\ InRange(cm.qpn)

TakeRequest(cm, nak) ==
    /\ Takes(cm, nak)
    /\ GoTo(CASE cm.type = "OPEN"       -> "OPEN_QP"
              [] cm.type = "MODIFY_RTS" -> "MODIFY_QP_RTS"
              [] cm.type = "CLOSE"      -> "CLOSE_QP", cm.qpn)
    /\ req_type' = cm.type /\ peer_reg' = cm.from
    /\ UNCHANGED <<qp_contex, state_temp>> /\ qp_status' = "NONE"

\* Nothing to do, or a request for a number out of range.
Rest(cm, nak) ==
    /\ q_state = "IDLE" /\ nak = NoQpn /\ close_req = NoQpn /\ ~update_req
    /\ cm = NoReq \/ ~InRange(cm.qpn)
    /\ UNCHANGED <<q_state, req_type, ptr, peer_reg, qp_contex, state_temp>>
    /\ qp_status' = "NONE"

\* The context is read one edge before it is written.
ReadContext ==
    /\ q_state \in {"OPEN_QP", "MODIFY_QP_RTS", "CLOSE_QP"}
    /\ GoTo("UPDATE_CONTEXT", ptr)
    /\ state_temp' = qp_contex[ptr].state
    /\ UNCHANGED <<req_type, peer_reg, qp_contex>> /\ qp_status' = "NONE"

\* Mutation: the status lines that the code has commented out in this branch.
OpenContextEarly ==
    /\ req_type = "OPEN"
    /\ GoTo("MODIFY_QP_RTS", ptr) /\ req_type' = "MODIFY_RTS"
    /\ UNCHANGED <<peer_reg, state_temp>>
    /\ qp_contex' = [qp_contex EXCEPT ![ptr] =
                       IF state_temp = "RESET" THEN [state |-> "INIT", peer |-> peer_reg] ELSE @]
    /\ qp_status' = IF state_temp = "RESET" THEN "OK" ELSE "ERROR"

\* OPEN goes on to RTS by itself; refused, it reports an error here already and
\* a second one from the MODIFY that follows.
OpenContext ==
    /\ req_type = "OPEN"
    /\ GoTo("MODIFY_QP_RTS", ptr) /\ req_type' = "MODIFY_RTS"
    /\ UNCHANGED <<peer_reg, state_temp>>
    /\ qp_contex' = [qp_contex EXCEPT ![ptr] =
                       IF state_temp = "RESET" THEN [state |-> "INIT", peer |-> peer_reg] ELSE @]
    /\ qp_status' = IF state_temp = "RESET" THEN "NONE" ELSE "ERROR"

\* Mutation: the state of the queue pair is not looked at.
ModifyContextBlindly ==
    LET ok == ~qp_active_pipes[2]
    IN  /\ req_type = "MODIFY_RTS"
        /\ Back
        /\ qp_contex' = [qp_contex EXCEPT ![ptr].state = IF ok THEN "RTS" ELSE @]
        /\ qp_status' = IF ok THEN "OK" ELSE "ERROR"

ModifyContext ==
    LET ok == state_temp = "INIT" /\ ~qp_active_pipes[2]
    IN  /\ req_type = "MODIFY_RTS"
        /\ Back
        /\ qp_contex' = [qp_contex EXCEPT ![ptr].state = IF ok THEN "RTS" ELSE @]
        /\ qp_status' = IF ok THEN "OK" ELSE "ERROR"

\* Mutation: no status for a queue pair that is not open.
CloseContextSilent ==
    /\ req_type = "CLOSE"
    /\ Back
    /\ qp_contex' = [qp_contex EXCEPT ![ptr].state = "RESET"]
    /\ qp_status' = IF state_temp # "RESET" THEN "OK" ELSE "NONE"

CloseContext ==
    /\ req_type = "CLOSE"
    /\ Back
    /\ qp_contex' = [qp_contex EXCEPT ![ptr].state = IF state_temp # "RESET" THEN "RESET" ELSE @]
    /\ qp_status' = IF state_temp # "RESET" THEN "OK" ELSE "ERROR"

UpdateContext ==
    /\ q_state = "UPDATE_CONTEXT"
    /\ OpenContext \/ ModifyContext \/ CloseContext

\* The PSN of an update is not kept; what matters is that the FSM is busy.
UpdateQp ==
    /\ q_state = "UPDATE_QP"
    /\ Back /\ qp_status' = "NONE" /\ UNCHANGED qp_contex

ErrorQp ==
    /\ q_state = "ERROR_QP"
    /\ Back /\ qp_status' = "NONE"
    /\ qp_contex' = [qp_contex EXCEPT ![ptr].state = "ERROR"]

\* The workaround watches the request pulses themselves, served or not.
Workaround(cm) ==
    /\ qp_active' = IF cm.type = "MODIFY_RTS" THEN TRUE
                    ELSE IF cm.type = "CLOSE" THEN FALSE ELSE qp_active
    /\ qp_active_pipes' = <<qp_active, qp_active_pipes[1]>>

\* The engine's requests: held until ready, then possibly the next one.
EngineSide(close, update) ==
    /\ close_req'  = IF close_req # NoQpn /\ q_state # "ERROR_QP" THEN close_req ELSE close
    /\ update_req' = ((update_req /\ q_state # "UPDATE_QP") \/ update)

QpStep(cm, nak, close, update) ==
    /\ EngineSide(close, update)
    /\ \/ FatalNak(nak) \/ EngineClose(nak) \/ EngineUpdate(nak)
       \/ TakeRequest(cm, nak) \/ Rest(cm, nak)
       \/ ReadContext \/ UpdateContext \/ UpdateQp \/ ErrorQp
    /\ Workaround(cm)

=============================================================================
