------------------------------ MODULE QpnPool -------------------------------
(***************************************************************************)
(* qpn_fifo_init: the pool of free queue pair numbers.  A FIFO that starts *)
(* full, an output register that offers its head, and an input FSM that    *)
(* takes a returned number, passes it on one edge later, and is not ready  *)
(* again until the edge after that.                                        *)
(***************************************************************************)
EXTENDS CmParams

VARIABLES
    pool_fifo,     \* qpn_mem between the two pointers
    m_qpn,         \* m_qpn_reg when m_qpn_valid_reg, else NoQpn
    pool_state,    \* state_reg
    s_qpn_ready,   \* s_qpn_ready_reg
    qpn_reg,       \* the number on its way from input to FIFO, else NoQpn
    qpn_valid

poolVars == <<pool_fifo, m_qpn, pool_state, s_qpn_ready, qpn_reg, qpn_valid>>

PoolInit ==
    /\ pool_fifo = [i \in 1..N_QUEUE_PAIRS |-> i - 1]
    /\ m_qpn = NoQpn
    /\ pool_state = "IDLE" /\ s_qpn_ready = FALSE
    /\ qpn_reg = NoQpn /\ qpn_valid = FALSE

FifoFull == Len(pool_fifo) = N_QUEUE_PAIRS

\* The output register is refilled while it is empty or being read.
PoolFifo(m_ready) ==
    LET refill == m_ready \/ m_qpn = NoQpn
        empty  == pool_fifo = <<>>
    IN  /\ m_qpn' = IF ~refill THEN m_qpn ELSE IF empty THEN NoQpn ELSE Head(pool_fifo)
        /\ pool_fifo' = (IF refill /\ ~empty THEN Tail(pool_fifo) ELSE pool_fifo)
                        \o (IF qpn_valid /\ ~FifoFull THEN <<qpn_reg>> ELSE <<>>)

PoolInput(s_qpn) ==
    LET take == pool_state = "IDLE" /\ s_qpn_ready /\ s_qpn # NoQpn
    IN  /\ pool_state' = IF take THEN "PASSTHROUGH" ELSE "IDLE"
        /\ s_qpn_ready' = (pool_state = "IDLE" /\ ~take /\ ~FifoFull)
        /\ qpn_reg' = IF take THEN s_qpn ELSE IF pool_state = "IDLE" THEN NoQpn ELSE qpn_reg
        /\ qpn_valid' = (pool_state = "PASSTHROUGH")

PoolStep(m_ready, s_qpn) == PoolFifo(m_ready) /\ PoolInput(s_qpn)

=============================================================================
