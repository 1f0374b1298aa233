------------------------------ MODULE CmParams ------------------------------
(***************************************************************************)
(* What the modules of the control plane share: queue pair numbers and the *)
(* requests that travel from a client through the connection manager to    *)
(* the QP state module.  A client stands for the IP address, remote QPN    *)
(* and listening port that its requests carry.                             *)
(***************************************************************************)
EXTENDS Integers, Sequences, FiniteSets

CONSTANTS
    N_QUEUE_PAIRS,    \* queue pairs of the stack
    CLIENTS           \* hosts that send connection-manager requests

\* The QPN FIFO is addressed with $clog2(N_QUEUE_PAIRS) bits and starts full.
ASSUME PowerOfTwo ==
    /\ N_QUEUE_PAIRS \in Nat /\ N_QUEUE_PAIRS >= 2
    /\ \E k \in 1..N_QUEUE_PAIRS : N_QUEUE_PAIRS = 2^k

QPNs  == 0..(N_QUEUE_PAIRS - 1)    \* local QPN minus 256
NoQpn == -1
\* A number outside 256 .. 256 + N_QUEUE_PAIRS - 1.
BadQpn == N_QUEUE_PAIRS
NoClient == "no client"
ASSUME ClientsAssumption == NoClient \notin CLIENTS

ReqTypes == {"OPEN", "MODIFY_RTS", "CLOSE"}

Requests == [type : ReqTypes \cup {"OTHER"}, qpn : QPNs \cup {BadQpn}, from : CLIENTS]
NoReq    == [type |-> "NULL", qpn |-> BadQpn, from |-> NoClient]

InRange(q) == q \in QPNs

=============================================================================
