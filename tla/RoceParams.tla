----------------------------- MODULE RoceParams -----------------------------
(***************************************************************************)
(* Parameters and PSN arithmetic shared by the modules that model the      *)
(* retransmission engine.  The widths that matter for wrap-around are      *)
(* constants: the 24-bit PSN space, the 32-bit timers, and the number of   *)
(* PMTU-sized slots that one queue pair owns in the retransmission buffer. *)
(***************************************************************************)
EXTENDS Integers, FiniteSets, Sequences

CONSTANTS
    MAX_QPS,          \* queue pairs of one TX engine (a power of two, >= 2)
    PSN_MOD,          \* size of the PSN space, 2^24 in the code
    SLOTS,            \* QP_MEMORY_SIZE >> (8 + pmtu)
    STALL_MARGIN,     \* the literal 6 of the two stall thresholds
    COUNTER_MOD,      \* range of timeout_counter and rnr_counter, 2^32
    timeout_period,   \* configuration inputs of the retransmission module
    retry_count,
    rnr_retry_count,
    RNR_TIMER,        \* RNR_TIMER_VALUES[i] of the NAKs that may arrive
    HDR_LATENCY       \* cycles from the header RAM read to its data (4)

ASSUME QpAssumption == MAX_QPS \in Nat /\ MAX_QPS >= 2
ASSUME PsnAssumption == PSN_MOD \in Nat /\ PSN_MOD >= 2
ASSUME SlotsAssumption == SLOTS \in 1..PSN_MOD
ASSUME MarginAssumption == STALL_MARGIN \in Nat
ASSUME CounterAssumption == COUNTER_MOD \in Nat /\ COUNTER_MOD > 0
ASSUME TimerAssumption == /\ timeout_period \in 0..(COUNTER_MOD - 1)
                          /\ RNR_TIMER \in 0..(COUNTER_MOD - 1)
ASSUME RetryAssumption == retry_count \in 0..7 /\ rnr_retry_count \in 0..7
ASSUME LatencyAssumption == HDR_LATENCY \in Nat

QPs  == 0..(MAX_QPS - 1)
Psn  == 0..(PSN_MOD - 1)
Slot == 0..(SLOTS - 1)

\* "No value": an empty register, an absent input.
None == -1

\* Mutation: the 24-bit increment without its wrap.
PsnIncUnwrapped(p) == p + 1

PsnInc(p)     == (p + 1) % PSN_MOD
PsnDec(p)     == (p + PSN_MOD - 1) % PSN_MOD
PsnDist(b, a) == (b + PSN_MOD - a) % PSN_MOD     \* b - a, modulo the PSN space

\* The PSN the tables hold after reset and after a close: 24'hff_ffff.
PSN_RESET == PSN_MOD - 1

\* The slot of a PSN: psn << memory_steps, truncated to the address width.
SlotOf(p) == p % SLOTS

\* The two thresholds of the stall decision (24-bit registers, so a small
\* buffer would wrap them).
psn_stall_thr_stop    == (SLOTS - (MAX_QPS + STALL_MARGIN)) % PSN_MOD
psn_stall_thr_release == (SLOTS - (2 * MAX_QPS + STALL_MARGIN)) % PSN_MOD

NextQpn(q) == (q + 1) % MAX_QPS

\* Timers are decremented by MAX_QPS, once per sweep over the queue pairs.
\* They have run out when the 32-bit difference falls below MAX_QPS.
CounterStep(c) == (c - MAX_QPS) % COUNTER_MOD
CounterOut(c)  == CounterStep(c) < MAX_QPS

=============================================================================
