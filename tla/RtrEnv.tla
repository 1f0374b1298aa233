------------------------------- MODULE RtrEnv -------------------------------
(***************************************************************************)
(* What surrounds the write side of the retransmission engine, external to *)
(* it: the producer of packets (the header producers behind the arbiter),  *)
(* the connection manager's pulses, and the DMA engine's handshakes.       *)
(***************************************************************************)
EXTENDS RtrWrite

CONSTANTS
    ActiveQPs,        \* queue pairs that are opened (once each)
    ClosableQPs,      \* queue pairs the connection manager may close
    StaleProducer,    \* TRUE: the producer goes on for a while after a close
    OpenPsn,          \* first PSN of a connection
    MaxPkts,          \* bound: packets the producer sends per connection
    DMA_OUTSTANDING,  \* descriptors the DMA engine works on at a time
    DmaStatus,        \* statuses it may report: {"OK"} or {"OK", "ERROR"}
    DmaDelays         \* {FALSE}: it is never idle; {TRUE, FALSE}: any delay

ASSUME EnvAssumption ==
    /\ ActiveQPs \subseteq QPs /\ ClosableQPs \subseteq QPs /\ StaleProducer \in BOOLEAN
    /\ OpenPsn \in Psn /\ MaxPkts \in 0..(PSN_MOD - 1)
    /\ DMA_OUTSTANDING \in Nat
    /\ DmaStatus \subseteq {"OK", "ERROR"} /\ DmaDelays \subseteq BOOLEAN

VARIABLES
    conn,           \* "none", "open" or "closed", per queue pair
    np              \* next PSN of the producer, per queue pair

EnvInit ==
    /\ conn = [q \in QPs |-> "none"]
    /\ np   = [q \in QPs |-> OpenPsn]

\* The work queue caches the state of its queue pair, so packets may still
\* come after a close.
Sending(q) == /\ conn[q] = "open" \/ (StaleProducer /\ conn[q] = "closed")
              /\ PsnDist(np[q], OpenPsn) < MaxPkts

NextPacket(q) == [qpn |-> q, psn |-> np[q]]

TakeInputs == IF desc_fifo = <<>> \/ Len(dma_busy) >= DMA_OUTSTANDING THEN {FALSE}
              ELSE {~d : d \in DmaDelays}
DoneInputs == IF dma_busy = <<>> THEN {"NONE"}
              ELSE DmaStatus \cup (IF TRUE \in DmaDelays THEN {"NONE"} ELSE {})

ClosePulses == {CmClose(q) : q \in {a \in ClosableQPs : conn[a] = "open"}}

Producer(cm, close, pkt) ==
    /\ conn' = [q \in QPs |-> IF CloseQpn(cm, close) = q THEN "closed"
                              ELSE IF cm.req = "OPEN" /\ cm.qpn = q THEN "open" ELSE conn[q]]
    /\ np' = IF Accepts(pkt) THEN [np EXCEPT ![pkt.qpn] = PsnInc(@)] ELSE np

=============================================================================
