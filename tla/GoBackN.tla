------------------------------- MODULE GoBackN ------------------------------
(***************************************************************************)
(* What the retransmission engine, its network and the responder promise   *)
(* about one connection: a go-back-N sender.  Packets are numbered from 0; *)
(* each counter is the number of packets that have got so far.  The engine *)
(* is clocked, so several counters may move at one edge.                   *)
(***************************************************************************)
EXTENDS Naturals

CONSTANT Window   \* packets accepted and not acknowledged

VARIABLES
    phase,      \* "none", "open", "closed"
    accepted,   \* from the producer
    stored,     \* in the buffer, announced in wr_table
    sent,       \* up to rd_table; falls back at a rewind
    received,   \* taken by the responder
    acked       \* up to cpl_table

counters == <<accepted, stored, sent, received, acked>>
connVars == <<phase, counters>>

ConnInit == /\ phase = "none"
            /\ accepted = 0 /\ stored = 0 /\ sent = 0 /\ received = 0 /\ acked = 0

Open == phase = "none" /\ phase' = "open" /\ UNCHANGED counters

\* One packet at a time enters the window and the buffer.
Accept == accepted < acked + Window /\ accepted' = accepted + 1
Store  == stored < accepted /\ stored' = stored + 1

\* Only a stored packet is sent, in its turn, and it may be lost.  The responder
\* takes the one it expects: it takes none twice and none before its turn.
Send == /\ sent < stored /\ sent' = sent + 1
        /\ \/ UNCHANGED received
           \/ received = sent /\ received' = received + 1

\* A retransmission begins at or before the first packet not acknowledged, at most
\* a window behind what the responder has.
Rewind == sent' \in 0..acked /\ received <= sent' + Window /\ UNCHANGED received

\* Only what has been received is acknowledged.
Acknowledge == acked' \in acked..received

Edge == /\ phase = "open" /\ UNCHANGED phase
        /\ Accept \/ UNCHANGED accepted
        /\ Store \/ UNCHANGED stored
        /\ Send \/ Rewind \/ UNCHANGED <<sent, received>>
        /\ Acknowledge

\* A connection is closed for good, by either side or before it was opened.
Close == /\ phase # "closed" /\ phase' = "closed"
         /\ accepted' = 0 /\ stored' = 0 /\ sent' = 0 /\ received' = 0 /\ acked' = 0

ConnNext == Open \/ Edge \/ Close

ConnSpec == ConnInit /\ [][ConnNext]_connVars

=============================================================================
