---------------------------- MODULE AxisEndpoint ----------------------------
(***************************************************************************)
(* AXIStreamFrame, AXIStreamSource and AXIStreamSink: frames as beats of M *)
(* lanes, sent under backpressure and put together again.  A frame is a    *)
(* record [data, user] of its bytes and its last_cycle_user; tuser stands  *)
(* for the sidebands, tid and tdest travel with it.                        *)
(***************************************************************************)
EXTENDS NetFrames, FiniteSets

CONSTANT M   \* lanes: len(tkeep)
ASSUME LanesAssumption == M \in Nat \ {0}

VARIABLES
    pq,        \* the source's queue of frames
    beats,     \* the rest of the frame being sent, without the beat on the wires
    beat,      \* tdata, tkeep, tlast, tuser
    pvalid,    \* tvalid
    pactive,   \* the source's active
    ready,     \* tready_int of the sink
    partial,   \* the beats of the frame being received
    sq,        \* the sink's queue of frames
    asserted   \* an assertion failed, or an empty frame was to be sent

axisVars == <<pq, beats, beat, pvalid, pactive, ready, partial, sq, asserted>>

NoBeat == [data |-> <<>>, keep |-> {}, last |-> FALSE, user |-> 0]

AxisInit ==
    /\ pq = <<>> /\ beats = <<>> /\ beat = NoBeat /\ pvalid = FALSE /\ pactive = FALSE
    /\ ready = FALSE /\ partial = <<>> /\ sq = <<>> /\ asserted = FALSE

\* AXIStreamFrame.build: the sideband of the last beat is last_cycle_user.
BuildBeats(f) ==
    LET n == (Len(f.data) + M - 1) \div M
        lanes(i) == {j \in 0..M - 1 : (i - 1) * M + j < Len(f.data)}
    IN  [i \in 1..n |-> [data |-> [j \in lanes(i) |-> f.data[(i - 1) * M + j + 1]],
                         keep |-> lanes(i), last |-> i = n,
                         user |-> IF i = n THEN f.user ELSE 0]]

\* AXIStreamFrame.parse.
ParseBeats(bs) ==
    LET lanes(b) == SelectSeq([j \in 1..M |-> j - 1], LAMBDA j : j \in b.keep)
        bytes(b) == [k \in 1..Cardinality(b.keep) |-> b.data[lanes(b)[k]]]
        upTo[i \in 0..Len(bs)] == IF i = 0 THEN <<>> ELSE upTo[i - 1] \o bytes(bs[i])
    IN  [data |-> upTo[Len(bs)], user |-> Last(bs).user]

\* The source goes on to its next frame when it has none, or this edge ends it.
Sends(taken) == pactive /\ ~(taken /\ beats = <<>>)
StreamLoads(taken, frames) == ~Sends(taken) /\ frames # <<>>

\* The beats that follow, if the wires change at this edge.
NextBeats(taken, frames) ==
    IF StreamLoads(taken, frames) THEN BuildBeats(Head(frames))
    ELSE IF taken THEN beats ELSE <<>>

\* Mutation: a beat loaded during a pause is not raised after it.
SourceStepForgets(pause, taken, frames, added) ==
    LET load == StreamLoads(taken, frames)
        next == NextBeats(taken, frames)
    IN  /\ pq' = (IF load THEN Tail(frames) ELSE frames) \o added
        /\ pactive' = (Sends(taken) \/ load)
        /\ beat' = IF next # <<>> THEN Head(next) ELSE beat
        /\ beats' = IF next # <<>> THEN Tail(next) ELSE beats
        /\ pvalid' = (pactive' /\ (IF next # <<>> THEN ~pause ELSE pvalid /\ ~taken))

\* One clock edge of the source; taken says that tready meets tvalid, frames is
\* its queue as the process finds it, and added what comes after.  Only a beat
\* that is up stays up through a pause.
SourceStep(pause, taken, frames, added) ==
    LET load == StreamLoads(taken, frames)
        next == NextBeats(taken, frames)
    IN  /\ pq' = (IF load THEN Tail(frames) ELSE frames) \o added
        /\ pactive' = (Sends(taken) \/ load)
        /\ beat' = IF next # <<>> THEN Head(next) ELSE beat
        /\ beats' = IF next # <<>> THEN Tail(next) ELSE beats
        /\ pvalid' = (pactive' /\ (~pause \/ (pvalid /\ ~taken)))

\* A frame without bytes has no beat to put on the wires.
EmptyFrame(taken, frames) == StreamLoads(taken, frames) /\ Head(frames).data = <<>>

\* What the sink asserts of a beat: its bytes are contiguous, and leave no gap
\* to the beats before and after it.
BadKeep ==
    LET k == beat.keep
        gap == \E a, b \in k : \E c \in a..b : c \notin k
    IN  \/ k = {} \/ gap
        \/ partial # <<>> /\ 0 \notin k
        \/ ~beat.last /\ M - 1 \notin k

\* The sink looks at tvalid and its pause, not at its own tready_int.
SinkTakes(pause) == pvalid /\ ~pause
Collected == Append(partial, beat)

\* Its queue after this clock edge, before anyone takes a frame from it.
Received(pause) == IF SinkTakes(pause) /\ beat.last THEN Append(sq, ParseBeats(Collected)) ELSE sq

SinkStep(pause) ==
    /\ ready' = TRUE
    /\ partial' = IF ~SinkTakes(pause) THEN partial ELSE IF beat.last THEN <<>> ELSE Collected

\* Reset: the beats in progress are forgotten on both sides, the queues kept.
AxisReset ==
    /\ beats' = <<>> /\ beat' = NoBeat /\ pvalid' = FALSE /\ pactive' = FALSE
    /\ ready' = FALSE /\ partial' = <<>>
    /\ UNCHANGED <<pq, sq, asserted>>

=============================================================================
