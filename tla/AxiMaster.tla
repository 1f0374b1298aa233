----------------------------- MODULE AxiMaster ------------------------------
(***************************************************************************)
(* AXIMaster and AXILiteMaster: what they keep between the commands of the *)
(* test and the five channels.  init_write and init_read take effect in    *)
(* full before the next clock edge, since write_logic and read_logic wait  *)
(* for nothing but a command.                                              *)
(*                                                                         *)
(* A channel is the queue of its sender, whose head is on the wires when   *)
(* `up' (valid) holds.  A head that was taken from the queue but held back *)
(* by a pause behaves as one still queued, and is not told apart from it.  *)
(***************************************************************************)
EXTENDS AxiTransfer

Channels == {"aw", "w", "b", "ar", "r"}
Kinds == {"axi", "axil"}

VARIABLES
    kind,        \* which of the two masters and RAMs the bench is built from
    chan,        \* Channels -> [q : queue of the sender, up : valid]
    cur_read_id,
    in_flight,   \* in_flight_operations
    wresp,       \* int_write_resp_command_queue, with the transfers still unanswered
    bq,          \* entries of int_write_resp_queue
    rresp,       \* int_read_resp_command_queue, its head being collected
    rq,          \* int_read_resp_queue_list
    result,      \* the newest entry of read_data_queue
    asserted     \* an assertion failed, or an access left the memory

masterVars == <<kind, chan, cur_read_id, in_flight, wresp, bq, rresp, rq, result, asserted>>

NoResult == [data |-> <<>>, may |-> <<>>]

MasterInit ==
    /\ chan = [c \in Channels |-> [q |-> <<>>, up |-> FALSE]]
    /\ cur_read_id = 0 /\ in_flight = 0
    /\ wresp = <<>> /\ bq = 0 /\ rresp = <<>> /\ rq = [i \in 0..IDS - 1 |-> <<>>]
    /\ result = NoResult /\ asserted = FALSE

Push(c, items) == [chan EXCEPT ![c].q = @ \o items]

\* Mutation: one response is taken for all the bursts of a write.
InitWriteOneResponse(c) ==
    /\ in_flight' = in_flight + 1
    /\ chan' = [chan EXCEPT !["aw"].q = @ \o (IF kind = "axi" THEN Bursts(c, 0)
                                              ELSE LiteWriteAddrs(c)),
                            !["w"].q = @ \o (IF kind = "axi" THEN Beats(c)
                                             ELSE LiteBeats(c))]
    /\ wresp' = Append(wresp, 1)
    /\ UNCHANGED <<kind, cur_read_id, bq, rresp, rq, result, asserted>>

\* write_logic on one command.
InitWrite(c) ==
    /\ in_flight' = in_flight + 1
    /\ chan' = [chan EXCEPT !["aw"].q = @ \o (IF kind = "axi" THEN Bursts(c, 0)
                                              ELSE LiteWriteAddrs(c)),
                            !["w"].q = @ \o (IF kind = "axi" THEN Beats(c)
                                             ELSE LiteBeats(c))]
    /\ wresp' = Append(wresp, IF kind = "axi" THEN Len(BurstStarts(c)) ELSE LiteCycles(c))
    /\ UNCHANGED <<kind, cur_read_id, bq, rresp, rq, result, asserted>>

\* Mutation: the bursts of a read are collected under the id of the first.
InitReadFirstId(c, mem) ==
    LET bursts == Bursts(c, cur_read_id)
        expected == IF kind = "axi" THEN [i \in DOMAIN bursts |->
                                            [id |-> cur_read_id, len |-> bursts[i].len]]
                    ELSE <<[id |-> 0, len |-> LiteCycles(c)]>>
    IN  /\ in_flight' = in_flight + 1
        /\ chan' = Push("ar", IF kind = "axi" THEN bursts ELSE LiteReadAddrs(c))
        /\ cur_read_id' = IF kind = "axi" THEN (cur_read_id + Len(bursts)) % IDS ELSE 0
        /\ rresp' = Append(rresp, [cmd |-> c, bursts |-> expected, k |-> 0, n |-> 0,
                                   data |-> <<>>,
                                   may |-> [i \in 1..c.len |-> {mem[Place(c, i - 1)]}]])
        /\ UNCHANGED <<kind, wresp, bq, rq, result, asserted>>

\* read_logic on one command.  `may' notes, for every byte, the values memory
\* has held since.
InitRead(c, mem) ==
    LET bursts == Bursts(c, cur_read_id)
        expected == IF kind = "axi" THEN [i \in DOMAIN bursts |->
                                            [id |-> bursts[i].id, len |-> bursts[i].len]]
                    ELSE <<[id |-> 0, len |-> LiteCycles(c)]>>
    IN  /\ in_flight' = in_flight + 1
        /\ chan' = Push("ar", IF kind = "axi" THEN bursts ELSE LiteReadAddrs(c))
        /\ cur_read_id' = IF kind = "axi" THEN (cur_read_id + Len(bursts)) % IDS ELSE 0
        /\ rresp' = Append(rresp, [cmd |-> c, bursts |-> expected, k |-> 0, n |-> 0,
                                   data |-> <<>>,
                                   may |-> [i \in 1..c.len |-> {mem[Place(c, i - 1)]}]])
        /\ UNCHANGED <<kind, wresp, bq, rq, result, asserted>>

\* write_resp_logic: it looks at its queue on clock edges, so it meets an answer
\* at the edge that brings it or at a later one.
MasterWriteResp ==
    /\ bq > 0 /\ wresp # <<>>
    /\ bq' = bq - 1
    /\ IF Head(wresp) = 1
       THEN wresp' = Tail(wresp) /\ in_flight' = in_flight - 1
       ELSE wresp' = [wresp EXCEPT ![1] = @ - 1] /\ UNCHANGED in_flight
    /\ UNCHANGED <<kind, chan, cur_read_id, rresp, rq, result, asserted>>

\* Mutation: the lanes of a beat, also in the first, which may start later.
WholeBeat(c, k) ==
    IF kind = "axi" THEN <<CycleOffset(c, k), CycleOffset(c, k) + c.nb - 1>>
    ELSE <<0, LiteStop(c, k) - 1>>

\* The lanes that read_resp_logic takes from the word of beat k.
TakenLanes(c, k) ==
    IF kind = "axi" THEN <<StartLane(c, k), CycleOffset(c, k) + c.nb - 1>>
    ELSE <<LiteStart(c, k), LiteStop(c, k) - 1>>

ReadWaiting == rresp # <<>> /\ rq[Head(Head(rresp).bursts).id] # <<>>

\* read_resp_logic: the next word of the burst it waits for.
MasterReadResp ==
    /\ ReadWaiting
    /\ LET e == Head(rresp)
           burst == Head(e.bursts)
           beat == Head(rq[burst.id])
           lanes == TakenLanes(e.cmd, e.k)
           data == e.data \o [j \in 1..lanes[2] - lanes[1] + 1 |-> beat.word[lanes[1] + j - 1]]
           lastOfBurst == e.n = burst.len - 1
           finished == lastOfBurst /\ Len(e.bursts) = 1
       IN  /\ rq' = [rq EXCEPT ![burst.id] = Tail(@)]
           /\ asserted' = (asserted \/ (kind = "axi" /\ beat.last # lastOfBurst))
           /\ IF finished
              THEN /\ rresp' = Tail(rresp) /\ in_flight' = in_flight - 1
                   /\ result' = [data |-> SubSeq(data, 1, Min({e.cmd.len, Len(data)})),
                                 may |-> e.may]
              ELSE /\ rresp' = [rresp EXCEPT
                        ![1].bursts = IF lastOfBurst THEN Tail(@) ELSE @,
                        ![1].n = IF lastOfBurst THEN 0 ELSE @ + 1,
                        ![1].k = @ + 1, ![1].data = data]
                   /\ UNCHANGED <<in_flight, result>>
    /\ UNCHANGED <<kind, chan, cur_read_id, wresp, bq>>

\* A read may return what memory holds now as well.
Widened(mem) ==
    [x \in DOMAIN rresp |->
       [rresp[x] EXCEPT !.may = [i \in DOMAIN @ |-> @[i] \cup {mem[Place(rresp[x].cmd, i - 1)]}]]]

=============================================================================
