------------------------------- MODULE AxiRam -------------------------------
(***************************************************************************)
(* AXIRam and AXILiteRam.                                                  *)
(*                                                                         *)
(* AXIRam queues what its interfaces take at a clock edge; write_logic and *)
(* read_logic then work, before the next edge, in steps that wait for      *)
(* nothing.  AXILiteRam does everything at clock edges, one word at a time,*)
(* and both of its processes use the position of the one memory object.    *)
(***************************************************************************)
EXTENDS AxiMaster

VARIABLES
    mem,
    wburst, wq, dq,  \* AXIRam: the burst being written with its beats so far, and
                     \* int_write_addr_queue, int_write_data_queue
    arq,             \* AXIRam: int_read_addr_queue
    wst, waddr,      \* AXILiteRam.write_logic: where it waits, and its address
    rst, raddr,      \* AXILiteRam.read_logic
    pos              \* AXILiteRam: the position of the memory object

ramVars == <<mem, wburst, wq, dq, arq, wst, waddr, rst, raddr, pos>>

NoBurst == [n |-> -1]

RamInit ==
    /\ mem = [a \in 0..SIZE - 1 |-> <<0, a>>]
    /\ wburst = NoBurst /\ wq = <<>> /\ dq = <<>> /\ arq = <<>>
    /\ wst = "ready" /\ waddr = 0 /\ rst = "ready" /\ raddr = 0 /\ pos = 0

\* write_logic takes the next burst, and asserts that it stays in its page.
RamWriteStart ==
    /\ wburst = NoBurst /\ wq # <<>>
    /\ wburst' = [b |-> Head(wq), n |-> 0] /\ wq' = Tail(wq)
    /\ asserted' = (asserted \/ CrossesPage(Head(wq)))
    /\ UNCHANGED <<kind, chan, cur_read_id, in_flight, wresp, bq, rresp, rq, result,
                   mem, dq, arq, wst, waddr, rst, raddr, pos>>

\* One beat of it; the response is queued with the last.
RamWriteBeat ==
    /\ wburst # NoBurst /\ dq # <<>>
    /\ LET beat == Head(dq)
           b == wburst.b
           last == wburst.n = b.len - 1
       IN  /\ mem' = WriteWord(mem, Word(RamBeatAddr(b, wburst.n)) % SIZE, beat.data)
           /\ dq' = Tail(dq)
           /\ asserted' = (asserted \/ beat.last # last)
           /\ wburst' = IF last THEN NoBurst ELSE [wburst EXCEPT !.n = @ + 1]
           /\ chan' = IF last THEN Push("b", <<"OKAY">>) ELSE chan
    /\ rresp' = Widened(mem')
    /\ UNCHANGED <<kind, cur_read_id, in_flight, wresp, bq, rq, result,
                   wq, arq, wst, waddr, rst, raddr, pos>>

\* read_logic reads a whole burst at once.
RamReadBurst ==
    /\ arq # <<>>
    /\ LET b == Head(arq)
       IN  /\ arq' = Tail(arq)
           /\ asserted' = (asserted \/ CrossesPage(b))
           /\ chan' = Push("r", [i \in 1..b.len |->
                [word |-> ReadWord(mem, Word(RamBeatAddr(b, i - 1)) % SIZE),
                 id |-> b.id, last |-> i = b.len]])
    /\ UNCHANGED <<kind, cur_read_id, in_flight, wresp, bq, rresp, rq, result,
                   mem, wburst, wq, dq, wst, waddr, rst, raddr, pos>>

-----------------------------------------------------------------------------
(* AXILiteRam, at one clock edge: `moved' are the channels on which a word *)
(* changes hands.  The two processes run in either order.                  *)

LiteReady(c) == CASE c = "aw" -> wst = "ready"
                  [] c = "w"  -> wst = "data"
                  [] c = "ar" -> rst = "ready"
                  [] OTHER    -> TRUE

Seeks == rst = "seek"
Writes(moved) == wst = "data" /\ "w" \in moved

\* The position at which write_logic writes.
WritePos(readFirst) == IF readFirst /\ Seeks THEN (raddr % SIZE) + BW ELSE pos

LiteWriteStep(moved, readFirst) ==
    /\ wst' = CASE wst = "ready" -> IF "aw" \in moved THEN "seek" ELSE "ready"
                [] wst = "seek"  -> "data"
                [] wst = "data"  -> IF "w" \in moved THEN "resp" ELSE "data"
                [] wst = "resp"  -> IF "b" \in moved THEN "ready" ELSE "resp"
    /\ waddr' = IF wst = "ready" /\ "aw" \in moved THEN Word(Head(chan["aw"].q)) ELSE waddr
    /\ LET at == WritePos(readFirst)
       IN  IF Writes(moved)
           THEN /\ mem' = WriteWord(mem, at, Head(chan["w"].q).data)
                /\ asserted' = (asserted \/ at + BW > SIZE)
           ELSE UNCHANGED <<mem, asserted>>

LiteReadStep(moved) ==
    /\ rst' = CASE rst = "ready" -> IF "ar" \in moved THEN "seek" ELSE "ready"
                [] rst = "seek"  -> "resp"
                [] rst = "resp"  -> IF "r" \in moved THEN "ready" ELSE "resp"
    /\ raddr' = IF rst = "ready" /\ "ar" \in moved THEN Word(Head(chan["ar"].q)) ELSE raddr

\* What the two put on their response channels at this edge.
LiteAnswers(c, moved, readFirst) ==
    CASE c = "b" /\ Writes(moved) -> <<"OKAY">>
      [] c = "r" /\ Seeks -> <<[word |-> ReadWord(IF readFirst THEN mem ELSE mem', raddr % SIZE),
                                id |-> 0, last |-> TRUE]>>
      [] OTHER -> <<>>

\* Seeks and accesses move the position; the last of them counts.
LitePos(moved, readFirst) ==
    LET afterWrite(p) == IF wst = "seek" THEN waddr % SIZE
                         ELSE IF Writes(moved) THEN WritePos(readFirst) + BW ELSE p
        afterRead(p) == IF Seeks THEN (raddr % SIZE) + BW ELSE p
    IN  pos' = IF readFirst THEN afterWrite(afterRead(pos)) ELSE afterRead(afterWrite(pos))

=============================================================================
