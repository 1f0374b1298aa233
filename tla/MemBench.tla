------------------------------ MODULE MemBench ------------------------------
(***************************************************************************)
(* A memory master and a RAM model of the simulation library on one bus,   *)
(* as the benches of the AXI and AXI-Lite components connect them: the test*)
(* issues commands at any time, and pauses either side of any channel for  *)
(* as long as it likes.                                                    *)
(***************************************************************************)
EXTENDS AxiRam

CONSTANTS
    BUILDS,     \* the kinds of bench to run
    OVERLAPS,   \* the kinds whose test issues reads and writes together
    ADDRS, LENS, SIZES, BURSTS,   \* of the commands of the test
    MAX_OPS     \* commands a run issues

ASSUME BenchAssumption == BUILDS \subseteq Kinds /\ OVERLAPS \subseteq Kinds /\ MAX_OPS \in Nat

VARIABLES issued, answered, reads   \* the writes so far, how many are answered, the reads

vars == <<masterVars, ramVars, issued, answered, reads>>

Init == /\ kind \in BUILDS
        /\ MasterInit /\ RamInit
        /\ issued = <<>> /\ answered = 0 /\ reads = 0

-----------------------------------------------------------------------------
(* The test.                                                               *)

\* Commands that AXI permits: a fixed or wrapping transfer is one burst of whole
\* beats from an aligned address, and wraps over 2 or more beats.
Legal(c) ==
    /\ c.addr + c.len <= SIZE
    /\ kind = "axil" => c.nb = BW /\ c.burst = "INCR"
    /\ c.burst # "INCR" => /\ c.addr % c.nb = 0 /\ c.len % c.nb = 0 /\ c.nb = BW
                           /\ Len(BurstStarts(c)) = 1
    /\ c.burst = "WRAP" => c.len \div c.nb \in {2, 4, 8, 16}

Commands(id) ==
    {c \in [id : {id}, addr : ADDRS, len : LENS, nb : SIZES, burst : BURSTS] : Legal(c)}

MayIssue == Len(issued) + reads < MAX_OPS

IssueWrite ==
    /\ MayIssue /\ (kind \in OVERLAPS \/ rresp = <<>>)
    /\ \E c \in Commands(Len(issued) + 1) : InitWrite(c) /\ issued' = Append(issued, c)
    /\ UNCHANGED <<ramVars, answered, reads>>

IssueRead ==
    /\ MayIssue /\ (kind \in OVERLAPS \/ wresp = <<>>)
    /\ \E c \in Commands(0) : InitRead(c, mem)
    /\ reads' = reads + 1
    /\ UNCHANGED <<ramVars, issued, answered>>

-----------------------------------------------------------------------------
(* The clock.                                                              *)

\* The RAM's processes and read_resp_logic, woken by what the edge brought,
\* have run until each waits again.
Quiescent ==
    kind = "axi" => /\ (wburst = NoBurst => wq = <<>>) /\ (wburst # NoBurst => dq = <<>>)
                    /\ arq = <<>> /\ ~ReadWaiting

\* Words change hands where valid meets the ready of a receiver not paused.
Moved(stall) == {c \in Channels \ stall : chan[c].up /\ (kind = "axil" => LiteReady(c))}

\* The sender's next word goes up unless it is paused.
NextOnChannel(c, moved, held, added) ==
    LET rest == (IF c \in moved THEN Tail(chan[c].q) ELSE chan[c].q) \o added
    IN  [q |-> rest, up |-> rest # <<>> /\ ((chan[c].up /\ c \notin moved) \/ c \notin held)]

\* The master's two receivers.
MasterTakes(moved) ==
    /\ bq' = bq + IF "b" \in moved THEN 1 ELSE 0
    /\ LET beat == Head(chan["r"].q)
       IN  rq' = IF "r" \in moved THEN [rq EXCEPT ![beat.id] = Append(@, beat)] ELSE rq
    /\ UNCHANGED <<kind, cur_read_id, in_flight, wresp, result>>

AxiEdge(moved, held) ==
    /\ kind = "axi"
    /\ wq' = wq \o (IF "aw" \in moved THEN <<Head(chan["aw"].q)>> ELSE <<>>)
    /\ dq' = dq \o (IF "w" \in moved THEN <<Head(chan["w"].q)>> ELSE <<>>)
    /\ arq' = arq \o (IF "ar" \in moved THEN <<Head(chan["ar"].q)>> ELSE <<>>)
    /\ chan' = [c \in Channels |-> NextOnChannel(c, moved, held, <<>>)]
    /\ UNCHANGED <<rresp, asserted, mem, wburst, wst, waddr, rst, raddr, pos>>

LiteEdge(moved, held, readFirst) ==
    /\ kind = "axil"
    /\ LiteWriteStep(moved, readFirst) /\ LiteReadStep(moved) /\ LitePos(moved, readFirst)
    /\ chan' = [c \in Channels |-> NextOnChannel(c, moved, held, LiteAnswers(c, moved, readFirst))]
    /\ rresp' = Widened(mem')
    /\ UNCHANGED <<wburst, wq, dq, arq>>

Edge(stall, held, readFirst) ==
    LET moved == Moved(stall)
    IN  /\ Quiescent /\ UNCHANGED <<issued, answered, reads>>
        /\ MasterTakes(moved)
        /\ AxiEdge(moved, held) \/ LiteEdge(moved, held, readFirst)

\* A side is paused as a whole or on one channel; a pause matters where a word is
\* up, or could go up.
Pauses(where) == {{}, where} \cup {{c} : c \in where}
Orders == IF kind = "axil" /\ Seeks /\ wst \in {"seek", "data"} THEN BOOLEAN ELSE {FALSE}
Clock == \E stall \in Pauses({c \in Channels : chan[c].up}), readFirst \in Orders :
           \E held \in Pauses({c \in Channels : chan[c].q # <<>> \/ kind = "axil"}) :
              Edge(stall, held, readFirst)
FreeClock == \E readFirst \in Orders : Edge({}, {}, readFirst)

WriteAnswered ==
    /\ MasterWriteResp
    /\ answered' = answered + IF Head(wresp) = 1 THEN 1 ELSE 0
    /\ UNCHANGED <<ramVars, issued, reads>>

ReadCollected == MasterReadResp /\ UNCHANGED <<ramVars, issued, answered, reads>>

RamWorks ==
    /\ UNCHANGED <<issued, answered, reads>>
    /\ RamWriteStart \/ RamWriteBeat \/ RamReadBurst

Woken == WriteAnswered \/ ReadCollected \/ RamWorks

Next ==
    /\ ~asserted   \* a failed assertion ends the simulation
    /\ IssueWrite \/ IssueRead \/ Clock \/ Woken

\* The test lifts its pauses in the end; the simulator runs what it woke.
Spec == Init /\ [][Next]_vars /\ WF_vars(FreeClock) /\ WF_vars(Woken)

-----------------------------------------------------------------------------
(* Properties.                                                             *)

\* No assertion of the endpoints fails, whatever the test issues and pauses: no
\* burst crosses a page, and `last' marks the last beat of every burst.
NoAssertionFails == ~asserted

\* The values byte a may hold: that of the newest answered write that covers it,
\* or of a write after that one.
Newest(a) == LET done == {w \in 1..answered : Covers(issued[w], a)}
             IN  IF done = {} THEN 0 ELSE Max(done)
CouldHold(a) ==
    LET w == Newest(a)
        final == {i \in 0..issued[w].len - 1 : Place(issued[w], i) = a}
        later == {x \in w + 1..Len(issued) : Covers(issued[x], a)}
    IN  (IF w = 0 THEN {<<0, a>>} ELSE {<<w, Max(final)>>})
        \cup UNION {{<<x, i>> : i \in {y \in 0..issued[x].len - 1 : Place(issued[x], y) = a}} :
                      x \in later}

\* An answered write is in memory, byte by byte where it belongs, unless a later
\* write has replaced it; and no other byte of the memory has changed.
WriteLands == \A a \in DOMAIN mem : mem[a] \in CouldHold(a)

\* A read returns as many bytes as it asked for, each a value its location held
\* between the call and the answer.
ReadReturns ==
    /\ Len(result.data) = Len(result.may)
    /\ \A i \in DOMAIN result.data : result.data[i] \in result.may[i]

\* wait() returns when idle() holds, and then nothing is left anywhere: neither
\* side has a word, a response or a burst that belongs to an earlier command.
IdleMeansDone ==
    in_flight = 0 =>
        /\ wresp = <<>> /\ rresp = <<>> /\ bq = 0 /\ answered = Len(issued)
        /\ \A c \in Channels : chan[c] = [q |-> <<>>, up |-> FALSE]
        /\ \A i \in DOMAIN rq : rq[i] = <<>>
        /\ wburst = NoBurst /\ wq = <<>> /\ dq = <<>> /\ arq = <<>>
        /\ wst = "ready" /\ rst = "ready"

\* Every command is answered: wait() returns.
EventuallyIdle == in_flight > 0 ~> in_flight = 0

=============================================================================
