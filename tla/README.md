# TLA+ verification of 100G-verilog-RoCEv2-lite

The repository is a RoCEv2 requester in SystemVerilog: it turns a stream of data
into RDMA WRITE and SEND packets, keeps them until the remote side has
acknowledged them, and sends them again when it has not. Around it are the
Python scripts that control it from a PC, and the Python simulation library
(bundled under `src/lib/eth`) whose memory and frame endpoints its benches are
made of. This directory holds TLA+ models of all three, TLC configurations that
check them on small instances, and TLAPS proofs for every value of the
parameters. All paths below are relative to `src/rtl/` unless they start with
`src/`.

## The system

| part | state | operations | interacts through |
|---|---|---|---|
| retransmission engine `tx_engine/retransmission_module/RoCE_retransmission_module_v2.sv` | `wr_table`, `rd_table`, `cpl_table`, registered reset write | reset write on close and on OPEN, ACK to `cpl_table` | owns the tables the two modules below share; DMA engine, header RAM |
| write module `RoCE_rtr_write_module.sv` | accept FSM, descriptor and entry registers and FIFOs, flush flags | accept a header, queue descriptor and entry, announce on DMA status, flush | writes `wr_table`, header RAM, payload memory |
| read module `RoCE_rtr_read_module.sv` | scheduling FSM, timer sweep, per-queue-pair flags and counters | send next packet, rewind, decode ACK/NAK, time out, stall, ask for a close | reads the tables, writes `rd_table`; `stall_qp` to the producer; close request to the QP state module |
| QP state module `qp_state/RoCE_qp_state_module.sv` | QP contexts, request FSM | open, modify to RTS, close, error on a fatal NAK | pulses from the connection manager, close arbiter, ACKs |
| QPN pool `qp_state/qpn_fifo_init.sv` | FIFO of free QP numbers | allocate, return | connection manager |
| connection manager `connection_manager/` | master and slave FSMs, reply timer | open, modify, close, each by a UDP exchange | QPN pool, QP state module (through asynchronous FIFOs), network |
| work queue `RoCE_simple_work_queue.sv` | cached QP context, next PSN and address | accept a work request, refresh the cache | QP state module, header producer |
| header producer `tx_engine/RoCE_tx_header_producer.sv`, framer `axis_packet_framer.sv` | segmentation FSM | FIRST/MIDDLE/LAST/ONLY headers | work queue, arbiter in front of the engine |
| ACK receiver `rx_engine/RoCE_udp_rx_acks.sv` | header shift register | parse, filter | ACK FIFO to the engines |
| ICRC, UDP TX, realignment, wrappers, generators | stream data | serialise, checksum, wire together | |
| host scripts `src/Scripts/` | none between two runs; a socket and a request while one runs | open, modify, close, start a transfer; capture from a tap and judge it | connection manager over UDP; tap |
| memory endpoints `src/lib/eth/lib/axi/tb/axi.py`, `axil.py` | command and response queues, in-flight counter, memory | split a transfer into bursts, move beats on five channels, collect responses | the test, the bus |
| frame endpoints `src/lib/eth/tb/{eth,ip,udp,arp}_ep.py`, `src/lib/eth/lib/axis/tb/axis_ep.py` | header and payload queues, the beat on the wires | build and parse frames, checksums, send and collect on a header and a payload channel | the test, the wires |
| PHY endpoints `src/lib/eth/tb/{gmii,mii,xgmii,baser_serdes}_ep.py`, `baser.py` | current frame, gap counter, deficit idle count | put frames on the wires and take them off | the test, the wires |

What is hard in it: the three tables of the engine are written by four
independent actors on one clock (DMA completions, the scheduler, the ACK path
and the reset write), and read with a latency of several clocks; flags raised
by the timer sweep are tested in one state of the scheduler and used in another;
two FIFOs are tied together by order only; the network loses anything; retry
limits and timers must end every packet's life one way or the other; close and
open requests come from another clock domain at any moment. A script sends its
request before it can hear the answer, and takes whatever it hears for it. In
the simulation library several processes share a clock edge and wake one
another in an order the simulator chooses; each channel can be paused on its own.

What makes the parts correct: nothing unacknowledged is overwritten; what goes
out is what was accepted; pointers stay ordered; a lost packet costs one retry;
a connection is given up only without progress; nothing waits for ever; a packet
is announced only when it is stored; a QP number is never lost or held twice; a
closed queue pair sends nothing; success reported to a user is true of what the
user asked for; a capture called clean is whole; a write answered is in memory,
a frame sent arrives once and unchanged, and "idle" means that nothing is left.

## Modules

| module | models | lines |
|---|---|---|
| `RoceParams` | parameters, PSN arithmetic modulo `PSN_MOD`, slot addresses, stall thresholds, timer steps | constants of the three files |
| `RtrTables` | the tables, the write port with the reset write's priority, ACK to `cpl_table`, close/open | v2 297-379, 671-733 |
| `RtrWrite` | the write module, its FIFOs, header RAM and payload memory, the DMA engine as seen from it | write 176-460 |
| `RtrRead` | the read module: one operator per branch of the FSM, one per branch of the sweep | read 333-1014 |
| `RtrEnv` | external: producer, connection-manager pulses, DMA timing | |
| `WriteInv` | an edge of the write side, and the invariants that the engine and the write side by itself share | v2 381-465 |
| `WriteSide` | write module and tables alone, `Spec` and properties | |
| `RtrFacts` | lemmas that the proofs of the engine share: PSNs, FIFOs, the types of the write side | |
| `WriteSide_proofs` | its safety properties proved: the descriptor register, the two chains, the order of the packets, their headers | |
| `GoBackN` | abstract specification: the sender and responder of one connection as five counters | |
| `Retransmission` | the whole engine with network and remote responder; shown to implement `GoBackN`; properties | v2 381-586 |
| `Retransmission_proofs` | its type invariant, and theorems about timeouts and retry counters | |
| `Retransmission_pointers` | the order of the pointers of one connection proved | |
| `Retransmission_data` | the headers in the RAM and the refinement of `GoBackN`, proved for one connection | |
| `CmParams` | QP numbers, clients, the fields of a request the FSMs look at | |
| `QpnPool` | the pool of free QP numbers: FIFO, its output register, the fill at reset | `qpn_fifo_init.sv` |
| `CmSlave` | the FSM that serves requests from the network | `udp_RoCE_connection_manager.sv`, slave part |
| `QpState` | the QP state module: contexts, request FSM, error path | `RoCE_qp_state_module.sv` |
| `QpLifecycle` | abstract specification: what a queue pair number goes through, and one at a time | |
| `ControlPlane` | the three above on their two clocks, the FIFOs between them, clients and faults; shown to implement `QpLifecycle`; properties | `stack_wrappers/` |
| `ControlPlane_proofs` | its type invariant, its safety properties and the refinement proved | |
| `HostSession` | the control scripts on two PCs, a network that loses datagrams, the FPGA as `QpLifecycle` driven by requests | `send_connection_info.py`, `Decode_tap_data.py` 507-521 |
| `TapStream` | the capture and the verdict on it | `Decode_tap_data.py` 233-553 |
| `HostScripts` | either of the two | |
| `HostScripts_proofs` | what the users are told proved true | |
| `AxiTransfer` | bursts, beats, lanes and strobes of a transfer, as functions | `axi.py`, `axil.py` |
| `AxiMaster` | the processes of AXIMaster and AXILiteMaster | `axi.py`, `axil.py`, first half |
| `AxiRam` | the processes of AXIRam and AXILiteRam | `axi.py`, `axil.py`, second half |
| `MemBench` | a master and a RAM on one bus, a test that issues and pauses; properties | |
| `NetFrames` | frames, headers, padding and checksums of Ethernet, ARP, IP and UDP: build and parse | `eth_ep.py`, `ip_ep.py`, `udp_ep.py`, `arp_ep.py` |
| `AxisEndpoint` | AXIStreamSource and AXIStreamSink | `axis_ep.py` |
| `BaseR` | the 64b/66b code: eight XGMII characters as a block and back | `baser_serdes_ep.py`, `baser.py` |
| `PhyEndpoint` | sources and sinks for GMII, MII, XGMII and BASE-R | `gmii_ep.py`, `mii_ep.py`, `xgmii_ep.py`, `baser_serdes_ep.py`, `baser.py` |
| `FrameBench` | the header channel of every layer, a source and a sink on one set of wires, a test; properties | |
| `FrameBench_proofs` | the interframe gap proved | |

In the engine a step is one clock edge. All parts advance together, reading unprimed
registers as non-blocking assignments do; what the code registers is a variable,
what it computes combinationally is an operator. Nondeterminism is only in the
inputs of an edge: whether a packet is offered, whether the DMA engine takes or
completes a descriptor and with which status, whether an ACK has arrived, which
`ready` is up, and what the connection manager asks for. Data is reduced to what
tells packets apart: a header or a payload is the PSN it belongs to, so "the
slot still holds packet p" is `mem[q][SlotOf(p)] = p`.

Correspondence of the main state: `tmr[q]` collects the sweep's registers of
queue pair q (`qp_timed_out_reg`, `qp_psn_error_reg`, `qp_rnr_wait_reg`,
`qp_rnr_wait_done_reg`, `qp_error_reg`, `psn_nak_reg`, `timeout_counter`,
`rnr_counter_reg`); `close_req` is `m_qp_close_valid_reg` with its number;
`s_wr`, `s_rd`, `s_cpl` are the table outputs, which hold between reads;
`dma_desc`, `wr_entry` are the registers in front of `dma_write_command_fifo`
and `write_table_entry_fifo`; `dma_busy` are the descriptors inside `axi_dma`.
`conn`, `np`, `epsn`, `ackq` belong to the environment.

`Retransmission` implements `GoBackN`, one sender per connection: `accepted` is what the
producer has numbered (`np`), `stored` and `acked` are `wr_table` and `cpl_table` counted
from the PSN of the OPEN, `received` is what the responder expects (`epsn`), and `sent` is
`rd_table`, or the PSN on its way there, since a launched packet reaches the responder
a clock before the table is written (`LastSent`). Between the OPEN and its reset write the
tables hold 24'hff_ffff and nothing counts (`Running`). An edge of `GoBackN` moves each
counter by its own rule and several at once, because the machines of the engine share
the clock; what it rules out is a counter that jumps, a packet sent before it is stored or
taken before its turn, a rewind beyond what is acknowledged or further back than a window,
and an acknowledge of what was not received. `GoesBackN` is `Sender(q)!ConnSpec` for every
connection, with the quantifier inside the box, where TLC can evaluate it.

The control plane has two clocks, and a step is an edge of one of them:
`StackClock` moves the connection manager and the pool, `EngineClock` the QP
state module, in any interleaving. A request or a status crosses through an
asynchronous FIFO and is offered to the reader for one edge, `CROSSING` edges of
the reading clock after it was written: the wrapper connects no `ready`, so a
request that meets a busy FSM is gone. `lost` remembers that this happened.
Registers are cleared in the model when the code will not read them again
before writing them (`ptr`, `req_type` and the peer on the return to IDLE,
`cm_req` outside MODIFY_QP, the returned number when its valid is down, the
acknowledge type once the reply has left); this merges states that behave alike.
Clients wait neither for one another nor for a reply to be taken: a request is possible at
every edge at which the slave FSM is idle, and one that is taken overwrites the fields of
a reply that has not left (connection manager 383, 418-440, 462-489); a request of an
unknown type drops that reply. So `AckTruthful` is about the edge at which the
connection manager acknowledges, not about the reply register later on. What is
assumed of the surroundings are named operators of `ControlPlane`:
- `Naks`, `Closes`, `CloseTimely`: a fatal NAK or a close by the retransmission engine
  concerns a queue pair that has been opened; with `LateFaults = FALSE` it is still
  open when the fault is served. `late_fault` drops the second half.
- `MaySend`: only where there are late faults, a client sends when nothing is under way
  (`NothingUnderWay`), because after such a fault an OPEN may be answered twice, and the
  second status would be taken for the answer to the next request.

`ControlPlane` implements `QpLifecycle`: `LifeOf` reads the stage of a number off
the pool, the request in service and the QP context, and `KeepsLifecycle` is the
abstract specification under that mapping. `HostSession` extends the same
`QpLifecycle` and lets requests drive it, so what the scripts rely on is what
`ControlPlane` is shown to keep.

`HostSession` has one action per thing a script does (`request_qp_info`,
`modify_qp_rts`, `close_rem_qp`, `send_txmeta`, `Bind`, `Deliver`), per way the
FPGA treats a request (taken, ignored while busy, refused with the fields of the
reply before, dropped by the QP state module) and per loss. A script passes a number of
its own or one out of range, as its default 0x11 is (`Passed`). `Drop` is the request
pulse that the QP state module does not take: the number is out of range, or a fault or
an update comes in the same clock (QP state 304-357); the connection manager then stays in
MODIFY_QP for the rest of the behaviour and answers nobody. `gone` and `astray` are history:
they say that the answer to a script cannot come any more, and that some datagram
missed the one it was for.

`TapStream` chooses a message, lets its packets arrive, be damaged, truncated,
dropped or begun again among other traffic, and evaluates `decode_Roce_stream` on
what was captured.

In the benches a step is a clock edge, or one of the processes it woke going on
to its next wait. `MemBench` keeps a channel as a queue and the wire it drives
(`chan[c]`), `in_flight` as the counters behind `idle()`, and a byte as the pair
of command and offset it came from, so that a byte in the wrong place cannot look
right. `FrameBench` keeps real bytes, since the checksums are about them, and lets
the processes that meet at an edge run in either order.

Abstractions worth knowing:
- the header RAM's read pipeline is a wait of `HDR_LATENCY` clocks, its content
  sampled at the end of it;
- the output FIFOs of the read module appear as their `ready`; a launched packet
  reaches the responder, or is lost, at its launch, and its response takes any
  time to come back, which covers the transit in both directions. With backpressure
  this lets a response arrive earlier than any real one could;
- the responder decides by the header, which is latched at the launch. The payload
  follows by a DMA read at a later edge, and no property but `UnackedStored` speaks of
  it: that a slot is never written while its packet is unacknowledged;
- `ackq` holds at most `MaxAcks` responses; more are lost;
- the total-retry and monitoring counters are left out, nothing reads them;
- the `else` branch at write 240 cannot be reached, because RETH and IMMDH
  ready are the same register as BTH ready;
- a queue pair is opened once in a behaviour, and only after its idle timer, and
  those of the queue pairs that are never opened, have been reloaded (`AtRest`,
  `Quiet`): an OPEN takes a message exchange, the sweep a clock per queue pair. So
  a reopened queue pair receiving ACKs of its former life, and an OPEN within the
  first sweep after reset, are outside these models.

## Runs

| run | instance | result |
|---|---|---|
| `rtr_loss` | one connection of 5 packets across the PSN wrap, any packet or ACK lost | 5 properties hold |
| `rtr_naks` | 2 packets, responder may also answer RNR NAK, sequence NAK, fatal NAK, output FIFOs busy at will | `RnrRetryBounded` holds |
| `rtr_live` | 3 packets, fairness | `Settled`, `StallReleased` hold |
| `write_side` | two queue pairs, 5 packets each, descriptor FIFO of 1, DMA with any delay and errors, a close | 5 properties hold |
| `control_plane` | 2 QP numbers, 2 clients sending at any time, `CROSSING = 2`, faults of open queue pairs at any time, fairness | 5 properties hold, `KeepsLifecycle` among them: the refinement |
| `host_scripts` | 2 PCs, 2 QP numbers, 3 scripts, 1 loss, requests dropped by the FPGA; or a message of up to 4 packets, 5 frames captured, 2 faults | 5 properties hold |
| `mem_bench` | AXI and AXI-Lite, bus of 2 bytes, bursts of up to 3, page of 8, memory of 16 bytes, 2 commands, any pauses | 5 properties hold |
| `frame_bench` | twelve layers, 3 frames, any pauses and process orders, a reset on four of the layers | 6 properties hold |
| `buffer_overrun` | one connection of 24 packets in 16 slots, no response arrives | `UnackedStored` fails |
| `two_queue_pairs` | two connections | `PointersOrdered` fails |
| `flush_misaligned` | producer of a closed queue pair sends on | `AnnouncedStored` fails |
| `late_fault` | the control plane, faults may arrive after the close | `PoolSound` fails |

What the properties say is in the comment above each. In short: `rtr_*` and
`write_side`, packets are announced, sent and settled as they should;
`control_plane`, no number is lost, held twice, or skips a stage, a reply is true
and comes; `host_scripts`, with nothing gone astray the user's picture is the
FPGA's (`UserKnows`, `SuccessTruthful`), a script blocks only if its answer cannot
come, because something was lost, misdirected or dropped (`ScriptEnds`), and the
verdict on a capture is right in both directions (`CleanMeansWhole`,
`IntactAccepted`); `mem_bench`, bytes land and come back,
`idle()` means done, every command ends; `frame_bench`, frames come out as they
went in, checksums hold for a receiver that adds them up, the interframe gap is
kept, every frame arrives.

Bounds and why they suffice. `PSN_MOD` is 16 (8 on the write side, 64 in
`buffer_overrun`), a multiple of `SLOTS` and `HDR_SLOTS` as 2^24 is; connections start
two below the wrap, except in `buffer_overrun`, so each run crosses it. `rtr_loss` has 8
slots, of which `STALL_MARGIN` leaves 4 before the producer is held back. The
smaller runs have 4 and no margin, `buffer_overrun` has the code's margin of 6 in 16.
`retry_count` is 1, and 0 in `rtr_naks`, and `rnr_retry_count` 1, so that both limits are
reached in few rounds. `timeout_period` (12, 16 or 24 clocks) is longer than one round
of the scheduler and shorter than the longest delay of an ACK, so a timeout races both a
late ACK and its own retransmission. `COUNTER_MOD` stands for 2^32. `MAX_QPS = 2` is the
smallest value the code allows; in the one-connection runs the second queue pair stays
idle but takes its turns in both round robins. `MaxPkts` bounds a connection, `MaxAcks` the
responses in flight. On the write side 5 packets go through 4 header slots, and the
entry FIFO of 4 is one deeper than a descriptor FIFO of 1 and a DMA engine that holds 2.
In the control plane two numbers and two clients are the least with which a
number can be taken while another is returned, the pool can be empty, and a
reply can go to the wrong client. `N_QUEUE_PAIRS` has to be a power of two, as
the pool's FIFO depth has to be. `CROSSING = 2` is the two synchroniser stages
of the asynchronous FIFO, and it matters: the two crossings of a request give
the pool the time to be ready for the next returned number.

`MaySend` is what the code asks of a producer: its queue pair is not stalled and the
engine is ready. `WithinWindow` is what an application may do on its own: leave fewer
than `Window` packets unacknowledged. Every run has `Window = PSN_MOD`, which assumes
nothing; two theorems assume less ("One connection").

For the scripts, three commands are an OPEN, whatever a second PC does in
between, and a CLOSE; with two numbers a third OPEN is refused. `PMTU = 8` with
tails of 4 and 8 tells a short last packet from a full one; four packets have a
first, two middles and a last; a message from PSN 5 modulo 8 stays below the wrap
with up to three packets and crosses it with four; five frames leave room for a
message begun again. In `mem_bench` the addresses 2 and 7 and lengths 1 and 4 are
aligned and unaligned transfers, within a beat, over several, split by the page
and by the burst limit, narrow (1 of 2 bytes) and full; two commands are what it
takes to have responses of two in flight. In `frame_bench` payloads of 1 and 20
bytes with padding of 3 give odd and even checksum words and frames of one and of
several beats; the test's fields make the first fold of both checksums carry.
Three frames back to back are two gaps. The lengths 1, 3, 4, 6 and 8 on XGMII and
BASE-R put the terminator in each of the eight lanes, behind a start in lane 0 and
in lane 4, and let the deficit idle count grow and be paid. The meter of `GapKept`
counts from the end of a frame as a receiver sees it. The second frame is a bad
one; on BASE-R the block with its error character arrives as all control, and
`Delivered` asks that the frame still ends as a bad one, less than a block early.

Fairness. `WF_vars(Next)`: the clock runs. `WF_vars(HandOver(TRUE, TRUE))`: a
full output FIFO drains in the end, since the Ethernet side does not block for
ever. `WF_vars(CloseTaken /\ Next)`: the arbiter in front of the QP state module
grants a request in the end; it is round robin. In `rtr_live` the FIFOs and the arbiter are
always ready, so the last two add nothing there: with backpressure and more than one
packet the liveness check did not finish in the time a run has. In `control_plane`,
`WF_vars(StackTicks)` and `WF_vars(EngineTicks)`: while a request or its status is on the
side of one clock, that clock ticks, which is all that `Answered` needs of two clocks
that never stop. Nothing is assumed of the network: the liveness properties hold if every packet
is lost. `SessionFairness`: a datagram that is not lost arrives, the connection manager serves what it took,
a started script reaches its `bind` and takes what reaches its socket; nobody has
to start a script or to interrupt one. In the benches `FreeClock`: the simulator
goes on, and there are edges at which the test pauses nobody; the benches lift
every pause in the end; `Woken`: the simulator runs the processes an edge woke.

What the four violations show:
- `buffer_overrun`: `stall_qp` is raised when too much is unacknowledged, but COMPARE
  lowers it whenever `wr_table = rd_table` (read 561), before it looks at what is
  unacknowledged (comment at read 583). While no response arrives, the producer is let on
  each time the engine has sent what it has, and in the end writes over the slot of
  a packet that would have to be sent again. So nothing in the engine keeps the buffer
  from being overrun, only the application does, if it waits for acknowledges.
- `two_queue_pairs`: CHECK_TIMEOUT sees a timeout of one queue pair; an ACK of
  that queue pair is decoded in the next clock and lowers the flag;
  UPDATE_RD_TABLE (read 490-516) raises the write enable all the same, and the
  PSN register still holds what was last written for the other queue pair.
- `flush_misaligned`: write 214 drops the entry but not the descriptor, so the
  two FIFOs are off by one from then on.
- `late_fault`: a fatal NAK that arrives after a CLOSE moves the reset context to
  ERROR; a repeated CLOSE is then accepted and returns the number to the pool a
  second time, so that two clients can be given the same queue pair.

## Found while modelling

Seen with other constants of the same modules; each can be had again from the cfg
named, with the changes given.
- Tables after a close: the reset write of a connection-manager close (v2
  333-345) happens once; a scheduler write, a DMA completion or an ACK after it
  leaves the three tables different, against the comment at v2 318. `RtrLoss`
  with `ClosableQPs = {0}`, `MaxPkts = 2`, and an invariant that the tables of a
  closed queue pair are equal.
- Retry limit: the NAK path (read 952) uses the literal 7, the timeout path (read
  451) tests equality with `retry_count`. `RtrLoss` with `MaxPkts = 2` and
  `Responses = {"ACK", "PSN_SEQ_NAK"}` violates the bound `RetryBounded` of
  `Retransmission_proofs`.
- RNR NAKs without end: an RNR NAK for packet p notes p, whatever `cpl_table` is. If the ACK
  of p-1 was lost, COMPARE takes that for progress (read 545-550) and clears the
  counter of RNR waits each round, so a responder that stays not ready is waited for for
  ever: `RtrLive` with `Responses = {"ACK", "RNR_NAK"}` violates `Settled`.
- Entry FIFO: the FSM never tests its ready (write 186). It has 8 places, as the descriptor
  FIFO, and the status FIFO of `axi_dma_wr` has 32. `WriteSide` with `ENTRY_DEPTH` 1
  or 2 violates `AnnouncedStored`: an entry is overwritten and the FIFOs are off by one.
- AXI-Lite RAM: `write_logic` seeks the one memory object and then waits for the
  data; a read in between moves the position (`axil.py` 475). `MemBench` with
  `OVERLAPS = {"axi", "axil"}` violates `WriteLands`.
- Scripts: `Decode_tap_data.py` 519 passes `freq`, which `send_txmeta` does not
  have, so the script dies with the queue pair open; `exp_psn` is not reduced
  modulo 2^24, so an intact message across the wrap is reported as wrong; the
  length check of WRITE_LAST_IMD reads the opcode of another object and never
  compares; SEND_MIDDLE and SEND_LAST_IMD lengths are not counted; the timeout of
  the capture is tested only after `recv`, which may block for ever; the number in
  a refusal is used whatever the ack code.
- Endpoints: the Ethernet sink has no check that all payloads met a header (those
  of IP and UDP have); the `idle()` of the header layers ignores `header_queue`,
  harmless as `IdleMeansSent` shows; a one-byte GMII frame sets no gap and merges
  with the next; the XGMII sink does not look for control characters in the first
  word of a frame; AXIMaster splits a wrapping transfer at a page boundary.
- BASE-R endpoints: `wait()` of the cocotb source (`baser.py` 138) returns in the
  first interframe gap, whatever is still queued, since `idle_event` is set on
  every clock without a frame (328). Its table of control codes (230) is applied to
  data bytes too, so that a bad frame whose last block begins with a byte such as
  0x07 ends in that control character instead of an error (the MyHDL source, 197,
  codes data as errors). An ordered set in lane 0 alone is encoded with the codes
  of the wrong lanes (271 in both files) and decoded as a sequence ordered set
  whatever it was (`baser_serdes_ep.py` 555, `baser.py` 555). No frame of the tests
  has one of the last two.

Known to fail outside the runs. With two active queue pairs a close request can be
lost, as there is one request register (read 424). `GivesUpWithoutProgress` fails
when backpressure outlasts `timeout_period`. In the control plane: the error reply to an
OPEN with an empty pool, or to a CLOSE out of range, is addressed to the client served
before (connection manager 454, 528); a reply that has not left is overwritten by the
next request, so its client never hears; a close request of the engine is consumed
by a fatal NAK of another queue pair in the same clock (QP state 690); a request dropped
by the QP state module, which a MODIFY with a number out of range always is, leaves the
slave FSM in MODIFY_QP. Two plain OPENs leave two queue pairs in RTS, although a
comment (QP state 247) speaks of "only one qp in RTS": the workaround watches MODIFY
requests only. Misdirected replies are why `AckTruthful` is about ACKs, and `lost`
sets apart the requests that were dropped.

## Proofs

All theorems hold for every value of the constants that satisfies the assumptions
declared with them: `MAX_QPS >= 2`, a PSN space no smaller than the buffer, any depths,
timers and packet counts in the engine; `N_QUEUE_PAIRS` a power of two, any
clients and `CROSSING >= 2` in the control plane; any number of PCs, scripts and lost
datagrams; any number and length of frames. `TypeCorrect` (`Spec => []TypeOK`) is
proved of `WriteSide`, `Retransmission` and `ControlPlane` without further conditions.
Every inductive invariant below was checked with TLC on the instance of its run before
it was proved.

### Write side (`WriteSide_proofs`)

Every safety property of `write_side` is proved:
- `DescriptorsHeld`: `Spec => DescriptorHeld`; no descriptor is overwritten.
- `AnnouncedAlwaysInOrder`: `Spec => []AnnouncedInOrder`; no announcement moves
  `wr_table` back. Neither theorem has a condition.
- `AnnouncedOnlyStored`: `Spec => []AnnouncedStored`, if `~StaleProducer` and
  `DMA_OUTSTANDING + DESC_DEPTH < ENTRY_DEPTH`.
- `AnnouncedWithHeader`: `Spec => []AnnouncedHeader`, if in addition
  `DMA_OUTSTANDING + DESC_DEPTH < HDR_SLOTS` and `HDR_SLOTS` divides `PSN_MOD`.
- `ChainHolds`, `InvHolds`: the inductive invariants `ChainInv` and `Inv` behind them.

The conditions are the ones under which the code is right, and none of them is about the
producer, who may send whenever the FSM is ready. `flush_misaligned` violates the first.
The second is about three depths: the FSM stops when the descriptor FIFO is full
and looks at nothing else (write 186), so the entry FIFO has to be deeper than the
descriptor FIFO and the DMA engine together. The depths in the repository are not
("Found while modelling"): with them the theorem holds only if the DMA engine keeps fewer
descriptors than it could. The third is the same for the header RAM, and a
number of slots that does not divide the PSN space would give two packets on either
side of the wrap one slot. The first argument is the inductive invariant `ChainInv`,
whose parts are
- `ReadyMeansFree`: ready is up only while the descriptor register is free, so
  an accepted header never replaces a waiting one;
- `FlushedClosed`: a flushed queue pair is closed, so without a stale producer
  every accepted header queues a descriptor and an entry;
- `Aligned`: the chain of descriptors (DMA engine, FIFO, register) and the chain
  of entries (FIFO, register) hold the same packets in the same order. Hence the
  head of one is the head of the other when a status arrives, which gives
  `AnnouncedStored`. With `FifosFit`, the descriptor chain within the depths of its own
  two FIFOs, the entry FIFO then always has a place for the entry offered to it.
None of the three implies its own preservation without the others, and
`AnnouncedStored` alone says nothing of what is still queued. The proof has one
lemma per part and edge (`ReadyEdge`, `FlushEdge`, `AlignedEdge`, `StoredEdge`)
over lemmas on FIFOs (`HeadTail`, `ConcatHeadTail`, `Chain`).

The second is `OrderInv`, over the count of a PSN from the first of its connection:
- `EntriesOrdered`: the announcement, the entry FIFO and the entry register hold the
  packets of one queue pair by ascending count, all below the producer's next number.
  An entry that is overwritten or flushed leaves a gap, never a disorder;
- `Numbered`: the producer's count never reaches the wrap of the PSN space, and is
  zero until the OPEN;
- `TableBehind`: the successor of `wr_table` is at most everything that waits. At an
  OPEN this holds one edge later only, since the reset of the tables is registered:
  until then the producer has numbered nothing.

`Inv` adds to both `WithinReach`, the packets under way are the last ones the producer
numbered, hence fewer than `HDR_SLOTS` apart, and `HeadersHeld`, their headers are in
their slots. `SlotsApart` is where the wrap matters: two counts less than `HDR_SLOTS`
apart have different slots (`DistinctMod`). TLC checks `Inv` in `write_side`.

`JoinedAssoc` is the associativity of the chains on which `AlignedEdge` rests,
stated once so that no leaf has to find it among its other facts.

### Timeouts and retries (`Retransmission_proofs`)

- `ServedOnlyOnce`: `Spec => []ServedOnce`; one timeout or sequence error starts one
  retransmission, with any number of queue pairs and any responder.
- `RnrRetriesBounded`: `Spec => []RnrRetryBounded`, likewise.
- `RetriesBounded`: `Spec => []RetryBounded`, if the responder sends neither sequence nor
  RNR NAKs. No run checks this bound, as it is false of the whole code. The condition is
  the code's: a sequence NAK is granted a rewind by comparison with the literal 7 (read 952), and the rewind at the end of an RNR wait
  is not compared with `retry_count` at all.

Two machines share the flags of a queue pair: the scheduling FSM tests them in
CHECK_TIMEOUT, acts on them two states later and raises `qp_started_retrans`; the
sweep visits one queue pair per clock, lowers the flag where that bit is up, and may
raise others meanwhile. Nothing orders the two but their pace. `Far(q)` counts the
edges the FSM needs at the least before it can check q again, `Near(q)` those before
the sweep is at q. The first falls by at most one per edge (`FarStep`), the second by
exactly one (`NearStep`), and right after the FSM has acted on q, `Far(q)` is `MAX_QPS`
and `Near(q)` less. So `FlagServed` (a served flag has `Far > Near`) is inductive:
the sweep lowers the flag before the FSM is back. `ServedOnce` is its consequence
where the FSM acts, and not inductive by itself: it says nothing of the queue pairs
the FSM is not at. `WaitServed` is the same argument for the RNR wait, which lets the
RNR counter pass its limit by one and not by two. For the retry counter `RetryLeft`
carries the comparison with `retry_count` from CHECK_TIMEOUT to the state that counts.

### One connection (`Retransmission_pointers`, `Retransmission_data`)

- `PointersStayOrdered`: `Spec => []PointersOrdered`.
- `EngineGoesBackN`: `Spec => GoesBackN`, the refinement of `GoBackN`.

Any packet or response may be lost, delayed or answered by a fatal NAK, the connection
may be given up or closed at any moment, and the PSN wraps wherever it likes. The
conditions of the first:
- one active queue pair, `ActiveQPs \subseteq {a}`. `two_queue_pairs` violates the
  property with two: the register behind `rd_table` then holds a PSN of the other;
- no RNR and no sequence NAK. A sequence NAK rewinds to a PSN the responder names,
  and an RNR wait to one that was noted before the wait;
- `~StaleProducer`, as on the write side;
- `Window < HDR_SLOTS` and `HDR_SLOTS` divides `PSN_MOD`: the application leaves fewer
  packets unacknowledged than the header RAM has places, so the header found at a launch is
  the one that was asked for. `stall_qp` should see to that and does not
  (`buffer_overrun`), so it is an assumption on the application. Nothing is said here, or
  proved anywhere, of the payloads;
- `~CounterOut(timeout_period)`: a timer that was just loaded has not run out.

The second also assumes that DMA writes succeed and that `Window <= ENTRY_DEPTH`: the
order of the two FIFOs, which `AnnouncedOnlyStored` has from their depths, is had here from
the packets there can be. `rtr_loss` checks both properties without a window and with an
entry FIFO of 4, on connections too short to run into either condition.

`PointerInv` counts packets from the OPEN: W stored, R sent, C acknowledged, E what the
responder expects, N what the producer has numbered. `Bounds` is C <= E <= W <= N,
R <= W, E <= R + Window, N <= C + Window; it implies `PointersOrdered` and is not inductive
alone, since every one of the five is moved by a different machine from a copy that is
some clocks old:
- `AckOrder`: responses on their way are in order, between C and E;
- `ReadFits`: what the FSM has read of the tables is still what it may act upon when it
  launches or rewinds, though an ACK or an announcement may arrive in between;
- `RdFits`, `RdUnused`: UPDATE_RD_TABLE may raise the write enable after an ACK has taken
  the reason of the rewind away, with the PSN that the register happens to hold. With one
  connection that PSN still fits, or no ACK can have come yet;
- `RewindKept`, `TimedOutIsOut`, `ClosedServed`: a rewind has a reason, and the sweep is
  faster than the FSM (`Far` and `Near` again);
- `OthersUnused`, `OthersRest`, `OpeningClean`, `FreshStart`: nothing interferes before the
  reset write of the OPEN has reached the tables;
- `EntriesOrdered`, `Numbered`, `TableBehind`, shared with the write side.

`DataInv` adds `Consecutive`, the packets under way are the last ones the producer has
numbered, without a gap, and `Stored`, the headers of the packets from C to W are in their
slots. With `Bounds` this puts every header that is written less than the length of the RAM
from every one that is kept in it, so no slot of a kept header is written (`SlotsApart`).

The refinement needs no further invariant: its steps follow from `DataInv` before and after the edge
(`SenderStep`, one case per stage of the connection; `RunningIsEdge` for the open one).
`SentMoves` is where a rewind is shown to be one: the PSN that UPDATE_RD_TABLE writes is
that of the copy of `cpl_table`, which lags behind the table by no more than `ReadFits` allows,
or, when an ACK has lowered the flag since CHECK_TIMEOUT, what the register still holds,
which `RdFits` shows to be `rd_table` itself, so that the write changes nothing.
`TakenInTurn` needs the data: that the responder takes exactly the packet the counter `sent`
stands at holds because the header found in the RAM is the header of that packet (`Stored`).

### Control plane (`ControlPlane_proofs`)

- `TypeCorrect` includes that the crossing FIFOs, whose ready nobody looks at, never
  overflow. `TypeInv` adds what makes this inductive: `Load`, the statuses which all
  that is on its way may still cause plus those on their way back, is at most two, since
  the slave FSM has one request under way and an OPEN may be answered twice (after a late
  fault, and then nobody sends between the two answers: `MaySend`).
- `PoolAlwaysSound`, `AcksTruthful`: `Spec => []PoolSound`, `Spec => AckTruthful`.
- `RefinesLifecycle`: `Spec => KeepsLifecycle`, the refinement of `QpLifecycle`.

The last three assume `~LateFaults`; `late_fault` shows that the first of them is
false otherwise. `Inv` has these parts. `Distinct`: no number is in two places of the
pool. `Handshake`: a returned number meets a pool that is ready for it, and the FIFO,
which is full at reset only, has room. `OneRequest`: a request or its answer is in one of the
five places it can be, and the QP state module serves what the connection manager
remembers. `ReplyFits`: the reply in preparation belongs to that request. `FreshRead`:
the context that was read is still what it was when it is written back. `InHands`: a
reset number that is not in the pool is the one in the request, granted or taken
down. `Progress`: how far its queue pair is, at each place of the request.
`PoolSound` fails to be inductive because it says nothing of the request that is about
to return a number; `AckTruthful` is about one edge and needs what `OneRequest` and
`Progress` say of the status on its way there.

For the refinement, one lemma per clock says which of four moves an edge makes
(`StackMoves`, `EngineMoves`), and one how that changes a number's stage
(`StackLife`, `EngineLife`): an OPEN that is granted is `Grant`; its success in
UPDATE_CONTEXT, from RESET to INIT, is `Establish`; ERROR_QP on a queue pair in INIT or
RTS is `FailQp`; the CLOSE in UPDATE_CONTEXT is `TakeDown`; the ACK of a close, when the number
starts back to the pool, is `Return`; every other edge of either clock is a stutter.

### Host scripts (`HostScripts_proofs`)

- `UserAlwaysKnows`: `Spec => []UserKnows`; `SuccessAlwaysTruthful`:
  `Spec => SuccessTruthful`. The one assumption is that "no client" is not a client.

`SessionInv` says, as long as no datagram has missed the one it was for, where the only
request of a PC is and what its user therefore does not know yet: `Idle`, no script runs
and the user's note is what the FPGA holds for the PC; `Asked`, the request is on its way
to the FPGA, alone among datagrams nobody answers; `Served`, the FPGA is at it, and a CLOSE
may have taken the queue pair already; `Answered`, the one reply is on its way, and the
FPGA's view is the user's note with that reply applied (`Truthful`). `UserKnows` alone
speaks of the moments at which nothing is on its way, so it cannot be inductive.

### Interframe gap (`FrameBench_proofs`)

- `GapAlwaysKept`: `Spec => []GapKept`, if no frame on the sources with lanes is empty
  behind its start delimiter (a bad one would lose its start in the block of its error).

A source with lanes lets a frame begin up to three characters early and notes them in
`deficit_idle_cnt`; the property bounds what a receiver misses over all frames together.
`LanedGap`: between two frames (`BetweenFrames`) the idles seen since the last one and those
the source still owes make up for the standard gap and for all that was missed before;
within a frame (`WithinFrame`) no more has been missed than the deficit notes. What a
receiver sees of a word is the subject of `ShownStart`, `ShownMiddle` and `ShownEnd`: it sees
the start of a frame in lane 0 or 4 and nowhere else, and at the end of a frame at least
the idles the source counts. At least, since on BASE-R the block of an error character
is lost, so the frame ends early, even one block before its terminator; and
since the three sources count differently (`EmitSent`, `SerdesSent`, `BaserSent`). On GMII
and MII `LineGap` is the simpler statement that nothing is missed at all.

### What stays with TLC

- Liveness under fairness in every module, which is out of the prover's reach.
- `GivesUpWithoutProgress`, which compares the duration of a round with a timer.
- What a function over data computes for every input needs induction over the data, which
  is out of reach too: `ChecksumsHold` and `Delivered` (the folds of `NetFrames`, the
  parsers), `CleanMeansWhole` and `IntactAccepted` (the verdict folds over the capture),
  `WriteLands` and `ReadReturns` (the bursts of `AxiTransfer`).
- `NoAssertionFails`, `IdleMeansSent` and `IdleMeansDone` of the benches are not proved.

## Not modelled

Reset during operation of the engine, the first version of the retransmission
module, the clock-domain crossings other than the two of the control plane, the
connection manager's master FSM, the read and spy ports of the QP state module
and the context fields beyond state and peer, ICRC and header layout, and the
parts listed as planned below. `PROJECT.json` gives the status of each.

Of the scripts: `send_qp_info`, which nothing calls, the value of the ICRC (a packet's is
right or wrong), `Send_pause_frame.py`, the generators of wrappers. Of the memory
endpoints: `read_mem`/`write_mem`, a latency of the AXI-Lite RAM other than 1,
write ids (nothing compares them), bursts AXI forbids. The polling of
`write_resp_logic` is over-approximated: it may notice its responses at any later
edge; so is the order in which read bursts interleave. Of the frame endpoints:
FCS variants, `tid` and `tdest`, explicit `tkeep`, empty payloads (an IndexError
in the code), a reset in the middle of a run on the layers with a header channel,
which loses the pairing of headers and payloads. Of the PHY endpoints:
`enable_dic` off, `force_offset_start`, `clk_enable`, frames shorter than a
preamble, RGMII (a register in front of GMII), and of BASE-R ordered sets,
scrambling, bit reversal, `slip`, `idle_event`, queue limits and `clear()`. The
scrambler's state would tell apart every number of idle clocks between two frames.
The PTP clocks are fixed-point arithmetic; the scripts of the example boards print register tables; the
dissector displays fields.

Hazards of the RTL outside these models, at the line where they bite: a second
queue pair asks for a close while the only request register is taken (read 424);
a reset write takes the table port from another queue pair's write (v2 373); an
ACK of an earlier connection after a reopen (v2 712); the work queue's cached RTS
(`RoCE_simple_work_queue.sv` 282); a late reply taken for the next one (connection
manager 768), a duplicated OPEN (771), a refused OPEN whose number is not returned
(789); an ACK for a queue pair nobody owns blocks its FIFO
(`RoCE_stack_wrapper.sv` 1660); an ACK with a wrong ICRC goes on
(`RoCE_udp_rx_acks.sv` 369); a header counted as sent on `ready` alone
(`RoCE_tx_header_producer.sv` 508); `s_qp_close_ready` in ERROR_QP (QP state 690).

## Plan

1. The order of the pointers and the refinement of `GoBackN` with a responder that sends
   sequence NAKs, which needs a bound on the PSN they name.
2. The connection manager's master FSM with its reply timer, against
   `ControlPlane` over a lossy, duplicating network: the states of the two ends
   agree after a successful exchange, a request is answered or times out.
3. `WorkQueue`, `HeaderProducer`: PSN and address bookkeeping across
   segmentation against a reference definition; the stale cache after a close,
   composed with the write side in place of `StaleProducer`.
4. `RxAcks` and the close and packet arbiters.
