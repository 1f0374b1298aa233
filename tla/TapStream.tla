----------------------------- MODULE TapStream ------------------------------
(***************************************************************************)
(* The capture of Decode_tap_data.py: frames are taken from the tap until  *)
(* the last packet of a message is seen or, at a frame after the deadline, *)
(* the time is up; decode_Roce_stream then judges the whole capture.       *)
(*                                                                         *)
(* A captured frame is a record of what the decoders look at: the protocol *)
(* on each layer, opcode and PSN, the bytes of the RoCE frame, the length  *)
(* in the RETH, and whether the ICRC in the frame is the one that          *)
(* compute_sw_icrc finds.                                                  *)
(*                                                                         *)
(* Environment (external): the FPGA sends one message.  Nobody acknowledges*)
(* it, so it may go back to the first packet at any time.  Packets may be  *)
(* lost or damaged, and other traffic is on the tap as well.               *)
(***************************************************************************)
EXTENDS Integers, Sequences, SequencesExt

CONSTANTS
    KINDS,          \* of the message: WRITE, SEND, with an immediate or without
    PSN_MOD,        \* 2^24
    PMTU,           \* bytes of payload in a full packet
    STARTS,         \* its first PSN; the script draws one from 1 .. 2^24 - 2
    MAX_PACKETS,    \* packets of the message
    MAX_CAPTURE,    \* frames captured
    MAX_FAULTS      \* packets lost or damaged

ASSUME CaptureAssumption ==
    /\ KINDS \subseteq {"WRITE", "WRITE_IMD", "SEND", "SEND_IMD"}
    /\ PSN_MOD \in Nat /\ MAX_PACKETS \in 1..PSN_MOD - 1
    /\ STARTS \subseteq 1..PSN_MOD - 2
    /\ PMTU \in Nat /\ MAX_CAPTURE \in Nat /\ MAX_FAULTS \in Nat

VARIABLES
    msg,         \* the message: kind, first PSN, packets, payload of the last one
    cursor,      \* the packet the FPGA sends next
    stream,      \* data_stream
    ended,       \* the capture: "no", "last", "timeout"
    faults       \* packets lost or damaged since the capture began

tapVars == <<msg, cursor, stream, ended, faults>>

-----------------------------------------------------------------------------
(* The decoders.                                                           *)

\* BTH, RETH, immediate and ICRC in bytes.
BTH == 12
RETH == 16
IMD == 4
ICRC == 4

Starts == {"WRITE_FIRST", "WRITE_ONLY", "WRITE_ONLY_IMD", "SEND_FIRST", "SEND_ONLY", "SEND_ONLY_IMD"}
Lasts == {"WRITE_LAST", "WRITE_LAST_IMD", "WRITE_ONLY", "WRITE_ONLY_IMD",
          "SEND_LAST", "SEND_LAST_IMD", "SEND_ONLY", "SEND_ONLY_IMD"}
HasReth == {"WRITE_FIRST", "WRITE_ONLY", "WRITE_ONLY_IMD"}

\* Frames that get through the Ethernet, IP and UDP decoders.
IsRoce(f) == f.eth_type = "IP" /\ f.ip_protocol = "UDP" /\ f.udp_dest_port = 4791

\* On a single frame.
check_if_last(f) == IsRoce(f) /\ f.op \in Lasts

\* Mutation: the expected PSN follows the packets instead of counting them.
ExpPsnFollows(s, f, start) == f.psn

\* The expected PSN starts over with every first packet.  It is never reduced
\* modulo 2^24.
ExpPsn(s, f, start) == IF f.op \in Starts THEN start ELSE s.exp_psn + 1

\* Mutation: the length of a packet with an immediate includes it.
MeasuredImd(s, f) ==
    CASE f.op \in {"WRITE_FIRST", "WRITE_ONLY", "WRITE_ONLY_IMD"} -> f.length - BTH - RETH - ICRC
      [] f.op \in {"WRITE_MIDDLE", "WRITE_LAST", "SEND_LAST"} -> s.measured + f.length - BTH - ICRC
      [] OTHER -> s.measured

\* SEND_MIDDLE and SEND_LAST_IMD are not counted.
Measured(s, f) ==
    CASE f.op \in {"WRITE_FIRST", "WRITE_ONLY"} -> f.length - BTH - RETH - ICRC
      [] f.op \in {"SEND_FIRST", "SEND_ONLY"}   -> f.length - BTH - ICRC
      [] f.op = "WRITE_ONLY_IMD"                -> f.length - BTH - RETH - ICRC - IMD
      [] f.op = "SEND_ONLY_IMD"                 -> f.length - BTH - ICRC - IMD
      [] f.op \in {"WRITE_MIDDLE", "WRITE_LAST", "SEND_LAST"} -> s.measured + f.length - BTH - ICRC
      [] f.op = "WRITE_LAST_IMD"                -> s.measured + f.length - BTH - ICRC - IMD
      [] OTHER                                  -> s.measured

\* The length is compared at the end of a WRITE; for WRITE_LAST_IMD the test looks
\* at the wrong object and is never true.
ComparesLength(f) == f.op \in {"WRITE_LAST", "WRITE_ONLY", "WRITE_ONLY_IMD"}

\* One frame of the loop.
Decode(s, f, start) ==
    IF ~IsRoce(f) THEN s
    ELSE LET exp == ExpPsn(s, f, start)
             measured == Measured(s, f)
             sim == IF f.op \in HasReth THEN f.dma_length ELSE s.sim
         IN  [exp_psn |-> exp, measured |-> measured, sim |-> sim,
              psn_errors |-> s.psn_errors + (IF exp # f.psn THEN 1 ELSE 0),
              icrc_errors |-> s.icrc_errors + (IF f.icrc = "good" THEN 0 ELSE 1),
              length_error |-> s.length_error \/ (ComparesLength(f) /\ sim # measured)]

decode_Roce_stream(frames, start) ==
    LET s0 == [exp_psn |-> 0, measured |-> 0, sim |-> 0,
               psn_errors |-> 0, icrc_errors |-> 0, length_error |-> FALSE]
        after[n \in 0..Len(frames)] == IF n = 0 THEN s0 ELSE Decode(after[n - 1], frames[n], start)
    IN  after[Len(frames)]

\* "No errors observed!"
Clean == LET v == decode_Roce_stream(stream, msg.start)
         IN  v.icrc_errors = 0 /\ v.psn_errors = 0 /\ ~v.length_error

-----------------------------------------------------------------------------
(* The FPGA and the tap.                                                   *)

Opcode(m, i) ==
    LET send == m.kind \in {"SEND", "SEND_IMD"}
        imd == m.kind \in {"WRITE_IMD", "SEND_IMD"}
    IN  CASE m.packets = 1 -> IF imd THEN (IF send THEN "SEND_ONLY_IMD" ELSE "WRITE_ONLY_IMD")
                              ELSE IF send THEN "SEND_ONLY" ELSE "WRITE_ONLY"
          [] m.packets > 1 /\ i = 1 -> IF send THEN "SEND_FIRST" ELSE "WRITE_FIRST"
          [] i > 1 /\ i < m.packets -> IF send THEN "SEND_MIDDLE" ELSE "WRITE_MIDDLE"
          [] OTHER -> IF imd THEN (IF send THEN "SEND_LAST_IMD" ELSE "WRITE_LAST_IMD")
                      ELSE IF send THEN "SEND_LAST" ELSE "WRITE_LAST"

Packet(m, i) ==
    LET op == Opcode(m, i)
        data == IF i = m.packets THEN m.tail ELSE PMTU
    IN  [eth_type |-> "IP", ip_protocol |-> "UDP", udp_dest_port |-> 4791, op |-> op,
         psn |-> (m.start + i - 1) % PSN_MOD, icrc |-> "good",
         dma_length |-> (m.packets - 1) * PMTU + m.tail,
         length |-> BTH + (IF op \in HasReth THEN RETH ELSE 0)
                    + (IF op \in Lasts /\ m.kind \in {"WRITE_IMD", "SEND_IMD"} THEN IMD ELSE 0)
                    + data + ICRC]

Messages == [kind : KINDS, start : STARTS, packets : 1..MAX_PACKETS, tail : {4, PMTU}]
CaptureInit ==
    /\ msg \in Messages
    /\ cursor = 1 /\ stream = <<>> /\ ended = "no" /\ faults = 0

Sent == cursor <= msg.packets /\ cursor' = cursor + 1 /\ UNCHANGED msg

Fails == faults < MAX_FAULTS /\ faults' = faults + 1

\* recv() and what follows it in the loop.
Capture(f, late) ==
    /\ ended = "no" /\ Len(stream) < MAX_CAPTURE
    /\ stream' = Append(stream, f)
    /\ ended' = IF late THEN "timeout" ELSE IF check_if_last(f) THEN "last" ELSE "no"

Arrives(late) == Sent /\ Capture(Packet(msg, cursor), late) /\ UNCHANGED faults
Damaged(late) ==
    /\ Sent /\ Fails
    /\ Capture([Packet(msg, cursor) EXCEPT !.icrc = "bad"], late)
Truncated(late) ==
    /\ Sent /\ Fails /\ Packet(msg, cursor).length > BTH + ICRC + 4
    /\ Capture([Packet(msg, cursor) EXCEPT !.length = @ - 4, !.icrc = "bad"], late)
Dropped == Sent /\ ended = "no" /\ Fails /\ UNCHANGED <<stream, ended>>
GoBack == ended = "no" /\ cursor > 1 /\ cursor' = 1 /\ UNCHANGED <<msg, stream, ended, faults>>

OtherTraffic(late) ==
    /\ Capture([Packet(msg, 1) EXCEPT !.udp_dest_port = 17186], late)
    /\ UNCHANGED <<msg, cursor, faults>>

CaptureNext ==
    \/ \E late \in BOOLEAN :
         Arrives(late) \/ Damaged(late) \/ Truncated(late) \/ OtherTraffic(late)
    \/ Dropped \/ GoBack

-----------------------------------------------------------------------------
(* Properties.                                                             *)

\* A message of the kind the script asks for that ends with its last packet and
\* is reported clean is whole: from its last first packet on, every packet came,
\* once, in order and undamaged.
Roce == SelectSeq(stream, LAMBDA f : IsRoce(f))
CleanMeansWhole ==
    msg.kind = "WRITE" /\ ended = "last" /\ Clean =>
        /\ Len(Roce) >= msg.packets
        /\ \A i \in 1..msg.packets : Roce[Len(Roce) - msg.packets + i] = Packet(msg, i)

\* A message of which nothing was lost or damaged is reported clean, also if it
\* was begun again, provided its PSNs do not cross the wrap.
IntactAccepted ==
    faults = 0 /\ msg.start + msg.packets <= PSN_MOD => Clean

=============================================================================
