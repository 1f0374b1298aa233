----------------------------- MODULE FrameBench -----------------------------
(***************************************************************************)
(* A frame source and a frame sink of the simulation library on the same   *)
(* wires, at one layer:                                                    *)
(*   "axis"             whole frames as bytes (AXIStreamSource and Sink),  *)
(*   "eth", "ip", "udp" a header channel beside a payload stream           *)
(*                      (EthFrameSource, IPFrameSource, UDPFrameSource),   *)
(*   "arp"              a header channel alone (ARPFrameSource),           *)
(*   "gmii", "gmii_mii", "mii", "xgmii32", "xgmii64", "serdes", "baser"    *)
(*                      frames on the wires to a PHY (PhyEndpoint).        *)
(* The test sends frames at any time, pauses each side for as long as it   *)
(* likes and may assert the reset.  The processes that share a clock edge  *)
(* run in any order.                                                       *)
(***************************************************************************)
EXTENDS PhyEndpoint

CONSTANTS
    LAYERS,        \* the layers to run
    RESET_LAYERS,  \* those on which the test may reset the bench while it runs
    MAX_FRAMES, MAX_RESETS,
    PAYLOADS, PADS,        \* lengths and padding of the frames sent
    PHY_PAYLOADS, LANE_PAYLOADS    \* lengths on GMII and MII, and on XGMII and BASE-R

Headered == {"eth", "ip", "udp"}
Phys == Laned \cup Nibbled \cup {"gmii"}
ASSUME BenchAssumption ==
    /\ LAYERS \subseteq {"axis", "arp"} \cup Headered \cup Phys /\ RESET_LAYERS \subseteq LAYERS
    /\ MAX_FRAMES \in Nat /\ MAX_RESETS \in Nat
    /\ PAYLOADS \subseteq Nat /\ PADS \subseteq Nat
    /\ PHY_PAYLOADS \subseteq Nat /\ LANE_PAYLOADS \subseteq Nat

VARIABLES
    layer,
    queue, hq,               \* the source's queue and header_queue
    hactive, hvalid, wires,  \* its active, and the header on the wires
    shq,                     \* the sink's header_queue
    out,                     \* the frames it has delivered
    sent, resets             \* what the test did

benchVars == <<layer, queue, hq, hactive, hvalid, wires, shq, out, sent, resets>>
vars == <<axisVars, phyVars, benchVars>>

Init ==
    /\ layer \in LAYERS
    /\ AxisInit /\ PhyInit(layer)
    /\ queue = <<>> /\ hq = <<>> /\ hactive = FALSE /\ hvalid = FALSE /\ wires = <<>>
    /\ shq = <<>> /\ out = <<>> /\ sent = <<>> /\ resets = 0

-----------------------------------------------------------------------------
(* The frames of the test: the n-th can be told from the others by every   *)
(* word of its payload and by a field of each header.  The identification  *)
(* and the source port make the low half of either sum all ones, so that   *)
(* the first fold carries again.                                           *)

TestPayload(n, len) == [i \in 1..len |-> 256 - 16 * n - i]
TestUdp(n, len) ==
    [kind |-> "udp",
     hdr |-> [x \in UdpFields |->
       CASE x = "eth_dest_mac" -> <<n, 258, 772>>     [] x = "eth_src_mac" -> <<23121, 21075, n>>
         [] x = "eth_type" -> 2048                    [] x = "ip_version" -> 4
         [] x = "ip_ihl" -> 5                         [] x = "ip_dscp" -> 0
         [] x = "ip_ecn" -> 2                         [] x = "ip_identification" -> 47233 - n - len
         [] x = "ip_flags" -> 2                       [] x = "ip_fragment_offset" -> 0
         [] x = "ip_ttl" -> 64                        [] x = "ip_protocol" -> 17
         [] x = "ip_source_ip" -> <<49320, 65535>>    [] x = "ip_dest_ip" -> <<49320, 256 + n>>
         [] x = "udp_source_port" -> 65535 -
              ((38185 + n + 2 * len + AddWords(PayloadWords(TestPayload(n, len)))) % 65536)
         [] x = "udp_dest_port" -> 4791
         [] OTHER -> None],
     payload |-> TestPayload(n, len)]

TestArp(n) ==
    [kind |-> "arp",
     hdr |-> [x \in ArpFields |->
       CASE x = "eth_dest_mac" -> <<65535, 65535, 65535>> [] x = "eth_src_mac" -> <<23121, 21075, n>>
         [] x = "eth_type" -> 2054  [] x = "arp_htype" -> 1   [] x = "arp_ptype" -> 2048
         [] x = "arp_hlen" -> 6     [] x = "arp_plen" -> 4    [] x = "arp_oper" -> 1
         [] x = "arp_sha" -> <<23121, 21075, n>>              [] x = "arp_spa" -> <<49320, 356>>
         [] x = "arp_tha" -> <<0, 0, 0>>                      [] x = "arp_tpa" -> <<49320, 256 + n>>],
     payload |-> <<>>]

\* With preamble and start delimiter, and an FCS that nobody looks at.
TestRaw(n, len) == [i \in 1..8 |-> IF i < 8 THEN PRE ELSE SFD] \o TestPayload(n, len)

TestFrames(n) ==
    (IF layer \in Phys \cup {"arp"} THEN {} ELSE {TestUdp(n, len) : len \in PAYLOADS})
    \cup (IF layer \in {"axis", "eth", "arp"} THEN {TestArp(n)} ELSE {})

-----------------------------------------------------------------------------
(* The sources.  A frame waits as [frame, body] until its header is driven.*)

Zeros(n) == [i \in 1..n |-> 0]
Body(f, pad) ==
    CASE layer = "axis" -> EthBytes(f.hdr, EthPayload(f)) \o Zeros(pad)
      [] layer = "eth"  -> EthPayload(f) \o Zeros(pad)
      [] layer = "ip"   -> UdpBytes(f) \o Zeros(pad)
      [] OTHER          -> f.payload

\* The UDP source completes the frame itself; elsewhere build_ip or build_eth has.
Item(f, built, pad, user) == [frame |-> IF layer = "udp" THEN f ELSE built,
                              body  |-> [data |-> Body(built, pad), user |-> user]]

\* send(): the frame goes to the header and payload queues if the header queue is
\* free.  A bare stream, and ARP, have one queue.
Send(x) ==
    CASE layer = "axis" -> pq' = Append(pq, x.body) /\ UNCHANGED <<hq, queue>>
      [] layer = "arp"  -> hq' = Append(hq, x) /\ UNCHANGED <<pq, queue>>
      [] OTHER -> IF hq = <<>>
                  THEN hq' = <<x>> /\ pq' = Append(pq, x.body) /\ UNCHANGED queue
                  ELSE queue' = Append(queue, x) /\ UNCHANGED <<hq, pq>>

TestSendsRaw ==
    /\ layer \in Phys /\ Len(sent) < MAX_FRAMES
    /\ \E len \in IF layer \in Laned THEN LANE_PAYLOADS ELSE PHY_PAYLOADS :
         LET f == TestRaw(Len(sent) + 1, len)
             user == Len(sent) % 2
         IN  /\ pq' = Append(pq, [data |-> f, user |-> user])
             /\ sent' = Append(sent, [frame |-> f, user |-> user])
    /\ UNCHANGED <<beats, beat, pvalid, pactive, ready, partial, sq, asserted, phyVars,
                   layer, queue, hq, hactive, hvalid, wires, shq, out, resets>>

TestSends ==
    /\ Len(sent) < MAX_FRAMES
    /\ \E f \in TestFrames(Len(sent) + 1), pad \in PADS : \E built \in {Build(f)} :
         LET user == Len(sent) % 2     \* every other frame ends with an error flag
         IN  /\ Send(Item(f, built, pad, user))
             /\ sent' = Append(sent, [frame |-> built, user |-> user])
    /\ UNCHANGED <<beats, beat, pvalid, pactive, ready, partial, sq, asserted, phyVars,
                   layer, hactive, hvalid, wires, shq, out, resets>>

HeaderTaken(sinkPause) == hvalid /\ ready /\ ~sinkPause
Loads(sinkPause) == (~hactive \/ HeaderTaken(sinkPause)) /\ hq # <<>>

\* Mutation: the header stays up for the edge that takes it.
HeaderSourceRepeats(fields, pause, sinkPause) ==
    LET load == Loads(sinkPause)
    IN  /\ hactive' = ((hactive /\ ~HeaderTaken(sinkPause)) \/ load)
        /\ hvalid' = (IF hactive' THEN ~pause \/ hvalid ELSE hvalid)
        /\ \E hdr \in {IF load THEN Build(Head(hq).frame).hdr ELSE wires} : wires' = Only(hdr, fields)

\* A header goes up when its queue has one and none is up, and stays through a
\* pause once it is.
HeaderSource(fields, pause, sinkPause) ==
    LET active == hactive /\ ~HeaderTaken(sinkPause)
        load == Loads(sinkPause)
    IN  /\ hactive' = (active \/ load)
        /\ hvalid' = (hactive' /\ (~pause \/ (hvalid /\ active)))
        /\ \E hdr \in {IF load THEN Build(Head(hq).frame).hdr ELSE wires} : wires' = Only(hdr, fields)

\* The next frame moves up as soon as the header queue is free, and its payload
\* is queued with it.
Refills(sinkPause) == queue # <<>> /\ (hq = <<>> \/ (Loads(sinkPause) /\ Len(hq) = 1))

\* Mutation: the frame that moves up queues its payload and not its header.
QueuesPayload(sinkPause) ==
    LET rest == IF Loads(sinkPause) THEN Tail(hq) ELSE hq
    IN  /\ hq' = rest
        /\ queue' = IF Refills(sinkPause) THEN Tail(queue) ELSE queue

Queues(sinkPause) ==
    LET rest == IF Loads(sinkPause) THEN Tail(hq) ELSE hq
    IN  /\ hq' = IF Refills(sinkPause) THEN <<Head(queue)>> ELSE rest
        /\ queue' = IF Refills(sinkPause) THEN Tail(queue) ELSE queue

\* The four sources that drive a header.
EthSource(pause, sinkPause) ==
    layer = "eth" /\ HeaderSource(EthFields, pause, sinkPause) /\ Queues(sinkPause)
IpSource(pause, sinkPause) ==
    layer = "ip" /\ HeaderSource(IpFields, pause, sinkPause) /\ Queues(sinkPause)
UdpSource(pause, sinkPause) ==
    layer = "udp" /\ HeaderSource(UdpFields, pause, sinkPause) /\ Queues(sinkPause)
ArpSource(pause, sinkPause) ==
    /\ layer = "arp" /\ HeaderSource(ArpFields, pause, sinkPause)
    /\ hq' = (IF Loads(sinkPause) THEN Tail(hq) ELSE hq) /\ UNCHANGED queue

NoHeader == layer = "axis" /\ UNCHANGED <<hactive, hvalid, wires, hq, queue>>

-----------------------------------------------------------------------------
(* The sinks: a header and the next payload make a frame.                  *)

Captured(sinkPause) == IF HeaderTaken(sinkPause) THEN Append(shq, wires) ELSE shq

\* Mutation: the sink pairs the newest header with the oldest payload.
MatchNewest(headers, frames) == [hdr |-> Last(headers), body |-> Head(frames)]

Match(headers, frames) == [hdr |-> Head(headers), body |-> Head(frames)]

\* seen is the payload sink's queue as the process finds it, frames as it is in
\* the end.
Pair(headers, seen, frames) ==
    IF headers # <<>> /\ seen # <<>>
    THEN /\ out' = Append(out, Match(headers, frames))
         /\ shq' = Tail(headers) /\ sq' = Tail(frames)
    ELSE shq' = headers /\ sq' = frames /\ UNCHANGED out

EthSink(headers, seen, frames) == layer = "eth" /\ Pair(headers, seen, frames)

\* IP and UDP assert that no payload is left over when the last header is paired.
Unmatched(headers, seen) == Len(headers) = 1 /\ Len(seen) > 1
IpSink(headers, seen, frames, ok) ==
    layer = "ip" /\ Pair(headers, seen, frames) /\ asserted' = (~ok \/ Unmatched(headers, seen))
UdpSink(headers, seen, frames, ok) ==
    layer = "udp" /\ Pair(headers, seen, frames) /\ asserted' = (~ok \/ Unmatched(headers, seen))

ArpSink(headers) ==
    /\ layer = "arp" /\ UNCHANGED <<shq, sq>>
    /\ out' = IF headers = <<>> THEN out ELSE Append(out, [hdr |-> Head(headers), body |-> <<>>])

\* A test takes the frames of a bare stream with recv().
StreamSink(frames) ==
    /\ layer = "axis" /\ sq' = <<>> /\ UNCHANGED shq
    /\ out' = out \o [i \in DOMAIN frames |-> [hdr |-> <<>>, body |-> frames[i]]]

-----------------------------------------------------------------------------
(* The clock and the reset.                                                *)

\* payloadFirst and streamFirst order the two processes of the source, and those
\* of the sink.
Edge(pause, sinkPause, payloadFirst, streamFirst) ==
    LET taken == pvalid /\ ready /\ ~sinkPause
        refill == IF layer \in Headered /\ Refills(sinkPause) THEN <<Head(queue).body>> ELSE <<>>
        found == IF payloadFirst THEN pq ELSE pq \o refill
        headers == Captured(sinkPause)
        frames == Received(sinkPause)
        seen == IF streamFirst THEN frames ELSE sq
        ok == ~asserted /\ ~EmptyFrame(taken, found) /\ ~(SinkTakes(sinkPause) /\ BadKeep)
    IN  /\ layer \notin Phys /\ UNCHANGED <<phyVars, layer, sent, resets>>
        /\ SourceStep(pause, taken, found, IF payloadFirst THEN refill ELSE <<>>)
        /\ \/ EthSource(pause, sinkPause) \/ IpSource(pause, sinkPause)
           \/ UdpSource(pause, sinkPause) \/ ArpSource(pause, sinkPause) \/ NoHeader
        /\ SinkStep(sinkPause)
        /\ \/ IpSink(headers, seen, frames, ok) \/ UdpSink(headers, seen, frames, ok)
           \/ /\ EthSink(headers, seen, frames) \/ ArpSink(headers) \/ StreamSink(frames)
              /\ asserted' = ~ok

\* The wires to a PHY have no backpressure and no pause.
PhyEdge ==
    /\ layer \in Phys /\ asserted' = BadFrame(layer)
    /\ \E w \in {Seen(layer, word)} : \E got \in {PhyGot(layer, w)} :
         /\ PhyStep(layer, w)
         /\ out' = out \o [i \in DOMAIN got |-> [hdr |-> <<>>, body |-> got[i]]]
    /\ UNCHANGED <<beats, beat, pvalid, pactive, ready, partial, sq,
                   layer, queue, hq, hactive, hvalid, wires, shq, sent, resets>>

Clock == \E pause, sinkPause, payloadFirst, streamFirst \in BOOLEAN :
           Edge(pause, sinkPause, payloadFirst, streamFirst)
FreeClock == \E payloadFirst, streamFirst \in BOOLEAN :
               PhyEdge \/ Edge(FALSE, FALSE, payloadFirst, streamFirst)

Reset ==
    /\ layer \in RESET_LAYERS /\ resets < MAX_RESETS
    /\ AxisReset /\ IF layer \in Phys THEN PhyReset(layer) ELSE UNCHANGED phyVars
    /\ hactive' = FALSE /\ hvalid' = FALSE
    /\ resets' = resets + 1
    /\ UNCHANGED <<layer, queue, hq, wires, shq, out, sent>>

Next == ~asserted /\ (TestSends \/ TestSendsRaw \/ Clock \/ PhyEdge \/ Reset)

\* The test lifts its pauses in the end.
Spec == Init /\ [][Next]_vars /\ WF_vars(FreeClock)

-----------------------------------------------------------------------------
(* Properties.                                                             *)

\* No assertion of the endpoints fails: the bytes of a frame have no gap, every
\* payload meets its header, and no empty frame is loaded.
NoAssertionFails == ~asserted

\* The frame a test parses from what the sink delivered.
Parsed(x) ==
    LET eth == CASE layer = "axis" -> ParseAxis(x.body.data)
                 [] layer = "eth"  -> [hdr |-> x.hdr, payload |-> x.body.data]
        ip == IF layer = "ip" THEN [hdr |-> x.hdr, payload |-> x.body.data] ELSE ParseIp(eth)
    IN  CASE layer = "arp" -> [kind |-> "arp", hdr |-> x.hdr, payload |-> <<>>]
          [] layer = "udp" -> [kind |-> "udp", hdr |-> x.hdr, payload |-> x.body.data]
          [] layer \in {"axis", "eth"} /\ eth.hdr["eth_type"] = 2054 -> ParseArp(eth)
          [] OTHER -> ParseUdp(ip)

\* On XGMII the last byte of a bad frame is the error character.
Raw(s) == IF layer \in Xgmii /\ s.user = 1 THEN [s.frame EXCEPT ![Len(s.frame)] = ERROR.d] ELSE s.frame

\* On BASE-R the block of the error character is lost with it: the frame ends in
\* an error there, less than a block early.
CutShort(data, frame) ==
    \E k \in 0..7 : data = SubSeq(frame, 1, Len(frame) - 1 - k) \o <<ERROR.d>>

Same(x, s) == /\ CASE layer \in Serdes /\ s.user = 1 -> CutShort(x.body.data, s.frame)
                   [] layer \in Phys -> x.body.data = Raw(s)
                   [] OTHER -> Parsed(x) = s.frame
              /\ layer # "arp" => x.body.user = s.user

\* What is delivered, parsed again, is what was sent: every field, every byte of
\* the payload without its padding, and the error flag, in order and each frame
\* once.  A reset may lose frames, whole ones only.
Delivered ==
    /\ \A i \in DOMAIN out : \E n \in DOMAIN sent : Same(out[i], sent[n])
    /\ resets = 0 => \A i \in DOMAIN out : Same(out[i], sent[i])
    /\ \A i, j \in DOMAIN out : i < j => out[i] # out[j]

\* A receiver that adds up the words of the header, or of the pseudo header and
\* the datagram, checksum included, gets all ones.
Checks(words) == LET s == AddWords(words) IN s > 0 /\ s % 65535 = 0
ChecksumsHold ==
    \A i \in DOMAIN sent : layer \notin Phys /\ sent[i].frame.kind = "udp" =>
        LET f == sent[i].frame
        IN  /\ Checks(PayloadWords(SubSeq(IpBytes(f.hdr, <<>>), 1, 20)))
            /\ Checks(f.hdr["ip_source_ip"] \o f.hdr["ip_dest_ip"]
                      \o <<f.hdr["ip_protocol"], f.hdr["udp_length"]>>
                      \o PayloadWords(UdpBytes(f)))

\* idle() of the source, for which its wait() polls, does not look at the header
\* queue: when it holds no header is left there, and every frame is with the sink.
Idle == CASE layer = "axis" -> pq = <<>> /\ ~pactive
          [] layer = "arp"  -> hq = <<>> /\ ~hactive
          [] layer = "baser" -> pq = <<>> /\ ~BaserActive
          [] layer \in Phys -> FALSE       \* these sources have neither
          [] OTHER -> queue = <<>> /\ ~hactive /\ pq = <<>> /\ ~pactive
IdleMeansSent ==
    Idle /\ resets = 0 =>
        /\ hq = <<>>
        /\ Len(out) + (IF layer \in Headered THEN Len(shq) ELSE 0) = Len(sent)
        /\ layer \in Headered => Len(shq) = Len(sq)

\* The gaps between frames never fall short of the interframe gap by more than
\* the deficit idle count allows, three characters over any number of frames; on
\* GMII and MII no gap is short.
GapKept == meter.short <= (IF layer \in Laned THEN 3 ELSE 0)

\* Every frame arrives, if no reset comes between.
FrameArrives ==
    Len(out) < Len(sent) ~> (Len(out) = Len(sent) \/ resets > 0)

=============================================================================
