----------------------------- MODULE NetFrames ------------------------------
(***************************************************************************)
(* The Ethernet, ARP, IP and UDP frames of the simulation library: how they*)
(* are completed, laid out as bytes and parsed again.  A frame is a record *)
(*   [kind, hdr, payload]                                                  *)
(* with hdr a function from field names.  Fields keep their widths: a MAC  *)
(* address is three 16-bit words, an IP address two (the code sums it word *)
(* by word), None a length or checksum that build() has to fill in.        *)
(***************************************************************************)
EXTENDS Integers, Sequences, SequencesExt

None == -1

EthFields == {"eth_dest_mac", "eth_src_mac", "eth_type"}
IpFields  == EthFields \cup
             {"ip_version", "ip_ihl", "ip_dscp", "ip_ecn", "ip_length", "ip_identification",
              "ip_flags", "ip_fragment_offset", "ip_ttl", "ip_protocol",
              "ip_header_checksum", "ip_source_ip", "ip_dest_ip"}
UdpFields == IpFields \cup {"udp_source_port", "udp_dest_port", "udp_length", "udp_checksum"}
ArpFields == EthFields \cup
             {"arp_htype", "arp_ptype", "arp_hlen", "arp_plen", "arp_oper",
              "arp_sha", "arp_spa", "arp_tha", "arp_tpa"}

\* The fields a header carries that are also in fs.
Only(hdr, fs) == [x \in DOMAIN hdr \cap fs |-> hdr[x]]

-----------------------------------------------------------------------------
(* Checksums: 16-bit words added, the carries folded in twice.             *)

\* Mutation: the carry of the first fold is dropped.
FoldOnce(sum) == ((sum % 65536) + (sum \div 65536)) % 65536

Fold(sum) == LET once == (sum % 65536) + (sum \div 65536)
             IN  (once % 65536) + (once \div 65536)

Complement(sum) == 65535 - (sum % 65536)
AddWords(words) ==
    LET sum[i \in 0..Len(words)] == IF i = 0 THEN 0 ELSE sum[i - 1] + words[i]
    IN  sum[Len(words)]

IpWords(h, length) ==
    <<h["ip_version"] * 4096 + h["ip_ihl"] * 256 + h["ip_dscp"] * 4 + h["ip_ecn"],
      length, h["ip_identification"],
      h["ip_flags"] * 8192 + h["ip_fragment_offset"],
      h["ip_ttl"] * 256 + h["ip_protocol"]>> \o h["ip_source_ip"] \o h["ip_dest_ip"]

IpChecksum(h, length) == Complement(Fold(AddWords(IpWords(h, length))))

PseudoHeaderSum(h, length) ==
    Fold(AddWords(h["ip_source_ip"] \o h["ip_dest_ip"] \o <<h["ip_protocol"], length>>))

\* The bytes of the payload as words, the last one padded with a zero.
PayloadWords(p) == [i \in 1..(Len(p) + 1) \div 2 |->
                      p[2 * i - 1] * 256 + IF 2 * i <= Len(p) THEN p[2 * i] ELSE 0]

UdpChecksum(h, length, payload) ==
    Complement(Fold(PseudoHeaderSum(h, length) + h["udp_source_port"] + h["udp_dest_port"]
                    + length + AddWords(PayloadWords(payload))))

\* build(): what is None is computed, in this order.
Given(field, value) == IF field = None THEN value ELSE field
Build(f) ==
    IF f.kind = "arp" THEN f
    ELSE LET udp == Given(f.hdr["udp_length"], Len(f.payload) + 8)
             ip == Given(f.hdr["ip_length"], udp + 20)
         IN  [f EXCEPT !.hdr["udp_length"] = udp,
                       !.hdr["udp_checksum"] = Given(@, UdpChecksum(f.hdr, udp, f.payload)),
                       !.hdr["ip_length"] = ip,
                       !.hdr["ip_header_checksum"] = Given(@, IpChecksum(f.hdr, ip))]

-----------------------------------------------------------------------------
(* Bytes, in network order.                                                *)

BE(word) == <<word \div 256, word % 256>>
BEs(words) == [i \in 1..2 * Len(words) |->
                 IF i % 2 = 1 THEN words[(i + 1) \div 2] \div 256 ELSE words[i \div 2] % 256]

UdpBytes(f) ==
    BE(f.hdr["udp_source_port"]) \o BE(f.hdr["udp_dest_port"])
    \o BE(f.hdr["udp_length"]) \o BE(f.hdr["udp_checksum"]) \o f.payload

IpBytes(h, data) ==
    <<h["ip_version"] * 16 + h["ip_ihl"], h["ip_dscp"] * 4 + h["ip_ecn"]>>
    \o BE(h["ip_length"]) \o BE(h["ip_identification"])
    \o BE(h["ip_flags"] * 8192 + h["ip_fragment_offset"])
    \o <<h["ip_ttl"], h["ip_protocol"]>> \o BE(h["ip_header_checksum"])
    \o BEs(h["ip_source_ip"]) \o BEs(h["ip_dest_ip"]) \o data

ArpBytes(h) ==
    BE(h["arp_htype"]) \o BE(h["arp_ptype"]) \o <<h["arp_hlen"], h["arp_plen"]>>
    \o BE(h["arp_oper"]) \o BEs(h["arp_sha"]) \o BEs(h["arp_spa"])
    \o BEs(h["arp_tha"]) \o BEs(h["arp_tpa"])

EthBytes(h, data) ==
    BEs(h["eth_dest_mac"]) \o BEs(h["eth_src_mac"]) \o BE(h["eth_type"]) \o data

\* The payload of the Ethernet frame that build_eth makes.
EthPayload(f) == IF f.kind = "arp" THEN ArpBytes(f.hdr) ELSE IpBytes(f.hdr, UdpBytes(f))

-----------------------------------------------------------------------------
(* Parsing.  Each layer takes its fields from the front of the data, and   *)
(* cuts its own payload to the length the header states.                   *)

Word16(d, i) == d[i + 1] * 256 + d[i + 2]             \* data[i:i+2]
Words(d, i, n) == [k \in 1..n |-> Word16(d, i + 2 * (k - 1))]
From(d, first, end) == SubSeq(d, first + 1, IF end < Len(d) THEN end ELSE Len(d))

ParseAxis(data) ==
    [hdr |-> [x \in EthFields |-> CASE x = "eth_dest_mac" -> Words(data, 0, 3)
                                    [] x = "eth_src_mac"  -> Words(data, 6, 3)
                                    [] x = "eth_type"     -> Word16(data, 12)],
     payload |-> From(data, 14, Len(data))]

ParseIp(eth) ==
    LET d == eth.payload
        field(x) ==
          CASE x = "ip_version" -> d[1] \div 16   [] x = "ip_ihl" -> d[1] % 16
            [] x = "ip_dscp" -> d[2] \div 4       [] x = "ip_ecn" -> d[2] % 4
            [] x = "ip_length" -> Word16(d, 2)    [] x = "ip_identification" -> Word16(d, 4)
            [] x = "ip_flags" -> Word16(d, 6) \div 8192
            [] x = "ip_fragment_offset" -> Word16(d, 6) % 8192
            [] x = "ip_ttl" -> d[9]               [] x = "ip_protocol" -> d[10]
            [] x = "ip_header_checksum" -> Word16(d, 10)
            [] x = "ip_source_ip" -> Words(d, 12, 2)
            [] x = "ip_dest_ip" -> Words(d, 16, 2)
            [] OTHER -> eth.hdr[x]
    IN  [hdr |-> [x \in IpFields |-> field(x)], payload |-> From(d, 20, Word16(d, 2))]

ParseUdp(ip) ==
    LET d == ip.payload
        field(x) == CASE x = "udp_source_port" -> Word16(d, 0)
                      [] x = "udp_dest_port"   -> Word16(d, 2)
                      [] x = "udp_length"      -> Word16(d, 4)
                      [] x = "udp_checksum"    -> Word16(d, 6)
                      [] OTHER -> ip.hdr[x]
    IN  [kind |-> "udp", hdr |-> [x \in UdpFields |-> field(x)],
         payload |-> From(d, 8, Word16(d, 4))]

ParseArp(eth) ==
    LET d == eth.payload
        field(x) ==
          CASE x = "arp_htype" -> Word16(d, 0)  [] x = "arp_ptype" -> Word16(d, 2)
            [] x = "arp_hlen" -> d[5]           [] x = "arp_plen" -> d[6]
            [] x = "arp_oper" -> Word16(d, 6)   [] x = "arp_sha" -> Words(d, 8, 3)
            [] x = "arp_spa" -> Words(d, 14, 2) [] x = "arp_tha" -> Words(d, 18, 3)
            [] x = "arp_tpa" -> Words(d, 24, 2)
            [] OTHER -> eth.hdr[x]
    IN  [kind |-> "arp", hdr |-> [x \in ArpFields |-> field(x)], payload |-> <<>>]

=============================================================================
