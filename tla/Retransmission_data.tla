------------------------- MODULE Retransmission_data -------------------------
(***************************************************************************)
(* Proof that the engine, the network and the responder together are a     *)
(* go-back-N sender, for an application that keeps to a window.            *)
(*                                                                         *)
(* The pointers bound the packets of the connection to the window; the two *)
(* FIFO chains carry consecutive packets, which the producer has numbered  *)
(* last.  So a header that is written meets no packet of the window but    *)
(* its own, and a packet is sent with the PSN of its turn.                 *)
(***************************************************************************)
EXTENDS Retransmission_pointers

\* The window fits the entry FIFO, and every DMA write succeeds.
DataSetting(a) == Setting(a) /\ DmaStatus \subseteq {"OK"} /\ Window <= ENTRY_DEPTH

-----------------------------------------------------------------------------
(* The inductive invariant.                                                *)

Announced == IF m_wr_table.we THEN 1 ELSE 0

\* The packets under way are the last ones the producer has numbered, with no gap
\* between them; the one announced comes just before them, and wr_table before it.
Consecutive(a) ==
    LET n == Len(Descriptors)
    IN  /\ \A i \in 1..n : /\ Descriptors[i].qpn = a
                           /\ Index(Descriptors[i].psn) + n - i + 1 = N(a)
        /\ m_wr_table.we => Index(m_wr_table.psn) + n + 1 = N(a)
        /\ conn[a] = "open" =>
             (IF m_table_rst.we THEN 0 ELSE W(a)) + Announced + n = N(a)

HeaderHeld(a, p) == hdr_ram[a][HdrSlotOf(p)] = p

\* Stored and not acknowledged, or announced: the header is in the header RAM.  It
\* is there once the descriptor of the packet has left the register.
Stored(a) ==
    /\ Running(a) => \A p \in Psn : C(a) <= Index(p) /\ Index(p) < W(a) => HeaderHeld(a, p)
    /\ m_wr_table.we => HeaderHeld(a, m_wr_table.psn)
    /\ \A x \in ItemsOf(dma_busy \o desc_fifo) : HeaderHeld(a, x.psn)

Data(a) == ReadyMeansFree /\ FlushedClosed /\ Chained /\ Consecutive(a) /\ Stored(a)

DataInv(a) == PointerInv(a) /\ (conn[a] # "closed" => Data(a))

-----------------------------------------------------------------------------
(* The packets under way.                                                  *)

\* The packets under way are packets.
LEMMA DescriptorTypes ==
    ASSUME WriteTypes
    PROVE  /\ Descriptors \in Seq(Packets) /\ Len(Descriptors) \in Nat
           /\ \A i \in 1..Len(Descriptors) :
                /\ Descriptors[i] \in Packets /\ Descriptors[i].psn \in Psn
                /\ Index(Descriptors[i].psn) \in Nat
<1>1. Registered(dma_desc) \in Seq(Packets) /\ dma_busy \o desc_fifo \in Seq(Packets)
  BY Joined DEF WriteTypes, Registered
<1>2. Descriptors \in Seq(Packets) /\ Len(Descriptors) \in Nat
  BY <1>1, Joined, LenProperties DEF Descriptors
<1>3. ASSUME NEW i \in 1..Len(Descriptors)
      PROVE  /\ Descriptors[i] \in Packets /\ Descriptors[i].psn \in Psn
             /\ Index(Descriptors[i].psn) \in Nat
  <2>1. Descriptors[i] \in Packets
    BY <1>2, ElementOfSeq
  <2>2. Descriptors[i].psn \in Psn
    BY <2>1 DEF Packets
  <2> QED BY <2>1, <2>2, Counts
<1> QED BY <1>2, <1>3

\* No more packets are under way than the window allows, and none before the first.
LEMMA FewDescriptors ==
    ASSUME NEW a, DataSetting(a), Always(a), Session(a), Consecutive(a), conn[a] # "closed"
    PROVE  /\ Len(Descriptors) <= Window /\ Len(Descriptors) \in Nat
           /\ Fresh(a) => Len(Descriptors) = 0 /\ Descriptors = <<>> /\ N(a) = 0
<1>0. /\ a \in QPs /\ TypeOK /\ WriteTypes /\ Window \in Nat
  BY NetworkAssumption DEF DataSetting, Setting, Always, ServedInv, TypeOK, WriteTypes
<1>1. /\ Descriptors \in Seq(Packets) /\ Len(Descriptors) \in Nat
      /\ \A i \in 1..Len(Descriptors) : Index(Descriptors[i].psn) \in Nat
  BY <1>0, DescriptorTypes
<1>2. ASSUME Fresh(a) PROVE Len(Descriptors) = 0 /\ Descriptors = <<>> /\ N(a) = 0
  <2>1. np[a] = OpenPsn
    BY <1>0, <1>2 DEF Fresh, Always, Numbered, Session, OpeningClean
  <2>2. N(a) = 0
    BY <1>0, <2>1, Counts, PointerTypes DEF N
  <2>3. Len(Descriptors) = 0
    <3> SUFFICES ASSUME Len(Descriptors) >= 1 PROVE FALSE
      BY <1>1
    <3>1. Len(Descriptors) \in 1..Len(Descriptors)
      BY <1>1
    <3>2. Index(Descriptors[Len(Descriptors)].psn) + Len(Descriptors) - Len(Descriptors) + 1 = N(a)
      BY <3>1 DEF Consecutive
    <3>3. Index(Descriptors[Len(Descriptors)].psn) \in Nat
      BY <1>1, <3>1
    <3> QED BY <1>1, <2>2, <3>2, <3>3
  <2> QED BY <1>1, <2>2, <2>3, EmptySeq
<1>3. ASSUME Running(a) PROVE Len(Descriptors) <= Window
  <2>1. W(a) + Announced + Len(Descriptors) = N(a)
    BY <1>3 DEF Consecutive, Running
  <2>2. Bounds(a)
    BY <1>3 DEF Session, Ordered
  <2>3. W(a) \in Nat /\ C(a) \in Nat /\ E(a) \in Nat /\ N(a) \in Nat
    BY <1>0, PointerTypes
  <2>4. Announced \in Nat
    BY DEF Announced
  <2> QED BY <1>0, <1>1, <2>1, <2>2, <2>3, <2>4 DEF Bounds
<1>4. Fresh(a) \/ Running(a)
  BY <1>0 DEF Fresh, Running, Opening, TypeOK
<1> QED BY <1>0, <1>1, <1>2, <1>3, <1>4

\* One edge of a connection whose data are as they should be.
Keeps(a, cm, close, pkt, take, done, arrives, outcome) ==
    /\ Lives(a, cm, close, pkt, take, done, arrives, outcome)
    /\ DataSetting(a) /\ Data(a)

\* An accepted packet is the next of the connection.
LEMMA AcceptedIsNext ==
    ASSUME NEW a, NEW cm, NEW close, NEW pkt, NEW take, NEW done, NEW arrives, NEW outcome,
           Keeps(a, cm, close, pkt, take, done, arrives, outcome)
    PROVE  /\ Accepts(pkt) => pkt \in Packets /\ pkt.qpn = a /\ pkt.psn = np[a]
           /\ N(a) \in Nat /\ N(a)' = N(a) + (IF Accepts(pkt) THEN 1 ELSE 0)
<1>0. /\ a \in QPs /\ WriteTypes /\ EdgeInputs(pkt, done, cm, close) /\ Numbered /\ OnlyOne(a)
      /\ WriteEdge(pkt, take, done, cm, close) /\ FlushedClosed /\ ~StaleProducer
      /\ TypeOK
  BY LifeParts DEF Keeps, Lives, Always, Data, DataSetting, Setting
<1>1. /\ Accepts(pkt) => pkt \in Packets /\ pkt.psn = np[pkt.qpn]
      /\ np'[a] = np[a] \/ (Accepts(pkt) /\ pkt.qpn = a)
      /\ Accepts(pkt) /\ pkt.qpn = a => Index(np'[a]) = Index(np[a]) + 1
  BY <1>0, NumbersEdge
<1>2. Accepts(pkt) => pkt.qpn = a
  <2>1. Accepts(pkt) => conn[pkt.qpn] = "open"
    BY <1>0, AcceptedNotFlushed
  <2> QED BY <1>0, <1>1, <2>1 DEF OnlyOne, Packets
<1>3. N(a) \in Nat /\ N(a) = Index(np[a]) /\ N(a)' = Index(np'[a])
  BY <1>0, PointerTypes DEF N, Index, PsnDist
<1> QED BY <1>1, <1>2, <1>3

\* A status is that of the oldest packet under way, which it announces.
LEMMA StatusAnnounces ==
    ASSUME NEW a, NEW cm, NEW close, NEW pkt, NEW take, NEW done, NEW arrives, NEW outcome,
           Keeps(a, cm, close, pkt, take, done, arrives, outcome)
    PROVE  /\ done = "NONE" => ~m_wr_table'.we
           /\ done # "NONE" =>
                /\ 1 \in 1..Len(dma_busy \o desc_fifo) /\ 1 \in 1..Len(Descriptors)
                /\ Descriptors[1] = (dma_busy \o desc_fifo)[1] /\ Descriptors # <<>>
                /\ m_wr_table' = Write(a, Descriptors[1].psn)
<1>0. /\ a \in QPs /\ WriteTypes /\ EdgeInputs(pkt, done, cm, close) /\ Chained /\ FlushedClosed
      /\ WriteEdge(pkt, take, done, cm, close) /\ conn[a] # "closed" /\ Consecutive(a)
      /\ done \in DoneInputs /\ DmaStatus \subseteq {"OK"}
  BY LifeParts DEF Keeps, Lives, Data, DataSetting, EngineEdge, Inputs
<1>1. m_wr_table' = IF done = "OK" /\ entry_fifo # <<>> /\ ~qp_flush[Head(entry_fifo).qpn]
                      THEN Write(Head(entry_fifo).qpn, Head(entry_fifo).psn)
                      ELSE NoWrite
  BY <1>0 DEF WriteEdge, WriteStep, Announce
<1>2. done \in {"OK", "NONE"}
  BY <1>0 DEF DoneInputs
<1>3. CASE done = "NONE"
  BY <1>1, <1>3 DEF NoWrite
<1>4. CASE done = "OK"
  <2> DEFINE chain == dma_busy \o desc_fifo
             h == Head(dma_busy)
  <2>1. dma_busy # <<>> /\ dma_busy \in Seq(Packets) /\ desc_fifo \in Seq(Packets)
    BY <1>0, <1>4 DEF EdgeInputs, InputsOK, WriteTypes
  <2>2. chain # <<>> /\ Head(chain) = h /\ chain \in Seq(Packets)
    BY <2>1, ConcatHeadTail, Joined
  <2>3. /\ Len(chain) \in Nat
        /\ \A i \in 1..Len(chain) : i \in 1..Len(Descriptors) /\ chain[i] = Descriptors[i]
        /\ dma_desc # NoPkt => /\ Len(Descriptors) = Len(chain) + 1
                               /\ Descriptors[Len(chain) + 1] = dma_desc
    BY <1>0, ChainFront
  <2> HIDE DEF chain, h
  <2>4. 1 \in 1..Len(chain) /\ chain[1] = h
    BY <2>2, EmptySeq, LenProperties
  <2>5. 1 \in 1..Len(Descriptors) /\ Descriptors[1] = h
    BY <2>3, <2>4
  <2>6. Descriptors \in Seq(Packets) /\ Descriptors # <<>>
    BY <1>0, <2>5, DescriptorTypes, EmptySeq
  <2>7. entry_fifo # <<>>
    <3>1. CASE wr_entry = NoPkt
      BY <1>0, <3>1, <2>6 DEF Chained
    <3>2. CASE wr_entry # NoPkt
      BY <1>0, <3>2, <2>2 DEF Chained, chain
    <3> QED BY <3>1, <3>2
  <2>8. Head(entry_fifo) = h
    BY <1>0, <2>1, <2>7, StatusMatches DEF h
  <2>9. h.qpn = a
    BY <1>0, <2>5 DEF Consecutive
  <2>10. ~qp_flush[a]
    BY <1>0 DEF FlushedClosed
  <2>11. m_wr_table' = Write(a, Descriptors[1].psn)
    BY <1>1, <1>4, <2>5, <2>7, <2>8, <2>9, <2>10
  <2> QED BY <1>4, <2>4, <2>5, <2>6, <2>11 DEF chain
<1> QED BY <1>2, <1>3, <1>4

\* The table follows the announcements one by one.
LEMMA TableFollows ==
    ASSUME NEW a, NEW cm, NEW close, NEW pkt, NEW take, NEW done, NEW arrives, NEW outcome,
           Keeps(a, cm, close, pkt, take, done, arrives, outcome)
    PROVE  /\ Opening(a) => W(a)' = 0 /\ ~m_wr_table.we
           /\ Running(a) => /\ W(a)' = W(a) + Announced /\ W(a) \in Nat
                            /\ m_wr_table.we => Index(m_wr_table.psn) = W(a)
<1>0. /\ a \in QPs /\ TypeOK /\ TypeOK' /\ WriteEdge(pkt, take, done, cm, close) /\ WriteTypes
      /\ W(a) \in Nat /\ N(a) \in Nat /\ W(a) \in 0..(PSN_MOD - 1) /\ Len(Descriptors) \in Nat
  BY LifeParts, PointerTypes, DescriptorTypes DEF Keeps
<1>1. /\ EntriesOrdered /\ Numbered /\ Mine(a) /\ Consecutive(a) /\ FreshStart(a) /\ OpeningClean(a)
  BY DEF Keeps, Lives, Always, Session, Data
<1>2. ASSUME Opening(a) PROVE W(a)' = 0 /\ ~m_wr_table.we
  <2>1. m_table_rst = Write(a, PsnDec(OpenPsn)) /\ ~m_wr_table.we
    BY <1>1, <1>2 DEF OpeningClean, FreshStart, Fresh
  <2>2. wr_table'[a] = PsnDec(OpenPsn)
    BY <1>0, <2>1 DEF WriteEdge, TablesStep, TableWrite, TypeOK, Write
  <2>3. W(a)' = Count(PsnDec(OpenPsn))
    BY <2>2 DEF W, Count, PsnDist, PsnInc
  <2>4. Count(PsnDec(OpenPsn)) = 0
    BY EnvAssumption, Counts
  <2> QED BY <2>1, <2>3, <2>4
<1>3. ASSUME Running(a), ~m_wr_table.we PROVE W(a)' = W(a)
  <2>1. wr_table' = wr_table
    BY <1>0, <1>3 DEF WriteEdge, TablesStep, TableWrite, Running
  <2> QED BY <2>1 DEF W, Count, PsnDist, PsnInc
<1>4. ASSUME Running(a), m_wr_table.we
      PROVE  W(a)' = W(a) + 1 /\ Index(m_wr_table.psn) = W(a)
  <2>1. /\ m_wr_table.qpn = a /\ m_wr_table.psn \in Psn
        /\ Index(m_wr_table.psn) < Index(np[a]) /\ Index(np[a]) <= MaxPkts
    BY <1>0, <1>1, <1>4 DEF Mine, EntriesOrdered, Numbered, TypeOK, WritePort
  <2>2. wr_table'[a] = m_wr_table.psn
    BY <1>0, <1>4, <2>1 DEF WriteEdge, TablesStep, TableWrite, TypeOK, Running
  <2>3. W(a)' = Count(m_wr_table.psn)
    BY <2>2 DEF W, Count, PsnDist, PsnInc
  <2>4. Index(m_wr_table.psn) \in Nat /\ Index(m_wr_table.psn) < PSN_MOD - 1
    <3>1. Index(m_wr_table.psn) \in Nat /\ Index(np[a]) = N(a)
      BY <2>1, Counts DEF N
    <3> QED BY <1>0, <2>1, <3>1, EnvAssumption, PsnAssumption
  <2>5. Count(m_wr_table.psn) = Index(m_wr_table.psn) + 1
    BY <2>1, <2>4, Counts
  <2>6. /\ Index(m_wr_table.psn) + Len(Descriptors) + 1 = N(a)
        /\ W(a) + 1 + Len(Descriptors) = N(a)
    BY <1>1, <1>4 DEF Consecutive, Announced, Running
  <2>7. Index(m_wr_table.psn) = W(a)
    BY <1>0, <2>4, <2>6
  <2> QED BY <2>3, <2>5, <2>7
<1>5. ASSUME Running(a) PROVE W(a)' = W(a) + Announced
  BY <1>0, <1>3, <1>4, <1>5 DEF Announced
<1> QED BY <1>0, <1>2, <1>4, <1>5

\* One edge keeps the packets under way consecutive.
LEMMA UnderWayEdge ==
    ASSUME NEW a, NEW cm, NEW close, NEW pkt, NEW take, NEW done, NEW arrives, NEW outcome,
           Keeps(a, cm, close, pkt, take, done, arrives, outcome)
    PROVE  /\ \A i \in 1..Len(Descriptors') :
                /\ Descriptors'[i].qpn = a
                /\ Index(Descriptors'[i].psn) + Len(Descriptors') - i + 1 = N(a)'
           /\ m_wr_table'.we => Index(m_wr_table'.psn) + Len(Descriptors') + 1 = N(a)'
           /\ Announced' + Len(Descriptors') =
                Len(Descriptors) + (IF Accepts(pkt) THEN 1 ELSE 0)
           /\ Len(Descriptors) \in Nat /\ Len(Descriptors') \in Nat
<1>0. /\ a \in QPs /\ WriteTypes /\ EdgeInputs(pkt, done, cm, close) /\ take \in BOOLEAN
      /\ WriteEdge(pkt, take, done, cm, close) /\ ReadyMeansFree /\ Consecutive(a) /\ WriteTypes'
  <2>1. Lives(a, cm, close, pkt, take, done, arrives, outcome) /\ ReadyMeansFree /\ Consecutive(a)
    BY DEF Keeps, Data
  <2>2. /\ a \in QPs /\ WriteTypes /\ EdgeInputs(pkt, done, cm, close) /\ TypeOK /\ TypeOK'
        /\ WriteEdge(pkt, take, done, cm, close)
    BY <2>1, LifeParts
  <2>3. Setting(a) /\ Inputs(cm, close, pkt, take, done, arrives)
    BY <2>1 DEF Lives, EngineEdge
  <2>4. take \in BOOLEAN
    BY <2>2, <2>3, EngineInputs
  <2>5. WriteTypes'
    BY <2>2 DEF TypeOK, WriteTypes
  <2> QED BY <2>1, <2>2, <2>4, <2>5
<1>1. Moved(Descriptors, Descriptors', done # "NONE", Accepts(pkt), pkt)
  BY <1>0, DescriptorsEdge DEF EdgeInputs, InputsOK
<1> DEFINE L == Len(Descriptors)
           LP == Len(Descriptors')
           D(i) == Descriptors[i]
           DP(i) == Descriptors'[i]
           e == IF Accepts(pkt) THEN 1 ELSE 0
<1>2. PICK d \in {0, 1} :
        /\ done # "NONE" /\ Descriptors # <<>> => d = 1
        /\ done = "NONE" => d = 0
        /\ LP = L - d + e
        /\ d <= L
        /\ \A i \in 1..(L - d) : DP(i) = D(i + d)
        /\ Accepts(pkt) => DP(L - d + 1) = pkt
  BY <1>1, Zenon DEF Moved
<1>3. L \in Nat /\ LP \in Nat /\ \A i \in 1..L : Index(D(i).psn) \in Nat
  BY <1>0, <1>2, DescriptorTypes
<1>4. /\ Accepts(pkt) => pkt.qpn = a /\ pkt.psn = np[a]
      /\ N(a) \in Nat /\ N(a)' = N(a) + e /\ e \in {0, 1} /\ N(a) = Index(np[a])
  BY AcceptedIsNext DEF N
<1>5. \A i \in 1..L : D(i).qpn = a /\ Index(D(i).psn) + L - i + 1 = N(a)
  BY <1>0 DEF Consecutive
<1>6. /\ done = "NONE" => ~m_wr_table'.we
      /\ done # "NONE" => d = 1 /\ 1 \in 1..L /\ m_wr_table' = Write(a, D(1).psn)
  BY <1>2, StatusAnnounces
<1>7. Announced' = d
  <2>1. CASE done = "NONE"
    BY <1>2, <1>6, <2>1 DEF Announced
  <2>2. CASE done # "NONE"
    BY <1>6, <2>2 DEF Announced, Write
  <2> QED BY <2>1, <2>2
<1> HIDE DEF L, LP, D, DP, e
<1>8. ASSUME NEW i \in 1..LP PROVE DP(i).qpn = a /\ Index(DP(i).psn) + LP - i + 1 = N(a)'
  <2>1. CASE i <= L - d
    <3>1. i \in 1..(L - d) /\ i + d \in 1..L
      BY <1>2, <1>3, <2>1
    <3>2. DP(i) = D(i + d)
      BY <1>2, <3>1
    <3>3. Index(D(i + d).psn) \in Nat /\ D(i + d).qpn = a
          /\ Index(D(i + d).psn) + L - (i + d) + 1 = N(a)
      BY <1>3, <1>5, <3>1
    <3>4. \A k \in Nat : k + L - (i + d) + 1 = N(a) => k + LP - i + 1 = N(a)'
      BY <1>2, <1>3, <1>4
    <3> QED BY <3>2, <3>3, <3>4
  <2>2. CASE ~(i <= L - d)
    <3>1. Accepts(pkt) /\ i = L - d + 1 /\ LP = i /\ e = 1
      BY <1>2, <1>3, <2>2 DEF e
    <3>2. DP(i) = pkt
      BY <1>2, <3>1
    <3> QED BY <1>3, <1>4, <3>1, <3>2
  <2> QED BY <2>1, <2>2
<1>9. m_wr_table'.we => Index(m_wr_table'.psn) + LP + 1 = N(a)'
  <2> SUFFICES ASSUME m_wr_table'.we PROVE Index(m_wr_table'.psn) + LP + 1 = N(a)'
    OBVIOUS
  <2>1. d = 1 /\ 1 \in 1..L /\ m_wr_table'.psn = D(1).psn
    BY <1>6 DEF Write
  <2>2. Index(D(1).psn) + L - 1 + 1 = N(a) /\ Index(D(1).psn) \in Nat
    BY <1>3, <1>5, <2>1
  <2> QED BY <1>2, <1>3, <1>4, <2>1, <2>2
<1>10. Announced' + LP = L + e
  BY <1>2, <1>3, <1>4, <1>7
<1> QED BY <1>3, <1>8, <1>9, <1>10 DEF L, LP, DP, e

\* One edge keeps what wr_table, the announcement and the packets under way add up to.
LEMMA ConsecutiveEdge ==
    ASSUME NEW a, NEW cm, NEW close, NEW pkt, NEW take, NEW done, NEW arrives, NEW outcome,
           Keeps(a, cm, close, pkt, take, done, arrives, outcome)
    PROVE  Consecutive(a)'
<1> DEFINE L == Len(Descriptors)
           LP == Len(Descriptors')
           AP == Announced'
           NP == N(a)'
           e == IF Accepts(pkt) THEN 1 ELSE 0
<1>1. /\ \A i \in 1..LP : /\ Descriptors'[i].qpn = a
                          /\ Index(Descriptors'[i].psn) + LP - i + 1 = N(a)'
      /\ m_wr_table'.we => Index(m_wr_table'.psn) + LP + 1 = N(a)'
  BY UnderWayEdge
<1>6. /\ AP + LP = L + e
      /\ L \in Nat /\ LP \in Nat
  BY UnderWayEdge
<1>2. N(a) \in Nat /\ NP = N(a) + e /\ e \in Nat /\ AP \in Nat /\ Announced \in Nat
  BY AcceptedIsNext DEF Announced
<1>3. /\ Fresh(a) => L = 0 /\ N(a) = 0
  BY FewDescriptors DEF Keeps, Lives, Data
<1>4. Consecutive(a)
  BY DEF Keeps, Data
<1> HIDE DEF L, LP, AP, NP, e
<1>5. conn'[a] = "open" => (IF m_table_rst'.we THEN 0 ELSE W(a)') + AP + LP = NP
  <2> SUFFICES ASSUME conn'[a] = "open"
               PROVE  (IF m_table_rst'.we THEN 0 ELSE W(a)') + AP + LP = NP
    OBVIOUS
  <2>0. /\ conn[a] = "open" => ~m_table_rst'.we
        /\ conn[a] = "none" => m_table_rst'.we
        /\ conn[a] \in {"none", "open"}
    BY LifeParts DEF Keeps, Running, Opening
  <2>1. CASE conn[a] = "none"
    <3>1. 0 + AP + LP = NP
      BY <1>2, <1>3, <1>6, <2>1 DEF Fresh
    <3> QED BY <2>0, <2>1, <3>1
  <2>2. CASE Opening(a)
    <3>1. W(a)' = 0 /\ ~m_table_rst'.we
      BY <2>0, <2>2, TableFollows DEF Opening
    <3>2. 0 + AP + LP = NP
      BY <1>2, <1>3, <1>6, <2>2 DEF Fresh
    <3> QED BY <3>1, <3>2
  <2>3. CASE Running(a)
    <3>1. W(a)' = W(a) + Announced /\ ~m_table_rst'.we /\ W(a) \in Nat
      BY <2>0, <2>3, TableFollows DEF Running
    <3>2. W(a) + Announced + L = N(a)
      BY <1>4, <2>3 DEF Consecutive, Running, L
    <3>3. W(a) + Announced + AP + LP = NP
      BY <1>2, <1>6, <3>1, <3>2
    <3> QED BY <3>1, <3>3
  <2> QED BY <2>0, <2>1, <2>2, <2>3 DEF Opening, Running
<1> QED BY <1>1, <1>5 DEF Consecutive, Index, PsnDist, LP, AP, NP

-----------------------------------------------------------------------------
(* The slots.                                                              *)

\* Two packets of the window have different slots.
LEMMA WindowSlots ==
    ASSUME NEW H \in Nat, H >= 1, PSN_MOD % H = 0, NEW c \in Nat, NEW n \in Nat, n <= c + H,
           NEW p \in Psn, NEW r \in Psn, c <= Index(p), Index(p) < n, c <= Index(r), Index(r) < n,
           p # r
    PROVE  p % H # r % H
<1>1. Index(p) \in Nat /\ Index(r) \in Nat /\ Index(p) # Index(r)
  BY Counts, IndexInjective
<1>2. CASE Index(r) < Index(p)
  <2>1. Index(p) - Index(r) < H
    BY <1>1
  <2> QED BY <1>2, <2>1, DistinctMod
<1>3. CASE Index(p) < Index(r)
  <2>1. Index(r) - Index(p) < H
    BY <1>1
  <2>2. r % H # p % H
    BY <1>3, <2>1, DistinctMod
  <2> QED BY <2>2
<1> QED BY <1>1, <1>2, <1>3

\* The packets under way are in the window, after all that is announced.
LEMMA UnderWayInWindow ==
    ASSUME NEW a, NEW cm, NEW close, NEW pkt, NEW take, NEW done, NEW arrives, NEW outcome,
           Keeps(a, cm, close, pkt, take, done, arrives, outcome), Running(a)
    PROVE  /\ C(a) \in Nat /\ N(a) \in Nat /\ W(a) \in Nat /\ C(a) <= W(a)
           /\ N(a) <= C(a) + HDR_SLOTS
           /\ W(a) + Announced <= N(a)
           /\ \A i \in 1..Len(Descriptors) :
                /\ Descriptors[i].psn \in Psn
                /\ C(a) <= Index(Descriptors[i].psn) /\ Index(Descriptors[i].psn) < N(a)
<1>0. /\ a \in QPs /\ TypeOK /\ WriteTypes /\ Bounds(a) /\ Consecutive(a)
      /\ Window < HDR_SLOTS /\ Window \in Nat /\ HDR_SLOTS \in Nat
  BY LifeParts, NetworkAssumption, WriteAssumption, PsnAssumption
     DEF Keeps, Lives, Session, Ordered, Data, DataSetting, Setting
<1>1. C(a) \in Nat /\ N(a) \in Nat /\ W(a) \in Nat /\ E(a) \in Nat
  BY <1>0, PointerTypes
<1>2. C(a) <= W(a) /\ N(a) <= C(a) + Window
  BY <1>0, <1>1 DEF Bounds
<1>3. W(a) + Announced + Len(Descriptors) = N(a) /\ Announced \in {0, 1}
  BY <1>0 DEF Consecutive, Running, Announced
<1>4. Len(Descriptors) \in Nat
  BY <1>0, DescriptorTypes
<1>5. ASSUME NEW i \in 1..Len(Descriptors)
      PROVE  /\ Descriptors[i].psn \in Psn
             /\ C(a) <= Index(Descriptors[i].psn) /\ Index(Descriptors[i].psn) < N(a)
  <2>1. Descriptors[i].psn \in Psn /\ Index(Descriptors[i].psn) \in Nat
    BY <1>0, DescriptorTypes
  <2>2. Index(Descriptors[i].psn) + Len(Descriptors) - i + 1 = N(a)
    BY <1>0 DEF Consecutive
  <2> QED BY <1>1, <1>2, <1>3, <1>4, <2>1, <2>2, SMTT(30)
<1> QED BY <1>0, <1>1, <1>2, <1>3, <1>4, <1>5, SMTT(30)

\* No header of the window is overwritten.
LEMMA HeaderKept ==
    ASSUME NEW a, NEW cm, NEW close, NEW pkt, NEW take, NEW done, NEW arrives, NEW outcome,
           Keeps(a, cm, close, pkt, take, done, arrives, outcome), Running(a),
           NEW p \in Psn, C(a) <= Index(p), Index(p) < N(a), HeaderHeld(a, p)
    PROVE  hdr_ram'[a][HdrSlotOf(p)] = p
<1>0. /\ a \in QPs /\ WriteTypes /\ WriteEdge(pkt, take, done, cm, close) /\ PSN_MOD % HDR_SLOTS = 0
      /\ Consecutive(a)
  BY LifeParts DEF Keeps, DataSetting, Setting, Data
<1>1. hdr_ram' = IF dma_desc = NoPkt THEN hdr_ram
                 ELSE [hdr_ram EXCEPT ![dma_desc.qpn][HdrSlotOf(dma_desc.psn)] = dma_desc.psn]
  BY <1>0 DEF WriteEdge, WriteStep, WriteFsm
<1>2. HdrSlotOf(p) \in 0..(HDR_SLOTS - 1) /\ hdr_ram[a][HdrSlotOf(p)] = p
  BY PsnSteps DEF HeaderHeld
<1>3. CASE dma_desc = NoPkt
  BY <1>1, <1>2, <1>3
<1>4. CASE dma_desc # NoPkt
  <2> DEFINE n == Len(dma_busy \o desc_fifo)
             r == dma_desc.psn
  <2>1. n \in Nat /\ Len(Descriptors) = n + 1 /\ Descriptors[n + 1] = dma_desc
    BY <1>0, <1>4, ChainFront
  <2>2. n + 1 \in 1..Len(Descriptors)
    BY <2>1
  <2>3. dma_desc.qpn = a
    BY <1>0, <2>1, <2>2 DEF Consecutive
  <2>4. r \in Psn /\ C(a) <= Index(r) /\ Index(r) < N(a)
    BY <2>1, <2>2, UnderWayInWindow
  <2>5. /\ C(a) \in Nat /\ N(a) \in Nat /\ N(a) <= C(a) + HDR_SLOTS
        /\ HDR_SLOTS \in Nat /\ HDR_SLOTS >= 1
    BY UnderWayInWindow, WriteAssumption, PsnAssumption
  <2> HIDE DEF r, n
  <2>6. p # r => HdrSlotOf(p) # HdrSlotOf(r)
    BY <1>0, <2>4, <2>5, WindowSlots DEF HdrSlotOf
  <2>7. hdr_ram' = [hdr_ram EXCEPT ![a][HdrSlotOf(r)] = r]
    BY <1>1, <1>4, <2>3 DEF r
  <2> QED BY <1>0, <1>2, <2>6, <2>7 DEF WriteTypes
<1> QED BY <1>3, <1>4

-----------------------------------------------------------------------------
(* One edge keeps what is stored.                                          *)

\* The headers of the packets that have left the register.
LEMMA ChainHeaders ==
    ASSUME NEW a, NEW cm, NEW close, NEW pkt, NEW take, NEW done, NEW arrives, NEW outcome,
           Keeps(a, cm, close, pkt, take, done, arrives, outcome)
    PROVE  \A x \in ItemsOf(dma_busy' \o desc_fifo') : hdr_ram'[a][HdrSlotOf(x.psn)] = x.psn
<1> DEFINE chain == dma_busy \o desc_fifo
           next == dma_busy' \o desc_fifo'
<1>0. /\ a \in QPs /\ WriteTypes /\ EdgeInputs(pkt, done, cm, close) /\ take \in BOOLEAN
      /\ WriteEdge(pkt, take, done, cm, close) /\ ReadyMeansFree /\ Consecutive(a) /\ Stored(a)
      /\ TypeOK
  BY LifeParts, EngineInputs DEF Keeps, Lives, Data, EngineEdge
<1>1. Moved(chain, next, done # "NONE", dma_desc # NoPkt /\ DescReady, dma_desc)
  BY <1>0, DescriptorsEdge DEF EdgeInputs, InputsOK
<1>2. /\ Len(chain) \in Nat
      /\ \A i \in 1..Len(chain) : i \in 1..Len(Descriptors) /\ chain[i] = Descriptors[i]
      /\ dma_desc # NoPkt => Len(Descriptors) = Len(chain) + 1
                             /\ Descriptors[Len(chain) + 1] = dma_desc
  BY <1>0, ChainFront
<1>3. \A i \in 1..Len(chain) : HeaderHeld(a, chain[i].psn)
  BY <1>0 DEF Stored, ItemsOf
<1> HIDE DEF chain, next
<1> SUFFICES ASSUME NEW j \in 1..Len(next)
             PROVE  hdr_ram'[a][HdrSlotOf(next[j].psn)] = next[j].psn
  BY DEF ItemsOf, next
<1>4. \/ \E k \in 1..Len(chain) : next[j] = chain[k]
      \/ dma_desc # NoPkt /\ next[j] = dma_desc
  <2>1. PICK d \in {0, 1} :
          /\ Len(next) = Len(chain) - d + (IF dma_desc # NoPkt /\ DescReady THEN 1 ELSE 0)
          /\ d <= Len(chain)
          /\ \A i \in 1..(Len(chain) - d) : next[i] = chain[i + d]
          /\ dma_desc # NoPkt /\ DescReady => next[Len(chain) - d + 1] = dma_desc
    BY <1>1, Zenon DEF Moved
  <2>2. CASE j <= Len(chain) - d
    <3>1. j \in 1..(Len(chain) - d) /\ j + d \in 1..Len(chain)
      BY <1>2, <2>1, <2>2
    <3> QED BY <2>1, <3>1
  <2>3. CASE ~(j <= Len(chain) - d)
    <3>1. dma_desc # NoPkt /\ DescReady /\ j = Len(chain) - d + 1
      BY <1>2, <2>1, <2>3
    <3> QED BY <2>1, <3>1
  <2> QED BY <2>2, <2>3
<1>5. conn[a] \in {"none", "open"}
  BY LifeParts DEF Keeps
<1>6. ASSUME Fresh(a) PROVE FALSE
  <2>1. Len(Descriptors) = 0
    BY <1>6, FewDescriptors DEF Keeps, Lives, Data
  <2>2. CASE \E k \in 1..Len(chain) : next[j] = chain[k]
    BY <1>2, <2>1, <2>2
  <2>3. CASE dma_desc # NoPkt
    BY <1>2, <2>1, <2>3
  <2> QED BY <1>4, <2>2, <2>3
<1>7. Running(a)
  BY <1>5, <1>6 DEF Fresh, Opening, Running
<1>8. ASSUME NEW k \in 1..Len(chain), next[j] = chain[k]
      PROVE  hdr_ram'[a][HdrSlotOf(next[j].psn)] = next[j].psn
  <2> DEFINE p == Descriptors[k].psn
  <2>1. chain[k] = Descriptors[k] /\ k \in 1..Len(Descriptors)
    BY <1>2
  <2>2. p \in Psn /\ C(a) <= Index(p) /\ Index(p) < N(a)
    BY <1>7, <2>1, UnderWayInWindow
  <2>3. HeaderHeld(a, p)
    BY <1>3, <2>1
  <2> HIDE DEF p
  <2>4. hdr_ram'[a][HdrSlotOf(p)] = p
    BY <1>7, <2>2, <2>3, HeaderKept
  <2> QED BY <1>8, <2>1, <2>4 DEF p
<1>9. ASSUME dma_desc # NoPkt, next[j] = dma_desc
      PROVE  hdr_ram'[a][HdrSlotOf(next[j].psn)] = next[j].psn
  <2>1. hdr_ram' = [hdr_ram EXCEPT ![dma_desc.qpn][HdrSlotOf(dma_desc.psn)] = dma_desc.psn]
    BY <1>0, <1>9 DEF WriteEdge, WriteStep, WriteFsm
  <2>2. Len(chain) + 1 \in 1..Len(Descriptors)
    BY <1>2, <1>9
  <2>3. dma_desc.qpn = a /\ dma_desc.psn \in Psn
    BY <1>0, <1>2, <1>9, <2>2, DescriptorTypes DEF Consecutive
  <2>4. HdrSlotOf(dma_desc.psn) \in 0..(HDR_SLOTS - 1)
    BY <2>3, PsnSteps
  <2>5. hdr_ram'[a][HdrSlotOf(dma_desc.psn)] = dma_desc.psn
    BY <1>0, <2>1, <2>3, <2>4 DEF WriteTypes
  <2> QED BY <1>9, <2>5
<1> QED BY <1>4, <1>8, <1>9

\* What is announced has its header in the RAM.
LEMMA AnnouncedHeld ==
    ASSUME NEW a, NEW cm, NEW close, NEW pkt, NEW take, NEW done, NEW arrives, NEW outcome,
           Keeps(a, cm, close, pkt, take, done, arrives, outcome), m_wr_table'.we
    PROVE  hdr_ram'[a][HdrSlotOf(m_wr_table'.psn)] = m_wr_table'.psn
<1> DEFINE p == Descriptors[1].psn
<1>0. a \in QPs /\ WriteTypes /\ Stored(a) /\ TypeOK
  BY LifeParts DEF Keeps, Data
<1>1. /\ 1 \in 1..Len(dma_busy \o desc_fifo) /\ 1 \in 1..Len(Descriptors)
      /\ Descriptors[1] = (dma_busy \o desc_fifo)[1] /\ Descriptors # <<>>
      /\ m_wr_table' = Write(a, p)
  BY StatusAnnounces
<1>2. HeaderHeld(a, p)
  BY <1>0, <1>1 DEF Stored, ItemsOf
<1>3. Running(a)
  <2>1. ~Fresh(a)
    BY <1>1, FewDescriptors DEF Keeps, Lives, Data
  <2>2. conn[a] \in {"none", "open"}
    BY LifeParts DEF Keeps
  <2> QED BY <2>1, <2>2 DEF Fresh, Opening, Running
<1>4. p \in Psn /\ C(a) <= Index(p) /\ Index(p) < N(a)
  BY <1>1, <1>3, UnderWayInWindow
<1>5. m_wr_table'.psn = p
  BY <1>1 DEF Write
<1> HIDE DEF p
<1>6. hdr_ram'[a][HdrSlotOf(p)] = p
  BY <1>2, <1>3, <1>4, HeaderKept
<1> QED BY <1>5, <1>6

\* One edge keeps the headers of the window.
LEMMA StoredKept ==
    ASSUME NEW a, NEW cm, NEW close, NEW pkt, NEW take, NEW done, NEW arrives, NEW outcome,
           Keeps(a, cm, close, pkt, take, done, arrives, outcome)
    PROVE  Stored(a)'
<1>0. /\ a \in QPs /\ TypeOK /\ Stored(a) /\ Always(a) /\ WriteTypes /\ TypeOK'
      /\ conn[a] \in {"none", "open"} /\ (Running(a)' => conn[a] = "open")
  BY LifeParts DEF Keeps, Lives, Data, Running, Opening
<1>1. ASSUME Running(a)', NEW p \in Psn, C(a)' <= Index(p), Index(p) < W(a)'
      PROVE  hdr_ram'[a][HdrSlotOf(p)] = p
  <2>1. Index(p) \in Nat
    BY Counts
  <2>2. Running(a)
    <3>1. ~Opening(a)
      BY <1>1, <2>1, TableFollows
    <3> QED BY <1>0, <1>1, <3>1 DEF Opening, Running
  <2>3. C(a) <= C(a)' /\ C(a)' \in Nat
    BY <2>2, CplMoves, PointerRanges DEF Keeps
  <2>4. C(a) <= Index(p)
    BY <1>1, <2>1, <2>2, <2>3, UnderWayInWindow
  <2>5. W(a)' = W(a) + Announced /\ Announced \in {0, 1} /\ W(a) \in Nat
    BY <2>2, TableFollows DEF Announced
  <2>6. Index(p) < N(a)
    <3>1. W(a) + Announced <= N(a) /\ N(a) \in Nat
      BY <2>2, UnderWayInWindow
    <3> QED BY <1>1, <2>1, <2>5, <3>1
  <2>7. HeaderHeld(a, p)
    <3>1. CASE Index(p) < W(a)
      BY <1>0, <2>2, <2>4, <3>1 DEF Stored
    <3>2. CASE ~(Index(p) < W(a))
      <4>1. Index(p) = W(a) /\ Announced = 1
        BY <1>1, <2>1, <2>5, <3>2
      <4>2. m_wr_table.we /\ Index(m_wr_table.psn) = W(a)
        BY <2>2, <4>1, TableFollows DEF Announced
      <4>3. m_wr_table.psn \in Psn
        BY <1>0 DEF WriteTypes, WritePort
      <4>4. p = m_wr_table.psn
        BY <4>1, <4>2, <4>3, IndexInjective
      <4> QED BY <1>0, <4>2, <4>4 DEF Stored
    <3> QED BY <3>1, <3>2
  <2> QED BY <2>2, <2>4, <2>6, <2>7, HeaderKept
<1>2. m_wr_table'.we => hdr_ram'[a][HdrSlotOf(m_wr_table'.psn)] = m_wr_table'.psn
  BY AnnouncedHeld
<1>3. \A x \in ItemsOf(dma_busy' \o desc_fifo') : hdr_ram'[a][HdrSlotOf(x.psn)] = x.psn
  BY ChainHeaders
<1>4. Running(a)' => \A p \in Psn : C(a)' <= Index(p) /\ Index(p) < W(a)' =>
                       hdr_ram'[a][HdrSlotOf(p)] = p
  BY <1>1
<1> QED BY <1>2, <1>3, <1>4 DEF Stored, HeaderHeld, ItemsOf, HdrSlotOf, Index, PsnDist

-----------------------------------------------------------------------------
(* The invariant, and what it implies.                                     *)

\* One edge keeps all of it while the connection lasts.
LEMMA DataEdge ==
    ASSUME NEW a, NEW cm, NEW close, NEW pkt, NEW take, NEW done, NEW arrives, NEW outcome,
           Keeps(a, cm, close, pkt, take, done, arrives, outcome)
    PROVE  Data(a)'
<1>0. /\ WriteTypes /\ EdgeInputs(pkt, done, cm, close) /\ take \in BOOLEAN
      /\ WriteEdge(pkt, take, done, cm, close)
      /\ ReadyMeansFree /\ FlushedClosed /\ Chained /\ ~StaleProducer
  BY LifeParts, EngineInputs DEF Keeps, Lives, Data, EngineEdge, Setting
<1>1. ReadyMeansFree' /\ FlushedClosed'
  BY <1>0, ReadyEdge, FlushEdge
<1>2. Len(Descriptors) <= ENTRY_DEPTH
  <2>1. Len(Descriptors) <= Window /\ Len(Descriptors) \in Nat
    BY FewDescriptors DEF Keeps, Lives, Data
  <2> QED BY <2>1, WriteAssumption, NetworkAssumption DEF Keeps, DataSetting
<1>3. Chained'
  BY <1>0, <1>2, ChainedEdge
<1> QED BY <1>1, <1>3, ConsecutiveEdge, StoredKept DEF Data

\* The invariant holds after reset.
LEMMA DataInit ==
    ASSUME NEW a, DataSetting(a)
    PROVE  Init => DataInv(a)
<1> SUFFICES ASSUME Init PROVE DataInv(a)
  OBVIOUS
<1>1. PointerInv(a) /\ a \in QPs
  BY PointerInit DEF DataSetting, Setting
<1>2. /\ w_state = "IDLE" /\ bth_ready = FALSE /\ dma_desc = NoPkt /\ wr_entry = NoPkt
      /\ desc_fifo = <<>> /\ entry_fifo = <<>> /\ dma_busy = <<>>
      /\ \A q \in QPs : qp_flush[q] = FALSE /\ conn[q] = "none"
      /\ ~m_wr_table.we
  BY DEF Init, WriteInit, EnvInit, NoWrite
<1>3. dma_busy \o desc_fifo = <<>> /\ Descriptors = <<>>
  BY <1>2 DEF Descriptors, Registered
<1>4. ReadyMeansFree /\ FlushedClosed /\ Chained
  BY <1>2, <1>3 DEF ReadyMeansFree, FlushedClosed, Chained
<1>5. Consecutive(a)
  BY <1>1, <1>2, <1>3 DEF Consecutive
<1>6. Stored(a)
  BY <1>1, <1>2, <1>3 DEF Stored, Running, ItemsOf
<1> QED BY <1>1, <1>4, <1>5, <1>6 DEF DataInv, Data

\* A stuttering step keeps it.
LEMMA DataStutter ==
    ASSUME NEW a, Data(a), UNCHANGED vars
    PROVE  Data(a)'
<1>1. /\ UNCHANGED <<wr_table, cpl_table, m_table_rst, m_wr_table, conn, np, w_state, bth_ready>>
      /\ UNCHANGED <<dma_desc, wr_entry, desc_fifo, entry_fifo, dma_busy, hdr_ram, qp_flush>>
  BY DEF vars, tableVars, writeVars, envVars
<1>2. Descriptors' = Descriptors /\ W(a)' = W(a) /\ C(a)' = C(a) /\ N(a)' = N(a)
  BY <1>1 DEF Descriptors, Registered, W, C, N, Count, Index
<1>3. ReadyMeansFree' /\ FlushedClosed' /\ Chained'
  BY <1>1, <1>2 DEF Data, ReadyMeansFree, FlushedClosed, Chained, DescReady
<1>4. Consecutive(a)'
  BY <1>1, <1>2 DEF Data, Consecutive, Announced
<1>5. Stored(a)'
  BY <1>1, <1>2 DEF Data, Stored, Running, HeaderHeld, ItemsOf
<1> QED BY <1>3, <1>4, <1>5 DEF Data

\* The invariant is inductive.
LEMMA DataStep ==
    ASSUME NEW a, DataSetting(a)
    PROVE  DataInv(a) /\ [Next]_vars => DataInv(a)'
<1> SUFFICES ASSUME DataInv(a), [Next]_vars PROVE DataInv(a)'
  OBVIOUS
<1>0. PointerInv(a)' /\ Setting(a)
  BY PointerStep DEF DataInv, DataSetting
<1>1. CASE Next
  <2>1. PICK cm, close, pkt, take, done, arrives, outcome :
          EngineEdge(cm, close, pkt, take, done, arrives, outcome)
    BY <1>1, NextIsEngineEdge
  <2>2. ASSUME conn'[a] # "closed" PROVE Data(a)'
    <3>1. conn[a] # "closed"
      BY <1>0, <2>1, <2>2, StaysClosed DEF DataInv
    <3>2. Lives(a, cm, close, pkt, take, done, arrives, outcome)
      BY <1>0, <2>1, <2>2, <3>1 DEF Lives, PointerInv, DataInv
    <3>3. Keeps(a, cm, close, pkt, take, done, arrives, outcome)
      BY <3>1, <3>2 DEF Keeps, DataInv
    <3> QED BY <3>3, DataEdge
  <2> QED BY <1>0, <2>2 DEF DataInv
<1>2. CASE UNCHANGED vars
  <2>1. conn' = conn
    BY <1>2 DEF vars, envVars
  <2>2. conn'[a] # "closed" => Data(a)'
    BY <1>2, <2>1, DataStutter DEF DataInv
  <2> QED BY <1>0, <2>2 DEF DataInv
<1> QED BY <1>1, <1>2

-----------------------------------------------------------------------------
(* Go-back-N.                                                              *)

\* Packets up to the last one that has been launched.
Sent(a) == IF m_rd_table.we THEN Count(m_rd_table.psn) ELSE R(a)

\* The counters of GoBackN are the pointers, while the connection runs.
LEMMA Counters ==
    ASSUME NEW a \in QPs
    PROVE  /\ Accepted(a) = IF conn[a] = "open" THEN N(a) ELSE 0
           /\ Running(a) =>
                /\ Since(a, Count(wr_table[a])) = W(a) /\ Since(a, Count(cpl_table[a])) = C(a)
                /\ Since(a, PsnDist(epsn[a], OpenPsn)) = E(a)
                /\ Since(a, Count(LastSent(a))) = Sent(a)
           /\ ~Running(a) => \A n : Since(a, n) = 0
BY DEF Accepted, Since, LastSent, Sent, W, C, E, R, N, Index

\* The same after an edge.
LEMMA CountersNext ==
    ASSUME NEW a \in QPs
    PROVE  /\ Accepted(a)' = IF conn'[a] = "open" THEN N(a)' ELSE 0
           /\ Running(a)' =>
                /\ Since(a, Count(wr_table[a]))' = W(a)' /\ Since(a, Count(cpl_table[a]))' = C(a)'
                /\ Since(a, PsnDist(epsn[a], OpenPsn))' = E(a)'
                /\ Since(a, Count(LastSent(a)))' = Sent(a)'
           /\ ~Running(a)' =>
                /\ Since(a, Count(wr_table[a]))' = 0 /\ Since(a, Count(cpl_table[a]))' = 0
                /\ Since(a, PsnDist(epsn[a], OpenPsn))' = 0 /\ Since(a, Count(LastSent(a)))' = 0
BY DEF Accepted, Since, LastSent, Sent, W, C, E, R, N, Index, Count, PsnDist, PsnInc, Running

\* After reset nothing is connected.
LEMMA SenderInit ==
    ASSUME NEW a \in QPs
    PROVE  Init => Sender(a)!ConnInit
<1> SUFFICES ASSUME Init PROVE Sender(a)!ConnInit
  OBVIOUS
<1>1. conn[a] = "none"
  BY DEF Init, EnvInit
<1>2. ~Running(a)
  BY <1>1 DEF Running
<1> QED BY <1>1, <1>2, Counters DEF Sender!ConnInit

\* The responder takes the packet it expects when this is the one launched.
LEMMA TakenInTurn ==
    ASSUME NEW a, NEW cm, NEW close, NEW pkt, NEW take, NEW done, NEW arrives, NEW outcome,
           Keeps(a, cm, close, pkt, take, done, arrives, outcome), Running(a)
    PROVE  E(a)' = E(a) \/ (Launching /\ rr_qpn = a /\ E(a) = R(a) /\ E(a)' = E(a) + 1)
<1>1. Lives(a, cm, close, pkt, take, done, arrives, outcome)
  BY DEF Keeps
<1>2. /\ a \in QPs /\ TypeOK /\ Responds(outcome)
      /\ W(a) \in Nat /\ R(a) \in Nat /\ C(a) \in Nat /\ E(a) \in Nat
  BY <1>1, LifeParts, PointerRanges
<1>3. /\ OnlyOne(a) /\ RdWriteStates /\ Bounds(a) /\ ReadFits(a) /\ Stored(a)
  BY <1>1 DEF Keeps, Lives, Always, Session, Ordered, Data
<1>4. E(a)' = E(a) \/ (Launching /\ rr_qpn = a /\ E(a) <= R(a) /\ E(a)' = E(a) + 1)
  BY <1>1, EpsnMoves
<1>5. epsn'[a] = epsn[a] \/ Taken(a)
  BY <1>2, <1>3, ResponseShape
<1>6. epsn'[a] = epsn[a] => E(a)' = E(a)
  BY DEF E, Index, PsnDist
<1>7. ASSUME Taken(a), E(a) <= R(a) PROVE E(a) = R(a)
  <2>1. LaunchedPsn \in Psn /\ Index(LaunchedPsn) = R(a) /\ R(a) + 1 <= W(a)
    BY <1>2, <1>3, <1>7, LaunchAt DEF Taken
  <2>2. C(a) <= Index(LaunchedPsn) /\ Index(LaunchedPsn) < W(a)
    BY <1>2, <1>3, <1>7, <2>1 DEF Bounds
  <2>3. HeaderHeld(a, LaunchedPsn)
    BY <1>3, <2>1, <2>2 DEF Stored
  <2>4. LaunchedPsn = epsn[a]
    BY <1>7, <2>3 DEF Taken, HeaderHeld
  <2> QED BY <2>1, <2>4 DEF E
<1> QED BY <1>4, <1>5, <1>6, <1>7

\* What has been sent grows with a launch and falls with a rewind.
LEMMA SentMoves ==
    ASSUME NEW a, NEW cm, NEW close, NEW pkt, NEW take, NEW done, NEW arrives, NEW outcome,
           Lives(a, cm, close, pkt, take, done, arrives, outcome), Running(a)
    PROVE  /\ Sent(a) \in Nat
           /\ \/ Sent(a)' = Sent(a) /\ ~Launching
              \/ Launching /\ rr_qpn = a /\ Sent(a) = R(a) /\ R(a) < W(a) /\ Sent(a)' = R(a) + 1
              \/ /\ ~Launching /\ Sent(a)' \in Nat /\ Sent(a)' <= C(a)
                 /\ E(a) <= Sent(a)' + Window
<1>0. W(a) \in Nat /\ R(a) \in Nat /\ C(a) \in Nat /\ E(a) \in Nat /\ Window \in Nat
  BY PointerRanges
<1>1. a \in QPs /\ TypeOK /\ ReadMoves
  BY LifeParts
<1>2. /\ CalmTimers /\ TimedOutIsOut /\ RdWriteStates
      /\ RewindKept(a) /\ OthersUnused(a) /\ OthersRest(a) /\ conn[a] = "open"
      /\ Bounds(a) /\ (RdFits(a) \/ RdUnused(a)) /\ ReadFits(a) /\ ~CounterOut(timeout_period)
  BY DEF Lives, Always, Session, Ordered, Running, Setting
<1>3. /\ ~m_rd_table.we => rd_table'[a] = rd_table[a]
      /\ m_rd_table.we => rd_table'[a] = m_rd_table.psn /\ ~Launching
  BY AllMove DEF PointerMoves
<1>4. rr_qpn \in QPs /\ m_rd_table \in WritePort /\ m_rd_table.psn \in Psn
  BY <1>1 DEF TypeOK, WritePort
<1>5. Sent(a)' = IF m_rd_table'.we THEN Count(m_rd_table'.psn) ELSE Count(rd_table'[a])
  BY DEF Sent, R, Count, PsnDist, PsnInc
<1>6. Sent(a) = IF m_rd_table.we THEN Count(m_rd_table.psn) ELSE Count(rd_table[a])
  BY DEF Sent, R
<1>7. Sent(a) \in Nat
  BY <1>0, <1>4, Counts DEF Sent
<1>8. CASE Launching
  <2>1. rr_qpn = a
    BY <1>2, <1>4, <1>8 DEF OthersUnused, Unused, Launching
  <2>2. Count(LaunchedPsn) = R(a) + 1 /\ R(a) + 1 <= W(a) /\ ~m_rd_table.we
    BY <1>1, <1>2, <1>8, <2>1, LaunchAt
  <2>3. m_rd_table'.we /\ m_rd_table'.psn = LaunchedPsn
    BY <1>1, <1>8 DEF ReadMoves, RdMoves, Write
  <2>4. Sent(a) = R(a)
    BY <2>2 DEF Sent
  <2> QED BY <1>0, <1>5, <1>7, <1>8, <2>1, <2>2, <2>3, <2>4
<1>9. CASE state = "UPDATE_RD_TABLE" /\ ~m_rd_table.we /\ m_rd_table' = Write(rr_qpn, RewindPsn(rr_qpn))
  <2>1. Rewinding /\ ~Launching
    BY <1>9 DEF Rewinding, Launching
  <2>2. rr_qpn = a
    <3>1. ASSUME rr_qpn # a PROVE FALSE
      <4>1. tmr[rr_qpn].timed_out
        BY <1>2, <2>1, <3>1 DEF RewindKept
      <4>2. tmr[rr_qpn].timeout_counter = timeout_period
        BY <1>2, <1>4, <3>1 DEF OthersRest, AtRest
      <4> QED BY <1>2, <1>4, <4>1, <4>2 DEF TimedOutIsOut
    <3> QED BY <3>1
  <2>3. Sent(a)' = Count(RewindPsn(a))
    BY <1>5, <1>9, <2>2 DEF Write
  <2>4. CASE tmr[a].timed_out
    <3>1. RewindPsn(a) = s_cpl /\ s_cpl \in Psn /\ Count(s_cpl) \in Nat
      BY <1>1, <2>4, Counts DEF RewindPsn, TypeOK
    <3>2. Count(s_cpl) <= C(a) /\ E(a) <= Count(s_cpl) + Window
      BY <1>2, <1>9, <2>2, <2>4 DEF ReadFits
    <3> QED BY <1>7, <2>1, <2>3, <3>1, <3>2
  <2>5. CASE ~tmr[a].timed_out
    <3>1. RewindPsn(a) = m_rd_table.psn
      BY <1>1, <1>2, <2>5 DEF RewindPsn, CalmTimers
    <3>2. RdFits(a)
      BY <1>2, <2>1, <2>2, <2>5 DEF RdUnused
    <3>3. m_rd_table.psn = rd_table[a]
      BY <1>9, <3>2 DEF RdFits
    <3> QED BY <1>6, <1>7, <1>9, <2>1, <2>3, <3>1, <3>3
  <2> QED BY <2>4, <2>5
<1>10. CASE ~Launching /\ m_rd_table' = [m_rd_table EXCEPT !.we = FALSE]
  <2>1. ~m_rd_table'.we
    BY <1>4, <1>10 DEF WritePort
  <2> QED BY <1>3, <1>5, <1>6, <1>7, <1>10, <2>1
<1> QED BY <1>1, <1>8, <1>9, <1>10 DEF ReadMoves, RdMoves

\* An edge of the open connection is one of GoBackN.
LEMMA RunningIsEdge ==
    ASSUME NEW a, NEW cm, NEW close, NEW pkt, NEW take, NEW done, NEW arrives, NEW outcome,
           Keeps(a, cm, close, pkt, take, done, arrives, outcome), Running(a)
    PROVE  Sender(a)!Edge
<1>1. Lives(a, cm, close, pkt, take, done, arrives, outcome)
  BY DEF Keeps
<1>2. /\ a \in QPs /\ Running(a)' /\ conn[a] = "open" /\ conn'[a] = "open"
  BY <1>1, LifeParts DEF Running
<1>3. /\ W(a) \in Nat /\ R(a) \in Nat /\ C(a) \in Nat /\ E(a) \in Nat /\ N(a) \in Nat
      /\ C(a)' \in Nat /\ Window \in Nat
  BY <1>1, PointerRanges
<1>4. /\ Accepted(a) = N(a) /\ Since(a, Count(wr_table[a])) = W(a)
      /\ Since(a, Count(cpl_table[a])) = C(a) /\ Since(a, PsnDist(epsn[a], OpenPsn)) = E(a)
      /\ Since(a, Count(LastSent(a))) = Sent(a)
  BY <1>2, Counters
<1>5. /\ Accepted(a)' = N(a)' /\ Since(a, Count(wr_table[a]))' = W(a)'
      /\ Since(a, Count(cpl_table[a]))' = C(a)' /\ Since(a, PsnDist(epsn[a], OpenPsn))' = E(a)'
      /\ Since(a, Count(LastSent(a)))' = Sent(a)'
  BY <1>2, CountersNext
<1>6. N(a)' = N(a) \/ (N(a) < C(a) + Window /\ N(a)' = N(a) + 1)
  <2>1. N(a)' = N(a) + (IF Accepts(pkt) THEN 1 ELSE 0)
    BY AcceptedIsNext
  <2>2. C(a) <= N(a) /\ N(a) <= C(a) + Window
    BY <1>1, <1>3 DEF Lives, Session, Ordered, Bounds
  <2>3. N(a)' <= C(a) + Window
    BY <1>1, <2>2, WindowKept
  <2> QED BY <1>3, <2>1, <2>3
<1>7. W(a)' = W(a) \/ (W(a) < N(a) /\ W(a)' = W(a) + 1)
  <2>1. W(a)' = W(a) + Announced /\ W(a) + Announced <= N(a)
    BY TableFollows, UnderWayInWindow
  <2> QED BY <1>3, <2>1 DEF Announced
<1>8. \/ Sent(a)' = Sent(a) /\ E(a)' = E(a)
      \/ /\ Sent(a) < W(a) /\ Sent(a)' = Sent(a) + 1
         /\ E(a)' = E(a) \/ (E(a) = Sent(a) /\ E(a)' = E(a) + 1)
      \/ Sent(a)' \in 0..C(a) /\ E(a) <= Sent(a)' + Window /\ E(a)' = E(a)
  BY <1>1, <1>3, SentMoves, TakenInTurn
<1>9. C(a)' \in C(a)..E(a)
  BY <1>1, <1>3, AllMove DEF PointerMoves
<1> QED BY <1>2, <1>4, <1>5, <1>6, <1>7, <1>8, <1>9
        DEF Sender!Edge, Sender!Accept, Sender!Store, Sender!Send, Sender!Rewind, Sender!Acknowledge

\* So is the edge of the reset write that follows the OPEN, at which a first packet
\* may be accepted already.
LEMMA OpeningIsEdge ==
    ASSUME NEW a, NEW cm, NEW close, NEW pkt, NEW take, NEW done, NEW arrives, NEW outcome,
           Keeps(a, cm, close, pkt, take, done, arrives, outcome), Opening(a)
    PROVE  Sender(a)!Edge
<1>1. Lives(a, cm, close, pkt, take, done, arrives, outcome)
  BY DEF Keeps
<1>2. /\ a \in QPs /\ ~Running(a) /\ Running(a)' /\ conn[a] = "open" /\ conn'[a] = "open"
  BY <1>1, LifeParts DEF Opening, Running
<1>3. /\ W(a)' = 0 /\ R(a)' = 0 /\ C(a)' = 0 /\ E(a)' = 0 /\ ~m_rd_table'.we /\ Ordered(a)'
  BY <1>1, OpeningEdge
<1>4. Sent(a)' = 0
  BY <1>3 DEF Sent
<1>5. N(a) = 0
  <2>1. np[a] = OpenPsn
    BY <1>1 DEF Lives, Session, OpeningClean
  <2> QED BY <2>1, EnvAssumption, Counts DEF N
<1>6. N(a)' = 0 \/ N(a)' = 1
  BY <1>5, AcceptedIsNext
<1>7. N(a)' <= Window /\ Window \in Nat
  <2>1. Bounds(a)'
    BY <1>2, <1>3 DEF Ordered
  <2> QED BY <1>3, <2>1, NetworkAssumption DEF Bounds
<1>8. /\ Accepted(a) = 0 /\ Since(a, Count(wr_table[a])) = 0
      /\ Since(a, Count(cpl_table[a])) = 0 /\ Since(a, PsnDist(epsn[a], OpenPsn)) = 0
      /\ Since(a, Count(LastSent(a))) = 0
  BY <1>2, <1>5, Counters
<1>9. /\ Accepted(a)' = N(a)' /\ Since(a, Count(wr_table[a]))' = 0
      /\ Since(a, Count(cpl_table[a]))' = 0 /\ Since(a, PsnDist(epsn[a], OpenPsn))' = 0
      /\ Since(a, Count(LastSent(a)))' = 0
  BY <1>2, <1>3, <1>4, CountersNext
<1> QED BY <1>2, <1>6, <1>7, <1>8, <1>9
        DEF Sender!Edge, Sender!Accept, Sender!Acknowledge

\* Before the OPEN, and after the close, nothing is counted.
LEMMA NotOpenCounts ==
    ASSUME NEW a \in QPs
    PROVE  /\ conn[a] # "open" =>
                /\ Accepted(a) = 0 /\ Since(a, Count(wr_table[a])) = 0
                /\ Since(a, Count(cpl_table[a])) = 0 /\ Since(a, PsnDist(epsn[a], OpenPsn)) = 0
                /\ Since(a, Count(LastSent(a))) = 0
           /\ conn'[a] # "open" =>
                /\ Accepted(a)' = 0 /\ Since(a, Count(wr_table[a]))' = 0
                /\ Since(a, Count(cpl_table[a]))' = 0 /\ Since(a, PsnDist(epsn[a], OpenPsn))' = 0
                /\ Since(a, Count(LastSent(a)))' = 0
<1>1. (conn[a] # "open" => ~Running(a)) /\ (conn'[a] # "open" => ~Running(a)')
  BY DEF Running
<1> QED BY <1>1, Counters, CountersNext

\* The OPEN finds nothing of an earlier connection.
LEMMA OpensAtZero ==
    ASSUME NEW a, DataInv(a)', a \in QPs, Opening(a)'
    PROVE  /\ Accepted(a)' = 0 /\ Since(a, Count(wr_table[a]))' = 0
           /\ Since(a, Count(cpl_table[a]))' = 0 /\ Since(a, PsnDist(epsn[a], OpenPsn))' = 0
           /\ Since(a, Count(LastSent(a)))' = 0
<1>1. conn'[a] = "open" /\ ~Running(a)'
  BY DEF Opening, Running
<1>2. np'[a] = OpenPsn
  BY <1>1 DEF DataInv, PointerInv, Session, OpeningClean
<1>3. N(a)' = 0
  BY <1>2, EnvAssumption, Counts DEF N, Index, PsnDist
<1> QED BY <1>1, <1>3, CountersNext

\* Every step of the engine is one of GoBackN, or leaves the connection alone.
LEMMA SenderStep ==
    ASSUME NEW a, DataSetting(a), DataInv(a), DataInv(a)', [Next]_vars
    PROVE  Sender(a)!ConnNext \/ UNCHANGED Sender(a)!connVars
<1>0. a \in QPs /\ TypeOK /\ conn[a] \in {"none", "open", "closed"}
  BY DEF DataSetting, Setting, DataInv, PointerInv, Always, ServedInv, TypeOK
<1>1. CASE Next
  <2>1. PICK cm, close, pkt, take, done, arrives, outcome :
          EngineEdge(cm, close, pkt, take, done, arrives, outcome)
    BY <1>1, NextIsEngineEdge
  <2>2. CASE conn'[a] = "closed"
    <3>1. CASE conn[a] = "closed"
      BY <1>0, <2>2, <3>1, NotOpenCounts DEF Sender!connVars, Sender!counters
    <3>2. CASE conn[a] # "closed"
      <4>1. Sender(a)!Close
        BY <1>0, <2>2, <3>2, NotOpenCounts DEF Sender!Close
      <4> QED BY <4>1 DEF Sender!ConnNext
    <3> QED BY <3>1, <3>2
  <2>3. CASE conn'[a] # "closed"
    <3>1. conn[a] # "closed"
      BY <2>1, <2>3, StaysClosed DEF DataInv, DataSetting
    <3>2. Lives(a, cm, close, pkt, take, done, arrives, outcome)
      BY <2>1, <2>3, <3>1 DEF Lives, PointerInv, DataInv, DataSetting
    <3>3. Keeps(a, cm, close, pkt, take, done, arrives, outcome)
      BY <3>1, <3>2 DEF Keeps, DataInv
    <3>4. /\ conn'[a] \in {"none", "open"}
          /\ conn'[a] = "none" => conn[a] = "none"
          /\ conn[a] = "none" /\ conn'[a] = "open" => Opening(a)'
      BY <3>2, LifeParts
    <3>5. CASE conn[a] = "none" /\ conn'[a] = "none"
      BY <1>0, <3>5, NotOpenCounts DEF Sender!connVars, Sender!counters
    <3>6. CASE conn[a] = "none" /\ conn'[a] = "open"
      <4>1. Opening(a)'
        BY <3>4, <3>6
      <4>2. Sender(a)!Open
        BY <1>0, <3>6, <4>1, NotOpenCounts, OpensAtZero DEF Sender!Open, Sender!counters
      <4> QED BY <4>2 DEF Sender!ConnNext
    <3>7. CASE conn[a] = "open"
      <4>1. Sender(a)!Edge
        <5>1. Opening(a) \/ Running(a)
          BY <3>7 DEF Opening, Running
        <5> QED BY <3>3, <5>1, OpeningIsEdge, RunningIsEdge
      <4> QED BY <4>1 DEF Sender!ConnNext
    <3> QED BY <1>0, <3>1, <3>4, <3>5, <3>6, <3>7
  <2> QED BY <2>2, <2>3
<1>2. CASE UNCHANGED vars
  <2>1. /\ conn' = conn /\ np' = np /\ m_table_rst' = m_table_rst /\ m_rd_table' = m_rd_table
        /\ wr_table' = wr_table /\ rd_table' = rd_table /\ cpl_table' = cpl_table /\ epsn' = epsn
    BY <1>2 DEF vars, tableVars, readVars, fsmVars, envVars
  <2> QED BY <2>1 DEF Sender!connVars, Sender!counters, Accepted, Since, LastSent, Running,
                      Count, PsnDist, PsnInc
<1> QED BY <1>1, <1>2

\* For one connection whose application keeps a window that fits the header RAM, and
\* a DMA engine whose writes succeed: the engine, the network and the responder
\* implement GoBackN, whatever is lost or late and wherever the PSN wraps.
THEOREM EngineGoesBackN ==
    ASSUME NEW a \in QPs, ActiveQPs \subseteq {a},
           Responses \cap {"RNR_NAK", "PSN_SEQ_NAK"} = {}, ~StaleProducer, DmaStatus \subseteq {"OK"},
           Window < HDR_SLOTS, PSN_MOD % HDR_SLOTS = 0, Window <= ENTRY_DEPTH,
           ~CounterOut(timeout_period)
    PROVE  Spec => GoesBackN
<1> DEFINE Opens == \A q \in ActiveQPs : Sender(q)!ConnInit
           Steps == \A q \in ActiveQPs : Sender(q)!ConnNext \/ UNCHANGED Sender(q)!connVars
<1>0. DataSetting(a)
  BY DEF DataSetting, Setting
<1>1. Init => DataInv(a)
  BY <1>0, DataInit
<1>2. DataInv(a) /\ [Next]_vars => DataInv(a)'
  BY <1>0, DataStep
<1>3. Init => Opens
  BY SenderInit
<1>4. DataInv(a) /\ DataInv(a)' /\ [Next]_vars => Steps
  BY <1>0, SenderStep
<1> QED BY <1>1, <1>2, <1>3, <1>4, PTL DEF Spec, GoesBackN

=============================================================================
