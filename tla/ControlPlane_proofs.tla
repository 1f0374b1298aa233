------------------------ MODULE ControlPlane_proofs -------------------------
(***************************************************************************)
(* Proofs about the control plane, for every number of queue pairs, every  *)
(* set of clients and every length of the clock crossing: it is type       *)
(* correct, with faults at any time; and when no fault of a connection     *)
(* arrives after its close the pool is sound, an ACK tells the truth, and  *)
(* every queue pair keeps its life cycle.                                  *)
(***************************************************************************)
EXTENDS ControlPlane, SequenceTheorems, FiniteSetTheorems, TLAPS

-----------------------------------------------------------------------------
(* The inductive type invariant.                                           *)

\* The QP state module is serving a request of the connection manager.
Serving == q_state \in {"OPEN_QP", "MODIFY_QP_RTS", "CLOSE_QP", "UPDATE_CONTEXT"}

ServedRequests == {r \in Requests : r.type \in ReqTypes}
Entries(S)     == [item : S, age : 0..CROSSING]
ReqEntries     == Entries(ServedRequests)
StatusEntries  == Entries({"OK", "ERROR"})

\* The registers that TypeOK leaves out, and what the FSMs know about them.
Registers ==
    /\ pool_state = "PASSTHROUGH" \/ qpn_valid => qpn_reg \in QPNs
    /\ cm_valid => cm_req \in ServedRequests
    /\ cm_state = "MODIFY_QP" /\ qp_close_req => cm_req.qpn \in QPNs
    /\ req_type \in ReqTypes \cup {"NULL"} /\ ptr \in QPNs \cup {NoQpn}
    /\ peer_reg \in CLIENTS \cup {NoClient} /\ state_temp \in QpStates
    /\ Serving => ptr \in QPNs /\ peer_reg \in CLIENTS /\ req_type \in ReqTypes
    /\ q_state = "OPEN_QP" => req_type = "OPEN"
    /\ q_state = "MODIFY_QP_RTS" => req_type = "MODIFY_RTS"
    /\ q_state = "CLOSE_QP" => req_type = "CLOSE"
    /\ q_state = "ERROR_QP" => ptr \in QPNs

\* The statuses that what is on its way may still cause, and those on their way
\* back: an OPEN may be answered twice, everything else once.
One(b) == IF b THEN 1 ELSE 0
ToCome == IF ~Serving THEN 0 ELSE IF req_type = "OPEN" THEN 2 ELSE 1
Load == 2 * One(cm_valid) + 2 * Len(req_fifo) + ToCome
        + One(qp_status # "NONE") + Len(status_fifo)

TypeInv ==
    /\ TypeOK /\ Registers
    /\ req_fifo \in Seq(ReqEntries) /\ status_fifo \in Seq(StatusEntries)
    /\ Load <= 2

-----------------------------------------------------------------------------
(* Constants and the crossing FIFOs.                                       *)

\* The values that stand for nothing are none of the values they stand beside.
LEMMA Nothings ==
    /\ NoQpn \notin QPNs /\ BadQpn \notin QPNs /\ NoQpn # BadQpn
    /\ NoReq \notin ServedRequests /\ NoReq.type = "NULL" /\ NoReq.qpn = BadQpn
    /\ N_QUEUE_PAIRS \in Nat /\ N_QUEUE_PAIRS >= 2 /\ CROSSING \in Nat /\ CROSSING >= 2
BY PowerOfTwo, CrossingAssumption
DEF QPNs, NoQpn, BadQpn, NoReq, ServedRequests, Requests, ReqTypes

\* The head of a sequence that is not empty.
LEMMA NonEmpty ==
    ASSUME NEW E, NEW s \in Seq(E)
    PROVE  /\ Len(s) \in Nat /\ DOMAIN s = 1..Len(s) /\ (s = <<>> <=> Len(s) = 0)
           /\ s # <<>> => /\ Len(s) >= 1 /\ Head(s) = s[1] /\ s[1] \in E
                          /\ Tail(s) \in Seq(E) /\ Len(Tail(s)) = Len(s) - 1
<1>1. Len(s) \in Nat /\ DOMAIN s = 1..Len(s) /\ (s = <<>> <=> Len(s) = 0)
  BY LenProperties, EmptySeq
<1> QED BY <1>1, HeadTailProperties, ElementOfSeq

\* What a crossing FIFO offers is one of its items.
LEMMA OfferedItem ==
    ASSUME NEW S, NEW fifo \in Seq(Entries(S)), NEW nothing
    PROVE  /\ Arrived(fifo) \in BOOLEAN
           /\ Arrived(fifo) => /\ fifo # <<>> /\ Len(fifo) >= 1
                               /\ Offered(fifo, nothing) = fifo[1].item /\ fifo[1].item \in S
           /\ ~Arrived(fifo) => Offered(fifo, nothing) = nothing
<1>1. fifo # <<>> => Len(fifo) >= 1 /\ Head(fifo) = fifo[1] /\ fifo[1] \in Entries(S)
  BY NonEmpty
<1>2. fifo # <<>> => fifo[1].item \in S
  BY <1>1 DEF Entries
<1> QED BY <1>1, <1>2 DEF Arrived, Offered

\* An edge of the reading clock takes away what was offered, and ages the rest.
LEMMA ReadKeeps ==
    ASSUME NEW S, NEW fifo \in Seq(Entries(S))
    PROVE  /\ Read(fifo) \in Seq(Entries(S))
           /\ Len(Read(fifo)) = Len(fifo) - One(Arrived(fifo))
           /\ ~Arrived(fifo) => \A i \in 1..Len(fifo) : Read(fifo)[i].item = fifo[i].item
<1> DEFINE rest == IF Arrived(fifo) THEN Tail(fifo) ELSE fifo
<1>1. rest \in Seq(Entries(S)) /\ Len(rest) = Len(fifo) - One(Arrived(fifo)) /\ Len(rest) \in Nat
  BY NonEmpty DEF Arrived, One
<1>2. DOMAIN rest = 1..Len(rest) /\ \A i \in 1..Len(rest) : rest[i] \in Entries(S)
  BY <1>1, LenProperties, ElementOfSeq
<1> HIDE DEF rest
<1>3. Read(fifo) = [i \in DOMAIN rest |->
         [rest[i] EXCEPT !.age = IF @ < CROSSING THEN @ + 1 ELSE @]]
  BY DEF Read, rest
<1>4. \A i \in 1..Len(rest) :
         /\ [rest[i] EXCEPT !.age = IF @ < CROSSING THEN @ + 1 ELSE @] \in Entries(S)
         /\ [rest[i] EXCEPT !.age = IF @ < CROSSING THEN @ + 1 ELSE @].item = rest[i].item
  BY <1>2, CrossingAssumption, SMTT(30) DEF Entries
<1>5. Read(fifo) \in [1..Len(rest) -> Entries(S)]
  BY <1>2, <1>3, <1>4
<1>6. Read(fifo) \in Seq(Entries(S)) /\ Len(Read(fifo)) = Len(rest)
  BY <1>1, <1>5, IsASeq, LenProperties
<1>7. ~Arrived(fifo) => rest = fifo
  BY DEF rest
<1> QED BY <1>1, <1>2, <1>3, <1>4, <1>6, <1>7

\* Appending an entry to a crossing FIFO.
LEMMA AppendKeeps ==
    ASSUME NEW S, NEW fifo \in Seq(Entries(S)), NEW x \in S
    PROVE  /\ Append(fifo, Entry(x)) \in Seq(Entries(S))
           /\ Len(Append(fifo, Entry(x))) = Len(fifo) + 1
           /\ fifo = <<>> => Append(fifo, Entry(x))[1].item = x
<1>1. Entry(x) \in Entries(S) /\ Entry(x).item = x
  BY CrossingAssumption DEF Entry, Entries
<1>2. /\ Append(fifo, Entry(x)) \in Seq(Entries(S)) /\ Len(Append(fifo, Entry(x))) = Len(fifo) + 1
      /\ Append(fifo, Entry(x))[Len(fifo) + 1] = Entry(x)
  BY <1>1, AppendProperties
<1>3. fifo = <<>> => Append(fifo, Entry(x))[1].item = x
  BY <1>1, <1>2, EmptySeq
<1> QED BY <1>2, <1>3

\* An edge of the writing clock appends what is valid.
LEMMA WrittenKeeps ==
    ASSUME NEW S, NEW fifo \in Seq(Entries(S)), NEW valid \in BOOLEAN, NEW x, valid => x \in S
    PROVE  /\ Written(fifo, valid, x) \in Seq(Entries(S))
           /\ Len(Written(fifo, valid, x)) = Len(fifo) + One(valid)
<1>1. CASE valid
  <2>1. Written(fifo, valid, x) = Append(fifo, Entry(x)) /\ x \in S
    BY <1>1 DEF Written
  <2>2. Append(fifo, Entry(x)) \in Seq(Entries(S)) /\ Len(Append(fifo, Entry(x))) = Len(fifo) + 1
    BY <2>1, AppendKeeps
  <2>3. One(valid) = 1
    BY <1>1 DEF One
  <2> QED BY <2>1, <2>2, <2>3
<1>2. CASE ~valid
  <2>1. Written(fifo, valid, x) = fifo /\ Len(fifo) \in Nat
    BY <1>2, NonEmpty DEF Written
  <2> QED BY <1>2, <2>1 DEF One
<1> QED BY <1>1, <1>2

-----------------------------------------------------------------------------
(* Type correctness.                                                       *)

\* The registers of the flip-flops that TypeOK lists in one set.
LEMMA Booleans ==
    ASSUME TypeOK
    PROVE  /\ s_qpn_ready \in BOOLEAN /\ qpn_valid \in BOOLEAN /\ cm_valid \in BOOLEAN
           /\ qp_close_req \in BOOLEAN /\ m_ready \in BOOLEAN /\ qp_active \in BOOLEAN
           /\ update_req \in BOOLEAN /\ lost \in BOOLEAN
BY DEF TypeOK

\* The FIFO of the pool keeps its type and its bound through an edge.
LEMMA PoolFifoTypes ==
    ASSUME TypeInv, PoolStep(m_ready, s_qpn)
    PROVE  /\ pool_fifo' \in Seq(QPNs) /\ Len(pool_fifo') <= N_QUEUE_PAIRS
           /\ m_qpn' \in QPNs \cup {NoQpn}
<1> DEFINE go   == (m_ready \/ m_qpn = NoQpn) /\ pool_fifo # <<>>
           rest == IF go THEN Tail(pool_fifo) ELSE pool_fifo
           new  == IF qpn_valid /\ ~FifoFull THEN <<qpn_reg>> ELSE <<>>
<1>1. pool_fifo \in Seq(QPNs) /\ Len(pool_fifo) <= N_QUEUE_PAIRS /\ N_QUEUE_PAIRS \in Nat
  BY Nothings DEF TypeInv, TypeOK
<1>2. rest \in Seq(QPNs) /\ Len(rest) <= Len(pool_fifo) /\ Len(rest) \in Nat /\ Len(pool_fifo) \in Nat
  BY <1>1, NonEmpty
<1>3. new \in Seq(QPNs) /\ Len(new) <= 1 /\ (FifoFull => Len(new) = 0) /\ Len(new) \in Nat
  BY DEF TypeInv, Registers
<1>4. pool_fifo' = rest \o new
  BY DEF PoolStep, PoolFifo
<1> HIDE DEF rest, new
<1>5. pool_fifo' \in Seq(QPNs) /\ Len(pool_fifo') = Len(rest) + Len(new)
  BY <1>2, <1>3, <1>4, ConcatProperties
<1>6. Len(pool_fifo') <= N_QUEUE_PAIRS
  BY <1>1, <1>2, <1>3, <1>5 DEF FifoFull
<1>7. pool_fifo # <<>> => Head(pool_fifo) \in QPNs
  BY <1>1, NonEmpty
<1>8. m_qpn' \in QPNs \cup {NoQpn}
  BY <1>7 DEF TypeInv, TypeOK, PoolStep, PoolFifo
<1> QED BY <1>5, <1>6, <1>8

\* The input FSM of the pool keeps the types of its registers.
LEMMA PoolInputTypes ==
    ASSUME TypeInv, PoolStep(m_ready, s_qpn)
    PROVE  /\ pool_state' \in {"IDLE", "PASSTHROUGH"} /\ qpn_reg' \in QPNs \cup {NoQpn}
           /\ s_qpn_ready' \in BOOLEAN /\ qpn_valid' \in BOOLEAN
           /\ pool_state' = "PASSTHROUGH" \/ qpn_valid' => qpn_reg' \in QPNs
BY Booleans DEF TypeInv, TypeOK, Registers, PoolStep, PoolInput

\* A client's request is well formed, and looked at only by the idle FSM.
LEMMA ClientInput ==
    ASSUME NEW r \in CmInputs
    PROVE  /\ r = NoReq \/ r \in Requests
           /\ r # NoReq => cm_state = "IDLE" /\ MaySend
           /\ r.type \in ReqTypes => r # NoReq /\ r \in ServedRequests
           /\ r.type = "OTHER" => r # NoReq
BY Nothings DEF CmInputs, ClientRequests, ServedRequests, NoReq, ReqTypes

\* An edge of the connection manager keeps the types of its registers.
LEMMA SlaveTypes ==
    ASSUME TypeInv, NEW r \in CmInputs, NEW status \in {"NONE", "OK", "ERROR"}, NEW tx_ready \in BOOLEAN,
           SlaveStep(r, status, tx_ready)
    PROVE  /\ cm_state' \in {"IDLE", "MODIFY_QP", "SEND_ERROR"} /\ s_qpn' \in QPNs \cup {NoQpn}
           /\ cm_valid' \in BOOLEAN /\ qp_close_req' \in BOOLEAN /\ m_ready' \in BOOLEAN
           /\ cm_req' \in Requests \cup {NoReq}
           /\ cm_valid' => r # NoReq /\ cm_req' \in ServedRequests
           /\ cm_state' = "MODIFY_QP" /\ qp_close_req' => cm_req'.qpn \in QPNs
           /\ qp_info' \in [valid : BOOLEAN, type : ReqTypes \cup {"NULL"}, ack : Acks,
                            qpn : QPNs \cup {BadQpn}, to : CLIENTS \cup {NoClient}]
<1> DEFINE Infos == [valid : BOOLEAN, type : ReqTypes \cup {"NULL"}, ack : Acks,
                     qpn : QPNs \cup {BadQpn}, to : CLIENTS \cup {NoClient}]
<1>1. /\ cm_req \in Requests \cup {NoReq} /\ qp_info \in Infos /\ m_qpn \in QPNs \cup {NoQpn}
      /\ cm_state = "MODIFY_QP" /\ qp_close_req => cm_req.qpn \in QPNs
  BY DEF TypeInv, TypeOK, Registers
<1>2. qp_close_req \in BOOLEAN
  BY Booleans DEF TypeInv
<1>3. Pending(tx_ready) \in BOOLEAN /\ Kept(tx_ready) \in Infos
  BY <1>1 DEF Pending, Kept, Acks
<1>4. /\ r = NoReq \/ r \in Requests
      /\ r.type \in ReqTypes => r # NoReq /\ r \in ServedRequests
  BY ClientInput
<1>5. ASSUME NEW type \in ReqTypes, r.type = type, NEW q \in QPNs \cup {BadQpn},
             Forward(type, q, r, tx_ready)
      PROVE  /\ cm_state' = "MODIFY_QP" /\ s_qpn' = NoQpn /\ cm_valid' = TRUE /\ r # NoReq
             /\ cm_req' \in ServedRequests /\ cm_req'.qpn = q /\ qp_info' \in Infos
  <2>1. r \in Requests /\ r # NoReq /\ r.from \in CLIENTS
    BY <1>4, <1>5 DEF Requests
  <2>2. cm_req' \in ServedRequests /\ cm_req'.qpn = q
    BY <1>5, <2>1 DEF Forward, ServedRequests, Requests
  <2>3. qp_info' \in Infos
    BY <1>3, <1>5, <2>1 DEF Forward
  <2> QED BY <1>5, <2>1, <2>2, <2>3 DEF Forward
<1>6. ASSUME Quiet, cm_state' # "MODIFY_QP" \/ (cm_state = "MODIFY_QP" /\ qp_close_req' = qp_close_req)
      PROVE  /\ cm_valid' = FALSE /\ s_qpn' = NoQpn /\ cm_req' \in Requests \cup {NoReq}
             /\ cm_state' = "MODIFY_QP" /\ qp_close_req' => cm_req'.qpn \in QPNs
  BY <1>1, <1>6 DEF Quiet
<1> HIDE DEF Infos
<1>7. CASE OpenQp(r, tx_ready)
  BY <1>1, <1>4, <1>5, <1>7, "OPEN" \in ReqTypes DEF OpenQp, ReqTypes, ServedRequests, Infos
<1>8. CASE NoQpLeft(r, tx_ready) \/ CloseRefused(r, tx_ready)
  <2>1. \E ack \in {"NO_QP", "NAK"} : SendError(ack, tx_ready)
    BY <1>8 DEF NoQpLeft, CloseRefused
  <2>2. qp_info' \in Infos /\ cm_state' = "SEND_ERROR" /\ Quiet /\ m_ready' = FALSE /\ qp_close_req' = FALSE
    BY <1>1, <1>3, <2>1 DEF SendError, Infos, Acks
  <2> QED BY <1>6, <2>2 DEF Infos
<1>9. CASE ModifyQp(r, tx_ready)
  <2>1. r.qpn \in QPNs \cup {BadQpn} /\ r.type = "MODIFY_RTS"
    BY <1>4, <1>9 DEF ModifyQp, ServedRequests, Requests, ReqTypes
  <2> QED BY <1>5, <1>9, <2>1 DEF ModifyQp, ReqTypes, ServedRequests, Infos
<1>10. CASE CloseQp(r, tx_ready)
  BY <1>5, <1>10 DEF CloseQp, InRange, ReqTypes, ServedRequests, Infos
<1>11. CASE UnknownRequest(r)
  <2>1. qp_info' \in Infos /\ cm_state' = "IDLE" /\ Quiet /\ m_ready' = FALSE /\ qp_close_req' = FALSE
    BY <1>1, <1>11 DEF UnknownRequest, Infos, Acks
  <2> QED BY <1>6, <2>1 DEF Infos
<1>12. CASE Idle(r, tx_ready)
  <2>1. qp_info' \in Infos /\ cm_state' = "IDLE" /\ Quiet /\ m_ready' = FALSE /\ qp_close_req' = FALSE
    BY <1>3, <1>12 DEF Idle
  <2> QED BY <1>6, <2>1 DEF Infos
<1>13. CASE Wait(status, tx_ready)
  <2>1. /\ qp_info' \in Infos /\ cm_state' = "MODIFY_QP" /\ Quiet /\ m_ready' = FALSE
        /\ cm_state = "MODIFY_QP" /\ qp_close_req' = qp_close_req
    BY <1>3, <1>13 DEF Wait
  <2> QED BY <1>2, <1>6, <2>1 DEF Infos
<1>14. CASE Acknowledge(status)
  <2>1. qp_info' \in Infos
    BY <1>1, <1>14 DEF Acknowledge, Infos, Acks
  <2>2. s_qpn' \in QPNs \cup {NoQpn}
    BY <1>1, <1>14 DEF Acknowledge
  <2> QED BY <1>2, <1>14, <2>1, <2>2 DEF Acknowledge, Infos
<1>15. CASE Fail(status)
  <2>1. /\ qp_info' \in Infos /\ cm_state' = "SEND_ERROR" /\ Quiet /\ m_ready' = FALSE
        /\ qp_close_req' = qp_close_req
    BY <1>1, <1>15 DEF Fail, Infos, Acks
  <2> QED BY <1>2, <1>6, <2>1 DEF Infos
<1>16. CASE ReplyError
  <2>1. qp_info' \in Infos /\ cm_state' = "IDLE" /\ Quiet /\ m_ready' = FALSE /\ qp_close_req' = FALSE
    BY <1>1, <1>16 DEF ReplyError, Infos
  <2> QED BY <1>6, <2>1 DEF Infos
<1> QED
  BY <1>7, <1>8, <1>9, <1>10, <1>11, <1>12, <1>13, <1>14, <1>15, <1>16 DEF SlaveStep

\* The status that the connection manager sees.
LEMMA StatusSeen ==
    ASSUME TypeInv
    PROVE  Offered(status_fifo, "NONE") \in {"NONE", "OK", "ERROR"}
BY OfferedItem DEF TypeInv, StatusEntries

\* The load does not grow when a request enters its FIFO, or a status leaves its.
LEMMA LoadCarried ==
    ASSUME NEW v \in 0..1, NEW n \in Nat, NEW t \in 0..2, NEW s \in 0..1, NEW k \in Nat,
           NEW k2 \in Nat, 2 * v + 2 * n + t + s + k <= 2, k2 <= k
    PROVE  2 * (n + v) + t + s + k2 <= 2
OBVIOUS

\* An edge of clk_stack keeps the type invariant, if nothing is under way when a
\* request is taken.
LEMMA StackTypes ==
    ASSUME TypeInv, StackClock, cm_state = "IDLE" /\ MaySend => NothingUnderWay
    PROVE  TypeInv'
<1> PICK r \in CmInputs, tx_ready \in BOOLEAN : CmEdge(r, tx_ready)
  BY DEF StackClock
<1> DEFINE status == Offered(status_fifo, "NONE")
<1>1. SlaveStep(r, status, tx_ready) /\ PoolStep(m_ready, s_qpn) /\ status \in {"NONE", "OK", "ERROR"}
  BY StatusSeen DEF CmEdge, SlaveStep
<1> HIDE DEF status
<1>2. /\ q_state' = q_state /\ req_type' = req_type /\ ptr' = ptr /\ peer_reg' = peer_reg
      /\ qp_contex' = qp_contex /\ state_temp' = state_temp /\ qp_status' = qp_status
      /\ qp_active' = qp_active /\ close_req' = close_req /\ update_req' = update_req /\ lost' = lost
  BY DEF StackClock, qpVars
<1>4. req_fifo' \in Seq(ReqEntries) /\ Len(req_fifo') = Len(req_fifo) + One(cm_valid)
  <2>1. cm_valid \in BOOLEAN /\ (cm_valid => cm_req \in ServedRequests)
    BY Booleans DEF TypeInv, Registers
  <2>2. req_fifo' = Written(req_fifo, cm_valid, cm_req) /\ req_fifo \in Seq(ReqEntries)
    BY DEF CmEdge, TypeInv
  <2> QED BY <2>1, <2>2, WrittenKeeps DEF ReqEntries
<1>5. status_fifo' \in Seq(StatusEntries) /\ Len(status_fifo') <= Len(status_fifo)
      /\ Len(status_fifo') \in Nat /\ Len(status_fifo) \in Nat /\ Len(req_fifo) \in Nat
  <2>1. status_fifo' = Read(status_fifo) /\ status_fifo \in Seq(StatusEntries) /\ req_fifo \in Seq(ReqEntries)
    BY DEF CmEdge, TypeInv
  <2>2. status_fifo' \in Seq(StatusEntries) /\ Len(status_fifo') = Len(status_fifo) - One(Arrived(status_fifo))
    BY <2>1, ReadKeeps DEF StatusEntries
  <2>3. Len(status_fifo') \in Nat /\ Len(status_fifo) \in Nat /\ Len(req_fifo) \in Nat
    BY <2>1, <2>2, NonEmpty
  <2> QED BY <2>2, <2>3 DEF One
<1>6. Registers'
  BY <1>1, <1>2, SlaveTypes, PoolInputTypes DEF TypeInv, Registers, Serving
<1>7. Load' <= 2
  <2>1. ToCome' = ToCome /\ ToCome \in 0..2
    BY <1>2 DEF ToCome, Serving
  <2>2. CASE cm_valid'
    <3>1. NothingUnderWay
      BY <1>1, <2>2, SlaveTypes, ClientInput
    <3>2. ~cm_valid /\ Len(req_fifo) = 0 /\ Len(status_fifo) = 0 /\ qp_status = "NONE" /\ ToCome = 0
      BY <3>1, EmptySeq DEF NothingUnderWay, ToCome, Serving
    <3> QED BY <1>2, <1>4, <1>5, <2>1, <2>2, <3>2 DEF Load, One
  <2>3. CASE ~cm_valid'
    <3>1. Load <= 2 /\ cm_valid \in BOOLEAN
      BY Booleans DEF TypeInv
    <3>2. One(cm_valid) \in 0..1 /\ One(qp_status # "NONE") \in 0..1 /\ One(cm_valid)' = 0
          /\ One(qp_status # "NONE")' = One(qp_status # "NONE")
      BY <1>2, <2>3 DEF One
    <3>3. Load' = 2 * One(cm_valid)' + 2 * Len(req_fifo') + ToCome' + One(qp_status # "NONE")' + Len(status_fifo')
      BY DEF Load
    <3>4. Load' = 2 * (Len(req_fifo) + One(cm_valid)) + ToCome + One(qp_status # "NONE") + Len(status_fifo')
      BY <3>3, <3>2, <1>4, <1>5, <2>1
    <3>5. Load = 2 * One(cm_valid) + 2 * Len(req_fifo) + ToCome + One(qp_status # "NONE") + Len(status_fifo)
      BY DEF Load
    <3> HIDE DEF Load
    <3>6. 2 * (Len(req_fifo) + One(cm_valid)) + ToCome + One(qp_status # "NONE") + Len(status_fifo') <= 2
      BY <1>5, <2>1, <3>1, <3>2, <3>5, LoadCarried, SMTT(30)
    <3> QED BY <3>4, <3>6
  <2> QED BY <2>2, <2>3
<1>8. Len(req_fifo') <= REQ_DEPTH /\ Len(status_fifo') <= STATUS_DEPTH
  BY <1>4, <1>5 DEF TypeInv, Load, One, ToCome, REQ_DEPTH, STATUS_DEPTH
<1>9. TypeOK'
  <2>1. {s_qpn_ready', qpn_valid', cm_valid', qp_close_req', m_ready', qp_active', update_req', lost'}
          \subseteq BOOLEAN
    BY <1>1, <1>2, Booleans, SlaveTypes, PoolInputTypes DEF TypeInv
  <2>2. /\ pool_fifo' \in Seq(QPNs) /\ Len(pool_fifo') <= N_QUEUE_PAIRS /\ m_qpn' \in QPNs \cup {NoQpn}
        /\ pool_state' \in {"IDLE", "PASSTHROUGH"} /\ qpn_reg' \in QPNs \cup {NoQpn}
    BY <1>1, PoolFifoTypes, PoolInputTypes
  <2>3. /\ cm_state' \in {"IDLE", "MODIFY_QP", "SEND_ERROR"} /\ s_qpn' \in QPNs \cup {NoQpn}
        /\ cm_req' \in Requests \cup {NoReq}
        /\ qp_info' \in [valid : BOOLEAN, type : ReqTypes \cup {"NULL"}, ack : Acks,
                         qpn : QPNs \cup {BadQpn}, to : CLIENTS \cup {NoClient}]
    BY <1>1, SlaveTypes
  <2> QED BY <1>2, <1>8, <2>1, <2>2, <2>3 DEF TypeInv, TypeOK
<1> QED BY <1>4, <1>5, <1>6, <1>7, <1>9 DEF TypeInv

\* The request that the QP state module sees.
LEMMA RequestSeen ==
    ASSUME TypeInv
    PROVE  /\ Arrived(req_fifo) \in BOOLEAN
           /\ Arrived(req_fifo) => Offered(req_fifo, NoReq) \in ServedRequests
           /\ ~Arrived(req_fifo) => Offered(req_fifo, NoReq) = NoReq
BY OfferedItem DEF TypeInv, ReqEntries

\* What an edge of the QP state module leaves alone of its own registers, and what
\* it makes of them, whichever branch it takes.
QpTyped ==
    /\ q_state \in {"IDLE", "OPEN_QP", "MODIFY_QP_RTS", "CLOSE_QP", "UPDATE_CONTEXT",
                    "UPDATE_QP", "ERROR_QP"}
    /\ qp_contex \in [QPNs -> [state : QpStates, peer : CLIENTS \cup {NoClient}]]
    /\ qp_status \in {"NONE", "OK", "ERROR"}
    /\ req_type \in ReqTypes \cup {"NULL"} /\ ptr \in QPNs \cup {NoQpn}
    /\ peer_reg \in CLIENTS \cup {NoClient} /\ state_temp \in QpStates
    /\ Serving => ptr \in QPNs /\ peer_reg \in CLIENTS /\ req_type \in ReqTypes
    /\ q_state = "OPEN_QP" => req_type = "OPEN"
    /\ q_state = "MODIFY_QP_RTS" => req_type = "MODIFY_RTS"
    /\ q_state = "CLOSE_QP" => req_type = "CLOSE"
    /\ q_state = "ERROR_QP" => ptr \in QPNs

\* Those registers keep their types, and no more statuses are to come than the
\* request taken into service accounts for.
LEMMA QpTypes ==
    ASSUME QpTyped, NEW cm, cm = NoReq \/ cm \in ServedRequests,
           NEW nak \in QPNs \cup {NoQpn}, NEW close, NEW update, close_req \in QPNs \cup {NoQpn},
           QpStep(cm, nak, close, update)
    PROVE  /\ QpTyped'
           /\ ToCome' + One(qp_status' # "NONE") <= ToCome + 2 * One(cm # NoReq)
<1>1. ToCome \in 0..2 /\ One(cm # NoReq) \in 0..1
  BY DEF ToCome, One
<1>2. CASE FatalNak(nak) \/ EngineClose(nak)
  <2>1. /\ q_state' = "ERROR_QP" /\ ptr' \in QPNs /\ qp_status' = "NONE"
        /\ UNCHANGED <<req_type, peer_reg, qp_contex, state_temp>>
    BY <1>2 DEF FatalNak, EngineClose, GoTo
  <2>2. ToCome' = 0 /\ One(qp_status' # "NONE") = 0
    BY <2>1 DEF ToCome, Serving, One
  <2> QED BY <1>1, <2>1, <2>2 DEF QpTyped, Serving
<1>3. CASE EngineUpdate(nak)
  <2>1. /\ q_state' = "UPDATE_QP" /\ qp_status' = "NONE"
        /\ UNCHANGED <<req_type, ptr, peer_reg, qp_contex, state_temp>>
    BY <1>3 DEF EngineUpdate
  <2>2. ToCome' = 0 /\ One(qp_status' # "NONE") = 0
    BY <2>1 DEF ToCome, Serving, One
  <2> QED BY <1>1, <2>1, <2>2 DEF QpTyped, Serving
<1>4. CASE TakeRequest(cm, nak)
  <2>1. cm \in ServedRequests /\ cm # NoReq /\ cm.type \in ReqTypes /\ cm.qpn \in QPNs /\ cm.from \in CLIENTS
    BY <1>4 DEF TakeRequest, Takes, InRange, ServedRequests, Requests
  <2>2. /\ q_state' \in {"OPEN_QP", "MODIFY_QP_RTS", "CLOSE_QP"}
        /\ q_state' = "OPEN_QP" => cm.type = "OPEN"
        /\ q_state' = "MODIFY_QP_RTS" => cm.type = "MODIFY_RTS"
        /\ q_state' = "CLOSE_QP" => cm.type = "CLOSE"
        /\ ptr' = cm.qpn /\ req_type' = cm.type /\ peer_reg' = cm.from
        /\ UNCHANGED <<qp_contex, state_temp>> /\ qp_status' = "NONE"
    BY <1>4, <2>1 DEF TakeRequest, GoTo, ReqTypes
  <2>3. ToCome' \in 1..2 /\ ToCome = 0 /\ One(qp_status' # "NONE") = 0 /\ One(cm # NoReq) = 1
    BY <1>4, <2>1, <2>2 DEF ToCome, Serving, One, TakeRequest, Takes
  <2> QED BY <2>1, <2>2, <2>3 DEF QpTyped, Serving
<1>5. CASE Rest(cm, nak)
  <2>1. UNCHANGED <<q_state, req_type, ptr, peer_reg, qp_contex, state_temp>> /\ qp_status' = "NONE"
    BY <1>5 DEF Rest
  <2>2. ToCome' = ToCome /\ One(qp_status' # "NONE") = 0
    BY <2>1 DEF ToCome, Serving, One
  <2> QED BY <1>1, <2>1, <2>2 DEF QpTyped, Serving
<1>6. CASE ReadContext
  <2>1. Serving /\ Serving'
    BY <1>6 DEF ReadContext, GoTo, Serving
  <2>2. /\ q_state' = "UPDATE_CONTEXT" /\ ptr' = ptr /\ UNCHANGED <<req_type, peer_reg, qp_contex>>
        /\ qp_status' = "NONE" /\ state_temp' \in QpStates
    BY <1>6, <2>1 DEF ReadContext, GoTo, QpTyped
  <2>3. ToCome' = ToCome /\ One(qp_status' # "NONE") = 0
    BY <2>1, <2>2 DEF ToCome, One
  <2> QED BY <1>1, <2>1, <2>2, <2>3 DEF QpTyped
<1>7. CASE UpdateContext
  <2>1. q_state = "UPDATE_CONTEXT" /\ Serving /\ ptr \in QPNs /\ peer_reg \in CLIENTS
    BY <1>7 DEF UpdateContext, Serving, QpTyped
  <2>2. CASE OpenContext
    <3>1. /\ q_state' = "MODIFY_QP_RTS" /\ ptr' = ptr /\ req_type' = "MODIFY_RTS" /\ req_type = "OPEN"
          /\ UNCHANGED <<peer_reg, state_temp>> /\ qp_status' \in {"NONE", "ERROR"}
      BY <2>2 DEF OpenContext, GoTo
    <3>2. qp_contex' \in [QPNs -> [state : QpStates, peer : CLIENTS \cup {NoClient}]]
      BY <2>1, <2>2 DEF OpenContext, QpTyped, QpStates
    <3>3. ToCome' = 1 /\ ToCome = 2 /\ One(qp_status' # "NONE") <= 1 /\ One(qp_status' # "NONE") \in Nat
      BY <2>1, <3>1 DEF ToCome, Serving, One
    <3> QED BY <1>1, <2>1, <3>1, <3>2, <3>3 DEF QpTyped, Serving, ReqTypes
  <2>3. CASE ModifyContext \/ CloseContext
    <3>1. /\ q_state' = "IDLE" /\ ptr' = NoQpn /\ req_type' = "NULL" /\ peer_reg' = NoClient
          /\ state_temp' = "RESET" /\ qp_status' \in {"OK", "ERROR"} /\ req_type # "OPEN"
      BY <2>3 DEF ModifyContext, CloseContext, Back, GoTo
    <3>2. qp_contex' \in [QPNs -> [state : QpStates, peer : CLIENTS \cup {NoClient}]]
      BY <2>1, <2>3 DEF ModifyContext, CloseContext, QpTyped, QpStates
    <3>3. ToCome' = 0 /\ ToCome = 1 /\ One(qp_status' # "NONE") = 1
      BY <2>1, <3>1 DEF ToCome, Serving, One
    <3> QED BY <1>1, <3>1, <3>2, <3>3 DEF QpTyped, Serving, QpStates
  <2> QED BY <1>7, <2>2, <2>3 DEF UpdateContext
<1>8. CASE UpdateQp \/ ErrorQp
  <2>1. /\ q_state' = "IDLE" /\ ptr' = NoQpn /\ req_type' = "NULL" /\ peer_reg' = NoClient
        /\ state_temp' = "RESET" /\ qp_status' = "NONE"
    BY <1>8 DEF UpdateQp, ErrorQp, Back, GoTo
  <2>2. qp_contex' \in [QPNs -> [state : QpStates, peer : CLIENTS \cup {NoClient}]]
    BY <1>8 DEF UpdateQp, ErrorQp, QpTyped, QpStates
  <2>3. ToCome' = 0 /\ One(qp_status' # "NONE") = 0
    BY <2>1 DEF ToCome, Serving, One
  <2> QED BY <1>1, <2>1, <2>2, <2>3 DEF QpTyped, Serving, QpStates
<1> QED BY <1>2, <1>3, <1>4, <1>5, <1>6, <1>7, <1>8 DEF QpStep

\* The load does not grow when a request turns into statuses to come, and a status
\* into an entry of the status FIFO.
LEMMA LoadArithmetic ==
    ASSUME NEW v \in 0..1, NEW n \in Nat, NEW t \in 0..2, NEW s \in 0..1, NEW k \in Nat,
           NEW a \in 0..1, NEW t2 \in 0..2, NEW s2 \in 0..1,
           2 * v + 2 * n + t + s + k <= 2, t2 + s2 <= t + 2 * a
    PROVE  2 * v + 2 * (n - a) + t2 + s2 + (k + s) <= 2
OBVIOUS

\* An edge of clk_roce_eng keeps the type invariant.
LEMMA EngineTypes ==
    ASSUME TypeInv, EngineClock
    PROVE  TypeInv'
<1> PICK nak \in Naks, close \in Closes, update \in Updates : QpEdge(nak, close, update)
  BY DEF EngineClock
<1> DEFINE cm == Offered(req_fifo, NoReq)
<1>1. /\ QpStep(cm, nak, close, update) /\ EngineSide(close, update) /\ Workaround(cm)
      /\ req_fifo' = Read(req_fifo)
      /\ status_fifo' = Written(status_fifo, qp_status # "NONE", qp_status)
      /\ lost' = (lost \/ (cm # NoReq /\ ~Takes(cm, nak)))
  BY DEF QpEdge, QpStep
<1>2. cm = NoReq \/ cm \in ServedRequests
  BY RequestSeen
<1>3. One(cm # NoReq) = One(Arrived(req_fifo))
  BY RequestSeen, Nothings
<1> HIDE DEF cm
<1>4. /\ pool_fifo' = pool_fifo /\ m_qpn' = m_qpn /\ pool_state' = pool_state
      /\ s_qpn_ready' = s_qpn_ready /\ qpn_reg' = qpn_reg /\ qpn_valid' = qpn_valid
      /\ cm_state' = cm_state /\ cm_valid' = cm_valid /\ cm_req' = cm_req
      /\ qp_close_req' = qp_close_req /\ m_ready' = m_ready /\ s_qpn' = s_qpn
      /\ qp_info' = qp_info
  BY DEF EngineClock, poolVars, slaveVars
<1>5. QpTyped /\ close_req \in QPNs \cup {NoQpn} /\ nak \in QPNs \cup {NoQpn} /\ close \in QPNs \cup {NoQpn}
  BY DEF TypeInv, TypeOK, Registers, QpTyped, Naks, Closes
<1>6. QpTyped' /\ ToCome' + One(qp_status' # "NONE") <= ToCome + 2 * One(Arrived(req_fifo))
  BY <1>1, <1>2, <1>3, <1>5, QpTypes
<1>7. req_fifo' \in Seq(ReqEntries) /\ Len(req_fifo') = Len(req_fifo) - One(Arrived(req_fifo))
  BY <1>1, ReadKeeps DEF TypeInv, ReqEntries
<1>8. status_fifo' \in Seq(StatusEntries) /\ Len(status_fifo') = Len(status_fifo) + One(qp_status # "NONE")
  <2>1. status_fifo \in Seq(StatusEntries) /\ (qp_status # "NONE" => qp_status \in {"OK", "ERROR"})
    BY DEF TypeInv, TypeOK
  <2> QED BY <1>1, <2>1, WrittenKeeps DEF StatusEntries
<1>9. Load' <= 2
  <2>1. /\ One(cm_valid) \in 0..1 /\ One(qp_status # "NONE") \in 0..1 /\ One(qp_status' # "NONE") \in 0..1
        /\ One(Arrived(req_fifo)) \in 0..1 /\ ToCome \in 0..2 /\ ToCome' \in 0..2 /\ One(cm_valid)' = One(cm_valid)
    BY <1>4 DEF One, ToCome
  <2>2. /\ Len(req_fifo) \in Nat /\ Len(status_fifo) \in Nat /\ Load <= 2
        /\ Len(req_fifo') \in Nat /\ Len(status_fifo') \in Nat
    BY <1>7, <1>8, NonEmpty DEF TypeInv
  <2>3. Load = 2 * One(cm_valid) + 2 * Len(req_fifo) + ToCome + One(qp_status # "NONE") + Len(status_fifo)
    BY DEF Load
  <2>4. Load' = 2 * One(cm_valid)' + 2 * Len(req_fifo') + ToCome' + One(qp_status' # "NONE") + Len(status_fifo')
    BY DEF Load
  <2>5. 2 * One(cm_valid) + 2 * Len(req_fifo) + ToCome + One(qp_status # "NONE") + Len(status_fifo) <= 2
    BY <2>2, <2>3
  <2>6. 2 * One(cm_valid) + 2 * (Len(req_fifo) - One(Arrived(req_fifo))) + ToCome' + One(qp_status' # "NONE")
          + (Len(status_fifo) + One(qp_status # "NONE")) <= 2
    BY <1>6, <2>1, <2>2, <2>5, LoadArithmetic, ZenonT(60)
  <2>7. 2 * One(cm_valid)' + 2 * Len(req_fifo') + ToCome' + One(qp_status' # "NONE") + Len(status_fifo') <= 2
    BY <1>7, <1>8, <2>1, <2>6, Zenon
  <2> QED BY <2>4, <2>7
<1>10. Len(req_fifo') <= REQ_DEPTH /\ Len(status_fifo') <= STATUS_DEPTH
  <2>1. Len(req_fifo') \in Nat /\ Len(status_fifo') \in Nat /\ ToCome' \in 0..2 /\ One(cm_valid)' \in 0..1
        /\ One(qp_status' # "NONE") \in 0..1
    BY <1>7, <1>8, NonEmpty DEF One, ToCome
  <2>2. Load' = 2 * One(cm_valid)' + 2 * Len(req_fifo') + ToCome' + One(qp_status' # "NONE") + Len(status_fifo')
    BY DEF Load
  <2> QED BY <1>9, <2>1, <2>2, SMTT(30) DEF REQ_DEPTH, STATUS_DEPTH
<1>11. Registers'
  BY <1>4, <1>6 DEF TypeInv, Registers, QpTyped, Serving
<1>12. TypeOK'
  <2>1. /\ close_req' \in QPNs \cup {NoQpn} /\ update_req' \in BOOLEAN /\ qp_active' \in BOOLEAN
        /\ lost' \in BOOLEAN
    BY <1>1, <1>5, Booleans DEF EngineSide, Workaround, TypeInv
  <2>2. {s_qpn_ready', qpn_valid', cm_valid', qp_close_req', m_ready', qp_active', update_req', lost'}
          \subseteq BOOLEAN
    BY <1>4, <2>1, Booleans DEF TypeInv
  <2> QED BY <1>4, <1>6, <1>10, <2>1, <2>2 DEF TypeInv, TypeOK, QpTyped
<1> QED BY <1>7, <1>8, <1>9, <1>11, <1>12 DEF TypeInv

\* The type invariant holds at reset.
LEMMA TypeInit == Init => TypeInv
<1> SUFFICES ASSUME Init PROVE TypeInv
  OBVIOUS
<1>1. pool_fifo \in Seq(QPNs) /\ Len(pool_fifo) = N_QUEUE_PAIRS
  <2>1. pool_fifo \in [1..N_QUEUE_PAIRS -> QPNs]
    BY Nothings DEF Init, PoolInit, QPNs
  <2> QED BY <2>1, IsASeq, LenProperties, Nothings
<1>2. Registers /\ QpTyped
  BY DEF Init, PoolInit, SlaveInit, QpInit, Registers, QpTyped, Serving, QpStates
<1>3. req_fifo = <<>> /\ status_fifo = <<>> /\ Len(req_fifo) = 0 /\ Len(status_fifo) = 0
  BY DEF Init
<1>4. Load <= 2
  BY <1>3 DEF Init, SlaveInit, QpInit, Load, One, ToCome, Serving
<1>5. qp_info \in [valid : BOOLEAN, type : ReqTypes \cup {"NULL"}, ack : Acks,
                   qpn : QPNs \cup {BadQpn}, to : CLIENTS \cup {NoClient}]
  BY Nothings DEF Init, SlaveInit, Acks, QPNs
<1>6. {s_qpn_ready, qpn_valid, cm_valid, qp_close_req, m_ready, qp_active, update_req, lost} \subseteq BOOLEAN
  BY DEF Init, PoolInit, SlaveInit, QpInit
<1>7. TypeOK
  BY <1>1, <1>2, <1>3, <1>5, <1>6, Nothings
  DEF Init, PoolInit, SlaveInit, QpInit, TypeOK, QpTyped, REQ_DEPTH, STATUS_DEPTH
<1> QED BY <1>2, <1>3, <1>4, <1>7 DEF TypeInv

\* A step that changes no register keeps the type invariant.
LEMMA TypeStutter ==
    ASSUME TypeInv, UNCHANGED vars
    PROVE  TypeInv'
BY DEF vars, poolVars, slaveVars, qpVars, TypeInv, TypeOK, Registers, Serving, Load, ToCome, One,
       REQ_DEPTH, STATUS_DEPTH

\* With late faults, the type invariant is inductive by itself: clients wait.
LEMMA TypeInvLate ==
    ASSUME LateFaults
    PROVE  Spec => []TypeInv
<1>1. TypeInv /\ [Next]_vars => TypeInv'
  BY StackTypes, EngineTypes, TypeStutter DEF Next, MaySend
<1> QED BY TypeInit, <1>1, PTL DEF Spec

-----------------------------------------------------------------------------
(* The inductive invariant without late faults.                            *)

\* No number is in two places of the pool.
Distinct ==
    /\ IsInjective(pool_fifo)
    /\ m_qpn # NoQpn => m_qpn \notin Range(pool_fifo) \cup {qpn_reg, s_qpn}
    /\ qpn_reg # NoQpn => qpn_reg \notin Range(pool_fifo) \cup {s_qpn}
    /\ s_qpn # NoQpn => s_qpn \notin Range(pool_fifo)

\* The FSM of the pool and the connection manager: a number that is returned is
\* always taken, and finds room in the FIFO, which is full only at reset.  A request
\* may come while the last number is still on its way in, but the pool is ready again
\* before a status can cross.
Handshake ==
    /\ s_qpn_ready => pool_state = "IDLE" /\ ~qpn_valid
    /\ qpn_valid => pool_state = "IDLE"
    /\ qpn_reg # NoQpn <=> pool_state = "PASSTHROUGH" \/ qpn_valid
    /\ s_qpn # NoQpn => s_qpn_ready /\ cm_state = "IDLE"
    /\ cm_state = "MODIFY_QP" => /\ pool_state = "PASSTHROUGH" => cm_valid
                                 /\ s_qpn_ready \/ cm_valid \/ ~Arrived(status_fifo)
    /\ m_ready => cm_valid /\ cm_req.type = "OPEN" /\ m_qpn = cm_req.qpn
    /\ FifoFull => cm_state = "IDLE" /\ m_qpn = NoQpn /\ qpn_reg = NoQpn /\ s_qpn = NoQpn

\* One request at a time, which the connection manager remembers, and one status:
\* of the five places where it can be, it is in one at most.
OneRequest ==
    /\ cm_valid => /\ cm_state = "MODIFY_QP" /\ req_fifo = <<>> /\ ~Serving
                   /\ qp_status = "NONE" /\ status_fifo = <<>>
    /\ req_fifo # <<>> => /\ cm_state = "MODIFY_QP" /\ Len(req_fifo) = 1 /\ req_fifo[1].item = cm_req
                          /\ ~Serving /\ qp_status = "NONE" /\ status_fifo = <<>>
    /\ Serving => /\ cm_state = "MODIFY_QP" /\ qp_status = "NONE" /\ status_fifo = <<>>
                  /\ ptr = cm_req.qpn /\ peer_reg = cm_req.from
                  /\ req_type = cm_req.type \/ (cm_req.type = "OPEN" /\ req_type = "MODIFY_RTS")
    /\ qp_status # "NONE" => cm_state = "MODIFY_QP" /\ status_fifo = <<>>
    /\ status_fifo # <<>> => cm_state = "MODIFY_QP" /\ Len(status_fifo) = 1
    /\ IF cm_state = "MODIFY_QP" THEN cm_req \in ServedRequests ELSE cm_req = NoReq

\* The reply that is being prepared is the reply to the request, even if an earlier
\* reply still waits in the same registers.
ReplyFits ==
    cm_state = "MODIFY_QP" =>
        /\ qp_close_req <=> cm_req.type = "CLOSE"
        /\ cm_req.type \in {"OPEN", "CLOSE"} => cm_req.qpn \in QPNs
        /\ qp_info.type = cm_req.type /\ qp_info.qpn = cm_req.qpn /\ qp_info.to = cm_req.from

\* The QP state module acts on what it read, and a fault on an open queue pair.
FreshRead ==
    /\ q_state = "UPDATE_CONTEXT" => state_temp = qp_contex[ptr].state
    /\ q_state = "ERROR_QP" => qp_contex[ptr].state # "RESET"
    /\ close_req # NoQpn => q_state \in {"IDLE", "ERROR_QP"} /\ qp_contex[close_req].state # "RESET"

\* The status of the request is on its way back.
OnWay(status) == qp_status = status \/ (status_fifo # <<>> /\ status_fifo[1].item = status)

\* A number is free, or its queue pair is in use, or the connection manager has
\* it in its hands: granted to an OPEN that is not served yet, or taken down by a
\* CLOSE whose success is on its way.
InHands ==
    /\ \A q \in Free : qp_contex[q].state = "RESET"
    /\ cm_req.type = "OPEN" => cm_req.qpn \notin Free
    /\ \A q \in QPNs \ Free : qp_contex[q].state = "RESET" =>
         /\ q = cm_req.qpn
         /\ cm_req.type = "OPEN" \/ (cm_req.type = "CLOSE" /\ OnWay("OK"))

\* Where the queue pair of the request stands, as the request goes its way.
Progress ==
    /\ cm_req.type = "OPEN" /\ (cm_valid \/ req_fifo # <<>> \/ (Serving /\ req_type = "OPEN")) =>
         qp_contex[cm_req.qpn].state = "RESET"
    /\ cm_req.type = "OPEN" /\ Serving /\ req_type = "MODIFY_RTS" =>
         qp_contex[cm_req.qpn] = [state |-> "INIT", peer |-> cm_req.from]
    /\ OnWay("OK") => 
         /\ cm_req.qpn \in QPNs
         /\ cm_req.type = "CLOSE" => qp_contex[cm_req.qpn].state = "RESET" /\ cm_req.qpn \notin Free
         /\ cm_req.type # "CLOSE" => qp_contex[cm_req.qpn].state \in {"RTS", "ERROR"}
         /\ cm_req.type = "OPEN" => qp_contex[cm_req.qpn].peer = cm_req.from
    /\ OnWay("ERROR") /\ cm_req.type = "OPEN" => qp_contex[cm_req.qpn].state # "RESET"

Inv ==
    /\ TypeInv /\ Distinct /\ Handshake /\ OneRequest /\ ReplyFits
    /\ FreshRead /\ InHands /\ Progress

-----------------------------------------------------------------------------
(* The FIFO of the pool as a set of numbers.                               *)

\* Taking the head of a sequence without repetitions takes one element away.
LEMMA TailRange ==
    ASSUME NEW S, NEW s \in Seq(S), IsInjective(s), s # <<>>
    PROVE  /\ IsInjective(Tail(s)) /\ Head(s) \notin Range(Tail(s))
           /\ Range(s) = {Head(s)} \cup Range(Tail(s))
<1>1. /\ Len(s) \in Nat /\ DOMAIN s = 1..Len(s) /\ Len(s) >= 1 /\ Head(s) = s[1]
      /\ Tail(s) \in Seq(S) /\ Len(Tail(s)) = Len(s) - 1
  BY NonEmpty
<1>2. DOMAIN Tail(s) = 1..(Len(s) - 1)
  BY <1>1, NonEmpty
<1>3. \A i \in 1..(Len(s) - 1) : Tail(s)[i] = s[i + 1] /\ i + 1 \in 1..Len(s)
  BY <1>1, HeadTailProperties
<1>4. \A a, b \in 1..Len(s) : s[a] = s[b] => a = b
  BY <1>1 DEF IsInjective
<1>5. IsInjective(Tail(s))
  BY <1>1, <1>2, <1>3, <1>4 DEF IsInjective
<1>6. Head(s) \notin Range(Tail(s))
  BY <1>1, <1>2, <1>3, <1>4 DEF Range
<1>7. \A i \in 1..Len(s) : i = 1 \/ (i - 1 \in 1..(Len(s) - 1) /\ Tail(s)[i - 1] = s[i])
  <2> TAKE i \in 1..Len(s)
  <2>1. CASE i # 1
    <3>1. i - 1 \in 1..(Len(s) - 1) /\ (i - 1) + 1 = i
      BY <1>1, <2>1
    <3>2. Tail(s)[i - 1] = s[(i - 1) + 1]
      BY <1>3, <3>1
    <3> QED BY <3>1, <3>2
  <2> QED BY <2>1
<1>8. Range(s) \subseteq {Head(s)} \cup Range(Tail(s))
  <2>1. \A i \in 1..Len(s) : s[i] \in {Head(s)} \cup {Tail(s)[j] : j \in 1..(Len(s) - 1)}
    BY <1>1, <1>7
  <2> QED BY <1>1, <1>2, <2>1, Zenon DEF Range
<1>9. {Head(s)} \cup Range(Tail(s)) \subseteq Range(s)
  BY <1>1, <1>2, <1>3 DEF Range
<1> QED BY <1>5, <1>6, <1>8, <1>9

\* Appending a new element adds it.
LEMMA AppendRange ==
    ASSUME NEW S, NEW s \in Seq(S), IsInjective(s), NEW x \in S, x \notin Range(s)
    PROVE  /\ IsInjective(s \o <<x>>) /\ Range(s \o <<x>>) = Range(s) \cup {x}
           /\ Len(s \o <<x>>) = Len(s) + 1
<1>1. <<x>> \in Seq(S) /\ Len(<<x>>) = 1 /\ <<x>>[1] = x /\ DOMAIN <<x>> = 1..1
  OBVIOUS
<1> DEFINE t == <<x>>
<1> HIDE DEF t
<1>2. /\ s \o t \in Seq(S) /\ Len(s \o t) = Len(s) + 1 /\ Len(s) \in Nat
      /\ \A i \in 1..(Len(s) + 1) : (s \o t)[i] = IF i <= Len(s) THEN s[i] ELSE t[i - Len(s)]
  BY <1>1, ConcatProperties, LenProperties DEF t
<1>3. DOMAIN s = 1..Len(s) /\ DOMAIN (s \o t) = 1..(Len(s) + 1)
  BY <1>2, NonEmpty
<1>4. \A i \in 1..(Len(s) + 1) : IF i <= Len(s) THEN (s \o t)[i] = s[i] ELSE (s \o t)[i] = x /\ i = Len(s) + 1
  BY <1>1, <1>2 DEF t
<1>5. \A i \in 1..Len(s) : s[i] # x /\ s[i] \in Range(s)
  BY <1>3 DEF Range
<1>6. \A a, b \in 1..Len(s) : s[a] = s[b] => a = b
  BY <1>3 DEF IsInjective
<1>7. \A a, b \in 1..(Len(s) + 1) : (s \o t)[a] = (s \o t)[b] => a = b
  BY <1>2, <1>4, <1>5, <1>6
<1>8. Range(t) = {x}
  BY <1>1 DEF t, Range
<1>9. Range(s \o t) = Range(s) \cup {x}
  <2>1. t \in Seq(S)
    BY <1>1 DEF t
  <2> QED BY <1>8, <2>1, RangeConcatenation
<1> QED BY <1>2, <1>3, <1>7, <1>9 DEF IsInjective, t

\* A sequence without repetitions is as long as its range is large.
LEMMA RangeCardinality ==
    ASSUME NEW S, NEW s \in Seq(S), IsInjective(s)
    PROVE  IsFiniteSet(Range(s)) /\ Cardinality(Range(s)) = Len(s)
<1>1. Len(s) \in Nat /\ DOMAIN s = 1..Len(s) /\ s \in [1..Len(s) -> S]
  BY NonEmpty, LenProperties
<1>2. s \in [1..Len(s) -> Range(s)]
  BY <1>1 DEF Range
<1>3. s \in Surjection(1..Len(s), Range(s))
  BY <1>1, <1>2 DEF Surjection, Range
<1>4. s \in Injection(1..Len(s), Range(s))
  BY <1>2 DEF Injection
<1>5. IsFiniteSet(1..Len(s)) /\ Cardinality(1..Len(s)) = Len(s)
  BY <1>1, FS_Interval
<1> QED BY <1>3, <1>4, <1>5, FS_Surjection

-----------------------------------------------------------------------------
(* The free numbers.                                                       *)

\* The numbers that the registers and the FIFO of the pool itself hold.
Stored == (Range(pool_fifo) \cup {m_qpn, qpn_reg}) \ {NoQpn}

\* A register of the pool as a sequence of at most one number.
Slot(x) == IF x # NoQpn THEN <<x>> ELSE <<>>
Held(x) == {x} \ {NoQpn}

\* The places of the pool in their order, and the set of the numbers in them.
Places(m, fifo, q, s)  == Slot(m) \o fifo \o Slot(q) \o Slot(s)
Numbers(m, fifo, q, s) == Range(fifo) \cup Held(m) \cup Held(q) \cup Held(s)

\* The length and the range of a register.
LEMMA SlotRange ==
    ASSUME NEW x \in QPNs \cup {NoQpn}
    PROVE  /\ Slot(x) \in Seq(QPNs) /\ Len(Slot(x)) = One(x # NoQpn)
           /\ Range(Slot(x)) = Held(x)
<1>1. CASE x # NoQpn
  <2>1. Slot(x) = <<x>> /\ x \in QPNs
    BY <1>1 DEF Slot
  <2>2. <<x>> \in Seq(QPNs) /\ Len(<<x>>) = 1 /\ DOMAIN <<x>> = 1..1 /\ <<x>>[1] = x
    BY <2>1
  <2>3. Range(<<x>>) = {x}
    BY <2>2 DEF Range
  <2> QED BY <1>1, <2>1, <2>2, <2>3 DEF One, Held
<1>2. CASE x = NoQpn
  <2>1. Slot(x) = <<>>
    BY <1>2 DEF Slot
  <2>2. Range(<<>>) = {}
    BY DEF Range
  <2> QED BY <1>2, <2>1, <2>2 DEF One, Held
<1> QED BY <1>1, <1>2

\* The length and the range of a concatenation.
LEMMA ConcatRange ==
    ASSUME NEW S, NEW s \in Seq(S), NEW t \in Seq(S)
    PROVE  s \o t \in Seq(S) /\ Len(s \o t) = Len(s) + Len(t) /\ Range(s \o t) = Range(s) \cup Range(t)
BY ConcatProperties, RangeConcatenation

\* A set with the number of one more register.
LEMMA AddOne ==
    ASSUME NEW S, IsFiniteSet(S), NEW x, x # NoQpn => x \notin S
    PROVE  IsFiniteSet(S \cup Held(x)) /\ Cardinality(S \cup Held(x)) = Cardinality(S) + One(x # NoQpn)
<1>1. Cardinality(S) \in Nat
  BY FS_CardinalityType
<1>2. CASE x # NoQpn
  <2>1. S \cup Held(x) = S \cup {x}
    BY <1>2 DEF Held
  <2> QED BY <1>2, <2>1, FS_AddElement DEF One
<1>3. CASE x = NoQpn
  <2>1. S \cup Held(x) = S
    BY <1>3 DEF Held
  <2> QED BY <1>1, <1>3, <2>1 DEF One
<1> QED BY <1>2, <1>3

\* The range and the length of the sequence of the free numbers.
LEMMA PooledRange ==
    ASSUME NEW m \in QPNs \cup {NoQpn}, NEW fifo \in Seq(QPNs), NEW q \in QPNs \cup {NoQpn},
           NEW s \in QPNs \cup {NoQpn}
    PROVE  /\ Len(Places(m, fifo, q, s)) = One(m # NoQpn) + Len(fifo) + One(q # NoQpn) + One(s # NoQpn)
           /\ Range(Places(m, fifo, q, s)) = Numbers(m, fifo, q, s)
<1> DEFINE a == Slot(m)
           b == Slot(q)
           c == Slot(s)
<1>1. /\ a \in Seq(QPNs) /\ Len(a) = One(m # NoQpn) /\ Range(a) = Held(m)
      /\ b \in Seq(QPNs) /\ Len(b) = One(q # NoQpn) /\ Range(b) = Held(q)
      /\ c \in Seq(QPNs) /\ Len(c) = One(s # NoQpn) /\ Range(c) = Held(s)
  BY SlotRange
<1> HIDE DEF a, b, c
<1>2. /\ a \o fifo \in Seq(QPNs) /\ Len(a \o fifo) = Len(a) + Len(fifo)
      /\ Range(a \o fifo) = Range(a) \cup Range(fifo)
  <2>1. a \in Seq(QPNs)
    BY <1>1
  <2> QED BY <2>1, ConcatRange
<1> DEFINE ab == a \o fifo
<1> HIDE DEF ab
<1>21. ab \in Seq(QPNs) /\ Len(ab) = Len(a) + Len(fifo) /\ Range(ab) = Range(a) \cup Range(fifo)
  BY <1>2 DEF ab
<1>3. /\ ab \o b \in Seq(QPNs) /\ Len(ab \o b) = Len(ab) + Len(b)
      /\ Range(ab \o b) = Range(ab) \cup Range(b)
  <2>1. b \in Seq(QPNs) /\ ab \in Seq(QPNs)
    BY <1>1, <1>21
  <2> QED BY <2>1, ConcatRange
<1> DEFINE abc == ab \o b
<1> HIDE DEF abc
<1>31. abc \in Seq(QPNs) /\ Len(abc) = Len(ab) + Len(b) /\ Range(abc) = Range(ab) \cup Range(b)
  BY <1>3 DEF abc
<1>4. /\ abc \o c \in Seq(QPNs) /\ Len(abc \o c) = Len(abc) + Len(c)
      /\ Range(abc \o c) = Range(abc) \cup Range(c)
  <2>1. c \in Seq(QPNs) /\ abc \in Seq(QPNs)
    BY <1>1, <1>31
  <2> QED BY <2>1, ConcatRange
<1>5. abc \o c = Places(m, fifo, q, s)
  BY DEF a, b, c, ab, abc, Places
<1>6. Len(abc \o c) = One(m # NoQpn) + Len(fifo) + One(q # NoQpn) + One(s # NoQpn)
  BY <1>1, <1>21, <1>31, <1>4
<1>7. Range(abc \o c) = Numbers(m, fifo, q, s)
  BY <1>1, <1>21, <1>31, <1>4 DEF Numbers
<1> QED BY <1>5, <1>6, <1>7

\* The pool holds a number at most once: as many places as there are numbers.
LEMMA PooledOnce ==
    ASSUME NEW m \in QPNs \cup {NoQpn}, NEW fifo \in Seq(QPNs), NEW q \in QPNs \cup {NoQpn},
           NEW s \in QPNs \cup {NoQpn}, IsInjective(fifo),
           m # NoQpn => m \notin Range(fifo) \cup {q, s},
           q # NoQpn => q \notin Range(fifo) \cup {s},
           s # NoQpn => s \notin Range(fifo)
    PROVE  /\ Cardinality(Numbers(m, fifo, q, s))
                = One(m # NoQpn) + Len(fifo) + One(q # NoQpn) + One(s # NoQpn)
           /\ One(m # NoQpn) + Len(fifo) + One(q # NoQpn) + One(s # NoQpn) <= N_QUEUE_PAIRS
<1> DEFINE F == Range(fifo)
           M == F \cup Held(m)
           Q == M \cup Held(q)
           R == Q \cup Held(s)
<1>1. IsFiniteSet(F) /\ Cardinality(F) = Len(fifo) /\ F \subseteq QPNs /\ Len(fifo) \in Nat
  BY RangeCardinality, RangeOfSeq, NonEmpty
<1>2. IsFiniteSet(M) /\ Cardinality(M) = Cardinality(F) + One(m # NoQpn)
  <2> HIDE DEF F
  <2>1. m # NoQpn => m \notin F
    BY DEF F
  <2> QED BY <1>1, <2>1, AddOne
<1>3. IsFiniteSet(Q) /\ Cardinality(Q) = Cardinality(M) + One(q # NoQpn)
  <2>1. q # NoQpn => q \notin M
    BY DEF Held
  <2> HIDE DEF M
  <2> QED BY <1>2, <2>1, AddOne
<1>4. IsFiniteSet(R) /\ Cardinality(R) = Cardinality(Q) + One(s # NoQpn)
  <2>1. s # NoQpn => s \notin Q
    BY DEF Held
  <2> HIDE DEF Q
  <2> QED BY <1>3, <2>1, AddOne
<1>41. R \subseteq QPNs
  BY <1>1 DEF Held
<1>5. IsFiniteSet(QPNs) /\ Cardinality(QPNs) = N_QUEUE_PAIRS
  BY FS_Interval, Nothings DEF QPNs
<1>6. Cardinality(R) <= N_QUEUE_PAIRS
  BY <1>41, <1>5, FS_Subset
<1>7. R = Numbers(m, fifo, q, s)
  BY DEF Numbers
<1> HIDE DEF F, M, Q, R
<1>8. Cardinality(R) = One(m # NoQpn) + Len(fifo) + One(q # NoQpn) + One(s # NoQpn)
  <2>1. One(m # NoQpn) \in Nat /\ One(q # NoQpn) \in Nat /\ One(s # NoQpn) \in Nat
    BY DEF One
  <2> QED BY <1>1, <1>2, <1>3, <1>4, <2>1
<1> QED BY <1>6, <1>7, <1>8

\* The number that the pool offers and nobody has taken yet.
Offer == IF m_ready THEN NoQpn ELSE m_qpn

\* The free numbers as a set of places.
LEMMA FreeIs ==
    ASSUME TypeOK
    PROVE  /\ Free = Numbers(Offer, pool_fifo, qpn_reg, s_qpn)
           /\ Len(Pooled) = One(Offer # NoQpn) + Len(pool_fifo) + One(qpn_reg # NoQpn) + One(s_qpn # NoQpn)
<1> DEFINE m == Offer
<1>1. /\ pool_fifo \in Seq(QPNs) /\ m \in QPNs \cup {NoQpn}
      /\ qpn_reg \in QPNs \cup {NoQpn} /\ s_qpn \in QPNs \cup {NoQpn}
  BY DEF TypeOK, Offer
<1>2. Pooled = Places(m, pool_fifo, qpn_reg, s_qpn)
  BY DEF Pooled, Slot, Places, Offer
<1>3. Free = Range(Pooled)
  BY DEF Free, Range
<1> HIDE DEF m
<1> DEFINE P == Places(m, pool_fifo, qpn_reg, s_qpn)
<1>4. /\ Range(Places(m, pool_fifo, qpn_reg, s_qpn)) = Numbers(m, pool_fifo, qpn_reg, s_qpn)
      /\ Len(Places(m, pool_fifo, qpn_reg, s_qpn))
           = One(m # NoQpn) + Len(pool_fifo) + One(qpn_reg # NoQpn) + One(s_qpn # NoQpn)
  BY <1>1, PooledRange, ZenonT(60)
<1> HIDE DEF P
<1>5. Free = Range(P) /\ Len(Pooled) = Len(P)
  BY <1>2, <1>3 DEF P
<1> QED BY <1>4, <1>5, Zenon DEF m, P

\* The free numbers after a step.
LEMMA FreeIsNext ==
    ASSUME TypeOK'
    PROVE  Free' = Numbers(Offer', pool_fifo', qpn_reg', s_qpn')
<1> DEFINE m == Offer'
<1>1. /\ pool_fifo' \in Seq(QPNs) /\ m \in QPNs \cup {NoQpn}
      /\ qpn_reg' \in QPNs \cup {NoQpn} /\ s_qpn' \in QPNs \cup {NoQpn}
  BY DEF TypeOK, Offer
<1>2. Pooled' = Places(m, pool_fifo', qpn_reg', s_qpn')
  BY DEF Pooled, Slot, Places, Offer
<1>3. Free' = Range(Pooled')
  BY DEF Free, Range
<1> HIDE DEF m
<1>4. /\ Range(Places(m, pool_fifo', qpn_reg', s_qpn')) = Numbers(m, pool_fifo', qpn_reg', s_qpn')
      /\ Len(Places(m, pool_fifo', qpn_reg', s_qpn'))
           = One(m # NoQpn) + Len(pool_fifo') + One(qpn_reg' # NoQpn) + One(s_qpn' # NoQpn)
  BY <1>1, PooledRange, ZenonT(60)
<1> QED BY <1>2, <1>3, <1>4, Zenon DEF m

\* What one edge makes of the FIFO of the pool and its output register: together
\* they lose the number that is being read, and gain the one that comes in.
LEMMA PoolFifoMoves ==
    ASSUME TypeInv, Distinct, Handshake, PoolStep(m_ready, s_qpn)
    PROVE  /\ IsInjective(pool_fifo') /\ (m_qpn' # NoQpn => m_qpn' \notin Range(pool_fifo'))
           /\ (Range(pool_fifo') \cup {m_qpn'}) \ {NoQpn}
                = Held(Offer) \cup Range(pool_fifo) \cup (IF qpn_valid THEN {qpn_reg} ELSE {})
           /\ ~FifoFull'
<1> DEFINE refill == m_ready \/ m_qpn = NoQpn
           rest   == IF refill /\ pool_fifo # <<>> THEN Tail(pool_fifo) ELSE pool_fifo
           new    == IF qpn_valid THEN <<qpn_reg>> ELSE <<>>
<1>1. /\ pool_fifo \in Seq(QPNs) /\ Len(pool_fifo) <= N_QUEUE_PAIRS /\ m_qpn \in QPNs \cup {NoQpn}
      /\ N_QUEUE_PAIRS \in Nat /\ N_QUEUE_PAIRS >= 2 /\ NoQpn \notin QPNs /\ Len(pool_fifo) \in Nat
      /\ m_ready \in BOOLEAN /\ qpn_valid \in BOOLEAN
  BY Nothings, NonEmpty, Booleans DEF TypeInv, TypeOK
<1>2. Range(pool_fifo) \subseteq QPNs
  BY <1>1, RangeOfSeq
<1>3. qpn_valid => qpn_reg \in QPNs /\ qpn_reg # NoQpn /\ ~FifoFull /\ qpn_reg \notin Range(pool_fifo) \cup {m_qpn}
  BY <1>1 DEF TypeInv, Registers, Handshake, Distinct
<1>4. /\ m_qpn' = IF ~refill THEN m_qpn ELSE IF pool_fifo = <<>> THEN NoQpn ELSE Head(pool_fifo)
      /\ pool_fifo' = rest \o new
  <2>1. (IF qpn_valid /\ ~FifoFull THEN <<qpn_reg>> ELSE <<>>) = new
    BY <1>3
  <2> QED BY <2>1 DEF PoolStep, PoolFifo
<1>5. /\ rest \in Seq(QPNs) /\ IsInjective(rest) /\ Range(rest) \subseteq Range(pool_fifo)
      /\ m_qpn' # NoQpn => m_qpn' \notin Range(rest)
      /\ (Range(rest) \cup {m_qpn'}) \ {NoQpn}
           = Held(Offer) \cup Range(pool_fifo)
      /\ Len(rest) = Len(pool_fifo) - One(refill /\ pool_fifo # <<>>)
  <2>1. CASE refill /\ pool_fifo # <<>>
    <3>1. rest = Tail(pool_fifo) /\ m_qpn' = Head(pool_fifo)
      BY <1>4, <2>1
    <3>2. /\ IsInjective(Tail(pool_fifo)) /\ Head(pool_fifo) \notin Range(Tail(pool_fifo))
          /\ Range(pool_fifo) = {Head(pool_fifo)} \cup Range(Tail(pool_fifo))
      BY <1>1, <2>1, TailRange DEF Distinct
    <3>3. Tail(pool_fifo) \in Seq(QPNs) /\ Len(Tail(pool_fifo)) = Len(pool_fifo) - 1
      BY <1>1, <2>1, NonEmpty
    <3> QED BY <1>1, <1>2, <2>1, <3>1, <3>2, <3>3 DEF One, Held, Offer
  <2>2. CASE refill /\ pool_fifo = <<>>
    <3>1. rest = pool_fifo /\ m_qpn' = NoQpn /\ Range(pool_fifo) = {}
      BY <1>4, <2>2 DEF Range
    <3> QED BY <1>1, <2>2, <3>1 DEF One, Distinct, Held, Offer
  <2>3. CASE ~refill
    <3>1. rest = pool_fifo /\ m_qpn' = m_qpn /\ m_qpn # NoQpn /\ ~m_ready /\ m_qpn \in QPNs
      BY <1>1, <1>4, <2>3
    <3> QED BY <1>1, <1>2, <2>3, <3>1 DEF One, Distinct, Held, Offer
  <2> QED BY <2>1, <2>2, <2>3, SMTT(30)
<1>6. ~refill => Len(pool_fifo) + 1 + One(qpn_valid) <= N_QUEUE_PAIRS
  <2> SUFFICES ASSUME ~refill PROVE Len(pool_fifo) + 1 + One(qpn_valid) <= N_QUEUE_PAIRS
    OBVIOUS
  <2>1. m_qpn \in QPNs /\ m_qpn \notin Range(pool_fifo) /\ (qpn_valid => m_qpn # qpn_reg)
    BY <1>1 DEF Distinct
  <2>2. qpn_reg \in QPNs \cup {NoQpn} /\ IsInjective(pool_fifo)
    BY DEF TypeInv, TypeOK, Distinct
  <2> DEFINE q == IF qpn_valid THEN qpn_reg ELSE NoQpn
             s == NoQpn
  <2>3. /\ q \in QPNs \cup {NoQpn} /\ m_qpn \notin Range(pool_fifo) \cup {q, s}
        /\ (q # NoQpn => q \notin Range(pool_fifo) \cup {s}) /\ s = NoQpn /\ s \in QPNs \cup {NoQpn}
    BY <1>1, <1>3, <2>1, <2>2
  <2>4. One(q # NoQpn) = One(qpn_valid) /\ One(q # NoQpn) \in Nat /\ One(m_qpn # NoQpn) = 1
        /\ One(s # NoQpn) = 0
    BY <1>1, <1>3, <2>1 DEF One
  <2> HIDE DEF q, s
  <2>5. One(m_qpn # NoQpn) + Len(pool_fifo) + One(q # NoQpn) + One(s # NoQpn) <= N_QUEUE_PAIRS
    BY <1>1, <2>1, <2>2, <2>3, PooledOnce
  <2> QED BY <1>1, <2>4, <2>5
<1> HIDE DEF rest
<1>7. /\ IsInjective(pool_fifo') /\ Len(pool_fifo') = Len(rest) + One(qpn_valid)
      /\ Range(pool_fifo') = Range(rest) \cup (IF qpn_valid THEN {qpn_reg} ELSE {})
  <2>1. CASE qpn_valid
    <3>1. pool_fifo' = rest \o <<qpn_reg>> /\ qpn_reg \in QPNs /\ qpn_reg \notin Range(rest)
      BY <1>3, <1>4, <1>5, <2>1
    <3> QED BY <1>5, <2>1, <3>1, AppendRange DEF One
  <2>2. CASE ~qpn_valid
    <3>1. pool_fifo' = rest \o <<>> /\ rest \o <<>> = rest /\ Len(rest) \in Nat
      BY <1>4, <1>5, <2>2, ConcatEmptySeq, NonEmpty
    <3> QED BY <1>5, <2>2, <3>1 DEF One
  <2> QED BY <1>1, <2>1, <2>2
<1>8. ~FifoFull'
  <2>1. One(qpn_valid) \in 0..1 /\ (qpn_valid => Len(pool_fifo) # N_QUEUE_PAIRS) /\ (~qpn_valid => One(qpn_valid) = 0)
    BY <1>3 DEF One, FifoFull
  <2>2. Len(pool_fifo') < N_QUEUE_PAIRS
    <3>1. CASE refill /\ pool_fifo # <<>>
      <4>1. Len(rest) = Len(pool_fifo) - 1
        BY <1>5, <3>1 DEF One
      <4> QED BY <1>1, <1>7, <2>1, <4>1
    <3>2. CASE refill /\ pool_fifo = <<>>
      <4>1. Len(rest) = 0
        BY <1>5, <3>2 DEF One
      <4> QED BY <1>1, <1>7, <2>1, <4>1
    <3>3. CASE ~refill
      <4>1. Len(rest) = Len(pool_fifo)
        BY <1>1, <1>5, <3>3 DEF One
      <4> QED BY <1>1, <1>6, <1>7, <2>1, <3>3, <4>1
    <3> QED BY <3>1, <3>2, <3>3
  <2> QED BY <1>1, <2>2 DEF FifoFull
<1>9. m_qpn' # NoQpn => m_qpn' \notin Range(pool_fifo')
  <2>1. m_qpn' # NoQpn => m_qpn' \in Range(pool_fifo) \cup {m_qpn}
    BY <1>5 DEF Held, Offer
  <2> QED BY <1>3, <1>5, <1>7, <2>1
<1> QED
  BY <1>3, <1>5, <1>7, <1>8, <1>9

\* An edge of the pool: every free number is stored in the pool afterwards, once,
\* and its FSM has taken the number that was returned.
LEMMA PoolEdge ==
    ASSUME TypeInv, Distinct, Handshake, PoolStep(m_ready, s_qpn)
    PROVE  /\ Stored' = Free
           /\ IsInjective(pool_fifo')
           /\ m_qpn' # NoQpn => m_qpn' \notin Range(pool_fifo') \cup {qpn_reg'}
           /\ qpn_reg' # NoQpn => qpn_reg' \notin Range(pool_fifo')
           /\ ~FifoFull'
           /\ s_qpn_ready' => pool_state' = "IDLE" /\ ~qpn_valid'
           /\ qpn_valid' => pool_state' = "IDLE"
           /\ qpn_reg' # NoQpn <=> pool_state' = "PASSTHROUGH" \/ qpn_valid'
           /\ s_qpn = NoQpn => pool_state' = "IDLE"
           /\ pool_state = "IDLE" /\ s_qpn = NoQpn /\ ~FifoFull => s_qpn_ready' /\ ~qpn_valid'
<1>1. /\ IsInjective(pool_fifo') /\ (m_qpn' # NoQpn => m_qpn' \notin Range(pool_fifo')) /\ ~FifoFull'
      /\ (Range(pool_fifo') \cup {m_qpn'}) \ {NoQpn}
           = Held(Offer) \cup Range(pool_fifo) \cup (IF qpn_valid THEN {qpn_reg} ELSE {})
  BY PoolFifoMoves
<1>2. /\ pool_state \in {"IDLE", "PASSTHROUGH"} /\ s_qpn \in QPNs \cup {NoQpn} /\ NoQpn \notin QPNs
      /\ qpn_reg \in QPNs \cup {NoQpn} /\ Range(pool_fifo) \subseteq QPNs /\ Range(pool_fifo') \subseteq QPNs
      /\ qpn_valid \in BOOLEAN /\ s_qpn_ready \in BOOLEAN
  BY Nothings, RangeOfSeq, PoolFifoTypes, Booleans DEF TypeInv, TypeOK
<1>3. Free = Held(Offer) \cup Range(pool_fifo) \cup Held(qpn_reg) \cup Held(s_qpn)
  BY FreeIs DEF TypeInv, Numbers
<1>4. /\ m_qpn # NoQpn => m_qpn \notin Range(pool_fifo) \cup {qpn_reg, s_qpn}
      /\ qpn_reg # NoQpn => qpn_reg \notin Range(pool_fifo) \cup {s_qpn}
      /\ s_qpn # NoQpn => s_qpn \notin Range(pool_fifo)
  BY DEF Distinct
<1>5. CASE s_qpn # NoQpn
  <2>1. s_qpn_ready /\ pool_state = "IDLE" /\ ~qpn_valid /\ qpn_reg = NoQpn
    BY <1>2, <1>5 DEF Handshake
  <2>2. pool_state' = "PASSTHROUGH" /\ s_qpn_ready' = FALSE /\ qpn_reg' = s_qpn /\ qpn_valid' = FALSE
    BY <1>5, <2>1 DEF PoolStep, PoolInput
  <2>3. (Range(pool_fifo') \cup {m_qpn'}) \ {NoQpn} = Held(Offer) \cup Range(pool_fifo)
    BY <1>1, <2>1
  <2>4. s_qpn \notin Held(Offer) \cup Range(pool_fifo)
    BY <1>4, <1>5 DEF Held, Offer
  <2>5. Stored' = Free
    BY <1>2, <1>3, <1>5, <2>1, <2>2, <2>3 DEF Stored, Held
  <2> QED BY <1>1, <1>5, <2>1, <2>2, <2>3, <2>4, <2>5
<1>6. CASE s_qpn = NoQpn /\ pool_state = "PASSTHROUGH"
  <2>1. ~qpn_valid /\ qpn_reg # NoQpn
    BY <1>2, <1>6 DEF Handshake
  <2>2. pool_state' = "IDLE" /\ s_qpn_ready' = FALSE /\ qpn_reg' = qpn_reg /\ qpn_valid' = TRUE
    BY <1>6 DEF PoolStep, PoolInput
  <2>3. (Range(pool_fifo') \cup {m_qpn'}) \ {NoQpn} = Held(Offer) \cup Range(pool_fifo)
    BY <1>1, <2>1
  <2>4. qpn_reg \notin Held(Offer) \cup Range(pool_fifo)
    BY <1>4, <2>1 DEF Held, Offer
  <2>5. Stored' = Free
    BY <1>2, <1>3, <1>6, <2>1, <2>2, <2>3 DEF Stored, Held
  <2> QED BY <1>1, <1>6, <2>1, <2>2, <2>3, <2>4, <2>5
<1>7. CASE s_qpn = NoQpn /\ pool_state = "IDLE"
  <2>1. qpn_valid <=> qpn_reg # NoQpn
    BY <1>2, <1>7 DEF Handshake
  <2>2. pool_state' = "IDLE" /\ s_qpn_ready' = ~FifoFull /\ qpn_reg' = NoQpn /\ qpn_valid' = FALSE
    BY <1>7 DEF PoolStep, PoolInput
  <2>3. Stored' = Free
    BY <1>1, <1>2, <1>3, <1>7, <2>1, <2>2 DEF Stored, Held
  <2> QED BY <1>1, <1>7, <2>2, <2>3
<1> QED BY <1>2, <1>5, <1>6, <1>7

\* The pool is sound as far as the pool goes: no number twice.
LEMMA OnceInPool ==
    ASSUME TypeOK, Distinct
    PROVE  Len(Pooled) = Cardinality(Free)
<1>1. /\ pool_fifo \in Seq(QPNs) /\ Offer \in QPNs \cup {NoQpn} /\ qpn_reg \in QPNs \cup {NoQpn}
      /\ s_qpn \in QPNs \cup {NoQpn} /\ IsInjective(pool_fifo)
      /\ Offer # NoQpn => Offer \notin Range(pool_fifo) \cup {qpn_reg, s_qpn}
      /\ qpn_reg # NoQpn => qpn_reg \notin Range(pool_fifo) \cup {s_qpn}
      /\ s_qpn # NoQpn => s_qpn \notin Range(pool_fifo)
  BY DEF TypeOK, Distinct, Offer
<1>2. Cardinality(Numbers(Offer, pool_fifo, qpn_reg, s_qpn))
        = One(Offer # NoQpn) + Len(pool_fifo) + One(qpn_reg # NoQpn) + One(s_qpn # NoQpn)
  BY <1>1, PooledOnce, ZenonT(60)
<1>3. /\ Free = Numbers(Offer, pool_fifo, qpn_reg, s_qpn)
      /\ Len(Pooled) = One(Offer # NoQpn) + Len(pool_fifo) + One(qpn_reg # NoQpn) + One(s_qpn # NoQpn)
  BY FreeIs
<1> QED BY <1>2, <1>3, Zenon

-----------------------------------------------------------------------------
(* An edge of clk_stack.                                                   *)

\* What the crossing FIFOs do on an edge of clk_stack.
LEMMA StackFifos ==
    ASSUME TypeInv, OneRequest, NEW r, NEW tx_ready, CmEdge(r, tx_ready)
    PROVE  /\ cm_valid => req_fifo' # <<>> /\ Len(req_fifo') = 1 /\ req_fifo'[1].item = cm_req
           /\ ~cm_valid => req_fifo' = req_fifo
           /\ Offered(status_fifo, "NONE") = "NONE" =>
                /\ status_fifo' # <<>> <=> status_fifo # <<>>
                /\ status_fifo' # <<>> => Len(status_fifo') = 1 /\ status_fifo'[1].item = status_fifo[1].item
           /\ Offered(status_fifo, "NONE") # "NONE" =>
                /\ status_fifo' = <<>> /\ status_fifo # <<>> /\ Arrived(status_fifo)
                /\ status_fifo[1].item = Offered(status_fifo, "NONE")
<1>1. /\ req_fifo \in Seq(ReqEntries) /\ status_fifo \in Seq(StatusEntries) /\ cm_valid \in BOOLEAN
      /\ cm_valid => cm_req \in ServedRequests
      /\ req_fifo' = Written(req_fifo, cm_valid, cm_req) /\ status_fifo' = Read(status_fifo)
  BY Booleans DEF TypeInv, Registers, CmEdge
<1>2. cm_valid => req_fifo' # <<>> /\ Len(req_fifo') = 1 /\ req_fifo'[1].item = cm_req
  <2> SUFFICES ASSUME cm_valid PROVE req_fifo' # <<>> /\ Len(req_fifo') = 1 /\ req_fifo'[1].item = cm_req
    OBVIOUS
  <2>1. req_fifo = <<>> /\ Len(req_fifo) = 0 /\ cm_req \in ServedRequests
    BY <1>1, EmptySeq DEF OneRequest
  <2>2. req_fifo' = Append(req_fifo, Entry(cm_req))
    BY <1>1 DEF Written
  <2>3. req_fifo' \in Seq(ReqEntries) /\ Len(req_fifo') = Len(req_fifo) + 1 /\ req_fifo'[1].item = cm_req
    <3>1. /\ Append(req_fifo, Entry(cm_req)) \in Seq(ReqEntries)
          /\ Len(Append(req_fifo, Entry(cm_req))) = Len(req_fifo) + 1
          /\ Append(req_fifo, Entry(cm_req))[1].item = cm_req
      BY <1>1, <2>1, AppendKeeps DEF ReqEntries
    <3> QED BY <2>2, <3>1
  <2>4. Len(req_fifo') = 1
    BY <2>1, <2>3
  <2>5. req_fifo' # <<>>
    BY <2>3, <2>4, NonEmpty
  <2> QED BY <2>3, <2>4, <2>5
<1>3. ~cm_valid => req_fifo' = req_fifo
  BY <1>1 DEF Written
<1>4. /\ Arrived(status_fifo) \in BOOLEAN
      /\ Arrived(status_fifo) => /\ status_fifo # <<>> /\ status_fifo[1].item \in {"OK", "ERROR"}
                                 /\ Offered(status_fifo, "NONE") = status_fifo[1].item
      /\ ~Arrived(status_fifo) => Offered(status_fifo, "NONE") = "NONE"
  BY <1>1, OfferedItem DEF StatusEntries
<1>5. /\ status_fifo' \in Seq(StatusEntries) /\ Len(status_fifo') = Len(status_fifo) - One(Arrived(status_fifo))
      /\ ~Arrived(status_fifo) => \A i \in 1..Len(status_fifo) : status_fifo'[i].item = status_fifo[i].item
  BY <1>1, ReadKeeps DEF StatusEntries
<1>6. /\ Len(status_fifo) \in Nat /\ (status_fifo = <<>> <=> Len(status_fifo) = 0)
      /\ Len(status_fifo') \in Nat /\ (status_fifo' = <<>> <=> Len(status_fifo') = 0)
  BY <1>1, <1>5, NonEmpty
<1>7. status_fifo # <<>> => Len(status_fifo) = 1
  BY DEF OneRequest
<1>8. CASE Arrived(status_fifo)
  <2>1. Len(status_fifo') = 0
    <3>1. One(Arrived(status_fifo)) = 1
      BY <1>8 DEF One
    <3>2. Len(status_fifo) = 1
      BY <1>4, <1>7, <1>8
    <3> QED BY <1>5, <3>1, <3>2
  <2> QED BY <1>2, <1>3, <1>4, <1>6, <1>8, <2>1
<1>9. CASE ~Arrived(status_fifo)
  <2>1. Len(status_fifo') = Len(status_fifo)
    BY <1>5, <1>6, <1>9 DEF One
  <2> QED BY <1>2, <1>3, <1>4, <1>5, <1>6, <1>7, <1>9, <2>1
<1> QED BY <1>4, <1>8, <1>9

\* What becomes of the free numbers on an edge of clk_stack: one that is being
\* taken leaves them, one that is being returned joins them.
LEMMA StackFree ==
    ASSUME TypeInv, TypeInv', Distinct, Handshake, PoolStep(m_ready, s_qpn)
    PROVE  /\ ~m_ready' /\ s_qpn' = NoQpn => Free' = Free
           /\ ~m_ready' /\ s_qpn' # NoQpn => Free' = Free \cup {s_qpn'}
           /\ m_ready' /\ s_qpn' = NoQpn /\ m_qpn' # NoQpn => Free' = Free \ {m_qpn'}
           /\ ~m_ready /\ m_qpn # NoQpn => m_qpn' = m_qpn /\ m_qpn \in Free
<1>1. /\ Stored' = Free
      /\ m_qpn' # NoQpn => m_qpn' \notin Range(pool_fifo') \cup {qpn_reg'}
      /\ qpn_reg' # NoQpn => qpn_reg' \notin Range(pool_fifo')
  BY PoolEdge
<1>2. Free' = Range(pool_fifo') \cup Held(Offer') \cup Held(qpn_reg') \cup Held(s_qpn')
  BY FreeIsNext DEF TypeInv, Numbers
<1>3. Free = Range(pool_fifo) \cup Held(Offer) \cup Held(qpn_reg) \cup Held(s_qpn)
  BY FreeIs DEF TypeInv, Numbers
<1>4. Range(pool_fifo') \subseteq QPNs /\ NoQpn \notin QPNs
  BY RangeOfSeq, Nothings DEF TypeInv, TypeOK
<1>5. Stored' = Range(pool_fifo') \cup Held(m_qpn') \cup Held(qpn_reg')
  BY <1>4 DEF Stored, Held
<1>6. ~m_ready' => Offer' = m_qpn'
  BY DEF Offer
<1>7. m_ready' => Held(Offer') = {}
  BY DEF Offer, Held
<1>8. ~m_ready /\ m_qpn # NoQpn => m_qpn' = m_qpn /\ m_qpn \in Free
  BY <1>3 DEF PoolStep, PoolFifo, Offer, Held
<1> QED BY <1>1, <1>2, <1>4, <1>5, <1>6, <1>7, <1>8 DEF Held

\* Everything that an edge of clk_stack does besides the step of the connection
\* manager, which sees the status.
StackEdge(status) ==
    /\ TypeInv'
    /\ q_state' = q_state /\ req_type' = req_type /\ ptr' = ptr /\ peer_reg' = peer_reg
    /\ qp_contex' = qp_contex /\ state_temp' = state_temp /\ qp_status' = qp_status
    /\ close_req' = close_req
    /\ Stored' = Free /\ IsInjective(pool_fifo') /\ ~FifoFull'
    /\ m_qpn' # NoQpn => m_qpn' \notin Range(pool_fifo') \cup {qpn_reg'}
    /\ qpn_reg' # NoQpn => qpn_reg' \notin Range(pool_fifo')
    /\ s_qpn_ready' => pool_state' = "IDLE" /\ ~qpn_valid'
    /\ qpn_valid' => pool_state' = "IDLE"
    /\ qpn_reg' # NoQpn <=> pool_state' = "PASSTHROUGH" \/ qpn_valid'
    /\ s_qpn = NoQpn => pool_state' = "IDLE"
    /\ pool_state = "IDLE" /\ s_qpn = NoQpn /\ ~FifoFull => s_qpn_ready'
    /\ ~m_ready' /\ s_qpn' = NoQpn => Free' = Free
    /\ ~m_ready' /\ s_qpn' # NoQpn => Free' = Free \cup {s_qpn'}
    /\ m_ready' /\ s_qpn' = NoQpn /\ m_qpn' # NoQpn => Free' = Free \ {m_qpn'}
    /\ ~m_ready /\ m_qpn # NoQpn => m_qpn' = m_qpn /\ m_qpn \in Free
    /\ cm_valid => req_fifo' # <<>> /\ Len(req_fifo') = 1 /\ req_fifo'[1].item = cm_req
    /\ ~cm_valid => req_fifo' = req_fifo
    /\ status = "NONE" =>
         /\ status_fifo' # <<>> <=> status_fifo # <<>>
         /\ status_fifo' # <<>> => Len(status_fifo') = 1 /\ status_fifo'[1].item = status_fifo[1].item
    /\ status # "NONE" => /\ status_fifo' = <<>> /\ status_fifo # <<>> /\ Arrived(status_fifo)
                          /\ status_fifo[1].item = status

\* The idle connection manager has nothing under way.
LEMMA NothingPending == Inv /\ cm_state = "IDLE" => NothingUnderWay
<1> SUFFICES ASSUME Inv, cm_state = "IDLE" PROVE NothingUnderWay
  OBVIOUS
<1>1. ~cm_valid /\ req_fifo = <<>> /\ status_fifo = <<>> /\ qp_status = "NONE" /\ ~Serving
  BY DEF Inv, OneRequest
<1> QED BY <1>1 DEF Inv, TypeInv, TypeOK, Serving, NothingUnderWay

\* Every edge of clk_stack is of this form.
LEMMA StackEdgeHolds ==
    ASSUME Inv, StackClock, NEW r \in CmInputs, NEW tx_ready \in BOOLEAN, CmEdge(r, tx_ready)
    PROVE  StackEdge(Offered(status_fifo, "NONE"))
<1>1. TypeInv /\ Distinct /\ Handshake /\ OneRequest /\ TypeInv' /\ PoolStep(m_ready, s_qpn)
  BY NothingPending, StackTypes DEF Inv, CmEdge, SlaveStep
<1>2. /\ q_state' = q_state /\ req_type' = req_type /\ ptr' = ptr /\ peer_reg' = peer_reg
      /\ qp_contex' = qp_contex /\ state_temp' = state_temp /\ qp_status' = qp_status
      /\ close_req' = close_req
  BY DEF StackClock, qpVars
<1> QED BY <1>1, <1>2, PoolEdge, StackFree, StackFifos DEF StackEdge

\* The parts of the invariant that only the pool and the QP state module matter to.
LEMMA StackPool ==
    ASSUME Inv, NEW status, StackEdge(status), s_qpn' # NoQpn => s_qpn' \notin Free
    PROVE  Distinct' /\ FreshRead'
<1>1. NoQpn \notin QPNs
  BY Nothings
<1>2. s_qpn' # NoQpn => s_qpn' \notin Range(pool_fifo') \cup {m_qpn', qpn_reg'}
  BY DEF StackEdge, Stored
<1>3. Distinct'
  BY <1>2 DEF StackEdge, Distinct
<1>4. FreshRead'
  BY DEF Inv, StackEdge, FreshRead
<1> QED BY <1>3, <1>4

\* The connection manager has no request in hand, before and after.
LEMMA StackQuiet ==
    ASSUME Inv, NEW status, StackEdge(status), cm_state # "MODIFY_QP", cm_state' # "MODIFY_QP",
           cm_valid' = FALSE, cm_req' = NoReq, s_qpn' = NoQpn, m_ready' = FALSE
    PROVE  Inv'
<1>1. /\ cm_req = NoReq /\ NoReq.type = "NULL" /\ NoReq.qpn \notin QPNs /\ Free' = Free /\ ~cm_valid
      /\ qp_contex' = qp_contex
  BY Nothings DEF Inv, OneRequest, StackEdge
<1>2. /\ req_fifo = <<>> /\ status_fifo = <<>> /\ qp_status = "NONE" /\ ~Serving
      /\ req_fifo' = <<>> /\ status_fifo' = <<>> /\ qp_status' = "NONE" /\ ~Serving'
  BY <1>1 DEF Inv, OneRequest, StackEdge, Serving
<1>3. Distinct' /\ FreshRead'
  BY StackPool
<1>4. Handshake'
  BY DEF StackEdge, Handshake
<1>5. OneRequest'
  BY <1>2 DEF OneRequest
<1>6. ReplyFits'
  BY DEF ReplyFits
<1>7. InHands'
  BY <1>1 DEF Inv, InHands
<1>8. Progress'
  BY <1>1, <1>2 DEF Progress, OnWay
<1> QED BY <1>3, <1>4, <1>5, <1>6, <1>7, <1>8 DEF Inv, StackEdge

\* A request is taken from a client and sent to the QP state module.
LEMMA StackForward ==
    ASSUME Inv, NEW status, StackEdge(status), cm_state = "IDLE",
           NEW type \in ReqTypes, NEW q \in QPNs \cup {BadQpn}, NEW c \in CLIENTS,
           type \in {"OPEN", "CLOSE"} => q \in QPNs,
           cm_state' = "MODIFY_QP", cm_valid' = TRUE,
           cm_req' = [type |-> type, qpn |-> q, from |-> c], s_qpn' = NoQpn,
           m_ready' = (type = "OPEN"), qp_close_req' = (type = "CLOSE"),
           type = "OPEN" => q = m_qpn,
           qp_info'.type = type, qp_info'.qpn = q, qp_info'.to = c
    PROVE  Inv'
<1>1. /\ cm_req = NoReq /\ NoReq.type = "NULL" /\ NoReq.qpn \notin QPNs /\ ~cm_valid /\ ~m_ready
      /\ qp_contex' = qp_contex /\ NoQpn \notin QPNs
  BY Nothings DEF Inv, OneRequest, StackEdge, Handshake
<1>2. /\ req_fifo = <<>> /\ status_fifo = <<>> /\ qp_status = "NONE" /\ ~Serving
      /\ req_fifo' = <<>> /\ status_fifo' = <<>> /\ qp_status' = "NONE" /\ ~Serving'
  BY <1>1 DEF Inv, OneRequest, StackEdge, Serving
<1>3. Distinct' /\ FreshRead'
  BY StackPool
<1>4. cm_req'.type = type /\ cm_req'.qpn = q /\ cm_req'.from = c /\ cm_req' \in ServedRequests
  BY DEF ServedRequests, Requests
<1>5. type = "OPEN" => m_qpn' = q /\ q \in Free /\ Free' = Free \ {q}
  BY <1>1 DEF StackEdge
<1>6. type # "OPEN" => Free' = Free
  BY DEF StackEdge
<1>7. \A n \in QPNs \ Free : qp_contex[n].state # "RESET"
  BY <1>1 DEF Inv, InHands
<1>8. Handshake'
  BY <1>1, <1>4, <1>5 DEF StackEdge, Handshake
<1>9. OneRequest'
  BY <1>2, <1>4 DEF OneRequest
<1>10. ReplyFits'
  BY <1>4 DEF ReplyFits
<1>11. InHands'
  <2>1. \A n \in Free' : n \in Free /\ qp_contex'[n].state = "RESET"
    BY <1>1, <1>5, <1>6 DEF Inv, InHands
  <2>2. cm_req'.type = "OPEN" => cm_req'.qpn \notin Free'
    BY <1>4, <1>5
  <2>3. \A n \in QPNs \ Free' : qp_contex'[n].state = "RESET" => n = cm_req'.qpn /\ cm_req'.type = "OPEN"
    BY <1>1, <1>4, <1>5, <1>6, <1>7
  <2> QED BY <2>1, <2>2, <2>3 DEF InHands
<1>12. Progress'
  <2>1. cm_req'.type = "OPEN" => qp_contex'[cm_req'.qpn].state = "RESET"
    BY <1>1, <1>4, <1>5 DEF Inv, InHands
  <2> QED BY <1>2, <2>1 DEF Progress, OnWay
<1> QED BY <1>3, <1>8, <1>9, <1>10, <1>11, <1>12 DEF Inv, StackEdge

\* The connection manager waits for the status.
LEMMA StackWait ==
    ASSUME Inv, StackEdge("NONE"), cm_state = "MODIFY_QP", cm_state' = "MODIFY_QP", cm_valid' = FALSE,
           cm_req' = cm_req, s_qpn' = NoQpn, m_ready' = FALSE, qp_close_req' = qp_close_req,
           qp_info'.type = qp_info.type, qp_info'.qpn = qp_info.qpn, qp_info'.to = qp_info.to
    PROVE  Inv'
<1>1. /\ Free' = Free /\ qp_contex' = qp_contex /\ qp_status' = qp_status /\ s_qpn = NoQpn
      /\ req_type' = req_type /\ ptr' = ptr /\ peer_reg' = peer_reg /\ (Serving' <=> Serving)
      /\ cm_valid \in BOOLEAN
  BY Booleans DEF Inv, TypeInv, StackEdge, Handshake, Serving
<1>2. /\ req_fifo' # <<>> => cm_valid \/ req_fifo # <<>>
      /\ req_fifo' # <<>> => Len(req_fifo') = 1 /\ req_fifo'[1].item = cm_req
      /\ (status_fifo' # <<>> <=> status_fifo # <<>>)
      /\ status_fifo' # <<>> => Len(status_fifo') = 1 /\ status_fifo'[1].item = status_fifo[1].item
  BY <1>1 DEF Inv, OneRequest, StackEdge
<1>3. Distinct' /\ FreshRead'
  BY StackPool
<1>4. Handshake'
  <2>1. pool_state' = "IDLE"
    BY <1>1 DEF StackEdge
  <2>2. s_qpn_ready' \/ ~Arrived(status_fifo)'
    <3>1. CASE pool_state = "IDLE"
      BY <1>1, <3>1 DEF Inv, StackEdge, Handshake
    <3>2. CASE pool_state = "PASSTHROUGH"
      <4>1. status_fifo' = <<>>
        BY <1>2, <3>2 DEF Inv, Handshake, OneRequest
      <4> QED BY <4>1 DEF Arrived
    <3> QED BY <3>1, <3>2 DEF Inv, TypeInv, TypeOK
  <2> QED BY <1>1, <2>1, <2>2 DEF StackEdge, Handshake
<1>5. OneRequest'
  BY <1>1, <1>2 DEF Inv, OneRequest
<1>6. ReplyFits'
  BY DEF Inv, ReplyFits
<1>7. (OnWay("OK"))' = OnWay("OK") /\ (OnWay("ERROR"))' = OnWay("ERROR")
  BY <1>1, <1>2 DEF OnWay
<1>8. InHands'
  BY <1>1, <1>7 DEF Inv, InHands
<1>9. Progress'
  BY <1>1, <1>2, <1>7 DEF Inv, Progress
<1> QED BY <1>3, <1>4, <1>5, <1>6, <1>8, <1>9 DEF Inv, StackEdge

\* The status is success: the reply is an ACK, and a closed number goes back.
LEMMA StackAck ==
    ASSUME Inv, StackEdge("OK"), cm_state = "MODIFY_QP", cm_state' = "IDLE", cm_valid' = FALSE,
           cm_req' = NoReq, s_qpn' = (IF qp_close_req THEN cm_req.qpn ELSE NoQpn), m_ready' = FALSE,
           qp_close_req => s_qpn_ready, qp_info' = [qp_info EXCEPT !.valid = TRUE, !.ack = "ACK"]
    PROVE  Inv' /\ ReplyTrue'
<1>1. /\ qp_contex' = qp_contex /\ qp_status' = qp_status /\ (Serving' <=> Serving) /\ s_qpn = NoQpn
      /\ NoReq.type = "NULL" /\ NoReq.qpn \notin QPNs /\ NoQpn \notin QPNs
  BY Nothings DEF Inv, StackEdge, Handshake, Serving
<1>2. status_fifo # <<>> /\ status_fifo[1].item = "OK" /\ status_fifo' = <<>> /\ OnWay("OK")
  BY DEF StackEdge, OnWay
<1>3. /\ ~cm_valid /\ req_fifo = <<>> /\ ~Serving /\ qp_status = "NONE" /\ req_fifo' = <<>>
  BY <1>2 DEF Inv, OneRequest, StackEdge
<1>4. /\ cm_req.qpn \in QPNs /\ (qp_close_req <=> cm_req.type = "CLOSE")
      /\ cm_req.type = "CLOSE" => qp_contex[cm_req.qpn].state = "RESET" /\ cm_req.qpn \notin Free
      /\ cm_req.type # "CLOSE" => qp_contex[cm_req.qpn].state \in {"RTS", "ERROR"}
      /\ cm_req.type = "OPEN" => qp_contex[cm_req.qpn].peer = cm_req.from
  BY <1>2 DEF Inv, Progress, ReplyFits
<1>5. qp_info'.type = cm_req.type /\ qp_info'.qpn = cm_req.qpn /\ qp_info'.to = cm_req.from
  BY DEF Inv, ReplyFits, TypeInv, TypeOK
<1>6. Distinct' /\ FreshRead'
  BY <1>4, StackPool
<1>7. Free' = IF qp_close_req THEN Free \cup {cm_req.qpn} ELSE Free
  BY <1>1, <1>4 DEF StackEdge
<1>8. Handshake'
  BY <1>1, <1>3 DEF Inv, StackEdge, Handshake
<1>9. OneRequest'
  BY <1>1, <1>2, <1>3 DEF OneRequest
<1>10. ReplyFits'
  BY DEF ReplyFits
<1>11. InHands'
  <2>1. \A n \in Free' : qp_contex'[n].state = "RESET"
    BY <1>1, <1>4, <1>7 DEF Inv, InHands
  <2>2. \A n \in QPNs \ Free' : qp_contex'[n].state # "RESET"
    BY <1>1, <1>4, <1>7 DEF Inv, InHands
  <2> QED BY <1>1, <2>1, <2>2 DEF InHands
<1>12. Progress'
  BY <1>1, <1>2, <1>3 DEF Progress, OnWay
<1>13. ReplyTrue'
  BY <1>1, <1>4, <1>5, <1>7 DEF ReplyTrue
<1> QED BY <1>6, <1>8, <1>9, <1>10, <1>11, <1>12, <1>13 DEF Inv, StackEdge

\* The status is failure, the only other way: the pool was ready for a number.
LEMMA StackFail ==
    ASSUME Inv, NEW status, StackEdge(status), cm_state = "MODIFY_QP", cm_state' = "SEND_ERROR",
           status = "ERROR" \/ (status = "OK" /\ qp_close_req /\ ~s_qpn_ready),
           cm_valid' = FALSE, cm_req' = NoReq, s_qpn' = NoQpn, m_ready' = FALSE
    PROVE  Inv'
<1>1. /\ qp_contex' = qp_contex /\ qp_status' = qp_status /\ (Serving' <=> Serving) /\ s_qpn = NoQpn
      /\ NoReq.type = "NULL" /\ NoReq.qpn \notin QPNs /\ Free' = Free
  BY Nothings DEF Inv, StackEdge, Handshake, Serving
<1>2. status_fifo # <<>> /\ status_fifo[1].item = status /\ status_fifo' = <<>> /\ Arrived(status_fifo)
  BY DEF StackEdge
<1>3. /\ ~cm_valid /\ req_fifo = <<>> /\ ~Serving /\ qp_status = "NONE" /\ req_fifo' = <<>>
  BY <1>2 DEF Inv, OneRequest, StackEdge
<1>4. status = "ERROR" /\ OnWay("ERROR") /\ ~OnWay("OK")
  BY <1>2, <1>3 DEF Inv, Handshake, OnWay
<1>5. Distinct' /\ FreshRead'
  BY StackPool
<1>6. Handshake'
  BY <1>1 DEF StackEdge, Handshake
<1>7. OneRequest'
  BY <1>1, <1>2, <1>3 DEF OneRequest
<1>8. ReplyFits'
  BY DEF ReplyFits
<1>9. InHands'
  <2>1. \A n \in QPNs \ Free : qp_contex[n].state # "RESET"
    BY <1>4 DEF Inv, InHands, Progress
  <2> QED BY <1>1, <2>1 DEF Inv, InHands
<1>10. Progress'
  BY <1>1, <1>2, <1>3 DEF Progress, OnWay
<1> QED BY <1>5, <1>6, <1>7, <1>8, <1>9, <1>10 DEF Inv, StackEdge

\* An edge of clk_stack keeps the invariant.
LEMMA StackInv ==
    ASSUME Inv, StackClock
    PROVE  Inv'
<1> PICK r \in CmInputs, tx_ready \in BOOLEAN : (~qp_info.valid => tx_ready) /\ CmEdge(r, tx_ready)
  BY DEF StackClock
<1> DEFINE status == Offered(status_fifo, "NONE")
<1>1. StackEdge(status)
  BY StackEdgeHolds
<1>2. SlaveStep(r, status, tx_ready)
  BY DEF CmEdge
<1> HIDE DEF status
<1>3. /\ r = NoReq \/ r \in Requests
      /\ r.type \in ReqTypes => r # NoReq /\ r \in ServedRequests /\ r.from \in CLIENTS
  BY ClientInput DEF ServedRequests, Requests
<1>4. /\ qp_info \in [valid : BOOLEAN, type : ReqTypes \cup {"NULL"}, ack : Acks,
                      qpn : QPNs \cup {BadQpn}, to : CLIENTS \cup {NoClient}]
      /\ m_qpn \in QPNs \cup {NoQpn}
  BY DEF Inv, TypeInv, TypeOK
<1>6. ASSUME NEW type \in ReqTypes, r.type = type, NEW q \in QPNs \cup {BadQpn},
             type \in {"OPEN", "CLOSE"} => q \in QPNs, type = "OPEN" => q = m_qpn,
             cm_state = "IDLE", Forward(type, q, r, tx_ready),
             m_ready' = (type = "OPEN"), qp_close_req' = (type = "CLOSE")
      PROVE  Inv'
  <2>1. r.from \in CLIENTS
    BY <1>3, <1>6
  <2>2. qp_info'.type = type /\ qp_info'.qpn = q /\ qp_info'.to = r.from
    BY <1>4, <1>6 DEF Forward, Kept, Pending
  <2>3. /\ cm_state' = "MODIFY_QP" /\ cm_valid' = TRUE /\ s_qpn' = NoQpn
        /\ cm_req' = [type |-> type, qpn |-> q, from |-> r.from]
    BY <1>6 DEF Forward
  <2> QED BY <1>1, <1>6, <2>1, <2>2, <2>3, StackForward
<1>7. ASSUME Quiet, cm_state # "MODIFY_QP", cm_state' \in {"IDLE", "SEND_ERROR"}, m_ready' = FALSE
      PROVE  Inv'
  <2>1. cm_valid' = FALSE /\ cm_req' = NoReq /\ s_qpn' = NoQpn
    BY <1>7 DEF Quiet
  <2> QED BY <1>1, <1>7, <2>1, StackQuiet
<1>8. CASE OpenQp(r, tx_ready)
  <2>1. /\ r.type = "OPEN" /\ m_qpn \in QPNs /\ cm_state = "IDLE" /\ Forward("OPEN", m_qpn, r, tx_ready)
        /\ m_ready' = TRUE /\ qp_close_req' = FALSE
    BY <1>4, <1>8 DEF OpenQp
  <2> QED BY <1>6, <2>1 DEF ReqTypes
<1>9. CASE ModifyQp(r, tx_ready)
  <2>1. /\ r.type = "MODIFY_RTS" /\ cm_state = "IDLE" /\ Forward("MODIFY_RTS", r.qpn, r, tx_ready)
        /\ m_ready' = FALSE /\ qp_close_req' = FALSE
    BY <1>9 DEF ModifyQp
  <2>2. r.qpn \in QPNs \cup {BadQpn}
    BY <1>3, <2>1 DEF ServedRequests, Requests, ReqTypes
  <2> QED BY <1>6, <2>1, <2>2 DEF ReqTypes
<1>10. CASE CloseQp(r, tx_ready)
  <2>1. /\ r.type = "CLOSE" /\ r.qpn \in QPNs /\ cm_state = "IDLE" /\ Forward("CLOSE", r.qpn, r, tx_ready)
        /\ m_ready' = FALSE /\ qp_close_req' = TRUE
    BY <1>10 DEF CloseQp, InRange
  <2> QED BY <1>6, <2>1 DEF ReqTypes
<1>11. CASE NoQpLeft(r, tx_ready) \/ CloseRefused(r, tx_ready)
  <2>1. cm_state = "IDLE" /\ cm_state' = "SEND_ERROR" /\ Quiet /\ m_ready' = FALSE
    BY <1>11 DEF NoQpLeft, CloseRefused, SendError
  <2> QED BY <1>7, <2>1
<1>12. CASE UnknownRequest(r)
  <2>1. cm_state = "IDLE" /\ cm_state' = "IDLE" /\ Quiet /\ m_ready' = FALSE
    BY <1>12 DEF UnknownRequest
  <2> QED BY <1>7, <2>1
<1>13. CASE Idle(r, tx_ready)
  <2>1. cm_state = "IDLE" /\ cm_state' = "IDLE" /\ Quiet /\ m_ready' = FALSE
    BY <1>13 DEF Idle
  <2> QED BY <1>7, <2>1
<1>14. CASE Wait(status, tx_ready)
  <2>1. /\ status = "NONE" /\ cm_state = "MODIFY_QP" /\ cm_state' = "MODIFY_QP" /\ cm_valid' = FALSE
        /\ cm_req' = cm_req /\ s_qpn' = NoQpn /\ m_ready' = FALSE /\ qp_close_req' = qp_close_req
        /\ qp_info' = Kept(tx_ready)
    BY <1>14 DEF Wait, Quiet
  <2>2. qp_info'.type = qp_info.type /\ qp_info'.qpn = qp_info.qpn /\ qp_info'.to = qp_info.to
    BY <1>4, <2>1 DEF Kept, Pending
  <2> QED BY <1>1, <2>1, <2>2, StackWait
<1>15. CASE Acknowledge(status)
  <2>1. /\ status = "OK" /\ cm_state = "MODIFY_QP" /\ cm_state' = "IDLE" /\ cm_valid' = FALSE
        /\ cm_req' = NoReq /\ s_qpn' = (IF qp_close_req THEN cm_req.qpn ELSE NoQpn) /\ m_ready' = FALSE
        /\ qp_close_req => s_qpn_ready
        /\ qp_info' = [qp_info EXCEPT !.valid = TRUE, !.ack = "ACK"]
    BY <1>15 DEF Acknowledge
  <2> QED BY <1>1, <2>1, StackAck
<1>16. CASE Fail(status)
  <2>1. /\ status = "ERROR" \/ (status = "OK" /\ qp_close_req /\ ~s_qpn_ready)
        /\ cm_state = "MODIFY_QP" /\ cm_state' = "SEND_ERROR" /\ cm_valid' = FALSE
        /\ cm_req' = NoReq /\ s_qpn' = NoQpn /\ m_ready' = FALSE
    BY <1>16 DEF Fail, Quiet
  <2> QED BY <1>1, <2>1, StackFail
<1>17. CASE ReplyError
  <2>1. cm_state = "SEND_ERROR" /\ cm_state' = "IDLE" /\ Quiet /\ m_ready' = FALSE
    BY <1>17 DEF ReplyError
  <2> QED BY <1>7, <2>1
<1> QED
  BY <1>2, <1>8, <1>9, <1>10, <1>11, <1>12, <1>13, <1>14, <1>15, <1>16, <1>17 DEF SlaveStep

-----------------------------------------------------------------------------
(* An edge of clk_roce_eng.                                                *)

\* Everything that an edge of clk_roce_eng does besides the step of the QP state
\* module, which sees the request cm, or NoReq.
EngineEdge(cm) ==
    /\ TypeInv' /\ Distinct' /\ Handshake' /\ ReplyFits'
    /\ cm_state' = cm_state /\ cm_valid' = cm_valid /\ cm_req' = cm_req /\ qp_info' = qp_info
    /\ Free' = Free
    /\ cm = NoReq \/ (cm = cm_req /\ req_fifo # <<>>)
    /\ cm # NoReq => req_fifo' = <<>>
    /\ cm = NoReq =>
         /\ req_fifo' # <<>> <=> req_fifo # <<>>
         /\ req_fifo' # <<>> => Len(req_fifo') = 1 /\ req_fifo'[1].item = req_fifo[1].item
    /\ status_fifo' # <<>> <=> qp_status # "NONE" \/ status_fifo # <<>>
    /\ status_fifo' # <<>> => Len(status_fifo') = 1
    /\ OnWay("OK") <=> status_fifo' # <<>> /\ status_fifo'[1].item = "OK"
    /\ OnWay("ERROR") <=> status_fifo' # <<>> /\ status_fifo'[1].item = "ERROR"

\* The status FIFO on such an edge.
LEMMA EngineStatus ==
    ASSUME TypeInv, OneRequest, status_fifo' = Written(status_fifo, qp_status # "NONE", qp_status)
    PROVE  /\ status_fifo' # <<>> <=> qp_status # "NONE" \/ status_fifo # <<>>
           /\ status_fifo' # <<>> => Len(status_fifo') = 1
           /\ OnWay("OK") <=> status_fifo' # <<>> /\ status_fifo'[1].item = "OK"
           /\ OnWay("ERROR") <=> status_fifo' # <<>> /\ status_fifo'[1].item = "ERROR"
<1>1. status_fifo \in Seq(StatusEntries) /\ qp_status \in {"NONE", "OK", "ERROR"}
  BY DEF TypeInv, TypeOK
<1>2. CASE qp_status = "NONE"
  <2>1. status_fifo' = status_fifo
    BY <1>2 DEF Written
  <2> QED BY <1>2, <2>1 DEF OneRequest, OnWay
<1>3. CASE qp_status # "NONE"
  <2>1. status_fifo = <<>> /\ Len(status_fifo) = 0 /\ qp_status \in {"OK", "ERROR"}
    BY <1>1, <1>3, EmptySeq DEF OneRequest
  <2>2. status_fifo' = Append(status_fifo, Entry(qp_status))
    BY <1>3 DEF Written
  <2>3. /\ Append(status_fifo, Entry(qp_status)) \in Seq(StatusEntries)
        /\ Len(Append(status_fifo, Entry(qp_status))) = Len(status_fifo) + 1
        /\ Append(status_fifo, Entry(qp_status))[1].item = qp_status
    BY <1>1, <2>1, AppendKeeps, ZenonT(60) DEF StatusEntries
  <2>4. status_fifo' \in Seq(StatusEntries) /\ Len(status_fifo') = 1 /\ status_fifo'[1].item = qp_status
    BY <2>1, <2>2, <2>3
  <2>5. status_fifo' # <<>>
    BY <2>4, NonEmpty
  <2>6. ASSUME NEW status
        PROVE  OnWay(status) <=> status_fifo'[1].item = status
    BY <2>1, <2>4 DEF OnWay
  <2> QED BY <1>3, <2>4, <2>5, <2>6
<1> QED BY <1>2, <1>3

\* The request FIFO on such an edge.
LEMMA EngineRequest ==
    ASSUME TypeInv, OneRequest, req_fifo' = Read(req_fifo), NEW cm, cm = Offered(req_fifo, NoReq)
    PROVE  /\ cm = NoReq \/ (cm = cm_req /\ req_fifo # <<>>)
           /\ cm # NoReq => req_fifo' = <<>>
           /\ cm = NoReq =>
                /\ req_fifo' # <<>> <=> req_fifo # <<>>
                /\ req_fifo' # <<>> => Len(req_fifo') = 1 /\ req_fifo'[1].item = req_fifo[1].item
<1>1. req_fifo \in Seq(ReqEntries) /\ (req_fifo # <<>> => Len(req_fifo) = 1 /\ req_fifo[1].item = cm_req)
  BY DEF TypeInv, OneRequest
<1>2. /\ Arrived(req_fifo) \in BOOLEAN
      /\ Arrived(req_fifo) => req_fifo # <<>> /\ cm = req_fifo[1].item /\ cm \in ServedRequests
      /\ ~Arrived(req_fifo) => cm = NoReq
  BY <1>1, OfferedItem DEF ReqEntries
<1>3. /\ req_fifo' \in Seq(ReqEntries) /\ Len(req_fifo') = Len(req_fifo) - One(Arrived(req_fifo))
      /\ ~Arrived(req_fifo) => \A i \in 1..Len(req_fifo) : req_fifo'[i].item = req_fifo[i].item
  BY <1>1, ReadKeeps DEF ReqEntries
<1>4. /\ Len(req_fifo) \in Nat /\ (req_fifo = <<>> <=> Len(req_fifo) = 0)
      /\ Len(req_fifo') \in Nat /\ (req_fifo' = <<>> <=> Len(req_fifo') = 0)
  BY <1>1, <1>3, NonEmpty
<1>5. NoReq \notin ServedRequests
  BY Nothings
<1>6. CASE Arrived(req_fifo)
  <2>1. One(Arrived(req_fifo)) = 1 /\ Len(req_fifo) = 1
    BY <1>1, <1>2, <1>6 DEF One
  <2>2. Len(req_fifo') = 0
    BY <1>3, <2>1
  <2> QED BY <1>1, <1>2, <1>4, <1>5, <1>6, <2>2
<1>7. CASE ~Arrived(req_fifo)
  <2>1. Len(req_fifo') = Len(req_fifo)
    BY <1>3, <1>4, <1>7 DEF One
  <2> QED BY <1>1, <1>2, <1>3, <1>4, <1>7, <2>1
<1> QED BY <1>2, <1>6, <1>7

\* Every edge of clk_roce_eng is of this form.
LEMMA EngineEdgeHolds ==
    ASSUME Inv, EngineClock, NEW nak, NEW close, NEW update, QpEdge(nak, close, update)
    PROVE  EngineEdge(Offered(req_fifo, NoReq))
<1>1. TypeInv /\ OneRequest /\ TypeInv'
  BY EngineTypes DEF Inv
<1>2. /\ pool_fifo' = pool_fifo /\ m_qpn' = m_qpn /\ pool_state' = pool_state
      /\ s_qpn_ready' = s_qpn_ready /\ qpn_reg' = qpn_reg /\ qpn_valid' = qpn_valid
      /\ cm_state' = cm_state /\ cm_valid' = cm_valid /\ cm_req' = cm_req
      /\ qp_close_req' = qp_close_req /\ m_ready' = m_ready /\ s_qpn' = s_qpn
      /\ qp_info' = qp_info
  BY DEF EngineClock, poolVars, slaveVars
<1>3. Distinct'
  BY <1>2 DEF Inv, Distinct
<1>4. Handshake'
  <2>1. ~Arrived(status_fifo) => ~Arrived(status_fifo)'
    <3> SUFFICES ASSUME ~Arrived(status_fifo), Arrived(status_fifo)' PROVE FALSE
      OBVIOUS
    <3>1. qp_status # "NONE"
      BY DEF QpEdge, Written, Arrived
    <3>2. status_fifo = <<>> /\ qp_status \in {"OK", "ERROR"} /\ status_fifo \in Seq(StatusEntries)
      BY <1>1, <3>1 DEF OneRequest, TypeInv, TypeOK
    <3>3. status_fifo' = Append(<<>>, Entry(qp_status))
      BY <3>1, <3>2 DEF QpEdge, Written
    <3>4. Head(status_fifo') = Entry(qp_status)
      BY <3>3
    <3>5. Entry(qp_status).age = 0 /\ CROSSING # 0
      BY CrossingAssumption DEF Entry
    <3> QED BY <3>4, <3>5 DEF Arrived
  <2> QED BY <1>2, <2>1 DEF Inv, Handshake, FifoFull
<1>5. ReplyFits'
  BY <1>2 DEF Inv, ReplyFits
<1>6. Free' = Free
  BY <1>2 DEF Free, Pooled
<1>7. req_fifo' = Read(req_fifo) /\ status_fifo' = Written(status_fifo, qp_status # "NONE", qp_status)
  BY DEF QpEdge
<1> DEFINE cm == Offered(req_fifo, NoReq)
<1>8. cm = Offered(req_fifo, NoReq)
  OBVIOUS
<1> HIDE DEF cm
<1>9. EngineEdge(cm)
  BY <1>1, <1>2, <1>3, <1>4, <1>5, <1>6, <1>7, <1>8, EngineStatus, EngineRequest DEF EngineEdge
<1> QED BY <1>8, <1>9

\* The new close request of the engine belongs to an open queue pair, and waits
\* for an idle FSM.
LEMMA EngineFault ==
    ASSUME ~LateFaults, Inv, NEW nak \in Naks, NEW close \in QPNs \cup {NoQpn}, NEW update,
           EngineSide(close, update), CloseTimely(close)
    PROVE  /\ close_req' # NoQpn =>
                \/ close_req' = close_req /\ close_req # NoQpn /\ q_state = "IDLE"
                \/ close_req' \in QPNs /\ q_state' = "IDLE" /\ qp_contex'[close_req'].state # "RESET"
           /\ nak \in QPNs => qp_contex[nak].state # "RESET"
<1>1. close_req # NoQpn => q_state \in {"IDLE", "ERROR_QP"}
  BY DEF Inv, FreshRead
<1>2. nak \in QPNs => qp_contex[nak].state # "RESET"
  BY Nothings DEF Naks
<1> QED BY <1>1, <1>2 DEF EngineSide, CloseTimely

\* The FSM serves no request, and changes no context but that of a fault.
LEMMA EngineOther ==
    ASSUME Inv, NEW cm, EngineEdge(cm), ~Serving, ~Serving', qp_status' = "NONE", FreshRead',
           NEW f \in QPNs \cup {NoQpn}, f # NoQpn => qp_contex[f].state # "RESET",
           qp_contex' = [qp_contex EXCEPT ![f].state = "ERROR"]
    PROVE  Inv'
<1>1. qp_contex \in [QPNs -> [state : QpStates, peer : CLIENTS \cup {NoClient}]] /\ NoQpn \notin QPNs
  BY Nothings DEF Inv, TypeInv, TypeOK
<1>2. \A q \in QPNs : /\ qp_contex'[q].peer = qp_contex[q].peer
                      /\ qp_contex[q].state = "RESET" <=> qp_contex'[q].state = "RESET"
                      /\ qp_contex[q].state \in {"RTS", "ERROR"} => qp_contex'[q].state \in {"RTS", "ERROR"}
  BY <1>1
<1>3. Free \subseteq QPNs
  <2>1. Range(pool_fifo) \subseteq QPNs
    BY RangeOfSeq DEF Inv, TypeInv, TypeOK
  <2> QED BY <2>1, FreeIs DEF Inv, TypeInv, TypeOK, Numbers, Held, Offer
<1>4. OneRequest'
  BY DEF Inv, OneRequest, EngineEdge
<1>5. (OnWay("OK"))' = OnWay("OK") /\ (OnWay("ERROR"))' = OnWay("ERROR")
  BY DEF EngineEdge, OnWay
<1>6. InHands'
  BY <1>2, <1>3, <1>5 DEF Inv, InHands, EngineEdge
<1>7. cm_req.type = "OPEN" => cm_req.qpn \in QPNs
  BY Nothings DEF Inv, OneRequest, ReplyFits
<1>8. Progress'
  <2>1. req_fifo' # <<>> => req_fifo # <<>>
    BY DEF EngineEdge
  <2> QED BY <1>2, <1>5, <1>7, <2>1 DEF Inv, Progress, EngineEdge
<1> QED BY <1>4, <1>6, <1>8 DEF Inv, EngineEdge

\* A request is taken into service, or the context is read: no context changes.
LEMMA EngineTakeRead ==
    ASSUME Inv, NEW cm, EngineEdge(cm), Serving', qp_status' = "NONE", qp_contex' = qp_contex, FreshRead',
           \/ ~Serving /\ cm # NoReq /\ ptr' = cm.qpn /\ peer_reg' = cm.from /\ req_type' = cm.type
           \/ Serving /\ ptr' = ptr /\ peer_reg' = peer_reg /\ req_type' = req_type
    PROVE  Inv'
<1>1. /\ cm_state = "MODIFY_QP" /\ ~cm_valid /\ req_fifo' = <<>> /\ status_fifo = <<>> /\ qp_status = "NONE"
      /\ status_fifo' = <<>> /\ cm_req' = cm_req /\ cm_state' = cm_state /\ cm_valid' = cm_valid
      /\ Free' = Free
  BY DEF Inv, OneRequest, EngineEdge
<1>2. /\ ptr' = cm_req.qpn /\ peer_reg' = cm_req.from
      /\ req_type' = cm_req.type \/ (cm_req.type = "OPEN" /\ req_type' = "MODIFY_RTS" /\ Serving
                                     /\ req_type = "MODIFY_RTS")
  BY DEF Inv, OneRequest, EngineEdge
<1>3. OneRequest'
  BY <1>1, <1>2 DEF Inv, OneRequest
<1>4. ~OnWay("OK") /\ ~(OnWay("OK"))' /\ ~(OnWay("ERROR"))'
  BY <1>1 DEF OnWay
<1>5. InHands'
  BY <1>1, <1>4 DEF Inv, InHands
<1>6. Progress'
  <2>1. cm_req.type = "OPEN" /\ req_type' = "OPEN" => req_fifo # <<>> \/ (Serving /\ req_type = "OPEN")
    BY DEF EngineEdge
  <2> QED BY <1>1, <1>2, <1>4, <2>1 DEF Inv, Progress
<1> QED BY <1>3, <1>5, <1>6 DEF Inv, EngineEdge

\* What is known when the context is written.
LEMMA EngineWrite ==
    ASSUME Inv, NEW cm, EngineEdge(cm), q_state = "UPDATE_CONTEXT"
    PROVE  /\ qp_contex \in [QPNs -> [state : QpStates, peer : CLIENTS \cup {NoClient}]] /\ Free \subseteq QPNs
           /\ ptr \in QPNs /\ cm_req.qpn = ptr /\ cm_req.from = peer_reg /\ Serving
           /\ cm_state = "MODIFY_QP" /\ ~cm_valid /\ req_fifo = <<>> /\ status_fifo = <<>> /\ qp_status = "NONE"
           /\ req_fifo' = <<>> /\ status_fifo' = <<>> /\ cm_req' = cm_req /\ cm_state' = cm_state
           /\ cm_valid' = cm_valid /\ Free' = Free /\ cm_req \in ServedRequests
           /\ state_temp = qp_contex[ptr].state /\ ~OnWay("OK") /\ qp_info' = qp_info
           /\ req_type = "CLOSE" => cm_req.type = "CLOSE"
           /\ req_type = "OPEN" => cm_req.type = "OPEN"
           /\ req_type = "MODIFY_RTS" => cm_req.type \in {"OPEN", "MODIFY_RTS"}
           /\ \A q \in QPNs \ Free : qp_contex[q].state = "RESET" => q = cm_req.qpn /\ cm_req.type = "OPEN"
           /\ \A q \in Free : qp_contex[q].state = "RESET"
           /\ cm_req.type = "OPEN" => cm_req.qpn \notin Free
<1>1. Serving
  BY DEF Serving
<1>2. /\ cm_state = "MODIFY_QP" /\ ~cm_valid /\ req_fifo = <<>> /\ status_fifo = <<>> /\ qp_status = "NONE"
      /\ req_fifo' = <<>> /\ status_fifo' = <<>> /\ cm_req' = cm_req /\ cm_state' = cm_state
      /\ cm_valid' = cm_valid /\ Free' = Free /\ cm_req \in ServedRequests /\ qp_info' = qp_info
      /\ ptr = cm_req.qpn /\ peer_reg = cm_req.from
      /\ req_type = cm_req.type \/ (cm_req.type = "OPEN" /\ req_type = "MODIFY_RTS")
  BY <1>1 DEF Inv, OneRequest, EngineEdge
<1>3. Free \subseteq QPNs
  <2>1. Range(pool_fifo) \subseteq QPNs
    BY RangeOfSeq DEF Inv, TypeInv, TypeOK
  <2> QED BY <2>1, FreeIs DEF Inv, TypeInv, TypeOK, Numbers, Held, Offer
<1>4. qp_contex \in [QPNs -> [state : QpStates, peer : CLIENTS \cup {NoClient}]] /\ ptr \in QPNs
  BY <1>1 DEF Inv, TypeInv, TypeOK, Registers
<1>5. state_temp = qp_contex[ptr].state
  BY DEF Inv, FreshRead
<1>6. ~OnWay("OK")
  BY <1>2 DEF OnWay
<1> QED BY <1>1, <1>2, <1>3, <1>4, <1>5, <1>6 DEF Inv, InHands

\* The parts of the invariant that hold whatever is written.
LEMMA EngineWritten ==
    ASSUME Inv, NEW cm, EngineEdge(cm), q_state = "UPDATE_CONTEXT",
           \/ q_state' = "IDLE" /\ qp_status' # "NONE"
           \/ q_state' = "MODIFY_QP_RTS" /\ qp_status' = "NONE" /\ ptr' = ptr /\ peer_reg' = peer_reg
              /\ cm_req.type = "OPEN" /\ req_type' = "MODIFY_RTS",
           FreshRead', InHands', Progress'
    PROVE  Inv'
<1>1. /\ cm_state = "MODIFY_QP" /\ ~cm_valid /\ req_fifo' = <<>> /\ status_fifo' = <<>> /\ cm_req' = cm_req
      /\ cm_state' = cm_state /\ cm_valid' = cm_valid /\ cm_req \in ServedRequests
      /\ cm_req.qpn = ptr /\ cm_req.from = peer_reg
  BY EngineWrite
<1>2. OneRequest'
  BY <1>1 DEF OneRequest, Serving
<1> QED BY <1>2 DEF Inv, EngineEdge

\* An edge on which the FSM changes no context and serves nobody.
LEMMA EngineIdle ==
    ASSUME Inv, NEW cm, EngineEdge(cm), ~Serving, ~Serving', qp_status' = "NONE", FreshRead',
           qp_contex' = qp_contex
    PROVE  Inv'
<1>1. qp_contex \in [QPNs -> [state : QpStates, peer : CLIENTS \cup {NoClient}]] /\ NoQpn \notin QPNs
  BY Nothings DEF Inv, TypeInv, TypeOK
<1>2. qp_contex' = [qp_contex EXCEPT ![NoQpn].state = "ERROR"]
  BY <1>1
<1> QED BY <1>2, EngineOther

\* An OPEN finds a reset queue pair, and binds it to its client.
LEMMA EngineOpens ==
    ASSUME Inv, NEW cm, EngineEdge(cm), q_state = "UPDATE_CONTEXT", OpenContext
    PROVE  /\ cm_req.type = "OPEN" /\ cm_req.qpn = ptr /\ ptr \in QPNs /\ cm_req.from = peer_reg
           /\ qp_contex[ptr].state = "RESET" /\ ptr \notin Free /\ peer_reg \in CLIENTS
           /\ qp_contex' = [qp_contex EXCEPT ![ptr] = [state |-> "INIT", peer |-> peer_reg]]
           /\ q_state' = "MODIFY_QP_RTS" /\ ptr' = ptr /\ req_type' = "MODIFY_RTS" /\ peer_reg' = peer_reg
           /\ qp_status' = "NONE"
<1>1. req_type = "OPEN" /\ Serving /\ cm_req.type = "OPEN" /\ ptr \in QPNs /\ cm_req.qpn = ptr
      /\ state_temp = qp_contex[ptr].state /\ ptr \notin Free /\ cm_req.from = peer_reg
  BY EngineWrite DEF OpenContext
<1>2. qp_contex[ptr].state = "RESET"
  BY <1>1 DEF Inv, Progress
<1>3. peer_reg \in CLIENTS
  BY <1>1 DEF Inv, TypeInv, Registers
<1> QED BY <1>1, <1>2, <1>3 DEF OpenContext, GoTo

\* The three ways of writing a context.
LEMMA EngineOpen ==
    ASSUME Inv, NEW cm, EngineEdge(cm), q_state = "UPDATE_CONTEXT", OpenContext, close_req' = NoQpn
    PROVE  Inv'
<1>1. /\ qp_contex \in [QPNs -> [state : QpStates, peer : CLIENTS \cup {NoClient}]] /\ Free \subseteq QPNs
      /\ ptr \in QPNs /\ Free' = Free /\ cm_req' = cm_req /\ ~cm_valid' /\ req_fifo' = <<>> /\ status_fifo' = <<>>
      /\ \A q \in QPNs \ Free : qp_contex[q].state = "RESET" => q = cm_req.qpn /\ cm_req.type = "OPEN"
      /\ \A q \in Free : qp_contex[q].state = "RESET"
  BY EngineWrite
<1>2. /\ cm_req.type = "OPEN" /\ cm_req.qpn = ptr /\ cm_req.from = peer_reg /\ ptr \notin Free
      /\ qp_contex' = [qp_contex EXCEPT ![ptr] = [state |-> "INIT", peer |-> peer_reg]]
      /\ q_state' = "MODIFY_QP_RTS" /\ ptr' = ptr /\ req_type' = "MODIFY_RTS" /\ peer_reg' = peer_reg
      /\ qp_status' = "NONE"
  BY EngineOpens
<1>3. /\ qp_contex'[ptr] = [state |-> "INIT", peer |-> peer_reg]
      /\ \A q \in QPNs : q # ptr => qp_contex'[q] = qp_contex[q]
  BY <1>1, <1>2
<1>4. FreshRead'
  BY <1>2 DEF FreshRead
<1>5. ~(OnWay("OK"))' /\ ~(OnWay("ERROR"))'
  BY <1>1, <1>2 DEF OnWay
<1>6. InHands'
  BY <1>1, <1>2, <1>3 DEF InHands
<1>7. Progress'
  BY <1>1, <1>2, <1>3, <1>5 DEF Progress
<1> QED BY <1>2, <1>4, <1>6, <1>7, EngineWritten

\* A MODIFY makes an initialised queue pair ready to send, and refuses any other.
LEMMA EngineModify ==
    ASSUME Inv, NEW cm, EngineEdge(cm), q_state = "UPDATE_CONTEXT", ModifyContext,
           close_req' # NoQpn => close_req' \in QPNs /\ qp_contex'[close_req'].state # "RESET"
    PROVE  Inv'
<1> DEFINE ok == state_temp = "INIT" /\ ~qp_active_pipes[2]
<1>1. /\ qp_contex \in [QPNs -> [state : QpStates, peer : CLIENTS \cup {NoClient}]] /\ Free \subseteq QPNs
      /\ ptr \in QPNs /\ Free' = Free /\ cm_req' = cm_req /\ ~cm_valid' /\ req_fifo' = <<>> /\ status_fifo' = <<>>
      /\ cm_req.type \in {"OPEN", "MODIFY_RTS"} /\ cm_req.qpn = ptr /\ Serving /\ req_type = "MODIFY_RTS"
      /\ state_temp = qp_contex[ptr].state
      /\ \A q \in QPNs \ Free : qp_contex[q].state = "RESET" => q = cm_req.qpn /\ cm_req.type = "OPEN"
      /\ \A q \in Free : qp_contex[q].state = "RESET"
      /\ cm_req.type = "OPEN" => cm_req.qpn \notin Free
  BY EngineWrite DEF ModifyContext
<1>2. cm_req.type = "OPEN" => qp_contex[ptr] = [state |-> "INIT", peer |-> cm_req.from]
  BY <1>1 DEF Inv, Progress
<1>3. /\ q_state' = "IDLE" /\ ~Serving'
      /\ qp_contex' = [qp_contex EXCEPT ![ptr].state = IF ok THEN "RTS" ELSE @]
      /\ qp_status' = IF ok THEN "OK" ELSE "ERROR"
  BY DEF ModifyContext, Back, GoTo, Serving
<1>4. /\ \A q \in QPNs : qp_contex'[q].peer = qp_contex[q].peer /\ (q # ptr => qp_contex'[q] = qp_contex[q])
      /\ qp_contex[ptr].state = "RESET" <=> qp_contex'[ptr].state = "RESET"
      /\ ok => qp_contex'[ptr].state = "RTS" /\ qp_contex[ptr].state = "INIT"
      /\ ~ok => qp_contex'[ptr].state = qp_contex[ptr].state
  BY <1>1, <1>3
<1>5. FreshRead'
  BY <1>3 DEF FreshRead
<1>6. /\ (OnWay("OK"))' <=> ok
      /\ (OnWay("ERROR"))' <=> ~ok
  BY <1>1, <1>3 DEF OnWay
<1> HIDE DEF ok
<1>7. InHands'
  BY <1>1, <1>2, <1>4 DEF InHands
<1>8. Progress'
  BY <1>1, <1>2, <1>3, <1>4, <1>6 DEF Progress
<1> QED BY <1>3, <1>5, <1>7, <1>8, EngineWritten

\* A CLOSE takes down a queue pair that is not reset, whose number is in the hands
\* of the connection manager from then on.
LEMMA EngineCloses ==
    ASSUME Inv, NEW cm, EngineEdge(cm), q_state = "UPDATE_CONTEXT", CloseContext,
           close_req' # NoQpn => close_req' \in QPNs /\ qp_contex'[close_req'].state # "RESET"
    PROVE  Inv'
<1> DEFINE ok == state_temp # "RESET"
<1>1. /\ qp_contex \in [QPNs -> [state : QpStates, peer : CLIENTS \cup {NoClient}]] /\ Free \subseteq QPNs
      /\ ptr \in QPNs /\ Free' = Free /\ cm_req' = cm_req /\ ~cm_valid' /\ req_fifo' = <<>> /\ status_fifo' = <<>>
      /\ cm_req.type = "CLOSE" /\ cm_req.qpn = ptr /\ state_temp = qp_contex[ptr].state
      /\ \A q \in QPNs \ Free : qp_contex[q].state # "RESET"
      /\ \A q \in Free : qp_contex[q].state = "RESET"
  BY EngineWrite DEF CloseContext
<1>2. /\ q_state' = "IDLE" /\ ~Serving'
      /\ qp_contex' = [qp_contex EXCEPT ![ptr].state = IF ok THEN "RESET" ELSE @]
      /\ qp_status' = IF ok THEN "OK" ELSE "ERROR"
  BY DEF CloseContext, Back, GoTo, Serving
<1>3. /\ \A q \in QPNs : q # ptr => qp_contex'[q] = qp_contex[q]
      /\ qp_contex'[ptr].state = "RESET"
      /\ ok => ptr \notin Free
      /\ ~ok => ptr \in Free
  BY <1>1, <1>2
<1>4. FreshRead'
  BY <1>2 DEF FreshRead
<1>5. /\ (OnWay("OK"))' <=> ok
      /\ (OnWay("ERROR"))' <=> ~ok
  BY <1>1, <1>2 DEF OnWay
<1> HIDE DEF ok
<1>6. InHands'
  BY <1>1, <1>3, <1>5 DEF InHands
<1>7. Progress'
  BY <1>1, <1>2, <1>3, <1>5 DEF Progress
<1> QED BY <1>2, <1>4, <1>6, <1>7, EngineWritten

\* An edge of clk_roce_eng keeps the invariant.
LEMMA EngineInv ==
    ASSUME ~LateFaults, Inv, EngineClock
    PROVE  Inv'
<1> PICK nak \in Naks, close \in Closes, update \in Updates : QpEdge(nak, close, update)
  BY DEF EngineClock
<1> DEFINE cm == Offered(req_fifo, NoReq)
<1>1. EngineEdge(cm)
  BY EngineEdgeHolds
<1>2. QpStep(cm, nak, close, update) /\ CloseTimely(close) /\ EngineSide(close, update)
  BY DEF QpEdge, QpStep
<1> HIDE DEF cm
<1>3. close \in QPNs \cup {NoQpn} /\ nak \in QPNs \cup {NoQpn}
  BY DEF Naks, Closes
<1>4. /\ close_req' # NoQpn =>
           \/ close_req' = close_req /\ close_req # NoQpn /\ q_state = "IDLE"
           \/ close_req' \in QPNs /\ q_state' = "IDLE" /\ qp_contex'[close_req'].state # "RESET"
      /\ nak \in QPNs => qp_contex[nak].state # "RESET"
  BY <1>2, <1>3, EngineFault
<1>5. close_req # NoQpn => qp_contex[close_req].state # "RESET"
  BY DEF Inv, FreshRead
<1>6. CASE FatalNak(nak) \/ EngineClose(nak)
  <2>1. /\ q_state = "IDLE" /\ q_state' = "ERROR_QP" /\ qp_contex' = qp_contex /\ qp_status' = "NONE"
        /\ qp_contex[ptr'].state # "RESET"
    BY <1>3, <1>4, <1>5, <1>6 DEF FatalNak, EngineClose, GoTo
  <2>2. FreshRead'
    BY <1>4, <1>5, <2>1 DEF FreshRead
  <2> QED BY <1>1, <2>1, <2>2, EngineIdle DEF Serving
<1>7. CASE EngineUpdate(nak) \/ Rest(cm, nak)
  <2>1. /\ q_state = "IDLE" /\ close_req = NoQpn /\ q_state' \in {"IDLE", "UPDATE_QP"} /\ qp_contex' = qp_contex
        /\ qp_status' = "NONE"
    BY <1>7 DEF EngineUpdate, Rest
  <2>2. FreshRead'
    BY <1>4, <2>1 DEF FreshRead
  <2> QED BY <1>1, <2>1, <2>2, EngineIdle DEF Serving
<1>8. CASE UpdateQp
  <2>1. q_state = "UPDATE_QP" /\ q_state' = "IDLE" /\ qp_contex' = qp_contex /\ qp_status' = "NONE"
    BY <1>8 DEF UpdateQp, Back, GoTo
  <2>2. FreshRead'
    BY <1>4, <2>1 DEF FreshRead
  <2> QED BY <1>1, <2>1, <2>2, EngineIdle DEF Serving
<1>9. CASE ErrorQp
  <2>1. /\ q_state = "ERROR_QP" /\ q_state' = "IDLE" /\ qp_status' = "NONE"
        /\ qp_contex' = [qp_contex EXCEPT ![ptr].state = "ERROR"]
    BY <1>9 DEF ErrorQp, Back, GoTo
  <2>2. FreshRead'
    BY <1>4, <2>1 DEF FreshRead
  <2>3. ptr \in QPNs /\ qp_contex[ptr].state # "RESET"
    BY <2>1 DEF Inv, FreshRead, TypeInv, Registers
  <2> QED BY <1>1, <2>1, <2>2, <2>3, EngineOther DEF Serving
<1>10. CASE TakeRequest(cm, nak)
  <2>1. /\ q_state = "IDLE" /\ close_req = NoQpn /\ cm # NoReq /\ ptr' = cm.qpn /\ peer_reg' = cm.from
        /\ req_type' = cm.type /\ qp_contex' = qp_contex /\ qp_status' = "NONE"
    BY <1>10 DEF TakeRequest, Takes, GoTo
  <2>2. cm = cm_req /\ cm.type \in ReqTypes
    BY <1>1, <2>1, Nothings DEF EngineEdge, Inv, OneRequest, ServedRequests
  <2>3. q_state' \in {"OPEN_QP", "MODIFY_QP_RTS", "CLOSE_QP"}
    BY <1>10, <2>2 DEF TakeRequest, GoTo, ReqTypes
  <2>4. FreshRead'
    BY <1>4, <2>1, <2>3 DEF FreshRead
  <2> QED BY <1>1, <2>1, <2>3, <2>4, EngineTakeRead DEF Serving
<1>11. CASE ReadContext
  <2>1. /\ q_state \in {"OPEN_QP", "MODIFY_QP_RTS", "CLOSE_QP"} /\ q_state' = "UPDATE_CONTEXT"
        /\ ptr' = ptr /\ peer_reg' = peer_reg /\ req_type' = req_type /\ qp_contex' = qp_contex
        /\ qp_status' = "NONE" /\ state_temp' = qp_contex[ptr].state
    BY <1>11 DEF ReadContext, GoTo
  <2>2. FreshRead'
    BY <1>4, <2>1 DEF FreshRead
  <2> QED BY <1>1, <2>1, <2>2, EngineTakeRead DEF Serving
<1>12. CASE UpdateContext
  <2>1. q_state = "UPDATE_CONTEXT"
    BY <1>12 DEF UpdateContext
  <2>2. close_req' # NoQpn => close_req' \in QPNs /\ q_state' = "IDLE" /\ qp_contex'[close_req'].state # "RESET"
    BY <1>4, <2>1
  <2>3. CASE OpenContext
    <3>1. close_req' = NoQpn
      BY <2>2, <2>3 DEF OpenContext, GoTo
    <3> QED BY <1>1, <2>1, <2>3, <3>1, EngineOpen
  <2>4. CASE ModifyContext
    BY <1>1, <2>1, <2>2, <2>4, EngineModify
  <2>5. CASE CloseContext
    BY <1>1, <2>1, <2>2, <2>5, EngineCloses
  <2> QED BY <1>12, <2>3, <2>4, <2>5 DEF UpdateContext
<1> QED
  BY <1>2, <1>6, <1>7, <1>8, <1>9, <1>10, <1>11, <1>12 DEF QpStep

-----------------------------------------------------------------------------
(* The invariant holds.                                                    *)

\* The invariant holds at reset: every number is in the FIFO of the pool.
LEMMA InvInit == Init => Inv
<1> SUFFICES ASSUME Init PROVE Inv
  OBVIOUS
<1>1. TypeInv
  BY TypeInit
<1>2. /\ pool_fifo = [i \in 1..N_QUEUE_PAIRS |-> i - 1] /\ m_qpn = NoQpn /\ qpn_reg = NoQpn /\ s_qpn = NoQpn
      /\ N_QUEUE_PAIRS \in Nat /\ NoQpn \notin QPNs
  BY Nothings DEF Init, PoolInit, SlaveInit
<1>3. IsInjective(pool_fifo)
  BY <1>2 DEF IsInjective
<1>4. Range(pool_fifo) = QPNs
  <2>1. \A q \in QPNs : q + 1 \in 1..N_QUEUE_PAIRS /\ pool_fifo[q + 1] = q
    BY <1>2 DEF QPNs
  <2>2. \A i \in 1..N_QUEUE_PAIRS : pool_fifo[i] \in QPNs
    BY <1>2 DEF QPNs
  <2> QED BY <1>2, <2>1, <2>2 DEF Range
<1>5. Free = QPNs
  BY <1>1, <1>2, <1>4, FreeIs DEF TypeInv, Numbers, Held, Offer
<1>6. Distinct
  BY <1>2, <1>3 DEF Distinct
<1>7. Handshake
  BY <1>2 DEF Init, PoolInit, SlaveInit, Handshake
<1>8. ~Serving /\ ~OnWay("OK") /\ ~OnWay("ERROR") /\ cm_req.type = "NULL"
  BY Nothings DEF Init, SlaveInit, QpInit, Serving, OnWay
<1>9. OneRequest
  BY <1>8 DEF Init, SlaveInit, QpInit, OneRequest
<1>10. ReplyFits
  BY DEF Init, SlaveInit, ReplyFits
<1>11. FreshRead
  BY DEF Init, QpInit, FreshRead
<1>12. InHands
  BY <1>5, <1>8 DEF Init, QpInit, InHands
<1>13. Progress
  BY <1>8 DEF Progress
<1> QED BY <1>1, <1>6, <1>7, <1>9, <1>10, <1>11, <1>12, <1>13 DEF Inv

\* A step that changes no register keeps the invariant.
LEMMA InvStutter ==
    ASSUME Inv, UNCHANGED vars
    PROVE  Inv'
<1>1. TypeInv'
  BY TypeStutter DEF Inv
<1>2. Distinct' /\ Handshake' /\ OneRequest' /\ ReplyFits' /\ FreshRead'
  BY DEF vars, poolVars, slaveVars, qpVars, Inv, Distinct, Handshake, FifoFull, Arrived, OneRequest,
         Serving, ReplyFits, FreshRead
<1>3. Free' = Free /\ (OnWay("OK"))' = OnWay("OK") /\ (OnWay("ERROR"))' = OnWay("ERROR")
  BY DEF vars, poolVars, slaveVars, qpVars, Free, Pooled, OnWay
<1>4. InHands' /\ Progress'
  BY <1>3 DEF vars, poolVars, slaveVars, qpVars, Inv, InHands, Progress, Serving
<1> QED BY <1>1, <1>2, <1>4 DEF Inv

\* The invariant holds in every state that is reached without late faults.
LEMMA InvHolds ==
    ASSUME ~LateFaults
    PROVE  Spec => []Inv
<1>1. Inv /\ [Next]_vars => Inv'
  BY StackInv, EngineInv, InvStutter DEF Next
<1> QED BY InvInit, <1>1, PTL DEF Spec

-----------------------------------------------------------------------------
(* The theorems.                                                           *)

\* qpn_fifo_init and the connection manager keep the pool sound, for every number
\* of queue pairs: no number is in it twice, and none whose queue pair is in use.
THEOREM PoolAlwaysSound ==
    ASSUME ~LateFaults
    PROVE  Spec => []PoolSound
<1>1. Inv => PoolSound
  BY OnceInPool DEF Inv, TypeInv, InHands, PoolSound
<1> QED BY <1>1, InvHolds, PTL

\* Every register of the control plane keeps a value of its range, and neither of
\* the two crossing FIFOs, whose ready the code ignores, ever overflows, for every
\* number of queue pairs, any clients and any faults, late ones too.
THEOREM TypeCorrect == Spec => []TypeOK
<1>1. CASE LateFaults
  <2>1. TypeInv => TypeOK
    BY DEF TypeInv
  <2> QED BY <1>1, <2>1, TypeInvLate, PTL
<1>2. CASE ~LateFaults
  <2>1. Inv => TypeOK
    BY DEF Inv, TypeInv
  <2> QED BY <1>2, <2>1, InvHolds, PTL
<1> QED BY <1>1, <1>2

\* What the connection manager acknowledges is so when it does, whatever the two
\* clocks and the crossing between them did meanwhile, and however many other
\* clients sent requests, or left replies behind, in the same registers.
THEOREM AcksTruthful ==
    ASSUME ~LateFaults
    PROVE  Spec => AckTruthful
<1>1. Inv /\ [Next]_vars => [cm_state = "MODIFY_QP" /\ cm_state' = "IDLE" => ReplyTrue']_vars
  <2> SUFFICES ASSUME Inv, Next, cm_state = "MODIFY_QP", cm_state' = "IDLE" PROVE ReplyTrue'
    OBVIOUS
  <2>1. StackClock
    BY DEF Next, EngineClock, slaveVars
  <2>2. PICK r \in CmInputs, tx_ready \in BOOLEAN : CmEdge(r, tx_ready)
    BY <2>1 DEF StackClock
  <2> DEFINE status == Offered(status_fifo, "NONE")
  <2>3. StackEdge(status) /\ SlaveStep(r, status, tx_ready)
    BY <2>1, <2>2, StackEdgeHolds DEF CmEdge
  <2> HIDE DEF status
  <2>4. Acknowledge(status)
    BY <2>3 DEF SlaveStep, OpenQp, NoQpLeft, ModifyQp, CloseQp, CloseRefused, UnknownRequest, Idle,
                Wait, Fail, ReplyError
  <2>5. status = "OK"
    BY <2>4 DEF Acknowledge
  <2>6. /\ cm_valid' = FALSE /\ cm_req' = NoReq /\ s_qpn' = (IF qp_close_req THEN cm_req.qpn ELSE NoQpn)
        /\ m_ready' = FALSE /\ (qp_close_req => s_qpn_ready)
        /\ qp_info' = [qp_info EXCEPT !.valid = TRUE, !.ack = "ACK"]
    BY <2>4 DEF Acknowledge
  <2>7. StackEdge("OK")
    BY <2>3, <2>5
  <2> QED BY <2>6, <2>7, StackAck
<1> QED BY <1>1, InvHolds, PTL DEF Spec, AckTruthful

-----------------------------------------------------------------------------
(* The life cycle.  What a step makes of the free numbers, the contexts    *)
(* and the request in hand is one step of the life cycle, or none.         *)

NothingInHand == \A q \in QPNs \ Free : qp_contex[q].state # "RESET"

\* An edge of clk_stack changes no context: it grants a number, or returns the one
\* that it has in its hands, or does neither.
StackMove ==
    /\ qp_contex' = qp_contex
    /\ \/ Free' = Free /\ (cm_req' = cm_req \/ NothingInHand)
       \/ \E n \in Free : Free' = Free \ {n} /\ cm_req'.type = "OPEN" /\ NothingInHand
       \/ \E n \in QPNs \ Free :
            /\ Free' = Free \cup {n} /\ qp_contex[n].state = "RESET" /\ cm_req.type # "OPEN"
            /\ \A q \in QPNs \ Free : qp_contex[q].state = "RESET" => q = n

\* An edge of clk_roce_eng moves no number: it fails, establishes or takes down
\* one queue pair, or leaves each where it is in its life.
EngineMove ==
    /\ Free' = Free /\ cm_req' = cm_req
    /\ \/ \A q \in QPNs :
            /\ qp_contex'[q].peer = qp_contex[q].peer
            /\ qp_contex'[q].state = qp_contex[q].state
               \/ {qp_contex[q].state, qp_contex'[q].state} \subseteq {"INIT", "RTS"}
       \/ \E n \in QPNs : /\ qp_contex[n].state \in {"INIT", "RTS"}
                          /\ qp_contex' = [qp_contex EXCEPT ![n].state = "ERROR"]
       \/ \E n \in QPNs \ Free, c \in CLIENTS :
            /\ qp_contex[n].state = "RESET" /\ cm_req.type = "OPEN"
            /\ qp_contex' = [qp_contex EXCEPT ![n] = [state |-> "INIT", peer |-> c]]
       \/ \E n \in QPNs \ Free :
            /\ qp_contex[n].state # "RESET" /\ cm_req.type # "OPEN" /\ NothingInHand
            /\ qp_contex' = [qp_contex EXCEPT ![n].state = "RESET"]

\* An edge of clk_stack is such a move.
LEMMA StackMoves ==
    ASSUME Inv, StackClock
    PROVE  StackMove
<1> PICK r \in CmInputs, tx_ready \in BOOLEAN : (~qp_info.valid => tx_ready) /\ CmEdge(r, tx_ready)
  BY DEF StackClock
<1> DEFINE status == Offered(status_fifo, "NONE")
<1>1. StackEdge(status) /\ SlaveStep(r, status, tx_ready)
  BY StackEdgeHolds DEF CmEdge
<1> HIDE DEF status
<1>2. qp_contex' = qp_contex /\ NoQpn \notin QPNs /\ NoReq.type = "NULL" /\ NoReq.qpn \notin QPNs
  BY <1>1, Nothings DEF StackEdge
<1>3. cm_state # "MODIFY_QP" => cm_req = NoReq /\ NothingInHand /\ ~m_ready
  BY <1>2 DEF Inv, OneRequest, InHands, NothingInHand, Handshake
<1>4. m_ready' = FALSE /\ s_qpn' = NoQpn => Free' = Free
  BY <1>1 DEF StackEdge
<1>5. CASE OpenQp(r, tx_ready)
  <2>1. cm_state = "IDLE" /\ m_qpn # NoQpn /\ m_ready' = TRUE /\ s_qpn' = NoQpn /\ cm_req'.type = "OPEN"
    BY <1>5 DEF OpenQp, Forward
  <2>2. m_qpn' = m_qpn /\ m_qpn \in Free /\ Free' = Free \ {m_qpn}
    BY <1>1, <1>3, <2>1 DEF StackEdge
  <2> QED BY <1>2, <1>3, <2>1, <2>2 DEF StackMove
<1>6. CASE \/ NoQpLeft(r, tx_ready) \/ ModifyQp(r, tx_ready) \/ CloseQp(r, tx_ready)
           \/ CloseRefused(r, tx_ready) \/ UnknownRequest(r) \/ Idle(r, tx_ready) \/ ReplyError
  <2>1. cm_state # "MODIFY_QP" /\ m_ready' = FALSE /\ s_qpn' = NoQpn
    BY <1>6 DEF NoQpLeft, ModifyQp, CloseQp, CloseRefused, UnknownRequest, Idle, ReplyError,
                SendError, Forward, Quiet
  <2> QED BY <1>2, <1>3, <1>4, <2>1 DEF StackMove
<1>7. CASE Wait(status, tx_ready)
  <2>1. m_ready' = FALSE /\ s_qpn' = NoQpn /\ cm_req' = cm_req
    BY <1>7 DEF Wait, Quiet
  <2> QED BY <1>2, <1>4, <2>1 DEF StackMove
<1>8. CASE Acknowledge(status)
  <2>1. /\ status = "OK" /\ cm_state = "MODIFY_QP" /\ m_ready' = FALSE
        /\ s_qpn' = IF qp_close_req THEN cm_req.qpn ELSE NoQpn
    BY <1>8 DEF Acknowledge
  <2>2. OnWay("OK")
    BY <1>1, <2>1 DEF StackEdge, OnWay
  <2>3. /\ cm_req.qpn \in QPNs /\ (qp_close_req <=> cm_req.type = "CLOSE")
        /\ cm_req.type = "CLOSE" => qp_contex[cm_req.qpn].state = "RESET" /\ cm_req.qpn \notin Free
        /\ cm_req.type # "CLOSE" => qp_contex[cm_req.qpn].state \in {"RTS", "ERROR"}
    BY <2>1, <2>2 DEF Inv, Progress, ReplyFits
  <2>4. CASE cm_req.type = "CLOSE"
    <3>1. Free' = Free \cup {cm_req.qpn}
      BY <1>1, <1>2, <2>1, <2>3, <2>4 DEF StackEdge
    <3>2. \A q \in QPNs \ Free : qp_contex[q].state = "RESET" => q = cm_req.qpn
      BY DEF Inv, InHands
    <3> QED BY <1>2, <2>3, <2>4, <3>1, <3>2 DEF StackMove
  <2>5. CASE cm_req.type # "CLOSE"
    <3>1. Free' = Free
      BY <1>4, <2>1, <2>3, <2>5
    <3>2. NothingInHand
      BY <2>3, <2>5 DEF Inv, InHands, NothingInHand
    <3> QED BY <1>2, <3>1, <3>2 DEF StackMove
  <2> QED BY <2>4, <2>5
<1>9. CASE Fail(status)
  <2>1. /\ status = "ERROR" \/ (status = "OK" /\ qp_close_req /\ ~s_qpn_ready)
        /\ cm_state = "MODIFY_QP" /\ m_ready' = FALSE /\ s_qpn' = NoQpn
    BY <1>9 DEF Fail, Quiet
  <2>2. status_fifo # <<>> /\ status_fifo[1].item = status /\ Arrived(status_fifo)
    BY <1>1, <2>1 DEF StackEdge
  <2>3. ~cm_valid /\ qp_status = "NONE"
    BY <2>2 DEF Inv, OneRequest
  <2>4. OnWay("ERROR") /\ ~OnWay("OK")
    BY <2>1, <2>2, <2>3 DEF Inv, Handshake, OnWay
  <2>5. NothingInHand
    BY <2>4 DEF Inv, InHands, Progress, NothingInHand
  <2> QED BY <1>2, <1>4, <2>1, <2>5 DEF StackMove
<1> QED
  BY <1>1, <1>5, <1>6, <1>7, <1>8, <1>9 DEF SlaveStep

\* An edge of clk_roce_eng is such a move.
LEMMA EngineMoves ==
    ASSUME Inv, EngineClock
    PROVE  EngineMove
<1> PICK nak \in Naks, close \in Closes, update \in Updates : QpEdge(nak, close, update)
  BY DEF EngineClock
<1> DEFINE cm == Offered(req_fifo, NoReq)
<1>1. EngineEdge(cm) /\ QpStep(cm, nak, close, update)
  BY EngineEdgeHolds DEF QpEdge
<1> HIDE DEF cm
<1>2. /\ Free' = Free /\ cm_req' = cm_req
      /\ qp_contex \in [QPNs -> [state : QpStates, peer : CLIENTS \cup {NoClient}]]
  BY <1>1 DEF EngineEdge, Inv, TypeInv, TypeOK
<1>3. CASE qp_contex' = qp_contex
  BY <1>2, <1>3 DEF EngineMove
<1>4. CASE ErrorQp
  <2>1. /\ qp_contex' = [qp_contex EXCEPT ![ptr].state = "ERROR"] /\ ptr \in QPNs
        /\ qp_contex[ptr].state \in {"INIT", "RTS", "ERROR"}
    BY <1>2, <1>4 DEF ErrorQp, Inv, TypeInv, Registers, FreshRead, QpStates
  <2>2. CASE qp_contex[ptr].state = "ERROR"
    <3>1. qp_contex' = qp_contex
      BY <1>2, <2>1, <2>2
    <3> QED BY <1>3, <3>1
  <2>3. CASE qp_contex[ptr].state # "ERROR"
    BY <1>2, <2>1, <2>3 DEF EngineMove
  <2> QED BY <2>2, <2>3
<1>5. CASE UpdateContext
  <2>1. q_state = "UPDATE_CONTEXT"
    BY <1>5 DEF UpdateContext
  <2>2. CASE OpenContext
    <3>1. /\ cm_req.type = "OPEN" /\ ptr \in QPNs \ Free /\ qp_contex[ptr].state = "RESET" /\ peer_reg \in CLIENTS
          /\ qp_contex' = [qp_contex EXCEPT ![ptr] = [state |-> "INIT", peer |-> peer_reg]]
      BY <1>1, <2>1, <2>2, EngineOpens
    <3> QED BY <1>2, <3>1 DEF EngineMove
  <2>3. CASE ModifyContext
    <3>1. ptr \in QPNs /\ state_temp = qp_contex[ptr].state
      BY <1>1, <2>1, EngineWrite
    <3>2. \/ qp_contex' = [qp_contex EXCEPT ![ptr].state = "RTS"] /\ qp_contex[ptr].state = "INIT"
          \/ qp_contex' = qp_contex
      BY <1>2, <2>3, <3>1 DEF ModifyContext
    <3>3. \A q \in QPNs :
            /\ qp_contex'[q].peer = qp_contex[q].peer
            /\ qp_contex'[q].state = qp_contex[q].state
               \/ {qp_contex[q].state, qp_contex'[q].state} \subseteq {"INIT", "RTS"}
      BY <1>2, <3>1, <3>2
    <3> QED BY <1>2, <3>3 DEF EngineMove
  <2>4. CASE CloseContext
    <3>1. /\ ptr \in QPNs /\ state_temp = qp_contex[ptr].state /\ cm_req.type = "CLOSE"
          /\ \A q \in QPNs \ Free : qp_contex[q].state # "RESET"
          /\ \A q \in Free : qp_contex[q].state = "RESET"
      BY <1>1, <2>1, <2>4, EngineWrite DEF CloseContext
    <3>2. CASE qp_contex[ptr].state = "RESET"
      <4>1. qp_contex' = qp_contex
        BY <1>2, <2>4, <3>1, <3>2 DEF CloseContext
      <4> QED BY <1>3, <4>1
    <3>3. CASE qp_contex[ptr].state # "RESET"
      <4>1. qp_contex' = [qp_contex EXCEPT ![ptr].state = "RESET"] /\ ptr \in QPNs \ Free
        BY <2>4, <3>1, <3>3 DEF CloseContext
      <4> QED BY <1>2, <3>1, <3>3, <4>1 DEF EngineMove, NothingInHand
    <3> QED BY <3>2, <3>3
  <2> QED BY <1>5, <2>2, <2>3, <2>4 DEF UpdateContext
<1>6. CASE \/ FatalNak(nak) \/ EngineClose(nak) \/ EngineUpdate(nak) \/ TakeRequest(cm, nak) \/ Rest(cm, nak)
           \/ ReadContext \/ UpdateQp
  <2>1. qp_contex' = qp_contex
    BY <1>6 DEF FatalNak, EngineClose, EngineUpdate, TakeRequest, Rest, ReadContext, UpdateQp
  <2> QED BY <1>3, <2>1
<1> QED BY <1>1, <1>4, <1>5, <1>6 DEF QpStep

\* Where one queue pair is in its life, and whose it is.
Stage(q) ==
    IF qp_contex[q].state \in {"INIT", "RTS"} THEN "open"
    ELSE IF qp_contex[q].state = "ERROR" THEN "failed"
    ELSE IF q \in Free THEN "free"
    ELSE IF cm_req.type = "OPEN" THEN "granted" ELSE "closing"
Owner(q) == IF qp_contex[q].state = "RESET" THEN NoClient ELSE qp_contex[q].peer

\* The refinement mapping, queue pair by queue pair, before and after a step.
LEMMA Stages ==
    /\ LifeOf = [q \in QPNs |-> Stage(q)] /\ OwnerOf = [q \in QPNs |-> Owner(q)]
    /\ LifeOf' = [q \in QPNs |-> Stage(q)'] /\ OwnerOf' = [q \in QPNs |-> Owner(q)']
BY DEF LifeOf, OwnerOf, Stage, Owner

\* A step that changes the stage of one queue pair only.
LEMMA OneStage ==
    ASSUME NEW n \in QPNs, NEW s, Stage(n)' = s, \A q \in QPNs : q # n => Stage(q)' = Stage(q)
    PROVE  LifeOf' = [LifeOf EXCEPT ![n] = s] /\ LifeOf[n] = Stage(n) /\ LifeOf'[n] = s
BY Stages

\* A step that changes the owner of one queue pair only.
LEMMA OneOwner ==
    ASSUME NEW n \in QPNs, NEW c, Owner(n)' = c, \A q \in QPNs : q # n => Owner(q)' = Owner(q)
    PROVE  OwnerOf' = [OwnerOf EXCEPT ![n] = c]
BY Stages

\* The connection manager has nothing in its hands, in terms of the life cycle.
LEMMA EmptyHands ==
    ASSUME TypeInv, NothingInHand
    PROVE  Lifecycle!InHand = {}
<1>1. qp_contex \in [QPNs -> [state : QpStates, peer : CLIENTS \cup {NoClient}]]
  BY DEF TypeInv, TypeOK
<1>2. \A q \in QPNs : Stage(q) \notin {"granted", "closing"}
  BY <1>1 DEF NothingInHand, Stage, QpStates
<1> QED BY <1>2, Stages DEF Lifecycle!InHand, Lifecycle!QPNs, QPNs

\* The life cycle has the queue pairs of the control plane.
LEMMA SameNumbers == Lifecycle!NoClient = NoClient /\ Lifecycle!QPNs = QPNs
BY DEF Lifecycle!NoClient, NoClient, Lifecycle!QPNs, QPNs

\* An edge of clk_stack is a step of the life cycle.
LEMMA StackLife ==
    ASSUME Inv, StackMove
    PROVE  Lifecycle!LifeNext \/ (LifeOf' = LifeOf /\ OwnerOf' = OwnerOf)
<1>1. /\ qp_contex \in [QPNs -> [state : QpStates, peer : CLIENTS \cup {NoClient}]] /\ qp_contex' = qp_contex
      /\ TypeInv /\ \A q \in Free : qp_contex[q].state = "RESET"
  BY DEF Inv, TypeInv, TypeOK, StackMove, InHands
<1>2. Free \subseteq QPNs
  <2>1. Range(pool_fifo) \subseteq QPNs
    BY RangeOfSeq DEF Inv, TypeInv, TypeOK
  <2> QED BY <2>1, FreeIs DEF Inv, TypeInv, TypeOK, Numbers, Held, Offer
<1>3. \A q \in QPNs : Owner(q)' = Owner(q)
  BY <1>1 DEF Owner
<1>4. OwnerOf' = OwnerOf
  BY <1>3, Stages
<1>5. CASE Free' = Free /\ (cm_req' = cm_req \/ NothingInHand)
  <2>1. \A q \in QPNs : Stage(q)' = Stage(q)
    BY <1>1, <1>5 DEF Stage, NothingInHand, QpStates
  <2> QED BY <1>4, <2>1, Stages
<1>6. ASSUME NEW n \in Free, Free' = Free \ {n}, cm_req'.type = "OPEN", NothingInHand
      PROVE  Lifecycle!LifeNext
  <2>1. n \in QPNs /\ qp_contex[n].state = "RESET"
    BY <1>1, <1>2
  <2>2. Stage(n) = "free" /\ Stage(n)' = "granted"
    BY <1>1, <1>6, <2>1 DEF Stage
  <2>3. \A q \in QPNs : q # n => Stage(q)' = Stage(q)
    BY <1>1, <1>6 DEF Stage, NothingInHand, QpStates
  <2>4. LifeOf' = [LifeOf EXCEPT ![n] = "granted"] /\ LifeOf[n] = "free" /\ LifeOf'[n] = "granted"
    BY <2>1, <2>2, <2>3, OneStage
  <2>5. Lifecycle!InHand = {}
    BY <1>1, <1>6, EmptyHands
  <2>6. Lifecycle!Grant(n)
    BY <1>4, <2>4, <2>5 DEF Lifecycle!Grant
  <2> QED BY <2>1, <2>4, <2>6 DEF Lifecycle!LifeNext, Lifecycle!QPNs, QPNs
<1>7. ASSUME NEW n \in QPNs \ Free, Free' = Free \cup {n}, qp_contex[n].state = "RESET", cm_req.type # "OPEN",
             \A q \in QPNs \ Free : qp_contex[q].state = "RESET" => q = n
      PROVE  Lifecycle!LifeNext
  <2>1. Stage(n) = "closing" /\ Stage(n)' = "free"
    BY <1>1, <1>7 DEF Stage
  <2>2. \A q \in QPNs : q # n => Stage(q)' = Stage(q)
    BY <1>1, <1>7 DEF Stage, QpStates
  <2>3. LifeOf' = [LifeOf EXCEPT ![n] = "free"] /\ LifeOf[n] = "closing" /\ LifeOf'[n] = "free"
    BY <1>7, <2>1, <2>2, OneStage
  <2>4. Lifecycle!Return(n)
    BY <1>4, <2>3 DEF Lifecycle!Return
  <2> QED BY <1>7, <2>3, <2>4 DEF Lifecycle!LifeNext, Lifecycle!QPNs, QPNs
<1> QED BY <1>4, <1>5, <1>6, <1>7 DEF StackMove

\* An edge of clk_roce_eng is a step of the life cycle.
LEMMA EngineLife ==
    ASSUME Inv, EngineMove
    PROVE  Lifecycle!LifeNext \/ (LifeOf' = LifeOf /\ OwnerOf' = OwnerOf)
<1>1. /\ qp_contex \in [QPNs -> [state : QpStates, peer : CLIENTS \cup {NoClient}]]
      /\ Free' = Free /\ cm_req' = cm_req /\ TypeInv
  BY DEF Inv, TypeInv, TypeOK, EngineMove
<1>2. CASE \A q \in QPNs :
             /\ qp_contex'[q].peer = qp_contex[q].peer
             /\ qp_contex'[q].state = qp_contex[q].state
                \/ {qp_contex[q].state, qp_contex'[q].state} \subseteq {"INIT", "RTS"}
  <2>1. \A q \in QPNs : Stage(q)' = Stage(q) /\ Owner(q)' = Owner(q)
    BY <1>1, <1>2 DEF Stage, Owner
  <2> QED BY <2>1, Stages
<1>3. ASSUME NEW n \in QPNs, qp_contex[n].state \in {"INIT", "RTS"},
             qp_contex' = [qp_contex EXCEPT ![n].state = "ERROR"]
      PROVE  Lifecycle!LifeNext
  <2>1. /\ qp_contex'[n].state = "ERROR" /\ qp_contex'[n].peer = qp_contex[n].peer
        /\ \A q \in QPNs : q # n => qp_contex'[q] = qp_contex[q]
    BY <1>1, <1>3
  <2>2. /\ Stage(n) = "open" /\ Stage(n)' = "failed" /\ \A q \in QPNs : q # n => Stage(q)' = Stage(q)
        /\ \A q \in QPNs : Owner(q)' = Owner(q)
    BY <1>1, <1>3, <2>1 DEF Stage, Owner
  <2>3. /\ LifeOf' = [LifeOf EXCEPT ![n] = "failed"] /\ LifeOf[n] = "open" /\ LifeOf'[n] = "failed"
        /\ OwnerOf' = OwnerOf
    BY <2>2, OneStage, Stages
  <2>4. Lifecycle!FailQp(n)
    BY <2>3 DEF Lifecycle!FailQp
  <2> QED BY <2>3, <2>4 DEF Lifecycle!LifeNext, Lifecycle!QPNs, QPNs
<1>4. ASSUME NEW n \in QPNs \ Free, NEW c \in CLIENTS, qp_contex[n].state = "RESET", cm_req.type = "OPEN",
             qp_contex' = [qp_contex EXCEPT ![n] = [state |-> "INIT", peer |-> c]]
      PROVE  Lifecycle!LifeNext
  <2>1. /\ qp_contex'[n].state = "INIT" /\ qp_contex'[n].peer = c
        /\ \A q \in QPNs : q # n => qp_contex'[q] = qp_contex[q]
    BY <1>1, <1>4
  <2>2. /\ Stage(n) = "granted" /\ Stage(n)' = "open" /\ \A q \in QPNs : q # n => Stage(q)' = Stage(q)
        /\ Owner(n)' = c /\ \A q \in QPNs : q # n => Owner(q)' = Owner(q)
    BY <1>1, <1>4, <2>1 DEF Stage, Owner
  <2>3. /\ LifeOf' = [LifeOf EXCEPT ![n] = "open"] /\ LifeOf[n] = "granted" /\ LifeOf'[n] = "open"
        /\ OwnerOf' = [OwnerOf EXCEPT ![n] = c]
    BY <2>2, OneStage, OneOwner
  <2>4. Lifecycle!Establish(n, c)
    BY <2>3 DEF Lifecycle!Establish
  <2> QED BY <2>3, <2>4 DEF Lifecycle!LifeNext, Lifecycle!QPNs, QPNs
<1>5. ASSUME NEW n \in QPNs \ Free, qp_contex[n].state # "RESET", cm_req.type # "OPEN", NothingInHand,
             qp_contex' = [qp_contex EXCEPT ![n].state = "RESET"]
      PROVE  Lifecycle!LifeNext
  <2>1. qp_contex'[n].state = "RESET" /\ \A q \in QPNs : q # n => qp_contex'[q] = qp_contex[q]
    BY <1>1, <1>5
  <2>2. /\ Stage(n) \in {"open", "failed"} /\ Stage(n)' = "closing"
        /\ \A q \in QPNs : q # n => Stage(q)' = Stage(q)
        /\ Owner(n)' = NoClient /\ \A q \in QPNs : q # n => Owner(q)' = Owner(q)
    BY <1>1, <1>5, <2>1 DEF Stage, Owner, QpStates
  <2>3. /\ LifeOf' = [LifeOf EXCEPT ![n] = "closing"] /\ LifeOf[n] \in {"open", "failed"}
        /\ LifeOf'[n] = "closing" /\ OwnerOf' = [OwnerOf EXCEPT ![n] = NoClient]
    BY <1>5, <2>2, OneStage, OneOwner
  <2>4. Lifecycle!InHand = {}
    BY <1>1, <1>5, EmptyHands
  <2>5. Lifecycle!TakeDown(n)
    BY <2>3, <2>4, SameNumbers DEF Lifecycle!TakeDown
  <2> QED BY <1>5, <2>3, <2>5 DEF Lifecycle!LifeNext, Lifecycle!QPNs, QPNs
<1> QED BY <1>2, <1>3, <1>4, <1>5 DEF EngineMove

\* At reset every queue pair is free and nobody's.
LEMMA LifeBegins == Init => Lifecycle!LifeInit
<1> SUFFICES ASSUME Init PROVE Lifecycle!LifeInit
  OBVIOUS
<1>1. qp_contex = [q \in QPNs |-> [state |-> "RESET", peer |-> NoClient]] /\ NothingInHand => QPNs \subseteq Free
  BY DEF Init, QpInit, NothingInHand
<1>2. Inv
  BY InvInit
<1>3. NothingInHand
  BY <1>2, Nothings DEF Init, SlaveInit, Inv, InHands, NothingInHand
<1>4. \A q \in QPNs : Stage(q) = "free" /\ Owner(q) = NoClient
  BY <1>1, <1>3 DEF Init, QpInit, Stage, Owner
<1> QED BY <1>4, Stages, SameNumbers DEF Lifecycle!LifeInit

\* The pool, the connection manager and the QP state module together implement the
\* life cycle of queue pairs, for every number of queue pairs, any clients and any
\* crossing: the refinement that KeepsLifecycle states.
THEOREM RefinesLifecycle ==
    ASSUME ~LateFaults
    PROVE  Spec => KeepsLifecycle
<1>1. Init => Lifecycle!LifeInit
  BY LifeBegins
<1>2. Inv /\ [Next]_vars => [Lifecycle!LifeNext]_<<LifeOf, OwnerOf>>
  <2>1. ASSUME Inv, StackClock \/ EngineClock
        PROVE  Lifecycle!LifeNext \/ (LifeOf' = LifeOf /\ OwnerOf' = OwnerOf)
    BY <2>1, StackMoves, StackLife, EngineMoves, EngineLife
  <2>2. ASSUME UNCHANGED vars
        PROVE  LifeOf' = LifeOf /\ OwnerOf' = OwnerOf
    BY <2>2 DEF vars, poolVars, slaveVars, qpVars, LifeOf, OwnerOf, Free, Pooled
  <2> QED BY <2>1, <2>2 DEF Next
<1> QED
  BY <1>1, <1>2, InvHolds, PTL DEF Spec, KeepsLifecycle, Lifecycle!LifeSpec, Lifecycle!lifeVars

=============================================================================
