------------------------- MODULE HostScripts_proofs -------------------------
(***************************************************************************)
(* What the users of the control scripts are told is true, for every number*)
(* of PCs, queue pairs, scripts started and datagrams lost: until the first*)
(* datagram misses the one it was for, every PC's only request is in one   *)
(* place, and what its user has noted differs from what the FPGA holds for *)
(* it by exactly what the answer on its way will say.                      *)
(***************************************************************************)
EXTENDS HostScripts, SequenceTheorems, TLAPS

Numbers   == QPNs \cup {BadQpn}
Datagrams == [type : ReqTypes \cup {"TXMETA", "DROPPED"}, qpn : Numbers, from : CLIENTS]
Replies   == [type : ReqTypes \cup {"NULL"}, qpn : Numbers, ack : {"NULL", "ACK", "ERROR", "NO_QP", "NAK"},
              to : CLIENTS \cup {NoClient}]

SessionTypes ==
    /\ life \in [QPNs -> {"free", "granted", "open", "failed", "closing"}]
    /\ owner \in [QPNs -> CLIENTS \cup {NoClient}]
    /\ pc \in [CLIENTS -> {"ready", "sent", "waiting"}]
    /\ cmd \in [CLIENTS -> Datagrams \cup {NoReq}]
    /\ tap \in [CLIENTS -> BOOLEAN] /\ gone \in [CLIENTS -> BOOLEAN]
    /\ mine \in [CLIENTS -> SUBSET Numbers]
    /\ inbox \in Seq(Datagrams) /\ wire \in [CLIENTS -> Seq(Replies)]
    /\ serving \in Datagrams \cup {NoReq} /\ info \in Replies /\ astray \in BOOLEAN

-----------------------------------------------------------------------------
(* Where the request of a PC is.                                           *)

Owned(p) == {q \in QPNs : owner[q] = p}
Knows(p) == mine[p] = Owned(p)

\* Of p's datagrams only the ones that nobody answers are under way to the FPGA.
Silent(p) == \A i \in 1..Len(inbox) : inbox[i].from = p => inbox[i].type = "TXMETA"

\* The one at place i is p's request, and the only one.
Only(p, i) ==
    /\ inbox[i] = cmd[p]
    /\ \A j \in 1..Len(inbox) : inbox[j].from = p /\ j # i => inbox[j].type = "TXMETA"

Waits(p) == \E i \in 1..Len(inbox) : Only(p, i)

Idle(p) ==
    pc[p] = "ready" /\ Silent(p) /\ serving.from # p /\ wire[p] = <<>> /\ Knows(p)

Asked(p) ==
    /\ pc[p] # "ready" /\ serving.from # p /\ wire[p] = <<>> /\ Knows(p)
    /\ Waits(p) /\ cmd[p].type \in ReqTypes /\ cmd[p].from = p
    /\ cmd[p].type = "CLOSE" => cmd[p].qpn \in Passed(p)

\* A CLOSE takes the queue pair from its owner before it is answered.
Closing(p) ==
    /\ serving.qpn = cmd[p].qpn /\ serving.qpn \in QPNs
    /\ \/ owner[serving.qpn] = p /\ Knows(p)
       \/ life[serving.qpn] = "closing" /\ Owned(p) = mine[p] \ {serving.qpn}

Served(p) ==
    /\ pc[p] # "ready" /\ Silent(p) /\ serving.from = p /\ wire[p] = <<>>
    /\ serving.type = cmd[p].type /\ serving.type \in ReqTypes
    /\ serving.type = "OPEN" => serving.qpn \in QPNs
    /\ IF serving.type = "CLOSE" THEN Closing(p) ELSE Knows(p)

Truthful(p, r) ==
    IF r.ack # "ACK" THEN Knows(p)
    ELSE /\ r.type = cmd[p].type /\ r.type \in {"OPEN", "CLOSE"}
         /\ r.qpn \in QPNs
         /\ r.type = "OPEN" => owner[r.qpn] = p /\ Owned(p) = mine[p] \cup {r.qpn}
         /\ r.type = "CLOSE" =>
              r.qpn = cmd[p].qpn /\ owner[r.qpn] # p /\ Owned(p) = mine[p] \ {r.qpn}

Answered(p) ==
    /\ pc[p] # "ready" /\ Silent(p) /\ serving.from # p
    /\ Len(wire[p]) = 1 /\ Truthful(p, Head(wire[p]))

\* A queue pair has an owner only while it is open.
OwnersLive == \A q \in QPNs : owner[q] # NoClient => life[q] \in {"open", "failed"}

Placed(p) == Idle(p) \/ Asked(p) \/ Served(p) \/ Answered(p)

InTouch == OwnersLive /\ \A p \in CLIENTS : ~gone[p] /\ Placed(p)

SessionInv == SessionTypes /\ (~astray => InTouch)

-----------------------------------------------------------------------------
(* Types.                                                                  *)

\* EXCEPT keeps the type of a function, also at a place outside its domain.
LEMMA ExceptType ==
    ASSUME NEW S, NEW T, NEW f \in [S -> T], NEW x, NEW v \in T
    PROVE  [f EXCEPT ![x] = v] \in [S -> T]
OBVIOUS

\* A datagram is taken off the front of a queue.
LEMMA TailType ==
    ASSUME NEW S, NEW s \in Seq(S), s # <<>>
    PROVE  Head(s) \in S /\ Tail(s) \in Seq(S)
OBVIOUS

\* The types over a request that is sent.
LEMMA SendtoTypes ==
    ASSUME SessionTypes, NEW p \in CLIENTS, NEW type \in ReqTypes, NEW q \in Numbers,
           Sendto(p, type, q)
    PROVE  /\ pc' \in [CLIENTS -> {"ready", "sent", "waiting"}]
           /\ cmd' \in [CLIENTS -> Datagrams \cup {NoReq}]
           /\ inbox' \in Seq(Datagrams) /\ gone' \in [CLIENTS -> BOOLEAN]
<1> DEFINE r == [type |-> type, qpn |-> q, from |-> p]
<1>1. r \in Datagrams BY DEF Datagrams
<1>2. /\ pc' = [pc EXCEPT ![p] = "sent"] /\ cmd' = [cmd EXCEPT ![p] = r]
      /\ inbox' = Append(inbox, r) /\ gone' = [gone EXCEPT ![p] = FALSE]
  BY DEF Sendto
<1> HIDE DEF r
<1> QED BY <1>1, <1>2 DEF SessionTypes

\* The types over the start of a script.
LEMMA ScriptTypes ==
    ASSUME SessionTypes, NEW p \in CLIENTS, Script(p)
    PROVE  SessionTypes'
<1>1. CASE request_qp_info(p)
  <2> BadQpn \in Numbers /\ "OPEN" \in ReqTypes BY DEF Numbers, ReqTypes
  <2>1. PICK isTap \in BOOLEAN : Start(p, isTap) /\ Sendto(p, "OPEN", BadQpn)
    BY <1>1 DEF request_qp_info
  <2> QED BY <2>1, SendtoTypes DEF Start, SessionTypes, lifeVars
<1>2. CASE modify_qp_rts(p) \/ close_rem_qp(p)
  <2>1. PICK q \in Passed(p), t \in {"MODIFY_RTS", "CLOSE"} : Start(p, FALSE) /\ Sendto(p, t, q)
    BY <1>2 DEF modify_qp_rts, close_rem_qp
  <2>2. q \in Numbers /\ t \in ReqTypes BY DEF SessionTypes, ReqTypes, Passed, Numbers
  <2> QED BY <2>1, <2>2, SendtoTypes DEF Start, SessionTypes, lifeVars
<1>3. CASE send_txmeta(p)
  <2>1. PICK q \in mine[p] :
          /\ Start(p, FALSE)
          /\ inbox' = Append(inbox, [type |-> "TXMETA", qpn |-> q, from |-> p])
          /\ UNCHANGED <<pc, cmd, gone>>
    BY <1>3 DEF send_txmeta
  <2>2. [type |-> "TXMETA", qpn |-> q, from |-> p] \in Datagrams
    BY DEF Datagrams, SessionTypes
  <2>3. inbox' \in Seq(Datagrams) BY <2>1, <2>2 DEF SessionTypes
  <2> QED BY <2>1, <2>3 DEF Start, SessionTypes, lifeVars
<1> QED BY <1>1, <1>2, <1>3 DEF Script

\* The types over an answer.
LEMMA DeliverTypes ==
    ASSUME SessionTypes, NEW p \in CLIENTS, Deliver(p)
    PROVE  SessionTypes'
<1> DEFINE r == Head(wire[p])
<1>1. r \in Replies /\ wire' \in [CLIENTS -> Seq(Replies)]
  BY TailType DEF Deliver, SessionTypes
<1>2. NoReq \in Datagrams \cup {NoReq} OBVIOUS
<1>3. r.qpn \in Numbers BY <1>1 DEF Replies
<1>4. CASE pc[p] = "waiting"
  <2>1. decode_udp_packet(p, r) /\ NextStep(p, r) /\ UNCHANGED astray
    BY <1>4 DEF Deliver
  <2>2. mine' \in [CLIENTS -> SUBSET Numbers]
    BY <2>1, <1>3 DEF decode_udp_packet, SessionTypes
  <2>3. CASE tap[p] /\ cmd[p].type = "OPEN"
    <3>1. Sendto(p, "MODIFY_RTS", r.qpn) /\ UNCHANGED tap BY <2>1, <2>3 DEF NextStep
    <3>2. "MODIFY_RTS" \in ReqTypes BY DEF ReqTypes
    <3> HIDE DEF r
    <3> QED BY <3>1, <3>2, <1>1, <1>3, <2>1, <2>2, SendtoTypes DEF Deliver, SessionTypes, lifeVars
  <2>4. CASE ~(tap[p] /\ cmd[p].type = "OPEN")
    <3>1. Ends(p) /\ UNCHANGED inbox BY <2>1, <2>4 DEF NextStep
    <3> HIDE DEF r
    <3> QED BY <3>1, <1>1, <1>2, <2>1, <2>2, ExceptType DEF Deliver, Ends, SessionTypes, lifeVars
  <2> QED BY <2>3, <2>4
<1>5. CASE pc[p] # "waiting"
  <2> HIDE DEF r
  <2> QED BY <1>1, <1>5 DEF Deliver, SessionTypes, lifeVars
<1> QED BY <1>4, <1>5

\* The types over the steps of the network and the service.
LEMMA ArriveTypes ==
    ASSUME SessionTypes, Arrive
    PROVE  SessionTypes'
<1> DEFINE r == Head(inbox)
<1>1. r \in Datagrams /\ inbox' \in Seq(Datagrams) BY TailType DEF Arrive, SessionTypes
<1>2. r.from \in CLIENTS BY <1>1 DEF Datagrams
<1>3. Ignore(r) \/ TakeOpen(r) \/ Refuse(r) \/ TakeOther(r) \/ TakeMeta(r) BY DEF Arrive
<1> HIDE DEF r
<1>4. CASE Ignore(r) BY <1>1, <1>4 DEF Ignore, SessionTypes, lifeVars
<1>5. CASE TakeOpen(r)
  <2>1. PICK q \in FreeNumbers : Grant(q) /\ serving' = [r EXCEPT !.qpn = q]
    BY <1>5 DEF TakeOpen
  <2>2. q \in QPNs BY DEF FreeNumbers
  <2>3. serving' \in Datagrams BY <2>1, <2>2, <1>1 DEF Datagrams, Numbers
  <2>4. life' \in [QPNs -> {"free", "granted", "open", "failed", "closing"}]
    BY <2>1 DEF Grant, SessionTypes
  <2> QED BY <1>1, <1>5, <2>1, <2>3, <2>4 DEF TakeOpen, Grant, SessionTypes, hostVars
<1>6. CASE Refuse(r)
  <2>1. info' \in Replies BY <1>6 DEF Refuse, SessionTypes, Replies
  <2>2. wire' \in [CLIENTS -> Seq(Replies)]
    <3>1. wire' = [wire EXCEPT ![info.to] = Append(@, info')] BY <1>6 DEF Refuse
    <3> DEFINE i == info'
    <3>2. i \in Replies BY <2>1
    <3>3. wire' = [wire EXCEPT ![info.to] = Append(@, i)] BY <3>1
    <3> HIDE DEF i
    <3>4. CASE info.to \in CLIENTS BY <3>2, <3>3, <3>4 DEF SessionTypes
    <3>5. CASE info.to \notin CLIENTS
      <4>1. wire' = wire BY <3>3, <3>5 DEF SessionTypes
      <4> QED BY <4>1 DEF SessionTypes
    <3> QED BY <3>4, <3>5
  <2>3. gone' \in [CLIENTS -> BOOLEAN] /\ astray' \in BOOLEAN
    BY <1>6 DEF Refuse, SessionTypes
  <2> QED BY <1>1, <1>6, <2>1, <2>2, <2>3 DEF Refuse, SessionTypes, lifeVars
<1>7. CASE TakeOther(r) BY <1>1, <1>7 DEF TakeOther, SessionTypes, lifeVars, hostVars
<1>8. CASE TakeMeta(r) BY <1>1, <1>8 DEF TakeMeta, SessionTypes, lifeVars, hostVars
<1> QED BY <1>3, <1>4, <1>5, <1>6, <1>7, <1>8

\* Every answer goes to a PC: NoReq has no type that is served.
LEMMA AnswerTypes ==
    ASSUME SessionTypes, serving.type \in ReqTypes, NEW ack \in {"ACK", "ERROR"}, Answer(ack),
           /\ life' \in [QPNs -> {"free", "granted", "open", "failed", "closing"}]
           /\ owner' \in [QPNs -> CLIENTS \cup {NoClient}]
    PROVE  SessionTypes'
<1>1. serving \in Datagrams BY DEF SessionTypes, NoReq, ReqTypes
<1> DEFINE r == [type |-> serving.type, qpn |-> serving.qpn, ack |-> ack, to |-> serving.from]
<1>2. r \in Replies /\ r.to = serving.from /\ serving.from \in CLIENTS
  BY <1>1 DEF Datagrams, Replies
<1>3. Reply(r) /\ serving' = NoReq /\ UNCHANGED <<inbox, astray>> BY DEF Answer
<1> HIDE DEF r
<1>4. wire' \in [CLIENTS -> Seq(Replies)] BY <1>2, <1>3 DEF Reply, SessionTypes
<1> QED BY <1>2, <1>3, <1>4 DEF Reply, SessionTypes, hostVars

\* The types over a step of the connection manager.
LEMMA ServeTypes ==
    ASSUME SessionTypes, Serve
    PROVE  SessionTypes'
<1> DEFINE Lives == {"free", "granted", "open", "failed", "closing"}
<1>1. CASE FinishOpen
  <2>1. serving \in Datagrams /\ serving.type \in ReqTypes
    BY <1>1 DEF FinishOpen, SessionTypes, NoReq, ReqTypes
  <2>2. serving.from \in CLIENTS BY <2>1 DEF Datagrams
  <2>3. life' \in [QPNs -> Lives] /\ owner' \in [QPNs -> CLIENTS \cup {NoClient}]
    BY <1>1, <2>2 DEF FinishOpen, Establish, SessionTypes
  <2> QED BY <1>1, <2>1, <2>3, AnswerTypes DEF FinishOpen
<1>2. CASE FinishModify
  BY <1>2, AnswerTypes DEF FinishModify, SessionTypes, lifeVars, ReqTypes
<1>3. CASE BeginClose
  BY <1>3 DEF BeginClose, TakeDown, SessionTypes, hostVars, netVars
<1>4. CASE FinishClose
  <2>1. serving.type \in ReqTypes BY <1>4 DEF FinishClose, ReqTypes
  <2>2. life' \in [QPNs -> Lives] /\ owner' \in [QPNs -> CLIENTS \cup {NoClient}]
    BY <1>4 DEF FinishClose, Return, SessionTypes, lifeVars
  <2> QED BY <1>4, <2>1, <2>2, AnswerTypes DEF FinishClose
<1>5. CASE Drop
  <2>1. serving \in Datagrams /\ serving' = [serving EXCEPT !.type = "DROPPED"]
    BY <1>5 DEF Drop, SessionTypes, NoReq
  <2>2. serving' \in Datagrams BY <2>1 DEF Datagrams
  <2> QED BY <1>5, <2>2 DEF Drop, SessionTypes, lifeVars
<1> QED BY <1>1, <1>2, <1>3, <1>4, <1>5 DEF Serve

\* The types over a loss.
LEMMA LoseTypes ==
    ASSUME SessionTypes, Lose
    PROVE  SessionTypes'
<1>1. CASE LoseRequest
  <2>1. inbox' \in Seq(Datagrams) BY <1>1, TailType DEF LoseRequest, SessionTypes
  <2>2. gone' \in [CLIENTS -> BOOLEAN]
    <3> DEFINE v == gone[Head(inbox).from] \/ Head(inbox).type # "TXMETA"
    <3>1. gone' = [gone EXCEPT ![Head(inbox).from] = v] BY <1>1 DEF LoseRequest
    <3>2. v \in BOOLEAN OBVIOUS
    <3> HIDE DEF v
    <3> QED BY <3>1, <3>2, ExceptType DEF SessionTypes
  <2> QED BY <1>1, <2>1, <2>2 DEF Lose, LoseRequest, SessionTypes, lifeVars
<1>2. CASE \E p \in CLIENTS : LoseReply(p)
  <2>1. PICK p \in CLIENTS : LoseReply(p) BY <1>2
  <2>2. wire' \in [CLIENTS -> Seq(Replies)] /\ gone' \in [CLIENTS -> BOOLEAN]
    BY <2>1 DEF LoseReply, SessionTypes
  <2> QED BY <2>1, <2>2 DEF Lose, LoseReply, SessionTypes, lifeVars
<1> QED BY <1>1, <1>2 DEF Lose

-----------------------------------------------------------------------------
(* The queue of requests.                                                  *)

\* A datagram of another PC, or one that nobody answers, joins the queue.
LEMMA AppendOther ==
    ASSUME SessionTypes, NEW p \in CLIENTS, NEW r \in Datagrams, inbox' = Append(inbox, r),
           r.from # p \/ r.type = "TXMETA", cmd'[p] = cmd[p]
    PROVE  (Silent(p) => Silent(p)') /\ (Waits(p) => Waits(p)')
<1>1. /\ inbox \in Seq(Datagrams) /\ Len(inbox) \in Nat /\ Len(inbox') = Len(inbox) + 1
      /\ \A i \in 1..Len(inbox) : inbox'[i] = inbox[i]
      /\ inbox'[Len(inbox) + 1] = r
  BY DEF SessionTypes
<1>2. ASSUME Silent(p) PROVE Silent(p)' BY <1>1, <1>2 DEF Silent
<1>3. ASSUME Waits(p) PROVE Waits(p)'
  <2>1. PICK i \in 1..Len(inbox) : Only(p, i) BY <1>3 DEF Waits
  <2>2. i \in 1..Len(inbox') /\ Only(p, i)' BY <1>1, <2>1 DEF Only
  <2> QED BY <2>2 DEF Waits
<1> QED BY <1>2, <1>3

\* The request of a PC that had none under way joins the queue.
LEMMA AppendOwn ==
    ASSUME SessionTypes, NEW p \in CLIENTS, NEW r \in Datagrams, inbox' = Append(inbox, r),
           Silent(p), cmd'[p] = r
    PROVE  Waits(p)'
<1>1. /\ inbox \in Seq(Datagrams) /\ Len(inbox) \in Nat /\ Len(inbox') = Len(inbox) + 1
      /\ \A i \in 1..Len(inbox) : inbox'[i] = inbox[i]
      /\ inbox'[Len(inbox) + 1] = r
  BY DEF SessionTypes
<1>2. PICK n \in Nat : n = Len(inbox) + 1 BY <1>1
<1>3. n \in 1..Len(inbox') /\ Only(p, n)' BY <1>1, <1>2 DEF Only, Silent
<1> QED BY <1>3 DEF Waits

\* The queue without its head.
LEMMA Shifted ==
    ASSUME SessionTypes, inbox # <<>>, inbox' = Tail(inbox)
    PROVE  /\ Len(inbox) \in Nat /\ 1 \in 1..Len(inbox) /\ Len(inbox') = Len(inbox) - 1
           /\ \A i \in 1..Len(inbox') : i + 1 \in 1..Len(inbox) /\ inbox'[i] = inbox[i + 1]
           /\ Head(inbox) = inbox[1]
BY DEF SessionTypes

\* A datagram of another PC, or one that nobody answers, leaves the queue.
LEMMA TailOther ==
    ASSUME SessionTypes, NEW p \in CLIENTS, inbox # <<>>, inbox' = Tail(inbox),
           Head(inbox).from # p \/ Head(inbox).type = "TXMETA", cmd'[p] = cmd[p]
    PROVE  /\ Silent(p) => Silent(p)'
           /\ Waits(p) /\ cmd[p].type \in ReqTypes /\ cmd[p].from = p => Waits(p)'
<1>1. ASSUME Silent(p) PROVE Silent(p)' BY <1>1, Shifted DEF Silent
<1>2. ASSUME Waits(p), cmd[p].type \in ReqTypes, cmd[p].from = p PROVE Waits(p)'
  <2>1. PICK i \in 1..Len(inbox) : Only(p, i) BY <1>2 DEF Waits
  <2>2. i # 1 BY <1>2, <2>1, Shifted DEF Only, ReqTypes
  <2>3. i - 1 \in 1..Len(inbox') BY <2>2, Shifted
  <2>4. inbox'[i - 1] = inbox[i] BY <2>3, Shifted
  <2>5. \A j \in 1..Len(inbox') : inbox'[j].from = p /\ j # i - 1 => inbox'[j].type = "TXMETA"
    BY <2>1, Shifted DEF Only
  <2> QED BY <2>1, <2>3, <2>4, <2>5 DEF Only, Waits
<1> QED BY <1>1, <1>2

\* A request that leaves the queue was the only one of its PC.
LEMMA TailOwn ==
    ASSUME SessionTypes, NEW p \in CLIENTS, inbox # <<>>, inbox' = Tail(inbox), Waits(p),
           Head(inbox).from = p, Head(inbox).type # "TXMETA"
    PROVE  Head(inbox) = cmd[p] /\ Silent(p)'
<1>1. PICK i \in 1..Len(inbox) : Only(p, i) BY DEF Waits
<1>2. i = 1 BY <1>1, Shifted DEF Only
<1> QED BY <1>1, <1>2, Shifted DEF Only, Silent

\* A PC that is silent sent no request that is in the queue.
LEMMA HeadSilent ==
    ASSUME SessionTypes, NEW p \in CLIENTS, inbox # <<>>, Silent(p), Head(inbox).from = p
    PROVE  Head(inbox).type = "TXMETA"
BY DEF Silent, SessionTypes

-----------------------------------------------------------------------------
(* Steps of the others.                                                    *)

\* What p has to do with the connection manager stays as it is.
SameService(p) ==
    \/ /\ serving' = serving
       /\ serving.qpn \in QPNs /\ life[serving.qpn] = "closing" => life'[serving.qpn] = "closing"
    \/ serving.from # p /\ serving'.from # p

SameHost(p) ==
    /\ pc'[p] = pc[p] /\ cmd'[p] = cmd[p] /\ mine'[p] = mine[p] /\ wire'[p] = wire[p]

\* The same numbers are p's.
SameOwned(p) == \A q \in QPNs : (owner'[q] = p) <=> (owner[q] = p)

\* A step of another PC leaves p's request where it is.
LEMMA Undisturbed ==
    ASSUME SessionTypes, NEW p \in CLIENTS, Placed(p), SameHost(p), SameService(p), SameOwned(p),
           Silent(p) => Silent(p)',
           Waits(p) /\ cmd[p].type \in ReqTypes /\ cmd[p].from = p => Waits(p)'
    PROVE  Placed(p)'
<1>1. Owned(p)' = Owned(p) BY DEF Owned, SameOwned
<1>2. Knows(p) => Knows(p)' BY <1>1 DEF Knows, SameHost
<1>3. CASE Idle(p)
  <2>1. serving'.from # p BY <1>3 DEF SameService, Idle
  <2> QED BY <1>2, <1>3, <2>1 DEF Idle, Placed, SameHost
<1>4. CASE Asked(p)
  <2>1. serving'.from # p BY <1>4 DEF SameService, Asked
  <2>2. Waits(p)' BY <1>4 DEF Asked
  <2> QED BY <1>2, <1>4, <2>1, <2>2 DEF Asked, Placed, SameHost, Passed
<1>5. CASE Served(p)
  <2>1. /\ serving' = serving
        /\ serving.qpn \in QPNs /\ life[serving.qpn] = "closing" => life'[serving.qpn] = "closing"
    BY <1>5 DEF Served, SameService
  <2>2. Closing(p) => Closing(p)' BY <1>1, <1>2, <2>1 DEF Closing, SameHost, SameOwned
  <2> QED BY <1>2, <1>5, <2>1, <2>2 DEF Served, Placed, SameHost
<1>6. CASE Answered(p)
  <2>1. serving'.from # p BY <1>6 DEF SameService, Answered
  <2>2. Truthful(p, Head(wire[p])) => Truthful(p, Head(wire[p]))'
    BY <1>1, <1>2 DEF Truthful, SameHost, SameOwned
  <2> QED BY <1>6, <2>1, <2>2 DEF Answered, Placed, SameHost
<1> QED BY <1>3, <1>4, <1>5, <1>6 DEF Placed

-----------------------------------------------------------------------------
(* Every step keeps every PC placed.                                       *)

\* A script starts: its request joins the queue, and nothing else changes.
LEMMA SendtoStep ==
    ASSUME SessionTypes, OwnersLive, NEW p \in CLIENTS, NEW type \in ReqTypes, NEW q \in Numbers,
           Sendto(p, type, q), Silent(p), serving.from # p, wire'[p] = <<>>, Knows(p)',
           type = "CLOSE" => q \in Passed(p)',
           UNCHANGED serving
    PROVE  Placed(p)' /\ ~gone'[p]
<1> DEFINE r == [type |-> type, qpn |-> q, from |-> p]
<1>1. r \in Datagrams /\ r.type = type /\ r.qpn = q /\ r.from = p BY DEF Datagrams
<1>2. /\ pc' = [pc EXCEPT ![p] = "sent"] /\ cmd' = [cmd EXCEPT ![p] = r]
      /\ inbox' = Append(inbox, r) /\ gone' = [gone EXCEPT ![p] = FALSE]
  BY DEF Sendto
<1> HIDE DEF r
<1>3. pc'[p] = "sent" /\ cmd'[p] = r /\ ~gone'[p] BY <1>2 DEF SessionTypes
<1>4. Waits(p)' BY <1>1, <1>2, <1>3, AppendOwn
<1> QED BY <1>1, <1>3, <1>4 DEF Placed, Asked

\* Nothing of another PC changes when a script of p sends.
LEMMA SendtoOthers ==
    ASSUME SessionTypes, NEW p \in CLIENTS, NEW type \in ReqTypes, NEW q \in Numbers,
           Sendto(p, type, q), NEW o \in CLIENTS, o # p, Placed(o), ~gone[o],
           UNCHANGED <<lifeVars, serving>>, mine'[o] = mine[o], wire'[o] = wire[o]
    PROVE  Placed(o)' /\ ~gone'[o]
<1> DEFINE r == [type |-> type, qpn |-> q, from |-> p]
<1>1. r \in Datagrams /\ r.from # o BY DEF Datagrams
<1>2. /\ pc' = [pc EXCEPT ![p] = "sent"] /\ cmd' = [cmd EXCEPT ![p] = r]
      /\ inbox' = Append(inbox, r) /\ gone' = [gone EXCEPT ![p] = FALSE]
  BY DEF Sendto
<1> HIDE DEF r
<1>3. pc'[o] = pc[o] /\ cmd'[o] = cmd[o] /\ gone'[o] = gone[o] BY <1>2 DEF SessionTypes
<1>4. (Silent(o) => Silent(o)') /\ (Waits(o) => Waits(o)') BY <1>1, <1>2, <1>3, AppendOther
<1>5. SameHost(o) /\ SameService(o) /\ SameOwned(o)
  BY <1>3 DEF SameHost, SameService, SameOwned, lifeVars
<1> QED BY <1>3, <1>4, <1>5, Undisturbed

\* A script is started by a user whose PC is idle.
LEMMA ScriptStep ==
    ASSUME SessionTypes, InTouch, NEW p \in CLIENTS, Script(p)
    PROVE  InTouch'
<1>1. OwnersLive' BY DEF InTouch, OwnersLive, Script, request_qp_info, modify_qp_rts,
                     close_rem_qp, send_txmeta, Start, lifeVars
<1>2. pc[p] = "ready" /\ UNCHANGED <<lifeVars, mine, wire, serving>>
  BY DEF Script, request_qp_info, modify_qp_rts, close_rem_qp, send_txmeta, Start
<1>3. Idle(p) BY <1>2 DEF InTouch, Placed, Idle, Asked, Served, Answered
<1>4. Silent(p) /\ serving.from # p /\ wire'[p] = <<>> /\ Knows(p) /\ mine' = mine
  BY <1>2, <1>3 DEF Idle
<1>5. Knows(p)' BY <1>2, <1>4 DEF Knows, Owned, lifeVars
<1>6. CASE \E type \in ReqTypes, q \in Numbers :
             Sendto(p, type, q) /\ (type = "CLOSE" => q \in Passed(p))
  <2>1. PICK type \in ReqTypes, q \in Numbers :
             Sendto(p, type, q) /\ (type = "CLOSE" => q \in Passed(p))
    BY <1>6
  <2>2. Placed(p)' /\ ~gone'[p]
    BY <1>2, <1>4, <1>5, <2>1, SendtoStep DEF InTouch, Passed
  <2>3. ASSUME NEW o \in CLIENTS, o # p PROVE Placed(o)' /\ ~gone'[o]
    BY <1>2, <2>1, <2>3, SendtoOthers DEF InTouch
  <2> QED BY <1>1, <2>2, <2>3 DEF InTouch
<1>7. CASE send_txmeta(p)
  <2>1. PICK q \in mine[p] :
          /\ inbox' = Append(inbox, [type |-> "TXMETA", qpn |-> q, from |-> p])
          /\ UNCHANGED <<pc, cmd, gone>>
    BY <1>7 DEF send_txmeta
  <2> DEFINE r == [type |-> "TXMETA", qpn |-> q, from |-> p]
  <2>2. r \in Datagrams /\ r.type = "TXMETA" BY DEF Datagrams, SessionTypes
  <2>3. inbox' = Append(inbox, r) BY <2>1
  <2> HIDE DEF r
  <2>4. ASSUME NEW o \in CLIENTS PROVE Placed(o)' /\ ~gone'[o]
    <3>1. (Silent(o) => Silent(o)') /\ (Waits(o) => Waits(o)')
      BY <2>1, <2>2, <2>3, AppendOther
    <3>2. SameHost(o) /\ SameService(o) /\ SameOwned(o)
      BY <1>2, <2>1 DEF SameHost, SameService, SameOwned, lifeVars
    <3> QED BY <2>1, <3>1, <3>2, Undisturbed DEF InTouch
  <2> QED BY <1>1, <2>4 DEF InTouch
<1>8. CASE request_qp_info(p)
  <2>1. BadQpn \in Numbers /\ "OPEN" \in ReqTypes BY DEF Numbers, ReqTypes
  <2> QED BY <1>6, <1>8, <2>1 DEF request_qp_info
<1>9. CASE modify_qp_rts(p) \/ close_rem_qp(p)
  <2>1. Passed(p) \subseteq Numbers /\ {"MODIFY_RTS", "CLOSE"} \subseteq ReqTypes
    BY DEF SessionTypes, ReqTypes, Passed, Numbers
  <2> QED BY <1>6, <1>9, <2>1 DEF modify_qp_rts, close_rem_qp
<1> QED BY <1>7, <1>8, <1>9 DEF Script

\* A step that leaves the queue alone keeps who is silent and who waits.
LEMMA SameQueue ==
    ASSUME NEW p \in CLIENTS, inbox' = inbox, cmd'[p] = cmd[p]
    PROVE  (Silent(p) => Silent(p)') /\ (Waits(p) => Waits(p)')
BY DEF Silent, Waits, Only

\* A script that begins to listen has asked before.
LEMMA BindStep ==
    ASSUME SessionTypes, InTouch, NEW p \in CLIENTS, Bind(p)
    PROVE  InTouch'
<1>1. OwnersLive' BY DEF InTouch, OwnersLive, Bind, lifeVars
<1>2. ASSUME NEW o \in CLIENTS PROVE Placed(o)' /\ ~gone'[o]
  <2>1. /\ UNCHANGED <<owner, life, cmd, mine, gone, inbox, wire, serving>>
        /\ pc' = [pc EXCEPT ![p] = "waiting"] /\ pc[p] = "sent"
    BY DEF Bind, lifeVars, netVars
  <2>2. (pc[o] = "ready") <=> (pc'[o] = "ready") BY <2>1 DEF SessionTypes
  <2>3. (Silent(o) => Silent(o)') /\ (Waits(o) => Waits(o)') BY <2>1, SameQueue
  <2>4. (Knows(o) => Knows(o)') /\ (Closing(o) => Closing(o)')
    BY <2>1 DEF Knows, Closing, Owned
  <2>5. Truthful(o, Head(wire[o])) => Truthful(o, Head(wire[o]))'
    BY <2>1, <2>4 DEF Truthful, Owned
  <2>6. Placed(o) /\ ~gone[o] BY DEF InTouch
  <2> QED BY <2>1, <2>2, <2>3, <2>4, <2>5, <2>6
          DEF Placed, Idle, Asked, Served, Answered, Passed
<1> QED BY <1>1, <1>2 DEF InTouch

\* The answer a script takes makes its user know what the FPGA holds for the PC.
LEMMA DeliverStep ==
    ASSUME SessionTypes, InTouch, NEW p \in CLIENTS, Deliver(p), ~astray'
    PROVE  InTouch'
<1> DEFINE r == Head(wire[p])
<1>1. /\ pc[p] = "waiting" /\ wire[p] # <<>>
      /\ decode_udp_packet(p, r) /\ NextStep(p, r)
      /\ wire' = [wire EXCEPT ![p] = Tail(@)]
      /\ UNCHANGED <<life, owner, serving>>
  BY DEF Deliver, lifeVars
<1>2. OwnersLive' BY <1>1 DEF InTouch, OwnersLive
<1>3. Answered(p) BY <1>1 DEF InTouch, Placed, Idle, Asked, Served
<1>4. r \in Replies /\ wire'[p] = <<>> BY <1>1, <1>3 DEF Answered, SessionTypes
<1>5. r.qpn \in Numbers BY <1>4 DEF Replies
<1>6. Truthful(p, r) /\ Silent(p) /\ serving.from # p BY <1>3 DEF Answered
<1>7. NextStep(p, r) BY <1>1
<1>8. \A o \in CLIENTS : o # p => mine'[o] = mine[o] /\ wire'[o] = wire[o]
  BY <1>1 DEF decode_udp_packet, SessionTypes
<1>9. mine'[p] = IF r.ack # "ACK" THEN mine[p]
                 ELSE IF r.type = "OPEN" THEN mine[p] \cup {r.qpn}
                 ELSE IF r.type = "CLOSE" THEN mine[p] \ {r.qpn} ELSE mine[p]
  BY <1>1 DEF decode_udp_packet, SessionTypes
<1> HIDE DEF r
<1>10. Knows(p)'
  <2>1. Owned(p)' = Owned(p) BY <1>1 DEF Owned
  <2>2. mine'[p] = Owned(p) BY <1>6, <1>9 DEF Truthful, Knows
  <2> QED BY <2>1, <2>2 DEF Knows
<1>11. CASE tap[p] /\ cmd[p].type = "OPEN"
  <2>1. Sendto(p, "MODIFY_RTS", r.qpn) /\ "MODIFY_RTS" \in ReqTypes
    BY <1>7, <1>11 DEF NextStep, ReqTypes
  <2>2. Placed(p)' /\ ~gone'[p]
    BY <1>1, <1>4, <1>5, <1>6, <1>10, <2>1, SendtoStep DEF InTouch
  <2>3. ASSUME NEW o \in CLIENTS, o # p PROVE Placed(o)' /\ ~gone'[o]
    <3>1. mine'[o] = mine[o] /\ wire'[o] = wire[o] /\ Placed(o) /\ ~gone[o]
      BY <1>8, <2>3 DEF InTouch
    <3>2. UNCHANGED <<lifeVars, serving>> BY <1>1 DEF lifeVars
    <3> QED BY <1>5, <2>1, <2>3, <3>1, <3>2, SendtoOthers
  <2> QED BY <1>2, <2>2, <2>3 DEF InTouch
<1>12. CASE ~(tap[p] /\ cmd[p].type = "OPEN")
  <2>1. Ends(p) /\ inbox' = inbox BY <1>7, <1>12 DEF NextStep
  <2>2. pc'[p] = "ready" /\ ~gone'[p] BY <2>1 DEF Ends, SessionTypes
  <2>3. Silent(p)' BY <1>6, <2>1 DEF Silent
  <2>4. Placed(p)' BY <1>1, <1>4, <1>6, <1>10, <2>2, <2>3 DEF Placed, Idle
  <2>5. ASSUME NEW o \in CLIENTS, o # p PROVE Placed(o)' /\ ~gone'[o]
    <3>1. pc'[o] = pc[o] /\ cmd'[o] = cmd[o] /\ gone'[o] = gone[o]
      BY <2>1, <2>5 DEF Ends, SessionTypes
    <3>2. (Silent(o) => Silent(o)') /\ (Waits(o) => Waits(o)') BY <2>1, <3>1, SameQueue
    <3>3. SameHost(o) /\ SameService(o) /\ SameOwned(o)
      BY <1>1, <1>8, <2>5, <3>1 DEF SameHost, SameService, SameOwned
    <3> QED BY <3>1, <3>2, <3>3, Undisturbed DEF InTouch
  <2> QED BY <1>2, <2>2, <2>4, <2>5 DEF InTouch
<1> QED BY <1>11, <1>12

\* A request leaves the queue: its PC was waiting with it.
LEMMA RequestTaken ==
    ASSUME SessionTypes, InTouch, inbox # <<>>, inbox' = Tail(inbox), Head(inbox).type # "TXMETA",
           NEW p \in CLIENTS, Head(inbox).from = p
    PROVE  Asked(p) /\ Head(inbox) = cmd[p] /\ Silent(p)'
<1>1. ~Silent(p) BY HeadSilent
<1>2. Asked(p) BY <1>1 DEF InTouch, Placed, Idle, Served, Answered
<1>3. Waits(p) BY <1>2 DEF Asked
<1> QED BY <1>2, <1>3, TailOwn

\* The requests of the others stay where they are when one leaves the queue.
LEMMA ArriveOthers ==
    ASSUME SessionTypes, InTouch, inbox # <<>>, inbox' = Tail(inbox), NEW o \in CLIENTS,
           Head(inbox).from # o \/ Head(inbox).type = "TXMETA",
           SameHost(o), SameService(o), SameOwned(o)
    PROVE  Placed(o)'
<1>1. cmd'[o] = cmd[o] /\ Placed(o) BY DEF SameHost, InTouch
<1> QED BY <1>1, TailOther, Undisturbed

\* A datagram that reaches the service: it is served, waits, or is one that nobody answers.
LEMMA ArriveStep ==
    ASSUME NoClient \notin CLIENTS, SessionTypes, InTouch, Arrive, ~astray, ~astray'
    PROVE  InTouch'
<1> DEFINE r == Head(inbox)
<1>1. inbox # <<>> /\ inbox' = Tail(inbox) BY DEF Arrive
<1>2. r \in Datagrams BY <1>1, TailType DEF SessionTypes
<1>3. TakeOpen(r) \/ Refuse(r) \/ TakeOther(r) \/ TakeMeta(r) BY DEF Arrive, Ignore
<1>4. CASE TakeMeta(r)
  <2>1. /\ r.type = "TXMETA"
        /\ UNCHANGED <<life, owner, pc, cmd, mine, gone, serving, wire>>
    BY <1>4 DEF TakeMeta, lifeVars, hostVars
  <2>2. ASSUME NEW o \in CLIENTS PROVE Placed(o)' /\ ~gone'[o]
    <3>1. SameHost(o) /\ SameService(o) /\ SameOwned(o)
      BY <2>1 DEF SameHost, SameService, SameOwned
    <3> QED BY <1>1, <2>1, <3>1, ArriveOthers DEF InTouch
  <2>3. OwnersLive' BY <2>1 DEF InTouch, OwnersLive
  <2> QED BY <2>2, <2>3 DEF InTouch
<1>5. CASE TakeOther(r) \/ TakeOpen(r) \/ Refuse(r)
  <2>1. r.type # "TXMETA" BY <1>5 DEF TakeOther, TakeOpen, Refuse
  <2>2. PICK p \in CLIENTS : r.from = p BY <1>2 DEF Datagrams
  <2>3. Asked(p) /\ r = cmd[p] /\ Silent(p)' BY <1>1, <2>1, <2>2, RequestTaken
  <2>4. serving = NoReq /\ serving.from = NoClient
    BY <1>5 DEF TakeOther, TakeOpen, Refuse, NoReq
  <2>5. pc[p] # "ready" /\ wire[p] = <<>> /\ Knows(p) BY <2>3 DEF Asked
  <2>6. CASE TakeOther(r)
    <3>1. /\ r.type \in {"MODIFY_RTS", "CLOSE"} /\ serving' = r
          /\ r.type = "CLOSE" => r.qpn # BadQpn
          /\ UNCHANGED <<life, owner, pc, cmd, mine, gone, wire>>
      BY <2>6 DEF TakeOther, lifeVars, hostVars
    <3>2. Knows(p)' BY <2>5, <3>1 DEF Knows, Owned
    <3>3. r.type = "CLOSE" => Closing(p)'
      <4>1. SUFFICES ASSUME r.type = "CLOSE" PROVE Closing(p)' OBVIOUS
      <4>2. r.qpn = cmd[p].qpn /\ r.qpn \in Owned(p)
        BY <2>3, <2>5, <3>1, <4>1 DEF Asked, Knows, Passed
      <4> QED BY <3>1, <3>2, <4>2 DEF Closing, Owned
    <3>4. Placed(p)' BY <2>3, <2>2, <2>5, <3>1, <3>2, <3>3 DEF Placed, Served, ReqTypes
    <3>5. ASSUME NEW o \in CLIENTS, o # p PROVE Placed(o)'
      <4>1. SameHost(o) /\ SameService(o) /\ SameOwned(o)
        BY <2>2, <2>4, <3>1, <3>5 DEF SameHost, SameService, SameOwned
      <4> QED BY <1>1, <2>2, <3>5, <4>1, ArriveOthers
    <3>6. OwnersLive' /\ gone' = gone BY <3>1 DEF InTouch, OwnersLive
    <3> QED BY <3>4, <3>5, <3>6 DEF InTouch
  <2>7. CASE TakeOpen(r)
    <3>1. PICK q \in FreeNumbers : Grant(q) /\ serving' = [r EXCEPT !.qpn = q]
      BY <2>7 DEF TakeOpen
    <3>2. /\ r.type = "OPEN" /\ UNCHANGED <<owner, pc, cmd, mine, gone, wire>>
          /\ q \in QPNs /\ life[q] = "free" /\ life' = [life EXCEPT ![q] = "granted"]
      BY <2>7, <3>1 DEF TakeOpen, Grant, hostVars, FreeNumbers
    <3>3. serving'.from = p /\ serving'.type = "OPEN" /\ serving'.qpn = q
      BY <1>2, <2>2, <3>1, <3>2 DEF Datagrams
    <3>4. Knows(p)' BY <2>5, <3>2 DEF Knows, Owned
    <3>5. Placed(p)' BY <2>3, <2>5, <3>2, <3>3, <3>4 DEF Placed, Served, ReqTypes
    <3>6. ASSUME NEW o \in CLIENTS, o # p PROVE Placed(o)'
      <4>1. SameHost(o) /\ SameService(o) /\ SameOwned(o)
        BY <2>4, <3>2, <3>3, <3>6 DEF SameHost, SameService, SameOwned
      <4> QED BY <1>1, <2>2, <3>6, <4>1, ArriveOthers
    <3>7. OwnersLive' /\ gone' = gone BY <3>2 DEF InTouch, OwnersLive, SessionTypes
    <3> QED BY <3>5, <3>6, <3>7 DEF InTouch
  <2>8. CASE Refuse(r)
    <3>1. info.to = p /\ UNCHANGED <<life, owner, pc, cmd, mine, gone, serving>>
      BY <2>2, <2>8 DEF Refuse, lifeVars
    <3> DEFINE a == [info EXCEPT !.ack = IF r.type = "OPEN" THEN "NO_QP" ELSE "NAK"]
    <3>2. info' = a /\ wire' = [wire EXCEPT ![p] = Append(@, a)]
      BY <2>8, <3>1 DEF Refuse
    <3>3. a.ack # "ACK" /\ a \in Replies BY DEF SessionTypes, Replies
    <3> HIDE DEF a
    <3>4. wire'[p] = Append(wire[p], a) BY <2>3, <3>2 DEF SessionTypes
    <3>5. Len(wire'[p]) = 1 /\ Head(wire'[p]) = a BY <2>5, <3>4
    <3>6. Truthful(p, Head(wire[p]))'
      BY <2>5, <3>1, <3>3, <3>5 DEF Truthful, Knows, Owned
    <3>7. Placed(p)' BY <2>3, <2>4, <2>5, <3>1, <3>5, <3>6 DEF Placed, Answered
    <3>8. ASSUME NEW o \in CLIENTS, o # p PROVE Placed(o)'
      <4>1. wire'[o] = wire[o] BY <2>3, <3>2, <3>8 DEF SessionTypes
      <4>2. SameHost(o) /\ SameService(o) /\ SameOwned(o)
        BY <3>1, <4>1 DEF SameHost, SameService, SameOwned
      <4> QED BY <1>1, <2>2, <3>8, <4>2, ArriveOthers
    <3>9. OwnersLive' /\ gone' = gone BY <3>1 DEF InTouch, OwnersLive
    <3> QED BY <3>7, <3>8, <3>9 DEF InTouch
  <2> QED BY <1>5, <2>6, <2>7, <2>8
<1> QED BY <1>3, <1>4, <1>5

\* The FPGA answers p: what the answer says is what has been done for p.
LEMMA AnswerStep ==
    ASSUME NoClient \notin CLIENTS, SessionTypes, InTouch, OwnersLive',
           NEW p \in CLIENTS, serving.from = p, serving \in Datagrams,
           NEW ack \in {"ACK", "ERROR"}, Answer(ack),
           IF ack # "ACK" THEN Knows(p)'
           ELSE /\ serving.type \in {"OPEN", "CLOSE"} /\ serving.qpn \in QPNs
                /\ serving.type = "OPEN" =>
                     owner'[serving.qpn] = p /\ Owned(p)' = mine[p] \cup {serving.qpn}
                /\ serving.type = "CLOSE" =>
                     owner'[serving.qpn] # p /\ Owned(p)' = mine[p] \ {serving.qpn},
           \A o \in CLIENTS : o # p => SameOwned(o)
    PROVE  InTouch'
<1> DEFINE r == [type |-> serving.type, qpn |-> serving.qpn, ack |-> ack, to |-> serving.from]
<1>1. Served(p) BY DEF InTouch, Placed, Idle, Asked, Answered
<1>2. /\ pc[p] # "ready" /\ Silent(p) /\ wire[p] = <<>> /\ serving.type = cmd[p].type
      /\ serving.type = "CLOSE" => serving.qpn = cmd[p].qpn
  BY <1>1 DEF Served, Closing
<1>3. Reply(r) /\ serving' = NoReq /\ inbox' = inbox BY DEF Answer
<1>4. /\ r \in Replies /\ r.to = p /\ r.ack = ack
      /\ r.type = serving.type /\ r.qpn = serving.qpn
  BY <1>1 DEF Datagrams, Replies, Served
<1> HIDE DEF r
<1>5. /\ wire' = [wire EXCEPT ![p] = Append(@, r)]
      /\ UNCHANGED <<pc, cmd, mine, gone>> /\ serving'.from = NoClient
  BY <1>3, <1>4 DEF Reply, hostVars, NoReq
<1>6. Len(wire'[p]) = 1 /\ Head(wire'[p]) = r
  <2>1. wire'[p] = Append(wire[p], r) BY <1>5 DEF SessionTypes
  <2> QED BY <1>2, <2>1
<1>7. Truthful(p, Head(wire[p]))'
  <2>1. CASE ack # "ACK" BY <1>4, <1>6, <2>1 DEF Truthful
  <2>2. CASE ack = "ACK" BY <1>2, <1>4, <1>5, <1>6, <2>2 DEF Truthful
  <2> QED BY <2>1, <2>2
<1>8. Silent(p)' BY <1>2, <1>3 DEF Silent
<1>9. Placed(p)' BY <1>2, <1>5, <1>6, <1>7, <1>8 DEF Placed, Answered
<1>10. ASSUME NEW o \in CLIENTS, o # p PROVE Placed(o)'
  <2>1. wire'[o] = wire[o] BY <1>5, <1>10 DEF SessionTypes
  <2>2. SameHost(o) /\ SameService(o) /\ SameOwned(o)
    BY <1>5, <1>10, <2>1 DEF SameHost, SameService
  <2>3. (Silent(o) => Silent(o)') /\ (Waits(o) => Waits(o)') BY <1>3, <1>5, SameQueue
  <2> QED BY <2>2, <2>3, Undisturbed DEF InTouch
<1> QED BY <1>5, <1>9, <1>10 DEF InTouch

\* The connection manager carries the request out and answers.
LEMMA ServeStep ==
    ASSUME NoClient \notin CLIENTS, SessionTypes, InTouch, Serve, ~astray'
    PROVE  InTouch'
<1>1. serving \in Datagrams /\ serving.type \in ReqTypes
  BY DEF Serve, FinishOpen, FinishModify, BeginClose, FinishClose, Drop, SessionTypes, NoReq,
         ReqTypes
<1>2. PICK p \in CLIENTS : serving.from = p BY <1>1 DEF Datagrams
<1>3. Served(p) /\ ~gone[p] BY <1>2 DEF InTouch, Placed, Idle, Asked, Answered
<1>4. OwnersLive BY DEF InTouch
<1>5. CASE FinishOpen
  <2> DEFINE q == serving.qpn
  <2>1. /\ serving.type = "OPEN" /\ life[q] = "granted" /\ Answer("ACK")
        /\ life' = [life EXCEPT ![q] = "open"] /\ owner' = [owner EXCEPT ![q] = p]
    BY <1>2, <1>5 DEF FinishOpen, Establish
  <2>2. q \in QPNs /\ Knows(p) BY <1>3, <2>1 DEF Served
  <2>3. owner[q] = NoClient BY <1>4, <2>1, <2>2 DEF OwnersLive
  <2>4. OwnersLive' BY <1>4, <2>1, <2>2 DEF OwnersLive, SessionTypes
  <2>5. owner'[q] = p /\ \A n \in QPNs : n # q => owner'[n] = owner[n]
    BY <2>1, <2>2 DEF SessionTypes
  <2>6. Owned(p)' = Owned(p) \cup {q} BY <2>2, <2>5 DEF Owned
  <2>7. Owned(p)' = mine[p] \cup {q} BY <2>2, <2>6 DEF Knows
  <2>8. \A o \in CLIENTS : o # p => SameOwned(o) BY <2>3, <2>5 DEF SameOwned
  <2>9. Answer("ACK") BY <2>1
  <2> QED BY <1>1, <1>2, <2>1, <2>2, <2>4, <2>5, <2>7, <2>8, <2>9, AnswerStep
<1>6. CASE FinishModify
  <2>1. serving.type = "MODIFY_RTS" /\ Answer("ERROR") /\ UNCHANGED <<life, owner>>
    BY <1>6 DEF FinishModify, lifeVars
  <2>2. OwnersLive' /\ \A o \in CLIENTS : SameOwned(o)
    BY <1>4, <2>1 DEF OwnersLive, SameOwned
  <2>3. Knows(p)'
    BY <1>3, <2>1 DEF Served, Knows, Owned, Answer, Reply, hostVars
  <2> QED BY <1>1, <1>2, <2>1, <2>2, <2>3, AnswerStep
<1>7. CASE BeginClose
  <2> DEFINE q == serving.qpn
  <2>1. /\ serving.type = "CLOSE" /\ life[q] \in {"open", "failed"}
        /\ life' = [life EXCEPT ![q] = "closing"] /\ owner' = [owner EXCEPT ![q] = NoClient]
        /\ UNCHANGED <<pc, cmd, mine, gone, inbox, wire, serving>>
    BY <1>7 DEF BeginClose, TakeDown, hostVars, netVars
  <2>2. Closing(p) BY <1>3, <2>1 DEF Served
  <2>3. q = cmd[p].qpn /\ q \in QPNs /\ owner[q] = p /\ Knows(p)
    BY <2>1, <2>2 DEF Closing
  <2>4. /\ owner'[q] = NoClient /\ life'[q] = "closing"
        /\ \A n \in QPNs : n # q => owner'[n] = owner[n] /\ life'[n] = life[n]
    BY <2>1, <2>3 DEF SessionTypes
  <2>5. OwnersLive' BY <1>4, <2>3, <2>4 DEF OwnersLive
  <2>6. Owned(p)' = Owned(p) \ {q} BY <2>3, <2>4 DEF Owned
  <2>7. Closing(p)' BY <2>1, <2>3, <2>4, <2>6 DEF Closing, Knows
  <2>8. Silent(p)' BY <1>3, <2>1 DEF Served, Silent
  <2>9. Placed(p)' BY <1>3, <2>1, <2>7, <2>8 DEF Placed, Served
  <2>10. ASSUME NEW o \in CLIENTS, o # p PROVE Placed(o)'
    <3>1. SameOwned(o) BY <2>3, <2>4, <2>10 DEF SameOwned
    <3>2. SameHost(o) /\ SameService(o) BY <1>2, <2>1, <2>10 DEF SameHost, SameService
    <3>3. (Silent(o) => Silent(o)') /\ (Waits(o) => Waits(o)') BY <2>1, SameQueue
    <3> QED BY <3>1, <3>2, <3>3, Undisturbed DEF InTouch
  <2> QED BY <2>1, <2>5, <2>9, <2>10 DEF InTouch
<1>8. CASE FinishClose
  <2> DEFINE q == serving.qpn
  <2>1. serving.type = "CLOSE" BY <1>8 DEF FinishClose
  <2>2. Closing(p) BY <1>3, <2>1 DEF Served
  <2>3. q = cmd[p].qpn /\ q \in QPNs /\ life[q] \in {"free", "closing"}
    BY <1>8, <2>2 DEF Closing, FinishClose, Return
  <2>4. owner[q] = NoClient BY <1>4, <2>3 DEF OwnersLive
  <2>5. life[q] = "closing" /\ Owned(p) = mine[p] \ {q}
    BY <2>2, <2>4 DEF Closing
  <2>6. Return(q) /\ Answer("ACK") BY <1>8, <2>5 DEF FinishClose
  <2>7. owner' = owner /\ life' = [life EXCEPT ![q] = "free"] BY <2>6 DEF Return
  <2>8. OwnersLive' BY <1>4, <2>3, <2>4, <2>7 DEF OwnersLive, SessionTypes
  <2>9. Owned(p)' = mine[p] \ {q} /\ \A o \in CLIENTS : SameOwned(o)
    BY <2>5, <2>7 DEF Owned, SameOwned
  <2>10. owner'[q] # p /\ Answer("ACK") BY <2>4, <2>6, <2>7
  <2> QED BY <1>1, <1>2, <2>1, <2>3, <2>8, <2>9, <2>10, AnswerStep
<1> QED BY <1>5, <1>6, <1>7, <1>8 DEF Serve, Drop

\* A fault fails a queue pair and takes it from nobody.
LEMMA FaultStep ==
    ASSUME SessionTypes, Fault
    PROVE  SessionTypes' /\ (InTouch => InTouch')
<1>1. PICK q \in QPNs : FailQp(q) BY DEF Fault
<1>2. /\ life[q] = "open" /\ life' = [life EXCEPT ![q] = "failed"] /\ owner' = owner
      /\ UNCHANGED <<pc, cmd, tap, mine, gone, inbox, wire, astray, serving, info>>
  BY <1>1 DEF FailQp, Fault, hostVars, netVars
<1>3. SessionTypes' BY <1>2 DEF SessionTypes
<1>4. ASSUME InTouch PROVE InTouch'
  <2>1. OwnersLive' BY <1>2, <1>4 DEF InTouch, OwnersLive, SessionTypes
  <2>2. ASSUME NEW o \in CLIENTS PROVE Placed(o)'
    <3>1. SameHost(o) /\ SameOwned(o) BY <1>2 DEF SameHost, SameOwned
    <3>2. SameService(o) BY <1>2 DEF SameService, SessionTypes
    <3>3. (Silent(o) => Silent(o)') /\ (Waits(o) => Waits(o)') BY <1>2, SameQueue
    <3> QED BY <1>4, <3>1, <3>2, <3>3, Undisturbed DEF InTouch
  <2> QED BY <1>2, <1>4, <2>1, <2>2 DEF InTouch
<1> QED BY <1>3, <1>4

-----------------------------------------------------------------------------
(* The theorems.                                                           *)

\* The invariant holds at first,
LEMMA SessionStart ==
    ASSUME NoClient \notin CLIENTS, SessionInit
    PROVE  SessionInv
<1>1. 0 \in QPNs BY PowerOfTwo DEF QPNs
<1>2. SessionTypes
  BY <1>1 DEF SessionInit, LifeInit, SessionTypes, Replies, Numbers
<1>3. OwnersLive BY DEF SessionInit, LifeInit, OwnersLive
<1>4. ASSUME NEW p \in CLIENTS PROVE Idle(p) /\ ~gone[p]
  <2>1. Silent(p) /\ serving.from # p BY DEF SessionInit, Silent, NoReq
  <2>2. Knows(p) BY DEF SessionInit, LifeInit, Knows, Owned
  <2> QED BY <2>1, <2>2 DEF SessionInit, Idle
<1> QED BY <1>2, <1>3, <1>4 DEF SessionInv, InTouch, Placed

\* Once astray, always astray.
LEMMA AstrayStays ==
    ASSUME SessionNext, ~astray'
    PROVE  ~astray
BY DEF SessionNext, Script, request_qp_info, modify_qp_rts, close_rem_qp, send_txmeta, Start,
       Bind, Deliver, Interrupt, netVars, Arrive, Ignore, TakeOpen, Refuse, TakeOther, TakeMeta,
       Serve, FinishOpen, FinishModify, BeginClose, FinishClose, Drop, Answer, Fault, Lose

\* Only a script that has lost touch is interrupted.
LEMMA InterruptStep ==
    ASSUME SessionTypes, NEW p \in CLIENTS, Interrupt(p)
    PROVE  SessionTypes' /\ ~InTouch
<1>1. SessionTypes' BY ExceptType DEF Interrupt, Ends, SessionTypes, lifeVars, netVars
<1> QED BY <1>1 DEF Interrupt, InTouch

\* and every step keeps it.
LEMMA SessionStep ==
    ASSUME NoClient \notin CLIENTS, SessionInv, SessionNext
    PROVE  SessionInv'
<1> SessionTypes /\ (~astray' => ~astray /\ InTouch) BY AstrayStays DEF SessionInv
<1>1. CASE \E p \in CLIENTS : Script(p)
  BY <1>1, ScriptTypes, ScriptStep DEF SessionInv
<1>2. CASE \E p \in CLIENTS : Bind(p)
  <2>1. PICK p \in CLIENTS : Bind(p) BY <1>2
  <2>2. SessionTypes' BY <2>1 DEF Bind, SessionTypes, lifeVars, netVars
  <2> QED BY <2>1, <2>2, BindStep DEF SessionInv
<1>3. CASE \E p \in CLIENTS : Deliver(p)
  BY <1>3, DeliverTypes, DeliverStep DEF SessionInv
<1>4. CASE \E p \in CLIENTS : Interrupt(p)
  BY <1>4, InterruptStep DEF SessionInv
<1>5. CASE Arrive BY <1>5, ArriveTypes, ArriveStep DEF SessionInv
<1>6. CASE Serve BY <1>6, ServeTypes, ServeStep DEF SessionInv
<1>7. CASE Fault BY <1>7, FaultStep DEF SessionInv
<1>8. CASE Lose
  <2>1. SessionTypes' /\ astray' BY <1>8, LoseTypes DEF Lose
  <2> QED BY <2>1 DEF SessionInv
<1> QED BY <1>1, <1>2, <1>3, <1>4, <1>5, <1>6, <1>7, <1>8 DEF SessionNext

\* A stuttering step keeps it.
LEMMA SessionStutter ==
    ASSUME SessionInv, UNCHANGED sessionVars
    PROVE  SessionInv'
<1>1. UNCHANGED <<life, owner, pc, cmd, tap, mine, gone, inbox, wire, astray, serving, info>>
  BY DEF sessionVars, lifeVars, hostVars, netVars
<1>2. SessionTypes' BY <1>1 DEF SessionInv, SessionTypes
<1>3. ASSUME InTouch PROVE InTouch'
  <2>1. ASSUME NEW o \in CLIENTS PROVE Placed(o)'
    <3>1. SameHost(o) /\ SameService(o) /\ SameOwned(o)
      BY <1>1 DEF SameHost, SameService, SameOwned
    <3>2. (Silent(o) => Silent(o)') /\ (Waits(o) => Waits(o)') BY <1>1, SameQueue
    <3> QED BY <1>3, <3>1, <3>2, Undisturbed DEF InTouch, SessionInv
  <2> QED BY <1>1, <1>3, <2>1 DEF InTouch, OwnersLive
<1> QED BY <1>1, <1>2, <1>3 DEF SessionInv

\* Where the requests and answers of the control scripts are (send_connection_info.py,
\* Decode_tap_data.py): an invariant of the session, for every number of PCs and
\* queue pairs.
THEOREM SessionInvHolds ==
    Spec => []SessionInv
<1>1. Init => SessionInv BY ClientsAssumption, SessionStart DEF Init
<1>2. SessionInv /\ [Next]_vars => SessionInv'
  BY ClientsAssumption, SessionStep, SessionStutter DEF Next, vars
<1> QED BY <1>1, <1>2, PTL DEF Spec

\* While every datagram has reached the one it was for, a PC without a running
\* script has been told by decode_udp_packet of exactly the queue pairs it owns.
THEOREM UserAlwaysKnows ==
    Spec => []UserKnows
<1>1. SessionInv => UserKnows
  BY DEF SessionInv, InTouch, Placed, Idle, Asked, Served, Answered, Knows, Owned, UserKnows
<1> QED BY <1>1, SessionInvHolds, PTL

\* While every datagram has reached the one it was for, what a script reports of
\* its request ("OPERATION COMPLETED SUCCESSFULLY!") is what the FPGA has done.
THEOREM SuccessAlwaysTruthful ==
    Spec => SuccessTruthful
<1> DEFINE Says(p) ==
      LET r == Head(wire[p])
      IN  Taken(p) /\ ~astray /\ r.ack = "ACK" =>
            /\ r.type = cmd[p].type
            /\ r.type = "OPEN" => owner[r.qpn] = p
            /\ r.type = "CLOSE" => r.qpn = cmd[p].qpn /\ owner[r.qpn] # p
<1>1. ASSUME SessionInv, NEW p \in CLIENTS PROVE Says(p)
  <2>1. SUFFICES ASSUME Taken(p), ~astray PROVE Says(p) OBVIOUS
  <2>2. Answered(p)
    BY <1>1, <2>1 DEF SessionInv, InTouch, Placed, Idle, Asked, Served, Taken
  <2> QED BY <2>2 DEF Answered, Truthful
<1>2. SessionInv => [\A p \in CLIENTS : Says(p)]_sessionVars BY <1>1
<1> QED BY <1>2, SessionInvHolds, PTL DEF SuccessTruthful

=============================================================================
