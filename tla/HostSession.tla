---------------------------- MODULE HostSession -----------------------------
(***************************************************************************)
(* send_connection_info.py and the control part of Decode_tap_data.py: the *)
(* scripts that open, modify and close queue pairs of the FPGA over UDP.   *)
(* Every command sends its request from one socket, and only then creates  *)
(* and binds the socket on which it waits, without a timeout, for whatever *)
(* comes first.  The FPGA is the life cycle of QpLifecycle, driven by the  *)
(* requests: it serves one at a time, ignores what arrives meanwhile,      *)
(* answers a refused OPEN or CLOSE with the number, type and address of the*)
(* reply before it, and may drop the request that it has taken.            *)
(*                                                                         *)
(* A client is a PC with its IP address; on each, one script runs at a     *)
(* time.  Datagrams keep their order and may be lost.                      *)
(***************************************************************************)
EXTENDS QpLifecycle

CONSTANTS
    MAX_COMMANDS,    \* scripts started, on all PCs together
    MAX_LOSSES       \* datagrams the network loses

ASSUME SessionAssumption == MAX_COMMANDS \in Nat /\ MAX_LOSSES \in Nat

VARIABLES
    pc,        \* of each PC's script: ready, sent (not bound yet), waiting
    cmd,       \* the request it sent last
    tap,       \* it is Decode_tap_data, else send_connection_info
    mine,      \* numbers its user has been told to be open for the PC
    inbox,     \* requests on their way to the FPGA
    serving,   \* the request the connection manager is at, else NoReq
    info,      \* its last reply
    wire,      \* replies on their way to each PC
    gone,      \* the answer to the PC's last request will never reach it
    astray,    \* some request was not served, or some reply did not reach its client
    commands, losses

hostVars == <<pc, cmd, tap, mine, gone, commands>>
netVars  == <<inbox, wire, astray, losses>>
sessionVars == <<lifeVars, hostVars, netVars, serving, info>>

SessionInit ==
    /\ LifeInit
    /\ pc = [p \in CLIENTS |-> "ready"] /\ cmd = [p \in CLIENTS |-> NoReq]
    /\ tap = [p \in CLIENTS |-> FALSE] /\ mine = [p \in CLIENTS |-> {}]
    /\ inbox = <<>> /\ serving = NoReq
    /\ info = [type |-> "NULL", qpn |-> 0, ack |-> "NULL", to |-> NoClient]
    /\ wire = [p \in CLIENTS |-> <<>>]
    /\ gone = [p \in CLIENTS |-> FALSE] /\ astray = FALSE
    /\ commands = 0 /\ losses = 0

-----------------------------------------------------------------------------
(* The scripts.                                                            *)

\* sock.sendto(): the request is out, and nothing listens for the reply yet.
Sendto(p, type, q) ==
    LET r == [type |-> type, qpn |-> q, from |-> p]
    IN  /\ pc' = [pc EXCEPT ![p] = "sent"] /\ cmd' = [cmd EXCEPT ![p] = r]
        /\ inbox' = Append(inbox, r)
        /\ gone' = [gone EXCEPT ![p] = FALSE]

Start(p, isTap) ==
    /\ pc[p] = "ready" /\ commands < MAX_COMMANDS
    /\ commands' = commands + 1 /\ tap' = [tap EXCEPT ![p] = isTap]
    /\ UNCHANGED <<lifeVars, mine, wire, astray, losses, serving, info>>

request_qp_info(p) == \E isTap \in BOOLEAN : Start(p, isTap) /\ Sendto(p, "OPEN", BadQpn)

\* The user of send_connection_info passes a number that a reply has shown, or none:
\* the default, 0x11, is out of range.
Passed(p) == mine[p] \cup {BadQpn}
modify_qp_rts(p) == \E q \in Passed(p) : Start(p, FALSE) /\ Sendto(p, "MODIFY_RTS", q)
close_rem_qp(p)  == \E q \in Passed(p) : Start(p, FALSE) /\ Sendto(p, "CLOSE", q)

\* Starts a transfer on the FPGA.  Nobody answers, and the script ends at once.
send_txmeta(p) ==
    \E q \in mine[p] :
        /\ Start(p, FALSE)
        /\ inbox' = Append(inbox, [type |-> "TXMETA", qpn |-> q, from |-> p])
        /\ UNCHANGED <<pc, cmd, gone>>

Bind(p) ==
    /\ pc[p] = "sent"
    /\ pc' = [pc EXCEPT ![p] = "waiting"]
    /\ UNCHANGED <<lifeVars, cmd, tap, mine, gone, commands, netVars, serving, info>>

\* decode_udp_packet prints what it gets and returns the number in it, whatever
\* the ack code.  The user notes what an ACK says.
decode_udp_packet(p, reply) ==
    mine' = [mine EXCEPT ![p] = IF reply.ack # "ACK" THEN @
                                ELSE IF reply.type = "OPEN" THEN @ \cup {reply.qpn}
                                ELSE IF reply.type = "CLOSE" THEN @ \ {reply.qpn} ELSE @]

\* The script ends, and its variables with it.
Ends(p) ==
    /\ pc' = [pc EXCEPT ![p] = "ready"] /\ cmd' = [cmd EXCEPT ![p] = NoReq]
    /\ tap' = [tap EXCEPT ![p] = FALSE] /\ gone' = [gone EXCEPT ![p] = FALSE]

\* Decode_tap_data goes on from OPEN to MODIFY with the number it was given; then
\* send_txmeta has no parameter freq, and the script dies of the TypeError before
\* it captures or closes anything.
NextStep(p, reply) ==
    IF tap[p] /\ cmd[p].type = "OPEN" THEN Sendto(p, "MODIFY_RTS", reply.qpn) /\ UNCHANGED tap
    ELSE Ends(p) /\ UNCHANGED inbox

\* A reply reaches the PC: the waiting script takes it, and without one there is
\* no socket for it.
Deliver(p) ==
    /\ wire[p] # <<>>
    /\ wire' = [wire EXCEPT ![p] = Tail(@)]
    /\ IF pc[p] = "waiting"
       THEN /\ decode_udp_packet(p, Head(wire[p])) /\ NextStep(p, Head(wire[p]))
            /\ UNCHANGED astray
       ELSE /\ gone' = [gone EXCEPT ![p] = pc[p] = "sent"] /\ astray' = TRUE
            /\ UNCHANGED <<pc, cmd, tap, mine, inbox>>
    /\ UNCHANGED <<lifeVars, commands, losses, serving, info>>

\* The user ends a script that no reply will reach any more.
Interrupt(p) ==
    /\ pc[p] = "waiting" /\ gone[p] /\ wire[p] = <<>>
    /\ Ends(p)
    /\ UNCHANGED <<lifeVars, mine, commands, netVars, serving, info>>

-----------------------------------------------------------------------------
(* The FPGA.                                                               *)

Reply(r) ==
    /\ info' = r /\ wire' = [wire EXCEPT ![r.to] = Append(@, r)] /\ UNCHANGED hostVars
    /\ UNCHANGED losses

FreeNumbers == {q \in QPNs : life[q] = "free"}

\* A request that finds the connection manager busy is ignored.
Ignore(r) ==
    /\ serving # NoReq /\ r.type # "TXMETA"
    /\ gone' = [gone EXCEPT ![r.from] = TRUE] /\ astray' = TRUE
    /\ UNCHANGED <<lifeVars, pc, cmd, tap, mine, commands, serving, info, wire, losses>>

TakeOpen(r) ==
    /\ serving = NoReq /\ r.type = "OPEN"
    /\ \E q \in FreeNumbers : Grant(q) /\ serving' = [r EXCEPT !.qpn = q]
    /\ UNCHANGED <<hostVars, info, wire, astray, losses>>

\* The refusal of an OPEN that finds no number, or of a CLOSE out of range, goes out
\* with everything but the ack code as in the reply before it: to that client, or,
\* with no reply before, nowhere.
Refuse(r) ==
    /\ serving = NoReq
    /\ \/ r.type = "OPEN" /\ FreeNumbers = {} /\ info' = [info EXCEPT !.ack = "NO_QP"]
       \/ r.type = "CLOSE" /\ r.qpn = BadQpn /\ info' = [info EXCEPT !.ack = "NAK"]
    /\ wire' = [wire EXCEPT ![info.to] = Append(@, info')]
    /\ gone' = IF info.to = r.from THEN gone ELSE [gone EXCEPT ![r.from] = TRUE]
    /\ astray' = (astray \/ info.to # r.from)
    /\ UNCHANGED <<lifeVars, pc, cmd, tap, mine, commands, serving, losses>>

TakeOther(r) ==
    /\ serving = NoReq
    /\ r.type = "MODIFY_RTS" \/ (r.type = "CLOSE" /\ r.qpn # BadQpn)
    /\ serving' = r
    /\ UNCHANGED <<lifeVars, hostVars, info, wire, astray, losses>>

\* Its QP_info_valid is 0, so the receiver shows it to the traffic generators only,
\* whatever the connection manager is at.
TakeMeta(r) ==
    /\ r.type = "TXMETA"
    /\ UNCHANGED <<lifeVars, hostVars, serving, info, wire, astray, losses>>

Arrive ==
    /\ inbox # <<>> /\ inbox' = Tail(inbox)
    /\ LET r == Head(inbox)
       IN  Ignore(r) \/ TakeOpen(r) \/ Refuse(r) \/ TakeOther(r) \/ TakeMeta(r)

\* Mutation: the reply goes where the reply before it went.
AnswerPrevious(ack) ==
    /\ serving' = NoReq
    /\ Reply([type |-> serving.type, qpn |-> serving.qpn, ack |-> ack,
              to |-> IF info.to = NoClient THEN serving.from ELSE info.to])
    /\ UNCHANGED <<inbox, astray>>

Answer(ack) ==
    /\ serving' = NoReq
    /\ Reply([type |-> serving.type, qpn |-> serving.qpn, ack |-> ack, to |-> serving.from])
    /\ UNCHANGED <<inbox, astray>>

\* Mutations: the parameters are stored for the peer of the reply before; a
\* MODIFY that is refused is not answered.
FinishOpenOldPeer ==
    /\ serving.type = "OPEN" /\ Answer("ACK")
    /\ Establish(serving.qpn, IF info.to = NoClient THEN serving.from ELSE info.to)
FinishModifySilent ==
    /\ serving.type = "MODIFY_RTS" /\ serving' = NoReq
    /\ UNCHANGED <<lifeVars, hostVars, netVars, info>>

\* OPEN makes the queue pair ready by itself, so a MODIFY is refused.
FinishOpen   == serving.type = "OPEN" /\ Establish(serving.qpn, serving.from) /\ Answer("ACK")
FinishModify ==
    /\ serving.type = "MODIFY_RTS" /\ serving.qpn # BadQpn
    /\ Answer("ERROR") /\ UNCHANGED lifeVars

BeginClose ==
    /\ serving.type = "CLOSE" /\ TakeDown(serving.qpn)
    /\ UNCHANGED <<hostVars, netVars, serving, info>>
FinishClose ==
    /\ serving.type = "CLOSE"
    /\ \/ Return(serving.qpn) /\ Answer("ACK")
       \/ life[serving.qpn] = "free" /\ Answer("ERROR") /\ UNCHANGED lifeVars

\* The QP state module has no status for a number out of range, nor for a request in
\* whose clock a fault or an update of some connection comes.  The connection manager
\* waits for one for ever, deaf to every request.
Drop ==
    /\ serving.type \in {"OPEN", "MODIFY_RTS", "CLOSE"}
    /\ \/ serving.qpn = BadQpn
       \/ /\ serving.qpn \in QPNs /\ life[serving.qpn] # "closing"
          /\ \E q \in QPNs : life[q] \in {"open", "failed"}
    /\ serving' = [serving EXCEPT !.type = "DROPPED"]
    /\ gone' = [gone EXCEPT ![serving.from] = TRUE] /\ astray' = TRUE
    /\ UNCHANGED <<lifeVars, pc, cmd, tap, mine, commands, info, inbox, wire, losses>>

Serve == FinishOpen \/ FinishModify \/ BeginClose \/ FinishClose \/ Drop

\* A fatal NAK or an engine close.
Fault ==
    /\ \E q \in QPNs : FailQp(q)
    /\ UNCHANGED <<hostVars, netVars, serving, info>>

-----------------------------------------------------------------------------
(* The network.                                                            *)

LoseRequest ==
    /\ inbox # <<>> /\ inbox' = Tail(inbox)
    /\ gone' = [gone EXCEPT ![Head(inbox).from] = @ \/ Head(inbox).type # "TXMETA"]
    /\ UNCHANGED wire

LoseReply(p) ==
    /\ wire[p] # <<>> /\ wire' = [wire EXCEPT ![p] = Tail(@)]
    /\ gone' = [gone EXCEPT ![p] = TRUE] /\ UNCHANGED inbox

Lose ==
    /\ losses < MAX_LOSSES /\ losses' = losses + 1
    /\ LoseRequest \/ \E p \in CLIENTS : LoseReply(p)
    /\ astray' = TRUE
    /\ UNCHANGED <<lifeVars, pc, cmd, tap, mine, commands, serving, info>>

Script(p) == request_qp_info(p) \/ modify_qp_rts(p) \/ close_rem_qp(p) \/ send_txmeta(p)

SessionNext ==
    \/ \E p \in CLIENTS : Script(p) \/ Bind(p) \/ Deliver(p) \/ Interrupt(p)
    \/ Arrive \/ Serve \/ Fault \/ Lose

\* What is sent arrives unless it is lost, the FPGA serves, and a script that runs
\* goes on; nobody has to start or interrupt one.
SessionFairness ==
    /\ WF_sessionVars(Arrive) /\ WF_sessionVars(Serve)
    /\ \A p \in CLIENTS : WF_sessionVars(Bind(p)) /\ WF_sessionVars(Deliver(p))

-----------------------------------------------------------------------------
(* Properties.                                                             *)

\* A waiting script takes a reply.
Taken(p) == pc[p] = "waiting" /\ pc'[p] # "waiting" /\ wire[p] # <<>>

\* While every datagram has reached the one it was for, a script that prints
\* "OPERATION COMPLETED SUCCESSFULLY!" says so of its own request: the queue pair
\* it opened belongs to the PC, the one it closed no longer does.
SuccessTruthful ==
    [][\A p \in CLIENTS :
         LET r == Head(wire[p])
         IN  Taken(p) /\ ~astray /\ r.ack = "ACK" =>
               /\ r.type = cmd[p].type
               /\ r.type = "OPEN" => owner[r.qpn] = p
               /\ r.type = "CLOSE" => r.qpn = cmd[p].qpn /\ owner[r.qpn] # p]_sessionVars

\* While every datagram has reached the one it was for, no queue pair is open
\* behind its user's back: an idle PC has been told of every one it owns, and owns
\* every one it has been told of.
UserKnows ==
    \A p \in CLIENTS : ~astray /\ pc[p] = "ready" =>
        mine[p] = {q \in QPNs : owner[q] = p}

\* A script blocks for ever only if its request was lost, ignored or dropped, or its
\* reply was lost, misdirected, or came before the socket was bound.
ScriptEnds == \A p \in CLIENTS : pc[p] = "waiting" ~> (pc[p] = "ready" \/ gone[p])

=============================================================================
