---------------------------- MODULE QpLifecycle -----------------------------
(***************************************************************************)
(* What the control plane promises about every queue pair, whatever clock  *)
(* and FIFO its parts live on: a number is granted, becomes the connection *)
(* of one client, may fail, is taken down and is free again, in this order,*)
(* and the connection manager has at most one number in its hands.         *)
(***************************************************************************)
EXTENDS CmParams

VARIABLES
    life,     \* free -> granted -> open (-> failed) -> closing -> free
    owner     \* the client of an open or failed queue pair

lifeVars == <<life, owner>>

LifeInit == life = [q \in QPNs |-> "free"] /\ owner = [q \in QPNs |-> NoClient]

InHand == {q \in QPNs : life[q] \in {"granted", "closing"}}

Grant(q) ==
    /\ life[q] = "free" /\ InHand = {}
    /\ life' = [life EXCEPT ![q] = "granted"] /\ UNCHANGED owner

Establish(q, c) ==
    /\ life[q] = "granted"
    /\ life' = [life EXCEPT ![q] = "open"] /\ owner' = [owner EXCEPT ![q] = c]

FailQp(q) ==
    /\ life[q] = "open"
    /\ life' = [life EXCEPT ![q] = "failed"] /\ UNCHANGED owner

TakeDown(q) ==
    /\ life[q] \in {"open", "failed"} /\ InHand = {}
    /\ life' = [life EXCEPT ![q] = "closing"] /\ owner' = [owner EXCEPT ![q] = NoClient]

Return(q) ==
    /\ life[q] = "closing"
    /\ life' = [life EXCEPT ![q] = "free"] /\ UNCHANGED owner

LifeNext ==
    \E q \in {n \in QPNs : life'[n] # life[n]} :
                    \/ Grant(q) \/ FailQp(q) \/ TakeDown(q) \/ Return(q)
                    \/ \E c \in CLIENTS : Establish(q, c)

LifeSpec == LifeInit /\ [][LifeNext]_lifeVars

=============================================================================
