---------------------------- MODULE HostScripts -----------------------------
(***************************************************************************)
(* The scripts of the repository: a session that controls queue pairs over *)
(* UDP, or a capture that is judged.  The two share no state: the script   *)
(* that was to do both ends before its capture begins (see HostSession).   *)
(***************************************************************************)
EXTENDS HostSession, TapStream

VARIABLE tool

vars == <<sessionVars, tapVars, tool>>

NoMessage == [kind |-> "WRITE", start |-> 1, packets |-> 1, tail |-> 4]

Init ==
    /\ SessionInit
    /\ \/ tool = "capture" /\ CaptureInit
       \/ /\ tool = "session" /\ msg = NoMessage
          /\ cursor = 1 /\ stream = <<>> /\ ended = "no" /\ faults = 0

Next ==
    \/ tool = "session" /\ SessionNext /\ UNCHANGED <<tapVars, tool>>
    \/ tool = "capture" /\ CaptureNext /\ UNCHANGED <<sessionVars, tool>>

Spec == Init /\ [][Next]_vars /\ SessionFairness

=============================================================================
