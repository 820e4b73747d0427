----------------------------- MODULE ExportOnce -----------------------------
(***************************************************************************)
(* What the export promises its user, without rows, queues and workers:    *)
(* an expense group reaches Sage 300 once. A document is posted for an     *)
(* export only while Sage holds no live document for it, Sage may turn a   *)
(* document down, an export is reported as exported only while its         *)
(* document is live, and for good.                                         *)
(***************************************************************************)
EXTENDS Naturals

CONSTANT Exports

VARIABLES
    live,       \* live[e]: number of documents of e that Sage works on or accepted
    reported    \* exports shown as COMPLETE

Init == live = [e \in Exports |-> 0] /\ reported = {}

Post(e) ==
    /\ live[e] = 0
    /\ e \notin reported
    /\ live' = [live EXCEPT ![e] = 1]
    /\ UNCHANGED reported

TurnDown(e) ==
    /\ live[e] = 1
    /\ e \notin reported
    /\ live' = [live EXCEPT ![e] = 0]
    /\ UNCHANGED reported

Report(e) ==
    /\ live[e] = 1
    /\ reported' = reported \cup {e}
    /\ UNCHANGED live

Next == \E e \in Exports : Post(e) \/ TurnDown(e) \/ Report(e)

Spec == Init /\ [][Next]_<<live, reported>>
=============================================================================
