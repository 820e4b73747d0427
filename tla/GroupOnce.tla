------------------------------ MODULE GroupOnce ------------------------------
(***************************************************************************)
(* What the grouping of expenses promises, whoever groups them: imports,   *)
(* changes of a report, skip rules and changes of fund source come down to *)
(* one step, Regroup. An expense is in one export at a time. Exports that  *)
(* Sage has no document for come, go and change. One that it has a         *)
(* document for gets no further expense and keeps at least one, until the  *)
(* document is turned down or, for good, accepted.                         *)
(***************************************************************************)
CONSTANTS Exports, Expenses

VARIABLES
    of,     \* of[r]: the expenses of export r, none when there is no such export
    sent,   \* exports that Sage has a document for
    done    \* those whose document it has accepted

InOne(f) == \A r, q \in Exports : r = q \/ f[r] \cap f[q] = {}

Init ==
    /\ of \in [Exports -> SUBSET Expenses]
    /\ InOne(of)
    /\ sent = {} /\ done = {}

Regroup ==
    /\ of' # of
    /\ of' \in [Exports -> SUBSET Expenses]
    /\ InOne(of')
    /\ \A r \in sent : of'[r] \subseteq of[r] /\ of'[r] # {}
    /\ UNCHANGED <<sent, done>>

Send(r) ==
    /\ r \notin sent
    /\ of[r] # {}
    /\ sent' = sent \cup {r}
    /\ UNCHANGED <<of, done>>

TurnDown(r) ==
    /\ r \in sent \ done
    /\ sent' = sent \ {r}
    /\ UNCHANGED <<of, done>>

Accept(r) ==
    /\ r \in sent
    /\ done' = done \cup {r}
    /\ UNCHANGED <<of, sent>>

Next == Regroup \/ \E r \in Exports : Send(r) \/ TurnDown(r) \/ Accept(r)

Spec == Init /\ [][Next]_<<of, sent, done>>
=============================================================================
