--------------------------- MODULE RequestLedger ----------------------------
(***************************************************************************)
(* What the request counters of Stats promise to whoever reads them: every *)
(* request is counted once when it has been read and once more when it is  *)
(* decided, as proxied, relayed or rejected, and a bounded number of them  *)
(* is between the two.  StreamServer implements it; Dashboard reads it.    *)
(***************************************************************************)
EXTENDS Naturals

CONSTANT MaxUndecided  \* requests that can be between the two counts

VARIABLES total, proxied, relayed, rejected, undecided

Init ==
    /\ total = 0 /\ proxied = 0 /\ relayed = 0 /\ rejected = 0
    /\ undecided = 0

Count ==
    /\ undecided < MaxUndecided
    /\ total' = total + 1
    /\ undecided' = undecided + 1
    /\ UNCHANGED <<proxied, relayed, rejected>>

Decide ==
    /\ undecided > 0
    /\ undecided' = undecided - 1
    /\ \/ proxied' = proxied + 1 /\ UNCHANGED <<relayed, rejected>>
       \/ relayed' = relayed + 1 /\ UNCHANGED <<proxied, rejected>>
       \/ rejected' = rejected + 1 /\ UNCHANGED <<proxied, relayed>>
    /\ UNCHANGED total

Next == Count \/ Decide

Spec == Init /\ [][Next]_<<total, proxied, relayed, rejected, undecided>>
=============================================================================
