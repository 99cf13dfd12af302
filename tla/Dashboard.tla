----------------------------- MODULE Dashboard ------------------------------
(***************************************************************************)
(* GET /status while everything else goes on: Stats::snapshot loads one    *)
(* atomic after the other, in the order below, while stream tasks count    *)
(* requests (RequestLedger, which StreamServer implements) and the tasks   *)
(* of Discovery move active_peers.                                         *)
(*                                                                         *)
(* All of these accesses are Ordering::Relaxed: a load may return any      *)
(* value its atomic has had so far, which also covers loads that the       *)
(* compiler or the processor moves past each other.  Where loads are       *)
(* executed in program order and see the newest value, as on x86-64, the   *)
(* snapshot is taken "in order", and more can be said of it.               *)
(***************************************************************************)
EXTENDS Discovery

CONSTANTS MaxUndecided,  \* requests between their two counts
          MaxRequests    \* bound on the requests

ASSUME LedgerAssumption == MaxUndecided \in Nat /\ MaxRequests \in Nat

VARIABLES total, proxied, relayed, rejected, undecided,  \* the ledger
          held,                                          \* values active_peers has had
          snap                                           \* the snapshot being taken

ledger == <<total, proxied, relayed, rejected, undecided>>
allVars == <<vars, ledger, held, snap>>

Ledger == INSTANCE RequestLedger

\* The fields in the order in which snapshot() loads them.
Fields == <<"total", "proxied", "relayed", "rejected", "peers">>
Loads == DOMAIN Fields

Now == [total |-> total, proxied |-> proxied, relayed |-> relayed, rejected |-> rejected,
        peers |-> gauge]

\* The values a Relaxed load may return.
Loadable(f) == IF f = "peers" THEN held ELSE 0..Now[f]

Idle == [next |-> 1, inOrder |-> TRUE, val |-> [f \in DOMAIN Now |-> 0]]

DashInit == Init /\ Ledger!Init /\ held = {gauge} /\ snap = Idle

MutLoad ==
    /\ snap.next \in Loads
    /\ LET f == Fields[Len(Fields) + 1 - snap.next] IN
         \E v \in Loadable(f) :
            snap' = [next |-> snap.next + 1, inOrder |-> snap.inOrder /\ v = Now[f],
                     val |-> [snap.val EXCEPT ![f] = v]]
    /\ UNCHANGED <<vars, ledger, held>>

Load ==
    /\ snap.next \in Loads
    /\ LET f == Fields[snap.next] IN
         \E v \in Loadable(f) :
            snap' = [next |-> snap.next + 1, inOrder |-> snap.inOrder /\ v = Now[f],
                     val |-> [snap.val EXCEPT ![f] = v]]
    /\ UNCHANGED <<vars, ledger, held>>

Served == snap.next \notin Loads

\* The JSON has been sent; the page polls again 3 s later.
Poll ==
    /\ Served
    /\ snap' = Idle
    /\ UNCHANGED <<vars, ledger, held>>

Requests == (total < MaxRequests /\ Ledger!Count) \/ Ledger!Decide

\* What a step of discovery leaves behind.
Beside == held' = held \cup {gauge'} /\ UNCHANGED <<ledger, snap>>

DashNext ==
    \/ Next /\ Beside
    \/ Requests /\ UNCHANGED <<vars, held, snap>>
    \/ Load
    \/ Poll

DashSpec == DashInit /\ [][DashNext]_allVars

\* The listener finishes what it has begun and the health task never stops; nothing is
\* assumed of gossip, of requests or of the page.
DashFairSpec ==
    /\ DashSpec
    /\ WF_allVars(ListenerStep /\ Beside)
    /\ WF_allVars(HealthStep /\ Beside)

----------------------------------------------------------------------------
\* The discovery state, the counters and the loaded fields keep their types.
DashTypeOK ==
    /\ TypeOK
    /\ total \in Nat /\ proxied \in Nat /\ relayed \in Nat /\ rejected \in Nat
    /\ undecided \in 0..MaxUndecided
    /\ held \subseteq 0..Cardinality(Peer)
    /\ snap.next \in 1..(Len(Fields) + 1) /\ snap.inOrder \in BOOLEAN
    /\ snap.val \in [DOMAIN Now -> Nat]

Verdicts == snap.val.proxied + snap.val.relayed + snap.val.rejected

\* A snapshot whose counters belong to different moments shows no more verdicts than there
\* have been requests and no more peers than peers.dat has, however old its values are.
\* If its loads were in order, which Ordering::Relaxed does not promise, it shows the
\* verdicts of all requests of its total except those that had none when that was loaded.
SnapshotLag ==
    Served => /\ Verdicts <= total
              /\ snap.val.peers <= ListLen
              /\ snap.inOrder => snap.val.total <= Verdicts + MaxUndecided
=============================================================================
