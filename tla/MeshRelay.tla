----------------------------- MODULE MeshRelay ------------------------------
(***************************************************************************)
(* One HTTP-type request on its way through the mesh: Handler::            *)
(* handle_stream, relay and forward_to on every provider it reaches, with  *)
(* the peer store they look candidates up in and the answers of            *)
(* ProxyEngine (execute, reject_body, finalize).  Requests share only the  *)
(* peer stores and the rate limiters, whose verdict is a choice here, so   *)
(* one request is followed at a time.  WebSocket packets are in WsTunnel.  *)
(*                                                                         *)
(* A hop is one activation of handle_stream; hop 1 serves the client and   *)
(* hop h > 1 serves the hop pkt[h].up.  Nodes are numbers because sled     *)
(* iterates peers.dat in key order and relay() tries peers in that order.  *)
(*                                                                         *)
(* A handler that returns Err drops its SendStream, which the QUIC library *)
(* finishes: the reader at the other end sees a stream that ends after no  *)
(* bytes, and no error.                                                    *)
(***************************************************************************)
EXTENDS Integers, FiniteSets

CONSTANTS Node,       \* providers, ordered by node id
          Name,       \* endpoint names
          Endpoints,  \* the names each provider's config.yaml serves
          Manifests,  \* endpoint lists that have ever verified as each provider's
          MaxTTL,     \* largest ttl a client sends (u8 in the code)
          MaxLost     \* bound on answers lost between two providers

ASSUME NodeAssumption == Node \subseteq Nat /\ IsFiniteSet(Node)
ASSUME EndpointsAssumption ==
    /\ Endpoints \in [Node -> SUBSET Name]
    /\ Manifests \in [Node -> SUBSET SUBSET Name]
ASSUME BoundAssumption == MaxTTL \in 0..255 /\ MaxLost \in Nat

VARIABLES peers,   \* peers.dat of each provider: node id -> endpoints of its manifest
          target,  \* target_provider of the request
          used,    \* the number of hops so far; hops are 1..used
          pkt,     \* the packet of each hop and where it was sent
          pc,      \* phase of each hop's handler
          cands,   \* candidates each hop's relay() has still to try
          resp,    \* what each finished handler wrote to its stream
          live,    \* hops whose answer somebody still waits for
          lost,    \* answers lost
          execs    \* calls made to upstreams

vars == <<peers, target, used, pkt, pc, cands, resp, live, lost, execs>>

Hop == 1..used
Packet == [node: Node, up: Nat, ttl: 0..255]

\* Bodies.  finalize() signs status and body; nothing else writes a body.
Signed == [kind: {"signed"}, signer: Node, status: {200, 429, 502},
           body: {"whole", "none", "error"}, relayed: BOOLEAN]
Unsigned == [kind: {"pending", "failed", "empty"}]
IsSigned(r) == r.kind = "signed"

\* Every hop has its type; the u8 TTL of a packet is never decremented below zero.
TypeOK ==
    /\ DOMAIN peers = Node
    /\ \A n \in Node : DOMAIN peers[n] \subseteq Node
    /\ target \in Name
    /\ used \in Nat /\ lost \in Nat /\ execs \in Nat
    /\ pkt \in [Hop -> Packet]
    /\ pc \in [Hop -> {"deciding", "executing", "relaying", "waiting", "done"}]
    /\ cands \in [Hop -> SUBSET Node]
    /\ resp \in [Hop -> Signed \cup Unsigned]
    /\ live \subseteq Hop

----------------------------------------------------------------------------
(* ProxyEngine and PeerStore                                               *)

Serves(n) == target \in Endpoints[n]

\* An upstream answers, breaks off its body (unwrap_or_default), or does not
\* answer in 5 s (502).  execute() is always called with relayed = false.
Executions(n) ==
    {r \in Signed :
        /\ r.signer = n /\ r.relayed = FALSE
        /\ \/ r.status = 200 /\ r.body \in {"whole", "none"}
           \/ r.status = 502 /\ r.body = "error"}

RejectBody(n) ==
    [kind |-> "signed", signer |-> n, status |-> 429, body |-> "error", relayed |-> FALSE]

ProvidersOf(n) == {m \in DOMAIN peers[n] : m # n /\ target \in peers[n][m]}

Others(n) == {m \in DOMAIN peers[n] : m # n}

\* Peers that advertise the target; any peer if there is none.
Candidates(n) == IF ProvidersOf(n) # {} THEN ProvidersOf(n) ELSE Others(n)

IsFirst(c, S) == c \in S /\ \A d \in S : c <= d

\* What the sender of a finished hop reads from the stream.
Body(r) == IF r.kind = "failed" THEN [kind |-> "empty"] ELSE r

----------------------------------------------------------------------------
Extend(f, x) == [h \in 1..(used + 1) |-> IF h = used + 1 THEN x ELSE f[h]]

\* A new hop at node n begins with the packet sent by hop `up`.
Arrive(n, up, ttl) ==
    /\ used' = used + 1
    /\ pkt' = Extend(pkt, [node |-> n, up |-> up, ttl |-> ttl])
    /\ resp' = Extend(resp, [kind |-> "pending"])

Finish(h, r) ==
    /\ pc' = [pc EXCEPT ![h] = "done"]
    /\ resp' = [resp EXCEPT ![h] = r]

Init ==
    /\ peers = [n \in Node |-> [m \in {} |-> {}]]
    /\ target \in Name
    /\ used = 0
    /\ pkt = <<>> /\ pc = <<>> /\ cands = <<>> /\ resp = <<>>
    /\ live = {}
    /\ lost = 0 /\ execs = 0

\* listen_announces() stores a manifest whose signature is good, whatever its age; the
\* store's own node's manifest included.
Upsert(n, m, E) ==
    /\ peers' = [peers EXCEPT ![n] =
                   [k \in DOMAIN peers[n] \cup {m} |-> IF k = m THEN E ELSE peers[n][k]]]
    /\ UNCHANGED <<target, used, pkt, pc, cands, resp, live, lost, execs>>

\* The client sends its packet to provider n.
Request(n, ttl) ==
    /\ used = 0
    /\ Arrive(n, 0, ttl)
    /\ pc' = Extend(pc, "deciding")
    /\ cands' = Extend(cands, {})
    /\ live' = {1}
    /\ UNCHANGED <<peers, target, lost, execs>>

----------------------------------------------------------------------------
(* handle_stream                                                           *)

\* The rate limiter refuses the sender.
Reject(h) ==
    /\ pc[h] = "deciding"
    /\ Finish(h, RejectBody(pkt[h].node))
    /\ UNCHANGED <<peers, target, used, pkt, cands, live, lost, execs>>

\* Our target: the request goes to the upstream.
Execute(h) ==
    /\ pc[h] = "deciding"
    /\ Serves(pkt[h].node)
    /\ pc' = [pc EXCEPT ![h] = "executing"]
    /\ execs' = execs + 1
    /\ UNCHANGED <<peers, target, used, pkt, cands, resp, live, lost>>

Executed(h, r) ==
    /\ pc[h] = "executing"
    /\ r \in Executions(pkt[h].node)
    /\ Finish(h, r)
    /\ UNCHANGED <<peers, target, used, pkt, cands, live, lost, execs>>

MutDropFirst(h) ==
    /\ pc[h] = "deciding"
    /\ pkt[h].ttl = 0 \/ Candidates(pkt[h].node) = {}
    /\ Finish(h, [kind |-> "failed"])
    /\ UNCHANGED <<peers, target, used, pkt, cands, live, lost, execs>>

\* relay(): the TTL has run out, or no other peer is known.
Drop(h) ==
    /\ pc[h] = "deciding"
    /\ ~Serves(pkt[h].node)
    /\ pkt[h].ttl = 0 \/ Candidates(pkt[h].node) = {}
    /\ Finish(h, [kind |-> "failed"])
    /\ UNCHANGED <<peers, target, used, pkt, cands, live, lost, execs>>

MutStartRelayNoTTL(h) ==
    /\ pc[h] = "deciding"
    /\ ~Serves(pkt[h].node)
    /\ Candidates(pkt[h].node) # {}
    /\ pc' = [pc EXCEPT ![h] = "relaying"]
    /\ cands' = [cands EXCEPT ![h] = Candidates(pkt[h].node)]
    /\ UNCHANGED <<peers, target, used, pkt, resp, live, lost, execs>>

\* relay(): the candidates are looked up once.
StartRelay(h) ==
    /\ pc[h] = "deciding"
    /\ ~Serves(pkt[h].node)
    /\ pkt[h].ttl > 0
    /\ Candidates(pkt[h].node) # {}
    /\ pc' = [pc EXCEPT ![h] = "relaying"]
    /\ cands' = [cands EXCEPT ![h] = Candidates(pkt[h].node)]
    /\ UNCHANGED <<peers, target, used, pkt, resp, live, lost, execs>>

----------------------------------------------------------------------------
(* relay's loop over the candidates, and forward_to                        *)

\* The peer cannot be reached, or the packet cannot be written.
ConnectFails(h) ==
    /\ pc[h] = "relaying"
    /\ \E c \in cands[h] :
        /\ IsFirst(c, cands[h])
        /\ cands' = [cands EXCEPT ![h] = @ \ {c}]
    /\ UNCHANGED <<peers, target, used, pkt, pc, resp, live, lost, execs>>

MutForwardKeepsTTL(h) ==
    /\ pc[h] = "relaying"
    /\ \E c \in cands[h] :
        /\ IsFirst(c, cands[h])
        /\ Arrive(c, h, pkt[h].ttl)
        /\ cands' = Extend([cands EXCEPT ![h] = @ \ {c}], {})
    /\ pc' = Extend([pc EXCEPT ![h] = "waiting"], "deciding")
    /\ live' = live \cup {used + 1}
    /\ UNCHANGED <<peers, target, lost, execs>>

\* The packet, with one hop less to live, reaches the peer.
Forward(h) ==
    /\ pc[h] = "relaying"
    /\ \E c \in cands[h] :
        /\ IsFirst(c, cands[h])
        /\ Arrive(c, h, pkt[h].ttl - 1)
        /\ cands' = Extend([cands EXCEPT ![h] = @ \ {c}], {})
    /\ pc' = Extend([pc EXCEPT ![h] = "waiting"], "deciding")
    /\ live' = live \cup {used + 1}
    /\ UNCHANGED <<peers, target, lost, execs>>

MutKeepAsking(h, u) ==
    /\ pc[h] = "waiting"
    /\ u \in live /\ pkt[u].up = h /\ pc[u] = "done"
    /\ IF cands[h] = {}
       THEN Finish(h, Body(resp[u]))
       ELSE pc' = [pc EXCEPT ![h] = "relaying"] /\ resp' = resp
    /\ live' = live \ {u}
    /\ UNCHANGED <<peers, target, used, pkt, cands, lost, execs>>

MutResign(h, u) ==
    /\ pc[h] = "waiting"
    /\ u \in live /\ pkt[u].up = h /\ pc[u] = "done"
    /\ Finish(h, IF IsSigned(resp[u]) THEN [resp[u] EXCEPT !.signer = pkt[h].node] ELSE Body(resp[u]))
    /\ live' = live \ {u}
    /\ UNCHANGED <<peers, target, used, pkt, cands, lost, execs>>

\* read_to_end() returns the peer's body, which is the answer as it stands.
TakeAnswer(h, u) ==
    /\ pc[h] = "waiting"
    /\ u \in live /\ pkt[u].up = h /\ pc[u] = "done"
    /\ Finish(h, Body(resp[u]))
    /\ live' = live \ {u}
    /\ UNCHANGED <<peers, target, used, pkt, cands, lost, execs>>

\* The connection is lost or the body exceeds MAX_FRAME: the loop goes on to
\* the next candidate, while the peer goes on with its copy of the request.
LoseAnswer(h, u) ==
    /\ pc[h] = "waiting"
    /\ lost < MaxLost
    /\ u \in live /\ pkt[u].up = h
    /\ pc' = [pc EXCEPT ![h] = "relaying"]
    /\ live' = live \ {u}
    /\ lost' = lost + 1
    /\ UNCHANGED <<peers, target, used, pkt, cands, resp, execs>>

MutExhaustedSpins(h) ==
    /\ pc[h] = "relaying"
    /\ cands[h] = {}
    /\ cands' = [cands EXCEPT ![h] = Candidates(pkt[h].node)]
    /\ UNCHANGED <<peers, target, used, pkt, pc, resp, live, lost, execs>>

\* Every candidate has failed.
Exhausted(h) ==
    /\ pc[h] = "relaying"
    /\ cands[h] = {}
    /\ Finish(h, [kind |-> "failed"])
    /\ UNCHANGED <<peers, target, used, pkt, cands, live, lost, execs>>

HopStep(h) ==
    \/ Reject(h)
    \/ Execute(h)
    \/ \E r \in Signed : Executed(h, r)
    \/ Drop(h)
    \/ StartRelay(h)
    \/ ConnectFails(h)
    \/ Forward(h)
    \/ \E u \in Hop : TakeAnswer(h, u)
    \/ \E u \in Hop : LoseAnswer(h, u)
    \/ Exhausted(h)

Next ==
    \/ \E n \in Node, m \in Node : \E E \in Manifests[m] : Upsert(n, m, E)
    \/ \E n \in Node, ttl \in 0..MaxTTL : Request(n, ttl)
    \/ \E h \in Hop : HopStep(h)

Spec == Init /\ [][Next]_vars

\* Every handler is a task that tokio polls; connecting ends by success or by
\* the QUIC timeout, execute() by its 5 s timeout.  An answer that never comes
\* would be a lost one, so waiting for a finished peer ends as well.
Fairness == WF_vars(\E h \in Hop : HopStep(h))

FairSpec == Spec /\ Fairness

----------------------------------------------------------------------------
(* Properties                                                              *)

\* A retry repeats what may already have been done, and only a retry does: the
\* upstreams are called at most once more than answers were lost.
ExecutedOnceUnlessLost == execs <= 1 + lost

\* A request causes at most TTL forwards, and TTL more for every lost answer, also when
\* it bounces between providers that know only each other: the fallback to "any peer",
\* the flood of peers.rs:90, relays along one chain at a time.
ForwardBudget ==
    used > 0 => used - 1 <= pkt[1].ttl * (1 + lost)

\* A signed answer, however many hops it came through, is the one its signer made
\* for this request, and its signer refused the request or serves the target.
AnswersAreGenuine ==
    \A h \in Hop :
        IsSigned(resp[h]) =>
            \E g \in Hop :
                /\ g >= h
                /\ pkt[g].node = resp[h].signer
                /\ resp[g] = resp[h]
                /\ resp[h].status = 429 \/ Serves(pkt[g].node)

\* A provider answers a request for a target of its own with its own signature,
\* whatever the TTL and whatever peers it knows.
OwnTargetsSigned ==
    \A h \in Hop :
        pc[h] = "done" /\ Serves(pkt[h].node) =>
            IsSigned(resp[h]) /\ resp[h].signer = pkt[h].node

\* Whatever is lost or unreachable on the way, the client's stream ends.
Resolved == used > 0 ~> (used > 0 /\ pc[1] = "done")

\* README.md:30 and p2p_server.rs:766 promise that the executor's signature is
\* preserved across all hops: a body that relay() returns as the answer is signed.
SignaturePreserved == \A h \in Hop : resp[h].kind # "empty"
============================================================================
