# TLA+ model of netfory-provider

netfory-provider is a Rust daemon that serves local HTTP and WebSocket nodes to
clients over QUIC (`api://<NodeID>`), relays requests it cannot serve to other
providers, and learns of those through gossip. This directory holds TLA+ modules
that model it, the TLC configurations that check them on small instances,
and TLAPS proofs of the safety properties for every instance. `PROJECT.json`
maps every definition to the source lines it stands for. Paths below are relative
to the repository root.

## 1. Inventory

| Component | State | Operations | Interacts with |
|---|---|---|---|
| Rate limiter (`src/ratelimit.rs`) | map peer key -> (tokens, last), under a mutex | `allow` | called by every stream task and every WS reader, from all tokio threads |
| Stream server (`src/p2p_server.rs` `ApiProtocol`, `Handler::handle_stream`) | one semaphore per connection, one task per bi-stream | `accept`, `handle_stream`, `write_response` | limiter, counters, proxy, relay, tunnel |
| Statistics (`src/stats.rs`) | independent relaxed atomics, RPC table under a mutex | `inc_*`, `track_connection`/`ConnGuard`, `set_*`, `snapshot` | written by stream tasks, listener, health and DHT tasks; read by dashboard and announcer |
| Mesh relay (`Handler::relay`, `forward_to`) | the packet's TTL, the candidate list of each relay in progress | relay, forward, retry | peer store, other providers |
| Proxy engine (`src/proxy_engine.rs`) | endpoints by name | `resolve`, `execute`, `reject_body`, `finalize`, `health` | upstream HTTP nodes (5 s timeout) |
| Peer store (`src/peers.rs`) | sled database node id -> signed manifest | `upsert`, `list`, `providers_of`, `others` | listener writes; relay, dashboard, health and gossip bootstrap read |
| WebSocket tunnel (`Handler::handle_ws_stream`) | session future, tasks `client_to_up` and `pump`, channel of 128 | handshake, ACK, pump, abort, 24 h cap | client stream, upstream WS, limiter |
| Wire protocol (`src/protocol.rs`) | none | v1 handshake, `WsFrame` codec, `MeshPacket` | all of the above |
| Discovery (`spawn_discovery`, `listen_announces`) | none of its own | announce every >= 15 s, verify and store manifests | gossip, peer store, `active_peers` |
| Health check (`spawn_health`) | none of its own | probe upstreams every 30 s | RPC table, `active_peers` |
| Configuration (`src/config.rs`) | `config.yaml` | `load_or_init`, `save` | start-up only |
| Start-up (`p2p_server::run`, `src/main.rs`) | endpoint, services | relay-only/port choice, IPv6 fallback, spawning | everything |
| Identity (`src/crypto.rs`) | key material | derive, sign, verify | library cryptography |
| DHT bootstrap and monitor, dashboard | cache file, one gauge | resolve hosts, poll, serve JSON/HTML | telemetry |

What makes it hard:

- *Concurrency.* Stream tasks, tunnel tasks and background tasks share the limiter,
  the counters and the peer store. `allow` reads the clock before it takes the lock.
- *Failure.* Every `?` in `handle_stream` is an early return that must give the
  permit back. A lost connection does not cancel the tasks of its streams. A
  handler that fails ends its stream with no bytes, which the other side reads as
  an empty answer. A relay whose answer is lost asks the next peer.
- *Ordering.* A tunnel is two tasks and a bounded channel; either may be aborted
  while a message is on its way. Manifests arrive in any order and any age.
- *Time.* 5 s upstream timeout, 10 s connect timeout, 5 s send timeout, 24 h cap.

The properties each component owes, and the hazards they are aimed at, are the
subject of sections 3 and 5; `PROJECT.json` lists the hazards line by line.

## 2. Modules

| Module | Models | Proofs | TLC instance |
|---|---|---|---|
| `RateLimiter` | `RateLimiter::allow` | `RateLimiterProofs` | `MCRateLimiter` |
| `StreamServer` | `ApiProtocol::accept`, `handle_stream`, request counters, `ConnGuard` | `StreamServerProofs` | `MCStreamServer` |
| `MeshRelay` | `handle_stream` of every provider a request reaches, `relay`, `forward_to`, `providers_of`, `others`, `execute`, `reject_body` | `MeshRelayProofs` | `MCMeshRelay` |
| `WsTunnel` | `handle_ws_stream` with both tasks | `WsTunnelProofs` | `MCWsTunnel` |
| `WsFraming` | `read_handshake_v1`, `write_handshake_v1`, `WsFrame::encode`, `read_from`, the Close of `client_to_up`, byte by byte | `WsFramingProofs` | `MCWsFraming` |
| `Discovery` | `spawn_discovery`, `listen_announces`, `verify_manifest`, `PeerStore`, `spawn_health` | `DashboardProofs` | `MCDashboard` |
| `Dashboard` | `Stats::snapshot` behind `/status`; extends `Discovery`, reads `RequestLedger` | `DashboardProofs` | `MCDashboard` |
| `Startup` | `main`, `load_or_init`, `save`, `p2p_server::run`, the DHT cache | `StartupProofs` | `MCStartup` |
| `Pipe` | abstract: frames come out whole, in order, once | | a PROPERTY of `tunnel` and `framing` |
| `RequestLedger` | abstract: every request is counted, then decided once | | a PROPERTY of `server` |

Each component module leaves its neighbours as choices: `StreamServer` chooses the
limiter's verdict and what a packet asks for, `MeshRelay` the limiter's verdict and
which manifests gossip delivers, `WsTunnel` the limiter's verdict per frame. The
choices contain everything the neighbour can do, so safety carries over.

Three abstract views tie the modules together. `RequestLedger` is what the request
counters promise: `StreamServer` implements it (`CountersAreLedger`, with the tasks
between their two counts as `undecided`), and `Dashboard` composes it with `Discovery`
instead of dragging every stream task along. `Pipe` is what one direction of a tunnel
promises, and it is implemented twice: by the bytes (`WsFraming`, `CodecIsPipe`) and
by the tasks and the channel behind them (`WsTunnel`, `TunnelIsPipe`). `MeshRelay`'s
`Upsert` is what `Discovery` shows in detail: under each node id the stores hold only
values and names whose signed text this node has announced (`StoreIsGenuine`).

**RateLimiter.** `clock` counts ticks, `Sec` to the second; tokens are counted in
1/`Sec`ths, which makes `elapsed * cap` exact. `Call` is lines 29-34 (the early
return for rate 0, the clock read), `Locked` the critical section 35-49; between
them other threads run. `Instant::duration_since` saturates at zero (`Elapsed`).
`win` is a history variable: an observer may start at any time to count the
admissions of a peer at a set of limits. It also adds up how far `last` has been
set back. f64 rounding is not modelled.

**StreamServer.** `pc` is the phase of each stream's task: `queued` at the
semaphore, `reading`, `counted`, `rejecting`, `executing`, `relaying`, `writing`,
`tunnel`, `done`. `Release` is the drop of the permit, which is part of every action
that leaves `handle_stream`. `LoseConn` is the QUIC connection's loss; the tasks go
on and notice when they read or write. `HardCap` is the 24 h timeout of a tunnel: the
handler returns and gives back the permit, the tunnel's tasks are `detached`.

**MeshRelay.** One request at a time, as a tree of hops: hop 1 serves the client, a
forward adds a hop at the next provider. `pkt` holds each hop's provider, TTL and
sender; `cands` the candidates its `relay` has still to try, which it looked up
once; `resp` the body it wrote. Node ids are numbers because sled iterates in key
order and `relay` tries candidates in that order. `Upsert` may store any manifest that
has ever verified, the node's own included, in any store at any time: that covers late,
duplicated and reordered gossip. `LoseAnswer` makes the loop go on while the peer
goes on with its copy. `Body` is external: a `SendStream` dropped without an error is
finished by the QUIC library, so the reader gets an empty body and no error. The
empty `target_provider` (default endpoint) is a name every provider serves.

**WsTunnel.** Frames have a kind (`data` for Text and Binary, `ctl` for Ping and Pong,
`close`, and `end` for everything that ends the reading: end of stream, error, unknown
kind, a frame over `MAX_WS_FRAME`) and a number. `c2u` and `pump` are the two tasks with the message they hold. Each side may
be lost, and may stop reading without being lost. `SessionEnds` is the `select!`;
`AbortC2u`/`AbortPump` are the moments at which the aborted tasks are really dropped.
`HardCap` drops the session future and with it the JoinHandles, which does not stop
the tasks. The code of a Close and torn frames are `WsFraming`'s.

**WsFraming.** `wire` holds the bytes between a writer and the provider's reader;
`read_exact` is one step that takes `rd.need` bytes once they are there. The writer
uses `encode`, or a codec of its own that produces malformed input; its task may be
aborted in the middle of a frame, which finishes the stream there, and the connection
may be reset with bytes still on their way. `written` and `out` are the frames of the
two ends. Bytes of 128 and more stand for invalid UTF-8. Which frames the limiter drops
is left to `WsTunnel`.

**Discovery.** A manifest is a node, its list of endpoint names, a number for the other
values `canonical_bytes()` covers, and a signature. The list is signed as the one text
`Join` makes of it (`endpoints.join(",")`), and `Join` is not injective: `["a,b"]` and
`["a", "b"]` have the same text, and both lists are in the checked instance. `Arrivals`
is gossip: any manifest with a signature somebody has made, whatever names, values or
node id it comes with, as often and as late as it likes. `lis` and
`health` are the two tasks that count `peers.dat` and store the count in the gauge as a
separate step. `Subscribe(FALSE)` and `ListenerBreaks` are the two ways in which
listening ends for good. Restarts are in `Init`: any manifests that verified in an
earlier run may be in the store.

**Dashboard.** `snap` is a `/status` request in progress: `Load` reads the next field,
everything else may run in between, `Poll` starts over. All accesses are
`Ordering::Relaxed`, so a load may return *any* value its atomic has had (`Loadable`;
the counters have had every value up to the present one, those of the gauge are kept in
`held`). That covers loads the compiler or the processor moves past each other.
`snap.inOrder` records that every load has returned the value of its moment. This
is what x86-64 with loads left in program order does; the memory model of Rust
does not promise it, and what depends on it is stated under this condition.

**Startup.** `file` is `config.yaml` as a text and the part it breaks off in. serde
writes identity, network, status and gossip, endpoints in this order, so a prefix is
one of: unreadable; identity and network without endpoints; all but some endpoints.
A port is the number its text spells, quoted or not: serde refuses an unquoted number
that is no u16, while a quoted one is parsed later and becomes 0 (`Readable`,
`ParsePort`).
`LoadOrInit` is a whole `load_or_init` up to `save`, which truncates the file; `Save` is
the end of the write; `Ends` is Ctrl-C, an error or a kill, which in the middle of the
write leaves any prefix. `good` is the last complete configuration, `ids` the node ids
that came up since the operator last chose a mnemonic (history). `BringUp` is
`p2p_server::run` up to the bound endpoint; a bind that fails is an `Ends`. `sockets`
are those of the QUIC endpoint. The DHT's address lookup and its monitor have UDP
sockets of their own whenever the DHT is switched on, with a relay too; they are
`clients`. A line of `dht_boot.dat` that was cut off may still spell an address, with a
wrong port, and then it is used. That
`bind_addr` itself may refuse the IPv6 address is taken from the way the code handles it.

## 3. Runs

Passing runs:

| Run | Instance | Shows |
|---|---|---|
| `ratelimiter` | 1 peer, 2 threads, limits {0,1,2}, 2 ticks/s, 2 s | `WindowBound`: whatever limits are mixed and however calls overtake each other, a window admits at most `MaxRate` at once and `MaxRate` per second, plus the time credited twice. `IdleSecondAdmits`: a second of silence always buys an admission |
| `server` | 2 connections, 3 streams, 1 permit each, fair | `PermitsConserved`, `RequestsAccounted`, `CountersAreLedger` (refinement) on every path, error and interleaving; `LostConnDrains`: the streams of a lost connection, queued ones included, come to their end |
| `relay` | 3 providers, 2 names, one outdated manifest, TTL <= 2, 1 lost answer, fair | `ForwardBudget` (candidates are tried one after another; forwards are at most the client's TTL for the first chain and for each lost answer), `ExecutedOnceUnlessLost`, `AnswersAreGenuine`, `OwnTargetsSigned`; `Resolved`: the client's stream ends |
| `tunnel` | channel of 1, 2 client frames, 2 upstream messages, fair | `FifoToUpstream`, `ClientView`, `CloseIsFinal`, `TunnelIsPipe` (refinement); `LostSideEndsSession`, `SessionStopsTasks`, `DataSendBounded` |
| `framing` | limits of 3 bytes, 5 bodies around them, 2 frames, all cuts, fair reader | `CodecIsPipe` (refinement), `VerdictIsRight`, `CloseCodesKept` (the codes RFC 6455 forbids on the wire become 1000, every other code passes unchanged, undefined ones included); `EndIsNoticed`: no ending of the stream leaves the reader waiting |
| `discovery` | a peer with 2 announcements and one with 1, names that join alike, 2 requests, fair tasks | `StoreIsGenuine`; `GaugeNotAhead` and `GaugeCatchesUp`: `active_peers` lags but never leads, and catches up for good although two tasks overwrite each other; `SnapshotLag`: a `/status` read in pieces never shows more verdicts than requests or more peers than stored, whatever old values the loads return, and accounts for every request it shows but the undecided ones if they were in order |
| `startup` | 2 mnemonics, 2 endpoints, 6 network sections, 3 environment values, 3 DHT nodes | `IdentityKept`, `OneRoot`, `NetworkAsConfigured` (with a relay the QUIC endpoint has no socket; DHT clients only if the DHT is on), `PortIsBound` over any sequence of starts, kills and edits |

Runs that refute what a comment or document says (each quoted in `PROJECT.json`):

| Run | Refuted | What happens |
|---|---|---|
| `ratelimiter_race` | `StrictRate` | a call overtaken between clock read and mutex sets `last` back; the interval is credited twice |
| `relay_unsigned` | `SignaturePreserved` | the empty body of a peer that failed is taken for the answer |
| `tunnel_cap` | `HardCapStopsTasks` | dropping the session future detaches the tasks |
| `tunnel_slow` | `SlowConsumerDisconnected` | Ping, Pong and Close wait for the channel without a timeout |
| `tunnel_close` | `CloseReachesUpstream` | `pump` is aborted before it takes the Close |

Bounds. They are named constants: `MaxClock`, `MaxTTL`, `MaxLost`, `MaxClient`,
`MaxUp`, `MaxFrames`, `Names` (the announcements of each peer), `MaxRequests`, `MaxUndecided`, and the sizes of `Peer`,
`Thread`, `Conn`, `Stream`, `Node`, `Mnemonic`, `Networks`. Two seconds of
time are enough to fill, empty and refill a bucket; one permit and three streams
to have a holder and two waiters on one connection, or streams on both; three
providers to relay twice, to bounce and to have a fallback candidate; a channel of
one place with two client frames and two upstream messages to have `pump` stuck in a
write to the client, the channel full and `client_to_up` waiting behind it; limits of
three bytes to have payloads under, at and over them; two announcements of a peer to
have an older one arrive after the newer; two requests to have one counted between two
loads of a snapshot. `Startup` needs no bound on its length: it has finitely many
states. Only the tunnel, framing, relay and server runs turn deadlock checking off: a
finished tunnel or stream, an answered request and a set of ended connections have
nothing left to do.

Some smaller disagreements between code and comments were seen while reading. Each
is one line that a run would only restate:

- `read_from` returns `Ok(None)` for a stream cut off inside a header too, while
  `protocol.rs:224` says only at a clean end between frames (`WsFraming!ReadEof`,
  `torn < 5` in `VerdictIsRight`).
- A `relays` list of invalid URLs only is not empty, yet the provider runs with direct
  sockets; `config.rs:46-49` and README.md:33 say a non-empty list switches them off
  (`Startup!RelayOnly`; `NetworkAsConfigured` speaks of lists with a valid one).
- `canonical_bytes()` leaves out `version` as well as the two fields its comment names
  (`peers.rs:36`), so a manifest's version is not signed; and it joins the endpoints
  with a comma (`peers.rs:40`), so their division into names is not signed either
  (`Discovery!Canonical`).
- All endpoints share a peer's bucket, refilled at the limit of whichever endpoint is
  asked (`p2p_server.rs:466`), while `config.rs:161` documents a limit per endpoint.
- A mnemonic is logged as generated and saved (`config.rs:230`) before the check for
  endpoints at line 245, which may end the program without saving it.
- `execute` is always called with `relayed = false`, so the flag `protocol.rs:113`
  documents never says that an answer came through a relay (`Executions`).
- `resp.bytes().await.unwrap_or_default()` (`proxy_engine.rs:201`) signs an upstream
  body that breaks off as an empty one with the upstream's status (`Executions`).
- A frame over `MAX_WS_FRAME` ends the tunnel without the Close 1009 that
  `protocol.rs:176` promises (`NoFrameRead`).
- A tunnel past its 24 h gives its permit back while its tasks keep the stream, so a
  connection can have more than 16 active ones (`StreamServer!HardCap`); the cause is
  the one `tunnel_cap` shows.
- The comment on `local_ws_url` promises a 501 where the code sends Close 1011; the
  comment on `ws_rate_limit_per_peer` promises a warning for dropped frames, which are
  dropped silently; a WS packet on ALPN `/0` is executed as an HTTP request with method
  `WS`.

## 4. Fairness

- `StreamServer`: accept loops end after a loss; the tokio semaphore is FIFO (strong
  fairness of `Acquire`); reads and writes are fair only once the connection is lost,
  because on a live one a client may be silent for ever; `execute` has its timeout;
  `relay` ends by `Resolved`; the 24 h timer fires. The end of a tunnel is not
  assumed.
- `MeshRelay`: some handler that can move does. Connecting ends by success or the QUIC
  timeout; an answer that never comes counts as lost.
- `WsTunnel`: each task runs (weak fairness per task, not per branch of its `select!`),
  the 5 s and 10 s timeouts fire, aborted tasks are dropped. A write completes
  only if the other side reads or is gone. The 24 h cap is *not* assumed fair, so no
  property holds just because of it.
- `WsFraming`: the reader's task runs; nothing is assumed of the writer.
- `Dashboard`: the listener finishes what it began and the health task goes round (its
  probes have the proxy's 5 s timeout). Nothing is assumed of gossip, requests or the
  page, and the listener may be gone for good.

## 5. Proofs

Every safety invariant of the passing runs, the action property `IdleSecondAdmits` and
the three refinements are theorems: they hold for every value of the constants
the named assumptions allow, where a run shows them on one instance. The assumptions:

| Module | Assumed of the constants |
|---|---|
| `RateLimiter` | a positive clock resolution, limits that are numbers up to `MaxRate` |
| `StreamServer` | finite sets of connections and streams, a positive semaphore size |
| `MeshRelay` | finitely many nodes, a client's TTL that is a u8 |
| `Discovery`, `Dashboard` | finitely many peers, each with a sequence of announced lists, nothing of `Join`; `MaxRequests` and `MaxUndecided` are numbers |
| `Startup` | the markers for a missing and for an invalid mnemonic are no valid mnemonics; `Networks` holds the default section and well-formed ones; some endpoint exists |
| `WsTunnel` | a channel of at least one place |
| `WsFraming` | payloads are bytes, few enough for a u32 length with the code of a Close; close codes are u16, kinds u8; the empty payload is one of the payloads |

The argument is the same throughout: an inductive invariant `IInv` of the properties
and what they need, one lemma per action, `Invariance`, and the theorems from it.
What `IInv` adds is where the reasons are.

- **RateLimiterProofs** (`TypeCorrect`, `WindowBoundHolds`, `NoLockout`). `WindowBound`
  is not inductive. `IInv` adds that no bucket holds more than a second's worth at the
  largest limit, that no stored or pending instant lies in the future, and that what
  was counted *plus what is left in the bucket* is covered by the time up to `last`
  (not up to `clock`). A refill moves `last` and tokens together; an admission moves
  one token from the bucket to the count; an overtaken call moves `last` back and adds
  as much to `rewound`.
- **StreamServerProofs** (`TypeCorrect`, `PermitsAreConserved`, `RequestsAreAccounted`,
  `ServerIsLedger`). Conservation is needed for the type of `permits`, and that
  `active` is the number of accept loops for its own. The argument counts sets: a step moves one stream in or out of the set of
  holders, by one element. The refinement of `RequestLedger` needs that the undecided
  tasks of all connections together are at most `MaxStreams` times as many: they are
  numbered within each connection, which maps them one to one into a product.
- **MeshRelayProofs** (`TypeCorrect`, `ExecutedOnce`, `AnswersGenuine`,
  `OwnTargets`, `ForwardsAreBounded`). `HopInv` says what a hop in each phase relies on,
  `TtlInv` that no hop has a larger TTL than the client's. The key to `ExecutedOnce` is the *frontier*, the hops that can still
  lead to an upstream call: a forward swaps one member for another, only a lost answer
  adds one, so calls plus frontier never exceed 1 + lost answers. A waiting hop is not
  in the frontier; its peer is. `ForwardsAreBounded` gives every hop of the frontier a
  *credit* of as many forwards as it has TTL left. A forward spends one of them
  and passes the rest on; a lost answer puts its relay back, with at most the client's TTL.
  Credits are the elements of a set, so that a sum over hops is a cardinality.
- **WsTunnelProofs** (`TypeCorrect`, `FramesInOrder`, `ClientSeesUpstream`,
  `CloseEndsBoth`, `TunnelIsAPipe`). Frames to the upstream are a line of four sequences:
  delivered, in `pump`'s hand, in the channel, in `client_to_up`'s hand. Each step moves
  a frame over one of the borders, and the line as a whole stays `accepted`. `C2uInv` says
  that `client_to_up` reads on only if it has forwarded no Close, `UpInv` that the
  queue of the upstream continues the numbers the client has seen, `ViewInv` that `pump`
  stops with the Close it writes. A delivery is then the pipe's next frame because
  `upGot` is a proper prefix of `accepted` while `pump` has a frame in its hand.
- **WsFramingProofs** (`TypeCorrect`, `VerdictHolds`, `CodesAreKept`, `CodecIsAPipe`).
  The obvious invariant, "the wire is the encoding of what is not read yet", is a
  concatenation over a sequence of frames and would need induction over data.
  `StreamInv` avoids it: *there is* a byte sequence `s`, everything ever written, and a
  function `pos` with the end of each frame in it. `Laid(s, pos)` says frame by frame
  that the bytes between two positions are that frame's, and what follows the last one
  if something was cut off or malformed; `Lag(s, pos)` that the wire is `s` from the
  reader's position on, or after a reset the beginning of that. Writing extends `s`
  and `pos`, reading moves the position. `LengthBytes` and `WireBytes` are the
  arithmetic of the length field, `AtUnique` that a header and a length determine the
  payload, `DecodeEncode` that `read_from` and the check of close codes undo `encode`
  up to `Relayed`. What `from_utf8_lossy` makes of a reason is left open but for the
  empty one.
- **DashboardProofs** (`TypeCorrect`, `PeersAreGenuine`, `GaugeLags`,
  `SnapshotIsCovered`). `store` only grows, so counts taken earlier stay at or below it,
  and what was announced stays announced; a manifest that verifies has a text its node
  has signed, whatever other lists have this text too. `SnapInv` states `SnapshotLag` load
  by load, in two parts. `OldValues`: what was read is no more than the counters are
  now. `Covered`, for loads in order: the total already read is covered by the
  verdicts read so far, those the *other counters show now*, and the undecided ones.
  Counters only grow, so that each load may replace a counter by its value.
- **StartupProofs** (`TypeCorrect`, `IdentityIsKept`, `KeysHaveOneRoot`,
  `ConfigurationIsObeyed`, `PortIsReported`). `FileInv` is what makes
  a kill harmless: whatever a file breaks off from is a text with the identity and the
  network section that were loaded, and those of the last complete configuration.
  A file too short to be read stops every later start, and one that has lost the network
  section has lost the endpoints behind it, so that it is refused too. `ids` is
  at most the key of the mnemonic in the file.

**What liveness rests on.** A temporal property under weak fairness needs three things:
something that every step of the fair processes makes smaller, nothing else that makes it
larger for ever, and a step that is possible as long as something is owed. These are
safety, and proved for every value of the constants. Left to TLC is the last step, from
there to the temporal property: it needs ENABLED, so that the theorems speak of the
guards instead.

| Checked by TLC | What the theorems say |
|---|---|
| `LostConnDrains` | `LostConnRunsDown`: a lost connection stays lost, gets no new streams, and each step of one of its tasks makes the finite set `Todo(c)` smaller. `QueuedWaitsForHolder`: a queued stream finds a permit or a holder of its own connection, never a permit that nobody holds. |
| `Resolved` | `RequestIsFinite`: every step of a handler, retries included, makes the finite set `Work` smaller, and no announcement makes it larger. `NoWaitCycle`: at or behind every handler that has not finished there is one that can go on. |
| `LostSideEndsSession`, `SessionStopsTasks`, `DataSendBounded` | `TunnelComesToRest`: every step of the handler and its tasks makes `Load` smaller, and only a frame that one of the sides sends makes it larger. `LostSideNotStuck`: if one side is lost and the other reads, something can go on until the session is over; a data frame in `client_to_up`'s hand can always be sent, fail or time out. |
| `EndIsNoticed` | `ReaderFinishes`: every read makes `Left` smaller, an ended stream stays ended, and a reader that is not over then has its bytes or meets the end. |
| `GaugeCatchesUp` | `GaugeSettles`: the number of stored peers never falls and has a bound; while it rests no outdated count is made, each that is stored is used up, and the health task's next count sets the gauge right. |

The measures. `Work` counts, hop by hop, the steps each of the `MaxHops` hops a request can
ever have may still take; the bound is that of `ForwardsAreBounded`, and hops still to come
count with the most a hop can take, so that a forward adds nothing. `NoWaitCycle` takes the unfinished hop with
the largest number: a relay waits only for hops numbered after it (`WaitInv`), so
this one waits for none. `Load` weighs a frame by the number of hands it still passes
through. In `LostSideNotStuck` the hypothesis that the remaining side reads is
necessary: the run `tunnel_slow` shows `client_to_up` waiting for ever with a Ping.

Only model-checked: the temporal properties themselves, because fairness and ENABLED are
out of the prover's reach; and what `Lossy` computes, a recursion over the bytes of a
Close's reason.

## 6. Not modelled

Not modelled: the mathematics of BIP-39 and Ed25519 (a key is named by what it is
derived from, a signature by its signer and its text); what the DHT clients do with
their sockets, and the gauge of the DHT's nodes; the contents of the RPC table, which is only displayed; the dashboard's
HTML; logging; URL and header construction; f64 rounding in the limiter. Power failures
are not modelled either: `fs::write` and sled without a flush may then lose what a
killed process would not, and the code does nothing about it.

What a kill during `save` may cost is visible in `Startup` and promised by nobody: a file
cut off among the endpoints loads with fewer of them, and one cut off earlier does not
load at all, so that the operator needs a copy of the mnemonic.

Every safety property of the passing runs is proved, and of liveness everything but the
use of fairness. The violated properties stay with TLC, as counterexamples.
