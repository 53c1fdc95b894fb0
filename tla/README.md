# A TLA+ verification of the SRT live server

This directory specifies, model-checks and partly proves the SRT live server
under `src/src`: how a stream gets from a publisher through a ring in memory to
its viewers, who owns that ring, who is let in to publish and to watch, how
relays and the server itself start, reload and end, and what the parsers behind
them find. The code is the reference; every definition is mapped to the lines it
models in `PROJECT.json`.

## 1. The system

A server process runs a main thread (configuration, signals, reload), HTTP
control threads (`/stats`, `/disconnect`), a pool of webhook threads, a thread
per host name that is looked up, and `worker_threads` workers. With
`worker_threads` 0 the main thread is the worker; with 1 everything that touches
a stream runs on one thread; with more, the workers share the maps below and
each runs the roles it has adopted.

| Component | State | Operations | Talks to | Module |
|---|---|---|---|---|
| `CSLSRecycleArray`, the ring of one stream | buffer, write position, byte count, generation; per reader a position, a byte count, a generation | `put`, `get`, `setSize` | readers (players, pushers), one writer | `RecycleArray`, `StreamFeed` |
| `CSLSMapData`, all rings of a server | ring by key, parser states, stream count, byte count, caps | `add`, `remove`, `clear`, `set_timecode_scan`, `put`, `get` | every role; own lock | `MapData` |
| Loss counters | continuity table, overrun, break and drop counters in the ring | `sls_ts_check_continuity`, `sample_viewer_snd_drops`, read-and-reset | workers, HTTP threads | `StreamStats` |
| `CSLSMapPublisher` | owner by key, live-to-uplive and app tables | `set_push_2_publisher`, `get_publisher`, `remove`, `set_live_2_uplive` | listeners, relay managers, HTTP threads; own lock | `StreamOwnership`, `Listeners` |
| `CSLSListener` | port, names, pending publishers and players, key cache, rate limits, per-stream limits | `start`, `handler` (accept), `on_worker_tick`, `uninit` | maps, webhooks, handoff list | `Listeners`, `PublisherGate`, `PlayerKeyGate`, `KeyRateLimit`, `PlayerLimit` |
| Access rules | allow and deny lists of an app block | `sls_conf_set_ipset`, `sls_check_ip_acl` | listener | `PeerAcl` |
| Webhook gate (`CSLSRole`, `AuthRejectCache`) | future, deadline, passed flag, rejected stream ids | `on_connect`, `check_http_passed` | webhook pool | `PublisherGate` |
| `CSLSPlayerRegistry` | players by stream | `add`, `count`, `list`, lazy prune | listeners, `/stats` | `PlayerLimit` |
| `CSLSRole` and its kinds | state, socket, kick flag, ring-added flag, pending output, stuck and idle timers | `handler_read_data`, `handler_write_data`, `get_state`, `request_kick`, `uninit` | its worker, the maps | `StreamOwnership`, `Egress`, `RoleTimeouts` |
| Bitrate limiter | queue of receipts, violation timer | `check_data_bitrate`, `cleanup_old_data` | publisher role | `BitrateLimit` |
| `CSLSGroup` (worker), `CSLSRoleList` (handoff) | adopted roles, reconnect list; queue | `check_new_role`, `handler`, `check_invalid_sock`, `check_reconnect_relay`, `reap_unadopted` | roles, managers | `Server`, `StreamOwnership`, `Relay` |
| Relays: managers, `CSLSMapRelay`, `CSLSPusher`, `CSLSPuller` | upstream list, children, URLs to reconnect | `start`, `connect_*`, `reconnect`, `detach_child_relays` | publisher map, handoff list | `Relay` |
| Push destinations | accepted URLs and addresses | `validate_push_url`, look-up with a deadline | webhook reply, resolver, relays | `PushTargets` |
| `CSLSManager`, `main` | servers, workers, maps, retired managers, configuration generations | `start`, `reload`, `stop`, `check_invalid` | everything | `Server`, `Listeners` |
| Configuration parser | tree of blocks | `sls_conf_parse_block`, `sls_conf_open` | `main` | `ConfFile` |
| PID file and commands | the file, `pid_file_name` | `sls_write_pid`, `sls_remove_pid`, `sls_reload_pid`, `sls_send_cmd` | other instances | `PidFile` |
| Timecode scanner | PAT/PMT state, access unit, parameter sets | `ts_timecode` feed functions | ring table | `Timecode`, `AnnexB` |
| Log limiter and summary, client program | | | | not modelled |

What is hard to test here:

* each map has its own lock and an operation of a role is a chain of locked
  calls, so with several workers the chains of different roles interleave;
* the position and the byte count of a ring are two values read together and
  written apart;
* readers outlive rings, publishers outlive webhooks, roles outlive the
  listener that made them, children outlive managers, managers outlive reloads;
* a kick is a flag that another thread honours later;
* limits (streams, bytes, players, pending connections, tracked PIDs) are
  compared at one moment and consumed at another;
* deadlines race with answers, and a late answer finds someone else in place;
* a send may be refused in the middle of a batch, a file may fail to parse in
  its middle, a start may fail with half of the listeners open.

`PROJECT.json` lists these as hazards, at the line where each one bites, with
the properties that cover it.

## 2. Modules

```
StreamFeed          what a viewer of a stream is promised (abstract)
   ^ refined by
RecycleArray        the ring, with put() in two steps       RecycleArrayProofs
MapData             the ring table and its budget           StreamDataProofs
   ^ extended by, and implemented by the roles of
StreamOwnership     publishers, pullers, takeover, uninit   StreamOwnershipProofs
StreamStats         the loss counters of a stream           StreamDataProofs

PublisherGate       on_connect before a publisher is in     AdmissionProofs
PlayerKeyGate       player keys: cache, requests, sockets   AdmissionProofs
KeyRateLimit        webhooks per client address             AdmissionProofs
PlayerLimit         players per stream                      AdmissionProofs
PeerAcl             allow and deny rules                    AdmissionProofs

Egress              the sending side of a viewer            ServerProofs
RoleTimeouts        probation and idle reaping              ServerProofs
BitrateLimit        the limiter of a publisher              StreamDataProofs
Relay               relay managers, relays, reconnects      RelayProofs
PushTargets         destinations of a webhook's reply       ServerProofs

Server              main, managers, workers, generations    ServerProofs
Listeners           ports, names and routing of a start     StartProofs
ConfFile            the parser's tree                       StartProofs
PidFile             PID files of several instances          ServerProofs
Timecode            the timecode scanner: tables, pictures  StreamDataProofs
AnnexB              its walk over the bytes of a prefix     StreamDataProofs

CountingTheorems    induction, sums and caps over finite sets, for the proofs
```

The parts compose by hand-over, not by shared state: an "admitted" publisher of
`PublisherGate` is one that enters `StreamOwnership`, a key that `KeyRateLimit`
refuses is a `Refuse` of `PlayerKeyGate`, a player that `PlayerKeyGate` admits
went through the `Check` of `PlayerLimit`, a manager of `Relay` is given the
URLs `PushTargets` accepted. Where they do share state they are one module:
`StreamOwnership` extends `MapData` and is checked and proved to implement it.

The harnesses `MCAdmission`, `MCSafety`, `MCSessions`, `MCServer` hold several
parts in one run. Their variable `part` picks one part in the initial state; a
behaviour is then one of that part's own specification and the others rest, so
the states are the sum of the parts, not the product, and each property of a
part is checked on all behaviours of the part. Fairness is that of the part,
written as `WF(part = "x" /\ A)`.

### StreamFeed

The abstract feed: a session produces a growing stretch of bytes; a viewer
joins at the live end, is given the next bytes in order, or is moved to the
live end in an explicit skip. `RecycleArray` implements it (`FeedSpec`) under
the mapping `produced <- m_nDataCount` and one cursor per reader.

### RecycleArray

One ring, one writer, any number of readers. A byte is its index in the
session's stream. `Create`/`Delete` are the calls of `CSLSMapData` that make
and free the ring; `PutCopy` is the part of `put()` under the lock and
`PutCount` the `fetch_add` after it; `Get` has one action for each return of
`get()`: first anchor, re-anchor on a new generation, nothing new, overrun,
copy. `SharedWorker` says whether a `get()` can fall between the two steps of
a `put()`. `cursor` is a history variable: where the reader really stands in
the stream, which the code knows only through `nReadPos` and `nDataCount`.
The gauges and the time of the last read are left out; nothing in the ring
reads them.

### MapData

All rings of a server, the size of each, the parser states and the two
counters. Each method holds the write lock from its first test to its last
assignment and is one action. The sizes in its run are the real ones.

### StreamOwnership

`pc[r]` is the place of role `r` in its life or in the operation it is in the
middle of; one step is one locked call or one atomic flag. Publishers enter
after their webhook has passed: `LookupIncumbent`, `Judge`, `TakeoverKick`,
`Register` are `finish_publisher_accept`. Pullers enter through
`CSLSPullerManager::start`. The worker adopts, reads, honours kicks and tears
down; a publisher's `uninit()` removes ring then entry, a puller's entry then
ring. `SharedWorker` makes each operation atomic with respect to the others,
as one thread does; the HTTP thread's `Disconnect` interleaves always. Time is
abstracted to `recent`: whether data came in the last
`ACTIVE_INCUMBENT_RECV_WINDOW_MS`.

### PublisherGate

`pub[c]` is a caller's socket and role: where it is (in libsrt's backlog, in
`handler()`, in `m_pending_publisher_connections`, published), `m_http_passed`,
the future, the deadline. `Handshake` runs on libsrt's thread and reads the
reject cache that all publisher listeners share; `Accept` is `handler()` up to
`on_connect()`, `FirstPoll` its end; `DrivePending` is the body of the loop in
`on_worker_tick()`; `Uninit` is the main thread's, in `reload()` and `stop()`.
`Poll` keeps the order of the tests in `check_http_passed()` and what each
caller makes of the result, including that a refused role has lost its socket
but is dropped only by the next poll. An answer is a 200, a denial (401, 403),
another status, or none from the backend. Times are kept as time left, in the
seconds of `time(nullptr)`, which the reject cache uses.

### PlayerKeyGate

One player listener. `CacheHit` and `CacheMiss` are the two outcomes of
`validate_player_key`; `TickBegin`, `DrainOne` and `Drive` are one
`on_worker_tick()`, split where an answer of the HTTP pool can fall in between;
its `m_mutex` keeps `uninit()` out. `Inserted` is the set of maps the insert
into a full cache can leave (the map's order decides between equal expiries).
`okLeft` is history: how long the last answer for a key, as the listener read
it, is a permission.

### KeyRateLimit

One call of `validate_player_key` is one step, all on the listener's worker.
Request times are kept as ages. The sweep of the whole map may or may not
happen in a call, since it is gated by its own clock. A configured limit of 0
is outside the budget property: an address that is not in the map is never
refused, so 0 lets each address through once per sweep. So is an address for
which the full map has no room: `update_rate_limit` lets it through uncounted,
and `asked`, the history the budget is stated on, counts what the map does.

### PlayerLimit

One stream. The limit is compared in one locked call of the registry (`Check`)
and the player is added in a later one (`Register`). Each listener keeps its
own table of the limits that key responses set; the registry is the server's.
`lastStored` is history: the limit in force by the documentation.

### PeerAcl

`sls_conf_set_ipset` appends a rule of the file, `PeerConnects` is
`libsrt_getpeeraddr_raw` on a dual-stack socket, where an IPv4 host may show as
IPv4-mapped, and `CheckAcl` the walk of `sls_check_ip_acl`.

### Egress

One `handler_write_data` per pass of the worker: fetch a batch when `m_data`
holds less than a packet, send packets until the batch ends or libsrt refuses
one, arm OUT. The refusal starts the stuck streak, an accepted packet ends it, a
fatal error ends the role, a write that reports less than a packet ends the pass
and the packet is tried again (`ShortWrite`). The ring is its write head and the
reader's position; `Publish`, `PublisherGone`, `Acknowledged` and `PeerGone` are
what happens around it, between any two steps. `expected` and `sinceSent` are
history: the byte the viewer needs next and when it last took a packet.

### RoleTimeouts

`GetState` keeps the order of the tests in `get_state()` (kick, idle decision,
socket state) and `sls_should_reap_role` those of the idle decision.
`Authorized` is the passing of the gate, which restarts the activity marker. The
gate suspends the probation of a publisher, not the ordinary idle timeout: a
role without probation can be reaped while it waits for its webhook. `silent`
and `permitted` are history: the ages of the last packet and of the permission.

### Relay

One stream, its publisher sessions and its relay roles. `thread[w]` is what
worker `w` is in the middle of, and one step is one locked section: the three
`connect_*` loops, `reconnect`, `check_invalid_sock`, `check_reconnect_relay`,
the two halves of a publisher's `uninit()`. Upstreams may fail, be down for
ever, or have a URL that does not fit a buffer. Relay roles are reused, so the
length of a history is bounded only by `MaxSessions`.

### PushTargets

The entries of a reply in order, up to the configured number: `SkipEntry` for
what is no object or malformed, `validate_push_url` for a literal or the start
of a look-up, `LookupEnds` for its answer or its deadline; a look-up that was
abandoned still runs and answers into a place of its own (`ResolverAnswers`).
`ConnectAll` and `ReconnectUrl` dial. Which addresses are internal, or the
server's own, is a parameter; what a name stands for may change at any time.

### Server

`main()` is a program counter: start a manager, loop, sweep over the retired
managers, reload, parse, stop. A manager has a listener, a handoff list and
workers; a worker is its flags and the number of its sessions. A start may fail
with some of its workers already running. A configuration generation is a
`shared_ptr` that frees its tree with its last holder. `sls_conf_open` has a
case for each way the file read on a reload can be (`FileFaults`): sound, not to
be opened ("absent"), failing before its first block ("first") or behind it
("later"), or ended by a closing brace before any block, which is no error
("bare"). `CheckedWorkers` follows the walk of `check_invalid()` with the
iterators it took before its erases.

### Listeners

`CSLSManager::start()` on a configuration: port specs are expanded, tested for
use and opened in the order of the code, each listener registers its names, a
legacy and a fallback listener come last. What a connection with a name to a
port is taken for is computed by `handler`'s look-ups.

### ConfFile

`ReadLine` is one turn of `sls_conf_parse_block`, with one frame per call. The
frames keep `b`, `p_runtime` and the shared `child` pointer of the code, which
links what it reads by child and sibling; the property compares the tree with
what the nesting of the file says.

### PidFile

Instances on one host start with configurations of their own, probe the file,
create it, write their PID into it, drop their privileges, reload, are killed,
and are signalled through the file. Nobody looks at the result of the write,
which may leave the file empty.

### BitrateLimit, StreamStats, AnnexB, Timecode

Small algorithms against a history or a reference: what was really received in
the window, the breaks and drops that really happened, the messages the encoder
meant, and the picture and programme a timecode belongs to.

In `AnnexB`, `Encode` is the standard's side. The walk has the NAL headers and
types of both codecs, goes on behind a message its parser refuses, and keeps the
H.264 parameter set in force. What the parsers of a parameter set and of a
timing message accept is a parameter, and so are the byte values that mean
something (0xFF, the stop byte): TLC has small ones, the theorem any.

In `Timecode` a programme may change between two pictures, the scanner may join
late, tables may be late and any packet may be lost or marked as damaged.
`missed` is history: what of the picture at hand, of its parameter set and of
the table of its codec did not reach the scanner. NAL types are told apart as
the code does, with a mask of five bits under an H.264 table: an IDR slice of
HEVC then passes for an H.264 SEI (`misread_idr`). A parameter set fits the
packet with the PES header, and a new programme starts with one.

In `BitrateLimit` the queue is a function from times to bytes, since it is in
the order of time and a tick has one read; the clock starts past its first
second, so the first read cleans.

## 3. Runs

| Run | Shows |
|---|---|
| `ring_stale` (violation) | Several workers: a reader takes the new head with the old count and is then handed bytes out of order. |
| `admission` | What stands between a caller and service, with every table at its cap. Memory: counters exact, both caps hold (`BudgetExact`), parser state goes with the ring. Publishers: nobody is published without a timely 200 to its own request, a key is blocked only for a denial of it and the block ends, a held publisher is admitted or closed. Players: admission only on a permission in force, no time-out over one, nobody held for ever, refusals only when the stream is full, limit kept. Rate: an address is let through what the limit says, no more and no less, and its refusals end. Rules: the first line that names the host decides. All caps hold together (`AdmissionBounded`). |
| `safety` | Ten parts without fairness. One worker: no session loses its ring (`RingKept`). A running server's PID file names it, or is empty after its own failed write, and no other server is on it (`PidFileKept`). The tree is what the file writes down (`TreeAsWritten`); a start serves every port and name it was asked to, or is refused for a cause (`StartMatchesConfiguration`). A role is reaped as idle only after a whole timeout without a packet, counted from its permission once it has one (`IdleReapJustified`); the bitrate limit strikes exactly those over it (`LimitEnforced`). In both codecs the scanner finds the encoder's timecode with the parameter set in force (`FirstTimecodeFound`), and it misreads one, or puts it beside another picture's PTS, only if a packet or a table it needs never reached it (`TimecodeGenuine`). Losses are reported once (`CountedOnce`). A destination is first dialled at its own vetted address (`DialsOwnAddress`). |
| `owner_workers` | Several workers: one feeder per stream (`SoleOwner`), no ring left behind (`NoOrphanRing`), and a kicked owner leaves the map though its data never stops (`KickedLeaves`). |
| `owner_puller` (violation) | Several workers: a puller's `uninit()` removes the ring of the next owner. |
| `owner_takeover` (violation) | Several workers: a broadcaster that delivers between the judgement and the kick is taken over. |
| `sessions` | Egress: nothing is lost or repeated over refused packets (`SentInOrder`), a viewer is dropped as stuck only when it took nothing for a whole timeout (`StuckJustified`), and staged data is flushed or its role torn down (`StagedResolves`). Relays on one worker: one relay per upstream, none after its publisher is gone, a puller in loop mode pulls again (`OneRelayPerUpstream`, `NoOrphanRelay`, `PullerRecovers`). |
| `server` | The ring on one worker: bytes reach a viewer in order (`InOrder`), the ring implements `StreamFeed` (`FeedSpec`: every gap is an explicit skip to the live end), and a viewer that keeps calling `get()` catches up with a publisher that pauses (`Drains`). Managers: no configuration or map is freed under a manager or worker that uses it (`NothingFreedInUse`), and a retired manager whose sessions end is destroyed (`RetiredFreed`). |
| `gate_teardown` (violation) | `reload()` frees the listener's socket while its worker is in `handler()`. |
| `keys_teardown` (violation) | A listener that goes leaves held players' sockets open. |
| `relay_retry` (violation) | An upstream of a dynamic pusher that could not be reached at the start is never retried. |
| `server_conf` (violation) | A reload whose file fails before its first block frees the tree of the running manager. |

Bounds.

* Ring: 3 or 4 slots, puts of up to 3 bytes, a copy buffer of 3 and an alignment
  of 2 give every case of the wrap, a lag of exactly one ring, a partial drain
  and a copy of nothing; 9 bytes lap the ring more than twice (`MaxBytes`) and 4
  generations (`MaxGeneration`) recreate it behind a reader twice, once with
  `setSize()`. One viewer is enough: a `get()` touches nothing another viewer
  reads, and the proofs are for any number.
* Memory: four keys and the real sizes, with hints below, between and past the
  caps; three rings fill the stream cap and 72 MB the byte cap.
* Publisher gate: two callers with stream ids of their own ask for one stream,
  and a reject cache of one entry has to evict; a deadline and a TTL of two
  ticks let an answer, a poll and the deadline fall in any order. The cap of the
  pending list does not bind with two callers: the test for a duplicate does.
* Player keys: two players share a key, a third has another; two sockets may be
  held, one request be in flight, one key be cached for four ticks, so that a
  refusal lasts one.
* Rate: three addresses, two requests in a window of three ticks, a map for two
  addresses; ages are kept up to twice the window. Limit: three players, a limit
  of one that a key raises to two. Rules: two rules over two IPv4 hosts, which
  may show as IPv4-mapped, and an IPv6 host.
* Ownership: on one worker two publishers and a puller compete for a key and a
  third publisher competes from another key for the one stream the cap allows;
  with several workers, where each locked call is a step, a publisher and a
  puller compete for a key and a publisher on another key for the cap.
* Egress: packets of two bytes, batches of two packets, two batches a pass, a
  send buffer of one packet and a ring of two and a half: a batch is refused in
  its middle and a reader is lapped while it holds one.
* Relay: two sessions of one stream, two upstreams, three relay roles, each
  mode and kind of manager, with and without a URL that does not fit.
* Server: `worker_threads` 0, 1 and 2, files that are sound, absent or fail late
  (with either of the two other faults the property is false, section 5), two
  managers (a reload while one drains is the case; a third repeats it), one open
  session each, two places a worker.
* Files of up to six lines (`MaxConfLines`) nest, close and reopen blocks; one
  or two server blocks in all their port and name forms; two instances on two
  PID paths, one for root only; two NAL units of either codec, of three headers
  (an SEI, a second SEI or a parameter set, a slice), with up to two messages of
  two types, one of them past the scaled 0xFF, and four payloads that need
  escaping, are refused or are read differently by two parameter sets; three
  pictures (`MaxPictures`) in three layouts under four programmes, over a prefix
  of three cells; sixteen ticks (`MaxTicks`) of bursts around a window of four;
  two PIDs for one tracked place, gaps up to one short of the counter's modulus;
  two changes of what a name stands for (`MaxRenames`).

Callers, roles and sessions may come back, so histories are unbounded unless a
bound above is named.

Fairness.

* `FairSpec` of the ring: a `put()` that released its lock goes on to count, and
  the egress pass calls `get()` for every viewer on every turn.
* `WorkerFair`: an operation once begun ends (no call blocks on another role),
  `check_new_role` and `reap_unadopted` empty the handoff list, and
  `check_invalid_sock` calls `get_state()` on every adopted role on every pass.
* `GateFairness`: the clock runs, a `handler()` that was entered ends, and a
  worker calls `on_worker_tick()` in every round; since a `handler()` on the
  same thread can come in between any number of times, that is strong fairness
  of the poll. `KeyFairness` is the same for players; there the clock needs
  strong fairness because the model lets it run only between two ticks of the
  worker. `RateFairness`: the clock runs.
* `EgressFairness`: the worker's egress pass comes again and time goes on.
  Nothing is asked of the viewer or of epoll: it need never take a packet.
* `RelayFairness`: time runs, a call once begun ends, and the worker's round
  reaches the reconnect queue and the roles to reap. Some `connect` of an
  upstream that is up succeeds in the end (strong fairness of a call that hands
  over a role): without that no retry can be asked to work.
* `ServerFairness`: the threads run, and sessions of a worker end again and
  again. The latter is the environment's: a viewer that never leaves keeps a
  retired manager for ever, which the code accepts.

Nothing else is assumed of the network, the peers or the webhook, which need
never answer.

## 4. Proofs

`tlapm` checks all proofs; they hold for every value of the constants under
the named assumptions of the modules (`RingAssumption` and its like: finite
sets of actors where they are counted or summed over, bounds that are natural
numbers, literals and host names that differ, a dynamic manager that pushes to
all upstreams, as `try_spawn_dynamic_pusher()` makes it). A further hypothesis
is in the theorem itself.

* `CountingTheorems`. The library's induction takes an operator as parameter and
  cannot be used, so induction is done on sets: a set of naturals with 0 that is
  closed under + 1 is `Nat` (`NatSetInduction`, from the pigeonhole theorem),
  and a set of subsets that contains a set with all its smaller ones is the
  whole powerset (`SubsetInduction`). From these: `SumFunction` of the community
  modules is well defined and changes by the difference where one value changes
  (`SumExcept`) and grows with the set it is taken over (`SumMonotone`), a least
  element exists, and a cap (`Within`) survives a removal, a replacement, and an
  insertion where the size test has passed. A loop is a function on rounds
  (`IsLoop`): it exists and is unique (`LoopExists`), and what holds at the
  start and is kept by a round holds at the end (`LoopInduction`).
* `RecycleArrayProofs`. Types and contents need no assumption on the number
  of workers (`RingTypeCorrect`, `RingContent`). In-order delivery is not
  inductive: it needs that the pair of a reader describes one point of the
  stream (`PairConsistent`) and that this is the point it stands at
  (`CursorExact`). `FeedInv` is their conjunction, proved for one worker, and
  gives `RingInOrder`, `RingNoSilentSkip` and, step by step,
  `RingImplementsFeed`.
* `StreamDataProofs`. `MapInv`, types with exact count and parser states, is
  inductive; the stream cap follows from the exact count. `MapBudgetExact` adds
  that the byte counter is the sum of the rings, by `SumExcept` for each
  operation. `StatsCountedOnce` is for any viewers, HTTP threads, PIDs and
  modulus: drops are conserved, since each step moves the same amount on both
  sides; breaks need `ContinuityInv`, that the encoder's counter is `gap`
  packets past the remembered one as far as the modulus can tell, that an
  untracked PID has no gap, and that there is nothing in the counters of a ring
  that is not there. A read is one or two packets of different PIDs, as in the
  model. `TimecodesAreGenuine` is for any programmes, picture layouts and prefix
  size. `TimecodeInv` says, each time but for what was missed, that the buffered
  prefix is of one picture (`Paired`), whole and of one programme whose layout
  is in force (`BufferInv`), and that while the scanner takes the encoder's
  packets these are the picture and the programme the encoder sends
  (`TunedInv`); it needs that a broken NAL is only behind a loss (`PendingInv`).
  The scan is followed cell by cell, by induction on a set of places. It assumes
  of the encoder what `TimecodeAssumption` and `Begin` say: the packet with the
  PES header has data, a parameter set comes first, and a new programme starts
  with one. `LimitIsEnforced` is for any limit, window, cleaning interval and
  bursts. `LimitInv` says that the queue agrees with what really arrived inside
  the window, whatever has aged out and not been cleaned, that the timer started
  no earlier than the last cleaned window within the limit, and no later than
  the window was found full: a full window exceeds the limit in the queue too,
  which holds at least those bytes (`SumMonotone`) and averages them over at
  most that time (`QuotientMonotone`). `FirstTimecodeIsFound` is for both
  codecs, any byte values, headers, payloads, types and parsers, and any number
  of NALs with up to two messages each. Escaping and unescaping are followed
  byte by byte with the same count of zeros (`UnescapeUndoes`); escaped bytes
  hold no start code (`EscapedIsClean`: the count knows of the zeros at the end)
  and end in the stop byte, so none begins in one NAL and ends in the next
  (`NalEndsThere`). A number is read back where it stands (`ReadCodedDoes`),
  hence a message (`MessageIsRead`), hence what a NAL yields and leaves in force
  (`ScanNalDoes`); each round of the walk takes one NAL (`NalRoundDoes`, along
  the starts of `Layout`), as the meaning of the access unit does
  (`InForceNext`, `MeantByNext`). `AnnexBAssumption` is the standard's: 3 is a
  byte below 0xFF, the stop byte and the last byte of a header are not 0; and
  that a parser without a parameter set accepts nothing.
* `StreamOwnershipProofs`. Every step of a role is a step or a stutter of
  `MapSpec` (`OwnershipImplementsMap`). `OwnInv` adds to the types that an
  owner is registered (`SoleOwner`), that a puller that has left the map is
  the only one that may still remove a ring, and that a publisher that leaves
  its entry has emptied the key; it gives `OwnershipSoleOwner` and
  `OwnershipNoOrphan` for any number of workers. `OwnershipRingKept` adds,
  for one worker, that at most one role is in the middle of an operation and
  that a role about to remove a ring has the key to itself.
* `AdmissionProofs`, the webhooks. Fail-closed admission is not inductive: a
  poll reads an answer given earlier. `RequestInv` adds that a request that can
  still be read belongs to a role that is not authorised, that its deadline and
  its age add up, and that its answer is the webhook's first; for blocks, that a
  denial still to be read leaves a whole TTL after the poll. `GateInv` gives
  `GateFailsClosed` and `BlocksAreJustified`, for any number of listeners,
  callers and keys, teardown included. For player keys `CachedPermission`, that
  a live permission in the cache never outlives the one the webhook gave, is
  inductive with the types and `DrainInFlight`, and gives `AdmissionPermitted`
  for any caps. `NoTimeoutOverPermission` needs its converse: a permission in
  force whose key is cached is in the cache with its whole time. `GateCapsHold`
  and `KeyCapsHold` are the caps of both, where an insert into a full cache
  removes the entry that ends first.
* `AdmissionProofs`, the other tests. `RefusalsAreReal` holds for any number of
  workers and listeners. `LimitHolds` assumes `OneListener`: one listener, one
  worker; its invariant `AcceptInv` says that every open player is registered,
  that one accept is under way at a time and that the place it found is still
  free. Neither half of the assumption can go (section 5). `AclFirstRule` keeps,
  for each role, a function that traces each stored rule to its line of the
  file, in the order of the lines; the walk stops at the first stored rule that
  names the peer, which is then the first line. `RateIsExact` keeps that a
  tracked address has, in its window, exactly the webhooks really sent: the
  times are ordered, so popping from the front removes the ones that have left
  the window and no other. `AdmissionImplements` shows that the composition of
  the tests implements each of them, and `AdmissionCaps` that all caps hold
  together.
* `ServerProofs`. `EgressInOrder` needs `StagedInv`: the bytes in `m_data` end
  where the reader stands, and `m_data` is empty or holds at least a packet, so
  a fetch never follows a remainder. `EgressStuckJustified` needs `StreakInv`: a
  streak of refusals is never older than the last packet sent, and a role that
  has ended is parked. `ReapJustified` needs `SilenceInv`: the age the code
  measures never exceeds the real silence nor, once there is one, the age of the
  permission. `PidFileIsTheServers` needs that the file of an instance about to
  write is its own and empty: a path's file is one value, a create finds it
  absent, an unlink finds the instance's own number in it, a clean-up that of a
  dead one or an empty file nobody holds. `PushDialsOwnAddress` needs that the
  lists of URLs and of vetted addresses stay paired (`PairInv`) and that the
  look-up waited for is that of the entry at hand (`WaitInv`), not an abandoned
  one. For the server, `LifeInv` says that managers are made one after the other
  and what each list holds of them; `ConfInv` that a generation some manager
  refers to is not released; `GroupInv` that a worker that runs is in its
  manager's list and the manager's maps are there. The walk of `check_invalid()`
  is followed place by place, by induction on a set of places.
  `TreesOutliveManagers` and `NothingFreedByTwo` exclude the two files of
  section 5 ("first" and "bare"), where they are false;
  the former is for any number of workers, the latter for up to two, since it is
  false for three (section 5).
* `RelayProofs`, for one worker. `RelayInv` says for each relay role that while
  it is up its publisher is there and knows it as a child (`RoleInv`), for a
  call under way that the upstreams it has still to connect have no role and no
  retry (`CallInv`, `Ahead`), for each session that a manager it never made has
  no relays and that a session that leaves is in the middle of its `uninit()`
  (`SessionInv`), and that an upstream has a role or a retry, not both
  (`OneRole`). It gives `NoRelayOutlivesItsPublisher` and, if no upstream is
  listed twice, `UpstreamsAreFedOnce`. With two workers the first is false
  (section 5); the second still holds in what TLC explores.
* `StartProofs`. `StartServesConfiguration` is for any blocks, specs, names and
  foreign ports. The loops of the code are recursive functions of the model;
  each is shown to be a loop of `CountingTheorems` (`PushRangeIsLoop`,
  `ParseIsLoop`, `InitConfAppIsLoop`) and followed round by round.
  `PortListAsWritten`: the port list has every port an entry names, once, and a
  spec is refused exactly for a bad entry, which one above 65535 (`MaxPort`) is.
  `init_conf_app()` keeps a table true to the blocks read (`TableTrue`), only
  extends it (`TableGrows`), and stops only at a name the configuration uses
  wrongly (`NamesWrong`). `StartInv` joins the parts of a start: the ports still
  to be opened are those of the spec at hand (`TodoOfSpec`), every listener
  comes from a spec (`ListenersOfSpecs`), every port of a spec that is done is
  served (`PortsServed`), the names are those of the blocks done
  (`NamesOfBlocks`), and every server done listens (`ServersListen`). It assumes
  of a configuration what the parser and the integers of the code give it
  (`ListenAssumption`: a file has a server block, ports are natural numbers).
  `TreeIsAsWritten` is for any table of directives and any file, of any length
  and nesting. What the brackets of a file say of a line depends on the lines
  before it only (`EnclosingPrefix`), so one more line changes the meaning of
  few blocks (`ChildStep`, `SiblingStep`, `NamesStep`). `ConfInv` says that
  while the file is orderly the tree is the one written so far (`TreeIs`) and
  that the active calls are those of the open blocks (`FramesMatch`, along
  `IsStack`): a call that waits knows the block its nested call reads; the
  innermost one knows its own block with the flag `child` set if there is no
  block in it yet (`Fresh`), and else the last one in it with the flag cleared
  (`Used`). That is why one flag for all calls is enough: only the innermost one
  reads it.

Only model-checked. All liveness, which is out of the prover's reach (`Drains`,
`KickedLeaves`, `PendingResolves`, `BlockEnds`, `HeldResolves`, `RefusalEnds`,
`StagedResolves`, `PullerRecovers`, `RetiredFreed`).

## 5. Findings

Seven have a run whose counterexample is the schedule; see `findings` in
`PROJECT.json`:

* with `worker_threads` of 2 or more, bytes out of order after a torn pair
  (`put()` counts after the unlock), and a ring lost to a puller's `uninit()`,
  which removes by key after the key has changed hands; and a takeover of a
  broadcaster whose media arrives between `has_recent_recv_data()` and the kick,
  where `CONFIGURATION.md:82` has the guard refuse the newcomer. On one worker
  nothing falls between the two;
* with any number of workers, the teardown of a listener leaves held players'
  sockets open, and runs while the listener's worker may be in `handler()`;
* a dynamic pusher whose upstream could not be reached at the start is logged as
  "will retry on reconnect" and never retried unless another of its relays
  breaks;
* a reload whose file fails before its first block frees the configuration the
  running manager points into.

Others show when the constants or a property are changed, or were met in
reading the code; they have no run:

* `RingKept` with three publishers on one key, `SharedWorker = FALSE` and no
  puller: a publisher that was refused in `set_push_2_publisher` reads no
  owner in its `uninit()` (`SLSPublisher.cpp:142`) and then removes the ring
  of the next one.
* `AdmitWithinLimit` with `SharedWorker = FALSE`: listeners on two workers
  both find the last place (`SLSListenerHandler.cpp:1158`). With two listeners
  on one worker: a limit that a key set at one is unknown to the other
  (`SLSListenerHandler.cpp:987`), where `PLAYER_KEY_IMPLEMENTATION.md:358`
  speaks of "all subsequent players on that resolved stream".
* At the cap on validations `CacheMiss` holds a player though no request was
  sent for its key, where `SLSListenerHandler.cpp:555` says that one was
  dispatched. It is let in if another player has the key validated, or timed
  out; `HeldResolves` covers it.
* `NoOrphanRelay` with two workers: a `reconnect()` that is under way while the
  publisher detaches its children opens a relay after the detach
  (`SLSPublisher.cpp:109`).
* `check_invalid()` goes on with iterators its own `erase()` invalidated
  (`SLSManager.cpp:703`). `CheckedWorkers` follows it: with two finished
  workers the second is skipped and met twice, or the walk ends in undefined
  behaviour; `RetiredFreed` counts a crash as an end of the process. With
  `WorkerThreads = {3}` TLC finds `NothingFreedInUse` violated: where the second
  `delete` of a worker does not crash, the erases shorten the list to nothing
  and the manager is destroyed while its third worker still runs.
* `ConfOutlivesManager` with `FileFaults = {"bare"}`: a file that starts with a
  closing brace parses without an error and without a block (`conf.cpp:605`),
  and line 670 gives the old tree to a second `shared_ptr`; it is freed under
  the new manager when the old one is destroyed, where `conf.hpp:237` has it
  survive a reload.
* A publisher refused with a status other than 401 and 403 is not remembered
  (`SLSRole.cpp:1003`). `CONFIGURATION.md:108` says that any stream id whose
  look-up "returns non 200 is remembered", and so do `sls.conf:188` and the
  comment at `SLSListenerHandler.cpp:800`. `BlockJustified` states the code's
  rule; the documented one is false of the model.
* `TimecodeGenuine` without its exception for a lost start: a packet that is
  lost, or marked as damaged and skipped (`SLSTimecode.cpp:826`), with a
  picture's PES header leaves the rest of the picture to the access unit before,
  whose PTS is published beside the timecode. `CONFIGURATION.md:168` speaks of
  the PTS "of the access unit the timecode came from".
* HTTP threads read `sls_manager` and a role's `m_srt` without a lock while the
  main thread and workers replace them (`srt-live-server.cpp:321`,
  `SLSRole.cpp:612`).
* With `worker_threads` 0 a retired manager is never driven again, so it never
  drains; `RetiredFreed` is stated for a worker thread.
* A reconnect of a dynamic pusher looks the host up again
  (`SLSPusherManager.cpp:385`), where the comment at line 100 has it "never
  re-resolves"; `DialsOwnAddress` is stated for the first dial. A URL without a
  port makes `stoi` throw (`SLSRelay.cpp:202`); the model ends the process.
* `README.md:294` forbids equal publisher and player names "in the same server
  block"; the test is made within one app block (`SLSListenerConfig.cpp:215`).
* `CONFIGURATION.md:144` speaks of access rules as if IPv6 were not compared; it
  is, and a rule that spells an IPv4 host in its mapped form names nobody
  (`conf.cpp:251`).
* A role without a probation is reaped by the ordinary idle timeout while it
  waits for its webhook (`sls_idle.hpp:39`); the comment at `SLSRole.cpp:1012`
  is about the probation that starts once the webhook has passed.
* Under an H.264 table the type of a NAL is its first byte masked with 0x1F
  (`SLSTimecode.cpp:536`), so with a stale table an IDR slice of HEVC is read as
  an SEI. `TimecodeGenuine` allows a misreading then ("pmt"). H.264 NALs of the
  extension types 14 to 17, which an HEVC table could take for others, are not
  considered.
* The result of writing the PID is not looked at (`common.cpp:407`): the server
  runs on with an empty file, which it does not remove at its end.
* `stat_post_interval` is compared in milliseconds (`srt-live-server.cpp:502`)
  and documented in seconds (`CONFIGURATION.md:34`).
* A refusal of a player key is cached for a quarter of the duration in whole
  milliseconds (`SLSListenerAuth.cpp:360`).
* `sls_reload_pid()` writes the file again under the name it had
  (`common.cpp:324`): a new location takes effect only at the next start.
* Drops of a viewer in its last, unsampled second are not counted;
  `CountedOnce` speaks of what was sampled.

## 6. Plan

Done: all components of section 1 but the last, and a theorem for every safety
invariant that a passing run checks. Left:

1. `UpstreamsAreFedOnce` for several workers, which TLC does not refute.
2. The HTTP control threads in `Server`, once the lifetime of `sls_manager` as
   they see it is settled in the code.

## 7. Not modelled

* `libsrt` and epoll themselves and the socket options: their outcomes are
  nondeterminism of the actions that call them.
* The HTTP routes and the JSON they build; only what they change or reset.
* The text of a stream id, a URL or a directive: whether it is sound is an
  input. The bit fields of an SPS and of a timing message: the model keeps whose
  they are. `ff_parse_pes_pts` (`common.cpp:641`), which only the client uses.
* The log rate limiter and the summary logger, which decide only what is
  logged, and the client program with its file reader, a sequential tool.
