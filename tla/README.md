# httpunk: TLA+ models and proofs

httpunk is an HTTP/1 and HTTP/2 client and server for Python whose protocol state lives in
Rust. The Rust core (`src/h1/conn.rs`, `src/h2/conn.rs`) keeps one record per connection behind
one mutex: every method of it is a critical section that decides and returns a *verdict*. The
Python drivers (`httpunk/h1`, `httpunk/h2`) do the I/O, wait on events and act on the verdicts
*after* the mutex is released. They run on asyncio, where a task runs alone until it awaits, or
on tonio, where tasks run in parallel on threads. What is hard in this code is hardly ever in one
critical section: it lies between two of them, in the acts a verdict asked for, in events that
several tasks share, in reads that are parked and cannot be cancelled, and in cancellations.
These models are about that.

Paths below are relative to the repository; `PROJECT.json` maps every definition that models code
to its lines.

## 1. The system

| part | state | operations | who shares it |
|---|---|---|---|
| HTTP/2 send path (`src/h2/conn.rs`, `httpunk/h2/connection.py`) | connection and stream send windows, `send_buffered`, the queues `pending_send` and `pending_capacity`, the pending buffer | `send_data`, `recv_window_update`, SETTINGS, resets, `take_pending`, `credit_written` | body senders, read pump, write pump, readers that reset |
| HTTP/2 client slots (`httpunk/h2/client.py`) | `num_open_streams`, `stream_limit`, `next_id`, `goaway` | `try_claim_slot`, `open_stream`, closing a stream, SETTINGS, GOAWAY, `fail` | request tasks and `ready()` waiters on the one `_slot_evt`, read pump, write pump |
| HTTP/2 receive path | the stream table, receive windows, `recv_unreleased`, the DATA-frame budget, the reset store | DATA, HEADERS, RST_STREAM, GOAWAY, SETTINGS ACK, `release`, `aclose_body` | read pump, body readers, application |
| HTTP/2 server (`src/h2/conn.rs`, `httpunk/h2/server.py`) | `pending_accept`, the caps on resets and on our own errors, the GOAWAYs sent, the shutdown PING | opening and publishing a request, `accepted`, resets, `begin_graceful_shutdown`, PING ACK, failure, close() | read pump, accept loop, handlers, write pump, closer |
| HTTP/2 close | the pumps' handles, background writers | `stop_pump`, joins, `release_writers` | closer, pumps, writers |
| HTTP/2 codec and HPACK (`src/h2/codec.rs`, `vendor-h2`) | the encoder's hash table, both dynamic tables, the read buffer, the partial header block, frame-size and list-size limits | encode and decode of every frame, size updates, SETTINGS applied at their ACK | writers, read pump |
| HTTP/1 codec (`src/h1/codec.rs`, `vendor-hyper`) | read buffer, body decoder, body encoder, keep-alive and upgrade verdicts | parse and encode a head, decode and encode a body, hand the rest over | accept loop or exchange, body reader |
| HTTP/1 client (`src/h1/conn.rs`, `httpunk/h1/client.py`) | slot, exchange, writer, idle watcher, transport | acquire, send, read head, body, release, watch, upgrade, close | request tasks, request writer, watcher, closer |
| HTTP/1 server (`src/h1/conn.rs`, `httpunk/h1/server.py`) | current request, parse buffer, body decoder, watcher slot, deadline clock, transport | accept loop, respond, read body, `peer_closed`, drain, detach, shutdown, close | accept loop, handler, body reader, watcher, watchdog |
| pools (`httpunk/util/pool.py`) | `Singleton`: state, connection, connect round; `Cache`: idle connections, closed; `Map`: the table | get, checkout, check-in, retain, aclose | caller tasks |
| graceful shutdown (`httpunk/util/graceful.py`) | count of watchers, signal, event | watch, shutdown | watchers, closers |
| asyncio server protocols and sniff (`httpunk/asyncio.py`, `httpunk/util/auto.py`) | the serve task, `_sniff_cancel`, `_graceful_requested`, `_graceful_applied`, the registry | sniff, serve, close, `graceful_shutdown`, `ServerConnections.shutdown` | listener, serve tasks, callers of shutdown() |
| connect and proxy, types | see section 8 | | |

Hard behaviours and what would be correct, part by part:

* **Send path.** Senders wait on their own event and take turns in two queues. Correct: no window
  overrun, the buffer's ledger balances, every departure from the front of a queue wakes the next,
  no wake-up lost between a test and a wait.
* **Slots.** A slot is claimed in one step and opened in another, and all waiters share an event
  that each of them clears. Correct: a slot is freed once, GOAWAY holds for streams being opened,
  nobody sleeps on a free slot or a dead connection.
* **Receive path.** Every byte received is owed to the connection window by exactly one party until
  it is given back. Correct: the ledgers balance whatever ends a stream, a reader sees a clean end
  only of a whole message, and it always sees some end.
* **HTTP/1 client.** One reader of the transport, handed from the idle watcher to the exchange and
  back; a writer that may outlive the response. Correct: reuse only when both halves are done, an
  answer goes to its own request, joins end.
* **HTTP/1 server.** Four tasks may want to read the transport; bytes read by one belong to another.
  Correct: one reader, every byte parsed once and in order, no request cut short, no end of the
  client invented, close() returns.
* **HTTP/2 server.** A request is opened by the read pump, published after the lock, and accepted by
  another task; it can be reset, refused or disowned by a GOAWAY in between. Correct: the accept
  queue's books exact, the end of the accept loop signalled once and not before the requests a final
  GOAWAY covers have been served, GOAWAYs that tell the truth, a close() that ends.
* **Codecs.** Octets arrive cut anywhere; the two ends derive tables and framing from the same
  octets with different code. Correct: what was sent is what is read, both HPACK tables stay equal
  through SETTINGS, both ends cut the octets into the same messages, and neither awaits what the
  other will not send.
* **Pools and shutdown of many connections.** Correct: one driver per connect round and no stranded
  waiter, each connection owned by one party until closed, a destination's callers share one pool,
  the count exact; a shutdown() tells everyone, waits for everyone and returns.

## 2. The modules

| module | models | TLC module and runs | proofs |
|---|---|---|---|
| `H2Send` | HTTP/2 send path | `MCH2Send`: h2send_safe, h2send_live | `H2SendProofs` |
| `H2Slots` | client slots, GOAWAY | `MCH2Slots`: h2slots, h2slots_lost | `H2SlotsProofs` |
| `H2Recv` | HTTP/2 receive path | `MCH2Recv`: h2recv | `H2RecvProofs` |
| `H1Client` | HTTP/1 client connection | `MCH1Client`: h1client_safe, h1client_live | `H1ClientProofs` |
| `H1Server` | HTTP/1 server connection | `MCH1Server`: h1server_safe, h1server_live | `H1ServerProofs` |
| `H2Server` | HTTP/2 server connection | `MCShutdown`: shutdown | `H2ServerProofs` |
| `Graceful` | watched connections | `MCShutdown`: shutdown | `ShutdownProofs` |
| `ServerConns` | asyncio server protocols, sniff, registry | `MCShutdown`: shutdown | `ShutdownProofs` |
| `Singleton` | shared-connection pool | `MCPools`: pools | `PoolProofs` |
| `ConnCache` | pool of leased connections | `MCPools`: pools | `PoolProofs` |
| `PoolMap` | pools by destination | `MCPools`: pools | `PoolProofs` |
| `HpackRep`, `HpackFifo` | the abstract HPACK table: a queue | | |
| `HpackTable` | the encoder's hash table, which implements it | `MCHpackTable`, `MCCodecs`: codecs | |
| `Hpack`, `H2Codec` | HPACK coders; frames on the wire | `MCH2Codec`, `MCCodecs`: codecs | |
| `H1Codec`, `H1Wire` | the HTTP/1 codec; two of them over one connection | `MCH1Wire`, `MCCodecs`: codecs | |

`MCPools`, `MCShutdown` and `MCCodecs` check several components in one run. The components of such a
run share no state; where they meet (a coordinator calls `graceful_shutdown()` and sees the serve loop
end) neither waits for anything the other holds. So `part` says which of them runs in this behaviour,
and the others stay in their initial states, in which no action under a fairness condition is
enabled.

Conventions. One action is one critical section, or one act on an event, a channel or the transport
between two of them. A place (`pc`) says where a task is between its actions. In `H2Send` and
`H2Slots` the acts that a verdict asks for and that are still due are in `owes`.

A run explores several *scenarios*. The variable `scene` (in `H2Slots`, `preemptive`) is chosen in
`Init` from the constant `Scenarios` and never changes: it says how tasks are scheduled, which role
this end plays, and which of the hard things (resets, EOF, cancellation, close, SETTINGS, ...) happen
together in this behaviour. Everything at once would be out of reach; the scenarios are chosen so
that every pair of events the code has to order meets in one of them. The schedule is tonio's, where
any two acts of different tasks interleave, or asyncio's, where a task acts alone until it awaits.
`H2Recv`, `H1Client` and the pools interleave at every critical section, which includes both.

Definitions whose names end in `Mutant` (and `AfterContinueNever`) are the plausible bugs that the
properties are shown to catch.

### H2Send

`conn` and `flow[s]` are the vendored `FlowControl` (window and available capacity) as the send
side uses it; `q` holds both queues with the entries' flags and the frames of the current turn;
`credit` and `inflight` are DATA bytes queued since the last flush and in the batch being written.
A sender tries (`SendStopped`, `SendEmpty`, `SendNoWindow`, `SendNotMyTurn`, `SendYield`,
`SendPause`, `SendFrame` are the early returns of `send_data`, in order), clears its event, tries
again and waits (`_send_data`). The read pump takes WINDOW_UPDATE, SETTINGS, resets and ends; the
write pump wakes, takes the buffer, writes it and credits the streams. The end of a write and its
`credit_written` are one step (`PumpWritten`): the end of a write changes nothing that another task reads and no
action waits for octets to be on the wire, so a write that ends earlier than its credit is a
write that ends with it. Bytes are small units.

### H2Slots

A task sends one request or waits for readiness; its stream has its name, and its id counts 1, 2, ...
up to `MaxId` (2^31-1 in the protocol). `Start` to `WaitSlotEvt` are `_acquire_slot` and
`_wait_until_ready`: fail if dead, claim, clear the event, claim again, wait. `ReadBatch` to
`BatchEnd` is one read of the pump with its SETTINGS, GOAWAY and closes.

### H2Recv

The locked state is a record `me`; an operator that takes and returns it is a function of the code
called with the lock held. `RecvFrame` is `_dispatch`: the frame's critical section, then what the
pump still pushes into the body channels (`pump.push`), a step each. Readers receive a chunk, release
the frame's budget and the bytes. A WINDOW_UPDATE counts as sent when it is encoded. A head of an
informational response changes no state, a malformed one is `MalformedFrame`. The stops that a failure pushes into the
channels are one step with its critical section (`FailWith`), though `_fail` pushes them one by one: a reader looks at its own
channel only, and the pushes that a frame before the failure still owes to the same channel change nothing
else, so they can be taken to come before it; a frame after it pushes nothing there. `RecvData` tests a
closed stream in another order than the code, inside one critical section and with the same outcome. A reset is forgotten
at any time (`Expire`): the model has no clock. The pump reads on after another task has set the error slot, until
it fails or acknowledges a GOAWAY itself (`PumpOver`); the acknowledgement that another task's close
fires does not stop it. The streams that GOAWAY drops are told in any order, that of a hash map. Whether a content-length matches is a choice between
the two outcomes; refusing an oversized request (431) is left out.

### H1Client

Each task is one request. The locked state is spelled out in variables (`busy`, `active`, `closed`,
`err`, the writer slot, the watcher slot); a response is a head and a body item, possibly split.
`release_slot` is the sequence from `FinishExchange` over the watcher to `SetIdleEvt`, with a
cancellation possible at each await. Taking the transport and closing it are one step
(`CloseNow`), the orderly `_shutdown` too: who takes it is settled under the lock, nobody else can reach it after that, and
what a parked read or write of another task sees of the close it sees after either. Which error
`fail` stores is left open, `wait_idle` is an acquire followed by a release, HTTP/1.0 peers and the
serialisation of headers are left out.

### H1Server

The record `me` is `Inner` (`w` the watcher slot, `cur` the current request, `buf` the codec's read
buffer), `dec[r]` a request's body decoder. Tasks: the accept loop `serve`, the handlers `hd`, the
body readers `body`, the `peer_closed()` calls `peer`, the watchers `wt`; the deadline and the
graceful shutdown are single steps. The client's bytes are items (two halves of a head, a body, the
first bytes of a tunnel, rubbish), read one at a time or all at once. Left open: keep-alive and
switching verdicts of a response, the moment of the deadline. Left out: `half_close`, HTTP/1.0,
`NEXT_RAISE` (it changes no state). Merged: `peer_closed_now` and the arm that follows it,
`end_body_read` of a complete body and the arm that follows it, taking and closing a transport. On
threads the arm of a watcher, the store of its handle and the feed of a body read are steps of
their own. Unless the scenario has `"late"`, the body of a request is read before its response is
complete.

### H2Server

The locked state is `me`: the streams' states, `pendingAccept` and `resetPending`, the ids of the last
stream received and processed, the GOAWAYs sent, the shutdown flags. The acts due after a verdict
(publishing request s, publishing `End`) are in `acts`, one list per task, and are steps of their own. Tasks:
the read pump `rp` with the peer's frames, the write pump with the send lock, the accept loop `lp`, a
handler per request, the closer `cp`. The peer's PING ACK comes only after our PING was written. HEADERS of
a new stream above the final GOAWAY are ignored, those past the concurrency limit refused. Bodies, windows and the wake-up of the write pump are in `H2Recv` and `H2Send`.

### The codecs

`HpackTable` is `hpack/table.rs` slot by slot: the deque, the robin-hood cells, the chains of one name,
positions that wrap at `Word`. `HpackFifo` is what RFC 7541 asks of it, a queue with representations that
stand for a field; `ImplementsFifo` is the refinement (`INSTANCE HpackFifo WITH` the headers of the slots
as the queue). `Hpack` has both coders as operators over that queue, integers octet by octet included
(the assumption `IntegersRoundTrip` is evaluated by TLC). `H2Codec` sends blocks and control frames
over a wire of units that is cut into reads anywhere, from httpunk's `Encoder` or, to httpunk's `Decoder`, a
peer that may err. The receiver is httpunk's `Decoder` (`pump = "batched"`: the whole read is decoded before the SETTINGS ACK in it is acted on) or
a peer that acts on each frame in turn. `H1Codec` has `Server::parse`, `Client::parse`, the two encoders,
the body decoder's state machine and the body encoder as operators, with the limits on head and target
(431, 414) and the header lines that the application is given; `H1Wire` connects two codecs, or
one and a foreign peer, by octets in flight. Names and values are tokens; the chunk radix and the
limits are constants.

### ServerConns

asyncio: an action is what a task does from one suspension to the next. `serve[p]` is the serve task of
a protocol (sniffing, serving, closing, over), `host[h]` a caller of shutdown() with its round and deadline.
The driver is `H1Server`'s or `H2Server`'s and modelled there; here it has only its end: it ends when its client, an error or a graceful shutdown ends it, may hang,
and its close() may be jammed by a peer that never reads (`Jamming`). `GracefulCall` is one step, as on asyncio
`graceful_shutdown()` is: from the sniff's signal over the request and the guard to the state change of the driver's
own shutdown nothing is awaited.

### Singleton, ConnCache, PoolMap, Graceful

`Singleton`: a caller drives a connect round or joins one; `conn`, `rnd` and `state` are the pool's
fields, `ready` the rounds' events, `life` what became of each connection. A call's outcome is "canceled" if
it raised the pool's `Canceled` and "cancelled" if the runtime cancelled its task. `PoolMap`: `table`, the pools the factory
made, and the tasks that insert, clear and close. `ConnCache`: leases, the
checks of `_Lease.__aexit__`, evictions closed one by one; which idle connection is reused is left
open. `Graceful`: a watcher registers (when `watch()` is called), starts, runs the connection beside
a trigger task, joins both and releases.

## 3. What the runs check

Every property has at least one *mutant* in `PROJECT.json`: a plausible bug in the code it is about,
under which TLC finds the property violated with the same configuration.

**h2send_safe** (two streams, windows of at most 2 units, frames of 1 unit, four scenarios).
`SendLedgers`: the available capacity of every send window equals the window, which `stream_room`
relies on; no window is overrun or overflows, whatever WINDOW_UPDATE and SETTINGS do, although
SETTINGS may make a stream's window negative; what a stream has buffered is exactly what is queued,
or being written, and not yet credited. `QueuesMatchFlags`: the two turn queues, their membership
flags and the streams that wait agree. `NoLostWakeup`: bytes in the pending buffer always have a
write pump that knows of them, and when everything is quiet a sender that waits really has no
window to send with; no turn, wake-up or flush was lost on the way.

**h2send_live** (the same streams, a peer that only grants). `SenderProgress`: every chunk a sender
starts on is queued in the end or its stream stops.

**h2slots** (three tasks, limits absent, 0, 1 and 2, two stream ids, both schedules). `SlotLedger`: a
slot is counted exactly while it is claimed or its stream is open, through cancellation, refusal,
failure and used-up ids. `GoAwayHeeded`: a stream above the GOAWAY's last id is never left running,
even if it was being opened when the GOAWAY came; our GOAWAY goes out exactly when the last stream
has ended, and then the connection ends. `OpensWithinLimit` (asyncio): no stream is started above the
peer's limit of the moment. `NoStrandedWaiter` (asyncio): nobody sleeps on a free slot or a dead
connection. On threads the last two do not hold; **h2slots_lost** shows it for a dead connection
(`DeadFailsWaiters`, section 7).

**h2recv** (two streams, connection window 4, four scenarios of up to 4 frames). `CreditLedgers`: the
connection's receive window plus what its readers still owe is constant, so is the DATA-frame budget
plus the frames queued, each stream owes what its channel holds, and a peer with nothing left to
wait for is never left without a window (the connection always; an open stream if our SETTINGS take
no more than two thirds off the window it was opened with, which is `MildSettings`, true of the code's defaults and of
this run; divergence 23 is what happens otherwise). `SettledIsGone`: a stream that is over on both sides and read
to its end is out of the table. `TrueEndTold`: a clean end is only the end of a whole message, and a
stream that is over ends its reader's wait.

**h1client_safe** (two requests, four combinations of endings). `ReadInterest`: one task reads the
transport, and an idle open connection has its watcher. `ExchangesApart`: a request starts only on a
connection where nothing of an earlier exchange is left, on the wire or in the writer, and never
gets another's answer. `NoStrandedWaiter`: no task sleeps on a free slot that
nobody is about to claim or to announce. **h1client_live** (close() with
early answers, upgrades, request bodies that raise and async bodies). `ClosedEnds`: close() ends, and every
request on a closed connection ends, whatever the server never sends or reads.

**h1server_safe** (two pipelined requests, three scenarios). `OneReader`, for the accept loop, the
drain, the body reader and the watcher; after the transport is handed over only a body reader that its
handler left behind (`"late"`) may still be in a read. `StreamKept`: on a connection that goes on, what was consumed,
what is buffered wherever, and what is on the wire is exactly what the client sent, in order, and a
well-formed client is never told otherwise. `ContinueFirst`: a 100 Continue never follows the response
it belongs before. `NeverCutShort`: neither the deadline nor a graceful shutdown closes the transport
under a request. `TrueEnds`: the end of the connection or a client that left is never invented.
**h1server_live** (threads, everything that may end a connection). `ConnectionEnds`: close() returns,
and a graceful shutdown ends the connection.

**pools** (three tasks each; three connect rounds, three connections, three pools of two keys).
`PoolSafe`: the pool's fields agree and a round has one driver; a waiter always has someone who will
wake it; an unclosed connection is the shared one or in exactly one pair of hands; aclose() is final
for rounds begun before it; Canceled comes only from aclose(). `CallsEnd`: every call ends. `CacheSafe`: a
connection is never in two hands, none is parked with an unfinished exchange, a closed cache stays
empty, and only a cancelled eviction leaves a connection open that nobody holds. `MapSafe`: a pool
handed to a caller is the destination's one pool until it is taken out to be closed, and a closed map
stays empty, even of a pool whose factory ran meanwhile.

**shutdown** (three watchers and one shutdown(); three protocols and one shutdown(), with and
without a timeout; one HTTP/2 server connection with two requests, five scenarios). `GracefulSafe`: the
count is exact and shutdown() returns only after everyone registered before its signal left.
`GracefulEnds`: shutdown() returns unless a watcher was cancelled before its first step, and an ended
watcher leaves. `DrainsEveryone`: when ServerConnections.shutdown() returns, the serve task of every
connection made so far is over, late registrations included; it cancels nobody before its deadline,
and no driver or sniff that should have been told runs on unaware, whichever of the request and the
driver came first. `ConnsShutdownEnds`: it returns, unless a close() is left with a jammed peer.
`AcceptBooks`: `pending_accept` is exactly the requests published and not accepted, the reset ones among
them are what the cap counts, and active streams are counted one by one. `DrainedBeforeEnd`: on a
connection that has not failed the accept loop is ended only when no stream is active, and no request
is published behind its end. `GoAwaysTrue`: in service, the last ids of our GOAWAYs never grow, and
no request above the final one is opened. `ServerEnds`: a graceful shutdown and a failure end the accept
loop, and close() returns.

**codecs** (the bounds are in section 4). `TableValid`: cells, chains and slots of the encoder's map agree and
every probe finds its name. `ImplementsFifo`: the table implements the queue. `RoundTrip`: what was
sent over HTTP/2 is what is read, in order, complete; a stream's error costs the stream, a frame no
peer may send the connection. `TablesAgree`: the two dynamic tables are equal once everything sent has
been read, and the size updates pending are the least and the last size asked for. `BodyAgrees`: both
HTTP/1 ends take the same head, body and trailers from the same octets. `EndsAgree`: neither end
waits for what the other will not send, and both agree whether the connection is idle, a tunnel or
over. `FramingOrderFree`: the line-by-line parse gives the framing the lines call for together, in any
order, and the application is told that framing and no other.

## 4. Bounds, and why they are enough

* *Two senders* are enough for a queue to have a front and a back, and for one to leave from either
  place. A window of 2 with frames of 1 gives room for two frames, one frame and none; SETTINGS
  between 0 and 2 make it negative. `ConnGrant` and `StreamGrant` bound how much the peer grants
  ahead. `MaxSendBuf` 2 and `BurstFrames` 1 make every early return of `send_data` reachable.
* *Three tasks* on slots: one that holds, two that wait on the same event, which is what the shared
  event needs to go wrong. `MaxId` 2 uses up the ids.
* *Receive windows.* `ConnWindow` 4 with a threshold of 2 lets the update be due and not due;
  `RecvInit` 3 against `StreamWindow` 1 is a window that SETTINGS shrink; frames of 0, 1 and 3 with or
  without a byte of padding are within, at and above them. `BudgetMax` 2, `MaxEmpty`, `ResetMax` and
  `MaxErrors` 1 are the code's limits (in the hundreds and thousands) at a size where all are hit.
* *HTTP/1.* Two requests are enough for one to start while the other ends, on the client and,
  pipelined, on the server. `MaxStrays` bounds bytes no request asked for.
* *Pools.* Three rounds let a round be dropped, taken over and replaced; `MaxCalls` bounds the calls.
  Three connections are one idle, one leased and one on its way out. Three map users race to insert
  one pool while the third clears or closes.
* *Shutdown.* Three watchers: one early, one ending, one late. Three protocols: one that sniffs, one
  that may jam, one plain, each before, in or after a round. Two HTTP/2 requests are one above and one
  below a GOAWAY; `MaxResets` and `MaxErrors` 1 let both caps be met and passed; each scene gives the
  peer as many frames as its kind of trouble needs.
* *Codecs.* The HPACK map starts with 4 cells (three usable), holds up to four fields and so grows
  once; hashes collide and wrap; `Word` 6 lets positions overflow. The wire table holds two fields, the
  first frame size cuts a representation in two, `MaxList` 8 is passed by one field a little and by
  another far. Two blocks and three SETTINGS, four of them in all
(`NTotal`), put a SETTINGS, its ACK and a block in every order; the sizes 2, 4 and 6, from 5 and against the encoder's cap
of 5, shrink the table and grow it, change it a third time before a block, grow it twice above what it is, and
are cut by the cap. What only a foreign sender does is sent to httpunk's `Decoder` only. HTTP/1
  bodies have up to three octets that look like framing; the chunk radix is 2 and chunk sizes are at
  most 7, so the size counter overflows; `ExtLimit`, `MaxHeaders`, `MaxTrailer`, `MaxBuf` and `MaxUri` are met and
  passed by foreign messages.

`SYMMETRY` permutes streams or tasks, which no property or constant tells apart, and is used only
in runs without temporal properties of the liveness kind. The `VIEW` of `MCH2Send` hides the
leftovers of streams that are gone, which no guard and no property reads. Deadlock is not checked
where a finished connection is a proper end (`CHECK_DEADLOCK FALSE`); `H1Client` and the pools have
explicit end states instead, and so have the parts of `MCShutdown`.

## 5. Fairness

Safety runs have none. The liveness runs assume:

* `H2Send`: a task in the middle of its acts goes on (weak). A sender whose event is set, the write
  pump and the read pump inside a batch run if they are ready again and again (strong: tonio's
  threads and asyncio's first-in-first-out ready queue both give it; weak fairness would not do,
  because under asyncio another task's turn disables the action). The peer keeps granting window to
  the connection and to each stream: flow control promises nothing to a sender whose peer does not.
* `H1Client`: tasks, the watcher and close() go on; a write on a closed transport fails. Nothing is
  assumed of the server.
* `H1Server`: the accept loop, body readers, watchers and `peer_closed()` calls go on; handlers answer,
  the head-read deadline, if there is one, fires, and the caller closes the connection after its loop
  ended. Nothing is assumed of the client. `WaitSpec` drops the last three.
* `Singleton`: a caller goes on; connects succeed or fail, in the end. `Graceful`: each watcher's tasks and
  each caller go on, and a server that was asked to drain ends.
* `H2Server`: the tasks go on and handlers end; a write ends or fails once the transport was shut down,
  and so does a read of it; the peer answers the PING that reached it. Nothing else is assumed of the
  peer.
* `ServerConns`: ready tasks run, a deadline passes, a driver told to drain ends when there is no deadline
  (shutdown() without one promises nothing of a handler that hangs), and close() ends unless jammed.

In `Singleton`, `Graceful`, `ServerConns` and `H2Server` every task takes finitely many steps (calls, rounds and
the peer's frames are bounded), so "ends" is stated as `<>[]`: what does not hold in the end was
waited for in vain. The one weak fairness condition on all ready tasks of `ServerConns` is, for the
same reason, as good as one for each.

## 6. What is proved

TLAPS checks the following for every value of the constants, from the named assumptions of the
modules (TLC evaluates them in the runs).

**H2SendProofs** (assumption `SendConstants`: windows and limits are naturals, the initial window is
one a peer may ask for, a frame and a burst are not empty). `SendInvariant`, and from it
`SendAccounts` (`SendLedgers`, the property of the run) with its parts `SendTypeCorrect`, `SendAvailEqualsWindow`, `SendWindowsBounded` and `SendBufferLedger`, for any number
of streams. The inductive invariant `SendInv` is these four, `scene` being one of the scenarios, and
`IdleClean`: a stream that has not been opened has sent nothing and is in nobody's hands. That part
is needed because opening a stream sets its window and otherwise relies on the fields being fresh.
`AvailEqualsWindow` must be proved together with the bounds: `send_data` takes the room from the
available capacity and charges it to the window, so one is bounded only because the other is.

`SendQueuesSound` and `SendLosesNoWakeup` follow from `WakeInvariant`. The property of the run,
`NoStrandedSender`, speaks of quiet states only; `WakeInv` says who is to act in the others:

* `QueuedMidChunk`: a queued stream's sender is in the middle of a chunk. END_STREAM, a reset that its own
  task makes and the reuse of a stream therefore always find it out of the queues.
* `SleepersOK`: whoever sleeps, with no verdict naming it, is on a stream that may send, and in neither
  queue only if it has no room of its own.
* `RotationMoves`: the front of the rotation is awake, or a capacity act is owed, or it has sent a burst
  in this turn, and then `BufferLedger` says that a credit, which names it, is still to come. Waiters
  for a connection window that is there have somebody before them, or an act owed.
* `BytesOnTheWay`, `BatchHeld`, `PumpsOweNothing`, `FailedIsEmpty`: queued bytes have a wake of the write pump due;
  a batch is being written or the connection is failing.

That queues hold a stream once is proved by `SequenceTheorems` on `FromFirst` and `Without`, the two ways an
entry leaves; both choose the least index, whose existence rests on the well-foundedness of `<`.

**H2RecvProofs** (`H2RecvConstants`). `RecvCredits`, `RecvSettled` and `RecvTrueEnds`, each the property of the run,
for any number of streams, any windows, limits and frame lengths, from `RecvInvariant`. `RecvInv` has four parts:

* The locked state (`MeOK`, `EntryOK`): a stream out of the table owes nothing, one that is over and
  still in it owes something, which is `SettledIsGone`, and active streams are counted one by one.
* `Balanced`: available capacity plus what all the readers owe is the connection's window, and the budget plus
  what frames in the queues were charged is never less than its maximum.
  The sums run over all the streams. That a step of one stream moves a sum by what it moves its own term
  (`SumChange`) is induction on the number of streams, done by the least counterexample (`Least`, from the
  well-foundedness of `<`). `Tight` says that the window update
  that is still held back is less than half of the window; `FlowOK` says the same of a stream, and what SETTINGS
  that came in between make of it.
* What the reader, its queue and the pump's hands hold: together all the body received, while the stream
  flows (`WholeSoFar`); the first end in the queue or on its way is a clean one only with everything before it
  (`EofInQueue`, `EofOnItsWay`). `OwesOK` says the same of the bytes not released.
* Who tells a reader the end: a stream that is over has an end in the queue, on its way, or its reader is done
  (`Told`, `ToldBefore`). A stream that was closed behind the pump's back in the middle of a frame is
  `Doubtful` until the pump has reset it (`DoubtOK`), and the one case where that reset finds nobody to tell
  is excepted, in the property as here (divergence 4).

An action is a chain of the operators that take and return the locked state. `Kept` is what each of them keeps of the
balance and of the other streams, proved once per operator; an action's proof then says what became of its own
stream. The proof corrected the model: the pump reads on after another task has set the error slot, as
the code does, and the window of a stream is promised only within `MildSettings` (divergence 23).

**H2SlotsProofs** (`SlotConstants`). `SlotsCounted`, `SlotsHeedGoAway`, `SlotsStrandNobody` and `SlotsOpenWithinLimit`
for any number of tasks and any limits, from `SlotsInvariant`. `Ledger`: the count is the number of
claimed slots and of streams, two cardinalities. `Farewell` says what the reply to a GOAWAY, the error
slot and the read pump say of the streams. `AwaitsOK` is for asyncio only, as the two properties are: what
a task found after it cleared the event still holds when it awaits, and from then on whoever makes it
false owes the event a set. On threads that fails, which is divergence 1.

**H2ServerProofs** (`H2ServerConstants`). `ServerKeepsBooks`, `ServerDrains`, `ServerGoAwaysTrue` and `ServerTyped` for any number
of streams, from `ServerInvariant`. `Counted` and `Books` are about the locked state. `Shelf`: a published request that
nobody accepted is in exactly one place, on its way, in the queue or in the loop's hands. `ActsOK`: only the read
pump publishes, one request at a time. `EndsOK`: on a connection that has not failed the end of the
accept loop is sent only with the drain complete, a request being published is active, and nothing
follows the end. `ShutdownOK` and `Goodbyes` tie the GOAWAYs sent to the place of the shutdown PING; like the
property they are claimed of a connection in service only (divergence 20).

**H1ClientProofs** (`H1ClientConstants`). `ClientReaders`, `ClientStrandsNobody` and `ClientKeepsApart` for any number
of requests and any scenario. `Alone` says which places of a task are inside the exchange, that one task at a
time is there and that it has the slot while the connection lives; `WatcherOK` and `ReaderOK` say at which of them
the watcher reads, at which the exchange does, and that `release_slot` comes back to a watched connection.
`WakeOK`: a task about to wait finds the event set, unless the slot is taken, or about to be taken or
announced. The proof corrected `NoStrandedWaiter`, whose first form held for two tasks only: with three, one may clear
the event after the release of another and be about to take the slot beside a sleeper.
`ClientKeepsApart` needs the order on the wire: the server owes an answer in up to three items, and `Continues`
says at each place of an exchange that what the task has read, what the watcher has read for it and what has
arrived are a beginning of the answer from where the task stands to what is still owed. An exchange whose
read the watcher threw away (`Lost`) is going to fail. `Fresh`, nothing owed and nothing left, is then what
holds whenever the slot is free. With stray bytes the theorem says only what the property does.

**H1ServerProofs** (`H1ServerConstants`). `ServerReaders`, `ServerNeverCutShort`, `ServerTrueEnds` and
`ServerContinuesFirst`, each the property of the run, for any number of requests and in any scenario, from `ServerFits`. `CoreInv` says who can be
where: a handler works on the current request only, and while the accept loop serves it (`ServeOK`); a body
reader in its read belongs to that request, whose body is then not over (`BodyOK`); a watcher at work has the
slot, the body is over and no buffer holds anything (`WatchOK`). So the three readers exclude one another,
whatever the interleaving of the arms, which four tasks make, with the stores of their handles. On a
connection already closed a task may still be anywhere: those parts are conditional on the transport. `ClockOK`,
for the action property: the head-read clock runs, and a read is parked, between requests only. `ReadsTrue`
follows what a read says of the client's end from the watcher through the slot to the request that is told;
`OneThread` adds, where tasks do not run in parallel, that the loop never finds an empty slot on
a connection in service, which is what fails on threads (divergence 9).
`ServerContinuesFirst` needs that no head is parsed twice, or a second handler of the same request would
find the first one's response on the wire. That is `ServerParsesOnce`: `Stock` is what lies in the socket, the codec's
buffer, the slot, the loop's hands and each decoder, body reader and watcher, and `HeadOnce` says that the head
of a request lies in one of these places at most, once, and in none before it is sent or after it is parsed.
Every move of octets is one of five (`Poured`, `Eaten`, `ReadInto`, a hand-over, a drop), and each keeps that.
`SaysOK` then ties the two tasks that may write: a reader about to write its 100 Continue found the response
unclaimed and set `continue_sent`; the responder that claims it after that waits (`head_pending`) until the
reader is past the write.

**PoolProofs** (`SingletonConstants`, `RoundsNumbered`, `CacheConstants`, `MapConstants`). `SingletonPoolSafe` for any number of
callers, rounds and calls, from `SingletonInvariant`. `PoolInv` adds to the properties the facts that
make them inductive: what the result and the event of a round are in each phase, that a task which
drives a round is the only one (`Exclusive`), what a driver's and a holder's place says about the
life of the connection in its hands (`DriverOK`, `HolderOK`), and that every connection that is
not closed is somewhere (`Accounted`).
`CacheIsSafe` for any number of tasks and connections, from
`CacheInvariant`: `HandsOK` says that no two tasks, and no task and the idle list, have the same
connection, `PlaceOK` what a task's place says of the connection it has, `ParkedOK` what is true of an
idle one. `MapIsSafe` for any number of destinations, callers and pools: to `SharedUntilClosed` and `ClosedForGood`
the invariant adds `PoolsKnown`, that a pool in the table or in a caller's hands was made for that destination.

**ShutdownProofs** (`GracefulConstants`: finitely many watchers; `ServerConnsConstants`). `GracefulIsSafe` for any
number of watchers and of shutdown() calls: `WaitedFor` says that a shutdown() which saw the count at zero
has nobody left of those before its signal. The count is a cardinality, so each registration and
release goes through the library's theorems on finite sets. `ConnsDrainEveryone` is the action property of
`ServerConns`: `LiveRegistered` (a connection whose serve task runs is in the registry), `RoundsDone` (what the loop
of shutdown() has seen is over) and `SniffTold` (a sniff that a shutdown finds knows of it).

Only model-checked:

* all liveness properties, since fairness is out of the prover's reach;
* `StreamKept` of `H1Server`, which compares the concatenation of all the buffers, by a fold, with what was
  sent, and holds in the scenarios of the run only (divergence 13);
* the codecs: `Hpack` and `H1Codec` recurse over octets, and `TableValid`, like the refinement of `HpackFifo`
  by `HpackTable`, is about chains of any length in a hash table, which is induction over data. (Induction
  over the naturals, as for the sums of `H2Recv`, is within reach by the least counterexample.)

## 7. Known divergences

Where the code does something other than its comments say. The first is the run h2slots_lost; the
others are stated in the modules, outside the runs, and each is reproduced by checking the property
with the constants given.

1. *Lost wake-up of slot waiters* (`httpunk/h2/client.py:148`; `DeadFailsWaiters`). "A GOAWAY / failure
   that arrives while parked fails this request PROMPTLY." Two waiters clear one event; on threads the
   failure can set it after the first one's last test, the second clears it, and the first sleeps
   until close().
2. *Order of the capacity queue* (`src/h2/conn.rs:2100`; `CapacityInOrder` of `H2Send` with three
   streams, `ConnInit` 1, `InitWindows` {1}, `MaxWindow` 2, `Increments` {1}, both grants 1,
   `LiveScenes`). "The waiters take the window strictly in order" holds of the admission at the front;
   a waiter woken by its own credit or WINDOW_UPDATE leaves from any place.
3. *Bytes of disowned streams* (`src/h2/conn.rs:1019`; `GoAwayLedger` of `H2Recv`, `H2Recv.cfg`).
   `abort_stream` clears a stream's ledger because "the connection is gone", but `recv_go_away` calls it
   on a connection that goes on: the bytes not yet released stay out of its window.
4. *Reader of a refused response* (`src/h2/conn.rs:2307`; `NoReaderStranded` of `H2Recv`, `H2Recv.cfg`).
   HEADERS with END_STREAM that are refused have already ended the receiving half; if the sending half
   ends before `reset_on_error` looks the stream up, the stream is gone, the reset has no handle to
   notify, and the reader waits until the connection ends.
5. *Early bytes as a response* (`src/h1/conn.rs:1501`; `StrayNeverResponse` of `H1Client`, scenario
   {"stray"}). Between the watcher's read and `watcher_completed` a request can start on another
   thread, and takes over bytes that were there before it.
6. *A held slot freed* (`httpunk/h1/client.py:435`; `HeldIsBusy`, {"cancel"}). A bodyless response
   cancelled inside `release_slot` releases twice; in between another task may have claimed the slot.
7. *Joining a writer on an open transport* (`httpunk/h1/client.py:401`; `JoinedWriterCanEnd`,
   {"detach"}). "The transport is closed by now" is not so on the upgrade path: an upload that the
   peer does not read holds the response up.
8. *A tunnel without a transport* (`httpunk/h1/client.py:402`; `TunnelHasTransport`, {"detach",
   "close"}). close() during that join takes the transport that `upgrade()` then hands over as None.
9. *Invented end of a client* (`src/h1/conn.rs:920`; `NoFalseEof` of `H1Server` without its
   `~scene.threads`). A handle stored between `take_watcher_handle` and `take_watcher_result` keeps a
   consumed slot, and the next head read takes it for EOF.
10. *Abortive end of a graceful shutdown* (`src/h1/conn.rs:724`; `GracefulIsOrderly`, scenario with
    "shutdown"). Between `finish_response` and the next `begin_read` nobody records that the end was
    orderly; close() then may drop the tail of the response.
11. *Refused handle on an open connection* (`src/h1/conn.rs:849`; `RefusedEndsAtOnce`, threads). A late
    `peer_closed()` of one request may make the next one's responder wait for its own watcher.
12. *Body of a drained request* (`httpunk/h1/server.py:176`; `WholeBody`, scenario with "late"). A reader
    that starts after the next request's drain sees a clean end and no data.
13. *Bytes fed after the drain's* (`httpunk/h1/server.py:206`; `StreamKept`, threads with "late"). A
    reader gives the read back before it feeds what it read; the drain may feed later bytes first.
14. *peer_closed() on a closed connection* (`httpunk/h1/server.py:243`; `PeerClosedReturns` under
    `WaitSpec`). "Never hangs", but close() does not set its event.
15. *Evictions given up* (`httpunk/util/pool.py:259`; `NothingAbandoned` of `ConnCache`). aclose() and
    retain() cancelled half-way leave the remaining connections open and unreachable.
16. *A count never dropped* (`httpunk/util/graceful.py:72`; `CountDrops` of `Graceful`). watch() counts when
    it is called; a coroutine cancelled before its first step never gives the count back, and
    shutdown() waits for ever.
17. *shutdown() that may not return* (`httpunk/asyncio.py:234`; `AlwaysReturns` of `ServerConns`, `Shutdown.cfg`).
    "Past `timeout`, force-close the stragglers (transport close + cancel their serve task) so this
    always returns." The transport's close() flushes first, so a peer that never reads leaves the
    HTTP/2 write pump in its drain; the cancelled serve task enters close(), joins that pump, and the
    last `asyncio.wait(pending)` has no timeout.
18. *Pools given up* (`httpunk/util/pool.py:368`; `forgotten` of `PoolMap`). Like 15: clear() and aclose() of a
    Map cancelled half-way leave the remaining pools open and unreachable.
19. *Late frames above a GOAWAY* (`src/h2/conn.rs:1724`, `src/h2/conn.rs:1687`; `LateFramesIgnored` of `H2Server`,
    `Shutdown.cfg`). "Late frames are silently ignored" (conn.rs:468) holds for HEADERS and DATA; a RST_STREAM or
    WINDOW_UPDATE on a stream whose HEADERS were ignored finds it idle and ends the connection, under
    the requests that are being drained.
20. *GOAWAYs after the end was announced* (`src/h2/conn.rs:2463`; `GoAwaysTrue` without `InService`).
    begin_graceful_shutdown() after the GOAWAY of a connection error, or after the one that acknowledges
    the peer's, sends GOAWAY(2^31-1) and so raises the last id; and after the acknowledging GOAWAY was
    fired from a handler the read pump goes on reading and may open a request above it.
21. *Table size within one read* (`src/h2/conn.rs:741`; `RoundTrip` with `MaxAllowed` 7 and `TableSizes` {7}). The
    comment at conn.rs:1208 says why the limits that the ACK brings must be on the decoder before it;
    the header table size is not among them, so a block in the same read as the ACK that raises the
    size is decoded with the old one.
22. *Tunnel or idle* (`vendor-hyper/src/proto/h1/role.rs:1301`; `TunnelOnConnect` of `H1Wire` with `ConnectNoContent`
    TRUE). "2xx to CONNECT: the connection becomes a raw tunnel" (`src/h1/codec.rs:672`): for a 204 the server
    switches, and the client takes the connection for idle.
23. *A stream without a window* (`src/h2/conn.rs:760`; `NoStreamStall` of `H2Recv`, `RecvInit` 10, `StreamWindow` 1,
    `ConnWindow` 12, lengths {2}, a client with {"settings"}). A `WINDOW_UPDATE` is held back until it is worth half of the
    window (`unclaimed_capacity`); then the acknowledgement of SETTINGS with a much smaller window takes the
    difference off what is left. A stream whose reader has read everything may be left at or below zero, with
    nothing to be released that would look at the window again. It takes an `initial_window_size` below 21845.

Smaller ones, met while modelling the codecs and kept in the models as the code has them: a
self-dependent HEADERS frame is a stream error before its block is decoded, so the two HPACK tables
part; the malformed mark of a header block is lost when the fragment it was found in ends inside a
representation; a malformed fragment without END_HEADERS drops the partial block, so that the
CONTINUATION that follows is a connection error; a connection error discards the frames decoded
before it in the same read; the list-size count restarts from the fields stored at each fragment;
`must_write_chunked` of the response encoder is not reset after a Transfer-Encoding that lacks chunked
(role.rs:830), so a Trailer or Connection line after it gets ", chunked" too; to an HTTP/1.0 peer a
stopping server with the application's own `Connection: keep-alive` says keep-alive and closes (left
out by a guard of `Respond`); trailers neither force a chunked body nor declare their fields, as
`httpunk/types.py:51` and `httpunk/h1/server.py:260` say they do (the comment at `httpunk/h1/server.py:943` says what
the code does). The applications of `H1Wire` set no Content-Length that contradicts the body they
then send.

## 8. Not modelled

* *Inside the codecs*: Huffman coding, the request and status lines, header syntax and case, the Date
  header, the fields of trailers, PUSH_PROMISE. They are pure functions of strings; the models take
  what they decide (a name, a token, a length, malformed or not) as data.
* *HTTP/2 close of a client*: the background body writers with `release_writers`, and the pump task of an
  async body (`_send_async_body`). Their steps on a stream are `H2Send`'s senders and resets; the
  joins of the pumps are in `H2Server`.
* *A sender given up silently*: an HTTP/2 sender cancelled while it waits for window, on a stream that
  is never reset, keeps its turn. The reset is the application's.
* *Answers to the peer's PING*; *431 for an oversized request*; `Map.retain`, which changes nothing of the map.
* *Client protocols of asyncio* (one handshake task, cancelled and joined by aclose()), *builders' options*, the
  match of the preface octet by octet.
* *Connect and proxy*: sequential, with no state that outlives them. *Types*: immutable data.
* *Transport back ends*: their reads, writes, events and locks are atomic operations of the models, their
  scheduling is a constant or a scenario.
* Details left out inside a module are named in section 2.

## 9. Plan

The order was: send path, slots, receive path, both HTTP/1 connections, pools, graceful shutdown; then
the HTTP/2 server, the asyncio protocols, the map and the codecs. Next:

1. Proofs of what is only model-checked: `StreamKept` of `H1Server`, from the order of the octets in the
   places where `ServerParsesOnce` finds the heads; `TableValid`, from what each robin-hood displacement keeps.
2. `H2Close`: a client's close() with `release_writers` and the pump of an async body; properties: close() ends
   without help, no background writer outlives it.
3. Further abstract specifications: a send window as a counter of credits that `H2Send` implements; the slot
   as a lock that the HTTP/1 client's acquire and release implement (outside divergence 6).
