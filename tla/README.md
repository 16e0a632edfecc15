# coresplitter: TLA+ models, checks and proofs

coresplitter lets several MeshCore companion apps share one radio. The radio
handles one command at a time and its replies carry no request identifier, so
the program is a multiplexer: it serializes the clients' commands, decides for
every frame of the radio whom it is for, answers what it can from a cache, and
keeps the messages each app missed. These modules model that logic; TLC checks
them on small instances and TLAPS proves the central safety properties for all.

Paths are relative to the repository root; line numbers are in
`PROJECT.json` under `map`.

## 1. Inventory

| part | source | state | operations | hard because |
|---|---|---|---|---|
| protocol classification | `src/core.rs` (`awaiting_for`, `classify`, `is_push_event`), `src/protocol/types.rs` | none | what answers what | codes are ambiguous between requests, and one push code is also a reply |
| request multiplexer | `src/core.rs` (`run`, `handle_client_command`, `handle_radio_rx`) | `in_flight`, `pending_queue`, `pending_acks` | accept, dispatch, route, time out, refresh | late replies, disconnects, two halves of a link failing separately |
| missed messages | `src/core.rs` (`register_session`, `replay_next_missed`, `store_message`), `src/node/state.rs` | sessions, `messages` and `clients` tables | identify, replay, store, echo, purge | connections close between storing and sending; several connections of one identity; restarts |
| radio connection | `src/core.rs` (`connect_backend`, `reconnect_radio`, `initialize_radio`), `src/backend/*` | channels to and from the backend, `radio_up` | lose, reconnect, handshake, resynchronise | failure in the middle of everything else, deadlines |
| response cache | `src/core.rs` (`try_serve_from_cache`, `cache_response`), `src/node/state.rs` | blobs, contacts, channels | serve, evict, refresh | evicted when a command is sent, not when it is accepted |
| TCP frontend | `src/frontend/tcp.rs` | `client_channels`, two outgoing channels per client | accept, read, write, close | tasks of their own, racing the core; bounded broadcast |
| database and retention | `src/node/state.rs` | SQLite tables | upserts, daily purge | ids, clock, partial syncs |
| frame codec | `src/protocol/frame.rs` | parser buffer | feed | fragmentation |
| decoding, logging, command line | `src/protocol/decode.rs`, `src/logging.rs`, `src/cli.rs`, `src/main.rs` | none | pure or output | - |
| tools | `tools/*.py` | - | test code and a fake radio | - |

How they interact: every client connection is a pair of tasks that push parsed
frames into `command_rx` and write what they find in a private channel and in
the broadcast channel. One core task owns all other state and runs a biased
`select!` over commands, radio frames (or the end of their channel), the timeout
tick and the maintenance tick. The backend is a reading and a writing task; a
relay task of `connect_backend` copies frames to the core until the stream ends
or a disconnect is signalled. `client_channels` (a mutex) is the only state
shared between the core and the frontend: connections come and go between any
two awaits of a handler.

What makes the parts correct:

* multiplexer: one request at a time on the radio; a reply goes to the request
  that caused it; every accepted request ends exactly once, in order, whatever
  fails; no client is left without an answer; ACKs reach the sender.
* missed messages: what a client's cursor has passed it got; nothing is served
  twice, and nothing to its own author; ids and cursors move forward only.
* connection: nothing of an old connection is taken as an answer on a new one; a
  radio that comes back is served again, the frontend is open exactly while
  there is a radio, and a signal ends the process wherever it finds it.
* cache: it holds what the radio holds once the radio is idle, and never serves
  what a setter has replaced; the purge spares what the radio holds.
* delivery: messages in the layout negotiated, once each; pushes in order.

The hazards, at their lines, are listed in `PROJECT.json`, each with the
properties that would show it.

## 2. Modules

* `Protocol` - codes, `awaiting_for`, the two halves of `classify`
  (`Belongs`, `Completes`), which commands the cache answers, which entries a
  command evicts, what is re-read after an accepted command. A command is
  `[code, arg]`: of the payload only the contact key or channel index it names
  matters here, and its absence (`NoArg`).
* `Requests` - the multiplexer, the connection to the radio and the radio.
  `log` numbers requests in the order the core accepts them; `in_flight` and
  `pending_queue` hold numbers. The outcome kept in `log` is history: `accepted`
  and `rejected` (the radio's reply was passed on), `failed` (coresplitter itself
  answered ERROR), `dropped` (no answer). Frames carry as history the request
  that caused them.
* `Inbox` - missed messages, with the part of the multiplexer that touches
  messages (GET_MSG and SEND_*; other requests only delay these). Storing a
  message and sending it are two steps, because connections close in between.
* `FrameParser` - the framing of client connections and of the serial and TCP
  backends: `encode` and `feed`, over a stream that is read in pieces. `Read` calls
  `feed` with some of the bytes that are there; each turn of its loop (`SkipByte`,
  `ReadHeader`, `ReadLength`, `TakePayload`) is a step, and `Return` is any of its
  three `break`s. A turn of the code's loop that goes on from the header to the
  length and the payload is two or three steps here. `stream` and `sent`, with the place where each
  frame begins, are history. Bytes are digits to a small base, so that payloads and
  lengths contain header bytes and both digits of a length are used. Noise between
  frames is any run of bytes without a header (a false header costs frames by
  design: there is no checksum).
* `RadioLink` - the life of the connection, which `Requests` takes in one step:
  connecting, the handshake and its deadlines, the back-off loop, the main loop's
  way in and out, the signal, and the frontend and client handlers that follow
  `radio_up` in tasks of their own.
* `Mirror` - the contents of the cache against the contents of the radio. An
  entry is the head of the frame it answers with, its content a version number.
  The multiplexer is reduced to one request in flight and a queue, with
  `Protocol` deciding what is cached, evicted and re-read.
* `Delivery` - from the core to the sockets: a client's own channel and the
  bounded broadcast, the write task that takes from both, the layout of messages
  per client, closing with frames unwritten.
* `Turns` - the abstract specification of the multiplexer: requests are numbered
  as they come, wait in that order, are served one at a time and end once; only
  the one in service can be answered, the waiting ones can only be given up, and
  only in order. `RequestsTurns` has the refinement mapping: the log's outcomes,
  the slot and the queue.
* `MCRequests`, `MCInbox`, `MCFrameParser`, `MCRadioLink`, `MCMirror`,
  `MCDelivery` - instances for TLC.
* `RequestsProofs` (the books), `RoutingProofs` (whom a frame is for),
  `TurnsProofs` (the refinement) - theorems about `Requests`; `InboxProofs`,
  `RadioLinkProofs`, `DeliveryProofs`, `MirrorProofs`, `FrameParserProofs` - about
  the other components.

Correspondence of actions and code in `Requests`:

| action | code |
|---|---|
| `Connect`, `Disconnect`, `ClientSend` | `handle_client` of the frontend |
| `AnswerLocally`, `Forward` | `handle_client_command`, `try_serve_from_cache`, `enqueue_or_dispatch`, `dispatch_to_radio` |
| `RouteReply`, `RouteAck`, `BroadcastOrDrop` | `handle_radio_rx` with `cache_response`, `try_route_to_in_flight`, `on_command_accepted`, `try_route_ack` |
| `Timeout`, `Maintenance` | `check_in_flight_timeout`, `run_maintenance` |
| `WriterEnds`, `RelayEnds` | the backend's tasks and the relay of `connect_backend` |
| `LoseRadio`, `Reconnect` | `reconnect_radio` before and after the retry loop, `initialize_radio`, `sync_from_radio` |
| `RadioAnswer`, `RadioSilent`, `RadioIterate`, `RadioPush`, `RadioAck` | the radio: external, modelled from the comments and uses in `src/core.rs` |

The guards `CommandReady`, `FrameReady`, `LossReady` and `TickReady` are the
biased `select!`: a lower branch runs only when the higher ones have nothing.
Deadlines are abstracted: `Timeout` may fire at any tick with a request in
flight, entries of `pending_acks` may expire at any insertion.

In `Inbox`, the actions carry the names of the functions, or: `Replay`/`AskRadio`
are `replay_next_missed` returning true or false, `Unreadable` the queries of either
that fail, `StoreMessage`/`RouteMessage`
the two halves of `handle_radio_rx` for a message, `Accepted`/`StoreEcho` the two
halves of `synthesize_contact_echo` and `synthesize_channel_echo`, `Restart` a
stop at any point followed by a start on the same database.

In `RadioLink`, `at` is the place of the core task: `connect`, `self_info` and
`device_info` (the two waits of the handshake), `backoff`, `serve` (the main
loop), `stopped`, `panicked`. `TryAgain` is the start of `reconnect_radio` or the
next round of its loop. `Changed` is `changed()` of the watch channel: a value not
seen yet, or a sender that is gone. `stale` counts the readers that abandoned
connections have left on a serial port (`SharedLine`); on TCP and BLE each
connection has a stream of its own.

In `Mirror`, `Query` and `Change` are `handle_client_command` for what needs the
radio; `handle_radio_rx` is the whole handler; `Reconnect(restart)` is a lost
connection, or a new process, up to `sync_from_radio`. `since`, `removed` and
`doubt` are history. The radio (`RadioStep`, `RadioHears`, `RadioForgets`,
`RadioDrains`) is external; it refuses a removal of what it does not hold.

In `Delivery`, `waiting` stands for `in_flight` and `pending_queue`; `LoseRadio` and
`FailNext` are two steps because the frontend's tasks run between them.

Abstractions to keep in mind: in `Inbox` a frame put into a client's channel counts
as received, as in the code's own accounting (`Delivery` follows it to the
socket); reads of the message store may fail, writes do not; a connection keeps
the app name of its first APP_START and the version of its first DEVICE_QUERY;
`insert_message` and `follow_head` are one step (closing a connection between them
only shrinks the audience), and so are the two sends of a fanned-out message; a
purge of messages may delete any set of rows, since ages come from the wall clock
(`Mirror` has the clock for contacts); CHANNEL_DATA (0x1B) is not stored; the echo of
a client's own message takes the same way out as any message.

## 3. Runs

All runs leave deadlock unchecked: the environment (clients, radio, failures) is
bounded and may run out, and an idle proxy is not an error.

| run | instance | shows |
|---|---|---|
| `requests` | 2 clients, 2 commands of {SEND_MSG, RESET_PATH}, lists of up to 1 contact, 1 connection | `TypeOK`, `WorkConserving`, `RadioSerialized`, `AckToSender`, `HonestOutcome`, `SettledOnce` |
| `requests_push` | 1 client, telemetry request, an advert or a telemetry push, a maintenance run | `DispatchInOrder`, `RightAnswer`, and `InTurn`: `Requests` implements `Turns` |
| `requests_live` | 1 client, SET_NAME / APP_START, 2 connections, 1 failure, silent radio | `Accounted`, `NoSilentDrop` across loss and reconnection; `Settles`, a liveness property |
| `inbox` | 4 connections of one identity or none, a backlog of one, 2 commands, 2 messages, 1 purge, 1 fault (radio loss, restart or failing query) | `TypeOK`, `NothingMissed`, `NotEchoed`, `OnlyOnce`, `CursorForward` |
| `frames` | 3 frames of 4 payloads (empty to 4 bytes), base 3, noise of up to 1 byte before each | `InOrder`, `NothingHeldBack`, `EachTurnConsumes`; `FeedReturns`, a liveness property |
| `link` | a stream per connection, 1 client, 1 noise frame (maybe empty), 3 failures, a signal | `TypeOK`, `UpWhileServing`; `ShutdownStops`, `ClientsClosed`, `RadioBack`, `FrontendOpens`, liveness properties |
| `mirror` | 1 contact, 1 channel, every contact command, SET_NAME, SET_CHANNEL and the queries they affect, adverts, 1 reconnection or restart, 1 timeout, 1 refusal | `TypeOK`, `FaithfulMirror`, `SettersCoherent`; `CacheCatchesUp`, a liveness property |
| `mirror_purge` | 2 contacts, whole and partial lists, clock 0..3, 2 maintenance runs | `SyncedMeansSeen`, `PurgeSparesHeld` |
| `delivery` | 2 clients of versions 1 and 3, broadcast of capacity 1, 2 pushes, 1 loss | `TypeOK`, `NegotiatedLayout`, `MessageOnce`, `PushesInOrder` |
| `requests_late` | 2 clients sending a message each | violates `NoStaleAnswer` |
| `inbox_late` | 2 connections, 2 identities | violates `GotItLiveOrSentIt` |
| `link_reader` | serial radio, 1 client, 1 noise frame, 1 failure | violates `RadioBack` |

Why the bounds are enough to be interesting: the start-up sync always puts two
internal requests ahead of the clients, so two client commands give a queue of
three and a slot; one abandoned request is enough to shift every later reply by
one; one failure of either half, before or after a command, covers each order of
`WriterEnds`, `RelayEnds` and `LoseRadio`; two messages distinguish "the first
missed one" from "the head"; four connections allow two of the identity at the
same time, a reconnection, and one without APP_START that fetches or sends messages
while the identity is away. In `link` a failure may hit the connect, either wait of the handshake,
the main loop or the bind, three let the delay grow, and the signal comes at any
moment. In `mirror` the start-up sync and two changes allow an update, a removal
and an advert of the same contact to cross on the wire. In `mirror_purge` the
clock reaches past the retention on both sides of a sync. In `delivery` a capacity
of one makes the second unread push a lag. In `frames` every cut of every stream
is tried, base 3 makes three bytes a length of two digits, and the third frame
shows whether the parser is in step after two. `MaxRequests` only bounds the
quantifier of `Settles`.

The violations, each against a sentence of the repository:

* `requests_late`: `src/core.rs:86` says pinning the codes keeps a late reply of
  a timed-out request from being taken as the answer to the next one. It does
  so only when the next request waits for other codes. With two SEND_MSG the
  late MSG_SENT answers the second, which is then echoed and acknowledged on
  the first one's account. `RightAnswer` shows what remains true: replies are
  mixed up only on a connection where a request has been abandoned, or by
  TELEMETRY_RESPONSE.
* `inbox_late`: `src/core.rs:1115` says clients whose cursor `store_message`
  advances got the message live or sent it. A message that answers a GET_MSG
  after its timeout is stored, the cursors pass it, and it is dropped.
* `link_reader`: `README.md:228` says the proxy keeps retrying on its own. On a
  serial port the reader of a failed attempt lives on and takes the bytes of the
  next one, whose handshake then hangs, because its deadline
  (`src/core.rs:619`) is looked at only when a frame arrives. A connected radio
  that says nothing holds the proxy there too; `ShutdownStops` shows that a
  signal still ends it.

Other places where the code does less than one might expect are in the models as
they are in the code, and the properties name them as exceptions:

* A TELEMETRY_RESPONSE about another node completes a telemetry request about the
  radio itself and is not broadcast (`RightAnswer`).
* A connection that closes after `follow_head` and before the sending has its
  cursor past a message it never got. A query of the message store that fails
  counts as "nothing missed" (`src/core.rs:1028`) or as "purged"
  (`src/core.rs:1092`), and the cursor moves on. With late replies these are the
  only ways in which a cursor passes a message (`NothingMissed`).
* A frame of length 0 in the handshake is indexed (`src/core.rs:645`) and ends the
  process (`Panic`; `RadioBack`).
* A refused removal has already happened in the cache, a CONTACT frame of a request
  that timed out puts a removed contact back, and the BATTERY reading is served
  until a setter drops it. Without a timeout or a refused removal since the last
  resync the idle cache is the radio's, BATTERY aside (`FaithfulMirror`). Until
  the first sync has ended, a GET_CONTACTS is answered with the contacts read
  so far (`src/core.rs:822`): the cache is whole only at rest.
* The END_OF_CONTACTS of a list that timed out completes the next one, which then
  counts as a complete sync; without timeouts it is one (`SyncedMeansSeen`).
* When the radio is lost the handlers learn of it before the requests are failed
  (`src/core.rs:534`): a connection may be closed before its ERROR is written
  (`CloseForRadio` of `Delivery`). The core itself leaves no request unanswered
  (`NoSilentDrop`).

## 4. Fairness

`Settles` assumes weak fairness of the core's own steps (commands, frames, the
timeout, noticing the closed channel) and of the relay's end once the write half
has ended. The code justifies each: the core is one task that returns to the
`select!` after every handler; the timeout tick is an interval; the backend
signals the disconnect when either of its tasks ends. Nothing is assumed of
clients or the radio, nor that a lost radio comes back: `LoseRadio` itself
settles everything. `Timeout` is fair although the branch has the lowest
priority, because commands, pushes and frames of the bounded environment run
out; under an endless flood of commands the biased `select!` could starve it.

`RadioLink` assumes weak fairness of the core task, of the frontend task, of every
handler's reaction to the loss, of the end of the signal task, and of time
(deadlines pass): the runtime polls every task that is ready. The radio is free to
stay silent; only `RadioBack` has as its premise (`RadioIsFair`) that it answers
what it is asked. Failures are bounded, so they come to an end.

`CacheCatchesUp` assumes that the core handles the frames it receives and that the
radio handles the commands it is sent. `FeedReturns` assumes only that `feed`, once
called, runs on: it is synchronous code without an await.

## 5. Proofs

Every safety property that a passing run checks is also a theorem, for every value
of the constants. The bounds of the runs (numbers
of commands, failures, losses, timeouts, refusals, ...) are arbitrary in the
theorems. The assumptions on constants are named in the component's module and
evaluated by TLC in its runs.

Each module follows the same plan: an inductive invariant as a conjunction of
named parts, a lemma per action (or group of actions that touch the same parts),
a theorem `...Inductive`, and the properties as consequences.

| module | theorems | assumes |
|---|---|---|
| `RequestsProofs` | `TypeCorrect`, `NeverIdle` (`WorkConserving`), `NothingForgotten` (`Accounted`), `FirstComeFirstServed` (`DispatchInOrder`), `EveryClientAnswered` (`NoSilentDrop`), `AnsweredOnce` (`SettledOnce`) | internal requests are no client's; commands are bytes with an argument; list lengths are naturals |
| `RoutingProofs` | `OneAtATime` (`RadioSerialized`), `AnswersToTheAsker` (`RightAnswer`), `AckedToSender` (`AckToSender`), `ToldAsDecided` (`HonestOutcome`) | the same |
| `TurnsProofs` | `ServedInTurn` (`InTurn`: `Requests` implements `Turns`) | the same |
| `InboxProofs` | `InboxTypeCorrect`, `ServedBehindTheCursor` (`NothingMissed`), `OwnMessagesKept` (`NotEchoed`), `NoCursorGoesBack` (`CursorForward`), `ReplayedOnce` (`OnlyOnce`) | "no identity" is none; backlogs are naturals, at least one; the fault bound is a natural |
| `RadioLinkProofs` | `LinkTypeCorrect`, `ToldTheTruth` (`UpWhileServing`) | `SharedLine` is a Boolean; noise is any frame or the empty one |
| `DeliveryProofs` | `DeliveryTypeCorrect`, `LayoutAsNegotiated` (`NegotiatedLayout`), `FannedOutOnce` (`MessageOnce`), `PushesAsSent` (`PushesInOrder`) | the broadcast holds at least one; versions are positive |
| `FrameParserProofs` | `ParserInductive`, `GivesBackWhatWasSent` (`InOrder`), `ReturnsAllThatIsThere` (`NothingHeldBack`), `LoopEnds` (`EachTurnConsumes`) | the base is positive and headers are bytes; the length of a payload fits two digits; noise has no header |
| `MirrorProofs` | `MirrorTypeCorrect`, `SettersCoherentHolds`, `FaithfulAtRest` (`FaithfulMirror`), `SyncedMeansSeenHolds`, `PurgeSparesHeldHolds` | contacts and channels are finite; the retention is positive; a command names what its code names |

### The books (`IInv`)

That `advance_queue` settles only open requests needs the order of the queue and
that slot and queue hold exactly the open requests (`Book`); that `Reconnect` may
overwrite slot and queue needs them to be empty while the link is down; types of
reply frames need that only push events have no cause (`Caused`) and that an
iteration without a request is none. `AdvanceBook` is the core of the argument:
it shows for any log, queue and cache handed to `advance_queue` that the books
are kept; each handler is then shown to hand it books that are in order
(`TimeoutKept`, `RouteReplyKept`, `ForwardKept`, ...), and a `...Step` lemma per
action adds the types.

### Whom a frame is for (`RInv`)

`RadioSerialized` says that everything between core and radio is about the
request in flight while none was abandoned on this connection. It does not
survive a step by itself: the frame that completes a request frees the slot, so
nothing about that request may come after it. `RInv` adds to `IInv` that a
request is sent once (`SentInv`), decided once by the radio (`DecidedInv`), and
that no reply follows the one that ends it (`LastInv`). The link being down is
excepted: a new connection starts with an empty line. `RightAnswer` and
`HonestOutcome` then follow at the moment a frame is routed, and `AckToSender`
because tags are stashed from such a frame (`AckInv`).

### The refinement

`Turns` only knows numbers, outcomes, a slot and a queue. Each action is shown to
be an `Advance` of `Turns` (requests come, the one in service ends, some at the
front of the queue are given up, the next is served) or a stutter, with `IInv` as
the invariant of the concrete side. Only safety is refined: neither
specification's fairness takes part.

### Missed messages (`InboxInv`)

`NothingMissed` speaks of cursors, but a connected client's cursor says little:
what is owed to it is in the pending list of its session. `SessionInv` says that
whatever is not settled for a connected identity is in that list (the same for
every connection of the identity), `AudienceInv` that whoever is moved past the
message being stored was there to be sent it, and `NotEchoed` is carried from
the command (`QueueInv`) through the slot (`FlightInv`) to the row (`AuthorInv`).
`OnlyOnce` needs that what was replayed is behind the cursor (`ReplayedInv`).

### The connection (`LinkInv`)

`radio_up` is false wherever the core is on its way to a radio (`DownOnTheWay`)
and true in its loop (`UpInLoop`). The signal is the exception, so the invariant
has to say that before it no `select!` can take its shutdown arm (`Quiet`).

### Delivery (`DeliveryInv`)

The properties are about what was written; the invariant is about a client's
whole way, what was written followed by what its channel holds, so that the write
task changes nothing of it (`WayInv`). A version cannot change between the
DEVICE_INFO and the messages behind it because the requests that wait ask for
the version their client still has (`WaitingInv`). Pushes are counted by the
position of the client's receiver (`PushInv`).

### The cache (`MirrorInv`)

While no request of the connection has timed out (`Calm`), only the request in
flight or its whole answer, and adverts, are between core and radio
(`SerialInv`). Then an entry a setter is about to change is evicted until the
answer is in, and frames on the wire about channels, SELF_INFO and DEVICE_INFO
hold what the radio holds: `SettersCoherent`. Contacts change on their own, so
for them the invariant is weaker (`ContactInv`, with `Right`): a contact that the
radio holds is cached as it is, or a frame that will make it so is coming, or its
advert, the request that reads it, or the reply upon which it will be read. At
rest none of the others is left: `FaithfulMirror`. `SyncInv` follows one complete
list from the moment it is sent: what the radio had then was seen since or is on
the wire; with it the purge's comparison of times is right. After a timeout only
types are promised, and that a channel gone wrong is read again after the next
resync (`CoherentInv`).

`Calm` needs both its clauses: before the first timeout a refused removal puts
the contacts in doubt but not the channels, and after a timeout a reconnection
ends the doubt although `spent.timeouts` stays. The whole `MirrorInv` was checked
with TLC on an instance with a contact and a channel before it was proved.

### The parser (`ParserInv`)

`InOrder` compares what `feed` returned with what was sent, and says nothing of
what is still in the buffer. The invariant ties both to places in the stream,
which needs no induction over bytes. `StreamInv` says where the frames are: in
order, each with its header, its length in two digits and its payload, and no
header between them. `BufferInv` says that the buffer is the piece of the stream
between what is used up and what has been read; `PlaceInv` that the parser's
fields tell where that piece begins: before the next frame, behind its header or
behind its length, with as many frames before it as were found. So a header byte inside a
payload or a length is never looked at as one. `IdleInv` says that between two
calls the loop could not go on; `NothingHeldBack` follows, since a frame read to
its end would let it. `Digits` is the round trip of a length: it holds below the
square of the base, which is where `payload.len() as u16` does not wrap (no
payload of the protocol is near it). `LoopEnds` gives the measure that makes
`FeedReturns` true: bytes left in the buffer, plus one for a known length.
`ParserInv` was checked with TLC on a small instance before it was proved.

### Only model-checked

Liveness: `Settles`, `ShutdownStops`, `ClientsClosed`, `RadioBack`,
`FrontendOpens`, `CacheCatchesUp`, `FeedReturns`. The prover has no rule for
fairness.

## 6. Plan

Modelling and the safety proofs are complete. What could follow:

1. The properties that make good premises of the liveness argument as lemmas: that
   something can be done whenever a request is open.
2. Shorter proofs: facts about sequences that several proof modules prove for
   themselves could be one module's.

## 7. Not modelled

`src/protocol/decode.rs` and the event log are stateless text for people; the
protocol does not depend on them, apart from the name and the number of channels,
which the models take as given. Opening serial ports, Bluetooth scanning and
pairing is I/O whose only outcome here is success or failure. Command-line
parsing, migrations of old database schemas, the write-only `raw_rx` table and the
Python tools are left out.
