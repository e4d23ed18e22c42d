# LightMQTT in TLA+

A TLA+ model of LightMQTT, an asynchronous MQTT 3.1.1 client library in C
without threads and without `malloc`. The application owns the socket and the
loop, calls `lmqtt_client_run_once`, and learns the outcome of its requests
from callbacks. This directory holds the modules, the TLC configurations, the
machine-checked proofs and `PROJECT.json`, which maps each definition to the
lines it models. Paths below are relative to the repository: `src/src/...` is
the library itself.

## 1. Inventory

| component | state | operations | what makes it correct |
|---|---|---|---|
| packet store (`lmqtt_store.c`) | `entries`, `count`, `pos`, `next_packet_id`, `last_touch` | append, peek, mark/drop current, pop marked, delete, shift, unmark all, get id, get timeout, touch | the position stays within the entries and at the same entry whatever is removed; order is kept; never more than `capacity` |
| client (`lmqtt_client.c`) | `closed`, `error`, `clean_session`, the `internal` function table, `current_store`, buffers | connect, subscribe, unsubscribe, publish, disconnect, reset, finalize, run_once | every accepted request gets exactly one callback, true only if acknowledged; a kept session survives a reconnection |
| encoder (`lmqtt_tx_buffer_*`) | `closed`, part number and offset in the packet | encode into `write_buf`, reset, finish | resumes the packet it was in; marks what is answered, drops what is not |
| decoder (`lmqtt_rx_buffer_*`) | header, packet id, popped `value`, `blocking_str`, error | decode from `read_buf`, reset, finish | each response meets its request; acknowledgements are queued; a half-read packet is not half-applied |
| id set | ids of QoS 2 messages received | contains, put, remove, clear | a QoS 2 message is delivered once |
| keep alive and time (`lmqtt_time.c`) | `last_touch`, `timeout`, `keep_alive` | get_timeout_to, touch, keep_alive | a silent peer is noticed, a live one is not dropped |
| transfer loop | `available`, `stale`, `result` of each side | transfer_exec, client_buffer_transfer, run_once result | never blocks on the side that has nothing to do |
| codec, strings, validation | none of their own | build and parse headers, move payloads in parts | lengths and ids agree with the packet |
| examples | socket | select loop, reconnect | calls run_once whenever it can progress |

How they interact: the application's calls append entries to `main_store`
(CONNECT goes to `connect_store`, which has one place). The encoder walks the
store that `current_store` points to and fills `write_buf`; entries whose kind
is answered are *marked* (the position moves over them), the others are
dropped at once. The decoder pops marked entries by kind and packet id, calls
their callbacks, and appends acknowledgements of the peer's messages to the
same store. CONNACK's callback switches `current_store` to `main_store`,
cleans it up and unmarks it, so everything in it is sent again.

What is hard here: a break, an error or a timeout may come between any two of
these steps and in the middle of a packet; the store is an array with a
position that is shifted from the middle while the encoder is stopped inside
the current entry; the connection's flags are read by callbacks called in the
middle of a state change; acknowledgements compete with requests for the places of a
fixed array. The `hazards` of `PROJECT.json` list these, each at its
line with the properties that watch it.

## 2. Modules

| module | models | kind |
|---|---|---|
| `LmqttStore` | the store's functions, as operators on a record `[entries, pos]` | operators |
| `LmqttClient` | client, encoder and decoder, packet by packet, against an arbitrary peer | state machine, properties |
| `RequestLifecycle` | what the client promises about a request: new, pending, succeeded or failed | abstract specification |
| `LmqttClientRefinement` | `LmqttClient` implements `RequestLifecycle` | refinement |
| `LmqttSession` | `LmqttClient` with an MQTT broker and a network whose connections break | composition, liveness |
| `LmqttTime` | `lmqtt_time_t` and what is left until a deadline | operators |
| `LmqttKeepAlive` | the client's clock: PINGREQ and timeouts, a peer that may fall silent, an application that may be late | state machine, properties |
| `LmqttRunOnce` | one connection as `run_once` drives it: bytes in both buffers, results, the application's `select` | state machine, liveness |
| `LmqttCodec` | layouts and lengths of packets, remaining length both ways, validation | operators |
| `LmqttStream` | encoder, wire and decoder byte by byte | state machine, liveness |
| `LmqttStoreTheorems` | lemmas on the store's operators | proofs |
| `LmqttClientProofs` | the inductive invariant of `LmqttClient` | proofs |
| `LmqttRequestProofs` | where the client keeps requests and what a step may do to them; the refinement, step by step | proofs |
| `LmqttSessionProofs` | what is under way between client and broker, and what may become of it | proofs |
| `LmqttKeepAliveProofs` | the arithmetic of deadlines; timeouts neither early nor late, and when they strike a live peer | proofs |
| `LmqttRunOnceProofs` | what `select` waits for is enough | proofs |
| `LmqttCodecTheorems` | the remaining length read back; lengths agree with parts | proofs |
| `LmqttStreamProofs` | what is decoded is what was encoded | proofs |

`LmqttStore` <- `LmqttClient` <- `LmqttClientRefinement`, `LmqttSession`,
`LmqttClientProofs` <- `LmqttRequestProofs` (which also EXTENDS
`LmqttClientRefinement`) <- `LmqttSessionProofs` (which also EXTENDS
`LmqttSession`); `LmqttStore` <- `LmqttCodec` <-
`LmqttStream`, `LmqttCodecTheorems` <- `LmqttStreamProofs` (which also EXTENDS
`LmqttStoreTheorems`); `LmqttTime` <- `LmqttKeepAlive` <-
`LmqttKeepAliveProofs`; `LmqttRunOnce` <- `LmqttRunOnceProofs` (each EXTENDS
the one before it).

The four state machines look at the same client from different sides, because
no instance with packets, bytes and nanoseconds at once could be checked.
`LmqttClient` has every state change but no bytes and no time. `LmqttStream`
justifies its handing over of whole packets, `LmqttRunOnce` the fairness of its
encoder, writer and decoder, `LmqttKeepAlive` says when its `Timeout` and
`Pingreq`, which there may happen at any moment, do happen.

A definition named `X_Y`, placed before `X`, is a plausible slip in writing
`X`. No specification uses it; substituting it for `X` (the `mutants` of
`PROJECT.json`) breaks the property it is listed with, which shows that the
property would notice.

### LmqttClient

State and code: `closed`, `error`, `clean_session` are the fields of
`lmqtt_client_t`; `connect_enabled` and `requests_enabled` say whether the
entries of `client->internal` are the real functions or the `_fail` ones;
`current` is `current_store`; `rx_value` is `rx_state.internal.value`, the
entry that a half-received response has popped; `id_set`, `tx_closed` are
`rx_state.id_set`, `tx_state.closed`; `tx_value` is the entry the encoder has
begun and not finished (the code keeps only its offset and looks the entry up
again); `write_buf` is a sequence of packets; `connect_clean` is the flag in
the application's connect structure.

| action | code |
|---|---|
| `Connect`, `Request`, `Disconnect`, `Reset`, `Finalize` | the `lmqtt_client_*` functions, with their `client_do_*` |
| `EncodePart`, `Encode`, `Write` | `client_process_output`: `lmqtt_tx_buffer_encode`, `write` |
| `Respond`, `BeginResponse`, `FinishResponse`, `Unexpected` | `client_process_input`: `rx_buffer_pop_packet`, `rx_buffer_finish_packet` |
| `ReceivePublish`, `ReceivePubrel` | `rx_buffer_decode_publish`, `rx_buffer_pubrel` |
| `Timeout`, `Pingreq` | the two branches of `client_keep_alive` |
| `Eof`, `Fail` | end of file, or an error, in `client_buffer_transfer` |

`SetStateInitial`, `SetStateConnecting`, `SetStateConnected`, `SetStateFailed`
and `CleanupStores` are the functions of the same names and part of the
actions that call them, including the callbacks of every request flushed.

Abstractions, each adding behaviours rather than removing any unless it says
otherwise:

- A packet is one value; the encoder may stop inside any packet (`write_buf`
  full or a payload string that blocks), and a response listed in `SplitKinds`
  may arrive in two parts. Only CONNACK and SUBACK have bytes after the point
  where the entry is popped.
- `run_once` is not one step: output, input and keep alive interleave freely
  with the application's calls. Once the DISCONNECT is encoded only the encoder
  stops (`Encoding`): if the write of its last byte blocks, the application
  calls `run_once` again, and until the connection ends input, requests and
  the clock go on (`Running`).
- Time is left out: a timeout or PINGREQ may happen whenever the count of the
  current store allows it.
- A request is its number. The DUP flag (`encode_count`), the `on_connect`
  callback, deallocation and payload contents are left out, and calls that
  fail validation, which change nothing.
- Not covered: callbacks do not call the client again while it flushes, and
  `Finalize` is called once.
- `accepted`, `calls`, `acked` and `received` are history that no guard reads,
  except that `NumRequests` bounds `accepted`.

### LmqttSession

The application is the loop of `src/examples/reconnect.c`: reset and connect
when the connection is gone, otherwise run the client. Every connection keeps
the session. `Prepare`, `Send`, `Receive`, `ReceivePart`, `ReceiveRest`,
`NoticeBreak` and `LateAnswer` are steps of `LmqttClient` with what they do to
the wire. A response of `SplitKinds` may come in two parts: `ReceivePart` takes
it off the wire as far as the point where its entry leaves the store,
`ReceiveRest` is its last byte, and a break in between drops the rest. Broker and network are
not in the repository; they are modelled from what the client relies on
(MQTT 3.1.1): streams that deliver a prefix of what was written, a broker that
answers in order, keeps the session, resends what is unacknowledged once per
connection after its CONNACK, in any order, and uses an id again only after PUBACK or
PUBCOMP. `Break` may happen at any time, `MaxBreaks` times; `LateAnswer` is a
timeout of a connection that is in fact up and uses the same bound. Between two
connections the broker may lose its session (`Forget`, `MaxForgets` times): it
says so in CONNACK, where `client_on_connack` does not look, so `id_set` goes
on holding ids that the broker regards as free, and `main_store` PUBRECs with
such ids. `stale` collects both. `OutAtMostOnce` and `AckedIsDelivered` state
what that can cost: one more publication for each session lost, and inbound
messages with an id in `stale`.

### LmqttTime and LmqttKeepAlive

A moment is the record of seconds and nanoseconds of the code; `Second` is the
number of nanoseconds in a second, small in the run and arbitrary in the
proofs. `Later` is the clock; everything else takes no time, and one call of
`lmqtt_client_run_once` is one step: `TimeOut` where `client_keep_alive` ends
it, `RunOnce` otherwise.

| variable | code |
|---|---|
| `connecting` | which store is current, and how far CONNECT is in it: queued, sent, half answered (popped by the decoder), done |
| `queued`, `oneway`, `waiting`, `pinging` | the entries of `main_store`: not encoded, QoS 0, marked, and whether a marked PINGREQ is among them |
| `last_touch` | `last_touch` of each store |
| `error` | `client->error`, `NONE` or `TIMEOUT` |

The peer answers within `PeerDelay`, unless it dies (`Die`) without closing
the connection; the application calls when `select` returns, at most
`AppDelay` late. Abstractions: the socket takes everything at once, and
what `inbox` holds is read in one call; messages of the peer ask for no
acknowledgement; the store has room for the bounded number of requests. The
application is the loop of `reconnect.c`, which resets before it connects.

### LmqttRunOnce

Bytes are of four kinds: `h` from or to memory, `s` from or to a string with
callbacks, `a` the last byte of a message to be acknowledged, `d` the last of
DISCONNECT. `transfer` holds `available` and `result` of both sides
(`stale` matters to the clock only); `Output` and `Input` are one turn of the
loop in `client_buffer_transfer`, `EndOutput`, `EndInput` and `EndConnection`
what follows it, up to the flags that `run_once` returns. `Ready` is the
`select` of `pingpong.c`, which waits for what the flags name, or returns
because the application has queued something. Socket (`Arrives`, `Drains`,
`Leaves`) and files (`Gives`, `Takes`) act between any two turns; within a turn
they are left alone, which loses nothing, since what they do there could as
well happen before or after it. One connection is followed to its end; the
queue is not bounded by a capacity, since no property is about refusals.

### LmqttCodec and LmqttStream

A byte is a record with the fields that the decoder may read at the place
where it meets it: type and flags of a first byte, the digit and continuation
bit of a remaining length, the value of a number's byte, the origin of a
string's byte. Digits are to the base `Radix` (128 in the code) and numbers to
the base `Base` (256): any from 2 in the proofs, 4 and 2 in the run, so that lengths
of two digits and numbers of two bytes occur.

`Encode` is one call of a part's encoder: it takes any room that is left, and
of a string what the callback gives. That covers every cut by `write_buf` and
by strings that block. `Decode` is one turn of the loop in
`lmqtt_rx_buffer_decode_impl`, with any number of bytes available. Packets are
those with one layout in both directions, so that the encoder's output can be
the decoder's input: PUBLISH and its four acknowledgements. The application
may refuse a topic or a payload (`IGNORE`, error) when it is asked to
allocate, fail to write, or fail in `on_publish`. `Break` resets both ends.
What the acknowledgements do to stores and `id_set` is in `LmqttClient` and
left out here. One thing is assumed of the application: asked again for the
same string, it does not refuse it then.

## 3. Runs

All runs set `CHECK_DEADLOCK FALSE`: a finalized client stops, and a session
with nothing left to do is quiet. No symmetry is used, since requests are
ordered numbers.

| run | question | bounds | distinct states |
|---|---|---|---|
| `client_kept` | kept sessions: is each request held in one place until its one callback, sent again in order, never failed by a break? | 3 places, 3 requests | 2,306,178 |
| `client_clean` | clean sessions: success only if acknowledged; refinement of `RequestLifecycle` | 2 places, 3 requests | 397,076 |
| `client_broken` | the conjuncts of the inductive invariant, with failing callbacks, split responses, both kinds of session and inbound messages | 2 places, 2 requests, 1 inbound id | 1,531,554 |
| `session_out` | messages to the broker: exactly once, in order, eventually, also if the broker forgets | 3 places, 3 requests, 2 breaks, 1 lost session, CONNACK in one or two parts | 268,350 |
| `session_recovery` | both ways: delivered once, acknowledged only if delivered, nothing waits for ever but a SUBSCRIBE whose SUBACK was cut | 7 places, 2 messages, 2 ids, 1 request, 1 break, 1 lost session, CONNACK and SUBACK in one or two parts | 279,930 |
| `keep_alive` | is a timeout right, does it come in time, does the broker hear of the client, and when is a live peer given up? | 6 seconds of 2 ticks, timeout 1, keep alive 2 (the proportion of `pingpong.c`), 2 requests, answers and calls late by up to 1 tick | 930,632 |
| `run_once` | does the application wait for the right thing, does everything get through? | `read_buf` 2, `write_buf` 3, socket 1 byte; CONNECT and 1 packet out, 1 message in | 122,956 |
| `stream` | is what is received what was sent, wherever it is cut? | 2 packets, topics of 2 bytes, payloads of 0 and 2, 3 bytes under way, 1 break | 236,501 |
| `client_lost`, `client_flush`, `session_ids`, `session_full` | counterexamples, section 6 | | |

Why the bounds are enough: the store's code treats an entry as before, at or
behind the position. Three places are the least in which taking out one entry
could change the order of the others (`client_kept`, `session_out`); two
places with three requests make a full store (`client_clean`), two with two
requests and PINGREQ, DISCONNECT and acknowledgements as well
(`client_broken`). One
inbound id is enough for an id to be used again, two for a message with another id
to overtake a stale one. `TxCapacity = 1` makes the encoder wait for `write`. In the passing
session runs `IdModulus` is the number of requests, so no id is taken twice:
wrapping is the subject of `session_ids`. `session_recovery` has room for every
request and acknowledgement at once, and `id_set` for every message in flight,
since without it section 6 is the answer: with two breaks and five places the
acknowledgements of the messages sent again fill the store as in
`session_full`, and with one place in `id_set` a message is lost.

In `keep_alive` a second has two ticks, so that a deadline falls before, on and
after a whole second and the borrow happens; six seconds are twice the longest
silence, a keep alive interval and a timeout. With a timeout that exceeds both the keep alive interval and the peer's delay a live peer never
loses its connection; here it exceeds neither, as in both examples, and both
cases of `LivePeerKept` happen: each of its three bounds is reached, and making
any of them smaller by one tick makes TLC find a violation.
In `run_once`, `read_buf` and `write_buf` are smaller than what passes through
them, and the socket takes one byte, so each of them is full and empty at some
turn. In `stream`, base 2 and radix 4 make topic lengths of two bytes and
remaining lengths of two digits; three bytes under way are less than any
packet, so that each is cut.

Properties worth knowing:

- `PendingIsTracked`: an accepted request without a callback is in exactly one
  place. This is the conservation law behind every other promise.
- `ImplementsLifecycle`: `Status` reads a request's state from the places that
  hold it, so a lost request, or one called twice, is a step the abstract
  specification does not have. `EndSession` fails all pending requests at
  once or none.
- `EncoderMatchesCurrent`: an encoder stopped inside a packet finds the same
  entry when it goes on.
- `OutAtMostOnce`, `SuccessIsPublished`, `PublishedInOrder`, `InAtMostOnce`,
  `AckedIsDelivered`: end-to-end delivery across breaks.
- `RequestsSucceed`, `MessagesComplete`: liveness. The first says that an
  accepted request succeeds in the end, or is a SUBSCRIBE that is nowhere any
  more (`LostSubscribe`); `OnlyReconnectLosesRequest` says how that comes about.
  `session_out` has no SUBSCRIBE: every message succeeds.
- `TimeoutMeansSilence`, `SilenceIsNoticed`: the timeout is neither early nor
  late; `LivePeerKept` says what a live peer must have met with to be given
  up all the same: a wait as long as its own and the application's delays allow
  for, or a request made within the application's delay, on a connection where
  nothing is awaited and which has been silent no longer than PINGREQ allows.
  `BrokerHearsClient` looks at the same clock from the broker's side.
- `NoDeafSelect`, `NoMuteSelect`: while the application waits, what it waits
  for is enough to wake it for all that the client has left to do.
- `ReceivedIsSent`: encoder, wire and decoder together are the identity on
  messages, wherever buffers and strings cut them.
- `DupIsHonest`, `OwnedIsReturned`: the DUP flag and the strings allocated by
  the application, across refusals, blocking and breaks.

Fairness. `LmqttRunOnce`: the loop calls `run_once` when `select` returns and
`run_once` comes back (weak fairness of the client's steps together), the peer
goes on reading, files are ready in the end; nothing is assumed of what arrives or
is asked. `LmqttStream`: weak fairness of `Encode` and `Decode`, which
`run_once` calls as long as there is room or data (`AllWritten`, `AllDecoded`).
`LmqttKeepAlive` needs none: what must happen is stated as a bound in time, and
`Tick` waits for whoever has promised to act by then. `LmqttSession`
(`SFairness`): weak fairness of the client's steps, `ReceiveRest` among them
as long as the connection is up, since the loop of the example calls `run_once`
whenever the socket is ready and `run_once` encodes, writes and reads until it
would block; of `Open`, since the loop reconnects; of the broker's answers,
which MQTT requires. None is assumed of requests,
breaks or timeouts. Breaks are bounded, which stands for "connections last
long enough in the end": with endless breaks nothing could be promised.

## 4. Proofs

Every theorem is about all values of the constants that satisfy the module's
ASSUMEs: any capacities of at least 1 in `LmqttClient`, any clock
resolution, intervals and delays in `LmqttKeepAlive`, any capacities in
`LmqttRunOnce`. Where one has a hypothesis of its own, the table names it.

### The client and its stores

`LmqttStoreTheorems` proves what the store's operators do to well-formedness,
length, position, the kinds present, the kinds marked, and the entries and their
order. The loop of `client_cleanup_stores` is a recursive function `Kept`;
`KeptLemma` is an induction over the natural numbers carried out with the least
counterexample (`NatMinimum`), because the induction theorems of the library
take an operator parameter.

`LmqttClientProofs`:

| theorem | states |
|---|---|
| `TypeCorrect` | `Spec => []TypeOK` |
| `ConnectPhaseHolds` | `Spec => []ConnectPhase` |
| `MarkedAreAnswered` | `Spec => []MarkedExpectResponse` |
| `EncoderResumesItsEntry` | `Spec => []EncoderMatchesCurrent` |
| `ControlIsNotKept` | `Spec => []NoStaleControl` |

`TypeOK` is inductive on its own (`NextType`, one step per action). The others
are not: that the encoder still finds its entry after a response depends on
only marked entries being popped and on which store is current, which depends
on the phase of the connection, which depends on nothing but CONNECT being in
the connect store. Their conjunction `SafeInv` is inductive (`InitSafe`,
`NextSafe`), and `client_broken` checks its conjuncts on an instance.
`StepSafe` collects the argument common to every step that appends to or pops
from the current store; `FinishSafe` that of a completed response, where
CONNACK switches stores.

### Requests

`LmqttRequestProofs` states all that the runs check of requests:

| theorem | states | hypothesis |
|---|---|---|
| `NothingDangles` | `[]NoDanglingRequest` | |
| `OrderIsKept` | `[]ResentInOrder` | |
| `PubrecIsFinal` | `[]NoRepublishAfterPubrec` | |
| `OnlyReconnectLoses` | `OnlyReconnectLosesRequest` | |
| `OnlyFinalizeRepeats` | `OnlyFinalizeCallsAgain` | |
| `ReportedOnce` | `[]CalledOnce` | no callback returns 0 |
| `PendingIsKept` | `[]PendingIsTracked` | `NoSplit` |
| `FinalizeResolves` | `[]FinalizeResolvesAll` | `NoSplit` |
| `KeptRequestsSurvive` | `[]KeptSessionNeverFails` | `AllKept` |
| `SuccessIsAcked` | `[]SuccessOnlyIfAcked` | `AllKept` or `AllClean` |

No hypothesis is there for the proof's sake; without it the code violates the
property. `NoSplit` (no response to a request arrives in two pieces) excludes
the reconnection that forgets a request, `AllKept` or `AllClean` (the application
always asks for the same kind of session) the flush that reports success: the
runs `client_lost` and `client_flush` in section 6. A callback that returns 0
keeps its entry and is called again by `Finalize`. What holds without a
hypothesis says how far each of these goes: nothing else loses a request, and
nothing else reports one twice.

The argument has two levels, so that only the lower one looks at actions.
`Custody`, about entries, is inductive together with `SafeInv`: an entry with a
request is of a kind that carries one, no two of them have the same request,
requests stand in the order of the calls, the decoder's is not in a store. It
makes every action one of eight things that `RequestStep` says about the
requests as sets: nothing happens, one is accepted, one is taken by the decoder,
one succeeds, the connection is lost, the client reconnects, CONNACK comes, all
are finalized. `Ledger` (who has been reported how often, and where the others
are) and `Sessions` (which sessions may have been flushed) are then shown to be
invariant under `RequestStep` alone. `RequestInv` is the conjunction of all four.

The last part of the module maps the same eight steps to `RequestLifecycle`:

| theorem | states | hypothesis |
|---|---|---|
| `ClientImplementsLifecycle` | `Spec => ImplementsLifecycle` | `NoSplit`, no callback returns 0, and `AllKept` or `AllClean` |

The refinement reads a request's status from the places that hold it.
`TrackedNow` shows that, in a reachable state, this is the same as reading it
from the history, and a step is then easily seen to accept one request, let one
succeed, fail all that are pending, or change nothing.

### Client and broker

`LmqttSessionProofs`, for any number of requests, messages, packet ids, breaks
and lost sessions, and any capacities:

| theorem | states | hypothesis |
|---|---|---|
| `SessionIsClient` | `SSpec => Spec` | |
| `SessionInvariant` | `SSpec => []SessionInv` | |
| `EveryAnswerIsExpected` | `SSpec => []AnswersFindRequests` | |
| `DeliveredOnce` | `SSpec => []InAtMostOnce` | |
| `AckedWhenDelivered` | `SSpec => []AckedIsDelivered` | `IdsFit` |
| `AnsweredWithRoom` | `SSpec => []EveryMessageIsAnswered` | `[]HasRoom` |
| `PublishedAtMostOnce` | `SSpec => []OutAtMostOnce` | `[]IdsDistinct` |
| `SuccessMeansPublished` | `SSpec => []SuccessIsPublished` | `[]IdsDistinct` |
| `FirstPublishedInOrder` | `SSpec => []PublishedInOrder` | `[]IdsDistinct` |
| `IdsStayDistinct` | `SSpec => []IdsDistinct`, and so these three | `EnoughIds` |

`IdsFit` says that `id_set` has room for every packet id of the broker,
`HasRoom` that `main_store` has room for one more entry, `IdsDistinct` that no
two requests in `main_store` have the same packet id. They are needed: section
6 tells what happens when `id_set` or `main_store` is full, and the run
`session_ids` violates `SuccessIsPublished` when an id is in use twice. With
its constants, one lost session and still fewer ids, TLC finds `OutAtMostOnce`
(two ids, four requests) and `PublishedInOrder` (one id, a `Capacity` of three)
violated too. The client does not see to `IdsDistinct`: it counts the ids and
never looks for one in the store. `EnoughIds` is a condition on the constants
under which it holds: no more requests than ids, and no call of the application
that the full store refuses, since such a call takes an id too. The constants
of `session_out` satisfy it, those of `session_ids` do not.

As with requests, only the lower level looks at actions. `SessionInv` makes
every action one of the few things that `SessionStep` says of stores, queues
and broker (`SessionSteps`); everything above is preserved by `SessionStep`.
`SessionInv` adds to `RequestInv` the types of what is new, the phases of a
connection (its CONNECT is queued, sent, answered, and nothing overtakes it)
and `Linked`: each request under way, as a packet in `write_buf` or in the
network or as a response on its way back, belongs to a marked entry of
`main_store`, different ones to different entries, in the same order. The
positions are those of an array from whose middle entries are removed, so
`Linked` states that there are three sequences of positions, and each step says
how they shift. `SessionIsClient` needs `SessionInv` because a response of the
composed system is always one that `LmqttClient` lets the peer send.

For the broker's messages, `InOnce` relates how often one has been delivered,
what is under way to the client and `id_set`: after the delivery, and before
the PUBREL that ends it, its id is in `id_set`, and no PUBREL with that id is
ahead of a copy of it. `AckInv` follows the acknowledgements with one id
through `main_store`, `write_buf` and the network (`PathHas`, `PathOrder`): a
PUBREC is there only after the delivery, no PUBREC of the message before is left
when an id comes into use again, since each PUBCOMP is behind all PUBRECs that
were queued before it. `Answering` says that a message not under way any more
has its acknowledgement on that same path.

For the client's messages, the step lemmas look at sets: the requests in the
store (`Requesting`), those anywhere on the way to the broker (`OnPath`), and
the answers (`Answers`). `ViewStep` says that a step begins, ends or delivers
one of them, or none. `OutInv` relates them to the broker's log and its ids: a
stored QoS 2 message has been published if the broker has its id, and
otherwise only for sessions that are lost; a PUBREL, or an answer, is there only
for what has been published; each id that the broker has is that of a stored
message. `OutAtMostOnce` alone is not inductive: it does not say that a message
which the broker would publish now has not been published before. `OrderInv` says that a
message on its way has been published or comes after all that have been: the
queues rise, the wire is ahead of `write_buf`, both are ahead of what the store
still has to encode, and once the connection is greeted, a marked message that
has not been published is in one of the two. The last clause is what breaks and
reconnections put at risk: it holds because CONNACK unmarks everything. `IdInv`
bounds the ids in the store by `next_packet_id` until it wraps around.
`HalfInv` is about the request whose SUBACK has only begun: it has left the
store and is not an answer yet, its callback may still report it when the rest
arrives, and it is a SUBSCRIBE, so neither the log nor the broker's ids depend
on it.

### The clock

`LmqttKeepAliveProofs`:

| theorem | states | hypothesis |
|---|---|---|
| `TimeoutIsExact` | the span returned by `lmqtt_time_get_timeout_to` is well-formed and exactly what is left until the deadline, or zero if that has passed | |
| `NoEarlyTimeout` | `Spec => TimeoutMeansSilence` | |
| `LivePeerIsKept` | `Spec => LivePeerKept` | |
| `SilenceNoticed` | `Spec => []SilenceIsNoticed` | |
| `BrokerHears` | `Spec => []BrokerHearsClient` | |

`NoEarlyTimeout` rests on an invariant about the two stores: the `last_touch`
of the current one is the moment of the last I/O, also when CONNACK has just
changed which one is current. `TimeoutIsExact` turns an expired deadline into
that silence.

The other three need to know what is under way. `TalkInv` adds: everything the
client waits for is owed by the peer or has arrived (`Conversation`); the ages
of the last I/O, of what is owed and of what has arrived (`Ages`); how long the
silence can be, by what the client waits for (`Silences`); and who made the
last input or output so recent (`Causes`). `Tick` is the only step in which
anything ages, and it waits for whoever has promised to act.

`LivePeerIsKept` needs no relation between the intervals: it says what a timeout
of a live peer must look like. Together with `NoEarlyTimeout`, which says that
it takes `Timeout` seconds, it follows that there is none if `Timeout` exceeds
both `KeepAlive` and `PeerDelay` by more than `AppDelay`. The code does not ask
for that, and the two examples do not have it: `pingpong.c` sets 20 and 10
seconds, `reconnect.c` 5 and 5 by default (section 6).

### The transfer loop

`LmqttRunOnceProofs`:

| theorem | states |
|---|---|
| `SelectListens` | `Spec => []NoDeafSelect` |
| `SelectWrites` | `Spec => []NoMuteSelect` |
| `EndsEmpty` | `Spec => NothingDroppedAtEof` |

The flags that `run_once` returns are put together from results that two
transfers have left, turn by turn. `RunOnceInv` therefore says, in each phase
of the loop, what a result means for the buffers: the write side is over because
the socket took nothing or because there is nothing to write and nothing to
encode (`Outputs`); the decoder is over because a string blocks or because
there is nothing to decode and nothing to read (`Inputs`). How far a turn gets
is the largest prefix that can be moved, of which `MaxLemma` shows that it
exists, and that the byte behind it cannot be moved.

### The codec

`LmqttCodecTheorems`, about operators alone:

| theorem | states |
|---|---|
| `RemainingLengthRoundTrip` | for every radix and every length that four digits can hold, `fixed_header_decode` takes the bytes of `encode_remaining_length`, ends at the last one and has the length |
| `ConnectLengthAgrees`, `PublishLengthAgrees` | the announced remaining length is the sum of the parts that are written |
| `ValidConnectFits` | with the code's radix and base, what `lmqtt_connect_validate` accepts fits into four digits |

The first goes by the state of the decoder in front of each byte (the number so
far and the weight of the next digit), for each of the sizes one to four.

### Bytes on the wire

`LmqttStreamProofs`, for every radix, base and capacity of the wire, every set
of lengths, and any number of breaks and packets (fewer than `Base` squared,
so that ids fit their two bytes):

| theorem | states |
|---|---|
| `StreamInvariant` | `Spec => []StreamInv` |
| `StreamIsFaithful` | `Spec => []ReceivedIsSent` |
| `NoFaultFound` | `Spec => []NoDecodeError` |
| `DupIsExact` | `Spec => []DupIsHonest` |
| `StringsComeBack` | `Spec => []OwnedIsReturned` |

A packet has a byte `FrameByte(q, j)` at each place `j`, defined from its
fields alone and not from how it is encoded or decoded. `PartFacts` shows that
the parts of the encoder, one behind the other, are these bytes, and `Done`
how many of them have been written. `DecoderInv(q, r, t)` says what the
decoder's state `r` is after `t` of them, in three phases: nothing, in the
fixed header (the codec's lemmas give the length so far), in the body. Each
decoder step that meets the right byte takes `DecoderInv` from `t` to a later
place, or hands over exactly the packet (`Whole`).

What connects the two is `WireInv`: every packet not yet received has a place
in the wire, the first of them possibly before its beginning, each begins where
the one before ends, the wire ends where the encoder stands, and the byte behind
each place is the one `FrameByte` names. `Shifted` is the step that moves all
places when bytes have been taken, `PutGoesOn` and `PutEnds` those that add
bytes behind the last place. `ReceivedIsSent` alone is not inductive: it says
nothing of the bytes under way. `Numbers` adds that a number is in the store
once and which have been encoded, from which DUP follows; `Ownership` that the
strings counted are those the decoder has noted in `has`. TLC checked the
conjuncts of `StreamInv` on the constants of `stream`.

### Only model-checked

Liveness under fairness (`RequestsSucceed`, `MessagesComplete`, `AllWritten`,
`AllDecoded`, `AllReceived`), which is out of the prover's reach.

`TalkInv`, `RunOnceInv`, `SessionInv`, `InInv`, `AckInv`, `KindInv`, `OutInv`,
`OrderInv` and `IdInv` were checked by TLC, on the constants of the runs.

## 5. Not modelled

- The bytes of SUBSCRIBE, UNSUBSCRIBE, SUBACK and CONNACK, and the flag bits
  of CONNECT. In `LmqttClient` these are packets like the others, SUBACK and
  CONNACK in two pieces. `lmqtt_subscribe_validate` with them; a call that is
  refused changes no state.
- Callbacks that call the client again while it flushes
  (`src/src/lmqtt_client.c:469`): a flush is one step here. Whether it ends
  depends on the application, which the model would have to invent.
- Strings with both a buffer and a callback (`INVALID_OBJECT`), callbacks that
  read fewer bytes than they announced, memory behind the array of ids
  (`src/src/lmqtt_packet.c:100`).
- `src/tests` and the build files: read for what the code promises.
- Sockets, files and command lines of the examples: I/O.

The hazards of `PROJECT.json` without a property are in these parts; each has a
note.

## 6. Where the code disagrees with what it says

- **A reconnection forgets a half-answered request** (`client_lost`,
  `src/src/lmqtt_client.c:487`). The SUBACK's id has been read, the entry is in
  `rx_value`, the connection ends; the next `connect` resets the decoder. The
  callback is never called. `OnlyReconnectLosesRequest` shows that this is the
  only way a request is lost; in `session_recovery`, where it happens too,
  everything else succeeds.
- **A flush reports success** (`client_flush`, `src/src/lmqtt_client.c:499`).
  Requests kept from a kept session and flushed by a CONNACK with
  `clean_session` get `succeeded = 1`.
- **A refused call consumes a packet id** (`session_ids`,
  `src/src/lmqtt_store.c:45`). 65536 ids later (three in the run) a new
  QoS 2 message gets the id of one in flight and is reported as successful without
  having been published.
- **A full store and PUBREL** (`session_full`, `src/src/lmqtt_packet.c:1490`).
  With `main_store` full of kept requests, a PUBREL right after CONNACK fails
  each connection before anything is encoded, for ever.

Some more, met while modelling, have no run of their own:

- **A message lost by an acknowledgement kept too long**
  (`src/src/lmqtt_packet.c:1331`). PUBREC is queued before `id_set` takes the
  id and before `on_publish` is called. If `id_set` is full, or the callback
  returns 0, the connection fails, but PUBREC stays in the kept `main_store`;
  the next connection sends it, and the broker releases a QoS 2 message that
  the application has never got. `AckedIsDelivered` is therefore checked with
  room in `id_set`; `session_recovery` with `IdSetCapacity = 1` and
  `MaxForgets = 0` violates it after twenty steps. With inbound QoS 1, a
  PUBACK kept across a reconnection is sent twice, and the second one may
  acknowledge a later message with the same id.
- With a full store the acknowledgement of a PUBLISH is dropped silently (the
  same line; `EveryMessageIsAnswered` holds only with room).
- **The client may stop reading** (`src/src/lmqtt_client.c:171`). Entered with
  a full `read_buf`, `client_process_input` does not read from the socket; if
  the decoder then empties the buffer, the result is the decoder's, and the
  application waits for nothing that concerns reading until something else
  wakes it. `src/README.md` says that large payloads are handled in both
  directions. `Deaf` in `LmqttRunOnce` is that situation, and `NoDeafSelect`
  shows that it is the only one.
- A `timeout` not longer than `keep_alive` makes a request after an idle time
  fail at once: `client_keep_alive` comes before the output and finds an old
  `last_touch` (`src/src/lmqtt_client.c:259`). It is the first case of
  `LivePeerKept`, and the run `keep_alive` reaches it.
- Any input postpones PINGREQ, so a client that only receives is silent for
  longer than it promised in CONNECT (`BrokerHearsClient` makes this
  exception). A connection with half a CONNACK has no timeout
  (`SilenceIsNoticed` makes that one).
- The CONNACK's session-present flag is ignored, so an id left over from a lost
  session swallows a message: it is taken for a duplicate, or an old PUBREC for
  its own (`AckedIsDelivered` says that nothing else does).
- Strings the application has allocated are not handed back if the payload is
  refused, the connection breaks in the middle, or the first byte could not be
  written at once, when they are allocated again (`OwnedIsReturned`).
- `encode_count` lives in the application's publish structure: one that is
  used for a second message sets DUP on it.
- An empty client id meets an assertion if each of its two length bytes is
  written into a buffer with room for one byte: `string_encode` wants to go on
  after the second (`src/src/lmqtt_packet.c:243`).

## 7. Plan

Done: the store, the client, the session with a broker that may forget it, the
clock, the transfer loop, the codec byte by byte. Proved: every safety property
of `LmqttClient`, `LmqttSession`, `LmqttKeepAlive`, `LmqttRunOnce` and
`LmqttStream` that a run checks, the refinement, the theorems on lengths. What
is left, in this order:

1. SUBSCRIBE, UNSUBSCRIBE and SUBACK in `LmqttCodec`, with lengths summed over a
   sequence of topics.
2. Callbacks that call the client again, which means taking the flush apart
   into one step per entry.
