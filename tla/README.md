# A TLA+ model of the Pecron Local integration

This directory verifies `custom_components/pecron_local`,
a Home Assistant integration that talks to a Pecron power station over TCP or
Bluetooth, from the bytes on the wire to what the entities show: TLA+ modules translated from the source, the configurations with
which TLC checks them, and TLAPS proofs of what matters most.

Paths without a directory are under `custom_components/pecron_local/`.

## The system

| Part | State | Operations | Properties that make it correct |
|---|---|---|---|
| `transport/tcp.py` | reader and writer, `_iv`, `_encrypted`, `_first_read_done`, `_lock` | connect (with a handshake), disconnect, read, write | a session belongs to the connection held; a stream has one reader; no socket is left behind; every wait ends |
| `transport/ble.py` | `_client`, `_iv`, `_encrypted`, one queue of indications for all clients | the same, without a lock | a session has its client's key; a handshake is not disturbed; no link is left behind |
| `transport/base.py` | none | the interface | what a caller may rely on |
| `coordinator.py` | the transports, `active_transport` | the poll: two attempts per transport, in order | fallback in order; after `UpdateFailed` everything is down |
| `__init__.py` | the entry | set-up with a first refresh, unloading | nothing survives an entry |
| `switch.py`, `select.py` | none | write on the active transport, then request a refresh | a write never revives a session; what it has set is shown, whatever becomes of the refresh it asks for |
| `protocol.py` | none (pure) | stuffing, building and parsing packets and fields, AES | parsing undoes building; a dictionary holds what was reported, and nothing else |
| `config_flow.py`, `cloud_auth.py` | host, address, keys, devices of an account | ten wizard steps, three cloud calls | the key stored is the key of the device stored |
| `sensor.py`, `const.py` | none | look-ups in the data, tables | an entity shows the newest value reported for its data points |
| `entity.py`, `diagnostics.py` | none | an identifier, a masked copy of the state | not modelled |

Everything runs on Home Assistant's event loop: three kinds of task (the
coordinator's refresh, writes of entities, unloading) call the same transport
object and share its attributes. A task runs alone until it awaits. What is hard
here is therefore what may happen at an `await`: `connected` is checked before
the lock is; `disconnect()` takes no lock and resumes after its own await to clear
`_writer` or `_client`; timeouts and cancellation arrive at any await; the device
answers late, twice, never, or closes in the middle of an answer. No packet says which
request it answers, so that what is late is read as if it were not.

## Modules

| Module | Models | Proved about in |
|---|---|---|
| `Coordinator` | the poll, the writes and the entry over N transports, each reduced to what `base.py` shows of it | `Coordinator_proof` |
| `TcpTransport` | `tcp.py` with the tasks that use it, the event loop's queue, the lock, the sockets and the device | `TcpTransport_proof` |
| `TcpImplementsCoordinator` | the refinement mapping from `TcpTransport` to `Coordinator` | `TcpTransport_proof` |
| `BleTransport` | `ble.py` with the tasks that use it, bleak and the device | `BleTransport_proof` |
| `BleImplementsCoordinator` | the refinement mapping from `BleTransport` to `Coordinator` | `BleTransport_proof` |
| `Framing` | byte stuffing, packets, and the two ways of finding a frame | `Framing_proof` |
| `Ttlv` | the fields of a payload, the dictionary made of them, and what sensors, switches and selects look up in it; no state | `Status_proof` |
| `Status` | a read's collection of packets over `Ttlv`: answers in parts, late, or two at once | `Status_proof` |
| `Refresh` | the age of what entities show: writes, the refreshes they ask for, Home Assistant's debouncer, polls and late answers | `Refresh_proof` |
| `ConfigFlow` | the wizard's flows and the cloud they fetch keys from | `ConfigFlow_proof` |
| `Recursion` | nothing of the code: lemmas on induction, recursive functions and `FlattenSeq`, for the two proof modules before | - |
| `MC...` | instances for TLC | - |

The transports are checked alone, each with all its callers, and then composed
by refinement: `Coordinator` lets several transports do, one after the other,
what each of `TcpTransport` and `BleTransport` is shown to do with one.
(`Coordinator` with N = 1 is what the mappings instantiate; the fallback between
transports is checked and proved on `Coordinator` itself, where N is arbitrary.)
`Status` and `Refresh` look at a read from two other sides: what it makes of the
bytes it gets, with one read at a time, as `LockDiscipline` of `TcpTransport` allows, and
how old its answer is, with the queue at the lock and a data point that is only
its version.

### Coordinator

`link[t]` is what a transport holds: nothing, a link without a session
("stale"), or a session ("up", that is `connected`). `at`, `turn` and `attempt`
are where `_async_update_data` stands; `active` is `active_transport`; `busy` the
writes under way. `Dial` is everything between the hang-up that begins
`connect()` and a session; `HungUp` is the end of the `except TransportError`
block with the loop's next step. `ConnectEscapes` is any exception that is no
`TransportError`. The refresh that an entity requests after its write is one of
the polls: Home Assistant never runs two refreshes of a coordinator at once, so
there is one poll, started at any moment.

### TcpTransport

The event loop is explicit. `ready` is its FIFO of tasks to resume, each with the
reason ("go", "timeout", "cancel"); `pc[t]` is where task `t` stands; `on[t]` is the
connection whose stream it reads, which is not always the one the transport
holds, since a coroutine keeps the reader it began with. A step of the loop runs
the head of the queue to its next await or to its next change of shared state. The
lock is asyncio's: a released lock is handed to its first waiter by scheduling
it, behind everything already scheduled. Two tasks that one event wakes are
scheduled in either order.

| Code | Actions |
|---|---|
| `_async_update_data` | `PollStart` `PollBegin` `AttemptFails` `AttemptOver` |
| `connect`, `_handshake` | `Connect` `Opened` `HandshakeIv` `HandshakeLogin` `ConnectFails` `HandshakeEscapes` |
| `disconnect` | `Disconnect` (up to `wait_closed`), `ConnectionLost` (asyncio), `LetGo` |
| `read`, `_do_read`, `_collect_data_packets` | `ReadBegin` `ReadSettles` `ReadSends` `CollectDataPackets` `ReadCancelled` |
| `write`, `_do_write` | `WriteStart` `WriteBegin` `WriteSends` `WriteAcked` `WriteUnanswered` |
| `async_unload_entry` | `UnloadStart` `UnloadBegin` `UnloadOver` |
| device, network, clocks, Home Assistant | `Answer` `NeverAnswers` `PeerCloses` `Timer` `Cancel` `OpenSucceeds` |

A packet is its kind (the answer with the random string, an accepted login, a
status with fields, one without, anything else). A status can be one that `aes_decrypt` refuses,
and the fields of a collection some that `fields_to_kv` refuses (`CollectFails`). A session key is the
connection whose handshake gave it. `auth` is a history variable: the connections whose login the
device has accepted. `result` is one too.

### BleTransport

There is no lock and no stream, so the loop's queue is not needed: `running` is
the task that goes on without awaiting, and otherwise any task may be resumed. The
indications are a set, since the code only asks which kinds it has got; all
clients of a transport share it, as they share `_notify_queue`. `random` is
the client whose random string the handshake has taken. Bleak is modelled
from how `ble.py` uses it: each operation ends or raises. A `client.disconnect()` that raises may leave
the link up, and `ble.py` forgets the client all the same (`LinkStays`): `orphans` are these clients, which
go on indicating into the queue. What a read makes of its data is left out: a payload that cannot be decrypted is parsed as it
came, for want of a key or because it is not whole, and the read may return it or raise (`ReadReturns`, `ReadFails`).

### Framing

Bytes as they are, because stuffing is about two of them. `_recv_packet` is a state
machine over the bytes that have arrived; a timeout may cut it short once, at any
of its awaits, and the next call begins anew. The device is taken to frame its
packets as `_build_packet` does. What the packets carry comes from the
configuration: any bytes, up to the 64 KB that a length can count (`ConstantsAssumption`).

### Ttlv and Status

`Ttlv` follows the bytes: `ParseFrom` is `parse_fields`, as the function of the index that its loop
computes; `FieldsToKv` is `fields_to_kv`, whose loop is `Rounds` (`Put` is what a round does to the
dictionary, `StepOver` where the next one begins), with
the quirks that matter (members are taken by their count, packs by theirs, a second STRUCT of
packs goes behind the first, one without packs is a dictionary). `Shows` is what an entity makes of
the dictionary: a sensor by the paths of `SENSOR_FIELDS`, a select by an index into its options, a
switch by truth, which a dict has that is not empty: `At` finds whatever a path leads to. Names are numbers here, `<<35, 1>>` for
`host_packet_data_jdb / host_packet_electric_percentage`.

`Status` is one read after another over that: the device answers each request with its next report,
in one packet or split between any two fields; the collection takes packets until 3 s of silence (a
timeout at any moment), another kind of packet, or its bound. A report is a sequence of data points,
each with its members; what it means is
defined from these alone (`ReportKv`), without bytes and counts, and the
properties compare the two. Reports are any that a device can write (`ReportFits`): a STRUCT counts
the members that it has, a pack its fields, what is counted is not a STRUCT again, and no two data points of
a report, and no two members of one, have the same number.

| Code | Actions |
|---|---|
| `_do_read` | `ReadBegin`, and `CollectEnds` with the second request or `ReadEnds` |
| `_collect_data_packets` | `CollectPacket` `CollectMore` `CollectTimeout` |
| `write`, an end of the connection | `WriteTakes`, `HangUp` |
| device | `Answer` `SendOther` |

### Refresh

A data point is its version: each write sends the next, the device takes it or not and answers or
not, a read reports the version the device has then. `RequestRefresh` is `async_request_refresh`: put off while the
debouncer cools down, dropped when a refresh is running, begun otherwise. Whether the
debouncer cools down after a refresh differs between versions of Home Assistant, so that `PollEnds` leaves it
open. `applied` and `lost` are history variables: the last version that the
device took of a write that is over, and whether the connection has a read that was never answered.
`session` is what is left of one: a write that fails drops `_encrypted` and keeps `_iv` and the socket
("kept"), and as `connected` is looked at before the lock only, whoever has waited for the lock goes on with them.

| Code | Actions |
|---|---|
| `_send_write`, `async_select_option` with `TcpTransport.write` | `WriteBegin` `WriteSends` `WriteAcked` `WriteFails` |
| `_async_update_data` with `connect`, `read`, `disconnect` | `PollBegin` `PollConnects` `ConnectFails` `ConnectEscapes` `ReadSends` `CollectPacket` `CollectTimeout` `ReadFails` |
| Home Assistant | `Scheduled` `CooldownEnds` |
| device, network | `Answer` `NeverAnswers` `PeerCloses` |

### ConfigFlow

Independent of the running system: it decides what an entry holds. Each flow is at a
form, in a call, or over; several are open at once, and each makes one entry at most.
A device stands for its host, its address and its device key, so that what belongs
together can be told from what does not; a key is the device it opens and its
generation, which `regenerateAuthKey` raises. The two calls of `fetch_auth_key` are steps
of their own. The wizard cannot go back: a failed round of `async_step_credentials` shows the same form
again, with `_token` and `_device_key` of that round still set.

## Runs

| Run | What it asks | Bounds |
|---|---|---|
| `tcp_safety` | type, lock, session and socket invariants | 2 writers, 2 connections, 2 packets per collection, 2 requests and 2 packets under way |
| `tcp_liveness` | polls and writes end; `TcpTransport` implements `Coordinator` with its fairness | 1 writer, 2 connections, 1 request and 1 packet under way |
| `coordinator` | fallback order, what a poll leaves that fails, escapes or is cancelled, polls end | 3 transports, 2 writers |
| `ble_safety` | session, key and link invariants; `BleTransport` implements `Coordinator` | 2 writers, 3 clients, 1 failed hang-up, 1 indication queued |
| `ble_liveness` | polls end | 1 writer, 3 clients, no failed hang-up, 1 indication queued |
| `framing` | round trip, sync near the start of a frame, delivery whatever the chunks, no phantom packets | 2 packets, each of up to 2 bytes over {00, 55, AA} |
| `config_flow` | what entries hold, and what flows do to each other's | 2 flows, 2 devices, 3 accounts, 2 regenerations of a key |
| `status` | entities show what was reported, the newest of it, and a cut payload changes nothing | 4 reports, every split, 3 packets per collection, 2 requests under way |
| `refresh` | what a write has set shows in the end, and at once when all is quiet | 2 writers, 3 writes, 3 requests and 3 packets under way |
| `tcp_connect_escapes`, `tcp_answer_discarded`, `framing_truncates` | what a document or a comment says and the code does not do (see below) | as the passing run of the module |

Why these bounds are enough. Two writers are what it takes for a queue at the
lock behind its holder, and for a wake-up behind another. Connections and
clients are names that are reused once dead: one for the transport, one for
the dying connection a task may still read, and for BLE one more for a client
let go by an unloading, or by a hang-up that failed (`MaxOrphans`; the liveness run has none of
these: what they do is to indicate, as the client held does, and the states they add are many).
Two packets per collection stand for `range(10)`: one
after which the collection goes on and one after which the bound ends it. A second
request or packet under way is what a late answer needs. Three transports are one
more than the code has. Longer sequences of bytes than two packets of two give
`_recv_packet` no case it has not met: AA AA, AA 55 and AA at the end, in the
body and at the seam of two frames; the length field has no AA in it. The four reports of `status` are
numbers of one and of two bytes, negative and with decimals, a bit, bytes, a STRUCT, packs, a STRUCT of no
packs, and a STRUCT that `TSL_TOP` does not know; three packets are an answer in two parts with one
of another beside it. Three writes of two writers are what it takes for one that waits at the lock
behind a refresh, one that is acknowledged by the answer of the other, and one after. Two flows are what interferes, and
a flow may fail any number of rounds with the three accounts.

`MaxOwed`, `MaxInbox` and `MaxQueue` bound the environment (the device forgets a
request beyond the bound, or waits), `Reports` and `MaxSent` what the device says, `MaxVersion` the
writes of `Refresh` and the cloud of `ConfigFlow`; `MaxPackets` and `MaxScan` are the
code's own `10` and `200`, made small. `_packet_id` is not modelled: nothing reads it back.

Deadlock is checked in `status` and `refresh`, which model no unloading. Elsewhere it is not: once the entry is unloaded and its tasks are over the system
rightly stops, as does a stream at its end.

### Properties worth knowing

* `LockDiscipline` - whoever is inside `async with self._lock` owns it; a wake-up
  is never lost nor left over, cancellations and timeouts included.
* `ConnectedIsAuthenticated`, `SessionKeyMatches` - `connected` is only true of the
  connection held, after its own login, and a key that outlives its session (a
  failed write keeps `_iv`) never meets another connection.
* `OneReader`, `ReaderOwnsSocket` - the handshake takes no lock and yet never
  reads beside another task; a task whose connection is let go under it sees the end of
  its own stream and never a byte of the next.
* `NoOrphanSocket` - what is open is held, so that the next hang-up closes it.
* `FallbackInOrder`, `UpdateFailedMeansDown`, `EscapeLeavesNoSession` - the same one
  level up, for all transports: what a failed one leaves behind, and a poll that ends by an
  exception which is no `TransportError`, after which nothing is hung up and `active_transport` stays.
* `KeyFitsClient`, `HandshakeIsExclusive`, `NoOrphanLink`, `ReadsWithKey` -
  what holds of BLE although it has no lock and one queue for all clients, and exactly
  as long as the entry is not being unloaded. A hang-up that fails is the one way in which a link, and its random
  string, can outlive its client: the properties name it.
* `NoFallback` - an entry the wizard makes never has both a host and an address (and with a blank host
  neither): the fallback of the coordinator serves no entry made this way.
* `AsksForOwnDevice`, `KeysStayCurrent`, `DiscoveredOnce` - retries with other accounts and
  flows side by side: a key is asked of the account that has bound the device, entries
  made before keep working unless a call has failed, a discovered device has one entry.
* `AnswerIsExact`, `NewestIsShown`, `ShownIsReported` - a read of one whole answer gives what
  the device reported, to the last member; an older answer in the same collection does not hide the
  newer; and in whatever parts answers come, an entity shows nothing that was not
  reported for it, though of a STRUCT perhaps a part. Two exceptions are in the properties, because they are in the code: see below.
* `CutLosesOnly` - a payload cut at any byte loses fields from its end and changes none.
* `QuietIsFresh`, `WritesShow` - the refresh after a write may be dropped, put off, or read a late
  answer; still, when nothing is under way no entity shows a state from before a write that the
  device took, and in the end what was written shows, also when the write has failed
  towards Home Assistant. The lock is what does it: without it `QuietIsFresh` fails. It holds behind a failed
  write too, on whose socket the refresh goes on reading.
* `PlainPacketsArrive`, `NoPhantomPacket`, `BleFindsPackets` - delivery for packets without
  a stuffed byte.

### Fairness

`TcpTransport!FairSpec`: the event loop runs what is ready, and a timer that is set
fires. Nothing is assumed of the device, of the network or of Home Assistant;
that is enough, because every wait of `tcp.py` has a timeout, except for
`wait_closed()`, which the loop itself ends, and the lock, which its holder's timeouts end.
`BleTransport!FairSpec`: what bleak is asked to do ends, by its own timeouts; what is in the queue
is collected; and a collection ends once nothing comes. Each
chunk moves the deadline of `_collect_indications` (ble.py:83), so a device
that never stops indicating keeps a poll for ever: that is the exception `PollEnds` of `BleTransport` makes. `Coordinator!FairSpec`: the
operations of a transport end. `tcp_liveness` shows that of TCP.
`Refresh!FairSpec`: tasks go on, the schedule and the debouncer's timer fire; of the device nothing is assumed, and
`WritesShow` allows for one that cannot be read.

### What the code does otherwise than is said of it

The first three are runs in which TLC finds the property violated; the fourth is one that holds.

1. `tcp_connect_escapes` - connect() "raises TransportError on failure" (base.py:20): a
   handshake that times out or is reset raises something else, which the coordinator does
   not catch: no second attempt and no other transport is tried, and the socket stays
   open until the next poll.
2. `tcp_answer_discarded` - a device that "closes the TCP socket after each response"
   (coordinator.py:37-39) closes while the collection waits for a next packet: the fields in
   hand are thrown away, on both attempts.
3. `framing_truncates` - the length counts unstuffed bytes and is read against stuffed
   ones, so a packet with a stuffed byte comes out short, and the next begins too early.
4. `config_flow` - "WiFi TCP (port 6607) with BLE fallback" (README.md:5), "TCP socket error, BLE
   attempt" (design document, line 180): `NoFallback` holds, so no entry has a second transport.

Seen while modelling, and not given a run, because a property would only restate a
guard or the table it comes from.

Of the wire: `_recv_packet` looks for stuffing in the length too, and so takes a first byte of 55 there (a packet of 21760 to
22015 bytes) for the stuffing of the AA before it and drops it (tcp.py:150-158); `Plain` and `Clean` leave such packets out. The second AA of a frame whose length
begins with AA (43520 bytes and more) reads as the beginning of another to a reader that comes in the middle. Nor does
`_byte_stuff` look behind the last byte of a frame: if that is an AA, a reader that looks for a sync there finds it one byte early, with the first AA
of the next frame (protocol.py:53). `SyncIsNearStart` says that these are the only two cases.

Of the transports: a TCP write returns on the first packet that comes, a late status
of a read for instance (tcp.py:265); disconnect() forgets the client it finds after its await, so that an unloading
that overlaps a poll lets the poll's new BLE client go with its link up (ble.py:186); it forgets the client also when the hang-up
raised, whose link may be up and its random string taken for that of the next handshake (ble.py:182-186); a BLE payload that cannot be
decrypted is parsed as fields (ble.py:217-223); the result of a BLE login is not looked at (ble.py:170; tcp.py:106-108 does);
BLE keeps its connection from poll to poll
against ble.py:6 (the coordinator connects only what is not connected,
coordinator.py:42); the acknowledgement of a write ends a BLE read as if it
were the answer (ble.py:208), and without a lock a read of before a write may be shown after it; a cancelled TCP read leaves the socket open, and after
an unloading nobody closes it (tcp.py:181-185); `ConfigEntryAuthFailed`, which the design
document promises for a bad key, is never raised; the checksum of a packet is never
checked (protocol.py:129-137).

Of the data: the members of a STRUCT that `TSL_TOP` does not know count as data points of their own
(protocol.py:213), and so do the members of a known one when an answer was split in its middle and
the first part has been read before; the packs of two answers read together are listed twice, and packs after a
STRUCT of none raise AttributeError (protocol.py:229-240), which fails the read; a select takes a negative value for an index from the end
(select.py:59); the sensor of the AC charging power shows the index of an option as a percentage
(sensor.py:76, const.py:132, 159); the sensors of the single solar ports have no number that leads to them
(const.py:83-85, 121-129); an ENUM is written as a tag and a byte, without the byte of sign and size that a NUM is
read with (tcp.py:256, protocol.py:154-160).

Of the wizard: an entry may hold the key of one
device and the host of another, when the account's only device is not the one that was
chosen (config_flow.py:180-189); a blank host makes an entry without a transport
(config_flow.py:109); only discovered devices have a unique id, so that a device
added by hand can be added again.

## Proofs

The modules `..._proof` prove for every value of the constants what the runs check on small
ones. They assume the named ASSUMEs of the modules only: tasks, connections and None
differ, the bounds are positive, of TCP that there are finitely many writers, of `Framing` that a payload
fits into a packet, and of `Status` that reports are such as a device can write.

* `TcpTransport_proof!TypeCorrect`: `TypeOK` is inductive by itself.
* `LockIsDisciplined`: `LockDiscipline` with `TypeOK` is inductive. It is stated over a
  queue, a lock and a place per task (`Disciplined`), so that lemmas about the three
  things a step may do (go on, await, release and wake) serve all actions. The
  conjunct `WakeUpsAreDue` carries the weight: that a task has at most one
  reason to be resumed, that a lock is granted only to its next owner, and that a
  cancelled waiter has left the queue.
* `ConnectedMeansAuthenticated`, `KeyFitsConnection`: neither is inductive. The
  strengthening says what the poll knows at each place of the handshake: while it
  reads on connection `c`, there is no key and no session, and the transport holds `c`
  or nothing; an accepted login waiting in the stream of `c` means that `c` is in `auth`;
  a session never lacks its key. It rests on
  `LockDiscipline`, because a step belongs to the task the queue says.
* `StreamsHaveOneReader`, `ReadersKeepTheirStream`, `SocketsAreHeld`. None of the
  three is inductive, and each needs the others. What carries them is the order of the queue: a
  connection that the transport lets go is dead, and all who still read it are awake: its
  end wakes them together with whoever awaits that end. Opening the next one takes the poll
  another turn of the queue, in which they are ahead of it, so that they are gone when the new
  handshake reads, which takes no lock. Whoever hangs up holds on to what it closes until it is closed.
* `TcpImplements`: every step of `TcpTransport` is one of `Coordinator`, or changes
  nothing there. Most of it is bookkeeping with one lemma per group of actions; what it needs to
  know of the queue is `QueueInv`: a write that an entity has begun looks at the
  transport before the unloading does and before another poll connects again - the
  coordinator begins writes under a loaded entry only - and a poll is cancelled only once
  the entry is unloaded.
* `BleTransport_proof`: `TypeCorrect`, `KeyFits`, `HandshakesAreExclusive`, `LinksAreHeld`, `ReadsHaveKey`. With no lock to
  lean on, `BleInv` says why none is needed while the entry stays loaded: `connect()` ends the session
  before its first await (`NoSessionYet`), so that no write is begun on the client it dials
  (`WritesElsewhere`); nobody but the poll changes the client it works with (`WorksOnClient`); and as the queue
  is drained once the new client and those whose hang-up failed are the only ones with a link, random strings found in it are
  theirs (`RandomIsCurrent`). Each conjunct is about a loaded entry where it has to be: the
  unloading breaks it.
* `BleImplements`: the same as `TcpImplements`, and all of `ImplementsCoordinator`, which
  promises no liveness of BLE.
* `Refresh_proof`: `TypeCorrect` (from `Room`: no more writes wait than versions are left) and
  `FreshWhenQuiet`. The argument is `FreshComes`: on a connection that has lost no read, what is not shown yet is to be asked
  for by a refresh that is pending or has not sent its request, or a status is under way that is new enough
  (`StatusComes`). A write ends under the lock, when no refresh collects (`LockIsKept`): one that is running, and
  into which the debouncer drops the request, has still to send its own. A status that a write takes for its
  acknowledgement is made up for by the refresh that this write requests. A refresh that connects has let the old
  stream go with all that was under way on it (`Connecting`). That late
  answers do no harm rests on their order (`InOrder`).
* `Coordinator_proof`: for any N, `TypeCorrect`, `FallsBackInOrder`, `FailureMeansDown`,
  `EscapesWithoutSession`. The invariant adds `NoResultYet` - a running poll has no result -
  without which a poll that begins could be measured against the last one's, and `NoneWhileConnecting` -
  `connect()` is under way only on a transport without a session.
  A write or an unloading is shown once to begin no link and no session (`OthersBeginNone`).
* `ConfigFlow_proof`, for any number of flows, devices, accounts and generations of keys:
  `TypeCorrect` (with `LoggedIn`: a flow that lists, offers or fetches has an account, and offers what
  that has bound - without it a device key could be of no device), `NoEntryHasFallback` (from `ChoicesAgree`: before it
  chooses a flow has neither host nor address), `AsksOwner` (from `LoggedIn`), `KeysCurrent` (from
  `FirstCalls`: as long as no call has failed, all flows are in their first, which changes no key),
  `OneEntryPerDiscovery` (from `OneLives`: of the flows and entries with one unique id one is alive).

* `Framing_proof`: `RoundTripAlways` from lemmas on stuffing: each byte of a packet is written as one or as
  two, and unstuffing finds where each begins (`StuffedWell`). `SyncIsAlwaysNearStart` from the same: within a frame an AA is
  followed by an AA only near its start, and across the seam of two only if the payload of the first ends with one (`FrameEnds`). `PlainPacketsAlwaysArrive` and `NoPhantomPacketEver` have one invariant,
  `StreamInv`: what has been read and what is still to come are the frames sent. It says at which frame and how far in it
  the reader is (`Placed`), what its buffer has of that frame, and that what it has returned are frames (`GotInv`).
  It does not hold of every stream, but of those that the properties speak of (`Readable`), and a
  reader that a timeout has cut short may stand in the middle of a frame, where it finds no sync until the next one.
  `BleFindsEveryPacket` follows `_parse_all_packets` from frame to frame.
* `Status_proof`. `FieldsRoundTrip`: a field of each type is read back from any place of a payload
  (`ReadsBack`), and then all of them, from the last to the first. `FieldsAreSent` is inductive with `ReadInv`, which says
  of every packet on its way that it is a part of a report. `CutsLoseOnly` compares the parse of a
  payload with that of the cut one from their ends backwards. `WholeAnswersAreExact`: where the points of a report begin
  in its fields, the loop of `fields_to_kv` puts a point as it was meant (`PutPoint`: a value, a dict with its members, or a list of packs)
  and steps to where the next begins (`StepPoint`), so that its rounds are the points (`ReportRound`); the
  invariant `DataInv` adds that the data are `FieldsToKv` of what came in `source`.
  `NewestAnswerIsShown` needs that what has come is a `Chain`: a packet continues the one before, or begins a
  report after the end of another (`ChainInv`, which the stream and the read in progress share). What came
  before a whole answer then ends with the end of a report, and however the loop stumbles through
  it, beginning perhaps among the members of a STRUCT, it stands at the answer's first field when it has passed it
  (`SentStays`, `RoundsArrive`). From there its rounds are the answer's points, and each of them
  replaces what there was under its number (`PutsSettle`), since nothing but the packs is ever a list (`PutLists`).
  `ShownWasReported` follows the loop over whatever parts of answers have come: before each round it stands at a
  point of a report, whose rest lies ahead as far as the fields go, with the next report behind it, or it is past the
  end (`StandsAt`). The first part has to begin with a point, as the property says; from there a part that ends too soon can only be
  the last one, so that a point without all its fields is one that the fields end in (`Breaks`). It is a STRUCT, whose
  members the loop finds as far as they came, and nothing else (`MembersBreak`, `BrokenDict`). Every entry but
  that of the packs is then what a point of some report means, or a dict with fewer of its members (`Reported`); no
  entity looks into the packs (`PathsAre`).
* `Recursion` is what these two rest on. Functions defined by recursion, over indices forwards or backwards, exist and
  are unique (`ForwardRecursion`, `BackwardRecursion`, `SetRecursion` for the folds of the
  libraries): induction is stated there for sets of numbers instead of predicates, which can be cited.
  `Lies` says where the parts of a `FlattenSeq` are in it.

Checked by TLC only: liveness, and with it the part of `ImplementsCoordinator` of TCP that is about
fairness (fairness and ENABLED are out of the prover's reach). Every safety property of a passing run has its theorem.

## Not modelled

Modules in the order they were planned: `Coordinator` and `TcpTransport` first,
because the poll over TCP is what every installation runs; then `BleTransport`,
`Framing` and `ConfigFlow`; then `Ttlv`, `Status` and `Refresh`; the proofs along the same line.
What could still be added are the reads of BLE over `Ttlv` (ble.py:206-229), whose collection has other ends, and the
age of what they show, without a lock.

Left out for good: AES, SHA-256, base64 and the decoding of bytes to text (a library's); wording, logging and
translations; `entity.py` and `diagnostics.py` (an identifier, and a copy of the state with secrets masked);
the order of preference and the platforms in `__init__.py` (a list that is built once); the
regions of the cloud; how Home Assistant
schedules, beyond what the actions named in PROJECT.json as external say.
