# A verification project for Beeton

Beeton is a message layer for model-railway devices on a Thread mesh (ESP32-C6).
One device is the leader, the others are joiners. Each runs one Arduino sketch
whose `loop()` calls `Beeton::update()`; the library sits on LightThread, which
gives it a mesh address, a readiness flag and unreliable UDP datagrams. This
directory holds TLA+ specifications of the library, the TLC runs that check
them, and proofs checked by TLAPS. Paths below are relative to the repository.

## The system

| Part | State | Operations | Modelled in |
|---|---|---|---|
| Sequence numbers, `util.cpp:10-13,120-139` | a 16-bit counter and a validity mark in RTC memory | `allocSeq` | `Reliable` |
| Reliable delivery, `core.cpp`, `util.cpp:141-193` | `pending` (by sequence number), `seen` (the duplicate window) | `send`, `handleAckPacket`, `handleReliablePacket`, `wasSeenAndMark`, `pumpReliable` | `Reliable`, `ReliableDelivery` |
| Packet dispatch, `core.cpp:209-254,314-348` | none | `handlePacket`, `handleLeaderControlPacket`, `dispatchLocalPacket` | `ReliableDelivery`, `Routing`, `Wire` |
| Routing lifecycle, `RoutingCommon.cpp` | `routingLightThreadWasReady`, `networkReady` | `routingBegin`, `routingUpdate`, dispatch of routing packets, ACKs and failures | `Routing` |
| Routing strategy, `Routing.cpp` | `thingIdToIp`, `localDestinations`, `routingState` | announce, register, next hop, classify | `Routing` |
| Payload codec and packets, `Payload.cpp`, `core.cpp:141-207` | none | the overloads of `send`, `encodeValuePayload`, `decodePayload`, `buildPacket`, `parsePacket`, the bytes of an announcement | `Wire`, `Widths` |
| USB command line, `usb.cpp`, `util.cpp` | the line being assembled | `updateUsb`, `handleUsbLine`, `sendCommandFromUsb`, `splitCsv`, `parseUnsignedField` | `UsbLine`, `Endpoints` |
| Mapping files, `mappings.cpp`, `lookup.cpp` | four name maps, `localThings` | `loadThings`, `loadActions`, `loadDefines`, lookups | `Mappings`, `Endpoints` |
| Audio player, `BeetonAudio.cpp` | file, format, bytes left, `_playing`, `_loop` | `begin`, `play`, `stop`, `update`; `_parseWavHeader` | `Audio`, `WavHeader`, `Player` |
| `millis()` in delivery, `core.cpp:131`, `util.cpp:164,188` | a 32-bit clock that wraps | due, expired | `Clock`, `Countdown` |
| Dormant sensor, controller (example sketches) | the sketch's flags | `setup`, `loop`, callbacks | `DormantSensor`, `Controller` |
| LightThread | readiness, datagrams in flight | `sendUdp`, `isReady`, `goDormant` | external, by its use |

### How the parts interact

- `update()` first lets LightThread deliver packets, each through the callback
  installed by `begin()` to `handlePacket`; then it runs `routingUpdate`, then
  `pumpReliable`. There is one thread per device: concurrency is between devices,
  the mesh and time.
- A reliable packet takes a sequence number and, if `sendUdp` accepts it, an
  entry in `pending`. The receiver looks its (origin, sequence number) up in
  `seen`, acknowledges it to its *origin* either way, and dispatches it when it
  is new. The ACK erases the entry and runs `onAckSuccess`; the pump resends
  every 250 ms and after five resends erases the entry and runs `onAckFail`.
- A joiner whose transport became ready sends its table of things to the leader
  as a reliable packet. Its ACK makes the joiner network-ready; its failure makes
  it announce again. Application packets of joiners go to the leader, which
  dispatches its own, forwards what its table knows, and drops the rest.
  Forwarding keeps the packet as it is, so the ACK goes straight to the origin.
- A change of the transport resets the routing state and tables, **not** `pending`,
  `seen` or the counter. `goDormant` and power loss wipe RAM; sleep retains the
  counter.

### What is hard here, and what correctness means

Delivery: copies of a packet, ACKs and timeouts race one another; the duplicate
window is bounded in size and in time; restarts lose one side's memory. Correct
means: no message is dispatched twice, no success is reported without a dispatch,
each message gets exactly one verdict, sequence numbers are not repeated, and
every verdict comes.

Routing: announcements from before a flap are still in `pending` and in the mesh
after it, so their ACKs and failures meet a state they do not belong to; the
leader and its joiners each decide alone when the table is to be rebuilt. Correct
means: a joiner never gets stuck outside the network, is in it only while the
leader can route to it, a message is served only where it is hosted, and success
means that it was.

Sketches: callbacks come from inside `update()`, sleep takes RAM but not the packets under
way, and `loop()` looks at its inputs only while Beeton is ready. Correct means: a sensor
sleeps on fresh news only and always gets back to sleep; a press of a button has one answer.

Codec, command line, mappings: functions with numeric edges, text that arrives in pieces, and
loaders whose two directions of a map must agree. Audio: headers that may claim anything, a file, a
loop flag and a DMA queue that may take less than it is given.

`PROJECT.json` lists the hazards line by line, with the properties that would
catch each going wrong, or why none does yet.

## The modules

**`Reliable`** is the library's delivery layer as state (`pending`, `seen`,
`seqValid`, `nextSeq`, `net`) and one operator per function, without a
specification of its own. A node is a device, named by its mesh address.
`millis()` is replaced by countdowns: `due` in a pending entry, `age` in a
duplicate-window entry, `life` in a datagram; `ReliableTick` lets a unit pass.
Vector order in `seen` is kept as a rank. A datagram in `net` may be delivered any
number of times, in any order, while its life lasts, or never: loss, duplication,
reordering and delay in one set.

**`ReliableDelivery`** composes it with applications that send straight to the
host of an address (`Home`). Its other variables record what happened to each
message (`log`, `status`, `verdicts`, `accepted`, `forgotten`). Actions: `SendReliably`,
`SendPlainly`, `ReceiveAck`, `ReceiveReliable`, `ReceivePlain`, `Pump`, `Tick`,
`Sleep`, `PowerCycle`.

**`DeliveryContract`** is the abstract specification: what an application may rely
on, in terms of messages and verdicts, with no packet, number or timer.
`ReliableDelivery` instantiates it with `known <- status`, `handed <- accepted`,
`forgiven <- forgotten`, and claims to implement it.

**`Routing`** composes `Reliable` with the leader and joiner strategy; next hops
come from `NextHop`, the branches of `handlePacket` are `ReceiveAck`,
`ReceiveAnnouncement`, `ReceiveControl`, `ReceiveLocal` and `Forward` (a packet that
`handlePacket` ignores is a packet no action takes). The leader's address FFFF:FF is three addresses here, one
for each thing its action may mean: `RoutingAddr`, `ControlAddr` (serial, which the leader prints) and `IgnoredAddr` (any
other action, which is acknowledged and ignored). `RoutingUpdate` is
`routingUpdate`: on one side the loss of the transport, on the other its
return, with the announcement that the same call goes on to make. The environment may flap
a transport, put devices to sleep, cut power or refuse a send, `MaxFaults` times
in all.

**`Audio`** is the WAV player, on its own: nothing else of the library touches it. Its
state is the player's (`file`, `playing`, `loop`, `frames`, `remaining`) and what it acts on: the read
`position`, the DMA queue (`queued`). It also records what became of a
playback (`written`, `readFailed`, `ending`). `Update` is one call of `update`: a refill (`Refills`: the
chunk, or what came before a failed read), at the end of a looping clip a rewind
and a second refill, then the write. `PlayRejected` is every early return of `play`, all of
which leave the player closed.

**`DormantSensor`** composes `Routing` with the sketch of the dormant sensor: `Report` is its
`loop()`, `SuccessReceive` its callback, made inside `SensorReceiveAck`, `FallAsleep` and `WakeUp` what
`goDormant` leads to. The leader is a `Routing` leader; time passes while the device sleeps. The sketch reports with action 00 to
the leader's address, so its report goes to `IgnoredAddr`: the leader acknowledges it and does nothing with it (`core.cpp:324-330`).

**`Controller`** is the sketch of the hand controller. One step is one pass of `loop()`: any level of
the button, any reading of the knob, any answer of `isReady()` and `send()` that the constants allow.
`down`, `held` and `answers` record what the hand did and what came of it, `missed` whether a pass without the
network fell into the press. What `send()` returns is left out, as the sketch does not look at it.

**`Wire`** is one datagram: something is sent (`Send`, `Announce`, or `SendForeign` for what another
program or version sends) and read (`Receive`). `Encode` and `BuildPacket` make its bytes,
`ParsePacket`, `Decode` and `Announced` read them. Results that may fail are sets, empty on failure. The receiver is the device a
datagram is for, and ready: what is no ACK (`Handled`) is a table, a message for a callback, or bytes that the leader prints
(`Outlet`, `IsTaken`); other control packets are taken for nothing. What a device that is not ready drops is in `Routing`.

**`UsbLine`** takes a text that arrives in pieces of any size (`Arrive`) and reads it character by
character (`ReadChar`); a finished line is answered by `Answer`, the branches of `handleUsbLine`.
`ParseUnsigned` works digit by digit modulo `Word`, as the code does on 32 bits.

**`Mappings`** reads rows one at a time (`ReadThing`, `ReadAction`, `ReadDefine`), in the order of the three
files. `Lower[raw]` stands for trimming and lower case. Rows that are skipped change nothing.

**`Widths`** holds what the last three share: a byte of `Base` values, a thing of two bytes.

**`Endpoints`** composes the three over the mesh: a joiner loads its files and announces `localThings`
(`LoadFiles`, `AnnounceLocalThings`), an empty list too; a `SEND` typed at the leader becomes a message if the leader knows an owner
(`HostTypes`, `ReadTyped`); sketches send messages and other programs anything (`SketchSends`); a device reads
what arrives (`DeviceReceives`). The parts share nothing but the datagram, so a behaviour uses one of the sources
and has one datagram under way; what many datagrams do to one another is the subject of `Routing`.

**`WavHeader`** is `play` up to the moment it plays. A file is its size; what it holds is chosen when it is
read, which is as general, as the walk reads no byte twice. `Reject` is every way to give up.

**`Player`** composes `WavHeader` and `Audio`: `Walk` is the inside of the first `play`, `HandOver` and `GiveUp` its two
ends. The clip it hands over, `dataSize` in frames of `blockAlign`, is the one `Audio` plays. Later calls
(`PlayLater`) are as `Audio` has them. Nothing else happens while `play` runs (`Otherwise`).

**`Clock`** keeps one pending entry and one window entry as moments of a wrapping `millis()`, with the
comparisons of the code. **`Countdown`** is the same as numbers that count down and up, the way `Reliable` has
it. `Clock` claims to implement `Countdown`, with `left` and `age` mapped to wrapped differences.

**`MC...`** modules name the devices, files, texts and packets of the instances.
**`..._proofs`** modules hold lemmas and theorems.
Definitions named `X_Something` above an `X` are faulty variants of it; the
checks that put them in its place must fail.

## The runs

| Run | Config | Instance | Question |
|---|---|---|---|
| `loss` | `RD_loss` | a receiver that sleeps, 3 messages one way, 1 resend, delay 1, lag 1, TTL 3, window of 2 | Do TTL, window, retries and verdicts fit together in a bad mesh, as `DeliveryContract` promises? |
| `boot` | `RD_boot` | 2 messages, sleep and one cold boot per device, window of 1, colliding cold starts, fair loops | What survives restarts, evictions and reused numbers, and does every message get its verdict? |
| `join` | `R_join` | leader and one joiner that flaps, sleeps, loses power, meets refusals (2 faults), fairness | Does a joiner always find its way in, with the leader knowing its things? |
| `serve` | `R_serve` | leader and two joiners that host the same things, one message, one refusal, a window of 1, a sketch that calls `setNetworkReady(true)` | Is a message served only by its host, and does success mean that it was? |
| `flap` | `R_flap` | the leader flaps once, fairness | Does the leader's table recover? **It does not**, see below. |
| `sleep` | `S_sleep` | leader and sensor, one refusal each of `sendUdp` and `goDormant`, fairness | Does the sensor sleep only on news of this wake, and again and again? |
| `report` | `S_report` | the same without refusals | Does it report before it sleeps? **It does not**, see below. |
| `clip` | `A_clip` | a first file of 11 to 63 bytes with chunks of any size in any order, then a second play; clips in chunks of 2 frames, a queue of 6; failing reads, seeks and writes; fairness | Does `play` start inside the file or give up, do file, byte count and queue stay in step, does a clip end? |
| `cut` | `A_cut` | one play | Can a full queue cut a clip short? **It can**, see below. |
| `endpoints` | `E_ends` | bytes of 4 values: files with any rows, 1348 typed texts, all values of all types, tables of up to 3 things, thousands of foreign datagrams | Do the tables agree, is each line answered once and whole, and does what is written in a file or a line reach the other device? |
| `wrap` | `C_wrap` | a clock of 16 values | Are the wrapped comparisons the countdowns of the other models? |
| `press` | `K_press` | long press of 3 passes, readings around the steps of the knob, passes without the network | One answer per press, a speed near the knob? |

Types are checked where something could break them: `TypeOK` in `loss` and `clip`, `SensorTypeOK`, which contains that of `Routing`,
in `sleep`, `MappingsTypeOK` in `endpoints`. Those of `WavHeader` and `Clock` are proved.

The properties, stated in full at the end of each module:

- `AtMostOnce`: a reliable message reaches `messageCallback` at most once unless its
  receiver restarted or evicted its key. The window's TTL never is the reason. A second dispatch after an eviction does
  happen; it is recorded in `forgotten` and excused, here and in `ImplementsContract`. What is checked is that nothing else goes wrong with it.
- `AckedMeansAccepted`: success implies a dispatch of that message, or of an
  earlier one from the same sender under the same number (possible after the
  sender's cold boot only). The exception is real: `RD_boot` reaches it.
- `OneVerdict`: a message that left is pending, or had exactly one callback, or was
  lost with its sender's memory.
- `FreshSeq`: within one life of RTC memory no number is used for two messages. It says nothing of numbers repeated after a
  cold boot, which starts a new life, nor of a number spent on a packet that `sendUdp` refused, which is in no log.
- `Resolved`: every pending message gets its verdict.
- `ImplementsContract`: refinement of `DeliveryContract`.
- `NeverStuck`, `AnnouncementsBounded`, `RoutableWhenReady`: a joiner with a transport
  is in, about to announce, or waits for an announcement that is really pending;
  stale failures double announcements at most once per fault; and it is ready only
  while the leader's table routes each of its things to a host of it.
- `EntersNetwork`: a joiner is network-ready again and again.
- `ServedByOwner`, `ConfirmedMeansServed`: end to end, across forwarding. Success means that the message was served, with
  one exception that is real: what is sent to the leader for an action it ignores is acknowledged and served by nobody.

- `InStep`, `WholeClip`: what was given to the queue is what was read from the file, and with the
  bytes left it makes up the clip, across chunks, rewinds and failed reads; a clip that ran to its
  end was given whole.
- `Ends`: a clip that does not loop stops.
- `ClipInside`, `OnGrid`, `Returns`: whatever sizes headers claim, the clip lies inside RIFF chunk
  and file, chunks are looked for at even offsets only, and the walk ends.
- `DormantOnFreshWord`: the sensor goes dormant only when the leader has handled a packet of this
  wake; retained numbers are what keeps an ACK of an earlier wake from passing for it.
- `KeepsSleeping`: the sensor sleeps again and again, if LightThread accepts its calls of `goDormant`: the sketch calls it once per
  success, and nothing repeats a call that was refused. A sensor whose call was refused stays awake until some other success comes; that it
  sleeps again is not claimed.
- `OneAnswerPerPress`, `SpeedNearKnob`: a long press is one stop, a short one one coast, and no press has two answers even when
  Beeton is not ready meanwhile; the speed sent stays within the play of the knob. What speed the
  train received is not asked.
- `MessageAsSent`, `TableAsSent`: type, value, bytes and header survive the wire, announced things do too.
- `OneReading`: whatever arrives and is accepted, a message, a table or bytes to print, is what a device would have sent in these bytes,
  header included; an ACK is taken for none of them.
- `LinesWhole`, `SendsExact`: as asked by their runs. The reference for `SendsExact` is the number that
  a field's digits make, without width; how a line is trimmed and split is shared with the model, so a fault there would
  not show in `SendsExact`.
- `ThingsTwoWay`, `ActionsTwoWay`: the two directions of a map are inverse. `Grounded`: nothing refers to a thing
  without a name. `HostedOnce`: no thing is announced twice. `FirstRowWins`: within a load the number stored for a name
  stays; that the names of numbers stay follows, as the two directions are inverse.
- `TypedReachesDevice`, `HostedReachesLeader`: what a device takes from a typed command is what the line says, and what the leader
  takes from an announcement is what the joiner's files define, each thing with a name.
- `CountsDown`: refinement of `Countdown`.

### Where the code departs from what it says

`Routing.cpp:27-28` says that the leader forwards "based on collected destination
table". The leader clears the table when its transport is lost and when it is
back (`Routing.cpp:97,128`), but joiners announce only after a change of *their own*
transport or a failed announcement. In `R_flap` the leader alone flaps; the joiner
remains ready and idle, and the leader never again has a route to it. Whether a
deployment sees it depends on LightThread: it does whenever the leader's flag
drops for a while without the joiners' flags doing so. For the same reason
`RoutableWhenReady` is claimed, and checked, for a leader that keeps its transport.

`BeetonAudio.cpp:21` expects that "Big DMA buffering avoids starvation/beeping". The opposite limit
is not handled: `update` writes without a timeout (202) and takes a short write for a failure
that closes the clip (204-207). `examples/beeton-audio` plays a clip in a loop and calls `update` with
nothing in between; when the file is read faster than it is played, the buffers fill
(12 x 512 frames, 24 chunks of 256) and the next call ends the clip. `A_cut` shows it with 3 chunks.
That the cut is noticed, and never passes for the end of the clip, is `WholeClip`.

The success callback is called for every entry an ACK completes, the library's own
announcement among them (`core.cpp:285-289`). `beeton-joiner-dormant-sensor` goes dormant in
that callback, so it sleeps before it has reported, every time (`S_report`).

Three remarks that no run is spent on. The dormant sensor's handler for failures, which would repeat a failed report,
is never registered (`:12-14,22`).

`beeton-joiner-controller` looks at its button only while Beeton is ready, and keeps what it knew over the
time in between, so two short presses around it pass for one that is longer than `LONG_PRESS_TIME` (`:65`); that is what
`missed` is for in `Controller`. It does not look at what `send` returns, so a stop that was refused counts as sent (`:75-77`).

### Bounds, and why they are enough

- *Time.* One tick stands for a retry interval (250 ms). `TtlAssumption` keeps the proportion
  the code has: all retries with their lag and the last delay fit in the TTL
  (5 x 250 ms against 10000 ms, so 8750 ms remain for mesh delays and a busy
  `loop()`). The instances sit at or near equality, where an off-by-one would show;
  in `RD_loss` it is exact, and with any smaller TTL there `AtMostOnce` fails.
- *`MaxLag`* is how long a `loop()` may keep due work waiting; *`MaxDelay`* how long the
  mesh keeps a datagram. Both are 0 or 1 tick: enough for an ACK to arrive after
  the retry that made it superfluous, and after the verdict.
- *`SeqMod`* replaces 2^16. It is small enough for the counter to pass through zero
  (cold starts sit just below it) and, except after cold boots, large enough not
  to come full circle, which the real counter could do only within 65535
  messages of one retry series.
- *`ColdStarts`* are the values `esp_random()` may return; `RD_boot` and `R_join` choose
  them so that a restarted device can repeat live numbers, and `RD_boot`
  includes the zero that the code replaces.
- *`SeenMax`* is 1 or 2 for 32, so that evictions happen with two or three messages.
- *`MaxRetries`* is 1 for 5: a first copy, a resend, an exhausted entry.
- *`MaxCycles`, `MaxFaults`* bound restarts and faults; one or two are enough to have a
  stale announcement, its ACK and a newer one at the same time.
- Messages are interchangeable where no address tells them apart, so `RD_loss`
  uses symmetry; the runs with liveness do not.
- In `R_serve` datagrams live within one tick: they may still be
  repeated and reordered with each other, but not across a retry interval, and the only fault is a refused send.
  Longer delays are covered by the `RD` runs, flaps and restarts by `R_join`; `OnlyOwnersServe` is proved for all of them.

- *`ClipLengths`, `ChunkFrames`, `DmaFrames`* keep the shape of the code's sizes: a clip shorter than a
  chunk, one of whole chunks, one with a partial last chunk, and a queue of several chunks (3 for 24) that
  a looping clip can fill. *`MaxPlays`* is 2, so that a clip is replaced while it plays.

- *`MaxRefusals`* is 1, so that `DormantOnFreshWord` is checked with a sensor that stayed awake after its first success and sends its
  report. Of a sensor that LightThread refuses no run asks that it sleeps: `KeepsSleeping` is about behaviours without refusals.
- *`Base`* is 4 for 256 and *`OriginSize`* 2 for 16. With 4 values per byte all values of one and two bytes, and all
  256 of four, are tried; every edge of sign and width is among them. Foreign datagrams have up to 5
  bytes of data, one more than the widest number.
- *`Word`* of `UsbLine` is `Base`^4, 256 for 2^32: larger than any number a field may hold. A text such as `271`, which
  is 15 modulo 256, would wrap to a good thing, which must be noticed. Lines, sessions and fields are listed in `MCEndpoints`.
- *`Destinations`* are all addresses but two: one thing without an owner, and the leader's control address, which no
  application may host (`BeetonConfig.h:11-12`).
- *`Word`* of `WavHeader` is 64 for 2^32. The smallest playable file has 46 bytes, so 63 leave room for a
  chunk to skip; `FileSizes` holds sizes below, at and above each step of the walk. A chunk may claim any
  32-bit size, so sums pass the word's end.
- *`HalfWord`* is 8 for 2^31, with an interval of 5, a TTL of 11 and a lag of 3: `ClockAssumption` is met with
  equality in `SeenTtl + 1 + MaxLag < Word`, where one more would be read as no time at all.
- *`Number`* holds two numbers that fit a byte, one that fits a thing only and one too large for either; two names are enough for
  every way in which two rows contradict one another, by name, by number or both.
- *`LongPressTime`* is 3 passes; times are capped just above it. *`Readings`* lie around the places where the
  knob's speed moves by ten, with both ends of its range.

### Fairness

`update()` runs for ever, so `Pump` and `RoutingUpdate` of every device are weakly fair,
and so is `Tick`: time passes. `RD_boot` assumes nothing else, not even that a
single datagram arrives. `EntersNetwork` needs more, and it is assumed of the environment, not of
the code: a device that lost the mesh finds it again (weak fairness of
`TransportUp`), `sendUdp` does not refuse announcements for ever, and the mesh does not
lose every announcement or every ACK of a pending announcement for ever (strong
fairness of `AnnouncementSent`, `AnnouncementArrives`, `AnnouncementAckArrives`).
`KeepsSleeping` assumes the same of the sensor's announcements, of its reports only that `loop()` gets to send one that `sendUdp` accepts, nothing of what becomes of it, and that its timer
wakes it and that an accepted `goDormant` puts it to sleep. Nothing is assumed of application traffic. `Ends` assumes that `loop()` keeps calling
`update()` (weak fairness of `Update`), and nothing of the queue; `Returns` that a call of `play` goes on (weak fairness of
`Walk` and of its two ends).

## What is proved

For every number of devices, addresses and messages, all sizes, and all bounds that satisfy
the named assumptions. An `S => []P` below is proved by an inductive invariant whose parts are named in the
module. Conditions that the code alone does not guarantee stand in the theorem, and are named here.

**Delivery** (`ReliableDelivery_proofs`, over the function-by-function lemmas of `Reliable_proofs`).

- `TypeCorrect` (`TypeOK`). Beyond shapes it says that a retry count never
  passes below zero, that the counter is never zero after `allocSeq`, that the
  duplicate window stays finite with ages within TTL and lag, and that only
  plain packets go without a number.
- `AckIsHonest` (`AckedMeansAccepted`). A success comes out of an ACK, the ACK out of the window or a dispatch, and the
  entry it completes out of a send. `AckChain` says so at each link:
  every entry of a window and every ACK in the mesh is the trace of a dispatch
  under its key at that receiver (`SeenAccepted`, `AcksAccepted`); every reliable copy
  in the mesh and every pending entry is what the log says was sent
  (`CopiesLogged`, `PendingLogged`); and a message is in the log once (`SentOnce`).
  Dispatches are never taken back (`RecordsGrow`), so restarts, evictions, expiry and
  reuse of numbers cannot break the chain, and no timing is needed.
- `DispatchedOnce` (`AtMostOnce`), with no condition but `TtlAssumption`. `DeliveryInv` adds a budget to the chain: for every entry still pending
  and every copy in the mesh, the time until its last copy is gone (retries left times interval and lag, then the delay) is less
  than what is left of its key's life in the window that took it (`KnownFor`, `CopiesFor`, `WindowOutlasts`). Each resend
  spends a retry, each tick an equal part of both sides. Where the window is gone, the receiver restarted or evicted
  the key, which `forgotten` records and the property excuses.
- `NumbersStayFresh` (`FreshSeq`) and `OneVerdictEach` (`OneVerdict`), if fewer messages are sent in one behaviour than there are numbers
  (`Cardinality(Body) < SeqMod`, on the device 65535). Without it both are false: the number of an entry that is
  still pending comes round, and `pending[seq]` is overwritten (`core.cpp:131`). `CounterAhead` measures how far the counter has gone since
  a number was taken, across zero; `VerdictsCounted` and `PendingListed` tie the callbacks to the table.
- `ContractKept` (`ImplementsContract`), under the same condition and without cold boots (`MaxCycles = 0`; sleeps are allowed).
  A cold boot may draw a number that is in use, and then the layer does not keep the contract: `RD_boot` shows the exception
  of `AckedMeansAccepted` happening. Every action maps to a step of the contract or to a stutter (`ContractStep`).

**Routing** (`Routing_proofs`).

- `OnlyOwnersServe` (`ServedByOwner`), for any joiners, shared things and
  faults. `RouteInv` follows a packet back: an entry or a packet for a thing is bound for a host of it
  or for the leader (`EntriesWell`, `PacketsWell`), because the leader's table names hosts only
  (`TableRight`), because announcements hold the things of their origin. It takes no timing and
  no memory of what restarted.
- `ReadyIsRoutable` (`RoutableWhenReady`) if `LeaderStays`: the leader neither flaps nor restarts, and no
  sketch calls `setNetworkReady(true)`. `ReachInv` adds that before the leader is up nothing has
  happened (`LeaderFirst`), and that each joiner is either routable or `Unheard`: not ready, with no entry in the
  leader's window, no ACK of an announcement on its way, and nothing sent but announcements. Readiness
  needs such an ACK, the ACK a window entry or a registration; a registration is never undone,
  it is only taken over by another host.
- `JoinerNeverStuck` (`NeverStuck`) if no sketch calls `setNetworkReady(false)`. With the types, the property is
  inductive: the step that removes the last pending announcement is an ACK, which makes the
  joiner ready, or its failure, which makes it announce (`ReceiveTrying`, `PumpTrying`).
- `FewAnnouncements` (`AnnouncementsBounded`). `AnnouncementsPaid` counts the announcement a joiner owes (`Owed`) with those
  pending: a failure turns one into the other, and only a fault or the first ready transport adds one.
- `ConfirmedOnceServed` (`Spec /\ NoNumberReturns => []ConfirmedMeansServed`). `NumbersCarryOne` says that entries and packets
  that share a number of a sender carry one message to one address, `AcceptedIsServed` that a message is served once its number is in a window or in an
  ACK, or was one for the leader to ignore (`IgnoredIsSent`); both survive restarts and changes of the table. `NoNumberReturns` is a condition on the behaviour: a device takes no number that a packet, an
  ACK or a window still holds for it. The code meets it unless 65535 numbers are taken within the ten seconds of the window, or
  `esp_random()` draws a number of the last ten seconds after a power loss. TLC finds that every behaviour of `R_serve` satisfies it.

**Sensor** (`Routing_proofs` too). Every step of the sketch is a step of `Routing` or, for a report and a sleep, keeps `RouteInv` all the same
(`SensorStepsAreRoutings`, `ReportKeeps`, `FallAsleepKeeps`).

- `SensorTypes` (`SensorTypeOK`).
- `DormantWhenHeard` (`SensorSpec /\ FreshForAcks => []DormantOnFreshWord`). `AcksAreFresh`: an ACK in the mesh that could complete an entry of this wake
  came from a leader that handled the packet in this wake. ACKs of an earlier wake are still about; what disarms them is that the sensor
  takes no number they bear (`FreshForAcks`, as above, with the counter in RTC memory). TLC finds that every behaviour of `S_sleep` satisfies it.

**Controller** (`Controller_proofs`).

- `PressesAnswered` (`OneAnswerPerPress`), for any long-press time: `down`, `held` and the sketch's `sentStop` and press time agree at every
  level of the button and every loss of the network.
- `SpeedFollowsKnob` (`SpeedNearKnob`) for readings up to the end of the knob's range (`Readings \subseteq 0 .. KnobMax`). A larger reading wraps to the other
  direction in the cast (`beeton-joiner-controller.ino:90`), so the condition cannot go.

**Command line** (`UsbLine_proofs`), for texts of any length, cut in any way. Texts are taken apart by recursive functions, so these proofs
are by induction, in a form that the provers take: a set of numbers that holds 0, and with every number the next, holds all (`Counting`, from
the least element that a set of numbers has). `Recursion` draws from it that a function given by its first value and a step exists, and `GoOnAlike` that there is
one only; every fold and recursive function of the module is tied to its definition in that way.

- `LinesAnswered` (`LinesWhole`). `LinesInv` says that the unfinished line is what was heard after the last end of a line. A character that is no end
  leaves the finished lines alone, one that is an end adds the unfinished line to them (`LinesGrow`): cutting a text at one place more, behind all
  others, leaves the earlier pieces (`PiecesGrow`).
- `SendsAsSaid` (`SendsExact`). The heart is `ParseExact`: `parseUnsignedField` accepts a field if and only if it is digits only and says no more than the maximum, and then
  returns what it says, although it computes modulo `Word`. While the number stays within the maximum the test before each digit lets it pass and nothing wraps
  (`AddDigitExact`); once it was refused it stays so (`BadDigitStays`), and digits yet to come cannot make a number smaller. `SplitRest` and `FirstFieldStands` say that taking `SEND,` off a line and splitting
  the rest gives the line's fields without the first, `SendCommandExact` puts the fields together, `AnswerExact` does it for a line of any kind.

**Wire, mapping files and command line, and all together** (`Endpoints_proofs`, all but `TablesAgree` under `EndpointsSpec`).

- `MessagesArrive` (`MessageAsSent`) and `ReadOneWay` (`OneReading`), for every even `Base`, any length of address, and all calls and foreign datagrams. Words are put
  together from their bytes (`JoinedBytes`), signs are kept (`SignKept`), types have distinct codes (`PayloadSurvives`), and fields lie where they are read
  (`PacketSurvives`). `ReadOneWay` is about what is accepted as a message, a table or bytes to print; ACKs and other control packets are
  accepted as none of these, so it holds of them trivially. Its proof takes an accepted datagram apart and builds it again (`ReadRestored`). `OnItsWay` says it of the datagram under way.
- `TablesAgree` of `Mappings`, and `FieldsFit`, `ThingsAgree`, `ActionsAgree`, `NothingDangles`, `HostsEachOnce`, for files with any rows:
  `ThingsTwoWay`, `ActionsTwoWay`, `Grounded` and `HostedOnce` are inductive together with the types. `RowsStay` is the action property `FirstRowWins`.
- `TablesArrive` (`TableAsSent`) and `FilesReachLeader` (`HostedReachesLeader`). `FilesGoOut` says that what is under way while files
  are loaded is the table of these files, `TableUnderWay` that it is read as it was sent: that three bytes per thing are found again at the
  places `Entries` names is `TableIsRead`.
- `TypedLinesAnswered`, `TypedSendsExact`, `TypedArrives` (`LinesWhole`, `SendsExact`, `TypedReachesDevice`). `TypedGoesOut` ties what is under way to the last typed line that asks
  for a message to a known thing: a line that ends either becomes that line and its command goes out (`TypedIsWanted`, `LastWanted`), or leaves both as they were. The call
  that goes out is one whose packet arrives (`TypedIsCall`); that it is not taken for an announcement rests on `DestinationsAssumption`: no
  application hosts the leader's control address. That is a convention (`BeetonConfig.h:11-12`); the code would let a joiner announce that address.

**Player** (`Player_proofs`).

- `NoFrameLost` (`InStep`, `WholeClip`) of `Audio`, for clips, chunks and queues of any
  size. `PlayerInv` adds the types and that nothing is on record as ended while a clip
  plays. A refill is bounded by what is left (`RefillsBounded`); a write from a pass in step, be it the present
  one or a rewound one, keeps it in step or ends the playback (`WriteInStep`); and every way to end
  keeps the invariant (`EndKeepsInv`).
- `ClipFound` (`ClipInside`, `OnGrid`, `WholeFrames`) of `WavHeader`, for files and headers of any size and any width of a word: `HeaderInv` adds how far the
  walk has come (`Walked`) and that it only goes forward (`GoOnForward`).
- `CountsInRange`, `PlayedInStep`, `PlayedWhole`, `PlayedInside`, `WalksOnGrid`: the same of the two composed (`PlayerSpec`), where the clip that is played is the one that
  the headers announced.

**Clock** (`Clock_proofs`). `WrapUnseen` (`Spec => CountsDown`): a refinement, step by step, under `ClockAssumption`. The code's numbers meet
it: 250 and 10000 ms leave a lag of 24 days. `InRange` says that no timer is further from
the clock than half a word, or a word, can tell.

Only model-checked: liveness under fairness (`Resolved`, `EntersNetwork`, `KeepsSleeping`, `Ends`, `Returns`), which is beyond the prover, as ENABLED is, and
the properties that runs show to fail. Every invariant and every other action property that a run checks is proved, some under the conditions named above.

## What is left out

- Roles other than LEADER and JOINER. Packets that are malformed or of another protocol version are in `Wire` only.
- Changes of a device's address between a packet and its resend.
- Calls of `send` and `goDormant` from inside callbacks are modelled as the next
  step after the handler. Entries of a `std::map` stay valid under insertion, so
  the tables are the same afterwards; an entry that a failure callback adds may be visited in the same walk, when it is not due.
- The pump may run with the transport down; its resends then count as lost.
- A joiner attaches only to a mesh whose leader has been through a loop since it
  became ready: the leader forms the network before others can find it, and its `update()` follows
  within one `loop()`.
- `setNetworkReady(false)`: a sketch that calls it leaves the network by its own wish; `AppReadyArgs` can
  hold `FALSE`, but no run does.
- Of the player: samples and volume, which are float arithmetic. Of cards: the text of files, whose rows are abstract
  in `Mappings`, and mounting.
- Text: that of addresses, names, logs and answers. `UsbLine` keeps the kind of an answer, not its
  256-byte output buffer, and takes the serial driver as lossless.
- `defineThings`, which no sketch calls. The sketches that only drive pins on a message, and
  `beeton-joiner-thing-audio`, which uses a player (`maxVoices`, `play` with three arguments) that
  `BeetonAudio` does not have.
- LightThread: its protocol, and what it does between `goDormant` and deep sleep. Knob readings above 206.
- `Routing` and `Endpoints` are not composed: they meet in the packet's fields and in `LocalThings`, and both together are too
  large to check. Nor are `Controller` and `Routing`, as the sketch never looks at what became of a command.

## Plan

Done: delivery with its contract and clock, routing with shared things, the sensor and the controller; the wire, the
command line and the mapping files, each and composed; the player with its header; the theorems above.
What is left, in this order:

1. `ConfirmedMeansServed` and `DormantOnFreshWord` from conditions on constants instead of on behaviours: a bound on the numbers taken while a window remembers
   one, counted as `CounterAhead` counts them in `ReliableDelivery`.
2. `ContractKept` with cold boots whose numbers are not in use.
