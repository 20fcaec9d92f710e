# Formal model of RO-Proxy

TLA+ modules, TLC configurations and TLAPS proofs about RO-Proxy: the link from
the Proxy process to the Analyzer process, the Analyzer's dispatcher and its
per-connection workers, the bytes they exchange and parse, and what the packets'
handlers make of them. Paths below are relative to `src/`.

## 1. The system

Two processes share one Unix-domain socket.

```
 game client <-> [relay c2s | relay s2c] <-> game server        cmd/proxy
                        | Send(frame)
                  ring buffer -> sender goroutine               ipc/client.go
                        | socket
                  acceptLoop -> handleConnection (per socket)   ipc/server.go
                        | frameChan
                  processLoop: map connection -> worker         analyzer/processor.go
                        | chunkChan (per worker)
                  workerLoop -> goroutine per packet            analyzer/worker.go
                        | SendToAPIInternal
                  API queue consumer                            common/api.go
```

The **Proxy** is transparent: iptables sends it the game's TCP connections, two
relay goroutines per connection copy bytes between client and server, and every
piece is also sent as a frame (OPEN, DATA, CLOSE) to the Analyzer. The Analyzer
may be absent or restart; the proxy must go on. The **Analyzer** rebuilds packets
from the chunks of each connection and reports what it finds to an HTTP API.

### Inventory

| Component | State | Operations | Interacts with | Hard part | What makes it correct | Module |
|---|---|---|---|---|---|---|
| IPC client, `ipc/client.go` | ring (`buffer`, `head`, `tail`, `count`), `sendChan`, `closeChan`, `conn` | `Send`, `senderLoop`, `processBuffer`, `popFrame`, `pushFront`, `reconnect`, `Close` | relays call `Send`; writes to the server's socket | relays, sender and Close interleave; failed and cut writes; redial; a full ring | order, no duplicates, the oldest frame is the one lost, no lost wake-up, Close ends | `IPCClient`, `FrameQueue` |
| IPC server, `ipc/server.go` | listener, `closeChan`, `wg`, `frameChan` | `acceptLoop`, `handleConnection`, `Close` | sockets of successive client connections; processor reads `frameChan` | several handlers on one channel; Close against accepts and blocked reads; a full channel | order per socket, a hang-up is told, no send on a closed channel, Close returns | `IPCServer`, `Link` |
| Frame codec, `ipc/frame.go` | none | `Frame.Encode`, `DecodeFrame` | client writes, server reads | length fields and limits | decode inverts encode | `Frame` |
| Processor, `analyzer/processor.go` | `workers`, `connections`, `ctx`, `wg` | `handleConnOpen/Close/Data/IPCDisconnect`, `Stop`, `cleanupAllWorkers` | frames in, chunks to workers; main calls Stop | Stop, cancel and frames overlap; send outside the mutex; waiting under the mutex | map and dashboard agree, no orphaned worker, chunk order, no panic, Stop returns | `Processor`, `Link` |
| Worker, `analyzer/worker.go` | `chunkChan`, two buffers, semaphore, `wg` | `workerLoop`, `drainRemainingPackets`, `waitForDeserializers`, restart | chunks in, deserializers out | panic and restart, two timeouts, hanging deserializers | streams reassembled in order, Wait means the loop ended, every chunk taken, the loop ends | `Worker` |
| Packet parser, `analyzer/worker.go` | none | `tryParsePackets`, `parseHTTPPacket` | packet tables | size rules, checksum byte at a chunk boundary | no byte lost or used twice, the packets sent whatever the chunking | `Wire` |
| Map tracking, `packets/context.go` | list of pending map changes | `SetPendingMapChange`, `SetPendingMapByCharId`, `ClearConnectionMap`, lookups | concurrent deserializers | entries without connection, first match, stale entries | a connection's map is where its player is, and goes with the connection | `MapTable`, `Reports` |
| Receive/send handlers, `packets/receive`, `packets/send` | none | one function per packet | map table, API queue | run concurrently, several calls each | report with the right map | `Reports`, without the fields they read |
| Packet tables | static | - | parser | one bad size | - | constants of `Wire`: one entry of each kind |
| Proxy connections, `proxy/proxy.go`, `connection.go` | context, two sockets | accept, two relays, OPEN/CLOSE | IPC client's `Send` | either side closes first; a write with no deadline | OPEN first, CLOSE last, the copy is the forwarded stream, both relays end | `Connection` |
| Recording, `proxy/recording.go`, `globals.go` | file, flag | start, stop, write | relays | the object is replaced while it is used | a file only while recording is on, lines in order | `Connection` |
| IPTables, `proxy/iptables.go` | kernel rules | set up, clean up | external commands | partial failure | clean-up undoes set-up | not modelled |
| Mains, `cmd/*/main.go` | signal handlers, defers | start, cancel, Stop, Close | everything | order of deferred calls | - | steps of `Processor`, `IPCServer`, `IPCClient` and `Connection` |
| API consumer, `common/api.go` | unbounded queue | `SendToAPIInternal`, `consumeLoop`, `sendRequest` (retry, requeue) | handlers, HTTP | overtaking, duplicates, endless retry | every report in one place until delivered or given up | `APIConsumer` |
| Discord/monitoring, `common/monitoring.go` | counters | count, retry loop | HTTP | - | - | not modelled |
| Log queue, TUI, configuration | channel, layout, constants | - | - | presentation and I/O | - | not modelled |

`PROJECT.json` repeats the list with a note for each part, and lists the hazards
at their lines with the properties that watch them.

## 2. Modules and their correspondence to the code

Every specification keeps the code's goroutines apart: each has a program
counter whose values are the points at which another goroutine can get in
between (a lock released, a channel operation, a blocking call). What runs under
one mutex is one action. Below the actions that model the code, each module
carries a few *slips*: varied forms of a step (a dropped guard, a missing reset)
used by no specification. They stand in for plausible bugs, and each
property is known to fail when its slip replaces the step.

### IPCClient and FrameQueue

Relays `Enqueue` (all of `Send` under `bufMutex`) and `Signal` (the non-blocking
send on `sendChan`). The sender is `pc`: `select`, `pop`, `write`, `pushFront`,
`reconnect`, `check`, `dial`. `Close` is `CloseStart` (closes `closeChan`),
`CloseConn` (waits for `connMutex`), `CloseReturn` (`wg.Wait`). The Analyzer
comes and goes (`AnalyzerStops`, `AnalyzerStarts`). A frame is the serial number of its
`Send`, so "older" is `<`. `overfull` records that `pushFront` put a
frame into a full ring: the code does not check `count` there.

`FrameQueue` is the promise to the relays: a bounded queue that drops its oldest
entry, hands out one frame at a time, and takes an undelivered one back in
front. `KeepsPromise` is the refinement, with the ring from head to tail as
the queue. Taking a frame back into a full queue voids the promise; that is exactly
`overfull`.

### IPCServer

`acceptor` and `handler[s]` are the two loops; `Put` is the non-blocking
send with its `default`. The proxy is modelled as `IPCClient` uses the socket:
one socket after another, `Write`, `Hangup`. A frame that was cut short is a
hang-up: by `NothingAfterTorn` nothing follows it on its socket. `wg` is the
server's WaitGroup. `Receive` is `processLoop`; it stops before `CloseStart`
because main's deferred calls run `dashboard.Stop`, `processor.Stop` and
`ipcServer.Close`, in that order.

### Processor

One action per frame handler, plus `SendChunk`, because `handleData` sends after
unlocking `workersMu`. `cleanupAllWorkers` is `CleanupStart`, `CleanupClose`,
`CleanupWait` and `CleanupEnd` and holds the mutex throughout (`MutexHeld`);
`Stop` is `StopStart`, `StopClose`, `StopReturn`. `SignalCancel` is the signal
handler. A worker is named by the serial of the frame that created it and a
chunk by its Data frame's. Workers are seen from outside: run, drain, exited.
The frame channel stays open here, since `Close` runs only after `Stop`.

### Worker

One worker from inside. A chunk is a direction and a kind: part of a packet, the end of one,
or bad (opcode 0x0177 is listed as FIXED with size -1 in
`receive_packets.go`, so `make([]byte, size)` panics). A chunk that completes
several packets is abstracted to one that completes one; a packet is the
sequence of its chunks. The deferred calls of `workerLoop` matter: the recover
(run first) starts a new loop, then `wg.Done` runs (`Restart`, `FinishPanic`), and no
`wg.Add` matches the new loop's own `Done`. A timeout may fire at any moment of
its wait.

### Connection

One game connection in the Proxy. `handler` is `handleConnection` (dial, `Start`,
`Wait`, `Close`); `relay[d]` is one of the two relay goroutines, whose loop is
`Check`, `Read` (or its timeout or error), `WriteOk`, `Decide`, `Fetch`, `Record`, `Send`.
`Leave` is a relay's return with its deferred cancel. The Recording is part of the module
because the relay reads the global pointer twice, `Decide` and `Fetch`, and
`SetRecording` replaces the object in between; objects are numbered and alternate
off and on. Connections share only that pointer and the IPC client, so one is
enough. `main` returns on a signal without waiting for connections (`Exit`). The
accept loop, the map of connections (nothing reads it) and the buffer of the
recording's writer are left out. `Bracketed` is what the `Processor` model does
*not* assume: it takes any order of frames.

### Link

`IPCServer` and `Processor` as instances, joined at the channel: `Take` is
`processLoop`'s receive together with the handler it calls. The proxy's side is what
the client and `Connection` promise: events of game connections, OPEN first and CLOSE
last (`Allowed`), written on one socket after another, some dropped. `acceptLoop` is whole,
an `Accept` that fails and is retried included. Shutdown is left
to the component models. `got` and `overlapped` are history variables; `overlapped`
says that a handler was started while another was at work, which is the one way
frames of a connection change places.

### Frame and Wire

`Frame` is the codec as operators on sequences of bytes, each field at its width and
every number truncated to it: `PutUint16` and `Uint16` are bytes, the wider ones two halves. `Wire` sends the two streams of one connection through
relay, codec, buffers and `tryParsePackets`; one iteration of its loop is one action.
What an iteration takes out of a buffer is kept as a *piece* (packet, checksum, skipped
byte, or lost in a panic), so that "nothing is lost or used twice" can be
said of the whole stream. The base of a byte is the constant `Radix` (4 in the run, 256 in
the code): a small base makes carries and lying size fields reachable.
The magic number, the opcodes and the tables are chosen to fit the base. The recorder, the
ring and the workers' channels are not repeated here.

A stream is made of segments: packets of the game (`real`), or junk. `Genuine` says what a packet
is, and `GameAssumption` that the real segments are: its opcode is in the table of its direction, its
length is what the entry says (the fixed size, its own size field, the end of its header), and
only the client adds a checksum byte. A packet longer than its FIXED_MIN entry is not one:
`worker.go:231` takes the minimum for the size. Nor is one of an entry FIXED with size -1, of
which the client's table has none (the other half of the assumption).

### MapTable, Reports and APIConsumer

`MapTable` has one operator per function of `packets/context.go`: each runs under one
mutex. `Reports` runs the handlers on it: one goroutine per packet, its calls to the
table steps of their own, so that handlers interleave with each other and with the
processor's clearing of an entry (`ConnClosed`, `LinkLost`). A packet is what it
says: kind, connection, character, map, coordinates, server. The game is the environment
and knows the truth (`here`); the Analyzer may come in at any point of it. `serial`,
`fresh` and `shared` are history variables: what the properties take as their conditions
(section 3). The handlers
that only report differ in whether they need a map, and are one action each.
`APIConsumer` is the queue and its consumer, included in `Reports` so that the reports
that enter it are those a handler makes; the history variable `pushed` has them all, settled
or not, so that a report dropped before its first answer is noticed. A posted request without an
answer may have been taken by the API or not. Left out: that marshalling a payload
may fail (the payloads are maps of strings and numbers), and that nothing is queued before
`InitAPIConsumer` ran. A handler that looks the map up and then pushes does so in one
step: nothing between the two reads shared state.

## 3. Runs

| Run | Instance | What it shows |
|---|---|---|
| `client` | ring of 3, 5 frames, 2 relays | order and loss of frames, wake-ups, torn frames and sockets, the refinement of `FrameQueue`, and liveness: `Close` returns whatever the Analyzer does; if an Analyzer stays, every frame is written or dropped |
| `client_drops_oldest` (violation) | ring of 2, 4 frames | `client.go:53` says a full buffer drops the oldest frame. When a write fails while relays refill the ring, `pushFront` overwrites the newest |
| `server` | 2 sockets x 2 frames, channel of 2 | frames are passed on in order and lost only to a full channel, no send after close, `Close` returns unless a connected proxy is idle |
| `processor` | 2 connections, 3 frames, channel of 1 | map and dashboard agree, chunk order, no orphan without a second OPEN, panics only inside Stop, Stop ends |
| `processor_stop` (violation) | 1 connection, 2 frames | `Stop` closes channels and leaves the workers in the map; cleanup closes them again and the process panics |
| `worker` | 3 chunks, 1 permit | reassembly, an orderly end, the loop ends, every chunk taken |
| `worker_restart` (violation) | 1 chunk, 1 permit | a recovered panic makes a later `wg.Done` panic, unrecovered |
| `connection` | 3 pieces, 3 Recordings | OPEN and CLOSE bracket the data, copy and recording are the forwarded stream in order, the connection ends as a whole unless a write is stuck |
| `link` | 2 connections, 2 sockets x 2 frames, 3 events, channel of 2, any failures of `Accept` | across a redial: order of a connection's frames, no worker after CLOSE, nothing left when the proxy is gone, unless its marker was lost |
| `wire` | 2 segments of every kind, every cut, bytes of base 4 | frames decode as encoded, every byte is accounted for, the packets found are the packets sent |
| `reports` | 1 character, 4 connections, 3 packets (2 once handlers overlapped), 1 close, 1 refusal | what can make a map wrong or let an entry outlive its connection; a report pushed is in one place until it is settled; every report is settled |
| `reports_left_behind` (violation) | 2 characters, 3 connections, 5 packets one after another, 1 close | an entry that stays behind answers for the next player on its connection id, though no handlers overlap and no old announcement is met |

The four violations are statements of the code's own comments, and of the developers' notes,
that the code does not keep; `PROJECT.json` quotes them under `findings`.

### What the conditions of properties say

Some properties hold under a condition, and the condition is part of what was
found out.

* `CloseReturnsOrIdle` says of the server's `Close` that it returns unless a proxy is
  connected and idle. Then it does not, although `server.go:116` says that it "shuts down the
  server": `wg.Wait` (line 121) waits for a handler in `DecodeFrame`, which neither the context nor
  `closeChan` wakes, and nothing closes its socket. This needs main to reach its
  deferred calls while the proxy stays connected. The dashboard's quit keys call `os.Exit`
  100 ms later and so cut the wait short; a dashboard that fails to start (no terminal) does not.
* `RightMap` and `ForgottenOnClose` have three conditions; each stands for a way in which the code
  gets a map wrong, and the properties show that there is no other. `serial`: no two handlers
  overlap, and none overlaps the close of its connection (both properties). `fresh`: no lookup
  meets an announcement of another map (`RightMap` only). `shared`: a connection whose login found
  several entries of its character is excepted (both). Without the first, two map changes of a
  connection may be stored in the wrong order (`worker.go:95` starts a
  goroutine per packet), and a handler that outlives its connection writes the entry that
  `processor.go:162` has just cleared; the next connection with that id, in the
  next proxy process, inherits the map. Without the second, an announcement
  of an earlier visit answers: announcements are never removed and the first
  match wins (`context.go:94`), so two visits to the same coordinates, or
  to the same map server for two maps, get the older map. Without the third, the entries that two
  character servers left of one character all go to the connection it logs in on
  (`context.go:144`) and only one of them goes with it (`context.go:155`), even if they name the
  same map; the rest answers for the next player on that id. The developers' notes
  (`.github/copilot-instructions.md:149`) call it the current map: `CurrentMap` is `RightMap`
  without this exception, and `reports_left_behind` finds it violated.
* `ClientPackets` excludes two cuts of the stream. `worker.go:263` takes a lone byte after
  a packet for its checksum: if a chunk of the client's stream ends one byte after a packet that
  has none and that it completes, the byte is the beginning of the next packet (`torn`, set
  when the worker gets such a chunk). And a checksum that together with the next
  byte reads as an opcode is taken for the next packet (`Ambiguous`).
* `GoneIsEmpty`, `GoneIsForgotten` exclude a marker lost to a full channel
  (`server.go:102`). `OrderAcrossRedial` and `NoWorkerAfterClose` exclude two handlers at
  work at once.
* `KeptUntilSettled` lets a request be taken twice when an answer was lost, and given up
  after 100 refusals: `api.go:22` says requests are never lost "even during API
  downtime", which is true of transport errors and not of an API that answers
  with errors (`api.go:147`).
* `NoOrphan` excludes an OPEN that finds a worker for its connection (`processor.go:134`), of an
  earlier OPEN or made by DATA. A proxy gives the client one OPEN per connection, before any
  data (`Bracketed`); but ids start from 1 again with the next proxy process, and if the marker of
  the one before was lost, its workers are still in the map.
* `QueueOrder`, `KeepsPromise` and `EventuallyWritten` speak of rings that were never overfilled
  (`overfull`); what overfilling does is `client_drops_oldest`. `EndsOrderly` speaks of
  a worker that did not panic and whose drain did not time out.
* `CopyIsStream` says nothing of whether a file should exist: a relay that saw recording on
  and records after it was switched off creates a file for a Recording that is off, against
  `recording.go:19`. Its lines are still forwarded pieces.

**Bounds.** `BufferSize` 3 with 5 frames lets the ring wrap, fill, drop its oldest frame
and overfill, with a frame in the sender's hand meanwhile. Two relays are
the fewest with two pending signals. Two sockets are the fewest with two handlers at work
at once; two frames each and a channel of two reach a full channel on both the frame
and the marker path. Two connections and three frames reach a reopened
connection, a worker created by DATA, a disconnect with two live workers, and a full
channel of 1. Three chunks reach packets of two chunks interleaved
with the other direction and up to three panics; one permit makes
deserializers queue. Three pieces put two in one direction and one
in the other, or three in one; three Recordings are off, on and off again. In `link`,
three events are an OPEN, a DATA and a CLOSE with a redial anywhere between them, or two
connections of which one outlives the socket; the two connections differ only in name, so
`MCLink` gives the first event to `c1`. In `wire`, two segments are the fewest that
have a boundary; every boundary is cut at every byte, and `MaxInFlight` 2 puts a second
frame behind the one decoded. In `reports`, three packets are a map told, told again and
looked up, or told by two character servers and taken up by a login; a close
may come between any two of them and the id be opened again; two packets suffice for
handlers that overlap; one
refusal is the limit (100 in the code), so requests that are given up and
requests that overtake them exist together. `reports_left_behind` needs five packets: one character
told twice and logged in, another told and logged in on the same id. `MaxPieces`,
`MaxRecordings`, `MaxFrames`, `MaxSockets`, `MaxChunks`, `MaxEvents`, `MaxWrites`,
`MaxOverlap`, `MaxCloses`, `MaxSegments` and `MaxReports` only bound
counters the code leaves unbounded; the proofs hold for every value.

**Fairness.** Goroutines that can run do run (weak fairness of their
steps). Strong fairness stands where Go's `select` chooses at random among ready
cases (`SelectClose`, `CleanupStart`), where a mutex does not starve a waiting
writer (`CloseConn`), and where a step of the environment is retried and does not fail for
ever: a dial and a write to an Analyzer that keeps listening (its reader never
blocks on a full channel), an `Accept` with a waiting socket. Nothing is assumed of relays, of the game,
of when an Analyzer or a proxy comes or goes, of signals, or of a deserializer's handler
returning. The worker's timers fire. In `Connection` a read from a peer that has gone fails in
the end although read timeouts come first (strong), a write to it fails too (weak), and nothing is
assumed of a write to a peer that is there: `EndsTogether` says so. In `Link` the Analyzer's
goroutines run. In `Reports` the consumer runs, and a request that is posted again and again
is answered some day (strong fairness of the answers): an assumption about the API, without
which `sendRequest` posts the same request for ever and `EventuallySettled` fails.
`Wire` states no liveness.

**Deadlock.** TLC checks it in the client runs. In the others the process is meant to
end (or has crashed), so the final state has no successor.

## 4. Proofs

All for every value of the constants, under the `ASSUME`d positivity of
capacities and bounds stated in each module.

* `IPCClientProofs`. *Geometry*: `TypeOK /\ RingGeometry` is inductive; the
  conjunct that `count <= BufferSize` while the sender holds a frame is what
  bounds `pushFront`. *Identity*: `AtMostOnce` needs `AllSent` (whatever is
  anywhere was sent). *Order*: `InOrder` and `DropsOldest` follow from `Order`,
  which says that the ring and the frame in hand are a *contiguous run* of serial
  numbers ending at the newest, and everything written is older; contiguity is
  what makes "the lost one is older" inductive. *Wake-ups* are proved from the
  geometry, *torn frames* and *Close* from small invariants of their own
  (`TornLast`, `CloseSeen`). `ClientKeepsPromise` maps each step to a step or
  stutter of `FrameQueue`, through the run of serial numbers.
* `IPCServerProofs`. `Counted`: `wg` is the number of live goroutines. It makes
  `wg.Wait` mean that all have ended, from which `Shut` and `NoSendAfterClose`
  follow. `InOrder` strengthens `PassedOnInOrder` with `Below`: each socket's messages so
  far are below what its handler may send next (`passed`), which is why appending keeps
  the order whatever the other handlers do.
* `ProcessorProofs`. `MapInv` is `Fresh` (unused workers are untouched), `Sound`
  (each entry is its connection's own worker), `Aim` (the worker a chunk is about
  to be sent to is still in the map) and `Ends`. `Aim` is why the send
  outside the mutex is safe from every handler of frames, and why only Stop can make it panic.
  `Kept` gives `NoOrphan`: it needs that cleanup has closed the worker whose entry it
  deletes. `Streams` gives `ChunksInOrder`: the chunks of a worker, processed
  and waiting, rise and are older than the one in hand.
* `ReportsProofs`. `IInv`: the ids in the queue, the consumer's hand and the settled ones are
  disjoint, each once (`OnePlace`); the retries a request carries are its refusals;
  whatever is known of a request says it is in one of these places (`Traced`); no request is
  in one before its handler pushed it (`Unmet`); and those in one are all that were pushed
  (`Lossless`). It holds whatever is in the table of maps.
  For the table, `Typed` gives `TypeOK`. `Tidy` gives `ForgottenOnClose`: while nothing overlaps
  there is one handler at a time, one entry per connection that is not shared (`ClearConnectionMap`
  removes only one), and none for a closed one, because a login finds its connection without an
  entry (`CleanLogin`) and makes it shared when it finds several entries of the character.
  `Sound` gives `RightMap`: what a handler will find is the map its player is on (`RightLookup`), and
  between handlers so is what the table says of the connection (`KnownUnlessMoving`).
  TLC checked the three on the run's instance before they were proved.
* `LinkProofs`. Each step of `Link` is a step or a stutter of `IPCServer` and of
  `Processor`, so what is proved of them holds of the composition; `Components` are the four
  invariants taken over. On top of them, `Gone` proves `GoneIsEmpty`: an ended handler's
  marker is among the messages or lost (`Told`), every message is from a started handler
  (`Started`), and after a marker both tables are empty (`Cleared`); since a marker is the last
  message of its socket, the last message of all is one. `Handled` proves `OrderAcrossRedial`: what
  the proxy wrote rises from place to place and from socket to socket (`Proxied`),
  handlers that do not overlap put messages by socket (`InTurn`, `SocketsInTurn`), and the server's
  proved order does the rest within one. `NoWorkerAfterClose` follows from it and from
  `CloseIsLast`, the proxy's promise that nothing happens on a connection after its CLOSE.
* `ConnectionProofs`. `Stage` ties what was sent to the handler's progress and to the
  relays that may still run, from which `Bracketed` follows. `Stream` is
  `CopyIsStream` in named parts, per direction, with `Files` (no relay goes back to an older
  file); a lemma each for a relay that moves, sends, fetches or records, and
  one for the relay that is left alone.
* `WorkerProofs`. `Counted` ties `wg` to the loops alive when none has panicked; it
  gives `WaitMeansEnded`. `DrainTakesAll` is inductive with `TypeOK`. Together they are `EndsOrderly`.
  `Reassembly` is inductive with `TypeOK`: the number of the chunk taken is above all those in
  the packets and the buffer, so it may be appended to either.
* `WireProofs`, for every base of the bytes above 3, every pair of tables and whatever the game sends.
  `FrameRoundTrip` is about the codec alone: a frame whose fields fit their widths is decoded
  as it was encoded, whatever bytes follow it, and those are what is left. `IInv` is `Typed`
  with `InStep` (the socket is the encodings of the frames in flight, one after the other),
  `Accounted` (what the relay read of a direction is what the pieces of earlier calls took out, then
  those of the running call, then the buffer, then the data of the frames in flight) and
  `Calling` (no piece in hand outside a call, no packet empty). With the round trip `InStep` gives
  `FramesIntact`; `Accounted` gives `BytesAccounted`. TLC checked `IInv` on the run's instance. A step
  moves bytes from one place to the next (`MoveIn`, `MoveOn`, `MoveOut`, ...); that
  `TakePacket` cuts its buffer without a gap rests on `Measured`, that a size
  called valid lies within the buffer. What `FlattenSeq` computes is proved by induction on
  lengths, as a least counterexample (`Induct`).

  That the packets are cut where the game meant them to be is `ParseInv`, about the bytes
  the parser has behind it: they are the first k segments of the stream, or those without the
  checksum of the last; every packet found is one of the k, and each of them was found; between
  two calls, the next one is not complete. Two facts carry it. `Recognised`: at the first byte
  of a packet, the parser reads its opcode and calls its size valid exactly when all of it is
  there, whatever comes after; so it waits, or takes the packet whole, and cannot panic. `Taken`:
  what it then takes for a checksum is one, unless the call began with a torn chunk (`Whole`:
  no later packet of the client ends one byte before the end of what was delivered). `ParseInv`
  gives `ServerPackets` and `ClientPackets`, and needs `IInv` for the bytes the buffer holds.

Every safety invariant that a passing run checks is proved. Only model-checked are the
liveness properties, out of reach of the prover as are statements about fairness and ENABLED,
and the four disagreements with comments, which are counterexamples.

## 5. Not modelled

* The fields a handler reads at fixed offsets. `Reports` knows what a packet says, `Wire` where
  it begins and ends. A packet whose size field is right but shorter than its handler's
  fields is an index out of range in a goroutine that recovers nothing (`worker.go:153`).
* The entries of the packet tables: data. `Wire` has one of each kind, and an assumption
  says what the tables keep to.
* `proxy/iptables.go`: a sequence of external commands at start and end whose state is the
  kernel's. When the rule cannot be added, `os.Exit` skips the clean-up (`iptables.go:35`).
* `common/monitoring.go`: counters with one reader, and a retry loop for each Discord message
  whose result nothing uses. (Its comment at line 149 says "until successful"; it gives up on
  an answer in 4xx.)
* `common/logging.go` and `tui`: a channel whose losses nothing notices, and presentation.
  The quit keys' `os.Exit` only cuts behaviours short.
* `config/config.go`: one read at start.
* The flush of the recording's writer by `SetRecording`, without the mutex the relay holds
  (`globals.go:62`): a data race inside the writer, whose outcomes no property here
  tells apart.
* The kernel, the HTTP API and Discord are outside.

## 6. How the project grew

The components of the pipeline first, one by one, most concurrent first; then their
composition (`Link`), the bytes they carry (`Frame`, `Wire`) and what the packets are used for
(`MapTable`, `Reports`, `APIConsumer`). The theorems followed
the modules in the same order.
