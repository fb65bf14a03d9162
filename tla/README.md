# TLA+ models of njs-modbus

This directory holds TLA+ models of the njs-modbus MODBUS stack (sources under
`src/`; several files carry more than one version of a module, and the models
follow the current one, the one with response-wait mode). Each module is
checked with TLC through an `MC_*` module and `.cfg` files. `PROJECT.json`
lists every component, run, mutant, finding and hazard, and maps every
definition to the source lines it translates.

## The system

The stack has three layers, and two roles sit on top of them.

| Part | Source | State | Operations |
|---|---|---|---|
| ModbusMaster (client) | `unnamed/part_001` 1195-1814 | none of its own besides the per-call timeout `tid` | one method per function code; each encodes a request and calls `waitResponse` |
| ModbusSlave (server) | `unnamed/part_000` | `models` (unit to model map) | the `framing` listener: unit filter, broadcast suppression, interceptor, `handleFC*`, `responseError` |
| RtuApplicationLayer | `rtu-application-layer.ts` 1-159 | `_bufferRx`, `_timerThreePointFive`, `_waitingResponse` | `handleData`, the 3.5T timer, `handleClose`, `framing` (pre-checks and CRC), `start/stopWaitingResponse`, `encode` |
| AsciiApplicationLayer | `unnamed/part_004` | `_status` (idle / reception / waiting end), `_frame`, `_waitingResponse` | byte scanner, `framing` (pre-checks and LRC), `start/stopWaitingResponse` |
| TcpApplicationLayer | `tcp-application-layer.ts` | `_transactionId`, `_waitingResponse` | `handleData` (one MBAP frame per data event), `encode` (transaction counter) |
| Physical layers | `unnamed/part_002`, `unnamed/part_003`, `tcp-server-physical-layer.ts` | the port or socket(s) and whether they are open | `open`, `write`, `close`, `destroy`; `data` and `close` events |
| Utilities | `src/utils`, `unnamed/part_007..009` | none | `checkRange`, `crc`, `lrc`, `getThreePointFiveT`, error codes |

**How the parts interact.** On the client, `waitResponse` writes the encoded
request. In the write callback it resolves a broadcast at once. For any other
request it arms a timeout and calls `startWaitingResponse(preCheck, callback)`.
Every `data` event of the physical layer goes to the application layer. In
response-wait mode the layer frames the accumulated buffer and runs the
request's pre-checks. A pre-check returns a boolean, a number or undefined:

- a number is the data length the request expects;
- undefined means "not yet decidable".

"Insufficient data length" keeps the buffer. Any other outcome goes to the
callback, which clears the timeout, stops the wait and settles the promise.

On the server, the application layer frames in idle mode. On a serial line
this happens when 3.5T has passed with no new bytes; otherwise it happens at
once. The layer then emits `framing`, and the slave dispatches the frame to
its model.

Everything runs on Node's single event loop. The suspension points are:

- write callbacks;
- timers;
- promises returned by the model callbacks.

Between these points, handlers run atomically.

**What is hard.**

- The client's wait starts only after the write callback, so an answer can
  arrive before the wait exists.
- The timeout races with the response callback.
- Bursts split and join answers, and the buffer persists across bursts.
- A late answer can meet the next request's wait, because the pre-checks do
  not identify the request.
- A close while waiting.
- The 3.5T timer on the server.
- Awaits in the server's handlers between a read and a write (FC22) and
  between several writes (FC15/16/23).
- `checkRange` and the slave's bounds at the edges.
- The TCP server layer's `close()` removes every listener of the server,
  node's own `'connection'` listener and the callbacks of calls still
  pending among them, and node emits `'listening'`, `'error'` and `'close'`
  on later ticks.

**What makes each part correct.**

- *Client*:
  - the framer waits exactly while a request is waiting;
  - every request settles;
  - a resolved request carries a whole normal answer to an equivalent request;
  - an answer that arrived in time is not lost.
- *RTU and ASCII framers*:
  - a prefix of the right answer is "insufficient", never "invalid";
  - the 3.5T timer never runs during a wait.
- *TCP*: an answer is matched to its transaction.
- *Server*:
  - a broadcast gets no response;
  - a refused request gets the exception code the specification names;
  - a multi-write either writes all items or answers an exception;
  - FC22 leaves `(v & and) | (or & ~and)`.
- *checkRange*: it accepts exactly the requests whose addresses lie in a
  configured range.

## Modules

### MasterRtu (`MasterRtu.tla`, `MC_MasterRtu.tla`)

This module is the client (`waitResponse`, `readHoldingRegisters`,
`writeSingleRegister`) over the RTU application layer, a serial line and one
device (the slave's FC3/FC6 answers).

**State.**

| Variable | Code |
|---|---|
| `bufferRx` | `_bufferRx` |
| `waiting` | `_waitingResponse` is set |
| `t35` | the 3.5T timer is armed |
| `timer` | the timeout `tid` |
| `serial` | `threePointFiveT` is not 0 |
| `open` | the port is open |
| `destroyed` | `destroy()` has been called (the port's `_destroyed`) |
| `cstate` | the caller's current call: idle, writing or waiting |
| `reqs`, `result` | the requests issued and how each settled |
| `toDevice`, `wire` | the line in each direction, as a sequence of requests and a sequence of bursts |
| `sent` | the device's history of frames |

**Actions.**

| Action | Code |
|---|---|
| `Request`, `RequestClosed` | the call and `physicalLayer.write` |
| `WriteDoneBroadcast`, `WriteDoneUnicast`, `WriteFail` | the write callback and `.catch` |
| `Timeout` | the `setTimeout` body |
| `Receive` | `handleData` as `ReceiveWaiting` / `ReceiveIdleSerial` / `ReceiveIdleNet` |
| `ThreePointFiveT` | the timer's framing |
| `Close` | the caller's `close()` (`SerialPhysicalLayer.close`, `part_002:186-193`): it removes the port's listeners first, so `handleClose` never runs and the buffer and the 3.5T timer survive |
| `PortClosed` | the port closing by itself: its `'close'` reaches `handleClose`, which clears the buffer and the timer |
| `Open` | `open()`, refused once destroyed |
| `Destroy` | `ModbusMaster.destroy()`: the application layer's `destroy` clears the 3.5T timer, the port closes for good; the request's timeout `tid` is left running |
| `DeviceAnswer`, `DeviceDrop` | the server |

**Data abstraction.** A byte is `<<frame, offset>>`. Its value (`ByteVal`)
is one of:

- the unit;
- the function code;
- the byte count;
- an echoed request byte;
- a register byte;
- a CRC byte.

The CRC passes exactly when the buffer is one whole frame. The pre-checks
(`PreChecks`) are the closures of `writeFC3Or4` and `writeSingleRegister`,
evaluated on these values. `CheckVerdict` is the loop at
`rtu-application-layer.ts:95-115`, with its comparison as written.
`StartWaitingResponse` and `StopWaitingResponse` are the layer's two methods
(clear the buffer and the timer, set or clear the callback), used by every
action that calls them.

**Runs** (all use `MC_MasterRtu`).

The requests are `Kinds = {FC3 unit 1 qty 1, FC6 unit 1 value 10, FC6 unit 1
value 11, FC6 broadcast value 10}`. Two FC6 kinds differ only in value, so an
echo check matters. A broadcast exercises the no-wait path. Answers may be
split at byte 3 or 5 (`Cuts`).

| Run | cfg | Bounds | Expect | Checks | Shows |
|---|---|---|---|---|---|
| `rtu_client` | `MasterRtu.cfg` | MaxReq 2, Cuts {3,5}, 4 kinds | pass (111,826 states) | `TypeOK`, `WaitMatchesClient`, `ResolvedWithEquivalentAnswer`, `WholeAnswerAccepted`, `EverySettles`, `ImplementsModbusCall` | The wait state follows the client; a resolved request always carries an answer to an equivalent request; no request fails (by timeout or a pre-check) on a buffer that is exactly the whole answer to it; every request settles, over serial and network lines, with drops, splits, closes and late answers; the client implements `ModbusCall` |
| `rtu_partial_burst` | `MasterRtuPartial.cfg` | MaxReq 1, Cuts {5}, the FC3 kind alone | violation | `PartialAnswerNotRejected` | The inverted comparison at `rtu-application-layer.ts:102` fails a request whose FC3 answer arrives as 5 + 2 bytes |

Two requests are enough for a late answer to the first to meet the second's
wait. That is the stale-answer case that `ResolvedWithEquivalentAnswer` is
about: the answer to "write 10" can never resolve "write 11", but it can
resolve a second "write 10". Two cut points give both outcomes of a split:

- after the header (the buffer is under 4 bytes);
- inside the data (the buffer is 4 bytes or more).

**Fairness.** Weak fairness is assumed only for what the event loop
guarantees:

- the write callback (success or error);
- the timeout;
- the 3.5T timer.

The caller, the device and the line get no fairness, so `EverySettles` holds
even when the device never answers.

Deadlock is not checked (`CHECK_DEADLOCK FALSE`): after `destroy()` and the
last request's settlement the client has nothing left to do, which is the
intended end of its life. `EverySettles` is what says nothing gets stuck.

### Slave (`Slave.tla`, `MC_Slave.tla`)

This module is the server's `framing` listener and its handlers FC1-6, 15, 16,
17, 22 and 23 (`unnamed/part_000`).

**Tasks.** A *task* `<<f, u>>` is the dispatch of frame `f` to model `u`:

- a broadcast creates one task per registered model;
- a frame for a registered unit creates one task;
- any other frame creates none.

**State.**

| Variable | Code |
|---|---|
| `reg` | the keys of `models` |
| `frames` | what the transport delivered |
| `hr` | the models' holding registers (the effect of their callbacks) |
| `out` | the responses written; `response()` is a no-op for unit 0 |

A task's record holds:

- `pc`: intercept → handle → calls → done, or dead when an exception escaped;
- the callbacks not yet settled (`pend`), each with the outcome it will have;
- whether the chain has already rejected (`failed`);
- the FC22 fallback's read value (`rv`) and written value (`wv`).

**Actions.**

| Action | Code |
|---|---|
| `Deliver` | the listener: unit filter, loop over models, start of `intercept` |
| `Intercept` | the awaited interceptor: payload, undefined or error |
| `HandleFC` | the switch and the handler up to its first callback calls, with its checks in the code's order: grammar (silent drop), callback present (ILLEGAL_FUNCTION), bounds (ILLEGAL_DATA_VALUE), `checkRange` (ILLEGAL_DATA_ADDRESS) |
| `Settle` | one callback's promise settles, under `Promise.all` for the fallbacks |
| `Continue` | the `.then` steps of FC22's fallback (write after read) and FC23 (read after write), and the normal response |
| `AddModel`, `RemoveModel` | `add`, `remove` |

`Issue` calls a list of callbacks in order. When a callback throws
synchronously:

- inside the handler, the exception escapes and there is no response;
- inside a `.then`, the `.catch` answers with an exception.

A callback's outcome is one of:

- it succeeds;
- it rejects with a coded error (answered with that code);
- it rejects with a plain Error (SERVER_DEVICE_FAILURE, via `getCodeByError`);
- it throws synchronously;
- it rejects with a value that is not an Error.

**Configuration (`MC_Slave`).**

- Unit 1 has every callback, an interceptor, and the holding-register range
  [0, 9].
- Unit 2 has only `readCoils`, `readHoldingRegisters`, `writeSingleCoil` and
  `writeSingleRegister`, so FC16 and FC22 take their fallbacks.
- Unit 3 is never registered.

The main request set covers every branch of `HandleFC`:

- a two-register FC16 to unit 2, and the same as a broadcast;
- FC22 to both units;
- FC23;
- an FC3 at the end of the range;
- an FC5 with an illegal value;
- a malformed FC6;
- unknown FC 7;
- FC17 without `reportServerId`;
- a frame for unit 3.

**Runs.**

| Run | cfg | Bounds | Expect | Checks | Shows |
|---|---|---|---|---|---|
| `slave_dispatch` | `Slave.cfg` | 1 frame, two models, outcomes ok / coded / plain | pass (1,400 states) | `TypeOK`, `AtMostOneResponse`, `AckAfterAllWrites`, `EveryUnicastAnswered` | With callbacks settling in every order, each dispatch answers at most once, a normal answer comes only after every callback the handler needs has succeeded, and every unicast frame a model takes on is answered unless its PDU is malformed |
| `slave_sync_throw` | `SlaveThrow.cfg` | FC6 and FC16 to unit 2, a callback may throw | violation | `EveryUnicastAnswered` | The throw escapes `handleFC`, and the request is never answered |

The FC22 fallback's value is modelled as the code computes it
(`MaskFallback` in `MaskWrite`, `(v & and) | (or & (~and & 0xff))`); the
`operator_queries` run checks how it relates to spec section 9's formula.

Pipelined requests (two frames in flight, answered in the order their
handlers settle) are not checked: with two frames the dispatch did not
finish within ten minutes.

`slave_dispatch` uses one frame. Whether a frame is answered, and what it
is answered with, depends only on its own dispatch: the models' state does
not change a handler's control flow, and a broadcast frame already runs the
dispatch of both models concurrently. Two frames multiply the space (526k
states for the safety invariants alone) and liveness checking of that space
takes longer than a run may.

**Fairness.** One weak-fairness condition covers all task steps:

- the event loop keeps running queued continuations;
- every model callback's promise settles.

The second is an assumption about the host's callbacks, stated as such. Each
task has finitely many steps, so fairness for their union makes every one of
them run. The host and the transport get no fairness.

### MasterTcp (`MasterTcp.tla`, `MC_MasterTcp.tla`)

The client over `TcpApplicationLayer` and `TcpClientPhysicalLayer`.

**State.**

- The client's state is the same as in MasterRtu: `reqs`, `cstate`, `result`,
  `timer` and `waiting`. Each request also records the transaction id `encode`
  stamped on it.
- `transactionId` is `_transactionId`. `NextTid` is `(id + 1) % 256 || 1`.
- `open` is `_isOpen` of the TCP client. `toServer` holds the requests in
  flight to the server.
- `stream` holds the bytes the server has written and the client has not
  read. A byte is `<<frame, offset>>`. `sent` records every frame the server
  sent, including the transaction id it echoed.

**Actions.**

- `Request(k)` is a caller's method. It runs `encode`, which stamps the
  request and advances the counter even when the write then fails, and
  `write`, which rejects at once on a closed connection.
- `WriteDoneBroadcast`, `WriteDoneUnicast`, `WriteFail` and `Timeout` are the
  branches of `waitResponse`, as in MasterRtu. A failed socket write also
  ends the connection: node destroys a socket whose write fails, and the
  layer's `'close'` listener clears `_isOpen`, so the request never reaches
  the server and nothing more is read. The TCP layer has no 3.5T
  timer, and `startWaitingResponse` only sets `_waitingResponse`.
- `Receive` is one socket data event: `handleData` over
  `tcp-application-layer.ts:18-26`. The event is cut anywhere in the stream
  (`EventSizes`), or at the end of the first frame only when `Segmenting` is
  FALSE. While waiting, every outcome of `framing` goes to the callback,
  including "Insufficient data length" and "Invalid data". A frame that
  arrives outside a wait is emitted as `framing`, and the client has no
  listener for it.
- `Close` covers both `close()` and the socket's `close` event. Both
  directions of the connection lose their bytes. `Open` reconnects unless
  the layer is destroyed.
- `Destroy` is `ModbusMaster.destroy()`: the connection closes for good and
  the request's timeout keeps running.
- `StartWaitingResponse` and `StopWaitingResponse` only set and clear
  `_waitingResponse`.
- `ServerAnswer` is the server's answer, which echoes the transaction id.
  `ServerDrop` is the server handling a request without answering.

**Abstraction.** An event passes the MBAP header check (`HeaderOk`) exactly
when it is one whole frame. A split frame, a frame's tail, or two coalesced
frames never carry protocol id 0 and a matching length field by accident.

| Run | cfg | Bounds | Expect | Checks | Shows |
|---|---|---|---|---|---|
| `tcp_client` | `MasterTcp.cfg` | MaxReq 2, TidInit {1, 255}, Segmenting, Cuts {4, 9, 12}, 4 kinds | pass (27,860 states) | `TypeOK`, `WaitMatchesClient`, `ResolvedWithEquivalentAnswer`, `EverySettles`, `ImplementsModbusCall` | The counter wraps from 255 to 1, never 0. The wait state follows the client. A resolved request carries an answer to an equivalent request. Every request settles, under splits, coalescing, closes and late answers. The client implements `ModbusCall` |
| `tcp_stale_answer` | `MasterTcpStale.cfg` | MaxReq 2, one FC3 kind, whole frames | violation | `ResolvedWithOwnTransaction` | The first read times out, the second is written, and the server's late answer to the first read resolves the second, although it carries the first read's transaction id |

The cut points are chosen against frame lengths: an FC3 answer is 11 bytes
and an FC6 answer is 12.

- 4 leaves a piece under 8 bytes.
- 9 leaves a header with a short body.
- 12 coalesces the end of one frame with the next.

Starting the counter at 255 makes the second request wrap it. Three requests
would take about 8 minutes; two requests already let a late answer meet the
next request's wait.

**Fairness.** Weak fairness is assumed for the write callback and the
timeout, as in MasterRtu. Deadlock is not checked, for the same reason.

### AddressRange, DeviceIdentification and OperatorQueries (`AddressRange.tla`, `DeviceIdentification.tla`, `OperatorQueries.tla`, `MC_OperatorQueries.tla`)

`AddressRange` holds operators only, and `Slave` extends it.

- A configured range is `[kind, rs]`. The kind is `"undefined"`, `"single"`
  (one `[lo, hi]` pair) or `"list"` (an array of pairs, possibly empty). This
  mirrors the type `getAddressRange` returns (`unnamed/part_000:62-67`).
- `CheckRange` is `checkRange` as written, branch for branch:
  - a single pair with `lo >= hi` accepts everything;
  - a list skips pairs with `lo >= hi`;
  - an empty list accepts everything.
- `SpecInRange` is the reading of spec section 4.5 (a list accepts what any
  of its intervals contains). It is written with set inclusion, so it shares
  no operator with the code's side.
- `WellFormed` is the configurations section 4.5 calls valid: every interval
  has `lo < hi`, and a list has at least one interval.

`DeviceIdentification` holds FC43/14, Read Device Identification, on both
sides, as operators:

- `HandleFC43_14` is `ModbusSlave.handleFC43_14` (`unnamed/part_000:561-686`)
  branch for branch: no answer to a request that is not 3 bytes long; the
  `switch` on the read code (`ClampedObject`, with the errors for code 4 and
  for an unknown code); the map of objects (`Objects`: ids 0, 1, 2 default
  to `'null'`, keys outside 0..255 are dropped); and the `for..of` walk
  (`Walk`, a `FoldLeft` over the ids in `Map` order). The walk has the
  reserved-id failure, the conformity level, the skip below the requested
  id, the 245 limit, the `lastID` budget of `253 - totalLength` (`Fits`) and
  the `break` after one object for code 4. `AnswerData` is the sorted,
  encoded answer.
- A value is `[units, bytes]`: `value.length` in UTF-16 code units and
  `Buffer.from(value)` in UTF-8 bytes. `Ascii(n)` has n of each; `Wide(n)` is
  n characters of two bytes each.
- `ObjectsCheck` is the client's second pre-check in
  `readDeviceIdentification` (`unnamed/part_001:1715-1752`): its byte walk is
  `WalkStep`, folded over the bytes from `data[6]` on. `ReadObjects` is the
  `.then` decoding (`:1757-1797`).
- `SpecAnswer` is the answer spec section 4.5 describes, written with sets:
  the candidates from the start id, those whose running size stays within
  253 bytes, the next id left over, and the conformity level of the ids
  walked. "Stop" in step 5 is read as the end of the walk for code 4.

`OperatorQueries` enumerates the inputs of both. A state is one input:

- a `checkRange` query over addresses 0..4, with one point (FC5, FC6) or two
  (`[address, address + length]` of the block handlers), and a range that is
  undefined, a single pair, or a list of up to two pairs;
- or an FC43 request (read code, object id) and the map the model's
  callback returns.

- or an FC22 fallback input (register value, and-mask, or-mask) from
  `Words`.

`MaskWrite` holds the two FC22 formulas: `MaskFallback` is the fallback of
`handleFC22` (`unnamed/part_000:487-489`, `~andMask & 0xff` in 32-bit
JavaScript), and `SpecMask` is spec section 9's
`(value AND andMask) OR (orMask AND NOT andMask)` on 16 bits. `NewMasks` is
a new request's masks, `NewValue` the model's `getHoldingRegister` returning
another value.

`NewPoints` and `NewRequest` are a new request. `NewRange` and `NewIdent`
are the model's callback returning something else, since the handler calls
it per request.

| Run | cfg | Bounds | Expect | Checks | Shows |
|---|---|---|---|---|---|
| `operator_queries` | `OperatorQueries.cfg` | addresses 0..4, lists of up to 2; codes 1..5, object ids {0, 3, 7, 129, 200}, maps over keys {0, 3, 129, 300}; FC22 words {0, 240, 255, 256, 3855, 4369, 65280, 65535} | pass (12,917 states) | `AgreesWithSpec`, `Fc43AnswerPerSpec`, `MaskFallbackDiffersOnlyInHighByte` | On well-formed ranges, `checkRange` and the specification agree on every query. `handleFC43_14` gives the answer of spec section 4.5 to every request, over every map. The FC22 fallback always agrees with the specification in the low byte, and differs from it exactly when the or-mask sets a high-byte bit the and-mask clears |
| `fc43_short_object` | `OperatorQueriesFc43.cfg` | code 1, object 0, key 3 with 1 or 2 characters | violation | `Fc43ReadBack` | The library's own client rejects the server's answer when an object's value is one character long (finding 7) |

The FC22 words cover all-zero and all-one masks, each byte alone, a
byte boundary (255, 256), and mixed nibbles (3855 = 0x0F0F, 4369 =
0x1111), so both sides of the equivalence occur.

Five addresses and two intervals are enough for every relative position of
two points and two intervals: inside, straddling either end, disjoint, and
covered by one interval but not the other.

The FC43 maps are chosen for the edges:

- key 0 overrides a mandatory object;
- key 3 is an extended object (conformity 0x82), and key 129 one above 0x80
  (0x83);
- key 300 is dropped by the 0..255 filter.

After the three `'null'` objects, a value of 223 characters under key 3
exactly fills the 253-byte budget, one of 224 does not and sets `lastID`,
and one of 246 exceeds the 245 limit. The object ids include a reserved one
(7), one between two keys (200), and one above every key.

Two cases are left out of `Fc43AnswerPerSpec`, because the code and the
specification's reading differ there and the specification says nothing:

- a reserved key (0x07..0x7F) in the model's map fails every request with
  `SERVER_DEVICE_FAILURE`;
- an object 0 too long for the budget: `lastID = 0` also means "none left
  over", so packing goes on with ids 1, 2, ....

Both are listed as hazards.

### AsciiCodec and AsciiLine (`AsciiCodec.tla`, `AsciiLine.tla`, `MC_AsciiLine.tla`)

**AsciiCodec** holds the character-level conversions, over real char codes.

- `Encode` is `encode`: `':'`, then every byte and the `Lrc` as two
  upper-case hex digits (`padStart(2, '0')`), then CR LF.
- `Lrc` is `lrc` (`utils/lrc.ts`). `~` on the sum is `-sum - 1`, and
  `& 0xff` is the non-negative remainder mod 256.
- `ParseHex` is `Number('0x' + num)` as Node evaluates it, stored by
  `Buffer.from`:
  - a pair of hex digits (either case) is their value;
  - a digit followed by white space is that digit, because `Number` trims
    trailing white space;
  - anything else is NaN, stored as 0.
- `Decode` is `framing` with an empty pre-check list:
  - fewer than 6 characters is "Insufficient data length";
  - an odd count is "Invalid data";
  - otherwise the pairs split as unit | fc | data | LRC, followed by the LRC
    comparison.

**AsciiLine** is the layer reading a line.

- The state is `status` and `frame` (the scanner), `waiting`, the
  characters on the `line`, the ADUs the peer `sent` (each marked intact or
  damaged), and what the layer delivered (`out`).
- `Receive` is one data event: one character, or all that is on the line.
  `handleData`'s `forEach` does not yield, so the whole event is one step,
  the fold of `ScanStep` (the `switch (this._status)`).
- At LF, `Deliver` hands the decoded buffer to the waiting callback, whatever
  it holds; the owner's callback ends the wait. Without a wait, only a good
  frame is emitted as `framing`.
- `Send` is the peer writing an encoded ADU. At most `MaxDamaged` of them
  arrive with one character replaced by a `Noise` character or lost
  (`Variants`).
- `StartWait` is `startWaitingResponse`, which resets the scanner.
  `StopWait` is the owner's timeout. `Close` is the port closing by itself:
  its `'close'` reaches `handleClose`, which resets the scanner.
  `CallerClose` is the caller's `close()` and a later `open()`: the physical
  layer removes the port's listeners before closing (`part_002:186-193`), so
  `handleClose` never runs and `_status` and `_frame` carry over into the
  next connection. Characters in flight are lost in both.
- `reset` records the number of intact ADUs sent and of frames delivered at
  the last reset (a wait, either close), so that a property can speak of
  the ADUs sent since.

The ADUs are an exception answer (`01 86 02`) and an FC3 answer
(`01 03 02 00 10`). Their zero bytes and `0x10` meet the parser's cases: a
zero byte with a corrupted digit still reads as 0, and `1` followed by LF
reads as 1. The noise characters are `G`, LF, `:` and CR, one of each class
the scanner tells apart. Deadlock is not checked: the layer is passive, and
once the peer's bounded sends are read the line is quiet.

| Run | cfg | Bounds | Expect | Checks | Shows |
|---|---|---|---|---|---|
| `ascii_scanner` | `AsciiLine.cfg` | 2 ADUs, 1 damaged, waits and both kinds of close | pass (111,864 states) | `RoundTrip`, `NoIntactFrameLost` | Encode round-trips for every ADU sent. Once the line drains, every ADU sent intact since the last reset has been delivered: neither damage to one frame nor the half-read frame a caller's `close()` leaves behind costs the next intact frame, because every `:` restarts reception |
| `ascii_caller_close` | `AsciiLineCallerClose.cfg` | 2 ADUs, 1 damaged by `G`, no waits | violation | `DeliveredWereSent` | A caller's `close()` after `:0` leaves `"0"` in `_frame`; the next ADU arrives with its `:` turned into `G`, `"0G"` parses as 0, and the layer delivers unit 0, fc 1, data `03 02 00 10`, a broadcast nobody sent, whose LRC passes (finding 4) |

`DeliveredWereSent` (spec section 8: the framer never emits a frame whose
LRC fails, read as: every frame it emits is one the peer sent) fails as
soon as a caller's `close()` is possible, so it is the property of the
violation run, and the passing run checks the two properties that survive
the close. Without `CallerClose`, one damaged ADU never yields a forged
frame. With two, TLC finds a splice: the
first frame loses its CR, and the second's `:` arrives as LF. The LF pair
between them decodes as 0, and each whole frame sums to 0 mod 256, so the
splice passes the LRC. That is a weakness of the LRC together with the
lenient hex parser (`unnamed/part_004:96`), not a transition the spec
forbids. `startWaitingResponse`'s reset (`part_004:149`) drops a frame whose
`:` has arrived, which is why `NoIntactFrameLost` counts the ADUs sent since
the last reset. The client starts the wait in the write callback, which runs
before the I/O callback of any answer byte.

### ModbusCall (`ModbusCall.tla`): the client's contract

An abstract specification of what a client promises its caller, written
from spec sections 3, 4.4 and 5 rather than from the code. It has three
variables:

- `calls`: the kinds of the calls issued;
- `outcome`: `pending`, `ok`, `done` or `failed` for each call;
- `replies`: the answers the server sent, each a call and whether it was normal.

Its actions:

- `Issue`: only when no call is pending; a closed transport fails the call at once.
- `Answer(i)`: the server answers a unicast call once.
- `Done`: a broadcast is done.
- `Resolve`: a unicast call resolves only if the server has sent a normal
  answer to a call of the same unit, function code and argument.
- `Fail`: any pending call may fail.

Weak fairness on settling says every call settles.

The contract says "a call of the same kind" because the client's pre-checks
never identify a request. The stronger contract, "its own answer", fails
over MBAP (`tcp_stale_answer`, finding 5).

`MasterRtu` and `MasterTcp` each define `Call == INSTANCE ModbusCall WITH
...`. The mapping is:

- `calls` is the requests' kinds;
- `outcome` is the request's status, with every rejection (timeout,
  invalid, CRC, insufficient, write error) mapped to `failed`;
- `replies` is the set of frames the device or server sent.

`ImplementsModbusCall == Call!Spec` is a PROPERTY of `rtu_client` and
`tcp_client`. The mutant that drops the broadcast test from the write
callback (`WriteDoneBroadcastAll`) breaks it, and no other property.

### TcpServer (`TcpServer.tla`, `MC_TcpServer.tla`)

Models `TcpServerPhysicalLayer` (`src/layers/physical/tcp-server-physical-layer.ts`)
together with the `node:net` server behaviour it relies on. The layer's
state is `isOpen` (`_isOpen`), `destroyed`, `sockets` (`_sockets`) and
`up` (its own listeners, removed by `destroy()`). The server's state is
`handle` (listening or not) and `lsn`, the listeners registered on it:

- the `'connection'` listener of the constructor;
- the once-`'listening'` callbacks and the `'error'` handlers of `open()` calls;
- the `'close'` handlers the listening callback adds;
- the callbacks of `close()` calls.

`attached` is the set of sockets still carrying the layer's `'data'` and
`'close'` listeners. node queues events for later ticks, recorded in
`listenQ`, `errQ` and `closeQ`. Each `open()` and `close()` call has an id,
so each promise is followed in `openSt` and `closeSt`.

| Action | Code |
|---|---|
| `Open(i)` | `open()`: rejects if destroyed, or if `listen` throws because a handle is bound. Otherwise it registers the listening callback and the `'error'` handler, and the bind succeeds or fails |
| `EmitListening` | node's `'listening'` tick, emitted only if the handle is still open. Each callback sets `called` and `_isOpen`, clears `_sockets`, adds a `'close'` handler and resolves |
| `EmitError`, `ServerError` | an `'error'` on the server: handlers reject their `open()` if not `called`. With no handler, the emitter throws (`crashed`) |
| `Connect(c)`, `Send(c)`, `Hangup(c)` | the `'connection'` listener and the socket's `'data'` and once-`'close'` listeners |
| `CloseCall(j)`, `Destroy(j)` (both via `Close(j)`) | `close()`: `_isOpen` false, every server listener removed, the tracked sockets' listeners removed, then `server.close(cb)` |
| `EmitClose` | node's queued `'close'` tick. `server.close()` queues it at once when no connection is open (`ServerCloseQ`); otherwise the last connection to end queues it, and only if no handle was bound again meanwhile (`CloseAfterHangup`, node's `_emitCloseIfDrained`). The tick itself does not look at the handle. It resolves the `close()` callbacks still registered and runs any `'close'` handler of `open()` |

`sends` is a history of the chunks clients send. Each chunk records whether
the layer was open, whether its connection was accepted since the last
`close()`, and whether it was emitted. `orphaned` records the `open()` calls
a `close()` overtook.

| Run | cfg | Bounds | Expect | Checks | Shows |
|---|---|---|---|---|---|
| `tcp_server` | `TcpServer.cfg` | 2 `open()`, 2 `close()`/`destroy()`, 2 clients, 2 chunks | pass (145,843 states) | `TypeOK`, `DataOnlyWhileOpen`, `IsOpenMeansListening`, `OpenSettles` | Data is emitted only while the layer reports open; `isOpen` implies a listening handle; every `open()` no `close()` overtook settles |
| `tcp_server_reopen` | `TcpServerReopen.cfg` | same | violation | `ServedWhileOpen` | `close()` (here before the first `open()`), then `open()`: the server listens and `isOpen` is true, but a new client's data is never emitted (finding 6) |

Two `open()` calls give a failed bind followed by a good one, a reopen, and
an `open()` while bound. Two `close()` calls give a double close and a close
before `'listening'`. Two clients give one client that outlives a close and
one accepted afterwards.

**Fairness.** Weak fairness on `EmitListening`, `EmitError` and
`EmitClose`: node runs what it queued on a later tick. Clients get no
fairness, because they are not obliged to connect, send or hang up. That is
why there is no property that `close()` completes: it waits for every
client (the hazard at `:96`). Deadlock is not checked (`CHECK_DEADLOCK
FALSE`). With bounded calls and clients the server ends idle, which is its
normal state.

The model also reaches three hazards that no property of a passing run
states, because each is violated:

- A `close()` made before `'listening'` leaves that `open()` unsettled.
- A second `close()` leaves the first one's promise unsettled.
- A `close()` made after a failed bind, but before its `'error'` tick,
  removes every `'error'` handler; the emitter then throws (`crashed`).

## Findings

1. **The expected-length comparison is inverted** (`rtu-application-layer.ts:102`,
   and the same at `tcp-application-layer.ts:51`). Sections 4.2 and 6 of the
   specification say a short buffer is "insufficient". The code reports
   "Invalid response" for it when it has at least 4 bytes.
2. **The wait starts after the write** (`unnamed/part_001:1262-1272`). Spec
   section 4.4 starts the wait first. The write callback's `.then` runs as
   a microtask before the I/O callback of any later byte, so an answer is
   lost only if it is delivered inside the write's own resolution. This is
   kept as a hazard, not a run.
3. **A synchronously throwing model callback gets no answer**
   (`unnamed/part_000:370`, and every `Promise.resolve(model.cb(...))` in a
   handler). Spec section 7 maps every callback failure to an exception
   response. Here the exception escapes `handleFC` as an unhandled rejection.
4. **A caller's close() leaves the ASCII scanner mid-frame**
   (`unnamed/part_002:188`, with `part_004:78-81`). Spec section 4.3.b says
   "On close: state = IDLE, buffer cleared". The physical layers' `close()`
   removes the port's listeners first, so `handleClose` never runs, and
   the next connection's characters are appended to the half-read frame.
   An odd number of stale hex characters, followed by an ADU whose `:` is
   damaged into a non-hex character, parses into an extra 0 byte; the LRC
   sum is unchanged, and the layer delivers an ADU of unit 0 (a broadcast)
   that nobody sent (`ascii_caller_close`). The RTU layer keeps its buffer
   the same way, but `startWaitingResponse` clears it before it matters.
5. **The client never checks the transaction id** (`tcp-application-layer.ts:43`,
   and the templates in `unnamed/part_001`). Spec sections 2 and 3 have the
   client correlate responses, and the server echo the id. Section 4.4's
   templates check only unit, function code, length and echo. A late answer
   to a timed-out read therefore resolves the next read of the same kind
   (`tcp_stale_answer`).
6. **close() makes the TCP server deaf for good**
   (`tcp-server-physical-layer.ts:92`). `close()` calls
   `this._server.removeAllListeners()`, which removes the `'connection'`
   listener that `createServer` registered in the constructor. Nothing
   registers it again. After any `close()`, even one made before the first
   `open()`, a later `open()` listens, resolves and reports `isOpen`, but the
   data of every client is dropped (`tcp_server_reopen`). Spec section 4.1
   says an open transport emits every inbound burst.
7. **The client cannot read a one-character identification object**
   (`unnamed/part_001:1729`). The pre-check of `readDeviceIdentification`
   opens an object's byte list with its first value byte without comparing
   the length (`case 2`). An object of length 1 (or 0) is therefore never
   complete, the object count never reaches `data[5]`, and the pre-check
   returns `undefined`. The answer this library's server sends for a
   one-character value is rejected: RTU waits until the timeout, TCP reports
   short data. The server also writes `value.length` (UTF-16 units) as the
   length of `Buffer.from(value)` (UTF-8 bytes), so a non-ASCII value
   misaligns every later object (`part_000:679`). Spec section 4.4 says the
   pre-check accepts the frame once it is complete (`fc43_short_object`).

The handlers' range check is off by one (`unnamed/part_000:214, 247, 280,
311, 397, 430, 528`): they pass `[address, address + length]`, one past the
last register, to `checkRange`, so a request that ends at the top of a
permitted range is refused. An earlier run showed it (FC3 of register 9
against `[0, 9]`); it is kept as a hazard, since a unit test reading the
last register of a range reaches it directly, and the run's slot went to
finding 4.

A single range `[a, a]` with `lo >= hi` is treated by `checkRange` as no
range (every address accepted), while the same pair in a list accepts no
address. Spec section 4.6 admits single intervals only with `lo < hi`, so
this is outside the specified domain and is listed as a hazard only.

## Plan

The modules are listed in order of importance.

1. **MasterRtu** (done). Next: all function codes' pre-checks, and overlapping
   calls (the caller not awaiting), which share one `_waitingResponse`.
2. **MasterTcp** (done). Next: a server that answers out of order (pipelined
   requests of overlapping calls), and the UDP transport (datagrams lost,
   one frame per datagram).
3. **Slave** (done; FC43/14 in `DeviceIdentification`, FC22's formulas in
   `MaskWrite`). Next: the order of responses to pipelined requests, which
   needs a smaller dispatch model to fit in a run.
4. **CheckRange and FC43** (done): `AddressRange`, `DeviceIdentification`
   and `OperatorQueries`.
5. **AsciiFramer** (done): `AsciiCodec` and `AsciiLine`. Next: the waiting
   mode's pre-check loop, and the composition with the client.
6. **SlaveRtu**: the server over RTU, where two requests within 3.5T are
   concatenated.
7. **ModbusCall** (done): the abstract client contract, implemented by
   `MasterRtu` and `MasterTcp`.
8. **TcpServer** (done, except `write` and the reply closure). Next: the
   server's reply closure and socket errors, composed with `Slave`.

## Not modelled

- Socket and serial-port I/O details of the client-side physical layers and
  their listener bookkeeping, beyond what `Close`, `PortClosed` and
  `Destroy` of the client modules take from it. For the TCP server layer
  the listener bookkeeping is the subject of `TcpServer`. Its `write()`
  always rejects. Socket errors are not modelled: a socket without an
  `'error'` listener throws on the first one, whatever else happens.
- `AbstractApplicationLayer` and `AbstractPhysicalLayer` declare interfaces
  only and have no behaviour of their own.
- Encoding of register values beyond what the checks compare.
- The CRC polynomial: a CRC collision is assumed away.
- `getThreePointFiveT`'s arithmetic: only "serial or not" matters to the
  framer's control flow.
- The older versions kept in the same files (`unnamed/part_001` 1-1194,
  `part_003` 125-250, `part_005`, `part_006` 18-107, `part_007`, and
  `rtu-application-layer.ts` 160-261).
