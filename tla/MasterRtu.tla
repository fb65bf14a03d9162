----------------------------- MODULE MasterRtu -----------------------------
(***************************************************************************)
(* The MODBUS client (ModbusMaster, unnamed/part_001) over the RTU         *)
(* application layer (RtuApplicationLayer, rtu-application-layer.ts) and  *)
(* a serial line to one device.                                            *)
(*                                                                         *)
(* The client issues one request at a time (the caller awaits each one).   *)
(* waitResponse writes the request, and only when the write callback has   *)
(* run arms the timeout and puts the framer in response-wait mode.  The    *)
(* framer accumulates the bursts the transport delivers and runs the       *)
(* request's pre-checks on the accumulated buffer after every burst.       *)
(*                                                                         *)
(* Data abstraction.  A byte on the line is <<f, o>>: byte o of frame f of *)
(* the device's history `sent`.  Its value (ByteVal) is the unit, the      *)
(* function code, the byte count, a byte of the echoed request, a register *)
(* byte or a CRC byte; a byte out of its header position never equals a    *)
(* header value.  The CRC of a buffer passes exactly when the buffer is    *)
(* one whole frame (CRC collisions are left out).                          *)
(***************************************************************************)
EXTENDS Integers, Sequences, FiniteSets

CONSTANTS
    Kinds,      \* requests the caller may issue: [unit, fc, arg]
    MaxReq,     \* number of requests the caller issues
    Cuts        \* positions at which the device's answer may be split in two bursts

ASSUME MaxReq \in Nat /\ Cuts \subseteq Nat \ {0}
ASSUME \A k \in Kinds : k.fc \in {3, 6}

VARIABLES
    reqs,       \* requests issued so far, in order (the caller's history)
    cstate,     \* "idle" | "writing" | "waiting": the caller's current call
    result,     \* result[i]: what request i settled with
    timer,      \* ModbusMaster.waitResponse: the timeout `tid` is armed
    waiting,    \* RtuApplicationLayer._waitingResponse is set
    bufferRx,   \* RtuApplicationLayer._bufferRx
    t35,        \* RtuApplicationLayer._timerThreePointFive is armed
    serial,     \* threePointFiveT # 0 (a SERIAL transport)
    open,       \* the physical layer is open
    toDevice,   \* requests on the line to the device
    wire,       \* bursts on the line back to the client
    sent,       \* every frame the device has sent
    destroyed   \* ModbusMaster.destroy() has run

vars == <<reqs, cstate, result, timer, waiting, bufferRx, t35, serial, open,
          toDevice, wire, sent, destroyed>>

Statuses == {"none", "pending", "ok", "done", "timeout", "invalid", "crc",
             "insufficient", "writeError"}

----------------------------------------------------------------------------
(* Frames, bytes and their values                                          *)

\* Length of the data part of the answer: exception code, byte count and
\* registers (FC3), or the four echoed request bytes (FC6).
AnswerLen(k, normal) ==
    IF ~normal THEN 1 ELSE IF k.fc = 3 THEN 1 + 2 * k.arg ELSE 4

FrameLen(f) == sent[f].dlen + 4

\* Byte d (from 0) of the request's data: address and value bytes.
TxByte(k, d) == <<"tx", k.fc, k.arg, d>>

\* The value of byte o (from 1) of frame f.
ByteVal(f, o) ==
    LET F == sent[f] IN
    CASE o = 1 -> <<"n", F.unit>>
      [] o = 2 -> <<"n", F.fc>>
      [] o > F.dlen + 2 -> <<"crc", f, o>>
      [] ~F.normal -> <<"n", 2>>
      [] F.kind.fc = 3 /\ o = 3 -> <<"n", 2 * F.kind.arg>>
      [] F.kind.fc = 3 -> <<"reg", o>>
      [] OTHER -> TxByte(F.kind, o - 3)

\* The value of byte p of buffer b.
Val(b, p) == ByteVal(b[p][1], b[p][2])

\* frame.data[d] of the frame the RTU framer builds from buffer b
DataByte(b, d) ==
    IF 3 + d <= Len(b) - 2 THEN Val(b, 3 + d) ELSE <<"undefined">>

\* The CRC in the last two bytes matches: b is exactly one frame.
CrcPassed(b) ==
    /\ Len(b) >= 1
    /\ Len(b) = FrameLen(b[1][1])
    /\ \A o \in 1..Len(b) : b[o] = <<b[1][1], o>>

----------------------------------------------------------------------------
(* The pre-checks of the client and the RTU framer's reading of them      *)

\* A pre-check returns a boolean, a number (the data length it expects) or
\* undefined (not yet decidable).
Bool(x) == [t |-> "boolean", v |-> x]
Num(x)  == [t |-> "number", v |-> x]

\* Mutant: the write pre-check list without the echo comparison.
PreChecksNoEcho(k, b) ==
    LET match == Val(b, 1) = <<"n", k.unit>> /\ Val(b, 2) = <<"n", k.fc>>
    IN IF k.fc = 3
       THEN << Bool(match), Num(1 + 2 * k.arg), Bool(DataByte(b, 0) = <<"n", 2 * k.arg>>) >>
       ELSE << Bool(match), Num(4) >>

\* The pre-check list the client passes to startWaitingResponse for kind k,
\* evaluated on buffer b (writeFC3Or4, writeSingleRegister).
PreChecks(k, b) ==
    LET dlen  == Len(b) - 4
        match == Val(b, 1) = <<"n", k.unit>> /\ Val(b, 2) = <<"n", k.fc>>
    IN IF k.fc = 3
       THEN << Bool(match), Num(1 + 2 * k.arg), Bool(DataByte(b, 0) = <<"n", 2 * k.arg>>) >>
       ELSE << Bool(match), Num(4), Bool(\A d \in 0..dlen - 1 : DataByte(b, d) = TxByte(k, d)) >>

\* Mutant: a number equal to the data length is read as "insufficient".
CheckVerdictOffByOne(res, dlen) ==
    CASE res.t = "boolean"                -> IF res.v THEN "pass" ELSE "invalid"
      [] res.t = "number" /\ res.v <= dlen -> "insufficient"
      [] res.t = "number" /\ res.v # dlen  -> "invalid"
      [] res.t = "number"                 -> IF res.v = 0 THEN "invalid" ELSE "pass"
      [] OTHER                            -> "insufficient"

\* RtuApplicationLayer.framing: the verdict of one pre-check result res
\* for a frame with dlen data bytes.
CheckVerdict(res, dlen) ==
    CASE res.t = "boolean"                -> IF res.v THEN "pass" ELSE "invalid"
      [] res.t = "number" /\ res.v < dlen  -> "insufficient"
      [] res.t = "number" /\ res.v # dlen  -> "invalid"
      [] res.t = "number"                 -> IF res.v = 0 THEN "invalid" ELSE "pass"
      [] OTHER                            -> "insufficient"   \* undefined

\* RtuApplicationLayer.framing(buffer, callback): the error it reports
\* ("insufficient", "invalid", "crc") or "ok".
Framing(b, k, isWaiting) ==
    IF Len(b) < 4 THEN "insufficient"
    ELSE LET checks   == PreChecks(k, b)
             verdicts == [j \in DOMAIN checks |-> CheckVerdict(checks[j], Len(b) - 4)]
             failed   == {j \in DOMAIN checks : verdicts[j] # "pass"}
             first    == CHOOSE j \in failed : \A j2 \in failed : j <= j2
         IN IF isWaiting /\ failed # {} THEN verdicts[first]
            ELSE IF CrcPassed(b) THEN "ok" ELSE "crc"

Current == Len(reqs)

\* RtuApplicationLayer.startWaitingResponse: enter response-wait mode,
\* clear the 3.5T timer and the buffer.
StartWaitingResponse ==
    /\ waiting' = TRUE
    /\ t35' = FALSE
    /\ bufferRx' = <<>>

\* RtuApplicationLayer.stopWaitingResponse: leave response-wait mode; the
\* buffer is left as it is.
StopWaitingResponse == waiting' = FALSE

----------------------------------------------------------------------------
(* Initial state                                                           *)

Init ==
    /\ reqs = <<>>
    /\ cstate = "idle"
    /\ result = [i \in 1..MaxReq |-> [st |-> "none", buf |-> <<>>]]
    /\ timer = FALSE
    /\ waiting = FALSE
    /\ bufferRx = <<>>
    /\ t35 = FALSE
    /\ serial \in BOOLEAN
    /\ open = TRUE
    /\ toDevice = <<>>
    /\ wire = <<>>
    /\ sent = <<>>
    /\ destroyed = FALSE

----------------------------------------------------------------------------
(* The client                                                              *)

\* The caller invokes readHoldingRegisters / writeSingleRegister on an open
\* port: the request is encoded and physicalLayer.write hands it to the line.
Request(k) ==
    /\ cstate = "idle" /\ Current < MaxReq /\ open
    /\ reqs' = Append(reqs, k)
    /\ result' = [result EXCEPT ![Current + 1].st = "pending"]
    /\ cstate' = "writing"
    /\ toDevice' = Append(toDevice, Current + 1)
    /\ UNCHANGED <<timer, waiting, bufferRx, t35, serial, open, wire, sent, destroyed>>

\* The same call on a closed port: write rejects with "Port is not open".
RequestClosed(k) ==
    /\ cstate = "idle" /\ Current < MaxReq /\ ~open
    /\ reqs' = Append(reqs, k)
    /\ result' = [result EXCEPT ![Current + 1].st = "writeError"]
    /\ UNCHANGED <<cstate, timer, waiting, bufferRx, t35, serial, open, toDevice,
                   wire, sent, destroyed>>

\* The write callback reports success for a broadcast: resolve at once.
\* Mutant: the write callback resolves without testing for a broadcast.
WriteDoneBroadcastAll ==
    /\ cstate = "writing"
    /\ result' = [result EXCEPT ![Current].st = "done"]
    /\ cstate' = "idle"
    /\ UNCHANGED <<reqs, timer, waiting, bufferRx, t35, serial, open, toDevice,
                   wire, sent, destroyed>>

WriteDoneBroadcast ==
    /\ cstate = "writing" /\ reqs[Current].unit = 0
    /\ result' = [result EXCEPT ![Current].st = "done"]
    /\ cstate' = "idle"
    /\ UNCHANGED <<reqs, timer, waiting, bufferRx, t35, serial, open, toDevice,
                   wire, sent, destroyed>>

\* The write callback reports success for a unicast: arm the timeout, then
\* startWaitingResponse, which clears the 3.5T timer and the buffer.
WriteDoneUnicast ==
    /\ cstate = "writing" /\ reqs[Current].unit # 0
    /\ timer' = TRUE
    /\ StartWaitingResponse
    /\ cstate' = "waiting"
    /\ UNCHANGED <<reqs, result, serial, open, toDevice, wire, sent, destroyed>>

\* Mutant: the write error is swallowed and the call never settles.
WriteFailSwallowed ==
    /\ cstate = "writing"
    /\ cstate' = "idle"
    /\ UNCHANGED <<reqs, result, timer, waiting, bufferRx, t35, serial, open, toDevice,
                   wire, sent, destroyed>>

\* The write callback reports an error: reject.
WriteFail ==
    /\ cstate = "writing"
    /\ result' = [result EXCEPT ![Current].st = "writeError"]
    /\ cstate' = "idle"
    /\ UNCHANGED <<reqs, timer, waiting, bufferRx, t35, serial, open, toDevice,
                   wire, sent, destroyed>>

\* Mutant: the timeout rejects without stopWaitingResponse.
TimeoutKeepsWait ==
    /\ timer
    /\ timer' = FALSE
    /\ result' = [result EXCEPT ![Current] = [st |-> "timeout", buf |-> bufferRx]]
    /\ cstate' = "idle"
    /\ UNCHANGED <<reqs, waiting, bufferRx, t35, serial, open, toDevice, wire, sent, destroyed>>

\* The timeout fires: stopWaitingResponse and reject with "Timeout".  The
\* receive buffer is left as it is.
Timeout ==
    /\ timer
    /\ timer' = FALSE
    /\ StopWaitingResponse
    /\ result' = [result EXCEPT ![Current] = [st |-> "timeout", buf |-> bufferRx]]
    /\ cstate' = "idle"
    /\ UNCHANGED <<reqs, bufferRx, t35, serial, open, toDevice, wire, sent, destroyed>>

----------------------------------------------------------------------------
(* The RTU application layer                                               *)

\* handleData in response-wait mode: frame the accumulated buffer; an
\* "Insufficient data length" keeps the buffer, any other outcome goes to
\* the client's callback (clearTimeout, stopWaitingResponse, settle) and
\* clears the buffer.
ReceiveWaiting(b) ==
    LET v == Framing(b, reqs[Current], TRUE) IN
    /\ waiting
    /\ IF v = "insufficient"
       THEN /\ bufferRx' = b
            /\ UNCHANGED <<result, cstate, timer, waiting>>
       ELSE /\ result' = [result EXCEPT ![Current] = [st |-> v, buf |-> b]]
            /\ cstate' = "idle"
            /\ timer' = FALSE
            /\ StopWaitingResponse
            /\ bufferRx' = <<>>
    /\ UNCHANGED t35

\* handleData outside response-wait mode on a serial line: restart the 3.5T
\* timer over the accumulated buffer.
ReceiveIdleSerial(b) ==
    /\ ~waiting /\ serial
    /\ bufferRx' = b
    /\ t35' = TRUE
    /\ UNCHANGED <<result, cstate, timer, waiting>>

\* handleData outside response-wait mode with threePointFiveT = 0: frame at
\* once and emit 'framing' (the client has no listener for it), clear the buffer.
ReceiveIdleNet(b) ==
    /\ ~waiting /\ ~serial
    /\ bufferRx' = <<>>
    /\ t35' = FALSE
    /\ UNCHANGED <<result, cstate, timer, waiting>>

\* The transport delivers the next burst to the framer.
Receive ==
    /\ open /\ wire # <<>>
    /\ LET burst == Head(wire)
           b     == bufferRx \o burst
       IN /\ \/ ReceiveWaiting(b)
             \/ ReceiveIdleSerial(b)
             \/ ReceiveIdleNet(b)
          /\ wire' = Tail(wire)
    /\ UNCHANGED <<reqs, serial, open, toDevice, sent, destroyed>>

\* The 3.5T timer fires: frame the buffer, emit 'framing' if the CRC
\* passes (nobody listens on the client), clear the buffer.
ThreePointFiveT ==
    /\ t35
    /\ t35' = FALSE
    /\ bufferRx' = <<>>
    /\ UNCHANGED <<reqs, cstate, result, timer, waiting, serial, open, toDevice,
                   wire, sent, destroyed>>

\* The caller's close(): the physical layer removes the port's listeners
\* before closing it, so its 'close' event never reaches handleClose: the
\* 3.5T timer stays armed and the buffer is kept.  Bytes in flight are
\* lost; the pending request keeps waiting for its timeout.
Close ==
    /\ open
    /\ open' = FALSE
    /\ wire' = <<>>
    /\ UNCHANGED <<reqs, cstate, result, timer, waiting, bufferRx, t35, serial,
                   toDevice, sent, destroyed>>

\* The port closes by itself (unplugged, peer hang-up): its 'close'
\* listener removes the listeners and emits 'close', and handleClose
\* clears the 3.5T timer and the buffer.
PortClosed ==
    /\ open
    /\ open' = FALSE
    /\ t35' = FALSE
    /\ bufferRx' = <<>>
    /\ wire' = <<>>
    /\ UNCHANGED <<reqs, cstate, result, timer, waiting, serial, toDevice, sent, destroyed>>

\* ModbusMaster.destroy(): the application layer removes its 'data' and
\* 'close' listeners and clears the 3.5T timer, then the physical layer is
\* marked destroyed and closed as by close().  The client's timeout is not
\* cleared: a pending request still rejects with "Timeout".
Destroy ==
    /\ ~destroyed
    /\ destroyed' = TRUE
    /\ t35' = FALSE
    /\ open' = FALSE
    /\ wire' = <<>>
    /\ UNCHANGED <<reqs, cstate, result, timer, waiting, bufferRx, serial, toDevice, sent>>

\* The caller reopens the port: open() registers the listeners again; on a
\* destroyed port it rejects with "Port is destroyed".
Open ==
    /\ ~open /\ ~destroyed
    /\ open' = TRUE
    /\ UNCHANGED <<reqs, cstate, result, timer, waiting, bufferRx, t35, serial,
                   toDevice, wire, sent, destroyed>>

----------------------------------------------------------------------------
(* The device                                                              *)

\* Mutant: the exception function code is built with 0x100 instead of 0x80.
DeviceAnswerWideFc ==
    /\ toDevice # <<>>
    /\ LET r == Head(toDevice)
           k == reqs[r]
           F == [req |-> r, kind |-> k, unit |-> k.unit, normal |-> FALSE,
                 fc |-> k.fc + 256, dlen |-> 1]
       IN /\ k.unit # 0
          /\ sent' = Append(sent, F)
          /\ wire' = IF open THEN Append(wire, [j \in 1..5 |-> <<Len(sent) + 1, j>>])
                     ELSE wire
    /\ toDevice' = Tail(toDevice)
    /\ UNCHANGED <<reqs, cstate, result, timer, waiting, bufferRx, t35, serial,
                   open, destroyed>>

\* The device answers the oldest request it has not handled, with the
\* normal answer or an exception, in one burst or split at a cut point.
\* An answer sent while the port is closed is lost.
DeviceAnswer ==
    /\ toDevice # <<>>
    /\ LET r == Head(toDevice)
           k == reqs[r]
       IN /\ k.unit # 0
          /\ \E normal \in BOOLEAN, cut \in {0} \cup Cuts :
               LET F  == [req |-> r, kind |-> k, unit |-> k.unit, normal |-> normal,
                          fc |-> IF normal THEN k.fc ELSE k.fc + 128,
                          dlen |-> AnswerLen(k, normal)]
                   f  == Len(sent) + 1
                   n  == F.dlen + 4
                   Bytes(lo, hi) == [j \in 1..(hi - lo + 1) |-> <<f, lo + j - 1>>]
                   bursts == IF cut = 0 THEN << Bytes(1, n) >>
                             ELSE << Bytes(1, cut), Bytes(cut + 1, n) >>
               IN /\ cut < n
                  /\ sent' = Append(sent, F)
                  /\ wire' = IF open THEN wire \o bursts ELSE wire
    /\ toDevice' = Tail(toDevice)
    /\ UNCHANGED <<reqs, cstate, result, timer, waiting, bufferRx, t35, serial,
                   open, destroyed>>

\* The device drops the oldest request: a broadcast, a corrupted request
\* or a device that does not answer.
DeviceDrop ==
    /\ toDevice # <<>>
    /\ toDevice' = Tail(toDevice)
    /\ UNCHANGED <<reqs, cstate, result, timer, waiting, bufferRx, t35, serial,
                   open, wire, sent, destroyed>>

----------------------------------------------------------------------------
Next ==
    \/ \E k \in Kinds : Request(k) \/ RequestClosed(k)
    \/ WriteDoneBroadcast \/ WriteDoneUnicast \/ WriteFail
    \/ Timeout
    \/ Receive
    \/ ThreePointFiveT
    \/ Close \/ PortClosed \/ Open \/ Destroy
    \/ DeviceAnswer \/ DeviceDrop

\* The write callback, setTimeout and the 3.5T timer are run by the event
\* loop; nothing obliges the caller, the device or the line.
Fairness ==
    /\ WF_vars(WriteDoneBroadcast \/ WriteDoneUnicast \/ WriteFail)
    /\ WF_vars(Timeout)
    /\ WF_vars(ThreePointFiveT)

Spec == Init /\ [][Next]_vars /\ Fairness

----------------------------------------------------------------------------
(* Properties                                                              *)

Byte == Nat \X Nat

TypeOK ==
    /\ reqs \in Seq(Kinds) /\ Len(reqs) <= MaxReq
    /\ cstate \in {"idle", "writing", "waiting"}
    /\ result \in [1..MaxReq -> [st : Statuses, buf : Seq(Byte)]]
    /\ {timer, waiting, t35, serial, open, destroyed} \subseteq BOOLEAN
    /\ bufferRx \in Seq(Byte)
    /\ toDevice \in Seq(1..MaxReq)
    /\ wire \in Seq(Seq(Byte))
    /\ sent \in Seq([req : 1..MaxReq, kind : Kinds, unit : 0..255, normal : BOOLEAN,
                     fc : 0..255, dlen : 0..252])

\* The refinement mapping: the calls are the requests, a request's status
\* is its outcome (every rejection a failure), and the replies are the
\* frames the device sent.
Outcome(st) ==
    CASE st \in {"none", "pending", "ok", "done"} -> st
      [] OTHER                                  -> "failed"

Call == INSTANCE ModbusCall WITH
    calls   <- reqs,
    outcome <- [i \in 1..MaxReq |-> Outcome(result[i].st)],
    replies <- {[call |-> sent[f].req, normal |-> sent[f].normal] : f \in DOMAIN sent}

\* The RTU client implements ModbusCall: one call at a time, a broadcast
\* done without answer, a unicast call resolved only with a normal answer
\* to a request of its kind, and every call settled.
ImplementsModbusCall == Call!Spec

\* The framer is in response-wait mode exactly while the client has a
\* request waiting with its timeout armed, and the 3.5T timer never runs
\* during a wait: a settled request (timeout or callback) leaves no wait
\* behind for the next request's bytes, and startWaitingResponse cancels a
\* 3.5T timer that would otherwise clear the buffer mid-response.
WaitMatchesClient ==
    /\ waiting <=> cstate = "waiting"
    /\ timer <=> cstate = "waiting"
    /\ waiting => ~t35

\* A request the client resolves successfully is resolved with one whole
\* normal answer that the device sent to a request with the same unit,
\* function code and argument: the pre-checks of writeFC3Or4 and
\* writeSingleRegister never let an exception, a frame for another
\* request kind or a mix of two frames through.
ResolvedWithEquivalentAnswer ==
    \A i \in 1..MaxReq :
        result[i].st = "ok" =>
            LET b == result[i].buf IN
            /\ CrcPassed(b)
            /\ sent[b[1][1]].normal
            /\ sent[b[1][1]].kind = reqs[i]

\* A request the client fails (invalid, CRC, timeout) never held, when it
\* failed, exactly the one whole normal answer the device sent to it: the
\* pre-checks, the length comparison and the CRC accept a complete own
\* answer, and the timeout cannot win against an answer already framed.
WholeAnswerAccepted ==
    \A i \in 1..MaxReq :
        result[i].st \in {"timeout", "invalid", "crc", "insufficient"} =>
            LET b == result[i].buf IN
            ~ /\ CrcPassed(b)
              /\ sent[b[1][1]].req = i
              /\ sent[b[1][1]].normal

\* Every request the client issues settles (resolves or rejects): the
\* write callback and the timeout always come, however the device and the
\* line behave.
EverySettles ==
    \A i \in 1..MaxReq : result[i].st = "pending" ~> result[i].st # "pending"

\* Spec scenario 6 and section 4.2: a burst that carries only the first
\* part of the correct answer is "Insufficient data length", which the RTU
\* framer recovers from; it never fails the request as "Invalid response".
PartialAnswerNotRejected ==
    \A i \in 1..MaxReq :
        result[i].st = "invalid" =>
            LET b == result[i].buf IN
            ~ /\ \A o \in 1..Len(b) : b[o] = <<b[1][1], o>>
              /\ Len(b) < FrameLen(b[1][1])
              /\ sent[b[1][1]].req = i
              /\ sent[b[1][1]].normal
=============================================================================
