----------------------------- MODULE MasterTcp -----------------------------
(***************************************************************************)
(* The MODBUS client (ModbusMaster, unnamed/part_001) over the MBAP        *)
(* application layer (TcpApplicationLayer, tcp-application-layer.ts) and a *)
(* TCP connection (TcpClientPhysicalLayer, unnamed/part_002) to a server.  *)
(*                                                                         *)
(* The caller awaits each request.  encode stamps the request with the    *)
(* layer's transaction counter and advances it; waitResponse writes the    *)
(* bytes and, in the write callback, arms the timeout and starts the       *)
(* response wait.  The layer keeps no buffer: every data event the socket  *)
(* emits is framed on its own and, while a wait is pending, whatever the   *)
(* framing yields (a frame or an error) goes to the wait's callback.       *)
(*                                                                         *)
(* Data abstraction.  The server writes its answers to one ordered byte    *)
(* stream; a byte is <<f, o>>, byte o of frame f of `sent`.  TCP may cut   *)
(* that stream into data events anywhere (when Segmenting).  An event      *)
(* passes the MBAP header check exactly when it is one whole frame: a      *)
(* piece of a frame, a frame's tail, or two frames never happen to carry a *)
(* protocol id of 0 and a matching length field.                           *)
(***************************************************************************)
EXTENDS Integers, Sequences, FiniteSets

CONSTANTS
    Kinds,      \* requests the caller may issue: [unit, fc, arg]
    MaxReq,     \* number of requests the caller issues
    TidInit,    \* values _transactionId may hold when the model starts
    Segmenting, \* TCP may split and coalesce the server's frames
    Cuts        \* data event sizes (in bytes) TCP may cut off the stream

ASSUME MaxReq \in Nat /\ TidInit \subseteq 1..255 /\ Cuts \subseteq Nat \ {0}
ASSUME Segmenting \in BOOLEAN /\ \A k \in Kinds : k.fc \in {3, 6}

VARIABLES
    reqs,           \* requests issued so far: [kind, tid]
    cstate,         \* "idle" | "writing" | "waiting": the caller's current call
    result,         \* result[i]: [st, frame] request i settled with
    timer,          \* ModbusMaster.waitResponse: the timeout `tid` is armed
    waiting,        \* TcpApplicationLayer._waitingResponse is set
    transactionId,  \* TcpApplicationLayer._transactionId
    open,           \* TcpClientPhysicalLayer._isOpen
    toServer,       \* requests on the connection to the server
    stream,         \* bytes the server has written and the client not yet read
    sent,           \* every frame the server has sent
    destroyed       \* ModbusMaster.destroy() has run

vars == <<reqs, cstate, result, timer, waiting, transactionId, open, toServer,
          stream, sent, destroyed>>

Statuses == {"none", "pending", "ok", "done", "timeout", "invalid",
             "invalidData", "insufficient", "writeError"}

----------------------------------------------------------------------------
(* Frames and data events                                                  *)

\* encode: the counter after a request is stamped, (id + 1) % 256 || 1.
NextTidNoSkip(id) == (id + 1) % 256

NextTid(id) == IF (id + 1) % 256 = 0 THEN 1 ELSE (id + 1) % 256

\* The request's data bytes: address and value (FC6) or quantity (FC3).
TxData(k) == [d \in 1..4 |-> <<"tx", k.fc, k.arg, d>>]

\* frame.data of a server frame: exception code, byte count and register
\* bytes (FC3), or the echoed request (FC6).
Data(F) ==
    CASE ~F.normal   -> << <<"n", 2>> >>
      [] F.kind.fc = 3 -> << <<"n", 2 * F.kind.arg>> >>
                          \o [j \in 1..2 * F.kind.arg |-> <<"reg", j>>]
      [] OTHER       -> TxData(F.kind)

\* MBAP header (7 bytes) and function code, then the data.
FrameLen(F) == 8 + Len(Data(F))

\* The number of bytes left of the frame the stream starts with.
FirstFrameRest == FrameLen(sent[stream[1][1]]) - stream[1][2] + 1

\* The sizes of the next data event: the rest of the first frame, or
\* anywhere TCP cuts the stream.
EventSizes ==
    {FirstFrameRest} \cup
        IF Segmenting THEN {c \in Cuts : c < Len(stream)} \cup {Len(stream)} ELSE {}

\* buffer[2], buffer[3] = 0 and readUInt16BE(4) = buffer.length - 6.
HeaderOk(b) ==
    /\ b[1][2] = 1
    /\ Len(b) = FrameLen(sent[b[1][1]])
    /\ \A o \in 1..Len(b) : b[o] = <<b[1][1], o>>

----------------------------------------------------------------------------
(* The pre-checks of the client and the MBAP framer's reading of them     *)

Bool(x) == [t |-> "boolean", v |-> x]
Num(x)  == [t |-> "number", v |-> x]

\* Mutant: the write pre-check list without the echo comparison.
PreChecksNoEcho(k, F) ==
    LET match == F.unit = k.unit /\ F.fc = k.fc
    IN IF k.fc = 3
       THEN << Bool(match), Num(1 + 2 * k.arg), Bool(Data(F)[1] = <<"n", 2 * k.arg>>) >>
       ELSE << Bool(match), Num(4) >>

\* The pre-check list of writeFC3Or4 and writeSingleRegister, evaluated on
\* the decoded frame F.
PreChecks(k, F) ==
    LET match == F.unit = k.unit /\ F.fc = k.fc
    IN IF k.fc = 3
       THEN << Bool(match), Num(1 + 2 * k.arg), Bool(Data(F)[1] = <<"n", 2 * k.arg>>) >>
       ELSE << Bool(match), Num(4),
               Bool(\A d \in DOMAIN Data(F) : Data(F)[d] = TxData(k)[d]) >>

\* The verdict of one pre-check result for a frame with dlen data bytes.
CheckVerdict(res, dlen) ==
    CASE res.t = "boolean"                -> IF res.v THEN "pass" ELSE "invalid"
      [] res.t = "number" /\ res.v < dlen  -> "insufficient"
      [] res.t = "number" /\ res.v # dlen  -> "invalid"
      [] res.t = "number"                 -> IF res.v = 0 THEN "invalid" ELSE "pass"
      [] OTHER                            -> "insufficient"

\* TcpApplicationLayer.framing(buffer, callback) while a wait for kind k
\* is pending: the error it passes to the callback, or "ok".
Framing(b, k) ==
    IF Len(b) < 8 THEN "insufficient"
    ELSE IF ~HeaderOk(b) THEN "invalidData"
    ELSE LET F        == sent[b[1][1]]
             checks   == PreChecks(k, F)
             verdicts == [j \in DOMAIN checks |-> CheckVerdict(checks[j], Len(Data(F)))]
             failed   == {j \in DOMAIN checks : verdicts[j] # "pass"}
         IN IF failed = {} THEN "ok"
            ELSE verdicts[CHOOSE j \in failed : \A j2 \in failed : j <= j2]

Current == Len(reqs)

\* TcpApplicationLayer.startWaitingResponse / stopWaitingResponse: set and
\* clear _waitingResponse (there is no buffer to reset).
StartWaitingResponse == waiting' = TRUE

StopWaitingResponse == waiting' = FALSE

----------------------------------------------------------------------------
Init ==
    /\ reqs = <<>>
    /\ cstate = "idle"
    /\ result = [i \in 1..MaxReq |-> [st |-> "none", frame |-> 0]]
    /\ timer = FALSE
    /\ waiting = FALSE
    /\ transactionId \in TidInit
    /\ open = TRUE
    /\ toServer = <<>>
    /\ stream = <<>>
    /\ sent = <<>>
    /\ destroyed = FALSE

----------------------------------------------------------------------------
(* The client                                                              *)

\* readHoldingRegisters / writeSingleRegister: encode stamps the request
\* with the counter and advances it, then physicalLayer.write sends the
\* bytes, or rejects with "Port is not open" on a closed connection.
Request(k) ==
    /\ cstate = "idle" /\ Current < MaxReq
    /\ reqs' = Append(reqs, [kind |-> k, tid |-> transactionId])
    /\ transactionId' = NextTid(transactionId)
    /\ IF open
       THEN /\ result' = [result EXCEPT ![Current + 1].st = "pending"]
            /\ cstate' = "writing"
            /\ toServer' = Append(toServer, Current + 1)
       ELSE /\ result' = [result EXCEPT ![Current + 1].st = "writeError"]
            /\ UNCHANGED <<cstate, toServer>>
    /\ UNCHANGED <<timer, waiting, open, stream, sent, destroyed>>

\* Mutant: the write callback resolves without testing for a broadcast.
WriteDoneBroadcastAll ==
    /\ cstate = "writing"
    /\ result' = [result EXCEPT ![Current].st = "done"]
    /\ cstate' = "idle"
    /\ UNCHANGED <<reqs, timer, waiting, transactionId, open, toServer, stream, sent, destroyed>>

\* The write callback reports success for a broadcast: resolve at once.
WriteDoneBroadcast ==
    /\ cstate = "writing" /\ reqs[Current].kind.unit = 0
    /\ result' = [result EXCEPT ![Current].st = "done"]
    /\ cstate' = "idle"
    /\ UNCHANGED <<reqs, timer, waiting, transactionId, open, toServer, stream, sent, destroyed>>

\* The write callback reports success for a unicast: arm the timeout and
\* startWaitingResponse.
WriteDoneUnicast ==
    /\ cstate = "writing" /\ reqs[Current].kind.unit # 0
    /\ timer' = TRUE
    /\ StartWaitingResponse
    /\ cstate' = "waiting"
    /\ UNCHANGED <<reqs, result, transactionId, open, toServer, stream, sent, destroyed>>

\* Mutant: the write error is swallowed and the call never settles.
WriteFailSwallowed ==
    /\ cstate = "writing"
    /\ cstate' = "idle"
    /\ open' = FALSE
    /\ toServer' = <<>>
    /\ stream' = <<>>
    /\ UNCHANGED <<reqs, result, timer, waiting, transactionId, sent, destroyed>>

\* The socket's write callback reports an error: reject.  node destroys a
\* socket whose write fails, and its 'close' listener clears _isOpen: the
\* request is not delivered and nothing more is read from the connection.
WriteFail ==
    /\ cstate = "writing"
    /\ result' = [result EXCEPT ![Current].st = "writeError"]
    /\ cstate' = "idle"
    /\ open' = FALSE
    /\ toServer' = <<>>
    /\ stream' = <<>>
    /\ UNCHANGED <<reqs, timer, waiting, transactionId, sent, destroyed>>

\* Mutant: the timeout rejects without stopWaitingResponse.
TimeoutKeepsWait ==
    /\ timer
    /\ timer' = FALSE
    /\ result' = [result EXCEPT ![Current].st = "timeout"]
    /\ cstate' = "idle"
    /\ UNCHANGED <<reqs, waiting, transactionId, open, toServer, stream, sent, destroyed>>

\* The timeout fires: stopWaitingResponse and reject with "Timeout".
Timeout ==
    /\ timer
    /\ timer' = FALSE
    /\ StopWaitingResponse
    /\ result' = [result EXCEPT ![Current].st = "timeout"]
    /\ cstate' = "idle"
    /\ UNCHANGED <<reqs, transactionId, open, toServer, stream, sent, destroyed>>

----------------------------------------------------------------------------
(* The MBAP application layer and the connection                           *)

\* The socket emits the next data event; handleData frames it.  While a
\* wait is pending, any outcome, error or frame, goes to the client's
\* callback (clearTimeout, stopWaitingResponse, settle).  Otherwise a
\* frame is emitted as 'framing', which the client does not listen to.
Receive ==
    /\ open /\ stream # <<>>
    /\ \E n \in EventSizes :
         LET b == SubSeq(stream, 1, n) IN
         /\ stream' = SubSeq(stream, n + 1, Len(stream))
         /\ IF waiting
            THEN /\ result' = [result EXCEPT ![Current] =
                                  [st |-> Framing(b, reqs[Current].kind),
                                   frame |-> b[1][1]]]
                 /\ cstate' = "idle"
                 /\ timer' = FALSE
                 /\ StopWaitingResponse
            ELSE UNCHANGED <<result, cstate, timer, waiting>>
    /\ UNCHANGED <<reqs, transactionId, open, toServer, sent, destroyed>>

\* The connection closes (close() or the socket's 'close' event): isOpen
\* is cleared and the listeners removed; bytes in flight either way are
\* lost.  A pending request keeps waiting for its timeout.
Close ==
    /\ open
    /\ open' = FALSE
    /\ toServer' = <<>>
    /\ stream' = <<>>
    /\ UNCHANGED <<reqs, cstate, result, timer, waiting, transactionId, sent, destroyed>>

\* ModbusMaster.destroy(): the application layer removes its 'data'
\* listener, then the physical layer is marked destroyed and closed as by
\* close().  The client's timeout is not cleared: a pending request still
\* rejects with "Timeout".
Destroy ==
    /\ ~destroyed
    /\ destroyed' = TRUE
    /\ open' = FALSE
    /\ toServer' = <<>>
    /\ stream' = <<>>
    /\ UNCHANGED <<reqs, cstate, result, timer, waiting, transactionId, sent>>

\* The caller reconnects: open() connects and registers the listeners; on
\* a destroyed port it rejects with "Port is destroyed".
Open ==
    /\ ~open /\ ~destroyed
    /\ open' = TRUE
    /\ UNCHANGED <<reqs, cstate, result, timer, waiting, transactionId, toServer,
                   stream, sent, destroyed>>

----------------------------------------------------------------------------
(* The server                                                              *)

\* The server answers the oldest request it has not handled with the
\* normal answer or an exception, echoing the transaction id.
ServerAnswer ==
    /\ toServer # <<>>
    /\ LET r == Head(toServer)
           k == reqs[r].kind
       IN /\ k.unit # 0
          /\ \E normal \in BOOLEAN :
               LET F == [req |-> r, kind |-> k, tid |-> reqs[r].tid, unit |-> k.unit,
                         normal |-> normal, fc |-> IF normal THEN k.fc ELSE k.fc + 128]
                   f == Len(sent) + 1
               IN /\ sent' = Append(sent, F)
                  /\ stream' = stream \o [o \in 1..FrameLen(F) |-> <<f, o>>]
    /\ toServer' = Tail(toServer)
    /\ UNCHANGED <<reqs, cstate, result, timer, waiting, transactionId, open, destroyed>>

\* The server handles the oldest request without answering: a broadcast,
\* or a server that does not answer.
ServerDrop ==
    /\ toServer # <<>>
    /\ toServer' = Tail(toServer)
    /\ UNCHANGED <<reqs, cstate, result, timer, waiting, transactionId, open,
                   stream, sent, destroyed>>

----------------------------------------------------------------------------
Next ==
    \/ \E k \in Kinds : Request(k)
    \/ WriteDoneBroadcast \/ WriteDoneUnicast \/ WriteFail
    \/ Timeout
    \/ Receive
    \/ Close \/ Open \/ Destroy
    \/ ServerAnswer \/ ServerDrop

\* The write callback and setTimeout are run by the event loop; nothing
\* obliges the caller, the server or the connection.
Fairness ==
    /\ WF_vars(WriteDoneBroadcast \/ WriteDoneUnicast \/ WriteFail)
    /\ WF_vars(Timeout)

Spec == Init /\ [][Next]_vars /\ Fairness

----------------------------------------------------------------------------
(* Properties                                                              *)

Byte == Nat \X Nat

TypeOK ==
    /\ reqs \in Seq([kind : Kinds, tid : 1..255]) /\ Len(reqs) <= MaxReq
    /\ cstate \in {"idle", "writing", "waiting"}
    /\ result \in [1..MaxReq -> [st : Statuses, frame : Nat]]
    /\ {timer, waiting, open, destroyed} \subseteq BOOLEAN
    /\ transactionId \in 1..255
    /\ toServer \in Seq(1..MaxReq)
    /\ stream \in Seq(Byte)
    /\ sent \in Seq([req : 1..MaxReq, kind : Kinds, tid : 1..255, unit : 0..255,
                     normal : BOOLEAN, fc : 0..255])

\* The layer is in response-wait mode exactly while the client has a
\* request waiting with its timeout armed: after the timeout or the
\* callback settles a request, no wait is left over to hand the next data
\* event to a settled promise.
WaitMatchesClient ==
    /\ waiting <=> cstate = "waiting"
    /\ timer <=> cstate = "waiting"

\* A request the client resolves successfully is resolved with a normal
\* answer the server sent to a request of the same unit, function code and
\* argument: the pre-checks of writeFC3Or4 and writeSingleRegister never
\* let an exception or the answer to a different request kind through,
\* however TCP cuts the stream and however late an answer comes.
ResolvedWithEquivalentAnswer ==
    \A i \in 1..MaxReq :
        result[i].st = "ok" =>
            /\ sent[result[i].frame].normal
            /\ sent[result[i].frame].kind = reqs[i].kind

\* Every request the client issues settles: the write callback and the
\* timeout always come, however the server and the connection behave.
EverySettles ==
    \A i \in 1..MaxReq : result[i].st = "pending" ~> result[i].st # "pending"

\* The refinement mapping: the calls are the requests' kinds, a request's
\* status is its outcome (every rejection a failure), and the replies are
\* the frames the server sent.
Outcome(st) ==
    CASE st \in {"none", "pending", "ok", "done"} -> st
      [] OTHER                                  -> "failed"

Call == INSTANCE ModbusCall WITH
    calls   <- [i \in 1..Len(reqs) |-> reqs[i].kind],
    outcome <- [i \in 1..MaxReq |-> Outcome(result[i].st)],
    replies <- {[call |-> sent[f].req, normal |-> sent[f].normal] : f \in DOMAIN sent}

\* The TCP client implements ModbusCall: one call at a time, a broadcast
\* done without answer, a unicast call resolved only with a normal answer
\* to a request of its kind, and every call settled.
ImplementsModbusCall == Call!Spec

\* Spec sections 2 and 3: the client correlates responses, and the server
\* echoes the request's transaction id; a request resolves only with the
\* answer that carries its own transaction id.
ResolvedWithOwnTransaction ==
    \A i \in 1..MaxReq :
        result[i].st = "ok" => sent[result[i].frame].tid = reqs[i].tid
=============================================================================
