------------------------------- MODULE Slave -------------------------------
(***************************************************************************)
(* The MODBUS server (ModbusSlave, unnamed/part_000): the 'framing'       *)
(* listener that filters units, runs each target model's interceptor and  *)
(* function-code handler, and the handlers for FC1-6, 15, 16, 17, 22 and  *)
(* 23 with their grammar, callback, value and address-range checks.       *)
(*                                                                         *)
(* Every model callback is asynchronous: it is called at once (its effect *)
(* on the model's holding registers happens then) and its promise settles *)
(* later, in any order with the others.  A callback may also throw while  *)
(* it is being called.  A dispatch of one frame to one model is a task   *)
(* <<f, u>>: frame number f, model unit u.                               *)
(***************************************************************************)
EXTENDS Integers, Sequences, FiniteSets, Bitwise, SequencesExt, AddressRange, MaskWrite

CONSTANTS
    Units,      \* unit addresses of the models the host has added
    Models,     \* Models[u]: [cbs, icpt, ranges] of the model with unit u
    Requests,   \* frames the transport may deliver
    MaxFrames,  \* number of frames the transport delivers
    Outcomes,   \* how a model callback may end
    Addrs,      \* holding-register addresses the models keep
    HrInit      \* their initial values

ASSUME MaxFrames \in Nat /\ 0 \notin Units
ASSUME Outcomes \subseteq {"ok", "rejectCoded", "rejectPlain", "syncThrow", "nonError"}

VARIABLES
    reg,        \* ModbusSlave.models: the units registered now
    frames,     \* frames delivered so far, in order
    task,       \* task[<<f, u>>]: the dispatch of frame f to model u
    hr,         \* hr[u][a]: model u's holding register a
    out         \* responses written to the transport, in order

vars == <<reg, frames, task, hr, out>>

Tasks == (1..MaxFrames) \X Units

Pcs == {"none", "intercept", "handle", "calls", "done", "dead"}

\* pend: the callbacks not yet settled; failed: the chain has rejected;
\* rv, wv: the FC22 fallback's read and written value; oks: callbacks
\* that succeeded; handled: the dispatch went on to handleFC.
NoTask == [pc |-> "none", phase |-> "main", pend |-> {}, failed |-> FALSE,
           rv |-> 0, wv |-> 0, oks |-> 0, handled |-> FALSE]

----------------------------------------------------------------------------
(* Error codes (error-code.ts) and the range check (checkRange.ts)        *)

ILLEGAL_FUNCTION      == 1
ILLEGAL_DATA_ADDRESS  == 2
ILLEGAL_DATA_VALUE    == 3
SERVER_DEVICE_FAILURE == 4
SERVER_DEVICE_BUSY    == 6

\* getCodeByError: a coded error carries its code, any other Error is
\* SERVER_DEVICE_FAILURE.
CodeOf(oc) == IF oc = "rejectCoded" THEN SERVER_DEVICE_BUSY ELSE SERVER_DEVICE_FAILURE

----------------------------------------------------------------------------
(* The handlers' checks, by function code                                  *)

KnownFc(fc) == fc \in {1, 2, 3, 4, 5, 6, 15, 16, 17, 22, 23}

\* The PDU grammar; a frame that fails it is dropped without a response.
GrammarOk(r) ==
    CASE r.fc \in 1..6        -> r.dlen = 4
      [] r.fc \in {15, 16}    -> r.dlen > 5 /\ r.dlen = 5 + r.bc
      [] r.fc = 17            -> r.dlen = 0
      [] r.fc = 22            -> r.dlen = 6
      [] r.fc = 23            -> r.dlen > 9 /\ r.dlen = 9 + r.bc

\* The model has the callbacks the handler needs.
Implemented(cbs, fc) ==
    CASE fc = 1  -> "readCoils" \in cbs
      [] fc = 2  -> "readDiscreteInputs" \in cbs
      [] fc = 3  -> "readHoldingRegisters" \in cbs
      [] fc = 4  -> "readInputRegisters" \in cbs
      [] fc = 5  -> "writeSingleCoil" \in cbs
      [] fc = 6  -> "writeSingleRegister" \in cbs
      [] fc = 15 -> cbs \cap {"writeMultipleCoils", "writeSingleCoil"} # {}
      [] fc = 16 -> cbs \cap {"writeMultipleRegisters", "writeSingleRegister"} # {}
      [] fc = 17 -> "reportServerId" \in cbs
      [] fc = 22 -> \/ "maskWriteRegister" \in cbs
                    \/ {"readHoldingRegisters", "writeSingleRegister"} \subseteq cbs
      [] fc = 23 -> /\ "readHoldingRegisters" \in cbs
                    /\ cbs \cap {"writeMultipleRegisters", "writeSingleRegister"} # {}

CeilDiv8(n) == (n + 7) \div 8

\* The count and value bounds.
ValueOk(r) ==
    CASE r.fc \in {1, 2} -> 1 <= r.len /\ r.len <= 2000
      [] r.fc \in {3, 4} -> 1 <= r.len /\ r.len <= 125
      [] r.fc = 5        -> r.val \in {0, 65280}
      [] r.fc = 6        -> 0 <= r.val /\ r.val <= 65535
      [] r.fc = 15       -> 1 <= r.len /\ r.len <= 1968 /\ r.bc = CeilDiv8(r.len)
      [] r.fc = 16       -> 1 <= r.len /\ r.len <= 123 /\ r.bc = r.len * 2
      [] r.fc = 23       -> /\ 1 <= r.len /\ r.len <= 125
                            /\ 1 <= r.wlen /\ r.wlen <= 121 /\ r.bc = r.wlen * 2
      [] OTHER           -> TRUE          \* FC17, FC22: no bound

Table(fc) ==
    CASE fc \in {1, 5, 15}         -> "coils"
      [] fc = 2                    -> "discreteInputs"
      [] fc = 4                    -> "inputRegisters"
      [] OTHER                     -> "holdingRegisters"

\* The addresses the handler passes to checkRange.
Points(r) ==
    CASE r.fc \in {1, 2, 3, 4, 15, 16} -> {r.addr, r.addr + r.len}
      [] r.fc \in {5, 6, 22}          -> {r.addr}
      [] r.fc = 23                    -> {r.addr, r.addr + r.len, r.waddr, r.waddr + r.wlen}
      [] OTHER                        -> {}

----------------------------------------------------------------------------
(* Model callbacks and their effect on the holding registers              *)

Op(name, addr, val) == [name |-> name, addr |-> addr, val |-> val]

\* The single or multiple write of vals from addr: the multi-write callback
\* when the model has it, else one single write per element (the fallback).
MultiWrite(cbs, multi, single, addr, vals) ==
    IF multi \in cbs THEN << Op(multi, addr, vals) >>
    ELSE [i \in 1..Len(vals) |-> Op(single, addr + i - 1, vals[i])]

\* The callbacks the handler calls first, in the order it calls them.
FirstOps(r, cbs) ==
    CASE r.fc = 1  -> << Op("readCoils", r.addr, r.len) >>
      [] r.fc = 2  -> << Op("readDiscreteInputs", r.addr, r.len) >>
      [] r.fc = 3  -> << Op("readHoldingRegisters", r.addr, r.len) >>
      [] r.fc = 4  -> << Op("readInputRegisters", r.addr, r.len) >>
      [] r.fc = 5  -> << Op("writeSingleCoil", r.addr, r.val) >>
      [] r.fc = 6  -> << Op("writeSingleRegister", r.addr, r.val) >>
      [] r.fc = 15 -> MultiWrite(cbs, "writeMultipleCoils", "writeSingleCoil", r.addr, r.vals)
      [] r.fc = 16 -> MultiWrite(cbs, "writeMultipleRegisters", "writeSingleRegister", r.addr, r.vals)
      [] r.fc = 17 -> << Op("reportServerId", 0, 0) >>
      [] r.fc = 22 -> IF "maskWriteRegister" \in cbs
                      THEN << Op("maskWriteRegister", r.addr, <<r.and, r.or>>) >>
                      ELSE << Op("readHoldingRegisters", r.addr, 1) >>
      [] r.fc = 23 -> MultiWrite(cbs, "writeMultipleRegisters", "writeSingleRegister", r.waddr, r.vals)

\* What comes after the first callbacks settle: the normal response, the
\* FC22 fallback's write, or FC23's read.
FirstPhase(r, cbs) ==
    CASE r.fc = 22 /\ "maskWriteRegister" \notin cbs -> "read"
      [] r.fc = 23                                  -> "write"
      [] OTHER                                      -> "main"

\* A model callback that completes changes the model's registers.
Effect(m, op) ==
    CASE op.name = "writeSingleRegister" /\ op.addr \in Addrs ->
            [m EXCEPT ![op.addr] = op.val]
      [] op.name = "writeMultipleRegisters" ->
            [a \in Addrs |-> IF a - op.addr \in 0..Len(op.val) - 1
                             THEN op.val[a - op.addr + 1] ELSE m[a]]
      [] op.name = "maskWriteRegister" /\ op.addr \in Addrs ->
            [m EXCEPT ![op.addr] = SpecMask(@, op.val[1], op.val[2])]
      [] OTHER -> m

----------------------------------------------------------------------------
Frame(t) == frames[t[1]]

\* Mutant: the exception function code is built with 0x100.
AnswerWideFc(t, code) ==
    IF Frame(t).unit = 0 THEN out
    ELSE Append(out, [task |-> t, fc |-> IF code = 0 THEN Frame(t).fc ELSE Frame(t).fc | 256,
                      code |-> code])

\* response(data): nothing for a broadcast, else the encoded frame goes to
\* the transport (its write error is swallowed).
Answer(t, code) ==
    IF Frame(t).unit = 0 THEN out
    ELSE Append(out, [task |-> t, fc |-> IF code = 0 THEN Frame(t).fc ELSE Frame(t).fc | 128,
                      code |-> code])

\* Call ops one after the other.  In the handler itself (ctx "sync") a
\* callback that throws ends the handler with the exception escaping: no
\* response.  Inside a .then (ctx "then") the throw rejects the chain and
\* the .catch answers with an exception.  Callbacks called before the throw
\* keep their effect.
Issue(t, tk, ops, ctx, phase, wv) ==
    \E oc \in [1..Len(ops) -> Outcomes] :
        LET u      == t[2]
            thrown == {i \in DOMAIN ops : oc[i] = "syncThrow"}
            k      == IF thrown = {} THEN Len(ops) + 1 ELSE Min(thrown)
            done   == SelectSeq([i \in 1..k - 1 |-> IF oc[i] = "ok" THEN ops[i] ELSE Op("none", 0, 0)],
                                LAMBDA o : o.name # "none")
            rv     == IF ops[1].name = "readHoldingRegisters" /\ ops[1].addr \in Addrs
                      THEN hr[u][ops[1].addr] ELSE 0
        IN /\ hr' = [hr EXCEPT ![u] = FoldLeft(Effect, @, done)]
           /\ IF k <= Len(ops)
              THEN IF ctx = "sync"
                   THEN /\ task' = [task EXCEPT ![t] = [tk EXCEPT !.pc = "dead", !.pend = {}]]
                        /\ out' = out
                   ELSE /\ task' = [task EXCEPT ![t] = [tk EXCEPT !.pc = "done", !.pend = {}]]
                        /\ out' = Answer(t, SERVER_DEVICE_FAILURE)
              ELSE /\ task' = [task EXCEPT ![t] =
                                   [tk EXCEPT !.pc = "calls", !.phase = phase,
                                              !.pend = {[i |-> i, oc |-> oc[i]] : i \in DOMAIN ops},
                                              !.rv = IF phase = "read" THEN rv ELSE @,
                                              !.wv = wv]]
                   /\ out' = out

----------------------------------------------------------------------------
(* Initial state: the host has added every model                          *)

Init ==
    /\ reg = Units
    /\ frames = <<>>
    /\ task = [t \in Tasks |-> NoTask]
    /\ hr = [u \in Units |-> HrInit]
    /\ out = <<>>

----------------------------------------------------------------------------
(* The 'framing' listener                                                  *)

\* A frame arrives.  A frame for an unregistered unit is ignored; a
\* broadcast goes to every registered model, any other frame to its model.
\* Each model's dispatch awaits its interceptor, if it has one, and then
\* queues handleFC.
Deliver(r) ==
    /\ Len(frames) < MaxFrames
    /\ LET f       == Len(frames) + 1
           targets == IF r.unit = 0 THEN reg ELSE reg \cap {r.unit}
       IN task' = [t \in Tasks |->
                     IF t[1] = f /\ t[2] \in targets
                     THEN [NoTask EXCEPT !.pc = IF Models[t[2]].icpt THEN "intercept" ELSE "handle",
                                         !.handled = ~Models[t[2]].icpt]
                     ELSE task[t]]
    /\ frames' = Append(frames, r)
    /\ UNCHANGED <<reg, hr, out>>

\* Mutant: the interceptor's payload is sent but intercept does not
\* return 'break', so handleFC runs as well.
InterceptNoBreak(t) ==
    /\ task[t].pc = "intercept"
    /\ \E res \in {"payload", "none"} \cup (Outcomes \ {"ok"}) :
         CASE res = "payload"  -> /\ task' = [task EXCEPT ![t].pc = "handle"]
                                  /\ out' = Answer(t, 0)
           [] res = "none"     -> /\ task' = [task EXCEPT ![t].pc = "handle", ![t].handled = TRUE]
                                  /\ out' = out
           [] res = "nonError" -> /\ task' = [task EXCEPT ![t].pc = "dead"]
                                  /\ out' = out
           [] OTHER            -> /\ task' = [task EXCEPT ![t].pc = "done"]
                                  /\ out' = Answer(t, CodeOf(res))
    /\ UNCHANGED <<reg, frames, hr>>

\* The interceptor's promise settles: a payload is sent as the response,
\* undefined falls through to handleFC, an error is answered by
\* responseError.  A rejection that is not an Error makes responseError
\* throw inside the catch: the dispatch ends without a response.
Intercept(t) ==
    /\ task[t].pc = "intercept"
    /\ \E res \in {"payload", "none"} \cup (Outcomes \ {"ok"}) :
         CASE res = "payload"  -> /\ task' = [task EXCEPT ![t].pc = "done"]
                                  /\ out' = Answer(t, 0)
           [] res = "none"     -> /\ task' = [task EXCEPT ![t].pc = "handle", ![t].handled = TRUE]
                                  /\ out' = out
           [] res = "nonError" -> /\ task' = [task EXCEPT ![t].pc = "dead"]
                                  /\ out' = out
           [] OTHER            -> /\ task' = [task EXCEPT ![t].pc = "done"]
                                  /\ out' = Answer(t, CodeOf(res))
    /\ UNCHANGED <<reg, frames, hr>>

\* handleFC and the handler for the frame's function code, up to the
\* first callback: unknown codes and failed checks are answered with an
\* exception, a malformed PDU is dropped silently.
HandleFC(t) ==
    /\ task[t].pc = "handle"
    /\ LET r   == Frame(t)
           cbs == Models[t[2]].cbs
           Refuse(code) == /\ task' = [task EXCEPT ![t].pc = "done"]
                           /\ out' = Answer(t, code)
                           /\ UNCHANGED hr
       IN CASE ~KnownFc(r.fc)                 -> Refuse(ILLEGAL_FUNCTION)
            [] ~GrammarOk(r)                  -> /\ task' = [task EXCEPT ![t].pc = "done"]
                                                 /\ UNCHANGED <<hr, out>>
            [] ~Implemented(cbs, r.fc)        -> Refuse(ILLEGAL_FUNCTION)
            [] ~ValueOk(r)                    -> Refuse(ILLEGAL_DATA_VALUE)
            [] r.fc # 17 /\ ~CheckRange(Points(r), Models[t[2]].ranges[Table(r.fc)])
                                              -> Refuse(ILLEGAL_DATA_ADDRESS)
            [] OTHER                          -> Issue(t, task[t], FirstOps(r, cbs), "sync", FirstPhase(r, cbs), 0)
    /\ UNCHANGED <<reg, frames>>

\* What follows once every outstanding callback of t has succeeded (tk is
\* the task after the last one settled).
Continue(t, tk) ==
    LET r == Frame(t) IN
    CASE tk.phase = "read" ->
            LET wv == MaskFallback(tk.rv, r.and, r.or) IN
            Issue(t, tk, << Op("writeSingleRegister", r.addr, wv) >>, "then", "final", wv)
      [] tk.phase = "write" ->
            Issue(t, tk, << Op("readHoldingRegisters", r.addr, r.len) >>, "then", "final", 0)
      [] OTHER ->
            /\ task' = [task EXCEPT ![t] = [tk EXCEPT !.pc = "done"]]
            /\ out' = Answer(t, 0)
            /\ UNCHANGED hr

\* Mutant: the fallback races its single writes instead of Promise.all:
\* the first success goes on.
SettleRace(t) ==
    /\ task[t].pc = "calls"
    /\ \E c \in task[t].pend :
         LET rest == task[t].pend \ {c} IN
         CASE c.oc = "ok" /\ ~task[t].failed ->
                    Continue(t, [task[t] EXCEPT !.pend = {}, !.oks = @ + 1])
              [] c.oc = "ok" \/ task[t].failed ->
                    /\ task' = [task EXCEPT ![t].pend = rest,
                                            ![t].pc = IF rest = {} THEN "done" ELSE "calls"]
                    /\ UNCHANGED <<hr, out>>
              [] OTHER ->
                    /\ task' = [task EXCEPT ![t].pend = rest, ![t].failed = TRUE,
                                            ![t].pc = IF rest = {} THEN "done" ELSE "calls"]
                    /\ out' = Answer(t, CodeOf(c.oc))
                    /\ UNCHANGED hr
    /\ UNCHANGED <<reg, frames>>

\* Mutant: the handler has no .catch; a rejected callback is never answered.
SettleNoCatch(t) ==
    /\ task[t].pc = "calls"
    /\ \E c \in task[t].pend :
         LET rest == task[t].pend \ {c}
             last == rest = {}
         IN CASE c.oc = "ok" /\ last /\ ~task[t].failed ->
                    Continue(t, [task[t] EXCEPT !.pend = {}, !.oks = @ + 1])
              [] OTHER ->
                    /\ task' = [task EXCEPT ![t].pend = rest,
                                            ![t].failed = @ \/ c.oc # "ok",
                                            ![t].pc = IF last THEN "done" ELSE "calls"]
                    /\ UNCHANGED <<hr, out>>
    /\ UNCHANGED <<reg, frames>>

\* One outstanding callback of t settles (Promise.all over the fallback's
\* single writes): the first rejection is answered by the .catch, later
\* ones are ignored; when the last one succeeds the handler goes on.
Settle(t) ==
    /\ task[t].pc = "calls"
    /\ \E c \in task[t].pend :
         LET rest == task[t].pend \ {c}
             last == rest = {}
         IN CASE c.oc = "ok" /\ last /\ ~task[t].failed ->
                    Continue(t, [task[t] EXCEPT !.pend = {}, !.oks = @ + 1])
              [] c.oc = "ok" \/ task[t].failed ->
                    /\ task' = [task EXCEPT ![t].pend = rest,
                                            ![t].oks = IF c.oc = "ok" THEN @ + 1 ELSE @,
                                            ![t].pc = IF last THEN "done" ELSE "calls"]
                    /\ UNCHANGED <<hr, out>>
              [] c.oc = "nonError" ->
                    /\ task' = [task EXCEPT ![t].pend = rest, ![t].failed = TRUE,
                                            ![t].pc = IF last THEN "dead" ELSE "calls"]
                    /\ UNCHANGED <<hr, out>>
              [] OTHER ->
                    /\ task' = [task EXCEPT ![t].pend = rest, ![t].failed = TRUE,
                                            ![t].pc = IF last THEN "done" ELSE "calls"]
                    /\ out' = Answer(t, CodeOf(c.oc))
                    /\ UNCHANGED hr
    /\ UNCHANGED <<reg, frames>>

\* The host adds or removes a model (ModbusSlave.add, remove).
AddModel(u) ==
    /\ u \notin reg
    /\ reg' = reg \cup {u}
    /\ UNCHANGED <<frames, task, hr, out>>

RemoveModel(u) ==
    /\ u \in reg
    /\ reg' = reg \ {u}
    /\ UNCHANGED <<frames, task, hr, out>>

Next ==
    \/ \E r \in Requests : Deliver(r)
    \/ \E t \in Tasks : Intercept(t) \/ HandleFC(t) \/ Settle(t)
    \/ \E u \in Units : AddModel(u) \/ RemoveModel(u)

\* The event loop keeps running queued continuations, and every model
\* callback's promise settles (the host's callbacks are assumed to end).
\* Each task has finitely many steps, so fairness for their union is
\* enough for every one of them to run.
Fairness ==
    WF_vars(\E t \in Tasks : Intercept(t) \/ HandleFC(t) \/ Settle(t))

Spec == Init /\ [][Next]_vars /\ Fairness

----------------------------------------------------------------------------
(* Properties                                                              *)

Ranges == [kind : {"undefined", "single", "list"}, rs : Seq(Int \X Int)]

TypeOK ==
    /\ reg \subseteq Units
    /\ frames \in Seq(Requests) /\ Len(frames) <= MaxFrames
    /\ \A t \in Tasks :
         /\ task[t].pc \in Pcs
         /\ task[t].phase \in {"main", "read", "write", "final"}
         /\ task[t].pend \subseteq [i : Nat, oc : Outcomes]
         /\ task[t].failed \in BOOLEAN /\ task[t].handled \in BOOLEAN
    /\ hr \in [Units -> [Addrs -> 0..65535]]
    /\ out \in Seq([task : Tasks, fc : 0..255, code : 0..11])

AnsweredBy(t) == {j \in DOMAIN out : out[j].task = t}

\* A unicast frame the server takes on (its unit was registered when it
\* arrived) and that is not a malformed PDU of a known function code.
ExpectsAnswer(t) ==
    /\ task[t].pc # "none"
    /\ Frame(t).unit # 0
    /\ KnownFc(Frame(t).fc) => GrammarOk(Frame(t))

\* Spec sections 4.5 and 7: every such frame is answered, with a normal
\* response or an exception; a model callback's failure is mapped to an
\* exception code and never left unanswered.  Relies on the interceptor,
\* handleFC, the fallbacks' Promise.all and the .catch of every handler.
EveryUnicastAnswered ==
    \A t \in Tasks : ExpectsAnswer(t) ~> AnsweredBy(t) # {}

\* The dispatch of one frame to one model writes at most one response:
\* the interceptor's 'break' skips handleFC, and of the fallback's single
\* writes only the first rejection reaches the .catch.
AtMostOneResponse ==
    \A t \in Tasks : Cardinality(AnsweredBy(t)) <= 1

\* The number of model callbacks a handler calls for r when all succeed.
CallsNeeded(r, cbs) == Len(FirstOps(r, cbs)) + (IF FirstPhase(r, cbs) = "main" THEN 0 ELSE 1)

\* A normal response from a function-code handler is sent only after
\* every model callback it needs has succeeded: the fallback's Promise.all
\* waits for all single writes, FC22 for its read and its write, FC23 for
\* its writes and then its read.
AckAfterAllWrites ==
    \A j \in DOMAIN out :
        LET t == out[j].task IN
        out[j].code = 0 /\ task[t].handled =>
            task[t].oks = CallsNeeded(Frame(t), Models[t[2]].cbs)
====
