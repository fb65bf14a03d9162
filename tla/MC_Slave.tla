------------------------------ MODULE MC_Slave ------------------------------
(* Two models: unit 1 has every callback, an interceptor and a permitted  *)
(* holding-register range [0, 9]; unit 2 has only single-element          *)
(* callbacks, so FC16 and FC22 take their fallbacks.  Unit 3 is not       *)
(* registered.                                                             *)
EXTENDS Slave

NoRanges == [tb \in {"coils", "discreteInputs", "inputRegisters", "holdingRegisters"} |-> Undefined]

MCUnits == {1, 2}

MCModels ==
    [u \in MCUnits |->
        IF u = 1
        THEN [cbs |-> {"readCoils", "readDiscreteInputs", "readHoldingRegisters",
                       "readInputRegisters", "writeSingleCoil", "writeSingleRegister",
                       "writeMultipleCoils", "writeMultipleRegisters", "maskWriteRegister",
                       "reportServerId"},
              icpt |-> TRUE,
              ranges |-> [NoRanges EXCEPT !["holdingRegisters"] = Single(0, 9)]]
        ELSE [cbs |-> {"readCoils", "readHoldingRegisters", "writeSingleCoil",
                       "writeSingleRegister"},
              icpt |-> FALSE,
              ranges |-> NoRanges]]

\* A frame: unit, function code, PDU data length and the decoded fields.
Req(unit, fc, dlen, addr, len, val, bc, vals, and, or, waddr, wlen) ==
    [unit |-> unit, fc |-> fc, dlen |-> dlen, addr |-> addr, len |-> len, val |-> val,
     bc |-> bc, vals |-> vals, and |-> and, or |-> or, waddr |-> waddr, wlen |-> wlen]

Read(unit, fc, addr, len)      == Req(unit, fc, 4, addr, len, 0, 0, <<>>, 0, 0, 0, 0)
WriteOne(unit, fc, addr, val)  == Req(unit, fc, 4, addr, 0, val, 0, <<>>, 0, 0, 0, 0)
WriteRegs(unit, addr, vals)    == Req(unit, 16, 5 + 2 * Len(vals), addr, Len(vals), 0,
                                      2 * Len(vals), vals, 0, 0, 0, 0)
Mask(unit, addr, and, or)      == Req(unit, 22, 6, addr, 0, 0, 0, <<>>, and, or, 0, 0)
ReadWrite(unit, raddr, rlen, waddr, vals) ==
    Req(unit, 23, 9 + 2 * Len(vals), raddr, rlen, 0, 2 * Len(vals), vals, 0, 0, waddr, Len(vals))

\* The frames of the main run: the fallbacks, a broadcast, a refused FC5
\* value, a malformed PDU, an unknown function code, FC17 without
\* reportServerId, FC23 and a frame for an unregistered unit.
MCRequests ==
    { WriteRegs(2, 0, <<5, 6>>),
      WriteRegs(0, 0, <<7, 8>>),
      Mask(2, 0, 240, 15),
      Mask(1, 1, 240, 15),
      ReadWrite(1, 0, 2, 0, <<3>>),
      Read(1, 3, 9, 1),
      WriteOne(2, 5, 0, 1),
      Req(1, 6, 3, 0, 0, 0, 0, <<>>, 0, 0, 0, 0),
      Req(1, 7, 0, 0, 0, 0, 0, <<>>, 0, 0, 0, 0),
      Req(2, 17, 0, 0, 0, 0, 0, <<>>, 0, 0, 0, 0),
      WriteOne(3, 6, 0, 1) }

\* The frames of the throwing-callback run.
MCThrowRequests == { WriteOne(2, 6, 0, 1), WriteRegs(2, 0, <<5, 6>>) }

MCAddrs == {0, 1}
MCHrInit == [a \in MCAddrs |-> 4369]

MCOutcomes == {"ok", "rejectCoded", "rejectPlain"}
MCThrowOutcomes == {"ok", "syncThrow"}
=============================================================================
