--------------------------- MODULE OperatorQueries ---------------------------
(***************************************************************************)
(* Every input of the library's pure operators over small domains, one     *)
(* input per state: a query a handler puts to checkRange (the points, an   *)
(* address or address and end of a block, and the model's configured       *)
(* range), or a Read Device Identification request to ModbusSlave         *)
(* (read code, object id and the map the model's callback returns), or a  *)
(* Mask Write Register request served by the read-and-write fallback     *)
(* (the register's value, the and-mask and the or-mask).  A step replaces *)
(* one part of the input, as the next request does.                       *)
(***************************************************************************)
EXTENDS Integers, Sequences, FiniteSets, AddressRange, DeviceIdentification, MaskWrite

CONSTANTS
    MaxAddr,    \* addresses are 0..MaxAddr
    MaxList,    \* longest list of intervals
    Codes,      \* read device id codes requested
    ObjectIds,  \* object ids requested
    Idents,     \* maps the model's readDeviceIdentification returns
    Words       \* 16-bit register values and masks

Addr == 0..MaxAddr

Intervals == Addr \X Addr

\* The address sets the handlers pass: one address, or [address, end].
PointSets == {p \in SUBSET Addr : Cardinality(p) \in {1, 2}}

Ranges ==
    {Undefined}
    \cup {Single(i[1], i[2]) : i \in Intervals}
    \cup {List(rs) : rs \in UNION {[1..n -> Intervals] : n \in 0..MaxList}}

RangeInputs == [op : {"checkRange"}, points : PointSets, range : Ranges]

Fc43Inputs == [op : {"fc43"}, code : Codes, oid : ObjectIds, ident : Idents]

\* readUInt16BE of the request's and-mask and or-mask, and the value the
\* model's readHoldingRegisters returns.
Fc22Inputs == [op : {"fc22"}, v : Words, and : Words, or : Words]

VARIABLE q

Init == q \in RangeInputs \cup Fc43Inputs \cup Fc22Inputs

\* A request arrives with other addresses.
NewPoints == q.op = "checkRange" /\ \E p \in PointSets : q' = [q EXCEPT !.points = p]

\* getAddressRange, called per request, returns another configuration.
NewRange == q.op = "checkRange" /\ \E r \in Ranges : q' = [q EXCEPT !.range = r]

\* A readDeviceIdentification request with another code and object id.
NewRequest ==
    q.op = "fc43" /\ \E c \in Codes, o \in ObjectIds : q' = [q EXCEPT !.code = c, !.oid = o]

\* The model's callback, called per request, returns another map.
NewIdent == q.op = "fc43" /\ \E i \in Idents : q' = [q EXCEPT !.ident = i]

\* Another FC22 request: new masks.
NewMasks == q.op = "fc22" /\ \E a, o \in Words : q' = [q EXCEPT !.and = a, !.or = o]

\* The register holds another value when the fallback reads it.
NewValue == q.op = "fc22" /\ \E v \in Words : q' = [q EXCEPT !.v = v]

Next == NewPoints \/ NewRange \/ NewRequest \/ NewIdent \/ NewMasks \/ NewValue

Spec == Init /\ [][Next]_q

----------------------------------------------------------------------------
(* Properties                                                              *)

\* On every configuration the specification calls valid, checkRange
\* accepts exactly the point lists whose points all lie in the permitted
\* range.  This is about checkRange alone: which points a handler passes
\* to it ([address, address + length] for the block handlers, one past
\* the last register) is a separate question.
AgreesWithSpec ==
    q.op = "checkRange" /\ WellFormed(q.range) =>
        (CheckRange(q.points, q.range) <=> SpecInRange(q.points, q.range))

\* handleFC43_14 answers a Read Device Identification request as spec
\* section 4.5 describes it: the same exception, or the same object ids
\* packed under the 253-byte budget, the same "more follows" and next
\* object id, the same conformity level and count.
Fc43AnswerPerSpec ==
    q.op = "fc43" =>
        HandleFC43_14(<< 14, q.code, q.oid >>, TRUE, q.ident) = SpecAnswer(q.code, q.oid, q.ident)

\* Spec section 4.4: readDeviceIdentification accepts the answer this
\* library's server sends (its object-list pre-check returns the data
\* length) and reads back every object the server packed, with its value.
Fc43ReadBack ==
    q.op = "fc43" =>
        LET a == HandleFC43_14(<< 14, q.code, q.oid >>, TRUE, q.ident) IN
        a.kind = "normal" =>
            /\ ObjectsCheck(a.data, q.code) = Num(Len(a.data))
            /\ ReadObjects(a.data) =
                 [i \in DOMAIN a.ids |-> [id |-> a.ids[i], bytes |-> Objects(q.ident)[a.ids[i]].bytes]]
\* Spec section 9: handleFC22's fallback (no maskWriteRegister) writes
\* the value of the MODBUS formula in its low byte, and differs from it
\* exactly when the or-mask sets a bit of the high byte that the and-mask
\* clears: those bits are dropped by ~andMask & 0xff.
MaskFallbackDiffersOnlyInHighByte ==
    q.op = "fc22" =>
        LET code == MaskFallback(q.v, q.and, q.or)
            spec == SpecMask(q.v, q.and, q.or)
        IN /\ code % 256 = spec % 256
           /\ (code = spec) <=> (q.or & (65535 ^^ q.and)) < 256
=============================================================================
