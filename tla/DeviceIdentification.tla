------------------------- MODULE DeviceIdentification -------------------------
(***************************************************************************)
(* FC43/14, Read Device Identification, on both sides of the wire:         *)
(* ModbusSlave.handleFC43_14 (unnamed/part_000) builds the answer from the *)
(* model's identification map, and ModbusMaster.readDeviceIdentification   *)
(* (unnamed/part_001) walks the answer's object list in a pre-check and    *)
(* again when it resolves.  Operators only; OperatorQueries enumerates     *)
(* their inputs.                                                           *)
(*                                                                         *)
(* A string value is [units, bytes]: value.length (UTF-16 code units) and  *)
(* Buffer.from(value) (its UTF-8 bytes).  The identification map is a      *)
(* function from the integer keys parseInt reads to values; the model's    *)
(* promise resolves (its rejection is responseError, as in Slave).         *)
(***************************************************************************)
EXTENDS Integers, Sequences, FiniteSets, SequencesExt

ILLEGAL_FUNCTION      == 1
ILLEGAL_DATA_ADDRESS  == 2
ILLEGAL_DATA_VALUE    == 3
SERVER_DEVICE_FAILURE == 4

\* n characters 'A' (one UTF-8 byte each)
Ascii(n) == [units |-> n, bytes |-> [i \in 1..n |-> 65]]

\* n characters U+00E9 (two UTF-8 bytes each)
Wide(n) == [units |-> n, bytes |-> FlattenSeq([i \in 1..n |-> << 195, 169 >>])]

NullValue == [units |-> 4, bytes |-> << 110, 117, 108, 108 >>]

----------------------------------------------------------------------------
(* The server: handleFC43_14                                               *)

\* Object ids 0x07..0x7F are reserved.
Reserved(id) == id > 6 /\ id < 128

\* switch (readDeviceIDCode): the object id after clamping (codes 1-3).
ClampedObject(code, oid) ==
    CASE code = 1 -> IF oid > 2 \/ Reserved(oid) THEN 0 ELSE oid
      [] code = 2 -> IF oid >= 128 \/ Reserved(oid) THEN 0 ELSE oid
      [] code = 3 -> IF Reserved(oid) THEN 0 ELSE oid
      [] OTHER    -> oid

\* new Map of ids 0, 1, 2 = 'null', then objects.set(id, value) for every
\* key whose parseInt lies in 0..255.
Objects(ident) ==
    LET ids == {0, 1, 2} \cup {k \in DOMAIN ident : 0 <= k /\ k <= 255}
    IN [id \in ids |-> IF id \in DOMAIN ident THEN ident[id] ELSE NullValue]

\* Map iteration order: 0, 1, 2 first, then the keys in Object.entries
\* order, which lists integer keys ascending.
Ascending(S) ==
    [i \in 1..Cardinality(S) |-> CHOOSE x \in S : Cardinality({y \in S : y < x}) = i - 1]

NoWalk == [ids |-> << >>, total |-> 10, last |-> 0, conf |-> 129, stop |-> FALSE, err |-> 0]

\* Mutant: a value that exactly fills the budget is not packed.
FitsStrict(v, total) == v.units + 2 < 253 - total

\* value.length + 2 > 253 - totalLength is false: the value still fits.
Fits(v, total) == v.units + 2 <= 253 - total

\* The for..of loop over the objects: the reserved-id check, the
\* conformity level, the skip below the requested id, the 245 limit, the
\* budget of 253 - totalLength that sets lastID, and the break after one
\* object for individual access.
Walk(objs, code, oid) ==
    LET Step(a, id) ==
          IF a.stop \/ a.err # 0 THEN a
          ELSE IF id < 0 \/ Reserved(id) \/ id > 255 THEN [a EXCEPT !.err = SERVER_DEVICE_FAILURE]
          ELSE LET b == [a EXCEPT !.conf = CASE id > 128 -> 131 [] id > 2 -> 130 [] OTHER -> @]
                   v == objs[id]
               IN CASE oid > id                         -> b
                    [] v.units > 245                    -> [b EXCEPT !.err = SERVER_DEVICE_FAILURE]
                    [] b.last # 0                       -> b
                    [] ~Fits(v, b.total)                -> [b EXCEPT !.last = id]
                    [] OTHER -> [b EXCEPT !.total = @ + v.units + 2, !.ids = Append(@, id),
                                          !.stop = (code = 4)]
    IN FoldLeft(Step, NoWalk, Ascending(DOMAIN objs))

\* The data of the answer: sub-function, code, conformity level, more
\* follows, next object id, count, then (id, value.length, bytes) for the
\* sorted ids.
AnswerData(code, w, objs) ==
    LET ids == SortSeq(w.ids, <) IN
    << 14, code, w.conf, IF w.last = 0 THEN 0 ELSE 255, w.last, Len(ids) >>
    \o FlattenSeq([i \in DOMAIN ids |-> << ids[i], objs[ids[i]].units >> \o objs[ids[i]].bytes])

Exception(c) == [kind |-> "exception", code |-> c]

\* handleFC43_14(model, frame, response) for request data `data`, a model
\* with or without readDeviceIdentification (hasCb), whose promise
\* resolves with ident.  A request that is not three bytes long gets no
\* response at all.
HandleFC43_14(data, hasCb, ident) ==
    IF Len(data) # 3 THEN [kind |-> "none"]
    ELSE IF data[1] # 14 \/ ~hasCb THEN Exception(ILLEGAL_FUNCTION)
    ELSE LET code == data[2] IN
         IF code \notin 1..4 THEN Exception(ILLEGAL_DATA_VALUE)
         ELSE IF code = 4 /\ Reserved(data[3]) THEN Exception(ILLEGAL_DATA_ADDRESS)
         ELSE LET objs == Objects(ident)
                  oid0 == ClampedObject(code, data[3])
              IN IF oid0 \notin DOMAIN objs /\ code = 4 THEN Exception(ILLEGAL_DATA_ADDRESS)
                 ELSE LET w == Walk(objs, code, IF oid0 \in DOMAIN objs THEN oid0 ELSE 0)
                      IN IF w.err # 0 THEN Exception(w.err)
                         ELSE [kind |-> "normal", data |-> AnswerData(code, w, objs),
                               ids |-> SortSeq(w.ids, <)]

----------------------------------------------------------------------------
(* The client: readDeviceIdentification                                    *)

Bool(x)   == [t |-> "boolean", v |-> x]
Num(x)    == [t |-> "number", v |-> x]
UndefinedResult == [t |-> "undefined"]

\* One byte of the object-list walk: `object` grows to [id, length,
\* [bytes]]; the first value byte opens the byte list without testing the
\* length, every later one is pushed and then compared with it.
WalkStep(s, v) ==
    CASE s.n = 0 -> [s EXCEPT !.n = 1, !.id = v]
      [] s.n = 1 -> [s EXCEPT !.n = 2, !.len = v]
      [] s.n = 2 -> [s EXCEPT !.n = 3, !.vals = << v >>]
      [] OTHER   -> IF s.len = Len(s.vals) + 1
                    THEN [s EXCEPT !.n = 0, !.vals = << >>,
                                   !.out = Append(@, [id |-> s.id, bytes |-> Append(s.vals, v)])]
                    ELSE [s EXCEPT !.vals = Append(@, v)]

\* The objects the walk completes over the bytes from data[6] on.
WalkObjects(bs) ==
    FoldLeft(WalkStep, [n |-> 0, id |-> 0, len |-> 0, vals |-> << >>, out |-> << >>], bs).out

\* The second pre-check: undefined below six bytes, false on another
\* sub-function or code, otherwise 6 plus the objects' sizes once as many
\* objects as data[5] announces are complete, and undefined before.
ObjectsCheck(data, code) ==
    IF Len(data) < 6 THEN UndefinedResult
    ELSE IF data[1] # 14 \/ data[2] # code THEN Bool(FALSE)
    ELSE LET objs == WalkObjects(SubSeq(data, 7, Len(data))) IN
         IF Len(objs) = data[6]
         THEN Num(6 + FoldLeft(LAMBDA a, o : a + 2 + Len(o.bytes), 0, objs))
         ELSE UndefinedResult

\* The .then handler: the objects as [id, value], a value being the bytes
\* Buffer.from(bytes).toString() decodes.
ReadObjects(data) == WalkObjects(SubSeq(data, 7, Len(data)))

----------------------------------------------------------------------------
(* Spec section 4.5, FC43/14, steps 1-6                                    *)

\* The answer the specification describes to a request 0x0E, code, oid,
\* from a model whose map is ident, reading "stop" in step 5 as the end of
\* the walk and a value's length as its byte count.
SpecAnswer(code, oid, ident) ==
    LET ids   == {0, 1, 2} \cup {k \in DOMAIN ident : 0 <= k /\ k <= 255}
        Val(k) == IF k \in DOMAIN ident THEN ident[k].bytes ELSE NullValue.bytes
        Size(k) == Len(Val(k)) + 2
        start == CASE code = 1 /\ (oid > 2 \/ Reserved(oid))    -> 0
                   [] code = 2 /\ (oid >= 128 \/ Reserved(oid)) -> 0
                   [] code = 3 /\ Reserved(oid)                 -> 0
                   [] oid \notin ids                              -> 0
                   [] OTHER                                      -> oid
        cand  == {k \in ids : k >= start}
        fit   == {k \in cand : 10 + MapThenSumSet(Size, {j \in cand : j <= k}) <= 253}
        first == IF cand = {} THEN 0 ELSE Min(cand)
        packed == IF code = 4 THEN fit \cap {first} ELSE fit
        walked == IF code = 4 /\ packed # {} THEN {k \in ids : k <= first} ELSE ids
        lastId == IF code = 4 THEN (IF packed = {} THEN first ELSE 0)
                  ELSE IF cand \ packed = {} THEN 0 ELSE Min(cand \ packed)
        conf  == CASE \E k \in walked : k > 128 -> 131
                   [] \E k \in walked : k > 2   -> 130
                   [] OTHER                     -> 129
        order == Ascending(packed)
    IN CASE code \notin 1..4                                  -> Exception(ILLEGAL_DATA_VALUE)
         [] code = 4 /\ (Reserved(oid) \/ oid \notin ids)     -> Exception(ILLEGAL_DATA_ADDRESS)
         [] \E k \in walked \cap cand : Len(Val(k)) > 245       -> Exception(SERVER_DEVICE_FAILURE)
         [] OTHER ->
              [kind |-> "normal",
               data |-> << 14, code, conf, IF lastId = 0 THEN 0 ELSE 255, lastId, Len(order) >>
                        \o FlattenSeq([i \in DOMAIN order |->
                                         << order[i], Len(Val(order[i])) >> \o Val(order[i])]),
               ids  |-> order]
=============================================================================
