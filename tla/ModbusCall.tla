----------------------------- MODULE ModbusCall -----------------------------
(***************************************************************************)
(* What a MODBUS client promises its caller (spec sections 3, 4.4 and 5), *)
(* whatever the transport: one call at a time; a broadcast settles as      *)
(* done without an answer; a unicast call resolves only with a normal      *)
(* answer the server gave to a request of the same unit, function code and *)
(* argument, and otherwise fails; every call settles.                     *)
(*                                                                         *)
(* "Of the same kind" rather than "to this call": the client's pre-checks  *)
(* compare unit, function code, length and echo, never an identity.       *)
(***************************************************************************)
EXTENDS Naturals, Sequences

CONSTANTS
    Kinds,      \* requests a caller may issue: [unit, fc, arg]
    MaxReq      \* number of calls

VARIABLES
    calls,      \* calls[i]: the kind of call i
    outcome,    \* outcome[i]: "none" | "pending" | "ok" | "done" | "failed"
    replies     \* answers the server has sent: [call, normal]

avars == << calls, outcome, replies >>

Current == Len(calls)

Init ==
    /\ calls = << >>
    /\ outcome = [i \in 1..MaxReq |-> "none"]
    /\ replies = {}

\* A call is issued when no other is pending; a closed transport fails it
\* at once.
Issue(k) ==
    /\ Current < MaxReq
    /\ \A i \in 1..MaxReq : outcome[i] # "pending"
    /\ calls' = Append(calls, k)
    /\ \E o \in {"pending", "failed"} : outcome' = [outcome EXCEPT ![Current + 1] = o]
    /\ UNCHANGED replies

\* The server answers a unicast call it received, once, normally or with
\* an exception.
Answer(i) ==
    /\ i \in 1..Current
    /\ calls[i].unit # 0
    /\ \A r \in replies : r.call # i
    /\ \E normal \in BOOLEAN : replies' = replies \cup {[call |-> i, normal |-> normal]}
    /\ UNCHANGED << calls, outcome >>

\* The last call issued is waiting for its outcome.
Pending == Current > 0 /\ outcome[Current] = "pending"

Settle(o) ==
    /\ outcome' = [outcome EXCEPT ![Current] = o]
    /\ UNCHANGED << calls, replies >>

\* A broadcast is done once written.
Done == Pending /\ calls[Current].unit = 0 /\ Settle("done")

\* A unicast call resolves with a normal answer to a call of its kind.
Resolve ==
    /\ Pending
    /\ calls[Current].unit # 0
    /\ \E r \in replies : r.normal /\ calls[r.call] = calls[Current]
    /\ Settle("ok")

\* Any pending call may fail: write error, timeout, invalid answer.
Fail == Pending /\ Settle("failed")

Next ==
    \/ \E k \in Kinds : Issue(k)
    \/ \E i \in 1..MaxReq : Answer(i)
    \/ Done \/ Resolve \/ Fail

\* A pending call does not stay pending: its write callback or its timeout
\* comes.
Spec == Init /\ [][Next]_avars /\ WF_avars(Done \/ Resolve \/ Fail)
=============================================================================
