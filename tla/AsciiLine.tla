----------------------------- MODULE AsciiLine -----------------------------
(***************************************************************************)
(* The scanner of AsciiApplicationLayer (unnamed/part_004) reading a line  *)
(* on which a peer writes encoded ADUs, some with one character corrupted  *)
(* or lost.  The layer's owner may start and stop a response wait          *)
(* (startWaitingResponse resets the scanner) and the port may close.       *)
(*                                                                         *)
(* handleData runs its loop over a whole data event without yielding, so a *)
(* data event is one step: the fold of ScanStep over its characters.       *)
(* The waiting mode is taken with an empty pre-check list; the pre-check   *)
(* loop is the one of MasterRtu and MasterTcp.                             *)
(***************************************************************************)
EXTENDS Integers, Sequences, FiniteSets, SequencesExt, AsciiCodec

CONSTANTS
    Adus,       \* ADUs the peer may send
    MaxSent,    \* number of ADUs the peer sends
    MaxDamaged, \* number of them that may reach the line damaged
    Noise,      \* characters a corrupted character may become
    AllowWait,  \* the owner starts and stops response waits
    AllowClose  \* the port may close

VARIABLES
    status,     \* AsciiApplicationLayer._status
    frame,      \* AsciiApplicationLayer._frame
    waiting,    \* AsciiApplicationLayer._waitingResponse is set
    line,       \* characters on the line, not yet delivered
    sent,       \* ADUs the peer sent: [adu, intact]
    out,        \* what the layer delivered: [via, err, adu]
    reset       \* history: [sent, out] counts at the last reset or close

vars == <<status, frame, waiting, line, sent, out, reset>>

----------------------------------------------------------------------------
(* handleData                                                              *)

\* The layer's answer to a decoded buffer: the waiting callback gets any
\* outcome (and the owner's callback stops the wait), otherwise only a
\* frame is emitted as 'framing'.
Deliver(s, d) ==
    IF s.waiting
    THEN [s EXCEPT !.out = Append(@, [via |-> "callback", err |-> d.err, adu |-> d.adu]),
                   !.waiting = FALSE]
    ELSE IF d.err = "none"
         THEN [s EXCEPT !.out = Append(@, [via |-> "framing", err |-> d.err, adu |-> d.adu])]
         ELSE s

\* Mutant: a ':' in 'waiting end' is dropped instead of restarting reception.
ScanStepNoRestart(s, c) ==
    CASE s.status = "idle" ->
            IF c = COLON THEN [s EXCEPT !.status = "reception", !.frame = << >>] ELSE s
      [] s.status = "reception" ->
            CASE c = COLON -> [s EXCEPT !.frame = << >>]
              [] c = CR    -> [s EXCEPT !.status = "waitingEnd"]
              [] OTHER     -> [s EXCEPT !.frame = Append(@, c)]
      [] OTHER ->
            IF c = LF THEN Deliver([s EXCEPT !.status = "idle"], Decode(s.frame))
            ELSE [s EXCEPT !.status = "idle"]

\* The switch on _status for one character of a data event.
ScanStep(s, c) ==
    CASE s.status = "idle" ->
            IF c = COLON THEN [s EXCEPT !.status = "reception", !.frame = << >>] ELSE s
      [] s.status = "reception" ->
            CASE c = COLON -> [s EXCEPT !.frame = << >>]
              [] c = CR    -> [s EXCEPT !.status = "waitingEnd"]
              [] OTHER     -> [s EXCEPT !.frame = Append(@, c)]
      [] OTHER ->
            CASE c = COLON -> [s EXCEPT !.status = "reception", !.frame = << >>]
              [] c = LF    -> Deliver([s EXCEPT !.status = "idle"], Decode(s.frame))
              [] OTHER     -> [s EXCEPT !.status = "idle"]

Scan(s, cs) == FoldLeft(ScanStep, s, cs)

\* The ways one encoded ADU reaches the line: intact, with one character
\* replaced by a noise character, or with one character lost.
Variants(cs) ==
    {[chars |-> cs, intact |-> TRUE]}
    \cup {[chars |-> [cs EXCEPT ![p] = n], intact |-> n = cs[p]] :
            p \in DOMAIN cs, n \in Noise}
    \cup {[chars |-> RemoveAt(cs, p), intact |-> FALSE] : p \in DOMAIN cs}

\* The number of ADUs the peer sent intact.
IntactSent == Cardinality({j \in DOMAIN sent : sent[j].intact})

\* The number of frames the layer delivered as decoded.
Delivered == Cardinality({i \in DOMAIN out : out[i].err = "none"})

\* Record a reset: an ADU sent so far may have been cut by it.
MarkReset == reset' = [sent |-> IntactSent, out |-> Delivered]

----------------------------------------------------------------------------
Init ==
    /\ status = "idle"
    /\ frame = << >>
    /\ waiting = FALSE
    /\ line = << >>
    /\ sent = << >>
    /\ out = << >>
    /\ reset = [sent |-> 0, out |-> 0]

\* The peer encodes an ADU and writes it to the line.
Send(adu) ==
    /\ Len(sent) < MaxSent
    /\ \E v \in Variants(Encode(adu)) :
         /\ v.intact \/ Cardinality({j \in DOMAIN sent : ~sent[j].intact}) < MaxDamaged
         /\ line' = line \o v.chars
         /\ sent' = Append(sent, [adu |-> adu, intact |-> v.intact])
    /\ UNCHANGED <<status, frame, waiting, out, reset>>

\* The port emits a data event: one character, or all that is on the line.
Receive ==
    /\ line # << >>
    /\ \E n \in {1, Len(line)} :
         LET s == Scan([status |-> status, frame |-> frame, waiting |-> waiting, out |-> out],
                       SubSeq(line, 1, n))
         IN /\ status' = s.status
            /\ frame' = s.frame
            /\ waiting' = s.waiting
            /\ out' = s.out
            /\ line' = SubSeq(line, n + 1, Len(line))
    /\ UNCHANGED <<sent, reset>>

\* startWaitingResponse: set the wait and reset the scanner.
StartWait ==
    /\ AllowWait /\ ~waiting
    /\ waiting' = TRUE
    /\ status' = "idle"
    /\ frame' = << >>
    /\ MarkReset
    /\ UNCHANGED <<line, sent, out>>

\* stopWaitingResponse, called by the owner's timeout.
StopWait ==
    /\ waiting
    /\ waiting' = FALSE
    /\ UNCHANGED <<status, frame, line, sent, out, reset>>

\* The port closes by itself: its 'close' reaches handleClose, which
\* resets the scanner; characters in flight are lost.
Close ==
    /\ AllowClose
    /\ status' = "idle"
    /\ frame' = << >>
    /\ line' = << >>
    /\ MarkReset
    /\ UNCHANGED <<waiting, sent, out>>

\* The caller's close() (and a later open()): the physical layer removes
\* the port's listeners before closing it, so handleClose never runs and
\* _status and _frame survive into the next connection; characters in
\* flight are lost.
CallerClose ==
    /\ AllowClose
    /\ line' = << >>
    /\ MarkReset
    /\ UNCHANGED <<status, frame, waiting, sent, out>>

Next ==
    \/ \E adu \in Adus : Send(adu)
    \/ Receive
    \/ StartWait \/ StopWait
    \/ Close \/ CallerClose

\* The port delivers what is on the line.
Spec == Init /\ [][Next]_vars /\ WF_vars(Receive)

----------------------------------------------------------------------------
(* Properties                                                              *)

\* Spec section 8: the scanner never delivers a frame whose LRC fails.
\* With one character of one ADU corrupted or lost, every frame
\* the layer delivers as decoded (by 'framing' or to the waiting
\* callback) is an ADU the peer sent: the LRC, the parity check and the
\* restart on ':' keep a damaged or spliced buffer from passing.
DeliveredWereSent ==
    \A i \in DOMAIN out :
        out[i].err = "none" => \E j \in DOMAIN sent : sent[j].adu = out[i].adu

\* Spec section 8: encode and the scanner round-trip.  The characters
\* encode produces for every ADU the peer sent, read from the idle state,
\* give the ADU back and leave the scanner idle.
RoundTrip ==
    \A j \in DOMAIN sent :
        LET adu == sent[j].adu
            s   == Scan([status |-> "idle", frame |-> << >>, waiting |-> FALSE, out |-> << >>],
                        Encode(adu))
        IN /\ s.out = << [via |-> "framing", err |-> "none", adu |-> adu] >>
           /\ s.status = "idle"

\* Once the line is drained, every ADU the peer sent intact after the last
\* reset (startWaitingResponse, handleClose, or the caller's close(), which
\* leaves a half-read frame in _frame) has been delivered: damage to one
\* frame (a lost CR or LF, a stray ':') and the stale scanner state a
\* caller's close() leaves behind never take the next, intact, frame with
\* them.
NoIntactFrameLost ==
    line = << >> => Delivered - reset.out >= IntactSent - reset.sent
=============================================================================
