------------------------------ MODULE TcpServer ------------------------------
(***************************************************************************)
(* TcpServerPhysicalLayer (src/layers/physical/tcp-server-physical-layer.ts)*)
(* over the node:net server it drives.  The model keeps the listeners the  *)
(* layer registers on the server and on each socket, because close()       *)
(* removes all of them, and the events node emits on a later tick          *)
(* ('listening', 'error', 'close') as steps of their own.  Calls to open() *)
(* and close() are named by ids so that each promise can be followed.      *)
(***************************************************************************)
EXTENDS Naturals, Sequences, FiniteSets

CONSTANTS
    Opens,      \* ids of open() calls
    Closes,     \* ids of close() and destroy() calls
    Conns,      \* client connections
    MaxSends    \* bound on the data chunks clients send

VARIABLES
    handle,     \* the server's listening handle: "none" or "bound"
    listenQ,    \* a 'listening' event queued by listen()
    errQ,       \* an 'error' event queued on the server
    closeQ,     \* 'close' after server.close(): "none", "draining" (waiting for
                \* the connections to end) or "queued" (emitCloseNT scheduled)
    lsn,        \* listeners registered on the server
    called,     \* the `called` flag of each open() call
    isOpen,     \* _isOpen
    destroyed,  \* _destroyed
    up,         \* the layer's own listeners (removed by destroy())
    conn,       \* state of each client connection
    attached,   \* sockets carrying the layer's 'data' and 'close' listeners
    sockets,    \* _sockets
    born,       \* number of close() calls made before a connection was accepted
    openSt,     \* state of each open() promise
    closeSt,    \* state of each close() promise
    orphaned,   \* open() calls whose callbacks a close() removed while pending
    sends,      \* history of chunks clients sent
    crashed     \* an 'error' event was emitted with no listener

vars == << handle, listenQ, errQ, closeQ, lsn, called, isOpen, destroyed, up,
           conn, attached, sockets, born, openSt, closeSt, orphaned, sends, crashed >>

NoListeners == [connection |-> FALSE, listening |-> {}, error |-> {}, close |-> 0, closeCbs |-> {}]

\* close() calls made so far.
Epoch == Cardinality({j \in Closes : closeSt[j] # "idle"})

\* createServer(options, listener) registers listener for 'connection'.
Init ==
    /\ handle = "none" /\ listenQ = FALSE /\ errQ = FALSE /\ closeQ = "none"
    /\ lsn = [NoListeners EXCEPT !.connection = TRUE]
    /\ called = [i \in Opens |-> FALSE]
    /\ isOpen = FALSE /\ destroyed = FALSE /\ up = TRUE
    /\ conn = [c \in Conns |-> "none"] /\ attached = {} /\ sockets = {}
    /\ born = [c \in Conns |-> 0]
    /\ openSt = [i \in Opens |-> "idle"] /\ closeSt = [j \in Closes |-> "idle"]
    /\ orphaned = {} /\ sends = << >> /\ crashed = FALSE

(***************************************************************************)
(* open(): rejected when destroyed; server.listen throws when the server   *)
(* already has a handle; otherwise it registers the 'listening' callback   *)
(* and the 'error' handler, and the bind either succeeds ('listening'      *)
(* queued) or fails ('error' queued).                                      *)
(***************************************************************************)
Open(i) ==
    /\ ~crashed /\ openSt[i] = "idle"
    /\ IF destroyed \/ handle = "bound"
       THEN /\ openSt' = [openSt EXCEPT ![i] = "rejected"]
            /\ UNCHANGED << handle, listenQ, errQ, lsn >>
       ELSE /\ openSt' = [openSt EXCEPT ![i] = "pending"]
            /\ lsn' = [lsn EXCEPT !.listening = @ \cup {i}, !.error = @ \cup {i}]
            /\ \/ handle' = "bound" /\ listenQ' = TRUE /\ errQ' = errQ
               \/ errQ' = TRUE /\ UNCHANGED << handle, listenQ >>
    /\ UNCHANGED << closeQ, called, isOpen, destroyed, up, conn, attached, sockets,
                    born, closeSt, orphaned, sends, crashed >>

(***************************************************************************)
(* node emits 'listening' on the next tick only if the handle is still     *)
(* open.  Each once-callback sets called, _isOpen, clears _sockets,        *)
(* registers a 'close' handler and resolves its open().                    *)
(***************************************************************************)
EmitListening ==
    /\ ~crashed /\ listenQ
    /\ IF handle = "bound"
       THEN /\ called' = [i \in Opens |-> called[i] \/ i \in lsn.listening]
            /\ openSt' = [i \in Opens |-> IF i \in lsn.listening /\ openSt[i] = "pending"
                                           THEN "resolved" ELSE openSt[i]]
            /\ isOpen' = TRUE /\ sockets' = {}
            /\ lsn' = [lsn EXCEPT !.close = @ + Cardinality(lsn.listening), !.listening = {}]
       ELSE UNCHANGED << called, openSt, isOpen, sockets, lsn >>
    /\ listenQ' = FALSE
    /\ UNCHANGED << handle, errQ, closeQ, destroyed, up, conn, attached, born,
                    closeSt, orphaned, sends, crashed >>

\* Mutant: the error handler tests the called flag the wrong way round.
EmitErrorSwapped ==
    /\ ~crashed /\ errQ
    /\ errQ' = FALSE
    /\ crashed' = (lsn.error = {})
    /\ openSt' = [i \in Opens |-> IF i \in lsn.error /\ called[i] /\ openSt[i] = "pending"
                                   THEN "rejected" ELSE openSt[i]]
    /\ UNCHANGED << handle, listenQ, closeQ, lsn, called, isOpen, destroyed, up, conn,
                    attached, sockets, born, closeSt, orphaned, sends >>

(***************************************************************************)
(* An 'error' on the server: each open()'s handler rejects its promise if  *)
(* 'listening' has not fired for it, else re-emits the error; with no      *)
(* handler registered the EventEmitter throws and the process ends.       *)
(***************************************************************************)
EmitError ==
    /\ ~crashed /\ errQ
    /\ errQ' = FALSE
    /\ crashed' = (lsn.error = {})
    /\ openSt' = [i \in Opens |-> IF i \in lsn.error /\ ~called[i] /\ openSt[i] = "pending"
                                   THEN "rejected" ELSE openSt[i]]
    /\ UNCHANGED << handle, listenQ, closeQ, lsn, called, isOpen, destroyed, up, conn,
                    attached, sockets, born, closeSt, orphaned, sends >>

\* An error of the listening server (accept failing, for one).
ServerError ==
    /\ ~crashed /\ handle = "bound" /\ ~listenQ /\ ~errQ
    /\ errQ' = TRUE
    /\ UNCHANGED << handle, listenQ, closeQ, lsn, called, isOpen, destroyed, up, conn,
                    attached, sockets, born, openSt, closeSt, orphaned, sends, crashed >>

(***************************************************************************)
(* A client connects to the listening server: the 'connection' listener,  *)
(* if still registered, adds the socket to _sockets and attaches 'data'    *)
(* and once('close').                                                      *)
(***************************************************************************)
Connect(c) ==
    /\ ~crashed /\ conn[c] = "none" /\ handle = "bound" /\ ~listenQ
    /\ conn' = [conn EXCEPT ![c] = "open"]
    /\ born' = [born EXCEPT ![c] = Epoch]
    /\ IF lsn.connection
       THEN attached' = attached \cup {c} /\ sockets' = sockets \cup {c}
       ELSE UNCHANGED << attached, sockets >>
    /\ UNCHANGED << handle, listenQ, errQ, closeQ, lsn, called, isOpen, destroyed, up,
                    openSt, closeSt, orphaned, sends, crashed >>

\* A chunk from client c: the socket's 'data' listener emits it upwards.
Send(c) ==
    /\ ~crashed /\ conn[c] = "open" /\ Len(sends) < MaxSends
    /\ sends' = Append(sends, [open |-> isOpen, current |-> born[c] = Epoch,
                               emitted |-> c \in attached])
    /\ UNCHANGED << handle, listenQ, errQ, closeQ, lsn, called, isOpen, destroyed, up,
                    conn, attached, sockets, born, openSt, closeSt, orphaned, crashed >>

\* All client connections have ended.
Drained(cs) == \A c \in cs : conn[c] # "open"

\* server._emitCloseIfDrained, run when a connection ends during a close:
\* with no handle and no connection left, 'close' is queued for the next
\* tick; a handle bound again meanwhile means 'close' is never emitted.
CloseAfterHangup(c) ==
    IF closeQ = "draining" /\ Drained(Conns \ {c})
    THEN IF handle = "none" THEN "queued" ELSE "none"
    ELSE closeQ

\* Mutant: the socket deleted from _sockets but its listeners kept.
HangupNoRemove(c) ==
    /\ ~crashed /\ conn[c] = "open"
    /\ conn' = [conn EXCEPT ![c] = "closed"]
    /\ sockets' = sockets \ {c}
    /\ closeQ' = CloseAfterHangup(c)
    /\ UNCHANGED << handle, listenQ, errQ, lsn, called, isOpen, destroyed, up,
                    attached, born, openSt, closeSt, orphaned, sends, crashed >>

\* The client closes: the socket's once('close') handler, if still attached,
\* removes its listeners and deletes it from _sockets.
Hangup(c) ==
    /\ ~crashed /\ conn[c] = "open"
    /\ conn' = [conn EXCEPT ![c] = "closed"]
    /\ attached' = attached \ {c}
    /\ sockets' = IF c \in attached THEN sockets \ {c} ELSE sockets
    /\ closeQ' = CloseAfterHangup(c)
    /\ UNCHANGED << handle, listenQ, errQ, lsn, called, isOpen, destroyed, up,
                    born, openSt, closeSt, orphaned, sends, crashed >>

\* server.close(): the handle is closed, then _emitCloseIfDrained queues
\* 'close' at once when no connection is open; otherwise the last
\* connection to end does.
ServerCloseQ == IF closeQ = "queued" \/ Drained(Conns) THEN "queued" ELSE "draining"

\* Mutant: close() leaves _isOpen set.
CloseKeepsOpen(j) ==
    /\ ~crashed /\ closeSt[j] = "idle"
    /\ closeSt' = [closeSt EXCEPT ![j] = "pending"]
    /\ isOpen' = isOpen
    /\ orphaned' = orphaned \cup {i \in lsn.listening \cup lsn.error : openSt[i] = "pending"}
    /\ lsn' = [NoListeners EXCEPT !.closeCbs = {j}]
    /\ handle' = "none" /\ closeQ' = ServerCloseQ
    /\ attached' = attached \ sockets

\* Mutant: close() leaves the sockets' listeners in place.
CloseKeepsSockets(j) ==
    /\ ~crashed /\ closeSt[j] = "idle"
    /\ closeSt' = [closeSt EXCEPT ![j] = "pending"]
    /\ isOpen' = FALSE
    /\ orphaned' = orphaned \cup {i \in lsn.listening \cup lsn.error : openSt[i] = "pending"}
    /\ lsn' = [NoListeners EXCEPT !.closeCbs = {j}]
    /\ handle' = "none" /\ closeQ' = ServerCloseQ
    /\ UNCHANGED attached

(***************************************************************************)
(* close(): _isOpen false, every listener of the server and of the sockets *)
(* in _sockets removed (the 'connection' listener and the callbacks of     *)
(* pending open() and close() calls with them), then server.close(cb):    *)
(* the handle is closed and cb waits for the server's 'close' event.       *)
(***************************************************************************)
Close(j) ==
    /\ ~crashed /\ closeSt[j] = "idle"
    /\ closeSt' = [closeSt EXCEPT ![j] = "pending"]
    /\ isOpen' = FALSE
    /\ orphaned' = orphaned \cup {i \in lsn.listening \cup lsn.error : openSt[i] = "pending"}
    /\ lsn' = [NoListeners EXCEPT !.closeCbs = {j}]
    /\ handle' = "none" /\ closeQ' = ServerCloseQ
    /\ attached' = attached \ sockets

\* A close() called by the host.
CloseCall(j) ==
    /\ Close(j)
    /\ UNCHANGED << listenQ, errQ, called, destroyed, up, conn, sockets, born,
                    openSt, sends, crashed >>

\* destroy(): _destroyed, the layer's own listeners removed, then close().
Destroy(j) ==
    /\ ~destroyed
    /\ Close(j)
    /\ destroyed' = TRUE /\ up' = FALSE
    /\ UNCHANGED << listenQ, errQ, called, conn, sockets, born, openSt, sends, crashed >>

(***************************************************************************)
(* node emits the 'close' it queued, without looking at the handle again. *)
(* The close() callbacks still registered resolve; a 'close' handler of    *)
(* open() (only registered if no close() removed it) clears _isOpen and    *)
(* all listeners again.                                                    *)
(***************************************************************************)
EmitClose ==
    /\ ~crashed /\ closeQ = "queued"
    /\ closeQ' = "none"
    /\ closeSt' = [j \in Closes |-> IF j \in lsn.closeCbs THEN "resolved" ELSE closeSt[j]]
    /\ IF lsn.close > 0
       THEN /\ isOpen' = FALSE /\ lsn' = NoListeners
            /\ attached' = attached \ sockets
       ELSE /\ lsn' = [lsn EXCEPT !.closeCbs = {}]
            /\ UNCHANGED << isOpen, attached >>
    /\ UNCHANGED << handle, listenQ, errQ, called, destroyed, up, conn, sockets, born,
                    openSt, orphaned, sends, crashed >>

Next ==
    \/ \E i \in Opens : Open(i)
    \/ EmitListening \/ EmitError \/ ServerError \/ EmitClose
    \/ \E j \in Closes : CloseCall(j) \/ Destroy(j)
    \/ \E c \in Conns : Connect(c) \/ Send(c) \/ Hangup(c)

\* node runs the events it queued on a later tick of the event loop.
Fairness == WF_vars(EmitListening) /\ WF_vars(EmitError) /\ WF_vars(EmitClose)

Spec == Init /\ [][Next]_vars /\ Fairness

-----------------------------------------------------------------------------

TypeOK ==
    /\ handle \in {"none", "bound"}
    /\ closeQ \in {"none", "draining", "queued"}
    /\ lsn.listening \subseteq Opens /\ lsn.error \subseteq Opens /\ lsn.closeCbs \subseteq Closes
    /\ attached \subseteq sockets /\ sockets \subseteq Conns
    /\ openSt \in [Opens -> {"idle", "pending", "resolved", "rejected"}]
    /\ closeSt \in [Closes -> {"idle", "pending", "resolved"}]

\* The layer emits a client's data only while isOpen reports it open: once
\* close() or destroy() has run, a socket that stays connected is silent
\* (close() removing the sockets' listeners).
DataOnlyWhileOpen ==
    \A k \in DOMAIN sends : sends[k].emitted => sends[k].open

\* isOpen is TRUE only while the server holds a listening handle: the
\* 'listening' callback of an open() that a close() overtook does not run.
IsOpenMeansListening == isOpen => handle = "bound"

\* Every open() settles, resolved on 'listening' or rejected on a failed
\* bind, unless a close() removed its callbacks while it was pending.
OpenSettles ==
    \A i \in Opens : openSt[i] = "pending" ~> (openSt[i] \in {"resolved", "rejected"} \/ i \in orphaned)

\* Spec 4.1: while the transport is open it emits every chunk a peer
\* sends.  Checked for connections accepted since the last close(): the
\* 'connection' listener that close() removes is never registered again.
ServedWhileOpen ==
    \A k \in DOMAIN sends : sends[k].open /\ sends[k].current => sends[k].emitted
=============================================================================
