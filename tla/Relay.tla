------------------------------- MODULE Relay --------------------------------
(***************************************************************************)
(* One relayed connection (-L, -R and -A): a QUIC stream between two TCP   *)
(* or Unix connections.  The "opener" opens the stream when a local        *)
(* program connects to it (-L: handleForwardConn at the client; -R, -A:    *)
(* rfwdRegistry.handleConn, handleAgentConn at the server); the "acceptor" *)
(* dials the target and answers (-L: handleForwardStream at the server;    *)
(* -R, -A: handleRFwdStream, handleAgentStream at the client).  Then each  *)
(* end copies both ways: "up" from its connection into the stream, "down"  *)
(* out of the stream.  The acceptor runs forwardPipe; the opener's pipe    *)
(* uses CloseWrite and Close of forwardStream instead.                     *)
(***************************************************************************)
EXTENDS Naturals, FiniteSets

CONSTANTS MaxBytes, \* bound: pieces of data each program writes
          Window    \* pieces a stream takes without being read (flow control)

ASSUME RelayConstants == {MaxBytes, Window} \subseteq Nat \ {0}

Ends == {"opener", "acceptor"}
Other(e) == CHOOSE o \in Ends : o # e

VARIABLES
    opening,   \* "request", "dialing", "answered", "piped"; or "rejected", "timeout"
    served,    \* the acceptor's handler: "none", "dials", "pipes", "done"
    app,       \* end -> the program there: "open", "eof" (it has closed its side
               \* for writing), "reset" (the connection is broken)
    wrote,     \* end -> pieces the program has written
    taken,     \* end -> pieces the relay has read from it
    shown,     \* end -> pieces the relay has written to it
    shut,      \* ends whose connection the relay has half-closed
    closed,    \* ends whose connection the relay has closed
    up,        \* end -> "off", "read", "write" (holds a piece) or "end"
    down,      \* end -> "off", "copy" or "end"
    flight,    \* end -> pieces it has sent on the stream and nobody has read
    send,      \* end -> its sending half of the stream: "open", "fin", "reset"
    cancelled, \* ends that have cancelled their receiving half (CancelRead)
    dead       \* the QUIC connection has ended

openVars == <<opening, served>>
appVars == <<app, wrote>>
tcpVars == <<taken, shown, shut, closed>>
copyVars == <<up, down>>
streamVars == <<flight, send, cancelled>>
relayVars == <<openVars, appVars, tcpVars, copyVars, streamVars, dead>>

RelayInit ==
    /\ opening = "request" /\ served = "none"
    /\ app = [e \in Ends |-> "open"] /\ wrote = [e \in Ends |-> 0]
    /\ taken = [e \in Ends |-> 0] /\ shown = [e \in Ends |-> 0]
    /\ shut = {} /\ closed = {}
    /\ up = [e \in Ends |-> "off"] /\ down = [e \in Ends |-> "off"]
    /\ flight = [e \in Ends |-> 0] /\ send = [e \in Ends |-> "open"]
    /\ cancelled = {} /\ dead = FALSE

-----------------------------------------------------------------------------
(* What an end does to the stream.                                         *)

\* CancelWrite, and Close, of the sending half; the first one counts.
SendState(e, how) == [send EXCEPT ![e] = IF @ = "open" THEN how ELSE @]

\* What openBidiStream and reject do: nothing more is read or written.
Abandon(e, how) ==
    /\ send' = SendState(e, how)
    /\ cancelled' = cancelled \union {e}

\* forwardStream.Close: CancelRead, and FIN.
ForwardClose(e) == Abandon(e, "fin")

\* What "up" does to the stream when it fails.
UpError(e) ==
    IF e = "opener" THEN ForwardClose(e)
    ELSE send' = SendState(e, "reset") /\ UNCHANGED cancelled

\* Mutant: end of file closes the stream in both directions.
UpEOFClose(e) == ForwardClose(e)

\* What it does at the end of its input: FIN.
UpEOF(e) == send' = SendState(e, "fin") /\ UNCHANGED cancelled

-----------------------------------------------------------------------------
(* Opening.                                                                *)

\* openBidiStream: the stream is opened and the request written.
Request ==
    /\ opening = "request" /\ ~dead
    /\ opening' = "dialing" /\ served' = "dials"
    /\ UNCHANGED <<appVars, tcpVars, copyVars, streamVars, dead>>

\* Too many connections, forwarding disabled, or the dial fails: reject.
Reject ==
    /\ served = "dials"
    /\ served' = "done"
    /\ closed' = closed \union {"acceptor"}
    /\ Abandon("acceptor", "fin")
    /\ opening' = IF opening = "dialing" THEN "rejected" ELSE opening
    /\ UNCHANGED <<appVars, taken, shown, shut, copyVars, flight, dead>>

\* The dial succeeds; OK is written if the opener still reads, and the acceptor
\* starts to copy.
Accept ==
    /\ served = "dials"
    /\ IF "opener" \in cancelled \/ dead
       THEN /\ served' = "done" /\ closed' = closed \union {"acceptor"}
            /\ Abandon("acceptor", "reset")
            /\ UNCHANGED <<opening, copyVars>>
       ELSE /\ served' = "pipes" /\ opening' = "answered"
            /\ up' = [up EXCEPT !["acceptor"] = "read"]
            /\ down' = [down EXCEPT !["acceptor"] = "copy"]
            /\ UNCHANGED <<closed, send, cancelled>>
    /\ UNCHANGED <<appVars, taken, shown, shut, flight, dead>>

\* The opener reads OK.
Piped ==
    /\ opening = "answered"
    /\ opening' = "piped"
    /\ up' = [up EXCEPT !["opener"] = "read"]
    /\ down' = [down EXCEPT !["opener"] = "copy"]
    /\ UNCHANGED <<served, appVars, tcpVars, streamVars, dead>>

\* The answer is an error, does not come in time, or the connection has ended:
\* fail() cancels both directions and the local connection is closed.
OpenFails ==
    /\ opening \in {"request", "dialing", "answered", "rejected"}
    /\ opening # "request" \/ dead
    /\ opening' = "timeout"
    /\ closed' = closed \union {"opener"}
    /\ Abandon("opener", "reset")
    /\ UNCHANGED <<served, appVars, taken, shown, shut, copyVars, flight, dead>>

-----------------------------------------------------------------------------
(* The programs and the network.                                           *)

Connected(e) == IF e = "opener" THEN opening \notin {"timeout"} ELSE served = "pipes"

ProgramWrites(e) ==
    /\ Connected(e) /\ app[e] = "open" /\ wrote[e] < MaxBytes
    /\ wrote' = [wrote EXCEPT ![e] = @ + 1]
    /\ UNCHANGED <<openVars, app, tcpVars, copyVars, streamVars, dead>>

\* It is done writing, or gone; a program may end at any time.
ProgramEnds(e, how) ==
    /\ Connected(e) /\ app[e] # "reset" /\ app[e] # how
    /\ app' = [app EXCEPT ![e] = how]
    /\ UNCHANGED <<openVars, wrote, tcpVars, copyVars, streamVars, dead>>

ConnectionEnds ==
    /\ ~dead
    /\ dead' = TRUE
    /\ UNCHANGED <<openVars, appVars, tcpVars, copyVars, streamVars>>

-----------------------------------------------------------------------------
(* Copying.                                                                *)

\* The connection at e can no longer be read or written.
Broken(e) == e \in closed \/ app[e] = "reset"

UpReads(e) ==
    /\ up[e] = "read" /\ ~Broken(e) /\ taken[e] < wrote[e]
    /\ taken' = [taken EXCEPT ![e] = @ + 1]
    /\ up' = [up EXCEPT ![e] = "write"]
    /\ UNCHANGED <<openVars, appVars, shown, shut, closed, down, streamVars, dead>>

\* Write on the stream fails: it was cancelled here or there.
Unwritable(e) == dead \/ send[e] # "open" \/ Other(e) \in cancelled

UpWrites(e) ==
    /\ up[e] = "write" /\ ~Unwritable(e) /\ flight[e] < Window
    /\ flight' = [flight EXCEPT ![e] = @ + 1]
    /\ up' = [up EXCEPT ![e] = "read"]
    /\ UNCHANGED <<openVars, appVars, tcpVars, down, send, cancelled, dead>>

UpEnds(e) ==
    /\ up[e] = "read" /\ ~Broken(e) /\ app[e] = "eof" /\ taken[e] = wrote[e]
    /\ UpEOF(e)
    /\ up' = [up EXCEPT ![e] = "end"]
    /\ UNCHANGED <<openVars, appVars, tcpVars, down, flight, dead>>

UpFails(e) ==
    /\ \/ up[e] = "read" /\ Broken(e)
       \/ up[e] = "write" /\ Unwritable(e)
    /\ UpError(e)
    /\ up' = [up EXCEPT ![e] = "end"]
    /\ UNCHANGED <<openVars, appVars, tcpVars, down, flight, dead>>

\* Read on the stream fails.
Unreadable(e) == dead \/ e \in cancelled \/ send[Other(e)] = "reset"

\* A piece is read from the stream and written to the connection.
DownCopies(e) ==
    /\ down[e] = "copy" /\ ~Unreadable(e) /\ ~Broken(e) /\ flight[Other(e)] > 0
    /\ flight' = [flight EXCEPT ![Other(e)] = @ - 1]
    /\ shown' = [shown EXCEPT ![e] = @ + 1]
    /\ UNCHANGED <<openVars, appVars, taken, shut, closed, copyVars, send, cancelled, dead>>

\* Mutant: the end of the stream is not passed on.
DownEndsSilent(e) ==
    /\ down[e] = "copy" /\ ~Unreadable(e)
    /\ send[Other(e)] = "fin" /\ flight[Other(e)] = 0
    /\ down' = [down EXCEPT ![e] = "end"]
    /\ UNCHANGED <<openVars, appVars, tcpVars, up, streamVars, dead>>

\* FIN: CloseWrite.
DownEnds(e) ==
    /\ down[e] = "copy" /\ ~Unreadable(e)
    /\ send[Other(e)] = "fin" /\ flight[Other(e)] = 0
    /\ shut' = shut \union {e}
    /\ down' = [down EXCEPT ![e] = "end"]
    /\ UNCHANGED <<openVars, appVars, taken, shown, closed, up, streamVars, dead>>

\* Mutant: the connection is left to the other copy.
DownFailsOpen(e) ==
    /\ down[e] = "copy"
    /\ Unreadable(e) \/ (Broken(e) /\ flight[Other(e)] > 0)
    /\ down' = [down EXCEPT ![e] = "end"]
    /\ UNCHANGED <<openVars, appVars, tcpVars, up, streamVars, dead>>

\* A read or a write fails: the connection is closed.
DownFails(e) ==
    /\ down[e] = "copy"
    /\ \/ Unreadable(e)
       \/ Broken(e) /\ flight[Other(e)] > 0
    /\ closed' = closed \union {e}
    /\ down' = [down EXCEPT ![e] = "end"]
    /\ UNCHANGED <<openVars, appVars, taken, shown, shut, up, streamVars, dead>>

Done(e) == up[e] = "end" /\ down[e] = "end"

\* Both copies have ended: the connection is closed and the slot given back; the
\* opener also closes its side of the stream, the acceptor's forwardPipe does not.
AcceptorReturns ==
    /\ served = "pipes" /\ Done("acceptor")
    /\ served' = "done"
    /\ closed' = closed \union {"acceptor"}
    /\ UNCHANGED <<opening, appVars, taken, shown, shut, copyVars, streamVars, dead>>

OpenerReturns ==
    /\ opening = "piped" /\ Done("opener") /\ "opener" \notin closed \intersect cancelled
    /\ closed' = closed \union {"opener"}
    /\ ForwardClose("opener")
    /\ UNCHANGED <<openVars, appVars, taken, shown, shut, copyVars, flight, dead>>

-----------------------------------------------------------------------------

Opening == Request \/ Accept \/ Piped \/ OpenFails

Up(e) == UpReads(e) \/ UpWrites(e) \/ UpEnds(e) \/ UpFails(e)

Down(e) == DownCopies(e) \/ DownEnds(e) \/ DownFails(e)

RelayNext ==
    \/ Request \/ Reject \/ Accept \/ Piped \/ OpenFails
    \/ \E e \in Ends : \/ ProgramWrites(e)
                       \/ \E how \in {"eof", "reset"} : ProgramEnds(e, how)
                       \/ UpReads(e) \/ UpWrites(e) \/ UpEnds(e) \/ UpFails(e)
                       \/ DownCopies(e) \/ DownEnds(e) \/ DownFails(e)
    \/ AcceptorReturns \/ OpenerReturns
    \/ ConnectionEnds

RelaySpec == RelayInit /\ [][RelayNext]_relayVars

\* Goroutines run and calls with a timeout return; nothing is promised of the
\* programs or the network.
RelayFairness ==
    /\ WF_relayVars(Opening)
    /\ \A e \in Ends : WF_relayVars(Up(e)) /\ WF_relayVars(Down(e))
    /\ WF_relayVars(AcceptorReturns) /\ WF_relayVars(OpenerReturns)

RelayFairSpec == RelaySpec /\ RelayFairness

-----------------------------------------------------------------------------
(* Properties.                                                             *)

RelayTypeOK ==
    /\ opening \in {"request", "dialing", "answered", "piped", "rejected", "timeout"}
    /\ served \in {"none", "dials", "pipes", "done"}
    /\ \A e \in Ends :
        /\ app[e] \in {"open", "eof", "reset"}
        /\ up[e] \in {"off", "read", "write", "end"}
        /\ down[e] \in {"off", "copy", "end"}
        /\ send[e] \in {"open", "fin", "reset"}
        /\ flight[e] \in 0 .. Window
        /\ taken[e] <= wrote[e] /\ wrote[e] <= MaxBytes
    /\ shut \union closed \union cancelled \subseteq Ends

\* Nothing has gone wrong: no program or connection has broken, and the stream was
\* opened.
Clean == /\ ~dead
         /\ \A e \in Ends : app[e] # "reset"
         /\ opening \in {"answered", "piped"}

\* The relay's half-close is exact: while nothing breaks, a program sees the end of
\* its input only after all that the other one wrote before closing, and neither
\* connection is closed before both programs have closed their sides and the relay has
\* read and written there all that there is.
HalfCloseIsExact ==
    /\ RelayTypeOK
    /\ Clean => \A e \in Ends :
          /\ e \in shut => app[Other(e)] = "eof" /\ shown[e] = wrote[Other(e)]
          /\ e \in closed => /\ \A d \in Ends : app[d] = "eof"
                             /\ taken[e] = wrote[e] /\ shown[e] = wrote[Other(e)]

\* ... and it comes: what a program wrote before it closed its side arrives, with
\* the end, though the other one goes on writing.
HalfCloseArrives ==
    \A e \in Ends :
        app[e] = "eof" /\ served = "pipes" ~> \/ ~Clean
                                              \/ Other(e) \in shut /\ shown[Other(e)] = wrote[e]

\* The acceptor's handler, and with it the slot of maxForwardsPerClient and the
\* connection to the target, does not outlive the connection: once a program has
\* gone, both are done writing, the opener has given up or the QUIC connection has
\* ended, the handler returns, or waits for nothing but a target that has been told
\* the end of its input and has not closed yet.
AcceptorReleased ==
    \/ \E e \in Ends : app[e] = "reset"
    \/ \A e \in Ends : app[e] = "eof"
    \/ opening = "timeout"
    \/ dead
        ~> \/ served \in {"none", "done"}
           \/ "acceptor" \in shut /\ app["acceptor"] = "open"

\* docs/protocol.md:170-171: "abnormal teardown uses stream resets".  So when the
\* target is gone, a program that goes as well releases the opener, with its
\* goroutines and the stream; it does not when the opener is blocked in a Write that
\* the acceptor, which never cancels its receiving half, will not read.
OpenerReleased ==
    opening = "piped" /\ app["acceptor"] = "reset" /\ app["opener"] # "open"
        ~> Done("opener")
=============================================================================
