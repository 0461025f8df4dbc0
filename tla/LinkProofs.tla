----------------------------- MODULE LinkProofs ------------------------------
(***************************************************************************)
(* Proofs about what connects clients to a session besides its output: the *)
(* server's table of connections with the -A provider and the stall        *)
(* watchdog (ServerConns), and the relayed connections of -L, -R and -A    *)
(* (Relay).                                                                *)
(***************************************************************************)
EXTENDS ServerConns, Relay, FiniteSetTheorems, TLAPS

-----------------------------------------------------------------------------
(* A relayed connection: its inductive invariant.                          *)

\* The values of a relay's variables, as functions.
CopyTypes ==
    /\ app \in [Ends -> {"open", "eof", "reset"}]
    /\ up \in [Ends -> {"off", "read", "write", "end"}]
    /\ down \in [Ends -> {"off", "copy", "end"}]
    /\ send \in [Ends -> {"open", "fin", "reset"}]
    /\ wrote \in [Ends -> Nat] /\ taken \in [Ends -> Nat]
    /\ shown \in [Ends -> Nat] /\ flight \in [Ends -> Nat]

\* The acceptor still dials only for an opener that waits, or that has given up and then
\* reads no answer; an opener that has been answered copies only when it has read it.
Handshake ==
    /\ served = "dials" => opening \in {"dialing", "timeout"}
    /\ opening = "timeout" => "opener" \in cancelled
    /\ opening = "answered" => up["opener"] = "off" /\ down["opener"] = "off"

\* Before the answer nothing is copied, closed or cancelled.
Pristine ==
    ~dead /\ opening \in {"request", "dialing"} =>
        /\ closed = {} /\ shut = {} /\ cancelled = {}
        /\ \A e \in Ends : /\ up[e] = "off" /\ down[e] = "off" /\ send[e] = "open"
                             /\ taken[e] = 0 /\ shown[e] = 0 /\ flight[e] = 0

\* The piece "up" has read and not written yet.
Held(e) == IF up[e] = "write" THEN 1 ELSE 0

\* While nothing has broken, the sending half ends where "up" has come to the end of
\* all that was written, and no piece is lost on the way.
UpIsExact(e) ==
    /\ send[e] = (IF up[e] = "end" THEN "fin" ELSE "open")
    /\ up[e] = "end" => app[e] = "eof" /\ taken[e] = wrote[e]
    /\ taken[e] = shown[Other(e)] + flight[e] + Held(e)

\* ... "down" ends, and half-closes, when the other end is done and the stream is
\* empty; only then is anything closed or cancelled.
DownIsExact(e) ==
    /\ e \in shut <=> down[e] = "end"
    /\ down[e] = "end" => send[Other(e)] = "fin" /\ flight[Other(e)] = 0
    /\ e \in closed => Done(e)
    /\ e \in cancelled => e = "opener" /\ Done(e)

CopiesAreExact == Clean => \A e \in Ends : UpIsExact(e) /\ DownIsExact(e)

RelayInv == RelayTypeOK /\ CopyTypes /\ Handshake /\ Pristine /\ CopiesAreExact

-----------------------------------------------------------------------------
(* Its steps.                                                              *)

LEMMA OtherEnd ==
    /\ Ends = {"opener", "acceptor"}
    /\ Other("opener") = "acceptor" /\ Other("acceptor") = "opener"
<1>1. \A e \in Ends : \E o \in Ends : o # e
  BY DEF Ends
<1> QED
  BY <1>1 DEF Ends, Other

LEMMA InitRelayInv == RelayConstants /\ RelayInit => RelayInv
<1> SUFFICES ASSUME RelayConstants, RelayInit PROVE RelayInv
  OBVIOUS
<1>1. RelayTypeOK /\ CopyTypes
  BY DEF RelayConstants, RelayInit, RelayTypeOK, CopyTypes, Ends
<1>2. Handshake /\ Pristine /\ CopiesAreExact
  BY DEF RelayInit, Handshake, Pristine, CopiesAreExact, Clean
<1> QED
  BY <1>1, <1>2 DEF RelayInv

\* The handshake: while it lasts nothing has been copied, and one that fails leaves the
\* stream that is not Clean.
LEMMA RequestKeepsRelayInv ==
    ASSUME RelayConstants, RelayInv, Request
    PROVE  RelayInv'
<1>1. RelayTypeOK' /\ CopyTypes'
  BY OtherEnd
  DEF RelayInv, RelayTypeOK, CopyTypes, RelayConstants, Request, appVars, tcpVars,
      copyVars, streamVars
<1>2. Handshake' /\ Pristine'
  BY OtherEnd
  DEF RelayInv, CopyTypes, Handshake, Pristine, Request, appVars, tcpVars, copyVars,
      streamVars
<1>3. CopiesAreExact'
  BY OtherEnd
  DEF RelayInv, CopyTypes, CopiesAreExact, UpIsExact, DownIsExact, Held, Clean, Done,
      Request, appVars, tcpVars, copyVars, streamVars
<1> QED
  BY <1>1, <1>2, <1>3 DEF RelayInv

LEMMA RejectKeepsRelayInv ==
    ASSUME RelayConstants, RelayInv, Reject
    PROVE  RelayInv'
<1>1. RelayTypeOK' /\ CopyTypes'
  BY OtherEnd
  DEF RelayInv, RelayTypeOK, CopyTypes, RelayConstants, Reject, Abandon, SendState,
      appVars, copyVars
<1>2. Handshake' /\ Pristine'
  BY OtherEnd
  DEF RelayInv, CopyTypes, Handshake, Pristine, Reject, Abandon, SendState, appVars,
      copyVars
<1>3. CopiesAreExact'
  <2>1. ~Clean'
    BY DEF RelayInv, Handshake, Reject, Clean
  <2> QED
    BY <2>1 DEF CopiesAreExact
<1> QED
  BY <1>1, <1>2, <1>3 DEF RelayInv

LEMMA AcceptKeepsRelayInv ==
    ASSUME RelayConstants, RelayInv, Accept
    PROVE  RelayInv'
<1>1. RelayTypeOK' /\ CopyTypes'
  BY OtherEnd
  DEF RelayInv, RelayTypeOK, CopyTypes, RelayConstants, Accept, Abandon, SendState,
      appVars, copyVars
<1>2. Handshake' /\ Pristine'
  BY OtherEnd
  DEF RelayInv, CopyTypes, Handshake, Pristine, Accept, Abandon, SendState, appVars,
      copyVars
<1>3. CopiesAreExact'
  <2>1. CASE "opener" \in cancelled \/ dead
    <3>1. ~Clean'
      BY <2>1 DEF RelayInv, Handshake, Pristine, Accept, Clean
    <3> QED
      BY <3>1 DEF CopiesAreExact
  <2>2. CASE ~("opener" \in cancelled \/ dead)
    <3>1. ~dead /\ opening = "dialing"
      BY <2>2 DEF RelayInv, Handshake, Accept
    <3> QED
      BY <2>2, <3>1, OtherEnd
      DEF RelayInv, CopyTypes, Pristine, CopiesAreExact, UpIsExact, DownIsExact, Held, Done,
          Accept, appVars, copyVars
  <2> QED
    BY <2>1, <2>2
<1> QED
  BY <1>1, <1>2, <1>3 DEF RelayInv

LEMMA PipedKeepsRelayInv ==
    ASSUME RelayConstants, RelayInv, Piped
    PROVE  RelayInv'
<1>1. RelayTypeOK' /\ CopyTypes'
  BY OtherEnd
  DEF RelayInv, RelayTypeOK, CopyTypes, RelayConstants, Piped, appVars, tcpVars,
      streamVars
<1>2. Handshake' /\ Pristine'
  BY OtherEnd
  DEF RelayInv, CopyTypes, Handshake, Pristine, Piped, appVars, tcpVars, streamVars
<1>3. CopiesAreExact'
  BY OtherEnd
  DEF RelayInv, CopyTypes, Handshake, Pristine, CopiesAreExact, UpIsExact, DownIsExact, Held,
      Clean, Done, Piped, appVars, tcpVars, streamVars
<1> QED
  BY <1>1, <1>2, <1>3 DEF RelayInv

LEMMA OpenFailsKeepsRelayInv ==
    ASSUME RelayConstants, RelayInv, OpenFails
    PROVE  RelayInv'
<1>1. RelayTypeOK' /\ CopyTypes'
  BY OtherEnd
  DEF RelayInv, RelayTypeOK, CopyTypes, RelayConstants, OpenFails, Abandon, SendState,
      appVars, copyVars
<1>2. Handshake' /\ Pristine'
  BY OtherEnd
  DEF RelayInv, CopyTypes, Handshake, Pristine, OpenFails, Abandon, SendState, appVars,
      copyVars
<1>3. CopiesAreExact'
  <2>1. ~Clean'
    BY DEF OpenFails, Clean
  <2> QED
    BY <2>1 DEF CopiesAreExact
<1> QED
  BY <1>1, <1>2, <1>3 DEF RelayInv

\* The programs and the network.
LEMMA ProgramWritesKeepsRelayInv ==
    ASSUME RelayConstants, RelayInv, NEW e \in Ends, ProgramWrites(e)
    PROVE  RelayInv'
<1>1. RelayTypeOK' /\ CopyTypes'
  BY OtherEnd
  DEF RelayInv, RelayTypeOK, CopyTypes, RelayConstants, ProgramWrites, Connected, openVars,
      tcpVars, copyVars, streamVars
<1>2. Handshake' /\ Pristine'
  BY OtherEnd
  DEF RelayInv, CopyTypes, Handshake, Pristine, ProgramWrites, Connected, openVars,
      tcpVars, copyVars, streamVars
<1>3. CopiesAreExact'
  BY OtherEnd
  DEF RelayInv, CopyTypes, CopiesAreExact, UpIsExact, DownIsExact, Held, Clean, Done,
      ProgramWrites, Connected, openVars, tcpVars, copyVars, streamVars
<1> QED
  BY <1>1, <1>2, <1>3 DEF RelayInv

LEMMA ProgramEndsKeepsRelayInv ==
    ASSUME RelayConstants, RelayInv, NEW e \in Ends, NEW how \in {"eof", "reset"},
           ProgramEnds(e, how)
    PROVE  RelayInv'
<1>1. RelayTypeOK' /\ CopyTypes'
  BY OtherEnd
  DEF RelayInv, RelayTypeOK, CopyTypes, RelayConstants, ProgramEnds, Connected, openVars,
      tcpVars, copyVars, streamVars
<1>2. Handshake' /\ Pristine'
  BY OtherEnd
  DEF RelayInv, CopyTypes, Handshake, Pristine, ProgramEnds, Connected, openVars,
      tcpVars, copyVars, streamVars
<1>3. CopiesAreExact'
  BY OtherEnd
  DEF RelayInv, CopyTypes, CopiesAreExact, UpIsExact, DownIsExact, Held, Clean, Done,
      ProgramEnds, Connected, openVars, tcpVars, copyVars, streamVars
<1> QED
  BY <1>1, <1>2, <1>3 DEF RelayInv

LEMMA ConnectionEndsKeepsRelayInv ==
    ASSUME RelayConstants, RelayInv, ConnectionEnds
    PROVE  RelayInv'
<1>1. RelayTypeOK' /\ CopyTypes'
  BY OtherEnd
  DEF RelayInv, RelayTypeOK, CopyTypes, RelayConstants, ConnectionEnds, openVars, appVars,
      tcpVars, copyVars, streamVars
<1>2. Handshake' /\ Pristine'
  BY OtherEnd
  DEF RelayInv, CopyTypes, Handshake, Pristine, ConnectionEnds, openVars, appVars,
      tcpVars, copyVars, streamVars
<1>3. CopiesAreExact'
  BY OtherEnd
  DEF RelayInv, CopyTypes, CopiesAreExact, UpIsExact, DownIsExact, Held, Clean, Done,
      ConnectionEnds, openVars, appVars, tcpVars, copyVars, streamVars
<1> QED
  BY <1>1, <1>2, <1>3 DEF RelayInv

\* Copying into the stream.
LEMMA UpReadsKeepsRelayInv ==
    ASSUME RelayConstants, RelayInv, NEW e \in Ends, UpReads(e)
    PROVE  RelayInv'
<1>1. RelayTypeOK' /\ CopyTypes'
  BY OtherEnd
  DEF RelayInv, RelayTypeOK, CopyTypes, RelayConstants, UpReads, Broken, openVars,
      appVars, streamVars
<1>2. Handshake' /\ Pristine'
  BY OtherEnd
  DEF RelayInv, CopyTypes, Handshake, Pristine, UpReads, Broken, openVars, appVars,
      streamVars
<1>3. CopiesAreExact'
  BY OtherEnd
  DEF RelayInv, CopyTypes, CopiesAreExact, UpIsExact, DownIsExact, Held, Clean, Done,
      UpReads, Broken, openVars, appVars, streamVars
<1> QED
  BY <1>1, <1>2, <1>3 DEF RelayInv

LEMMA UpWritesKeepsRelayInv ==
    ASSUME RelayConstants, RelayInv, NEW e \in Ends, UpWrites(e)
    PROVE  RelayInv'
<1>1. RelayTypeOK' /\ CopyTypes'
  BY OtherEnd
  DEF RelayInv, RelayTypeOK, CopyTypes, RelayConstants, UpWrites, Unwritable, openVars,
      appVars, tcpVars
<1>2. Handshake' /\ Pristine'
  BY OtherEnd
  DEF RelayInv, CopyTypes, Handshake, Pristine, UpWrites, Unwritable, openVars, appVars,
      tcpVars
<1>3. CopiesAreExact'
  BY OtherEnd
  DEF RelayInv, CopyTypes, CopiesAreExact, UpIsExact, DownIsExact, Held, Clean, Done,
      UpWrites, Unwritable, openVars, appVars, tcpVars
<1> QED
  BY <1>1, <1>2, <1>3 DEF RelayInv

LEMMA UpEndsKeepsRelayInv ==
    ASSUME RelayConstants, RelayInv, NEW e \in Ends, UpEnds(e)
    PROVE  RelayInv'
<1>1. RelayTypeOK' /\ CopyTypes'
  BY OtherEnd
  DEF RelayInv, RelayTypeOK, CopyTypes, RelayConstants, UpEnds, Broken, UpEOF, SendState,
      openVars, appVars, tcpVars
<1>2. Handshake' /\ Pristine'
  BY OtherEnd
  DEF RelayInv, CopyTypes, Handshake, Pristine, UpEnds, Broken, UpEOF, SendState,
      openVars, appVars, tcpVars
<1>3. CopiesAreExact'
  BY OtherEnd
  DEF RelayInv, CopyTypes, CopiesAreExact, UpIsExact, DownIsExact, Held, Clean, Done,
      UpEnds, Broken, UpEOF, SendState, openVars, appVars, tcpVars
<1> QED
  BY <1>1, <1>2, <1>3 DEF RelayInv

LEMMA UpFailsKeepsRelayInv ==
    ASSUME RelayConstants, RelayInv, NEW e \in Ends, UpFails(e)
    PROVE  RelayInv'
<1>1. RelayTypeOK' /\ CopyTypes'
  BY OtherEnd
  DEF RelayInv, RelayTypeOK, CopyTypes, RelayConstants, UpFails, Broken, Unwritable,
      UpError, ForwardClose, Abandon, SendState, openVars, appVars, tcpVars
<1>2. Handshake' /\ Pristine'
  BY OtherEnd
  DEF RelayInv, CopyTypes, Handshake, Pristine, UpFails, Broken, Unwritable, UpError,
      ForwardClose, Abandon, SendState, openVars, appVars, tcpVars
<1>3. CopiesAreExact'
  \* No copy fails while nothing has broken: what has been closed or cancelled here or
  \* there has been read to its end.
  <2>1. ~Clean
    BY OtherEnd
    DEF RelayInv, CopiesAreExact, UpIsExact, DownIsExact, Clean, Done, UpFails,
        Broken, Unwritable
  <2>2. ~Clean'
    BY <2>1 DEF Clean, UpFails, openVars, appVars
  <2> QED
    BY <2>2 DEF CopiesAreExact
<1> QED
  BY <1>1, <1>2, <1>3 DEF RelayInv

\* Copying out of the stream.
LEMMA DownCopiesKeepsRelayInv ==
    ASSUME RelayConstants, RelayInv, NEW e \in Ends, DownCopies(e)
    PROVE  RelayInv'
<1>1. RelayTypeOK' /\ CopyTypes'
  BY OtherEnd
  DEF RelayInv, RelayTypeOK, CopyTypes, RelayConstants, DownCopies, Unreadable, Broken,
      openVars, appVars, copyVars
<1>2. Handshake' /\ Pristine'
  BY OtherEnd
  DEF RelayInv, CopyTypes, Handshake, Pristine, DownCopies, Unreadable, Broken,
      openVars, appVars, copyVars
<1>3. CopiesAreExact'
  BY OtherEnd
  DEF RelayInv, CopyTypes, CopiesAreExact, UpIsExact, DownIsExact, Held, Clean, Done,
      DownCopies, Unreadable, Broken, openVars, appVars, copyVars
<1> QED
  BY <1>1, <1>2, <1>3 DEF RelayInv

LEMMA DownEndsKeepsRelayInv ==
    ASSUME RelayConstants, RelayInv, NEW e \in Ends, DownEnds(e)
    PROVE  RelayInv'
<1>1. RelayTypeOK' /\ CopyTypes'
  BY OtherEnd
  DEF RelayInv, RelayTypeOK, CopyTypes, RelayConstants, DownEnds, Unreadable, openVars,
      appVars, streamVars
<1>2. Handshake' /\ Pristine'
  BY OtherEnd
  DEF RelayInv, CopyTypes, Handshake, Pristine, DownEnds, Unreadable, openVars, appVars,
      streamVars
<1>3. CopiesAreExact'
  BY OtherEnd
  DEF RelayInv, CopyTypes, CopiesAreExact, UpIsExact, DownIsExact, Held, Clean, Done,
      DownEnds, Unreadable, openVars, appVars, streamVars
<1> QED
  BY <1>1, <1>2, <1>3 DEF RelayInv

LEMMA DownFailsKeepsRelayInv ==
    ASSUME RelayConstants, RelayInv, NEW e \in Ends, DownFails(e)
    PROVE  RelayInv'
<1>1. RelayTypeOK' /\ CopyTypes'
  BY OtherEnd
  DEF RelayInv, RelayTypeOK, CopyTypes, RelayConstants, DownFails, Unreadable, Broken,
      openVars, appVars, streamVars
<1>2. Handshake' /\ Pristine'
  BY OtherEnd
  DEF RelayInv, CopyTypes, Handshake, Pristine, DownFails, Unreadable, Broken, openVars,
      appVars, streamVars
<1>3. CopiesAreExact'
  <2>1. ~Clean
    BY OtherEnd
    DEF RelayInv, CopiesAreExact, UpIsExact, DownIsExact, Clean, Done, DownFails,
        Broken, Unreadable
  <2>2. ~Clean'
    BY <2>1 DEF Clean, DownFails, openVars, appVars
  <2> QED
    BY <2>2 DEF CopiesAreExact
<1> QED
  BY <1>1, <1>2, <1>3 DEF RelayInv

\* The ends return.
LEMMA AcceptorReturnsKeepsRelayInv ==
    ASSUME RelayConstants, RelayInv, AcceptorReturns
    PROVE  RelayInv'
<1>1. RelayTypeOK' /\ CopyTypes'
  BY OtherEnd
  DEF RelayInv, RelayTypeOK, CopyTypes, RelayConstants, AcceptorReturns, Done, appVars,
      copyVars, streamVars
<1>2. Handshake' /\ Pristine'
  BY OtherEnd
  DEF RelayInv, CopyTypes, Handshake, Pristine, AcceptorReturns, Done, appVars,
      copyVars, streamVars
<1>3. CopiesAreExact'
  BY OtherEnd
  DEF RelayInv, CopyTypes, CopiesAreExact, UpIsExact, DownIsExact, Held, Clean,
      AcceptorReturns, Done, appVars, copyVars, streamVars
<1> QED
  BY <1>1, <1>2, <1>3 DEF RelayInv

LEMMA OpenerReturnsKeepsRelayInv ==
    ASSUME RelayConstants, RelayInv, OpenerReturns
    PROVE  RelayInv'
<1>1. RelayTypeOK' /\ CopyTypes'
  BY OtherEnd
  DEF RelayInv, RelayTypeOK, CopyTypes, RelayConstants, OpenerReturns, Done, ForwardClose,
      Abandon, SendState, openVars, appVars, copyVars
<1>2. Handshake' /\ Pristine'
  BY OtherEnd
  DEF RelayInv, CopyTypes, Handshake, Pristine, OpenerReturns, Done, ForwardClose,
      Abandon, SendState, openVars, appVars, copyVars
<1>3. CopiesAreExact'
  BY OtherEnd
  DEF RelayInv, CopyTypes, CopiesAreExact, UpIsExact, DownIsExact, Held, Clean,
      OpenerReturns, Done, ForwardClose, Abandon, SendState, openVars, appVars,
      copyVars
<1> QED
  BY <1>1, <1>2, <1>3 DEF RelayInv

LEMMA NextRelayInv == RelayConstants /\ RelayInv /\ [RelayNext]_relayVars => RelayInv'
<1> SUFFICES ASSUME RelayConstants, RelayInv, [RelayNext]_relayVars PROVE RelayInv'
  OBVIOUS
<1>1. CASE Request \/ Reject \/ Accept \/ Piped \/ OpenFails
  BY <1>1, RequestKeepsRelayInv, RejectKeepsRelayInv, AcceptKeepsRelayInv, PipedKeepsRelayInv,
     OpenFailsKeepsRelayInv
<1>2. CASE \E e \in Ends : \/ ProgramWrites(e)
                            \/ \E how \in {"eof", "reset"} : ProgramEnds(e, how)
  BY <1>2, ProgramWritesKeepsRelayInv, ProgramEndsKeepsRelayInv
<1>3. CASE \E e \in Ends : \/ UpReads(e) \/ UpWrites(e) \/ UpEnds(e) \/ UpFails(e)
  BY <1>3, UpReadsKeepsRelayInv, UpWritesKeepsRelayInv, UpEndsKeepsRelayInv, UpFailsKeepsRelayInv
<1>4. CASE \E e \in Ends : DownCopies(e) \/ DownEnds(e) \/ DownFails(e)
  BY <1>4, DownCopiesKeepsRelayInv, DownEndsKeepsRelayInv, DownFailsKeepsRelayInv
<1>5. CASE AcceptorReturns \/ OpenerReturns \/ ConnectionEnds
  BY <1>5, AcceptorReturnsKeepsRelayInv, OpenerReturnsKeepsRelayInv, ConnectionEndsKeepsRelayInv
<1>6. CASE UNCHANGED relayVars
  BY <1>6
  DEF relayVars, openVars, appVars, tcpVars, copyVars, streamVars, RelayInv, RelayTypeOK,
      CopyTypes, Handshake, Pristine, CopiesAreExact, UpIsExact, DownIsExact, Held, Clean, Done
<1> QED
  BY <1>1, <1>2, <1>3, <1>4, <1>5, <1>6 DEF RelayNext

\* What the invariant says of an end that is shut or closed.
LEMMA RelayInvImplies == RelayInv => HalfCloseIsExact
<1> SUFFICES ASSUME RelayInv, Clean, NEW e \in Ends
             PROVE  /\ e \in shut => app[Other(e)] = "eof" /\ shown[e] = wrote[Other(e)]
                    /\ e \in closed => /\ \A d \in Ends : app[d] = "eof"
                                       /\ taken[e] = wrote[e] /\ shown[e] = wrote[Other(e)]
  BY DEF HalfCloseIsExact, RelayInv
<1>1. ASSUME down[e] = "end"
      PROVE  /\ up[Other(e)] = "end" /\ app[Other(e)] = "eof"
             /\ shown[e] = wrote[Other(e)]
  BY <1>1, OtherEnd DEF RelayInv, CopyTypes, CopiesAreExact, UpIsExact, DownIsExact, Held
<1>2. e \in shut => app[Other(e)] = "eof" /\ shown[e] = wrote[Other(e)]
  BY <1>1 DEF RelayInv, CopiesAreExact, DownIsExact
<1>3. ASSUME e \in closed
      PROVE  /\ \A d \in Ends : app[d] = "eof"
             /\ taken[e] = wrote[e] /\ shown[e] = wrote[Other(e)]
  <2>1. up[e] = "end" /\ down[e] = "end"
    BY <1>3 DEF RelayInv, CopiesAreExact, DownIsExact, Done
  <2>2. app[e] = "eof" /\ taken[e] = wrote[e]
    BY <2>1 DEF RelayInv, CopiesAreExact, UpIsExact
  <2> QED
    BY <1>1, <2>1, <2>2, OtherEnd
<1> QED
  BY <1>2, <1>3

\* The relay's half-close is exact: while nothing breaks, an end is shut only after all
\* that the other one wrote, and closed only when both programs are done and all of it
\* has been passed on (forwardPipe and forwardStream's CloseWrite and Close).
THEOREM HalfCloseIsExactHolds ==
    ASSUME RelayConstants
    PROVE  RelaySpec => []HalfCloseIsExact
<1>1. RelayInit => RelayInv
  BY InitRelayInv
<1>2. RelayInv /\ [RelayNext]_relayVars => RelayInv'
  BY NextRelayInv
<1> QED
  BY <1>1, <1>2, RelayInvImplies, PTL DEF RelaySpec

-----------------------------------------------------------------------------
(* The server's connections: the inductive invariant.                      *)

\* The variables TypeOK does not speak of.
QueueTypes == todo \in Seq(Clients) /\ blocked \in [Conns -> Nat]

\* An entry of the table is a connection that its client's Hello came in on and that
\* handleConn has not left: an old connection that ends finds its own entry or none.
EntriesAreOwned ==
    \A c \in Clients : clients[c] # NoConn =>
        owner[clients[c]] = c /\ ctx[clients[c]] \in {"open", "closed"}

\* A connection has a client from its Hello until handleConn returns.
OwnersAreKnown == \A k \in Conns : ctx[k] \in {"open", "closed"} => owner[k] \in Clients

\* A Write blocks on an open connection only, and its clock starts at zero.
WritersAreOpen ==
    \A k \in Conns : /\ writer[k] # "none" => ctx[k] = "open"
                     /\ ctx[k] = "new" => blocked[k] = 0

ConnInv == TableInOrder /\ QueueTypes /\ EntriesAreOwned /\ OwnersAreKnown /\ WritersAreOpen

-----------------------------------------------------------------------------
(* Its steps.                                                              *)

\* quicClientIDsOut lists every client.
LEMMA OrderListsClients == ServerConnsConstants => Order \in Seq(Clients)
<1> SUFFICES ASSUME ServerConnsConstants PROVE Order \in Seq(Clients)
  OBVIOUS
<1>1. Cardinality(Clients) \in Nat /\ ExistsBijection(1 .. Cardinality(Clients), Clients)
  BY FS_CardinalityType DEF ServerConnsConstants
<1>2. \E q \in [1 .. Cardinality(Clients) -> Clients] :
         \A c \in Clients : \E i \in DOMAIN q : q[i] = c
  <2>1. PICK q : q \in Bijection(1 .. Cardinality(Clients), Clients)
    BY <1>1 DEF ExistsBijection
  <2>2. /\ q \in [1 .. Cardinality(Clients) -> Clients]
        /\ \A c \in Clients : \E i \in 1 .. Cardinality(Clients) : q[i] = c
    BY <2>1 DEF Bijection, Surjection
  <2> QED
    BY <2>2
<1>3. Order \in [1 .. Cardinality(Clients) -> Clients]
  BY <1>2 DEF Order
<1> QED
  BY <1>1, <1>3

LEMMA InitConnInv == ServerConnsConstants /\ Init => ConnInv
<1> SUFFICES ASSUME ServerConnsConstants, Init PROVE ConnInv
  OBVIOUS
<1>1. TypeOK /\ QueueTypes
  BY DEF ServerConnsConstants, Init, TypeOK, QueueTypes, Conns, NoConn
<1>2. ProviderElected
  BY <1>1 DEF ServerConnsConstants, Init, ProviderElected
<1>3. StallIsCut /\ EntriesAreOwned /\ OwnersAreKnown /\ WritersAreOpen
  BY DEF ServerConnsConstants, Init, StallIsCut, Registered, EntriesAreOwned, OwnersAreKnown,
         WritersAreOpen
<1> QED
  BY <1>1, <1>2, <1>3 DEF ConnInv, TableInOrder

\* The Hello of client c: its entry is a connection nobody has written to yet, and c is
\* the provider if it may be one.
LEMMA HelloKeepsConnInv ==
    ASSUME ServerConnsConstants, ConnInv, NEW c \in Clients, NEW k \in Conns, Hello(c, k)
    PROVE  ConnInv'
<1> USE DEF connVars, peerVars, writeVars, readerVars, deleteVars
<1>1. TypeOK' /\ QueueTypes'
  BY DEF ServerConnsConstants, ConnInv, TableInOrder, ProviderElected, TypeOK, QueueTypes, Hello
<1>2. k # NoConn
  BY DEF Conns, NoConn, ServerConnsConstants
<1>3. ProviderElected'
  BY <1>1, <1>2 DEF ServerConnsConstants, ConnInv, TableInOrder, ProviderElected, TypeOK, Hello
<1>4. EntriesAreOwned' /\ OwnersAreKnown' /\ WritersAreOpen'
  BY <1>2
  DEF ConnInv, TableInOrder, ProviderElected, TypeOK, EntriesAreOwned, OwnersAreKnown,
      WritersAreOpen, Hello
<1>5. StallIsCut'
  <2>1. Registered' \subseteq Registered \union {k}
    BY DEF Registered, Hello, ConnInv, TableInOrder, ProviderElected, TypeOK
  <2>2. blocked'[k] < Critical
    BY DEF ConnInv, WritersAreOpen, Hello, ServerConnsConstants
  <2> QED
    BY <2>1, <2>2 DEF StallIsCut, ConnInv, TableInOrder, Hello
<1> QED
  BY <1>1, <1>3, <1>4, <1>5 DEF ConnInv, TableInOrder

\* The end of handleConn on connection k.
LEMMA DisconnectKeepsConnInv ==
    ASSUME ServerConnsConstants, ConnInv, NEW k \in Conns, Disconnect(k)
    PROVE  ConnInv'
<1> USE DEF connVars, peerVars, writeVars, readerVars, deleteVars
<1> DEFINE c == owner[k]
<1>1. c \in Clients /\ ctx[k] = "closed" /\ ctx' = [ctx EXCEPT ![k] = "gone"]
  BY DEF ConnInv, OwnersAreKnown, Disconnect
<1>2. clients' = (IF clients[c] = k THEN [clients EXCEPT ![c] = NoConn] ELSE clients)
  BY DEF Disconnect
<1>3. owner' = [owner EXCEPT ![k] = NoClient] /\ UNCHANGED <<peerVars, writeVars, readerVars, deleteVars>>
  BY DEF Disconnect
<1>4. TypeOK /\ k # NoConn
  BY DEF ConnInv, TableInOrder, ProviderElected, Conns, NoConn, ServerConnsConstants
<1>5. provider' \in Clients \union {NoClient}
  BY <1>1, <1>4 DEF Disconnect, TypeOK, Heirs
<1>6. TypeOK' /\ QueueTypes'
  BY <1>1, <1>2, <1>3, <1>4, <1>5 DEF ConnInv, TypeOK, QueueTypes
<1>7. ProviderElected'
  <2>1. CASE clients[c] = k /\ provider = c
    <3>1. c \in Agents
      BY <1>1, <1>4, <2>1 DEF ConnInv, TableInOrder, ProviderElected, ServerConnsConstants
    <3>2. CASE Heirs(c) = {}
      BY <1>1, <1>2, <1>4, <1>6, <2>1, <3>1, <3>2
      DEF Disconnect, Heirs, ProviderElected, ServerConnsConstants, TypeOK
    <3>3. CASE Heirs(c) # {}
      <4>1. provider' \in Heirs(c)
        BY <2>1, <3>1, <3>3 DEF Disconnect
      <4> QED
        BY <1>1, <1>2, <1>4, <1>6, <4>1 DEF Heirs, ProviderElected, TypeOK
    <3> QED
      BY <3>2, <3>3
  <2>2. CASE ~(clients[c] = k /\ provider = c)
    <3>1. provider' = provider
      BY <2>2 DEF Disconnect
    <3> QED
      BY <1>1, <1>2, <1>4, <1>6, <2>2, <3>1
      DEF ConnInv, TableInOrder, ProviderElected, ServerConnsConstants, TypeOK
  <2> QED
    BY <2>1, <2>2
<1>8. EntriesAreOwned' /\ OwnersAreKnown' /\ WritersAreOpen'
  BY <1>1, <1>2, <1>3, <1>4 DEF ConnInv, TypeOK, EntriesAreOwned, OwnersAreKnown, WritersAreOpen
<1>9. StallIsCut'
  <2>1. Registered' \subseteq Registered
    BY <1>1, <1>2, <1>4 DEF Registered, TypeOK
  <2> QED
    BY <1>3, <2>1 DEF StallIsCut, ConnInv, TableInOrder
<1> QED
  BY <1>6, <1>7, <1>8, <1>9 DEF ConnInv, TableInOrder

\* Connections end, with the Writes blocked on them, and their clocks stand still or go
\* back: the client closes one, it times out, or the watchdog makes its round.
LEMMA EndingKeepsConnInv ==
    ASSUME ServerConnsConstants, ConnInv, NEW K \in SUBSET Conns, CloseConns(K),
           \A k \in K : ctx[k] = "open",
           blocked' \in [Conns -> Nat],
           \A k \in Registered : blocked'[k] < Critical,
           \A k \in Conns : ctx[k] = "new" => blocked'[k] = 0,
           UNCHANGED <<connVars, todo, deleteVars>>
    PROVE  ConnInv'
<1> USE DEF connVars, deleteVars
<1>1. TypeOK
  BY DEF ConnInv, TableInOrder, ProviderElected
<1>2. TypeOK' /\ QueueTypes'
  BY <1>1 DEF ConnInv, TypeOK, QueueTypes, CloseConns
<1>3. ProviderElected'
  BY <1>2 DEF ConnInv, TableInOrder, ProviderElected
<1>4. StallIsCut'
  BY DEF StallIsCut, Registered
<1>5. EntriesAreOwned' /\ OwnersAreKnown' /\ WritersAreOpen'
  BY <1>1
  DEF ConnInv, TypeOK, EntriesAreOwned, OwnersAreKnown, WritersAreOpen, CloseConns
<1> QED
  BY <1>2, <1>3, <1>4, <1>5 DEF ConnInv, TableInOrder

LEMMA PeerLeavesKeepsConnInv ==
    ASSUME ServerConnsConstants, ConnInv, NEW k \in Conns, PeerCloses(k) \/ IdleTimeout(k)
    PROVE  ConnInv'
<1>1. /\ CloseConns({k}) /\ ctx[k] = "open" /\ blocked' = [blocked EXCEPT ![k] = 0]
      /\ UNCHANGED <<connVars, todo, deleteVars>>
  BY DEF PeerCloses, IdleTimeout
<1>2. /\ blocked' \in [Conns -> Nat]
      /\ \A j \in Conns : blocked'[j] = 0 \/ blocked'[j] = blocked[j]
  BY <1>1 DEF ConnInv, QueueTypes
<1>3. \A j \in Registered : blocked'[j] < Critical
  <2>1. Registered \subseteq Conns
    BY DEF Registered, ConnInv, TableInOrder, ProviderElected, TypeOK
  <2> QED
    BY <1>2, <2>1 DEF ConnInv, TableInOrder, StallIsCut, ServerConnsConstants
<1>4. \A j \in Conns : ctx[j] = "new" => blocked'[j] = 0
  BY <1>2 DEF ConnInv, WritersAreOpen
<1> QED
  BY <1>1, <1>2, <1>3, <1>4, EndingKeepsConnInv

\* The watchdog closes what would reach the threshold in this round.
LEMMA WatchKeepsConnInv ==
    ASSUME ServerConnsConstants, ConnInv, Watch
    PROVE  ConnInv'
<1> DEFINE K == {k \in Registered : Overdue(k)}
<1>1. /\ CloseConns(K) /\ blocked' = Blocked(K)
      /\ UNCHANGED <<connVars, todo, deleteVars>>
  BY DEF Watch
<1>2. Registered \subseteq Conns
  BY DEF Registered, ConnInv, TableInOrder, ProviderElected, TypeOK
<1>3. \A k \in K : ctx[k] = "open"
  BY <1>2 DEF Overdue, ConnInv, WritersAreOpen
<1>4. blocked' \in [Conns -> Nat]
  BY <1>1 DEF Blocked, ConnInv, QueueTypes
<1>5. \A k \in Registered : blocked'[k] < Critical
  <2> SUFFICES ASSUME NEW k \in Registered PROVE blocked'[k] < Critical
    OBVIOUS
  <2>1. blocked[k] < Critical /\ blocked[k] \in Nat /\ Critical \in Nat \ {0}
    BY <1>2 DEF ConnInv, TableInOrder, StallIsCut, QueueTypes, ServerConnsConstants
  <2>2. CASE Overdue(k)
    BY <1>1, <1>2, <2>1, <2>2 DEF Blocked
  <2>3. CASE ~Overdue(k)
    BY <1>1, <1>2, <2>1, <2>3 DEF Blocked, Overdue
  <2> QED
    BY <2>2, <2>3
<1>6. \A k \in Conns : ctx[k] = "new" => blocked'[k] = 0
  BY <1>1 DEF Blocked, ConnInv, WritersAreOpen
<1> QED
  BY <1>1, <1>2, <1>3, <1>4, <1>5, <1>6, EndingKeepsConnInv

\* The rest: Writes begin and return, and clients are told, by the table as it is.
LEMMA OthersKeepConnInv ==
    ASSUME ServerConnsConstants, ConnInv,
           \/ \E k \in Conns : ResyncBlocks(k) \/ PeerStops(k) \/ PeerResumes(k)
           \/ SendOutput \/ LookUp \/ WriteOutput
           \/ DeleteSession \/ SendSessionGone
    PROVE  ConnInv'
<1> USE DEF connVars, peerVars, writeVars, readerVars, deleteVars
<1>1. TypeOK /\ QueueTypes
  BY DEF ConnInv, TableInOrder, ProviderElected
<1>2. UNCHANGED <<connVars, ctx>>
  BY DEF ResyncBlocks, PeerStops, PeerResumes, SendOutput, LookUp, WriteOutput, DeleteSession,
         SendSessionGone
<1>3. /\ blocked' \in [Conns -> Nat]
      /\ \A j \in Conns : blocked'[j] = 0 \/ blocked'[j] = blocked[j]
  BY <1>1
  DEF QueueTypes, ResyncBlocks, PeerStops, PeerResumes, SendOutput, LookUp, WriteOutput,
      DeleteSession, SendSessionGone
<1>4. /\ writer' \in [Conns -> {"none", "pty", "resync"}]
      /\ \A j \in Conns : writer'[j] # "none" => writer[j] # "none" \/ ctx[j] = "open"
  BY <1>1
  DEF TypeOK, Takes, ResyncBlocks, PeerStops, PeerResumes, SendOutput, LookUp, WriteOutput,
      DeleteSession, SendSessionGone
<1>5. drains' \subseteq Conns /\ asleep' \subseteq Conns \ drains'
  BY <1>1
  DEF TypeOK, ResyncBlocks, PeerStops, PeerResumes, SendOutput, LookUp, WriteOutput, DeleteSession,
      SendSessionGone
<1>6. /\ todo' \in Seq(Clients) /\ untold' \in Seq(Clients)
      /\ sending' \in Conns \union {NoConn} /\ deleting' \in {"idle", "tells", "done"}
  <2>1. CASE SendOutput \/ DeleteSession
    BY <1>1, <2>1, OrderListsClients DEF TypeOK, QueueTypes, SendOutput, DeleteSession
  <2>2. CASE LookUp
    BY <1>1, <2>2 DEF TypeOK, QueueTypes, LookUp
  <2>3. CASE SendSessionGone
    BY <1>1, <2>3 DEF TypeOK, QueueTypes, SendSessionGone
  <2>4. CASE WriteOutput \/ \E k \in Conns : ResyncBlocks(k) \/ PeerStops(k) \/ PeerResumes(k)
    BY <1>1, <2>4 DEF TypeOK, QueueTypes, WriteOutput, ResyncBlocks, PeerStops, PeerResumes
  <2> QED
    BY <2>1, <2>2, <2>3, <2>4
<1>7. TypeOK' /\ QueueTypes'
  BY <1>1, <1>2, <1>3, <1>4, <1>5, <1>6 DEF TypeOK, QueueTypes
<1>8. ProviderElected'
  BY <1>2, <1>7 DEF ConnInv, TableInOrder, ProviderElected
<1>9. StallIsCut'
  <2>1. Registered \subseteq Conns /\ Registered' = Registered
    BY <1>1, <1>2 DEF Registered, TypeOK
  <2> QED
    BY <1>3, <2>1 DEF ConnInv, TableInOrder, StallIsCut, ServerConnsConstants
<1>10. EntriesAreOwned' /\ OwnersAreKnown' /\ WritersAreOpen'
  BY <1>2, <1>3, <1>4 DEF ConnInv, EntriesAreOwned, OwnersAreKnown, WritersAreOpen
<1> QED
  BY <1>7, <1>8, <1>9, <1>10 DEF ConnInv, TableInOrder

LEMMA NextConnInv == ServerConnsConstants /\ ConnInv /\ [Next]_vars => ConnInv'
<1> SUFFICES ASSUME ServerConnsConstants, ConnInv, [Next]_vars PROVE ConnInv'
  OBVIOUS
<1>1. CASE \E k \in Conns : \E c \in Clients : Hello(c, k)
  BY <1>1, HelloKeepsConnInv
<1>2. CASE \E k \in Conns : Disconnect(k)
  BY <1>2, DisconnectKeepsConnInv
<1>3. CASE \E k \in Conns : PeerCloses(k) \/ IdleTimeout(k)
  BY <1>3, PeerLeavesKeepsConnInv
<1>4. CASE Watch
  BY <1>4, WatchKeepsConnInv
<1>5. CASE \/ \E k \in Conns : ResyncBlocks(k) \/ PeerStops(k) \/ PeerResumes(k)
           \/ SendOutput \/ LookUp \/ WriteOutput
           \/ DeleteSession \/ SendSessionGone
  BY <1>5, OthersKeepConnInv
<1>6. CASE UNCHANGED vars
  BY <1>6
  DEF vars, connVars, peerVars, writeVars, readerVars, deleteVars, ConnInv, TableInOrder,
      ProviderElected, TypeOK, StallIsCut, Registered, QueueTypes, EntriesAreOwned,
      OwnersAreKnown, WritersAreOpen
<1> QED
  BY <1>1, <1>2, <1>3, <1>4, <1>5, <1>6 DEF Next

\* handleConn's election and stallWatchdog: whatever connections of a client come, go and
\* are replaced, OpenAgentStream finds a provider if there is one, and no registered
\* client holds the session's output past the critical threshold.
THEOREM TableInOrderHolds ==
    ASSUME ServerConnsConstants
    PROVE  Spec => []TableInOrder
<1>1. Init => ConnInv
  BY InitConnInv
<1>2. ConnInv /\ [Next]_vars => ConnInv'
  BY NextConnInv
<1>3. ConnInv => TableInOrder
  BY DEF ConnInv
<1> QED
  BY <1>1, <1>2, <1>3, PTL DEF Spec
=============================================================================
