-------------------------- MODULE OutputDeliveryProofs --------------------------
(***************************************************************************)
(* Proofs about the delivery of output over QUIC, for any number of        *)
(* chunks and connections, any batch size and any channel capacity: that   *)
(* it implements Terminal, that nothing falls between the replay and live  *)
(* output, and, when Hellos are read in the order sent and no failover     *)
(* fails half-way, that the newest connection stays registered.            *)
(***************************************************************************)
EXTENDS OutputDelivery, TLAPS

\* The chunks there are.
Known == 1 .. seq

PtyInv ==
    /\ seq \in 0 .. MaxSeq
    /\ ptyPC \in {"read", "lookup", "write"}
    /\ target \in Conns \union {None}
    /\ ptyPC # "read" => seq > 0
    /\ ptyPC = "write" => target # None

ServerInv ==
    /\ clients \in Conns \union {None}
    /\ handler \in [Conns -> {"none", "hello", "resync", "live", "ended"}]
    /\ last \in [Conns -> 0 .. seq]
    /\ next \in [Conns -> 1 .. seq + 1]
    /\ todo \in [Conns -> Seq(Known)]
    /\ written \in [Conns -> Seq(Known)]
    /\ \A c \in Conns : c > dials => handler[c] = "none"

ConnInv ==
    /\ dials \in 0 .. MaxConns
    /\ dialed \in Conns \union {None}
    /\ cur \in Conns \union {None}
    /\ up \in SUBSET Conns

PumpInv ==
    /\ readPos \in [Conns -> Nat]
    /\ pump \in [Conns -> [at : {"read", "load", "store", "send"}, offset : 0 .. seq]]
    /\ \A c \in Conns : pump[c].at # "read" => pump[c].offset > 0
    /\ lastOffset \in 0 .. seq
    /\ out \in Seq(Known)

\* What is shown ends with renderedSeq, so a later chunk is newer than all of it.
RenderInv ==
    /\ renderedSeq \in 0 .. seq
    /\ rendered \in Seq(Known)
    /\ \A i \in 1 .. Len(rendered) : rendered[i] <= renderedSeq

\* The replay: what is left of the batch goes on where next says, and what is
\* before next has been written.
ReplayInv ==
    \A c \in Conns :
        /\ handler[c] \in {"none", "hello"} => todo[c] = <<>>
        /\ \A i \in 1 .. Len(todo[c]) : todo[c][i] = next[c] + i - 1
        /\ handler[c] \in {"resync", "live"} =>
             \A n \in last[c] + 1 .. next[c] - 1 : n \in ToSet(written[c])

IInv ==
    /\ PtyInv /\ ServerInv /\ ConnInv /\ PumpInv /\ RenderInv
    /\ ReplayInv
    /\ NothingBetweenReplayAndLive

-----------------------------------------------------------------------------
(* Sequences.                                                              *)

\* A stream that gets a frame carries what it did and the frame.
LEMMA ToSetAppend ==
    ASSUME NEW S, NEW s \in Seq(S), NEW x
    PROVE  ToSet(Append(s, x)) = ToSet(s) \union {x}
<1> DEFINE a == Append(s, x)
<1>1. /\ DOMAIN s = 1 .. Len(s) /\ DOMAIN a = 1 .. Len(s) + 1 /\ Len(s) \in Nat
      /\ \A i \in 1 .. Len(s) : a[i] = s[i]
      /\ a[Len(s) + 1] = x
  OBVIOUS
<1> HIDE DEF a
<1>2. \A y \in ToSet(a) : y \in ToSet(s) \union {x}
  BY <1>1 DEF ToSet
<1>3. \A y \in ToSet(s) \union {x} : y \in ToSet(a)
  BY <1>1 DEF ToSet
<1> QED
  BY <1>2, <1>3 DEF a

\* A sequence of known chunks stays one as more become known.
LEMMA SeqGrows ==
    ASSUME NEW S, NEW More, S \subseteq More, NEW s \in Seq(S)
    PROVE  s \in Seq(More)
  OBVIOUS

LEMMA ElementIn ==
    ASSUME NEW S, NEW s \in Seq(S), NEW i \in 1 .. Len(s)
    PROVE  s[i] \in S
  OBVIOUS

\* The queue of the renderer loses its head.
LEMMA TailIn ==
    ASSUME NEW S, NEW s \in Seq(S), s # <<>>
    PROVE  /\ Head(s) \in S /\ Tail(s) \in Seq(S)
           /\ Head(s) = s[1] /\ Len(Tail(s)) = Len(s) - 1
           /\ \A i \in 1 .. Len(Tail(s)) : Tail(s)[i] = s[i + 1]
  OBVIOUS

-----------------------------------------------------------------------------
(* The steps of the PTY reader.                                            *)

\* handlePTYOutput: one chunk more is known; it is in flight, and all others are where
\* they were.
LEMMA ReadKeeps ==
    ASSUME DeliveryConstants, IInv, HandlePTYOutput
    PROVE  IInv'
<1> USE DEF HandlePTYOutput, serverVars, connVars, pumpVars, renderVars
<1>1. seq \in Nat /\ seq' = seq + 1 /\ Known \subseteq Known'
  BY DEF IInv, PtyInv, Known, DeliveryConstants
<1>2. PtyInv'
  BY <1>1 DEF IInv, PtyInv, DeliveryConstants
<1>3. ServerInv'
  <2>1. \A c \in Conns : todo[c] \in Seq(Known') /\ written[c] \in Seq(Known')
    BY <1>1, SeqGrows DEF IInv, ServerInv
  <2>2. /\ todo \in [Conns -> Seq(Known')] /\ written \in [Conns -> Seq(Known')]
    BY <2>1 DEF IInv, ServerInv
  <2>3. last \in [Conns -> 0 .. seq'] /\ next \in [Conns -> 1 .. seq' + 1]
    BY <1>1, SMTT(30) DEF IInv, ServerInv
  <2> QED
    BY <2>2, <2>3 DEF IInv, ServerInv
<1>4. ConnInv'
  BY DEF IInv, ConnInv
<1>5. PumpInv'
  <2>1. out \in Seq(Known')
    BY <1>1, SeqGrows DEF IInv, PumpInv
  <2>2. lastOffset \in 0 .. seq'
    BY <1>1 DEF IInv, PumpInv
  <2>3. pump \in [Conns -> [at : {"read", "load", "store", "send"}, offset : 0 .. seq']]
    BY <1>1 DEF IInv, PumpInv
  <2> QED
    BY <2>1, <2>2, <2>3 DEF IInv, PumpInv
<1>6. RenderInv'
  <2>1. rendered \in Seq(Known')
    BY <1>1, SeqGrows DEF IInv, RenderInv
  <2> QED
    BY <1>1, <2>1 DEF IInv, RenderInv
<1>7. ReplayInv'
  BY DEF IInv, ReplayInv
<1>8. NothingBetweenReplayAndLive'
  <2> SUFFICES ASSUME NEW c \in Conns, clients = c, handler[c] = "live",
                      NEW n \in last[c] + 1 .. seq + 1
               PROVE  n \in ToSet(written[c]) \/ n = seq + 1
    BY <1>1 DEF NothingBetweenReplayAndLive
  <2>1. n \in last[c] + 1 .. seq \/ n = seq + 1
    BY <1>1 DEF IInv, ServerInv
  <2> QED
    BY <2>1 DEF IInv, NothingBetweenReplayAndLive
<1> QED
  BY <1>2, <1>3, <1>4, <1>5, <1>6, <1>7, <1>8 DEF IInv

\* SendOutput's lookup: a client that is registered and live gets the chunk.
LEMMA LookupKeeps ==
    ASSUME IInv, LookupClient
    PROVE  IInv'
<1> USE DEF LookupClient, serverVars, connVars, pumpVars, renderVars
<1>1. PtyInv'
  BY DEF IInv, PtyInv, ServerInv
<1>2. ServerInv' /\ ConnInv' /\ PumpInv' /\ RenderInv' /\ ReplayInv'
  BY DEF IInv, ServerInv, ConnInv, PumpInv, RenderInv, ReplayInv, Known
<1>3. NothingBetweenReplayAndLive'
  BY DEF IInv, NothingBetweenReplayAndLive, Conns, None
<1> QED
  BY <1>1, <1>2, <1>3 DEF IInv

\* A frame is written to the stream of c: what was on it stays on it.
LEMMA WrittenGrows ==
    ASSUME ServerInv, NEW c \in Conns, NEW x \in Known,
           written' = [written EXCEPT ![c] = Append(@, x)]
    PROVE  /\ written' \in [Conns -> Seq(Known)]
           /\ \A d \in Conns : ToSet(written[d]) \subseteq ToSet(written'[d])
           /\ x \in ToSet(written'[c])
<1>1. written[c] \in Seq(Known)
  BY DEF ServerInv
<1>2. Append(written[c], x) \in Seq(Known)
  BY <1>1
<1>3. /\ \A d \in Conns \ {c} : written'[d] = written[d]
      /\ written'[c] = Append(written[c], x)
      /\ written' \in [Conns -> Seq(Known)]
  BY <1>2 DEF ServerInv
<1>4. ToSet(written'[c]) = ToSet(written[c]) \union {x}
  BY <1>1, <1>3, ToSetAppend
<1> QED
  BY <1>3, <1>4

\* SendOutput's write: the chunk in flight arrives, unless the connection has ended.
LEMMA SendKeeps ==
    ASSUME IInv, SendOutput
    PROVE  IInv'
<1> USE DEF SendOutput, connVars, pumpVars, renderVars
<1>1. PtyInv'
  BY DEF IInv, PtyInv
<1>2. target \in Conns /\ seq \in Known /\ seq' = seq /\ Known' = Known
  BY DEF IInv, PtyInv, Known
<1>3. ConnInv' /\ PumpInv' /\ RenderInv'
  BY DEF IInv, ConnInv, PumpInv, RenderInv, Known
<1>4. CASE handler[target] = "ended"
  <2>1. ServerInv' /\ ReplayInv'
    BY <1>4 DEF IInv, ServerInv, ReplayInv, Known
  <2>2. NothingBetweenReplayAndLive'
    BY <1>4 DEF IInv, NothingBetweenReplayAndLive
  <2> QED
    BY <1>1, <1>3, <2>1, <2>2 DEF IInv
<1>5. CASE handler[target] # "ended"
  <2>0. written' = [written EXCEPT ![target] = Append(@, seq)]
    BY <1>5
  <2>1. /\ written' \in [Conns -> Seq(Known)]
        /\ \A d \in Conns : ToSet(written[d]) \subseteq ToSet(written'[d])
        /\ seq \in ToSet(written'[target])
    BY <1>2, <2>0, WrittenGrows DEF IInv
  <2>2. ServerInv'
    BY <1>2, <2>1 DEF IInv, ServerInv
  <2>3. ReplayInv'
    BY <2>1 DEF IInv, ReplayInv
  <2>4. NothingBetweenReplayAndLive'
    BY <2>1 DEF IInv, NothingBetweenReplayAndLive
  <2> QED
    BY <1>1, <1>3, <2>2, <2>3, <2>4 DEF IInv
<1> QED
  BY <1>4, <1>5

-----------------------------------------------------------------------------
(* The steps of handleConn.                                                *)

\* A step of a handler leaves the PTY reader and the client alone.
LEMMA OthersKeep ==
    ASSUME IInv, UNCHANGED <<ptyVars, connVars, pumpVars, renderVars>>
    PROVE  PtyInv' /\ ConnInv' /\ PumpInv' /\ RenderInv' /\ Known' = Known /\ dials' = dials
  BY DEF IInv, PtyInv, ConnInv, PumpInv, RenderInv, Known, ptyVars, connVars, pumpVars, renderVars

\* The connection is registered: its replay starts with nothing to be written yet.
LEMMA RegisterKeeps ==
    ASSUME IInv, NEW c \in Conns, Register(c)
    PROVE  IInv'
<1> USE DEF Register
<1>1. PtyInv' /\ ConnInv' /\ PumpInv' /\ RenderInv' /\ Known' = Known /\ dials' = dials
  BY OthersKeep
<1>2. seq \in Nat /\ seq' = seq
  BY DEF IInv, PtyInv, ptyVars
<1>3. ServerInv'
  BY <1>1, <1>2 DEF IInv, ServerInv
<1>4. ReplayInv'
  BY DEF IInv, ReplayInv, ServerInv
<1>5. NothingBetweenReplayAndLive'
  BY DEF NothingBetweenReplayAndLive, IInv, ServerInv
<1> QED
  BY <1>1, <1>3, <1>4, <1>5 DEF IInv

\* outputFromOffset: a batch goes on from next; when there is none, everything up to
\* the newest chunk has been written.
LEMMA OnResyncKeeps ==
    ASSUME DeliveryConstants, IInv, NEW c \in Conns, OnResync(c)
    PROVE  IInv'
<1> DEFINE size == IF seq + 1 - next[c] < BatchSize THEN seq + 1 - next[c] ELSE BatchSize
           batch == [i \in 1 .. size |-> next[c] + i - 1]
<1>1. PtyInv' /\ ConnInv' /\ PumpInv' /\ RenderInv' /\ Known' = Known /\ dials' = dials
  BY OthersKeep DEF OnResync
<1>2. /\ seq \in Nat /\ seq' = seq /\ next[c] \in 1 .. seq + 1 /\ next' = next
      /\ BatchSize \in Nat \ {0} /\ todo[c] = <<>> /\ handler[c] = "resync"
      /\ UNCHANGED <<clients, last, next, written>>
  BY DEF IInv, PtyInv, ServerInv, OnResync, DeliveryConstants, ptyVars
<1>3. CASE size <= 0
  <2>1. handler' = [handler EXCEPT ![c] = "live"] /\ todo' = todo
    BY <1>3 DEF OnResync
  <2>2. next[c] = seq + 1
    BY <1>2, <1>3
  <2>3. ServerInv'
    BY <1>1, <1>2, <2>1 DEF IInv, ServerInv
  <2>4. ReplayInv'
    BY <1>2, <2>1, SMTT(30) DEF IInv, ReplayInv, ServerInv
  <2>5. NothingBetweenReplayAndLive'
    <3> SUFFICES ASSUME NEW d \in Conns, clients' = d, handler'[d] = "live",
                        NEW n \in last[d] + 1 .. seq
                 PROVE  \/ n \in ToSet(written[d])
                        \/ n = seq /\ (ptyPC = "lookup" \/ (ptyPC = "write" /\ target = d))
      BY <1>2 DEF NothingBetweenReplayAndLive, OnResync, ptyVars
    <3>1. CASE d = c
      <4>1. \A m \in last[c] + 1 .. next[c] - 1 : m \in ToSet(written[c])
        BY <1>2 DEF IInv, ReplayInv
      <4>2. next[c] - 1 = seq
        BY <1>2, <2>2
      <4> QED
        BY <3>1, <4>1, <4>2
    <3>2. CASE d # c
      <4>1. clients = d /\ handler[d] = "live"
        BY <1>2, <2>1, <3>2 DEF IInv, ServerInv
      <4> QED
        BY <4>1 DEF IInv, NothingBetweenReplayAndLive
    <3> QED
      BY <3>1, <3>2
  <2> QED
    BY <1>1, <2>3, <2>4, <2>5 DEF IInv
<1>4. CASE ~(size <= 0)
  <2>1. handler' = handler /\ todo' = [todo EXCEPT ![c] = batch]
    BY <1>4 DEF OnResync
  <2>2. size \in Nat /\ size <= seq + 1 - next[c]
    BY <1>2, <1>4
  <2>3. batch \in Seq(Known) /\ Len(batch) = size
    <3> HIDE DEF size
    <3>1. \A i \in 1 .. size : batch[i] \in Known
      BY <1>2, <2>2, SMTT(30) DEF Known
    <3> QED
      BY <2>2, <3>1
  <2>4. /\ \A d \in Conns \ {c} : todo'[d] = todo[d]
        /\ todo'[c] = batch
        /\ todo' \in [Conns -> Seq(Known)]
    BY <2>1, <2>3 DEF IInv, ServerInv
  <2>5. \A i \in 1 .. Len(batch) : batch[i] = next[c] + i - 1
    BY <2>3
  <2> HIDE DEF batch
  <2>6. ServerInv'
    BY <1>1, <1>2, <2>1, <2>4 DEF IInv, ServerInv
  <2>7. ReplayInv'
    BY <1>2, <2>1, <2>4, <2>5 DEF IInv, ReplayInv
  <2>8. NothingBetweenReplayAndLive'
    BY <1>2, <2>1 DEF IInv, NothingBetweenReplayAndLive, OnResync, ptyVars
  <2> QED
    BY <1>1, <2>6, <2>7, <2>8 DEF IInv
<1> QED
  BY <1>3, <1>4

\* writeOutput of the head of the batch: next and the batch move on together.
LEMMA WriteResyncKeeps ==
    ASSUME IInv, NEW c \in Conns, WriteResync(c)
    PROVE  IInv'
<1>1. PtyInv' /\ ConnInv' /\ PumpInv' /\ RenderInv' /\ Known' = Known /\ dials' = dials
  BY OthersKeep DEF WriteResync
<1>2. /\ seq \in Nat /\ seq' = seq /\ next[c] \in 1 .. seq + 1
      /\ todo[c] \in Seq(Known) /\ todo[c] # <<>> /\ handler[c] = "resync"
      /\ UNCHANGED <<clients, handler, last>>
      /\ written' = [written EXCEPT ![c] = Append(@, Head(todo[c]))]
  BY DEF IInv, PtyInv, ServerInv, WriteResync, ptyVars
<1>3. /\ Head(todo[c]) \in Known /\ Tail(todo[c]) \in Seq(Known)
      /\ Head(todo[c]) = todo[c][1] /\ Len(Tail(todo[c])) = Len(todo[c]) - 1
      /\ \A i \in 1 .. Len(Tail(todo[c])) : Tail(todo[c])[i] = todo[c][i + 1]
  BY <1>2, TailIn
<1>4. Len(todo[c]) \in Nat \ {0}
  BY <1>2
<1>5. Head(todo[c]) = next[c]
  BY <1>2, <1>3, <1>4 DEF IInv, ReplayInv
<1>6. /\ next' \in [Conns -> 1 .. seq + 1] /\ next'[c] = next[c] + 1
      /\ todo' \in [Conns -> Seq(Known)] /\ todo'[c] = Tail(todo[c])
      /\ \A d \in Conns \ {c} : next'[d] = next[d] /\ todo'[d] = todo[d]
  BY <1>2, <1>3, <1>5, SMTT(30) DEF WriteResync, IInv, ServerInv, Known
<1>7. /\ written' \in [Conns -> Seq(Known)]
      /\ \A d \in Conns : ToSet(written[d]) \subseteq ToSet(written'[d])
      /\ next[c] \in ToSet(written'[c])
  BY <1>2, <1>3, <1>5, WrittenGrows DEF IInv
<1>8. ServerInv'
  BY <1>1, <1>2, <1>6, <1>7 DEF IInv, ServerInv
<1>9. ReplayInv'
  <2>1. \A i \in 1 .. Len(todo'[c]) : todo'[c][i] = next'[c] + i - 1
    BY <1>2, <1>3, <1>4, <1>6 DEF IInv, ReplayInv
  <2>2. \A n \in last[c] + 1 .. next'[c] - 1 : n \in ToSet(written'[c])
    <3> SUFFICES ASSUME NEW n \in last[c] + 1 .. next[c] PROVE n \in ToSet(written'[c])
      BY <1>2, <1>6
    <3>1. n \in last[c] + 1 .. next[c] - 1 \/ n = next[c]
      BY <1>2 DEF IInv, ServerInv
    <3> QED
      BY <1>2, <1>7, <3>1 DEF IInv, ReplayInv
  <2>3. ASSUME NEW d \in Conns \ {c}
        PROVE  /\ handler'[d] \in {"none", "hello"} => todo'[d] = <<>>
               /\ \A i \in 1 .. Len(todo'[d]) : todo'[d][i] = next'[d] + i - 1
               /\ handler'[d] \in {"resync", "live"} =>
                    \A n \in last'[d] + 1 .. next'[d] - 1 : n \in ToSet(written'[d])
    <3>1. /\ handler'[d] = handler[d] /\ next'[d] = next[d] /\ todo'[d] = todo[d]
          /\ last'[d] = last[d] /\ ToSet(written[d]) \subseteq ToSet(written'[d])
      BY <1>2, <1>6, <1>7
    <3> QED
      BY <3>1 DEF IInv, ReplayInv
  <2> QED
    BY <1>2, <2>1, <2>2, <2>3 DEF ReplayInv
<1>10. NothingBetweenReplayAndLive'
  BY <1>2, <1>7 DEF IInv, NothingBetweenReplayAndLive, WriteResync, ptyVars
<1> QED
  BY <1>1, <1>8, <1>9, <1>10 DEF IInv

\* The end of a connection changes no stream.
LEMMA HandlerEndsKeeps ==
    ASSUME IInv, NEW c \in Conns, HandlerEnds(c)
    PROVE  IInv'
<1> USE DEF HandlerEnds
<1>1. PtyInv' /\ ConnInv' /\ PumpInv' /\ RenderInv' /\ Known' = Known /\ dials' = dials
  BY OthersKeep
<1>2. ServerInv' /\ ReplayInv'
  BY <1>1 DEF IInv, ServerInv, ReplayInv, ptyVars, connVars
<1>3. NothingBetweenReplayAndLive'
  BY DEF IInv, NothingBetweenReplayAndLive, ServerInv, Conns, None, ptyVars
<1> QED
  BY <1>1, <1>2, <1>3 DEF IInv

-----------------------------------------------------------------------------
(* The client's steps.                                                     *)

\* A step of the client leaves the server alone, Hellos apart.
LEMMA ServerKeeps ==
    ASSUME IInv, UNCHANGED <<ptyVars, serverVars, dials>>
    PROVE  PtyInv' /\ ServerInv' /\ ReplayInv' /\ NothingBetweenReplayAndLive' /\ Known' = Known
  BY DEF IInv, PtyInv, ServerInv, ReplayInv, NothingBetweenReplayAndLive, Known,
     ptyVars, serverVars

\* The Hello of a new connection: its handler has not begun.
LEMMA SendHelloKeeps ==
    ASSUME DeliveryConstants, IInv, NEW c \in Conns, SendHello(c)
    PROVE  IInv'
<1> USE DEF SendHello, ptyVars, pumpVars, renderVars
<1>1. PtyInv' /\ PumpInv' /\ RenderInv' /\ Known' = Known
  BY DEF IInv, PtyInv, PumpInv, RenderInv, Known
<1>2. ConnInv'
  BY DEF IInv, ConnInv, Conns, DeliveryConstants
<1>3. ServerInv'
  <2>1. \A d \in Conns : d > dials' => handler'[d] = "none"
    BY DEF IInv, ServerInv, ConnInv, Conns, DeliveryConstants
  <2>2. last' \in [Conns -> 0 .. seq] /\ seq' = seq
    BY DEF IInv, ServerInv, PumpInv
  <2> QED
    BY <1>1, <2>1, <2>2 DEF IInv, ServerInv
<1>4. ReplayInv'
  <2>1. handler'[c] = "hello" /\ UNCHANGED <<next, todo, written>>
    BY DEF IInv, ServerInv
  <2>2. \A d \in Conns \ {c} : handler'[d] = handler[d] /\ last'[d] = last[d]
    BY DEF IInv, ServerInv
  <2>3. todo[c] = <<>>
    BY DEF IInv, ReplayInv, ServerInv, ConnInv
  <2> QED
    BY <2>1, <2>2, <2>3 DEF IInv, ReplayInv
<1>5. NothingBetweenReplayAndLive'
  BY DEF IInv, NothingBetweenReplayAndLive, ServerInv
<1> QED
  BY <1>1, <1>2, <1>3, <1>4, <1>5 DEF IInv

\* The connections of the client come and go.
LEMMA ConnStepKeeps ==
    ASSUME IInv, AdoptConn \/ AdoptFails \/ \E c \in Conns : ConnDies(c)
    PROVE  IInv'
<1>1. UNCHANGED <<ptyVars, serverVars, dials, pumpVars, renderVars>>
  BY DEF AdoptConn, AdoptFails, ConnDies
<1>2. PtyInv' /\ ServerInv' /\ ReplayInv' /\ NothingBetweenReplayAndLive' /\ Known' = Known
  BY <1>1, ServerKeeps DEF connVars
<1>3. PumpInv' /\ RenderInv'
  BY <1>1 DEF IInv, PumpInv, RenderInv, Known, ptyVars, pumpVars, renderVars
<1>4. ConnInv'
  BY DEF IInv, ConnInv, AdoptConn, AdoptFails, ConnDies, None
<1> QED
  BY <1>2, <1>3, <1>4 DEF IInv

\* pumpOutput: what it holds came from a stream, so the PTY reader has numbered it.
LEMMA PumpKeeps ==
    ASSUME IInv, NEW c \in Conns, PumpOutput(c)
    PROVE  IInv'
<1>1. UNCHANGED <<ptyVars, serverVars, connVars, renderVars>>
  BY DEF PumpOutput, ReadOutputFrame, LoadLastOffset, StoreLastOffset, SendOut
<1>2. PtyInv' /\ ServerInv' /\ ReplayInv' /\ NothingBetweenReplayAndLive' /\ Known' = Known
  BY <1>1, ServerKeeps DEF connVars
<1>3. ConnInv' /\ RenderInv'
  BY <1>1 DEF IInv, ConnInv, RenderInv, Known, ptyVars, connVars, renderVars
<1>4. seq' = seq /\ seq \in Nat
  BY <1>1 DEF IInv, PtyInv, ptyVars
<1>5. CASE ReadOutputFrame(c)
  <2>1. written[c] \in Seq(Known) /\ readPos[c] \in Nat
    BY DEF IInv, ServerInv, PumpInv
  <2>2. readPos[c] + 1 \in 1 .. Len(written[c])
    BY <1>5, <2>1 DEF ReadOutputFrame
  <2>3. written[c][readPos[c] + 1] \in 1 .. seq
    BY <2>1, <2>2, ElementIn DEF Known
  <2> QED
    BY <1>2, <1>3, <1>4, <1>5, <2>3 DEF ReadOutputFrame, IInv, PumpInv
<1>6. CASE LoadLastOffset(c)
  BY <1>2, <1>3, <1>4, <1>6 DEF LoadLastOffset, IInv, PumpInv
<1>7. CASE StoreLastOffset(c)
  BY <1>2, <1>3, <1>4, <1>7 DEF StoreLastOffset, IInv, PumpInv
<1>8. CASE SendOut(c)
  <2>0. pump[c].at = "send" /\ pump[c].offset \in 0 .. seq /\ pump[c].offset > 0
    BY <1>8 DEF SendOut, IInv, PumpInv
  <2>1. pump[c].offset \in Known
    BY <1>4, <2>0 DEF Known
  <2>2. out' \in Seq(Known)
    BY <1>8, <2>1 DEF SendOut, IInv, PumpInv
  <2> QED
    BY <1>2, <1>3, <1>4, <1>8, <2>2 DEF SendOut, IInv, PumpInv
<1> QED
  BY <1>5, <1>6, <1>7, <1>8 DEF PumpOutput

\* renderOutput either drops the chunk, or shows one that is newer than all before it.
LEMMA RenderKeeps ==
    ASSUME IInv, RenderOutput
    PROVE  /\ IInv'
           /\ \/ UNCHANGED <<seq, rendered>>
              \/ T!Show(Head(out)) /\ Head(out) \in 1 .. seq
<1> USE DEF RenderOutput
<1>1. PtyInv' /\ ServerInv' /\ ReplayInv' /\ NothingBetweenReplayAndLive' /\ Known' = Known
  BY ServerKeeps DEF connVars
<1>2. ConnInv' /\ seq' = seq /\ seq \in Nat
  BY DEF IInv, ConnInv, PtyInv, connVars, ptyVars
<1>3. Head(out) \in Known /\ Tail(out) \in Seq(Known)
  BY TailIn DEF IInv, PumpInv
<1>4. PumpInv'
  BY <1>1, <1>2, <1>3 DEF IInv, PumpInv
<1>5. CASE Head(out) <= renderedSeq
  BY <1>1, <1>2, <1>4, <1>5 DEF IInv, RenderInv, renderVars
<1>6. CASE ~(Head(out) <= renderedSeq)
  <2> DEFINE h == Head(out)
  <2>1. /\ h \in 1 .. seq /\ renderedSeq \in Nat /\ renderedSeq < h
        /\ renderedSeq' = h /\ rendered' = Append(rendered, h)
        /\ rendered \in Seq(Known)
        /\ \A i \in 1 .. Len(rendered) : rendered[i] <= renderedSeq
    BY <1>2, <1>3, <1>6 DEF IInv, RenderInv, Known
  <2> HIDE DEF h
  <2>2. Len(rendered) \in Nat /\ \A i \in 1 .. Len(rendered) : rendered[i] \in Nat
    <3>1. \A i \in 1 .. Len(rendered) : rendered[i] \in Known
      BY <2>1, ElementIn
    <3> QED
      BY <2>1, <3>1 DEF Known
  <2>3. \A i \in 1 .. Len(rendered) : rendered[i] < h
    BY <2>1, <2>2
  <2>4. T!Show(h)
    BY <1>2, <2>1, <2>3 DEF T!Show
  <2>5. RenderInv'
    <3>1. rendered' \in Seq(Known)
      BY <2>1 DEF Known
    <3>2. /\ Len(rendered') = Len(rendered) + 1
          /\ \A i \in 1 .. Len(rendered) : rendered'[i] = rendered[i]
          /\ rendered'[Len(rendered) + 1] = h
      BY <2>1
    <3>3. \A i \in 1 .. Len(rendered') : rendered'[i] <= h
      BY <2>1, <2>2, <2>3, <3>2
    <3> QED
      BY <1>1, <1>2, <2>1, <3>1, <3>3 DEF RenderInv
  <2> QED
    BY <1>1, <1>2, <1>4, <2>1, <2>4, <2>5 DEF IInv, h
<1> QED
  BY <1>5, <1>6

-----------------------------------------------------------------------------
(* The theorems.                                                           *)

\* The inductive invariant: the streams carry what next says they do, and nothing
\* further down the way is newer than what the PTY reader has numbered.
THEOREM DeliveryInvariant == Spec => []IInv
<1> USE DeliveryConstants
<1>1. Init => IInv
  <2> SUFFICES ASSUME Init PROVE IInv
    OBVIOUS
  <2>1. PtyInv /\ ServerInv /\ ConnInv /\ PumpInv
    BY DEF Init, PtyInv, ServerInv, ConnInv, PumpInv
  <2>2. RenderInv /\ ReplayInv /\ NothingBetweenReplayAndLive
    BY DEF Init, RenderInv, ReplayInv, NothingBetweenReplayAndLive, Conns, None
  <2> QED
    BY <2>1, <2>2 DEF IInv
<1>2. IInv /\ [Next]_vars => IInv'
  <2> SUFFICES ASSUME IInv, [Next]_vars PROVE IInv'
    OBVIOUS
  <2>1. CASE Pty
    BY <2>1, ReadKeeps, LookupKeeps, SendKeeps DEF Pty
  <2>2. ASSUME NEW c \in Conns, Handle(c) PROVE IInv'
    BY <2>2, RegisterKeeps, OnResyncKeeps, WriteResyncKeeps DEF Handle
  <2>3. ASSUME NEW c \in Conns, HandlerEnds(c) PROVE IInv'
    BY <2>3, HandlerEndsKeeps
  <2>4. ASSUME NEW c \in Conns, SendHello(c) PROVE IInv'
    BY <2>4, SendHelloKeeps
  <2>5. CASE AdoptConn \/ AdoptFails \/ \E c \in Conns : ConnDies(c)
    BY <2>5, ConnStepKeeps
  <2>6. ASSUME NEW c \in Conns, PumpOutput(c) PROVE IInv'
    BY <2>6, PumpKeeps
  <2>7. CASE RenderOutput
    BY <2>7, RenderKeeps
  <2>8. CASE UNCHANGED vars
    BY <2>8, ServerKeeps DEF vars, IInv, ConnInv, PumpInv, RenderInv, Known,
       ptyVars, connVars, pumpVars, renderVars
  <2> QED
    BY <2>1, <2>2, <2>3, <2>4, <2>5, <2>6, <2>7, <2>8 DEF Next
<1> QED
  BY <1>1, <1>2, PTL DEF Spec

\* What the terminal shows is a behaviour of Terminal: every chunk at most once and
\* never an older one after a newer one, whatever connections and pumps do.
THEOREM ShownOnceInOrderHolds == Spec => ShownOnceInOrder
<1>1. Init => T!TerminalInit
  BY DEF Init, T!TerminalInit
<1>2. IInv /\ [Next]_vars => [T!TerminalNext]_<<seq, rendered>>
  <2> SUFFICES ASSUME IInv, [Next]_vars, ~UNCHANGED <<seq, rendered>>
               PROVE  T!TerminalNext
    OBVIOUS
  <2>1. CASE HandlePTYOutput
    BY <2>1 DEF HandlePTYOutput, renderVars, T!TerminalNext, T!Produce
  <2>2. CASE RenderOutput
    BY <2>2, RenderKeeps DEF T!TerminalNext
  <2>3. CASE UNCHANGED <<seq, renderVars>>
    BY <2>3 DEF renderVars
  <2> QED
    BY <2>1, <2>2, <2>3
       DEF Next, Pty, LookupClient, SendOutput, Handle, Register, OnResync, WriteResync,
           HandlerEnds, SendHello, AdoptConn, AdoptFails, ConnDies, PumpOutput,
           ReadOutputFrame, LoadLastOffset, StoreLastOffset, SendOut, vars, ptyVars, renderVars
<1> QED
  BY <1>1, <1>2, DeliveryInvariant, PTL DEF Spec, ShownOnceInOrder, T!TerminalSpec

\* Which connection is registered, if Hellos are read in the order sent and a failed
\* adoptConn leaves no working connection behind: the one in use, or the next one.
NewestInv ==
    /\ up \subseteq {cur}
    /\ cur <= dials
    /\ dialed # None => /\ dialed = dials /\ cur < dialed
                        /\ handler[dialed] \in {"hello", "resync", "live"}
                        /\ handler[dialed] # "hello" => clients = dialed
    /\ cur \in up =>
         /\ cur = IF dialed = None THEN dials ELSE dialed - 1
         /\ handler[cur] \in {"resync", "live"} =>
              clients = cur \/ (dialed # None /\ clients = dialed)

LEMMA NewestKeeps ==
    ASSUME "lateHello" \notin Faults, "failoverFails" \notin Faults,
           IInv, NewestInv, [Next]_vars
    PROVE  NewestInv'
<1> USE DeliveryConstants DEF NewestInv
<1>1. /\ dials \in Nat /\ dialed \in Conns \union {None} /\ cur \in Conns \union {None}
      /\ up \subseteq Conns
      /\ handler \in [Conns -> {"none", "hello", "resync", "live", "ended"}]
      /\ \A c \in Conns : c > dials => handler[c] = "none"
      /\ Conns \subseteq Nat \ {0} /\ None = 0
  BY DEF IInv, ConnInv, ServerInv, Conns, None
<1>2. ASSUME NEW c \in Conns, Register(c) PROVE NewestInv'
  <2>1. /\ clients' = c /\ handler[c] = "hello"
        /\ handler' = [handler EXCEPT ![c] = "resync"]
        /\ UNCHANGED <<dials, dialed, cur, up>>
        /\ \A d \in Conns : d > c => handler[d] \in {"none", "hello"}
    BY <1>2 DEF Register, connVars
  <2>2. c <= dials
    BY <1>1, <2>1
  <2> QED
    BY <1>1, <2>1, <2>2
<1>3. ASSUME NEW c \in Conns, OnResync(c) \/ WriteResync(c) PROVE NewestInv'
  <2>1. /\ UNCHANGED <<dials, dialed, cur, up, clients>>
        /\ \/ handler' = handler
           \/ /\ handler[c] = "resync"
              /\ handler' = [handler EXCEPT ![c] = "live"]
    BY <1>3 DEF OnResync, WriteResync, connVars
  <2> QED
    BY <1>1, <2>1
<1>4. ASSUME NEW c \in Conns, HandlerEnds(c) PROVE NewestInv'
  BY <1>1, <1>4 DEF HandlerEnds, connVars
<1>5. ASSUME NEW c \in Conns, SendHello(c) PROVE NewestInv'
  BY <1>1, <1>5 DEF SendHello
<1>6. CASE AdoptConn
  BY <1>1, <1>6 DEF AdoptConn, serverVars
<1>7. CASE AdoptFails
  BY <1>1, <1>7 DEF AdoptFails, serverVars
<1>8. ASSUME NEW c \in Conns, ConnDies(c) PROVE NewestInv'
  BY <1>1, <1>8 DEF ConnDies, serverVars
<1>9. CASE UNCHANGED <<connVars, clients, handler>>
  BY <1>9 DEF connVars
<1> QED
  BY <1>2, <1>3, <1>4, <1>5, <1>6, <1>7, <1>8, <1>9
     DEF Next, Pty, HandlePTYOutput, LookupClient, SendOutput, Handle, PumpOutput,
         ReadOutputFrame, LoadLastOffset, StoreLastOffset, SendOut, RenderOutput, vars,
         serverVars

\* Between the replay and live output no chunk falls; and if the Hellos of a client's
\* connections are read in the order sent, and no failover fails after its Hello, the
\* end of an old connection never cuts the newest one off from live output.
THEOREM ReplayThenLiveHolds ==
    ASSUME "lateHello" \notin Faults, "failoverFails" \notin Faults
    PROVE  Spec => []ReplayThenLive
<1> USE DeliveryConstants
<1>1. Init => NewestInv
  BY DEF Init, NewestInv, Conns, None
<1>2. IInv /\ NewestInv /\ [Next]_vars => NewestInv'
  BY NewestKeeps
<1>3. IInv /\ NewestInv => ReplayThenLive
  <2> SUFFICES ASSUME IInv, NewestInv PROVE ReplayThenLive
    OBVIOUS
  <2>1. TypeOK
    <3>1. seq \in 0 .. MaxSeq /\ Known \subseteq Offsets
      BY DEF IInv, PtyInv, Known, Offsets
    <3>2. /\ \A c \in Conns : todo[c] \in Seq(Offsets) /\ written[c] \in Seq(Offsets)
          /\ out \in Seq(Offsets) /\ rendered \in Seq(Offsets)
      BY <3>1, SeqGrows DEF IInv, ServerInv, PumpInv, RenderInv
    <3>3. todo \in [Conns -> Seq(Offsets)] /\ written \in [Conns -> Seq(Offsets)]
      BY <3>2 DEF IInv, ServerInv
    <3>4. last \in [Conns -> 0 .. MaxSeq] /\ next \in [Conns -> 1 .. MaxSeq + 1]
      BY <3>1, SMTT(30) DEF IInv, ServerInv
    <3>5. /\ pump \in [Conns -> [at : {"read", "load", "store", "send"}, offset : 0 .. MaxSeq]]
          /\ lastOffset \in 0 .. MaxSeq /\ renderedSeq \in 0 .. MaxSeq
      BY <3>1 DEF IInv, PumpInv, RenderInv
    <3> QED
      BY <3>1, <3>2, <3>3, <3>4, <3>5 DEF IInv, PtyInv, ServerInv, ConnInv, PumpInv, TypeOK
  <2>2. NewConnStaysRegistered
    BY DEF NewConnStaysRegistered, NewestInv, IInv, ConnInv, Conns, None
  <2> QED
    BY <2>1, <2>2 DEF IInv, ReplayThenLive
<1> QED
  BY <1>1, <1>2, <1>3, DeliveryInvariant, PTL DEF Spec

\* Without any assumption on the faults: no chunk falls between replay and live output.
THEOREM NothingBetweenHolds == Spec => []NothingBetweenReplayAndLive
<1>1. IInv => NothingBetweenReplayAndLive
  BY DEF IInv
<1> QED
  BY <1>1, DeliveryInvariant, PTL
=============================================================================
