-------------------------- MODULE InputDedupProofs --------------------------
(***************************************************************************)
(* Proofs about InputDedup.  IInv is inductive: each action has a lemma     *)
(* that it preserves IInv (the two readers share ReaderStep, the two ways   *)
(* SendInput ends share GrowStream); the safety properties follow from it.  *)
(***************************************************************************)
EXTENDS InputDedup, TLAPS, SequenceTheorems

\* The invariant holds initially.
LEMMA InitIInv == Init => IInv
<1> SUFFICES ASSUME Init PROVE IInv
    OBVIOUS
<1>1. TypeOK
  <2>1. readers \in [Conns -> SUBSET Readers] /\ holder \in [Conns -> Readers]
    BY DEF Init, Readers
  <2>2. inDatagramsOK \in BOOLEAN /\ ctxDone \in BOOLEAN
    BY DEF Init
  <2> QED
    BY <2>1, <2>2, InputConstants DEF Init, TypeOK, Conns
<1>2. \A c \in Conns : Len(stream[c]) = 0 /\ Len(got[c]) = 0 /\ Len(hand[c]) = 0
    BY DEF Init
<1>3. \A d \in dgrams \union pend : GenuineDatagram(d)
    BY DEF Init
<1>4. StreamsOrdered
    BY <1>1, <1>2, InputConstants DEF Init, StreamsOrdered, Conns
<1>5. DedupState
    BY <1>1, <1>2 DEF Init, DedupState
<1>6. DeliveredOld
    BY <1>1, <1>2 DEF Init, DeliveredOld
<1>7. NothingDropped
    BY <1>1, <1>2 DEF Init, NothingDropped
<1> QED
    BY <1>1, <1>3, <1>4, <1>5, <1>6, <1>7 DEF IInv

\* Bytes delivered are no more than bytes applied, hence than the stream's.
LEMMA SumBelow ==
    \A g, h, a, l \in Nat : g + h = a /\ a <= l => g <= l
OBVIOUS

\* With nothing in hand all that was applied has been delivered.
LEMMA PlusZero ==
    \A g, h, a \in Nat : g + h = a /\ h = 0 => g = a
OBVIOUS

\* The x-th byte in hand is a byte of the stream.
LEMMA HandPosition ==
    \A a, h, l \in Nat : \A x \in 1 .. h :
        h <= a /\ a <= l => a - h + x \in 1 .. l
OBVIOUS

\* A byte delivered before precedes the x-th byte in hand.
LEMMA HandAfter ==
    \A a, h, l \in Nat : \A x \in 1 .. h : \A p \in 1 .. a - h :
        h <= a /\ a <= l => p \in 1 .. l /\ p < a - h + x
OBVIOUS

\* Bytes in hand keep their order in the stream.
LEMMA HandOrder ==
    \A a, h, g \in Nat : \A i, j \in Int : i < j => a - h + (i - g) < a - h + (j - g)
OBVIOUS

\* Later bytes of a write are later keystrokes.
LEMMA ShiftBelow ==
    \A t, l \in Nat : \A i, j \in Int : i < j => t + (i - l) < t + (j - l)
OBVIOUS

\* Bytes of a write of n bytes are among the next n keystrokes.
LEMMA ShiftAtMost ==
    \A t, n, l \in Nat : \A i \in Int : i - l <= n => t + (i - l) <= t + n
OBVIOUS

\* The bytes of one write: n of them, counted on from typed.
LEMMA KeysProperties ==
    ASSUME typed \in Nat, NEW n \in Nat
    PROVE  /\ Keys(n) \in Seq(Nat)
           /\ Len(Keys(n)) = n
           /\ \A i \in 1 .. n : Keys(n)[i] = typed + i
BY DEF Keys

\* The stream write of SendInput: the current stream grows by k bytes.
LEMMA WriteGrows ==
    ASSUME TypeOK, NEW n \in Nat, NEW k \in 0 .. n,
           stream' = [stream EXCEPT ![cur] = @ \o Keys(k)]
    PROVE  /\ stream' \in [Conns -> Seq(Nat)]
           /\ \A c \in Conns : Len(stream'[c]) = IF c = cur THEN Len(stream[c]) + k
                                                ELSE Len(stream[c])
           /\ \A c \in Conns : \A i \in 1 .. Len(stream[c]) : stream'[c][i] = stream[c][i]
           /\ \A i \in 1 .. k : stream'[cur][Len(stream[cur]) + i] = typed + i
<1>0. typed \in Nat /\ cur \in Conns /\ stream \in [Conns -> Seq(Nat)]
    BY DEF TypeOK
<1>1. /\ Keys(k) \in Seq(Nat) /\ Len(Keys(k)) = k
      /\ \A i \in 1 .. k : Keys(k)[i] = typed + i
    BY <1>0, KeysProperties
<1>2. /\ stream[cur] \o Keys(k) \in Seq(Nat)
      /\ Len(stream[cur] \o Keys(k)) = Len(stream[cur]) + k
      /\ \A i \in 1 .. Len(stream[cur]) + k : (stream[cur] \o Keys(k))[i] =
            IF i <= Len(stream[cur]) THEN stream[cur][i] ELSE Keys(k)[i - Len(stream[cur])]
  <2>1. stream[cur] \in Seq(Nat)
    BY <1>0
  <2>2. /\ stream[cur] \o Keys(k) \in Seq(Nat)
        /\ Len(stream[cur] \o Keys(k)) = Len(stream[cur]) + Len(Keys(k))
        /\ \A i \in 1 .. Len(stream[cur]) + Len(Keys(k)) : (stream[cur] \o Keys(k))[i] =
              IF i <= Len(stream[cur]) THEN stream[cur][i] ELSE Keys(k)[i - Len(stream[cur])]
    BY <2>1, <1>1, ConcatProperties, Zenon
  <2> QED
    BY <2>2, <1>1, Zenon
<1>3. stream' \in [Conns -> Seq(Nat)]
    BY <1>0, <1>2
<1>4. \A c \in Conns : Len(stream'[c]) = IF c = cur THEN Len(stream[c]) + k
                                        ELSE Len(stream[c])
    BY <1>0, <1>2
<1>5. \A c \in Conns : \A i \in 1 .. Len(stream[c]) : stream'[c][i] = stream[c][i]
    BY <1>0, <1>2
<1>6. \A i \in 1 .. k : stream'[cur][Len(stream[cur]) + i] = typed + i
    BY <1>0, <1>1, <1>2
<1> QED
    BY <1>3, <1>4, <1>5, <1>6

\* Growing a stream disturbs nothing that holds of the bytes already there.
LEMMA GrowStream ==
    ASSUME NEW n \in Nat, NEW k \in 0 .. n
    PROVE  /\ IInv
           /\ stream' = [stream EXCEPT ![cur] = @ \o Keys(k)]
           /\ typed' = typed + n
           /\ UNCHANGED <<cur, streamPos, applied, hand, got, ctxDone>>
           => /\ \A d \in Datagram : GenuineDatagram(d) => GenuineDatagram(d)'
              /\ \A c1, c2 \in Conns :
                   \A i \in 1 .. Len(stream'[c1]), j \in 1 .. Len(stream'[c2]) :
                     c1 < c2 \/ (c1 = c2 /\ i < j) => stream'[c1][i] < stream'[c2][j]
              /\ \A c \in Conns : \A i \in 1 .. Len(stream'[c]) : stream'[c][i] <= typed'
              /\ DedupState' /\ DeliveredOld' /\ NothingDropped'
<1>1. SUFFICES ASSUME IInv,
                      stream' = [stream EXCEPT ![cur] = @ \o Keys(k)],
                      typed' = typed + n,
                      UNCHANGED <<cur, streamPos, applied, hand, got, ctxDone>>
               PROVE  /\ \A d \in Datagram : GenuineDatagram(d) => GenuineDatagram(d)'
                      /\ \A c1, c2 \in Conns :
                           \A i \in 1 .. Len(stream'[c1]), j \in 1 .. Len(stream'[c2]) :
                             c1 < c2 \/ (c1 = c2 /\ i < j) => stream'[c1][i] < stream'[c2][j]
                      /\ \A c \in Conns : \A i \in 1 .. Len(stream'[c]) :
                           stream'[c][i] <= typed'
                      /\ DedupState' /\ DeliveredOld' /\ NothingDropped'
    OBVIOUS
<1>2. /\ TypeOK /\ StreamsOrdered /\ DedupState /\ DeliveredOld /\ NothingDropped
    BY <1>1 DEF IInv
<1>3. Conns \subseteq Nat
    BY InputConstants DEF Conns
<1>4. /\ typed \in Nat /\ cur \in Conns
      /\ \A c \in Conns : /\ stream[c] \in Seq(Nat) /\ Len(stream[c]) \in Nat
                          /\ streamPos[c] \in Nat /\ applied[c] \in Nat
                          /\ hand[c] \in Seq(Nat) /\ Len(hand[c]) \in Nat
                          /\ got[c] \in Seq(Nat) /\ Len(got[c]) \in Nat
    BY <1>2 DEF TypeOK
<1>5. /\ \A c \in Conns : Len(stream'[c]) = IF c = cur THEN Len(stream[c]) + k
                                           ELSE Len(stream[c])
      /\ \A c \in Conns : \A i \in 1 .. Len(stream[c]) : stream'[c][i] = stream[c][i]
      /\ \A i \in 1 .. k : stream'[cur][Len(stream[cur]) + i] = typed + i
    BY <1>1, <1>2, WriteGrows
<1>6. \A c \in Conns : \A i \in 1 .. Len(stream'[c]) :
         \/ i \in 1 .. Len(stream[c]) /\ stream'[c][i] = stream[c][i]
         \/ c = cur /\ i - Len(stream[c]) \in 1 .. k
              /\ stream'[c][i] = typed + (i - Len(stream[c]))
  <2>1. SUFFICES ASSUME NEW c \in Conns, NEW i \in 1 .. Len(stream'[c]),
                        i \notin 1 .. Len(stream[c])
                 PROVE  c = cur /\ i - Len(stream[c]) \in 1 .. k
                          /\ stream'[c][i] = typed + (i - Len(stream[c]))
    BY <1>5
  <2>2. c = cur /\ i - Len(stream[c]) \in 1 .. k
    BY <1>4, <1>5, <2>1
  <2>3. Len(stream[cur]) + (i - Len(stream[cur])) = i
    BY <1>4, <2>2
  <2> QED
    BY <1>5, <2>2, <2>3
<1>7. ASSUME NEW d \in Datagram, GenuineDatagram(d)
      PROVE  GenuineDatagram(d)'
  <2>1. d.conn \in Conns /\ d.offset \in Nat /\ Len(d.data) \in Nat
    BY DEF Datagram
  <2>2. /\ Len(stream[d.conn]) \in Nat /\ Len(stream'[d.conn]) \in Nat
        /\ Len(stream[d.conn]) <= Len(stream'[d.conn])
    <3>1. Len(stream[d.conn]) \in Nat
      BY <1>4, <2>1
    <3>2. Len(stream'[d.conn]) = Len(stream[d.conn]) + k
          \/ Len(stream'[d.conn]) = Len(stream[d.conn])
      BY <1>5, <2>1
    <3> QED
      BY <3>1, <3>2
  <2>3. \A i \in 1 .. Len(d.data) : d.offset + i \in 1 .. Len(stream[d.conn])
    BY <1>7, <2>1, <2>2, SMTT(30) DEF GenuineDatagram
  <2>4. d.offset + Len(d.data) <= Len(stream'[d.conn])
    BY <1>7, <2>1, <2>2 DEF GenuineDatagram
  <2> QED
    BY <1>5, <1>7, <2>1, <2>3, <2>4 DEF GenuineDatagram
<1>8. ASSUME NEW c \in Conns, NEW i \in 1 .. Len(stream[c])
      PROVE  stream[c][i] <= typed /\ stream[c][i] \in Nat
    BY <1>2, <1>4, ElementOfSeq DEF StreamsOrdered
<1>9. ASSUME NEW c \in Conns, NEW i \in 1 .. Len(stream'[c])
      PROVE  stream'[c][i] <= typed'
  <2>1. CASE i \in 1 .. Len(stream[c]) /\ stream'[c][i] = stream[c][i]
    <3> DEFINE x == stream[c][i]
    <3>1. x <= typed /\ x \in Nat
      BY <1>8, <2>1
    <3> HIDE DEF x
    <3>2. x <= typed + n
      BY <1>4, <3>1
    <3> QED
      BY <1>1, <2>1, <3>2 DEF x
  <2>2. CASE i - Len(stream[c]) \in 1 .. k /\ stream'[c][i] = typed + (i - Len(stream[c]))
    <3>1. typed + (i - Len(stream[c])) <= typed + n
      <4>1. typed \in Nat /\ Len(stream[c]) \in Nat
        BY <1>4
      <4>2. i \in Int /\ i - Len(stream[c]) <= n
        BY <2>2, <4>1
      <4> QED
        BY <4>1, <4>2, ShiftAtMost
    <3> QED
      BY <1>1, <2>2, <3>1
  <2> QED
    BY <1>6, <2>1, <2>2
<1>10. ASSUME NEW c1 \in Conns, NEW c2 \in Conns,
              NEW i \in 1 .. Len(stream'[c1]), NEW j \in 1 .. Len(stream'[c2]),
              c1 < c2 \/ (c1 = c2 /\ i < j)
       PROVE  stream'[c1][i] < stream'[c2][j]
  <2>1. CASE j \in 1 .. Len(stream[c2]) /\ i \in 1 .. Len(stream[c1])
    <3>1. stream[c1][i] < stream[c2][j]
      BY <1>2, <1>10, <2>1 DEF StreamsOrdered
    <3> QED
      BY <1>5, <2>1, <3>1
  <2>2. CASE j \notin 1 .. Len(stream[c2]) /\ i \in 1 .. Len(stream[c1])
    <3> DEFINE x == stream[c1][i]
               m == j - Len(stream[c2])
    <3>1. x <= typed /\ x \in Nat
      BY <1>8, <2>2
    <3>2. m \in 1 .. k /\ stream'[c2][j] = typed + m
      BY <1>6, <2>2
    <3>3. stream'[c1][i] = x
      BY <1>5, <2>2
    <3> HIDE DEF x, m
    <3>4. x < typed + m
      BY <1>4, <3>1, <3>2
    <3> QED
      BY <3>2, <3>3, <3>4
  <2>3. CASE i \notin 1 .. Len(stream[c1])
    <3>1. c1 = cur /\ i - Len(stream[c1]) \in 1 .. k
            /\ stream'[c1][i] = typed + (i - Len(stream[c1]))
      BY <1>6, <2>3
    <3>2. c2 = cur
      <4>1. ASSUME c2 > cur PROVE FALSE
        <5>1. stream[c2] = <<>> /\ c2 # cur
          BY <1>2, <1>3, <1>4, <4>1 DEF StreamsOrdered
        <5>2. Len(stream'[c2]) = 0
          BY <1>5, <5>1
        <5> QED
          BY <5>2
      <4> QED
        BY <1>3, <1>4, <1>10, <3>1, <4>1
    <3>3. i < j
      BY <1>3, <1>4, <1>10, <3>1, <3>2
    <3>4. j \notin 1 .. Len(stream[c2])
      BY <1>4, <2>3, <3>1, <3>2, <3>3
    <3>5. stream'[c2][j] = typed + (j - Len(stream[c2]))
      BY <1>6, <3>4
    <3>6. typed + (i - Len(stream[cur])) < typed + (j - Len(stream[cur]))
      <4>1. typed \in Nat /\ Len(stream[cur]) \in Nat /\ i \in Int /\ j \in Int
        BY <1>4
      <4> QED
        BY <3>3, <4>1, ShiftBelow
    <3> QED
      BY <3>1, <3>2, <3>5, <3>6
  <2> QED
    BY <2>1, <2>2, <2>3
<1>11. DedupState'
  <2>1. SUFFICES ASSUME NEW c \in Conns
                 PROVE  /\ streamPos[c] <= applied[c]
                        /\ applied[c] <= Len(stream'[c])
                        /\ Len(hand[c]) <= applied[c]
                        /\ \A i \in 1 .. Len(hand[c]) :
                             hand[c][i] = stream'[c][applied[c] - Len(hand[c]) + i]
    BY <1>1, ZenonT(30) DEF DedupState
  <2>2. Len(stream'[c]) \in Nat /\ Len(stream[c]) <= Len(stream'[c])
    BY <1>4, <1>5, SMTT(30)
  <2>3. \A i \in 1 .. Len(hand[c]) : applied[c] - Len(hand[c]) + i \in 1 .. Len(stream[c])
    <3>1. applied[c] \in Nat /\ Len(hand[c]) \in Nat /\ Len(stream[c]) \in Nat
      BY <1>4
    <3>2. Len(hand[c]) <= applied[c] /\ applied[c] <= Len(stream[c])
      BY <1>2 DEF DedupState
    <3> QED
      BY <3>1, <3>2, HandPosition
  <2>4. streamPos[c] <= applied[c] /\ applied[c] <= Len(stream'[c])
    BY <1>2, <1>4, <2>2 DEF DedupState
  <2> QED
    BY <1>2, <1>5, <2>3, <2>4 DEF DedupState
<1>12. DeliveredOld'
  <2>1. SUFFICES ASSUME NEW c \in Conns, NEW i \in 1 .. Len(got[c])
                 PROVE  \E p \in 1 .. applied[c] - Len(hand[c]) : got[c][i] = stream'[c][p]
    BY <1>1, <1>2, ZenonT(30) DEF DeliveredOld
  <2>2. PICK p \in 1 .. applied[c] - Len(hand[c]) : got[c][i] = stream[c][p]
    BY <1>2 DEF DeliveredOld
  <2>3. p \in 1 .. Len(stream[c])
    BY <1>2, <1>4 DEF DedupState
  <2> QED
    BY <1>5, <2>2, <2>3
<1>13. NothingDropped'
  <2>1. SUFFICES ASSUME ~ctxDone, NEW c \in Conns
                 PROVE  /\ Len(got[c]) + Len(hand[c]) = applied[c]
                        /\ \A i \in 1 .. Len(got[c]) : got[c][i] = stream'[c][i]
    BY <1>1 DEF NothingDropped
  <2>2. Len(got[c]) <= Len(stream[c])
    <3>1. Len(got[c]) + Len(hand[c]) = applied[c] /\ applied[c] <= Len(stream[c])
      BY <1>2, <2>1 DEF NothingDropped, DedupState
    <3>2. Len(got[c]) \in Nat /\ Len(hand[c]) \in Nat /\ applied[c] \in Nat
          /\ Len(stream[c]) \in Nat
      BY <1>4
    <3> QED
      BY <3>1, <3>2, SumBelow
  <2>3. \A i \in 1 .. Len(got[c]) : i \in 1 .. Len(stream[c])
    BY <1>4, <2>2
  <2> QED
    BY <1>2, <1>5, <2>1, <2>3 DEF NothingDropped
<1> QED
    BY <1>7, <1>9, <1>10, <1>11, <1>12, <1>13

\* A write that succeeds preserves the invariant; its datagram copy is genuine.
LEMMA SendInputIInv ==
    ASSUME NEW n \in 1 .. MaxWrite
    PROVE  IInv /\ SendInput(n) => IInv'
<1>1. SUFFICES ASSUME IInv, SendInput(n) PROVE IInv'
    OBVIOUS
<1>2. n \in Nat /\ n \in 0 .. n /\ n \in 1 .. n
    BY InputConstants
<1>3. TypeOK /\ StreamsOrdered /\ (\A d \in dgrams \union pend : GenuineDatagram(d))
    BY <1>1 DEF IInv
<1>4. /\ typed' = typed + n /\ cur' = cur /\ cur \in alive
      /\ stream' = [stream EXCEPT ![cur] = @ \o Keys(n)]
      /\ inOffset' = inOffset + n
      /\ UNCHANGED <<inDatagramsOK, alive, dgrams, readers, streamPos, applied, hand,
                     holder, got, ctxDone>>
      /\ pend' \subseteq {[conn |-> cur, offset |-> inOffset, data |-> Keys(n)]}
    BY <1>1 DEF SendInput, serverVars
<1>5. /\ stream' \in [Conns -> Seq(Nat)]
      /\ \A c \in Conns : Len(stream'[c]) = IF c = cur THEN Len(stream[c]) + n
                                           ELSE Len(stream[c])
      /\ \A i \in 1 .. n : stream'[cur][Len(stream[cur]) + i] = typed + i
    BY <1>2, <1>3, <1>4, WriteGrows
<1>6. /\ \A d \in Datagram : GenuineDatagram(d) => GenuineDatagram(d)'
      /\ \A c1, c2 \in Conns :
           \A i \in 1 .. Len(stream'[c1]), j \in 1 .. Len(stream'[c2]) :
             c1 < c2 \/ (c1 = c2 /\ i < j) => stream'[c1][i] < stream'[c2][j]
      /\ \A c \in Conns : \A i \in 1 .. Len(stream'[c]) : stream'[c][i] <= typed'
      /\ DedupState' /\ DeliveredOld' /\ NothingDropped'
    BY <1>1, <1>2, <1>4, GrowStream
<1>7. Keys(n) \in Seq(Nat) /\ Len(Keys(n)) = n /\ \A i \in 1 .. n : Keys(n)[i] = typed + i
    BY <1>2, <1>3, KeysProperties DEF TypeOK
<1>8. ASSUME NEW d \in pend'
      PROVE  d \in Datagram /\ GenuineDatagram(d)'
  <2>1. d = [conn |-> cur, offset |-> inOffset, data |-> Keys(n)]
    BY <1>4
  <2>2. inOffset = Len(stream[cur]) /\ inOffset \in Nat /\ cur \in Conns
    BY <1>3, <1>4 DEF StreamsOrdered, TypeOK
  <2>3. d \in Datagram
    BY <1>7, <2>1, <2>2 DEF Datagram
  <2>4. Len(stream'[cur]) = inOffset + n
    BY <1>5, <2>2
  <2>5. inOffset + n <= Len(stream'[cur])
    BY <1>2, <2>2, <2>4
  <2>6. \A i \in 1 .. n : Keys(n)[i] = stream'[cur][inOffset + i]
    BY <1>5, <1>7, <2>2
  <2>7. GenuineDatagram(d)'
    BY <1>7, <2>1, <2>5, <2>6 DEF GenuineDatagram
  <2> QED
    BY <2>3, <2>7
<1>9. TypeOK'
  <2>1. typed + n \in Nat /\ inOffset + n \in Nat
    BY <1>2, <1>3 DEF TypeOK
  <2>2. pend' \in SUBSET Datagram
    BY <1>8
  <2> QED
    BY <1>3, <1>4, <1>5, <2>1, <2>2 DEF TypeOK
<1>10. \A d \in dgrams' \union pend' : GenuineDatagram(d)'
    BY <1>3, <1>4, <1>6, <1>8 DEF TypeOK
<1>11. StreamsOrdered'
  <2>1. ASSUME NEW c \in Conns, c > cur PROVE stream'[c] = <<>> /\ c \notin alive
    <3>1. stream[c] = <<>> /\ c \notin alive
      BY <1>3, <2>1 DEF StreamsOrdered
    <3>2. cur \in Nat /\ c \in Nat
      BY <1>3, InputConstants DEF TypeOK, Conns
    <3>3. c # cur
      BY <2>1, <3>2
    <3> QED
      BY <1>3, <1>4, <3>1, <3>3 DEF TypeOK
  <2>2. inOffset' = Len(stream'[cur])
    BY <1>3, <1>4, <1>5 DEF StreamsOrdered, TypeOK
  <2> QED
    BY <1>4, <1>6, <2>1, <2>2 DEF StreamsOrdered
<1> QED
    BY <1>6, <1>9, <1>10, <1>11 DEF IInv

\* A write that fails after k bytes preserves the invariant.
LEMMA SendInputFailsIInv ==
    ASSUME NEW n \in 1 .. MaxWrite, NEW k \in 0 .. n - 1
    PROVE  IInv /\ SendInputFails(n, k) => IInv'
<1>1. SUFFICES ASSUME IInv, SendInputFails(n, k) PROVE IInv'
    OBVIOUS
<1>2. n \in Nat /\ k \in 0 .. n /\ k \in Nat
    BY InputConstants
<1>3. TypeOK /\ StreamsOrdered /\ (\A d \in dgrams \union pend : GenuineDatagram(d))
    BY <1>1 DEF IInv
<1>4. /\ typed' = typed + n /\ alive' = alive \ {cur}
      /\ stream' = [stream EXCEPT ![cur] = @ \o Keys(k)]
      /\ UNCHANGED <<cur, inOffset, inDatagramsOK, pend, dgrams, readers, streamPos, applied,
                     hand, holder, got, ctxDone>>
    BY <1>1 DEF SendInputFails, serverVars
<1>5. stream' \in [Conns -> Seq(Nat)]
    BY <1>2, <1>3, <1>4, WriteGrows
<1>6. /\ \A d \in Datagram : GenuineDatagram(d) => GenuineDatagram(d)'
      /\ \A c1, c2 \in Conns :
           \A i \in 1 .. Len(stream'[c1]), j \in 1 .. Len(stream'[c2]) :
             c1 < c2 \/ (c1 = c2 /\ i < j) => stream'[c1][i] < stream'[c2][j]
      /\ \A c \in Conns : \A i \in 1 .. Len(stream'[c]) : stream'[c][i] <= typed'
      /\ DedupState' /\ DeliveredOld' /\ NothingDropped'
    BY <1>1, <1>2, <1>4, GrowStream
<1>7. TypeOK'
  <2>1. typed + n \in Nat /\ alive \ {cur} \subseteq Conns
    BY <1>2, <1>3 DEF TypeOK
  <2> QED
    BY <1>3, <1>4, <1>5, <2>1 DEF TypeOK
<1>8. \A d \in dgrams' \union pend' : GenuineDatagram(d)'
    BY <1>3, <1>4, <1>6 DEF TypeOK
<1>9. StreamsOrdered'
  <2>1. ASSUME NEW c \in Conns, c > cur PROVE stream'[c] = <<>> /\ c \notin alive'
    <3>1. stream[c] = <<>> /\ c \notin alive
      BY <1>3, <2>1 DEF StreamsOrdered
    <3>2. cur \in Nat /\ c \in Nat
      BY <1>3, InputConstants DEF TypeOK, Conns
    <3>3. c # cur
      BY <2>1, <3>2
    <3> QED
      BY <1>3, <1>4, <3>1, <3>3 DEF TypeOK
  <2> QED
    BY <1>4, <1>6, <2>1 DEF StreamsOrdered
<1> QED
    BY <1>6, <1>7, <1>8, <1>9 DEF IInv

\* What fromStream returns is exactly the part of the read above applied.
LEMMA FromStreamProperties ==
    ASSUME NEW c, NEW n \in Nat \ {0}, NEW s \in Seq(Nat),
           streamPos[c] \in Nat, applied[c] \in Nat,
           streamPos[c] <= applied[c], streamPos[c] + n <= Len(s)
    PROVE  LET out == FromStream(c, SubSeq(s, streamPos[c] + 1, streamPos[c] + n))
               top == streamPos[c] + n
           IN  /\ out \in Seq(Nat)
               /\ Len(out) = IF applied[c] < top THEN top - applied[c] ELSE 0
               /\ \A i \in 1 .. Len(out) : out[i] = s[applied[c] + i]
<1> DEFINE sp == streamPos[c]
           ap == applied[c]
           data == SubSeq(s, sp + 1, sp + n)
           out == FromStream(c, data)
<1>1. sp \in Nat /\ ap \in Nat /\ sp <= ap /\ sp + n <= Len(s) /\ Len(s) \in Nat
    OBVIOUS
<1>2. \A i \in 1 .. Len(s) : s[i] \in Nat
    BY ElementOfSeq
<1> HIDE DEF sp, ap
<1>3. data \in Seq(Nat) /\ Len(data) = n /\ \A i \in 1 .. n : data[i] = s[sp + i]
  <2>1. \A i \in sp + 1 .. sp + n : s[i] \in Nat
    BY <1>1, <1>2
  <2>2. sp + 1 \in Int /\ sp + n \in Int
    BY <1>1
  <2>3. /\ SubSeq(s, sp + 1, sp + n) \in Seq(Nat)
        /\ Len(SubSeq(s, sp + 1, sp + n)) =
             IF sp + 1 <= sp + n THEN (sp + n) - (sp + 1) + 1 ELSE 0
        /\ \A i \in 1 .. (sp + n) - (sp + 1) + 1 :
              SubSeq(s, sp + 1, sp + n)[i] = s[(sp + 1) + i - 1]
    BY <2>1, <2>2, SubSeqProperties
  <2>4. sp + 1 <= sp + n /\ (sp + n) - (sp + 1) + 1 = n
        /\ \A i \in 1 .. n : (sp + 1) + i - 1 = sp + i
    BY <1>1, SMTT(30)
  <2>5. data \in Seq(Nat) /\ Len(data) = n
    BY <2>3, <2>4
  <2>6. \A i \in 1 .. n : data[i] = s[(sp + 1) + i - 1]
    BY <2>3, <2>4, Zenon
  <2> QED
    BY <2>4, <2>5, <2>6, Zenon
<1> HIDE DEF data
<1>4. CASE sp >= ap
  <2>1. out = data
    BY <1>4 DEF FromStream, sp, ap
  <2>2. sp = ap
    BY <1>1, <1>4
  <2>3. ap < sp + n /\ (sp + n) - ap = n
    BY <1>1, <2>2
  <2> QED
    BY <1>3, <2>1, <2>2, <2>3 DEF data, sp, ap
<1>5. CASE sp < ap
  <2> DEFINE skip == Least(ap - sp, n)
  <2>1. out = SubSeq(data, skip + 1, n)
    <3>1. ~(sp >= ap) /\ Len(data) = n
      BY <1>1, <1>3, <1>5
    <3> QED
      BY <3>1, Zenon DEF FromStream, sp, ap
  <2>2. skip \in 1 .. n /\ (ap < sp + n => skip = ap - sp) /\ (~(ap < sp + n) => skip = n)
    BY <1>1, <1>5 DEF Least
  <2> HIDE DEF skip
  <2>3. \A i \in skip + 1 .. n : data[i] \in Nat
    BY <1>3, <2>2, ElementOfSeq
  <2>4. skip + 1 \in Int /\ n \in Int
    BY <2>2
  <2>5. /\ SubSeq(data, skip + 1, n) \in Seq(Nat)
        /\ Len(SubSeq(data, skip + 1, n)) =
             IF skip + 1 <= n THEN n - (skip + 1) + 1 ELSE 0
        /\ \A i \in 1 .. n - (skip + 1) + 1 :
              SubSeq(data, skip + 1, n)[i] = data[(skip + 1) + i - 1]
    BY <2>3, <2>4, SubSeqProperties
  <2>6. Len(out) = IF ap < sp + n THEN (sp + n) - ap ELSE 0
    BY <1>1, <2>1, <2>2, <2>5
  <2>7. ASSUME NEW i \in 1 .. Len(out) PROVE out[i] = s[ap + i]
    <3>1. ap < sp + n /\ skip = ap - sp /\ i \in 1 .. (sp + n) - ap
      BY <1>1, <2>2, <2>6
    <3>2. /\ i \in 1 .. n - (skip + 1) + 1
          /\ (skip + 1) + i - 1 = skip + i /\ skip + i \in 1 .. n
          /\ sp + (skip + i) = ap + i
      BY <1>1, <2>2, <3>1
    <3> QED
      BY <1>3, <2>1, <2>5, <3>2
  <2> QED
    BY <2>1, <2>5, <2>6, <2>7 DEF data, sp, ap
<1> QED
    BY <1>1, <1>4, <1>5 DEF sp, ap, data

\* A reader of c advances applied by what it takes in hand, which is what the
\* stream carries there.
LEMMA ReaderStep ==
    ASSUME NEW c \in Conns, NEW out \in Seq(Nat)
    PROVE  /\ IInv
           /\ hand[c] = <<>>
           /\ hand' = [hand EXCEPT ![c] = out]
           /\ applied'[c] = applied[c] + Len(out)
           /\ applied' = [applied EXCEPT ![c] = applied'[c]]
           /\ streamPos' = [streamPos EXCEPT ![c] = streamPos'[c]]
           /\ streamPos'[c] \in Nat /\ streamPos'[c] <= applied'[c]
           /\ applied'[c] <= Len(stream[c])
           /\ \A i \in 1 .. Len(out) : out[i] = stream[c][applied[c] + i]
           /\ UNCHANGED <<stream, got, ctxDone>>
           => /\ hand' \in [Conns -> Seq(Nat)] /\ applied' \in [Conns -> Nat]
              /\ streamPos' \in [Conns -> Nat]
              /\ DedupState' /\ DeliveredOld' /\ NothingDropped'
<1>1. SUFFICES ASSUME IInv,
                      hand[c] = <<>>,
                      hand' = [hand EXCEPT ![c] = out],
                      applied'[c] = applied[c] + Len(out),
                      applied' = [applied EXCEPT ![c] = applied'[c]],
                      streamPos' = [streamPos EXCEPT ![c] = streamPos'[c]],
                      streamPos'[c] \in Nat, streamPos'[c] <= applied'[c],
                      applied'[c] <= Len(stream[c]),
                      \A i \in 1 .. Len(out) : out[i] = stream[c][applied[c] + i],
                      UNCHANGED <<stream, got, ctxDone>>
               PROVE  /\ hand' \in [Conns -> Seq(Nat)] /\ applied' \in [Conns -> Nat]
                      /\ streamPos' \in [Conns -> Nat]
                      /\ DedupState' /\ DeliveredOld' /\ NothingDropped'
    OBVIOUS
<1>2. TypeOK /\ DedupState /\ DeliveredOld /\ NothingDropped
    BY <1>1 DEF IInv
<1>3. applied[c] \in Nat /\ Len(out) \in Nat /\ Len(hand[c]) = 0
    BY <1>1, <1>2 DEF TypeOK
<1>4. hand' \in [Conns -> Seq(Nat)] /\ applied' \in [Conns -> Nat]
      /\ streamPos' \in [Conns -> Nat]
  <2>1. applied'[c] \in Nat
    BY <1>1, <1>3
  <2> QED
    BY <1>1, <1>2, <2>1 DEF TypeOK
<1>5. /\ hand'[c] = out /\ applied'[c] = applied[c] + Len(out)
      /\ \A b \in Conns \ {c} : hand'[b] = hand[b] /\ applied'[b] = applied[b]
                                 /\ streamPos'[b] = streamPos[b]
      /\ stream' = stream /\ got' = got /\ ctxDone' = ctxDone
    BY <1>1, <1>2 DEF TypeOK
<1>6. applied'[c] - Len(out) = applied[c]
    BY <1>3, <1>5
<1>7. DedupState'
  <2>1. SUFFICES ASSUME NEW b \in Conns
                 PROVE  /\ streamPos'[b] <= applied'[b]
                        /\ applied'[b] <= Len(stream[b])
                        /\ Len(hand'[b]) <= applied'[b]
                        /\ \A i \in 1 .. Len(hand'[b]) :
                             hand'[b][i] = stream[b][applied'[b] - Len(hand'[b]) + i]
    BY <1>5 DEF DedupState
  <2>2. CASE b = c
    <3>1. Len(out) <= applied[c] + Len(out)
      BY <1>3
    <3> QED
      BY <1>1, <1>5, <1>6, <2>2, <3>1
  <2>3. CASE b # c
    BY <1>2, <1>5, <2>3 DEF DedupState
  <2> QED
    BY <2>2, <2>3
<1>8. \A b \in Conns : applied'[b] - Len(hand'[b]) = applied[b] - Len(hand[b])
    BY <1>3, <1>5, <1>6
<1>9. DeliveredOld'
    BY <1>2, <1>5, <1>8 DEF DeliveredOld
<1>10. NothingDropped'
  <2>1. SUFFICES ASSUME ~ctxDone, NEW b \in Conns
                 PROVE  /\ Len(got[b]) + Len(hand'[b]) = applied'[b]
                        /\ \A i \in 1 .. Len(got[b]) : got[b][i] = stream[b][i]
    BY <1>5 DEF NothingDropped
  <2>2. Len(got[b]) + Len(hand[b]) = applied[b]
        /\ \A i \in 1 .. Len(got[b]) : got[b][i] = stream[b][i]
    BY <1>2, <2>1 DEF NothingDropped
  <2>3. Len(got[b]) \in Nat
    BY <1>2 DEF TypeOK
  <2>4. CASE b = c
    <3>1. Len(got[c]) = applied[c]
      <4>1. Len(got[c]) + Len(hand[c]) = applied[c] /\ Len(got[c]) \in Nat
        BY <2>2, <2>3, <2>4
      <4>2. Len(hand[c]) \in Nat
        BY <1>3
      <4> QED
        BY <1>3, <4>1, <4>2, PlusZero
    <3> QED
      BY <1>5, <2>2, <2>4, <3>1
  <2>5. CASE b # c
    BY <1>5, <2>2, <2>5
  <2> QED
    BY <2>4, <2>5
<1> QED
    BY <1>4, <1>7, <1>9, <1>10

\* One read of the input stream preserves the invariant.
LEMMA ReadInputIInv ==
    ASSUME NEW c \in Conns, NEW n \in 1 .. ReadSize
    PROVE  IInv /\ ReadInput(c, n) => IInv'
<1>1. SUFFICES ASSUME IInv, ReadInput(c, n) PROVE IInv'
    OBVIOUS
<1> DEFINE out == FromStream(c, SubSeq(stream[c], streamPos[c] + 1, streamPos[c] + n))
           top == streamPos[c] + n
<1>2. TypeOK /\ StreamsOrdered /\ DedupState
      /\ (\A d \in dgrams \union pend : GenuineDatagram(d))
    BY <1>1 DEF IInv
<1>3. /\ hand[c] = <<>> /\ top <= Len(stream[c])
      /\ hand' = [hand EXCEPT ![c] = out]
      /\ streamPos' = [streamPos EXCEPT ![c] = @ + n]
      /\ applied' = [applied EXCEPT ![c] = IF @ < top THEN top ELSE @]
      /\ holder' = [holder EXCEPT ![c] = "stream"]
      /\ UNCHANGED <<typed, cur, inOffset, inDatagramsOK, pend, stream, alive, dgrams,
                     readers, got, ctxDone>>
    BY <1>1 DEF ReadInput, clientVars, netVars
<1>4. /\ stream[c] \in Seq(Nat) /\ streamPos[c] \in Nat /\ applied[c] \in Nat
      /\ streamPos[c] <= applied[c] /\ applied[c] <= Len(stream[c])
      /\ n \in Nat \ {0} /\ Len(stream[c]) \in Nat
    BY <1>2, InputConstants DEF TypeOK, DedupState
<1>5. /\ out \in Seq(Nat)
      /\ Len(out) = IF applied[c] < top THEN top - applied[c] ELSE 0
      /\ \A i \in 1 .. Len(out) : out[i] = stream[c][applied[c] + i]
    BY <1>3, <1>4, FromStreamProperties
<1> HIDE DEF out
<1>6. /\ streamPos'[c] = top
      /\ applied'[c] = IF applied[c] < top THEN top ELSE applied[c]
      /\ applied' = [applied EXCEPT ![c] = applied'[c]]
      /\ streamPos' = [streamPos EXCEPT ![c] = streamPos'[c]]
    BY <1>2, <1>3 DEF TypeOK
<1>7. top \in Nat
    BY <1>4
<1>8. top <= Len(stream[c])
    BY <1>3
<1> HIDE DEF top
<1>9. /\ applied'[c] = applied[c] + Len(out)
      /\ streamPos'[c] \in Nat /\ streamPos'[c] <= applied'[c]
      /\ applied'[c] <= Len(stream[c])
    BY <1>4, <1>5, <1>6, <1>7, <1>8
<1>10. /\ hand' \in [Conns -> Seq(Nat)] /\ applied' \in [Conns -> Nat]
       /\ streamPos' \in [Conns -> Nat]
       /\ DedupState' /\ DeliveredOld' /\ NothingDropped'
    BY <1>1, <1>3, <1>5, <1>6, <1>9, ReaderStep
<1>11. holder' \in [Conns -> Readers]
    BY <1>2, <1>3 DEF TypeOK, Readers
<1>12. TypeOK'
    BY <1>2, <1>3, <1>10, <1>11 DEF TypeOK
<1>13. StreamsOrdered' /\ (\A d \in dgrams' \union pend' : GenuineDatagram(d)')
    BY <1>2, <1>3 DEF StreamsOrdered, GenuineDatagram
<1> QED
    BY <1>10, <1>12, <1>13 DEF IInv

\* One datagram read preserves the invariant.
LEMMA ReadInputDatagramsIInv ==
    ASSUME NEW d \in dgrams
    PROVE  IInv /\ ReadInputDatagrams(d) => IInv'
<1>1. SUFFICES ASSUME IInv, ReadInputDatagrams(d) PROVE IInv'
    OBVIOUS
<1> DEFINE c == d.conn
           out == FromDatagram(c, d.offset, d.data)
<1>2. TypeOK /\ StreamsOrdered /\ DedupState
      /\ (\A e \in dgrams \union pend : GenuineDatagram(e))
    BY <1>1 DEF IInv
<1>3. /\ hand[c] = <<>>
      /\ dgrams' = dgrams \ {d}
      /\ hand' = [hand EXCEPT ![c] = out]
      /\ applied' = [applied EXCEPT ![c] = @ + Len(out)]
      /\ holder' = [holder EXCEPT ![c] = "datagram"]
      /\ UNCHANGED <<typed, cur, inOffset, inDatagramsOK, pend, stream, alive,
                     readers, streamPos, got, ctxDone>>
    BY <1>1 DEF ReadInputDatagrams, clientVars
<1>4. /\ c \in Conns /\ d.offset \in Nat /\ d.data \in Seq(Nat)
      /\ d.offset + Len(d.data) <= Len(stream[c])
      /\ \A i \in 1 .. Len(d.data) : d.data[i] = stream[c][d.offset + i]
    BY <1>2 DEF TypeOK, Datagram, GenuineDatagram
<1>5. /\ streamPos[c] \in Nat /\ applied[c] \in Nat /\ Len(stream[c]) \in Nat
      /\ streamPos[c] <= applied[c] /\ applied[c] <= Len(stream[c])
    BY <1>2, <1>4 DEF TypeOK, DedupState
<1>6. /\ out \in Seq(Nat) /\ Len(out) \in Nat
      /\ applied[c] + Len(out) <= Len(stream[c])
      /\ \A i \in 1 .. Len(out) : out[i] = stream[c][applied[c] + i]
  <2>1. CASE d.offset # applied[c] \/ Len(d.data) = 0
    <3>1. out = <<>>
      BY <2>1 DEF FromDatagram
    <3>2. Len(out) = 0 /\ out \in Seq(Nat)
      BY <3>1
    <3> HIDE DEF out
    <3>3. applied[c] + Len(out) = applied[c]
      BY <1>5, <3>2
    <3> QED
      BY <1>5, <3>2, <3>3
  <2>2. CASE ~(d.offset # applied[c] \/ Len(d.data) = 0)
    <3>1. out = d.data /\ d.offset = applied[c]
      BY <2>2 DEF FromDatagram
    <3> HIDE DEF out
    <3> QED
      BY <1>4, <1>5, <3>1
  <2> QED
    BY <2>1, <2>2
<1> HIDE DEF out
<1>7. /\ applied'[c] = applied[c] + Len(out)
      /\ applied' = [applied EXCEPT ![c] = applied'[c]]
      /\ streamPos' = [streamPos EXCEPT ![c] = streamPos'[c]]
      /\ streamPos'[c] = streamPos[c]
    BY <1>2, <1>3, <1>4 DEF TypeOK
<1>8. streamPos'[c] \in Nat /\ streamPos'[c] <= applied'[c] /\ applied'[c] <= Len(stream[c])
    BY <1>5, <1>6, <1>7
<1>9. /\ hand' \in [Conns -> Seq(Nat)] /\ applied' \in [Conns -> Nat]
      /\ streamPos' \in [Conns -> Nat]
      /\ DedupState' /\ DeliveredOld' /\ NothingDropped'
    BY <1>1, <1>3, <1>4, <1>6, <1>7, <1>8, ReaderStep
<1>10. holder' \in [Conns -> Readers] /\ dgrams' \in SUBSET Datagram
    BY <1>2, <1>3 DEF TypeOK, Readers
<1>11. TypeOK'
    BY <1>2, <1>3, <1>9, <1>10 DEF TypeOK
<1>12. StreamsOrdered' /\ (\A e \in dgrams' \union pend' : GenuineDatagram(e)')
    BY <1>2, <1>3 DEF StreamsOrdered, GenuineDatagram
<1> QED
    BY <1>9, <1>11, <1>12 DEF IInv

\* The send to s.input preserves the invariant.
LEMMA DeliverInputIInv ==
    ASSUME NEW c \in Conns
    PROVE  IInv /\ DeliverInput(c) => IInv'
<1>1. SUFFICES ASSUME IInv, DeliverInput(c) PROVE IInv'
    OBVIOUS
<1>2. TypeOK /\ StreamsOrdered /\ DedupState /\ DeliveredOld /\ NothingDropped
      /\ (\A d \in dgrams \union pend : GenuineDatagram(d))
    BY <1>1 DEF IInv
<1>3. /\ got' = [got EXCEPT ![c] = @ \o hand[c]]
      /\ hand' = [hand EXCEPT ![c] = <<>>]
      /\ UNCHANGED <<typed, cur, inOffset, inDatagramsOK, pend, stream, alive, dgrams,
                     readers, streamPos, applied, holder, ctxDone>>
    BY <1>1 DEF DeliverInput, clientVars, netVars
<1>4. /\ got[c] \in Seq(Nat) /\ hand[c] \in Seq(Nat) /\ stream[c] \in Seq(Nat)
      /\ applied[c] \in Nat /\ Len(hand[c]) <= applied[c] /\ applied[c] <= Len(stream[c])
      /\ \A i \in 1 .. Len(hand[c]) : hand[c][i] = stream[c][applied[c] - Len(hand[c]) + i]
    BY <1>2 DEF TypeOK, DedupState
<1> DEFINE g == Len(got[c])
           h == Len(hand[c])
           new == got[c] \o hand[c]
<1>5. g \in Nat /\ h \in Nat /\ Len(stream[c]) \in Nat
    BY <1>4
<1>6. new \in Seq(Nat) /\ Len(new) = g + h
      /\ \A i \in 1 .. g + h : new[i] = IF i <= g THEN got[c][i] ELSE hand[c][i - g]
    BY <1>4, ConcatProperties, ZenonT(30)
<1>7. got' \in [Conns -> Seq(Nat)] /\ hand' \in [Conns -> Seq(Nat)]
      /\ got'[c] = new /\ hand'[c] = <<>>
      /\ \A b \in Conns \ {c} : got'[b] = got[b] /\ hand'[b] = hand[b]
    BY <1>2, <1>3, <1>6, SMTT(30) DEF TypeOK
<1> HIDE DEF new, g, h
<1>8. \A i \in 1 .. g + h : \/ i \in 1 .. g /\ new[i] = got[c][i]
                            \/ i - g \in 1 .. h /\ new[i] = hand[c][i - g]
    BY <1>5, <1>6
<1>9. h <= applied[c] /\ applied[c] <= Len(stream[c])
      /\ \A i \in 1 .. h : hand[c][i] = stream[c][applied[c] - h + i]
                           /\ applied[c] - h + i \in 1 .. Len(stream[c])
  <2>1. h <= applied[c] /\ applied[c] <= Len(stream[c])
        /\ \A i \in 1 .. h : hand[c][i] = stream[c][applied[c] - h + i]
    BY <1>4 DEF h
  <2> QED
    BY <1>4, <1>5, <2>1, SMTT(30)
<1>10. TypeOK'
    BY <1>2, <1>3, <1>7 DEF TypeOK
<1>11. StreamsOrdered' /\ (\A d \in dgrams' \union pend' : GenuineDatagram(d)')
    BY <1>2, <1>3 DEF StreamsOrdered, GenuineDatagram
<1>12. DedupState'
  <2>1. Len(hand'[c]) = 0
    BY <1>7
  <2>2. Len(hand'[c]) <= applied[c]
    BY <1>4, <2>1
  <2>3. \A i \in 1 .. Len(hand'[c]) :
           hand'[c][i] = stream[c][applied[c] - Len(hand'[c]) + i]
    BY <2>1
  <2> QED
    BY <1>2, <1>3, <1>7, <2>2, <2>3 DEF DedupState
<1>13. \A i \in 1 .. g : \E p \in 1 .. applied[c] - h : got[c][i] = stream[c][p]
    BY <1>2 DEF DeliveredOld, g, h
<1>14. \A i, j \in 1 .. g + h : i < j => new[i] < new[j]
  <2>1. SUFFICES ASSUME NEW i \in 1 .. g + h, NEW j \in 1 .. g + h, i < j
                 PROVE  new[i] < new[j]
    OBVIOUS
  <2>2. CASE j \in 1 .. g
    <3>1. i \in 1 .. g
      BY <1>5, <2>1, <2>2
    <3>2. got[c][i] < got[c][j]
      BY <1>2, <2>1, <2>2, <3>1 DEF DeliveredOld, g
    <3> QED
      BY <1>5, <1>6, <2>2, <3>1, <3>2
  <2>3. CASE j \notin 1 .. g /\ i \in 1 .. g
    <3>1. j - g \in 1 .. h /\ new[j] = stream[c][applied[c] - h + (j - g)]
      BY <1>8, <1>9, <2>3
    <3>2. PICK p \in 1 .. applied[c] - h : got[c][i] = stream[c][p]
      BY <1>13, <2>3
    <3>3. /\ p \in 1 .. Len(stream[c]) /\ applied[c] - h + (j - g) \in 1 .. Len(stream[c])
          /\ p < applied[c] - h + (j - g)
      BY <1>4, <1>5, <1>9, <3>1, HandPosition, HandAfter
    <3>4. stream[c][p] < stream[c][applied[c] - h + (j - g)]
      BY <1>2, <3>3 DEF StreamsOrdered
    <3>5. new[i] = got[c][i]
      BY <1>5, <1>6, <2>3
    <3> QED
      BY <3>1, <3>2, <3>4, <3>5
  <2>4. CASE j \notin 1 .. g /\ i \notin 1 .. g
    <3>1. /\ j - g \in 1 .. h /\ new[j] = stream[c][applied[c] - h + (j - g)]
          /\ i - g \in 1 .. h /\ new[i] = stream[c][applied[c] - h + (i - g)]
      BY <1>8, <1>9, <2>4
    <3>2. /\ applied[c] - h + (i - g) \in 1 .. Len(stream[c])
          /\ applied[c] - h + (j - g) \in 1 .. Len(stream[c])
          /\ applied[c] - h + (i - g) < applied[c] - h + (j - g)
      <4>1. /\ applied[c] - h + (i - g) \in 1 .. Len(stream[c])
            /\ applied[c] - h + (j - g) \in 1 .. Len(stream[c])
        BY <1>4, <1>5, <1>9, <3>1, HandPosition
      <4>2. i \in Int /\ j \in Int /\ i < j
        BY <2>1
      <4> QED
        BY <1>4, <1>5, <4>1, <4>2, HandOrder
    <3>3. stream[c][applied[c] - h + (i - g)] < stream[c][applied[c] - h + (j - g)]
      BY <1>2, <3>2 DEF StreamsOrdered
    <3> QED
      BY <3>1, <3>3
  <2> QED
    BY <2>2, <2>3, <2>4, <1>5, <2>1
<1>15. \A i \in 1 .. g + h : \E p \in 1 .. applied[c] - 0 : new[i] = stream[c][p]
  <2>1. SUFFICES ASSUME NEW i \in 1 .. g + h
                 PROVE  \E p \in 1 .. applied[c] : new[i] = stream[c][p]
    BY <1>4, SMTT(30)
  <2>2. CASE i \in 1 .. g
    <3>1. PICK p \in 1 .. applied[c] - h : got[c][i] = stream[c][p]
      BY <1>13, <2>2
    <3>2. p \in 1 .. applied[c]
      BY <1>4, <1>5
    <3>3. new[i] = got[c][i]
      BY <1>5, <1>6, <2>2
    <3> QED
      BY <3>1, <3>2, <3>3
  <2>3. CASE i \notin 1 .. g
    <3>1. i - g \in 1 .. h /\ new[i] = stream[c][applied[c] - h + (i - g)]
      BY <1>8, <1>9, <2>3
    <3>2. applied[c] - h + (i - g) \in 1 .. applied[c]
      BY <1>4, <1>5, <1>9, <3>1, HandPosition
    <3> QED
      BY <3>1, <3>2
  <2> QED
    BY <2>2, <2>3
<1>16. DeliveredOld'
  <2>1. Len(got'[c]) = g + h /\ Len(hand'[c]) = 0
    BY <1>6, <1>7
  <2>2. /\ \A i, j \in 1 .. Len(got'[c]) : i < j => got'[c][i] < got'[c][j]
        /\ \A i \in 1 .. Len(got'[c]) :
             \E p \in 1 .. applied[c] - Len(hand'[c]) : got'[c][i] = stream[c][p]
    <3>1. got'[c] = new /\ Len(got'[c]) = g + h /\ Len(hand'[c]) = 0
      BY <1>7, <2>1, Zenon
    <3> QED
      BY <1>14, <1>15, <3>1, ZenonT(30)
  <2> QED
    <3>1. stream' = stream /\ applied' = applied
      BY <1>3
    <3>2. SUFFICES ASSUME NEW b \in Conns
                   PROVE  /\ \A i, j \in 1 .. Len(got'[b]) : i < j => got'[b][i] < got'[b][j]
                          /\ \A i \in 1 .. Len(got'[b]) :
                               \E p \in 1 .. applied[b] - Len(hand'[b]) :
                                  got'[b][i] = stream[b][p]
      BY <3>1, Zenon DEF DeliveredOld
    <3>3. CASE b = c
      BY <2>2, <3>3
    <3>4. CASE b # c
      <4>1. got'[b] = got[b] /\ hand'[b] = hand[b]
        BY <1>7, <3>4
      <4>2. /\ \A i, j \in 1 .. Len(got[b]) : i < j => got[b][i] < got[b][j]
            /\ \A i \in 1 .. Len(got[b]) :
                 \E p \in 1 .. applied[b] - Len(hand[b]) : got[b][i] = stream[b][p]
        BY <1>2 DEF DeliveredOld
      <4> QED
        BY <4>1, <4>2
    <3> QED
      BY <3>3, <3>4
<1>17. NothingDropped'
  <2>1. SUFFICES ASSUME ~ctxDone, NEW b \in Conns
                 PROVE  /\ Len(got'[b]) + Len(hand'[b]) = applied[b]
                        /\ \A i \in 1 .. Len(got'[b]) : got'[b][i] = stream[b][i]
    <3>1. stream' = stream /\ applied' = applied /\ ctxDone' = ctxDone
      BY <1>3
    <3> QED
      BY <3>1, Zenon DEF NothingDropped
  <2>2. CASE b # c
    BY <1>2, <1>7, <2>1, <2>2, ZenonT(30) DEF NothingDropped
  <2>3. CASE b = c
    <3>1. g + h = applied[c] /\ \A i \in 1 .. g : got[c][i] = stream[c][i]
      BY <1>2, <2>1 DEF NothingDropped, g, h
    <3>2. Len(got'[c]) = g + h /\ Len(hand'[c]) = 0
      BY <1>6, <1>7
    <3>3. ASSUME NEW i \in 1 .. g + h PROVE new[i] = stream[c][i]
      <4>1. CASE i \in 1 .. g
        <5>1. new[i] = got[c][i]
          BY <1>5, <1>6, <4>1
        <5> QED
          BY <3>1, <4>1, <5>1
      <4>2. CASE i \notin 1 .. g
        <5>1. i - g \in 1 .. h /\ new[i] = stream[c][applied[c] - h + (i - g)]
          BY <1>8, <1>9, <4>2
        <5>2. applied[c] - h + (i - g) = i
          BY <1>5, <3>1
        <5> QED
          BY <5>1, <5>2
      <4> QED
        BY <4>1, <4>2
    <3>4. (g + h) + 0 = applied[c]
      BY <1>5, <3>1
    <3> QED
      BY <1>7, <2>3, <3>2, <3>3, <3>4
  <2> QED
    BY <2>2, <2>3
<1> QED
    BY <1>10, <1>11, <1>12, <1>16, <1>17 DEF IInv

\* Giving up the send after Close preserves the invariant.
LEMMA AbandonInputIInv ==
    ASSUME NEW c \in Conns
    PROVE  IInv /\ AbandonInput(c) => IInv'
<1>1. SUFFICES ASSUME IInv, AbandonInput(c) PROVE IInv'
    OBVIOUS
<1>2. TypeOK /\ StreamsOrdered /\ DedupState /\ DeliveredOld
      /\ (\A d \in dgrams \union pend : GenuineDatagram(d))
    BY <1>1 DEF IInv
<1>3. /\ ctxDone /\ hand' = [hand EXCEPT ![c] = <<>>]
      /\ readers' = [readers EXCEPT ![c] = @ \ {holder[c]}]
      /\ UNCHANGED <<typed, cur, inOffset, inDatagramsOK, pend, stream, alive, dgrams,
                     streamPos, applied, holder, got, ctxDone>>
    BY <1>1 DEF AbandonInput, clientVars, netVars
<1>4. TypeOK'
    BY <1>2, <1>3 DEF TypeOK
<1>5. StreamsOrdered' /\ (\A d \in dgrams' \union pend' : GenuineDatagram(d)')
    BY <1>2, <1>3 DEF StreamsOrdered, GenuineDatagram
<1>6. /\ Len(hand'[c]) = 0 /\ hand'[c] = <<>>
      /\ \A b \in Conns \ {c} : hand'[b] = hand[b]
    BY <1>2, <1>3 DEF TypeOK
<1>7. applied[c] \in Nat /\ Len(hand[c]) \in Nat
    BY <1>2 DEF TypeOK
<1>8. DedupState'
  <2>1. Len(hand'[c]) <= applied[c]
    BY <1>6, <1>7
  <2>2. \A i \in 1 .. Len(hand'[c]) :
           hand'[c][i] = stream[c][applied[c] - Len(hand'[c]) + i]
    BY <1>6
  <2> QED
    BY <1>2, <1>3, <1>6, <2>1, <2>2 DEF DedupState
<1>9. DeliveredOld'
  <2>1. stream' = stream /\ applied' = applied /\ got' = got
    BY <1>3
  <2>2. SUFFICES ASSUME NEW b \in Conns
                 PROVE  /\ \A i, j \in 1 .. Len(got[b]) : i < j => got[b][i] < got[b][j]
                        /\ \A i \in 1 .. Len(got[b]) :
                             \E p \in 1 .. applied[b] - Len(hand'[b]) : got[b][i] = stream[b][p]
    BY <2>1, ZenonT(30) DEF DeliveredOld
  <2>3. /\ \A i, j \in 1 .. Len(got[b]) : i < j => got[b][i] < got[b][j]
        /\ \A i \in 1 .. Len(got[b]) :
             \E p \in 1 .. applied[b] - Len(hand[b]) : got[b][i] = stream[b][p]
    BY <1>2 DEF DeliveredOld
  <2>4. 1 .. applied[b] - Len(hand[b]) \subseteq 1 .. applied[b] - Len(hand'[b])
    <3>1. CASE b # c
      BY <1>6, <3>1
    <3>2. CASE b = c
      BY <1>6, <1>7, <3>2
    <3> QED
      BY <3>1, <3>2
  <2> QED
    BY <2>3, <2>4
<1>10. NothingDropped'
    BY <1>3 DEF NothingDropped
<1> QED
    BY <1>4, <1>5, <1>8, <1>9, <1>10 DEF IInv

\* The steps that touch neither a stream nor the deduper.
LEMMA OtherStepsIInv ==
    ASSUME IInv, TypeOK', UNCHANGED <<stream, streamPos, applied, hand, got>>,
           dgrams' \union pend' \subseteq dgrams \union pend,
           (ctxDone' = ctxDone) \/ ctxDone',
           StreamsOrdered'
    PROVE  IInv'
<1>1. TypeOK /\ DedupState /\ DeliveredOld /\ NothingDropped
      /\ (\A d \in dgrams \union pend : GenuineDatagram(d))
    BY DEF IInv
<1>2. \A d \in dgrams' \union pend' : GenuineDatagram(d)'
    BY <1>1 DEF GenuineDatagram
<1>3. DedupState' /\ DeliveredOld'
    BY <1>1 DEF DedupState, DeliveredOld
<1>4. NothingDropped'
    BY <1>1 DEF NothingDropped
<1> QED
    BY <1>2, <1>3, <1>4 DEF IInv

\* Every step preserves the invariant.
LEMMA NextIInv == IInv /\ [Next]_vars => IInv'
<1>1. SUFFICES ASSUME IInv, [Next]_vars PROVE IInv'
    OBVIOUS
<1>2. TypeOK /\ StreamsOrdered
    BY <1>1 DEF IInv
<1>3. Conns \subseteq Nat
    BY InputConstants DEF Conns
<1>4. ASSUME NEW n \in 1 .. MaxWrite, SendInput(n) PROVE IInv'
    BY <1>1, <1>4, SendInputIInv
<1>5. ASSUME NEW n \in 1 .. MaxWrite, NEW k \in 0 .. n - 1, SendInputFails(n, k)
      PROVE  IInv'
    BY <1>1, <1>5, SendInputFailsIInv
<1>6. ASSUME NEW d \in pend, SendDatagram(d) PROVE IInv'
  <2>1. TypeOK'
    BY <1>2, <1>6 DEF TypeOK, SendDatagram, serverVars
  <2>2. StreamsOrdered'
    BY <1>2, <1>6 DEF StreamsOrdered, SendDatagram
  <2> QED
    BY <1>1, <1>6, <2>1, <2>2, OtherStepsIInv DEF SendDatagram, serverVars
<1>7. ASSUME NEW ok \in BOOLEAN, AdoptConn(ok) PROVE IInv'
  <2>1. /\ cur + 1 \in Conns /\ cur' = cur + 1
        /\ alive' = (alive \ {cur}) \union {cur + 1}
        /\ inOffset' = 0 /\ inDatagramsOK' = ok
        /\ UNCHANGED <<typed, pend, stream, dgrams, readers, streamPos, applied, hand, holder,
                       got, ctxDone>>
    BY <1>7 DEF AdoptConn, serverVars
  <2>2. TypeOK'
    BY <1>2, <2>1 DEF TypeOK
  <2>3. cur + 1 > cur /\ \A c \in Conns : c > cur + 1 => c > cur /\ c # cur + 1
    BY <1>2, <1>3 DEF TypeOK
  <2>4. stream[cur + 1] = <<>>
    BY <1>2, <2>1, <2>3 DEF StreamsOrdered
  <2>5. Len(stream[cur + 1]) = 0
    BY <2>4
  <2>6. StreamsOrdered'
    BY <1>2, <2>1, <2>3, <2>5 DEF StreamsOrdered
  <2> QED
    BY <1>1, <2>1, <2>2, <2>6, OtherStepsIInv
<1>8. ASSUME NEW c \in Conns, ConnDies(c) PROVE IInv'
  <2>1. TypeOK'
    BY <1>2, <1>8 DEF TypeOK, ConnDies, clientVars, serverVars
  <2>2. StreamsOrdered'
    BY <1>2, <1>8 DEF StreamsOrdered, ConnDies, clientVars
  <2> QED
    BY <1>1, <1>8, <2>1, <2>2, OtherStepsIInv DEF ConnDies, clientVars, serverVars
<1>9. ASSUME NEW d \in dgrams, LoseDatagram(d) PROVE IInv'
  <2>1. TypeOK'
    BY <1>2, <1>9 DEF TypeOK, LoseDatagram, clientVars, serverVars
  <2>2. StreamsOrdered'
    BY <1>2, <1>9 DEF StreamsOrdered, LoseDatagram, clientVars
  <2> QED
    BY <1>1, <1>9, <2>1, <2>2, OtherStepsIInv DEF LoseDatagram, clientVars, serverVars
<1>10. ASSUME NEW d \in dgrams, ReadInputDatagrams(d) PROVE IInv'
    BY <1>1, <1>10, ReadInputDatagramsIInv
<1>11. ASSUME NEW c \in Conns, ReadSome(c) PROVE IInv'
    BY <1>1, <1>11, ReadInputIInv DEF ReadSome
<1>12. ASSUME NEW c \in Conns, DeliverInput(c) PROVE IInv'
    BY <1>1, <1>12, DeliverInputIInv
<1>13. ASSUME NEW c \in Conns, AbandonInput(c) PROVE IInv'
    BY <1>1, <1>13, AbandonInputIInv
<1>14. ASSUME NEW c \in Conns, NEW rd \in Readers, ReaderEnds(c, rd) PROVE IInv'
  <2>1. TypeOK'
    BY <1>2, <1>14 DEF TypeOK, ReaderEnds, clientVars, netVars
  <2>2. StreamsOrdered'
    BY <1>2, <1>14 DEF StreamsOrdered, ReaderEnds, clientVars, netVars
  <2> QED
    BY <1>1, <1>14, <2>1, <2>2, OtherStepsIInv DEF ReaderEnds, clientVars, netVars
<1>15. ASSUME CloseServer PROVE IInv'
  <2>1. TypeOK'
    BY <1>2, <1>15 DEF TypeOK, CloseServer, clientVars, netVars
  <2>2. StreamsOrdered'
    BY <1>2, <1>15 DEF StreamsOrdered, CloseServer, clientVars, netVars
  <2> QED
    BY <1>1, <1>15, <2>1, <2>2, OtherStepsIInv DEF CloseServer, clientVars, netVars
<1>16. ASSUME UNCHANGED vars PROVE IInv'
  <2>1. TypeOK'
    BY <1>2, <1>16 DEF TypeOK, vars, clientVars, netVars, serverVars
  <2>2. StreamsOrdered'
    BY <1>2, <1>16 DEF StreamsOrdered, vars, clientVars, netVars
  <2> QED
    BY <1>1, <1>16, <2>1, <2>2, OtherStepsIInv DEF vars, clientVars, netVars, serverVars
<1> QED
    BY <1>1, <1>4, <1>5, <1>6, <1>7, <1>8, <1>9, <1>10, <1>11, <1>12, <1>13, <1>14, <1>15,
       <1>16 DEF Next

\* Bytes at different places of the streams are different bytes.
LEMMA StreamsDistinct ==
    ASSUME NEW c1 \in Conns, NEW c2 \in Conns,
           NEW p \in 1 .. Len(stream[c1]), NEW q \in 1 .. Len(stream[c2])
    PROVE  TypeOK /\ StreamsOrdered /\ stream[c1][p] = stream[c2][q] => c1 = c2
<1>1. SUFFICES ASSUME TypeOK, StreamsOrdered, stream[c1][p] = stream[c2][q], c1 # c2
               PROVE  FALSE
    OBVIOUS
<1>2. c1 \in Nat /\ c2 \in Nat
    BY InputConstants DEF Conns
<1> DEFINE x == stream[c1][p]
           y == stream[c2][q]
<1>3. x \in Nat /\ y \in Nat
  <2>1. stream[c1] \in Seq(Nat) /\ stream[c2] \in Seq(Nat)
    BY <1>1 DEF TypeOK
  <2> QED
    BY <2>1, ElementOfSeq
<1>4. x < y \/ y < x
  <2>1. c1 < c2 \/ c2 < c1
    BY <1>1, <1>2
  <2> QED
    BY <1>1, <2>1 DEF StreamsOrdered
<1>5. x = y
    BY <1>1
<1> HIDE DEF x, y
<1> QED
    BY <1>3, <1>4, <1>5

\* No keystroke reaches the session twice, from the invariant: delivered bytes
\* are bytes of their connection's stream, and increase.
LEMMA IInvAtMostOnce == IInv => AtMostOnce
<1>1. SUFFICES ASSUME IInv,
                      NEW c1 \in Conns, NEW c2 \in Conns,
                      NEW i \in 1 .. Len(got[c1]), NEW j \in 1 .. Len(got[c2]),
                      got[c1][i] = got[c2][j]
               PROVE  c1 = c2 /\ i = j
    BY DEF AtMostOnce
<1>2. TypeOK /\ StreamsOrdered /\ DedupState /\ DeliveredOld
    BY <1>1 DEF IInv
<1>3. \A c \in Conns : \A m \in 1 .. Len(got[c]) :
         \E p \in 1 .. Len(stream[c]) : got[c][m] = stream[c][p]
  <2>1. SUFFICES ASSUME NEW c \in Conns, NEW m \in 1 .. Len(got[c])
                 PROVE  \E p \in 1 .. Len(stream[c]) : got[c][m] = stream[c][p]
    OBVIOUS
  <2>2. PICK p \in 1 .. applied[c] - Len(hand[c]) : got[c][m] = stream[c][p]
    BY <1>2 DEF DeliveredOld
  <2>3. applied[c] \in Nat /\ Len(hand[c]) \in Nat /\ Len(stream[c]) \in Nat
    <3>1. applied[c] \in Nat /\ hand[c] \in Seq(Nat) /\ stream[c] \in Seq(Nat)
      BY <1>2 DEF TypeOK
    <3> QED
      BY <3>1, LenProperties
  <2>4. applied[c] <= Len(stream[c])
    BY <1>2 DEF DedupState
  <2>5. p \in 1 .. Len(stream[c])
    BY <2>3, <2>4
  <2> QED
    BY <2>2, <2>5
<1>4. PICK p \in 1 .. Len(stream[c1]) : got[c1][i] = stream[c1][p]
    BY <1>1, <1>3
<1>5. PICK q \in 1 .. Len(stream[c2]) : got[c2][j] = stream[c2][q]
    BY <1>1, <1>3
<1>6. stream[c1][p] = stream[c2][q]
    BY <1>1, <1>4, <1>5
<1>7. c1 = c2
    BY <1>2, <1>6, StreamsDistinct
<1>8. ASSUME i # j PROVE FALSE
  <2> DEFINE x == got[c1][i]
             y == got[c1][j]
  <2>1. got[c1] \in Seq(Nat) /\ i \in 1 .. Len(got[c1]) /\ j \in 1 .. Len(got[c1])
    BY <1>1, <1>2, <1>7 DEF TypeOK
  <2>2. x \in Nat /\ y \in Nat
    BY <2>1, ElementOfSeq
  <2>3. i < j \/ j < i
    BY <1>8, <2>1
  <2>4. x < y \/ y < x
    BY <1>2, <2>1, <2>3 DEF DeliveredOld
  <2>5. x = y
    BY <1>1, <1>7
  <2> HIDE DEF x, y
  <2> QED
    BY <2>2, <2>4, <2>5
<1> QED
    BY <1>7, <1>8

\* Until the server closes the session gets a prefix of each stream, from the
\* invariant.
LEMMA IInvInOrderNoHole == IInv => InOrderNoHole
<1>1. SUFFICES ASSUME IInv, ~ctxDone, NEW c \in Conns
               PROVE  /\ Len(got[c]) <= Len(stream[c])
                      /\ \A i \in 1 .. Len(got[c]) : got[c][i] = stream[c][i]
    BY DEF InOrderNoHole
<1>2. TypeOK /\ DedupState /\ NothingDropped
    BY <1>1 DEF IInv
<1>3. /\ Len(got[c]) \in Nat /\ Len(hand[c]) \in Nat
      /\ applied[c] \in Nat /\ Len(stream[c]) \in Nat
    BY <1>2 DEF TypeOK
<1>4. Len(got[c]) + Len(hand[c]) = applied[c] /\ applied[c] <= Len(stream[c])
    BY <1>1, <1>2 DEF NothingDropped, DedupState
<1>5. Len(got[c]) <= Len(stream[c])
    BY <1>3, <1>4, SumBelow
<1> QED
    BY <1>1, <1>2, <1>5 DEF NothingDropped

-----------------------------------------------------------------------------

\* The inductive invariant holds in every reachable state, for any number of
\* connections and bytes and any sizes of writes, reads and datagrams.
THEOREM InductiveInvariant == Spec => []IInv
    BY InitIInv, NextIInv, PTL DEF Spec

\* Type correctness of the input path.
THEOREM TypeCorrect == Spec => []TypeOK
<1>1. IInv => TypeOK
    BY DEF IInv
<1> QED
    BY <1>1, InductiveInvariant, PTL

\* No keystroke is handed to the session twice (fromStream, fromDatagram and
\* the offset that adoptConn restarts).
THEOREM AtMostOnceHolds == Spec => []AtMostOnce
    BY IInvAtMostOnce, InductiveInvariant, PTL

\* The session gets each connection's bytes in order and without a hole as long
\* as the server transport is open.
THEOREM InOrderNoHoleHolds == Spec => []InOrderNoHole
    BY IInvInOrderNoHole, InductiveInvariant, PTL
=============================================================================
