----------------------------- MODULE HandoverProofs -----------------------------
(***************************************************************************)
(* Proofs about the zero-downtime restart, for any sessions, any amount of *)
(* output and any number of upgrades: what has been appended to a session  *)
(* is in its layers, once, in order and under its number, across execs,    *)
(* aborts and restores, and no number is given out twice.                  *)
(***************************************************************************)
EXTENDS Handover, SequenceTheorems, TLAPS

\* A session's layers, in memory or in the state file.
Piece == [seq : Nat, piece : Nat]
Copy == [seq : Nat, cold : Seq(Piece), pending : Seq(Piece), hot : Seq(Piece)]

Whole(l) == l.cold \o l.pending \o l.hot
Numbered(q, lg) == [n \in 1 .. q |-> [seq |-> n, piece |-> lg[n]]]

\* Layers that hold exactly what was appended.
Faithful(l, lg) == l.seq = Len(lg) /\ Whole(l) = Numbered(l.seq, lg)

-----------------------------------------------------------------------------
(* The layers.                                                             *)

\* A sequence cut in two and put together again.
LEMMA CutInTwo ==
    ASSUME NEW S, NEW s \in Seq(S), NEW k \in Nat, k <= Len(s)
    PROVE  /\ SubSeq(s, 1, k) \in Seq(S) /\ SubSeq(s, k + 1, Len(s)) \in Seq(S)
           /\ SubSeq(s, 1, k) \o SubSeq(s, k + 1, Len(s)) = s
<1>1. Len(s) \in Nat
  BY LenProperties
<1>2. /\ 1 \in 1 .. Len(s) + 1 /\ k \in 1 - 1 .. Len(s) /\ Len(s) \in k .. Len(s)
      /\ 1 \in Int /\ k \in Int /\ k + 1 \in Int /\ Len(s) \in Int
  BY <1>1
<1>3. /\ \A i \in 1 .. k : s[i] \in S
      /\ \A i \in k + 1 .. Len(s) : s[i] \in S
  <2>1. \A i \in 1 .. Len(s) : s[i] \in S
    BY ElementOfSeq
  <2> QED
    BY <1>1, <2>1
<1>4. SubSeq(s, 1, k) \in Seq(S) /\ SubSeq(s, k + 1, Len(s)) \in Seq(S)
  BY <1>2, <1>3, SubSeqProperties, Zenon
<1>5. SubSeq(s, 1, k) \o SubSeq(s, k + 1, Len(s)) = SubSeq(s, 1, Len(s))
  BY <1>2, ConcatAdjacentSubSeq, Zenon
<1> QED
  BY <1>4, <1>5, SubSeqFull, Zenon

\* A part moves from the head of the second sequence to the end of the first.
LEMMA HeadMoves ==
    \A c, a, b \in Seq(Piece) : (c \o a) \o b = c \o (a \o b)
<1> TAKE c, a, b \in Seq(Piece)
<1> QED
  BY ConcatAssociative

\* An element appended to the second sequence is appended to the whole.
LEMMA TailGrows ==
    \A x \in Piece : \A s, t \in Seq(Piece) : s \o Append(t, x) = Append(s \o t, x)
  OBVIOUS

LEMMA WholesAreSeqs ==
    \A s, t \in Seq(Piece) : s \o t \in Seq(Piece)
  OBVIOUS

\* A compressed batch moves from the head of pending to the end of cold: the whole
\* is the same.
LEMMA FlushMoves ==
    ASSUME NEW l \in Copy, NEW k \in Nat, k <= Len(l.pending)
    PROVE  LET m == [l EXCEPT !.cold = @ \o SubSeq(l.pending, 1, k),
                              !.pending = SubSeq(@, k + 1, Len(@))]
           IN  m \in Copy /\ m.seq = l.seq /\ Whole(m) = Whole(l)
<1> DEFINE a == SubSeq(l.pending, 1, k)
           b == SubSeq(l.pending, k + 1, Len(l.pending))
           m == [l EXCEPT !.cold = @ \o a, !.pending = b]
<1>1. l.cold \in Seq(Piece) /\ l.pending \in Seq(Piece) /\ l.hot \in Seq(Piece) /\ l.seq \in Nat
  BY DEF Copy
<1>2. a \in Seq(Piece) /\ b \in Seq(Piece) /\ a \o b = l.pending
  BY <1>1, CutInTwo, Zenon
<1>3. m.cold = l.cold \o a /\ m.pending = b /\ m.hot = l.hot /\ m.seq = l.seq
  BY DEF Copy
<1> HIDE DEF a, b
<1>5. l.cold \o a \in Seq(Piece)
  BY <1>1, <1>2
<1>6. m \in Copy
  BY <1>1, <1>2, <1>3, <1>5 DEF Copy
<1>7. (l.cold \o a) \o b = l.cold \o l.pending
  <2>1. (l.cold \o a) \o b = l.cold \o (a \o b)
    BY <1>1, <1>2, HeadMoves, Zenon
  <2> QED
    BY <1>2, <2>1, Zenon
<1>8. Whole(m) = Whole(l)
  BY <1>3, <1>7, Zenon DEF Whole
<1> QED
  BY <1>3, <1>6, <1>8 DEF a, b, m

\* Output is appended and what exceeds the hot layer moves to pending: the whole has
\* one chunk more at its end.
LEMMA AppendMoves ==
    ASSUME NEW l \in Copy, NEW x \in Piece, NEW k \in Nat, k <= Len(l.hot) + 1, NEW n \in Nat
    PROVE  LET all == Append(l.hot, x)
               m == [l EXCEPT !.seq = n, !.hot = SubSeq(all, k + 1, Len(all)),
                              !.pending = @ \o SubSeq(all, 1, k)]
           IN  /\ m \in Copy /\ m.seq = n /\ Whole(m) = Append(Whole(l), x)
               /\ Len(l.pending) <= Len(m.pending)
<1> DEFINE all == Append(l.hot, x)
           a == SubSeq(all, 1, k)
           b == SubSeq(all, k + 1, Len(all))
           m == [l EXCEPT !.seq = n, !.hot = b, !.pending = @ \o a]
<1>1. l.cold \in Seq(Piece) /\ l.pending \in Seq(Piece) /\ l.hot \in Seq(Piece)
  BY DEF Copy
<1>2. all \in Seq(Piece) /\ Len(all) = Len(l.hot) + 1
  BY <1>1, AppendProperties
<1> HIDE DEF all, a, b
<1>4. a \in Seq(Piece) /\ b \in Seq(Piece) /\ a \o b = all
  <2>1. k <= Len(all)
    BY <1>2
  <2> QED
    BY <1>2, <2>1, CutInTwo, Zenon DEF a, b
<1>5. /\ l.pending \o a \in Seq(Piece)
      /\ Len(l.pending \o a) = Len(l.pending) + Len(a)
  BY <1>1, <1>4, ConcatProperties, Zenon
<1>7. m.cold = l.cold /\ m.pending = l.pending \o a /\ m.hot = b /\ m.seq = n
  BY DEF Copy
<1>6. m \in Copy
  BY <1>1, <1>4, <1>5, <1>7 DEF Copy
<1> HIDE DEF m
<1>8. (l.cold \o (l.pending \o a)) \o b = Append((l.cold \o l.pending) \o l.hot, x)
  <2>1. /\ l.cold \in Seq(Piece) /\ l.pending \in Seq(Piece) /\ l.hot \in Seq(Piece)
        /\ a \o b = Append(l.hot, x)
    BY <1>1, <1>4, Zenon DEF all
  <2>2. l.cold \o l.pending \in Seq(Piece)
    BY <2>1, WholesAreSeqs, Zenon
  <2>3. l.cold \o (l.pending \o a) = (l.cold \o l.pending) \o a
    BY <1>4, <2>1, HeadMoves, ZenonT(30)
  <2>4. ((l.cold \o l.pending) \o a) \o b = (l.cold \o l.pending) \o (a \o b)
    BY <1>4, <2>2, HeadMoves, Zenon
  <2>5. (l.cold \o l.pending) \o Append(l.hot, x) = Append((l.cold \o l.pending) \o l.hot, x)
    BY <2>1, <2>2, TailGrows, Zenon
  <2> QED
    BY <2>1, <2>3, <2>4, <2>5, Zenon
<1>9. Whole(m) = Append(Whole(l), x)
  BY <1>7, <1>8, Zenon DEF Whole
<1>10. Len(l.pending) <= Len(m.pending)
  <2>1. Len(a) \in Nat /\ Len(l.pending) \in Nat
    BY <1>1, <1>4, LenProperties
  <2>2. Len(m.pending) = Len(l.pending) + Len(a)
    BY <1>5, <1>7
  <2> QED
    BY <2>1, <2>2
<1> QED
  BY <1>6, <1>7, <1>9, <1>10 DEF a, b, all, m

\* The layers stay faithful to a log that gets the same piece.
LEMMA AppendIsFaithful ==
    ASSUME NEW l \in Copy, NEW m, NEW lg \in Seq(Nat), NEW p \in Nat, Faithful(l, lg),
           m.seq = l.seq + 1, Whole(m) = Append(Whole(l), [seq |-> l.seq + 1, piece |-> p])
    PROVE  Faithful(m, Append(lg, p))
<1> DEFINE q == l.seq
           old == Numbered(q, lg)
           new == Numbered(q + 1, Append(lg, p))
           x == [seq |-> q + 1, piece |-> p]
<1>1. q \in Nat /\ q = Len(lg) /\ Whole(l) = old
  BY DEF Faithful, Copy
<1>2. \A i \in 1 .. q : lg[i] \in Nat
  BY <1>1, ElementOfSeq
<1>3. /\ Len(Append(lg, p)) = q + 1
      /\ \A i \in 1 .. q : Append(lg, p)[i] = lg[i]
      /\ Append(lg, p)[q + 1] = p
  BY <1>1, AppendProperties
<1> DEFINE lg2 == Append(lg, p)
<1> HIDE DEF lg2
<1>4. /\ Len(lg2) = q + 1 /\ lg2[q + 1] = p
      /\ \A i \in 1 .. q : lg2[i] = lg[i]
  BY <1>3 DEF lg2
<1>5. old \in Seq(Piece) /\ Len(old) = q /\ x \in Piece
  BY <1>1, <1>2 DEF Numbered, Piece
<1>6. Numbered(q + 1, lg2) \in Seq(Piece) /\ Len(Numbered(q + 1, lg2)) = q + 1
  <2>1. \A i \in 1 .. q + 1 : lg2[i] \in Nat
    BY <1>1, <1>2, <1>4
  <2> QED
    BY <1>1, <2>1 DEF Numbered, Piece
<1>7. /\ Append(old, x) \in Seq(Piece) /\ Len(Append(old, x)) = q + 1
      /\ \A i \in 1 .. q : Append(old, x)[i] = old[i]
      /\ Append(old, x)[q + 1] = x
  BY <1>5, AppendProperties
<1>8. \A i \in 1 .. q + 1 : Append(old, x)[i] = Numbered(q + 1, lg2)[i]
  <2> SUFFICES ASSUME NEW i \in 1 .. q + 1
               PROVE  Append(old, x)[i] = Numbered(q + 1, lg2)[i]
    OBVIOUS
  <2>1. Numbered(q + 1, lg2)[i] = [seq |-> i, piece |-> lg2[i]]
    BY DEF Numbered
  <2>2. CASE i = q + 1
    BY <1>4, <1>7, <2>1, <2>2
  <2>3. CASE i \in 1 .. q
    <3>1. old[i] = [seq |-> i, piece |-> lg[i]]
      BY <2>3 DEF Numbered
    <3>2. Append(old, x)[i] = old[i] /\ lg2[i] = lg[i]
      BY <1>4, <1>7, <2>3
    <3> QED
      BY <2>1, <3>1, <3>2, Zenon
  <2>4. i = q + 1 \/ i \in 1 .. q
    BY <1>1
  <2> HIDE DEF old, x
  <2> QED
    BY <2>2, <2>3, <2>4
<1> HIDE DEF old, x
<1>9. Append(old, x) = Numbered(q + 1, lg2)
  BY <1>6, <1>7, <1>8, SeqEqual
<1> QED
  BY <1>1, <1>4, <1>9 DEF Faithful, lg2, old, x

-----------------------------------------------------------------------------
(* The inductive invariant.                                                *)

ProcInv ==
    /\ mode \in Modes /\ phase \in {"up", "locking", "sealed", "restoring", "fresh"}
    /\ upgrades \in 0 .. MaxUpgrades /\ accepting \in BOOLEAN
    /\ held \subseteq table /\ table \subseteq Sessions
    /\ DOMAIN file \subseteq Sessions
    /\ ptyClosed \subseteq table /\ reaper \subseteq Sessions
    /\ child \in [Sessions -> {"running", "exited", "reaped"}]
    /\ conn \in [Sessions -> {"live", "stale", "down", "told"}]

\* Where the state file stands: nothing is in it before an upgrade; while it is
\* written, every session in it is locked; while it is read, none of them is back.
FileInv ==
    /\ phase \in {"up", "fresh"} => DOMAIN file = {}
    /\ phase \in {"locking", "sealed"} => DOMAIN file \subseteq held
    /\ phase \notin {"locking", "sealed"} => held = {}
    /\ phase = "restoring" => DOMAIN file \intersect table = {}

DomInv ==
    /\ layers \in [Sessions -> Copy] /\ batch \in [Sessions -> Nat]
    /\ written \in [Sessions -> Nat] /\ read \in [Sessions -> Nat]
    /\ inHand \in [Sessions -> Nat] /\ log \in [Sessions -> Seq(Nat)]

\* A session's output: what was appended is what was read, but for the piece in hand
\* (or lost in an exec).
CountInv(s) ==
    /\ inHand[s] <= read[s] /\ read[s] <= written[s] /\ written[s] <= MaxOut[s]
    /\ Len(log[s]) + (IF inHand[s] = 0 THEN 0 ELSE 1) <= read[s]
    /\ \A i \in 1 .. Len(log[s]) : log[s][i] \in 1 .. MaxOut[s]

\* A session that is not in this process has no layers here, and its copy in the file
\* is as faithful as the layers are of one that is.
KeptInv(s) ==
    /\ batch[s] <= Len(layers[s].pending)
    /\ s \notin table => layers[s] = NoLayers /\ batch[s] = 0 /\ inHand[s] = 0
    /\ s \in table => Faithful(layers[s], log[s])
    /\ s \in DOMAIN file => file[s] \in Copy /\ Faithful(file[s], log[s])

CountsInv == \A s \in Sessions : CountInv(s)
AllKept == \A s \in Sessions : KeptInv(s)

IInv == ProcInv /\ FileInv /\ DomInv /\ CountsInv /\ AllKept

NoNumberReused == \A s \in Sessions : IsPrefix(log[s], log'[s])

-----------------------------------------------------------------------------
(* The steps.                                                              *)

\* A log is a prefix of itself.
LEMMA PrefixRefl ==
    ASSUME DomInv, UNCHANGED log
    PROVE  NoNumberReused
<1> SUFFICES ASSUME NEW s \in Sessions PROVE IsPrefix(log[s], log[s])
  BY DEF NoNumberReused
<1>1. Len(log[s]) \in Nat
  BY DEF DomInv
<1> QED
  BY <1>1 DEF IsPrefix

\* A session whose layers, counts and copy stay where they are.
LEMMA KeptStays ==
    ASSUME NEW s \in Sessions, KeptInv(s),
           layers'[s] = layers[s], batch'[s] = batch[s], log'[s] = log[s],
           s \in table' <=> s \in table, s \notin table => inHand'[s] = inHand[s],
           s \in DOMAIN file' => s \in DOMAIN file /\ file'[s] = file[s]
    PROVE  KeptInv(s)'
  BY DEF KeptInv

\* Nothing was appended that was not read.
LEMMA LogRead ==
    ASSUME NEW s \in Sessions, IInv
    PROVE  Len(log[s]) <= read[s]
<1> DEFINE more == IF inHand[s] = 0 THEN 0 ELSE 1
<1>1. Len(log[s]) + more <= read[s]
  BY DEF IInv, CountsInv, CountInv
<1>2. more \in {0, 1} /\ Len(log[s]) \in Nat /\ read[s] \in Nat
  BY DEF IInv, DomInv
<1> HIDE DEF more
<1> QED
  BY <1>1, <1>2

\* A step that touches no output and no file, only clients, processes and locks.
LEMMA OutputUntouched ==
    ASSUME IInv, UNCHANGED <<outVars, written, table>>,
           \A s \in DOMAIN file' : s \in DOMAIN file /\ file'[s] = file[s]
    PROVE  DomInv' /\ CountsInv' /\ AllKept' /\ NoNumberReused
<1> USE DEF outVars
<1>1. DomInv' /\ NoNumberReused
  BY PrefixRefl DEF IInv, DomInv
<1>2. CountsInv'
  BY DEF IInv, CountsInv, CountInv
<1>3. ASSUME NEW s \in Sessions PROVE KeptInv(s)'
  BY KeptStays DEF IInv, AllKept
<1> QED
  BY <1>1, <1>2, <1>3 DEF AllKept

\* A step of one session after which its layers hold the same output, and which moves
\* nothing else.
LEMMA LayersMove ==
    ASSUME IInv, NEW s \in Sessions, NEW l \in Copy, NEW b \in Nat,
           UNCHANGED <<written, read, inHand, log>>,
           s \in table', Faithful(l, log[s]), b <= Len(l.pending),
           layers' = [layers EXCEPT ![s] = l], batch' = [batch EXCEPT ![s] = b],
           \A t \in Sessions \ {s} : t \in table' <=> t \in table,
           \A t \in DOMAIN file' : t \in DOMAIN file /\ file'[t] = file[t]
    PROVE  DomInv' /\ CountsInv' /\ AllKept' /\ NoNumberReused
<1>1. NoNumberReused
  BY PrefixRefl DEF IInv
<1>2. DomInv'
  BY DEF IInv, DomInv
<1>3. CountsInv'
  BY DEF IInv, CountsInv, CountInv
<1>4. ASSUME NEW t \in Sessions PROVE KeptInv(t)'
  <2>1. KeptInv(t) /\ t \in DOMAIN layers /\ t \in DOMAIN batch
    BY DEF IInv, AllKept, DomInv
  <2>2. CASE t # s
    BY <2>1, <2>2, KeptStays
  <2>3. CASE t = s
    <3>1. layers'[s] = l /\ batch'[s] = b
      BY <2>1, <2>3
    <3> QED
      BY <2>1, <2>3, <3>1 DEF KeptInv
  <2> QED
    BY <2>2, <2>3
<1> QED
  BY <1>1, <1>2, <1>3, <1>4 DEF AllKept

\* The child's output: one piece more.
LEMMA WriteKeeps ==
    ASSUME HandoverConstants, IInv, NEW s \in Sessions, ChildWrites(s)
    PROVE  IInv' /\ NoNumberReused
<1>0. /\ written[s] < MaxOut[s] /\ written' = [written EXCEPT ![s] = @ + 1]
      /\ UNCHANGED <<procVars, outVars, ptyClosed, child, reaper, clientVars>>
  BY DEF ChildWrites
<1>1. ProcInv' /\ FileInv'
  BY <1>0 DEF IInv, ProcInv, FileInv, procVars, clientVars
<1>2. UNCHANGED <<layers, batch, read, inHand, log, table, file>>
  BY <1>0 DEF outVars, procVars
<1>3. DomInv'
  BY <1>0, <1>2 DEF IInv, DomInv
<1>4. ASSUME NEW t \in Sessions PROVE CountInv(t)' /\ KeptInv(t)'
  <2>1. /\ written[t] \in Nat /\ read[t] \in Nat /\ MaxOut[t] \in Nat
        /\ written'[t] = IF t = s THEN written[t] + 1 ELSE written[t]
    BY <1>0 DEF IInv, DomInv, HandoverConstants
  <2>2. read[t] <= written'[t] /\ written'[t] <= MaxOut[t]
    <3>1. read[t] <= written[t] /\ written[t] <= MaxOut[t]
      BY DEF IInv, CountsInv, CountInv
    <3>2. written[s] < MaxOut[s]
      BY <1>0
    <3> QED
      BY <2>1, <3>1, <3>2
  <2>3. CountInv(t)'
    BY <1>2, <2>2 DEF IInv, CountsInv, CountInv
  <2>4. KeptInv(t)'
    BY <1>2, KeptStays DEF IInv, AllKept
  <2> QED
    BY <2>3, <2>4
<1> QED
  BY <1>1, <1>2, <1>3, <1>4, PrefixRefl DEF IInv, CountsInv, AllKept

\* A read of it: the piece is in hand.
LEMMA ReadKeeps ==
    ASSUME HandoverConstants, IInv, NEW s \in Sessions, PTYRead(s)
    PROVE  IInv' /\ NoNumberReused
<1>0. /\ s \in table /\ inHand[s] = 0 /\ read[s] < written[s]
      /\ read' = [read EXCEPT ![s] = @ + 1] /\ inHand' = [inHand EXCEPT ![s] = read'[s]]
      /\ UNCHANGED <<procVars, layers, batch, log, childVars, clientVars>>
  BY DEF PTYRead
<1>1. ProcInv' /\ FileInv'
  BY <1>0 DEF IInv, ProcInv, FileInv, procVars, childVars, clientVars
<1>2. UNCHANGED <<layers, batch, written, log, table, file>>
  BY <1>0 DEF childVars, procVars
<1>3. read' \in [Sessions -> Nat]
  BY <1>0 DEF IInv, DomInv
<1>4. DomInv'
  BY <1>0, <1>2, <1>3 DEF IInv, DomInv
<1>5. ASSUME NEW t \in Sessions PROVE CountInv(t)' /\ KeptInv(t)'
  <2>1. /\ written[t] \in Nat /\ read[t] \in Nat /\ inHand[t] \in Nat /\ Len(log[t]) \in Nat
        /\ read'[t] = IF t = s THEN read[t] + 1 ELSE read[t]
        /\ inHand'[t] = IF t = s THEN read[t] + 1 ELSE inHand[t]
    BY <1>0 DEF IInv, DomInv
  <2>2. /\ inHand'[t] <= read'[t] /\ read'[t] <= written[t]
        /\ Len(log[t]) + (IF inHand'[t] = 0 THEN 0 ELSE 1) <= read'[t]
    <3>1. /\ inHand[t] <= read[t] /\ read[t] <= written[t]
          /\ Len(log[t]) + (IF inHand[t] = 0 THEN 0 ELSE 1) <= read[t]
      BY DEF IInv, CountsInv, CountInv
    <3>2. CASE t = s
      <4>1. inHand[t] = 0 /\ read[t] < written[t] /\ inHand'[t] = read[t] + 1
            /\ read'[t] = read[t] + 1
        BY <1>0, <2>1, <3>2
      <4>2. Len(log[t]) <= read[t] /\ inHand'[t] # 0
        BY <2>1, <3>1, <4>1
      <4> QED
        BY <2>1, <4>1, <4>2
    <3>3. CASE t # s
      <4>1. inHand'[t] = inHand[t] /\ read'[t] = read[t]
        BY <2>1, <3>3
      <4> QED
        BY <3>1, <4>1
    <3> QED
      BY <3>2, <3>3
  <2>3. CountInv(t)'
    BY <1>2, <2>2 DEF IInv, CountsInv, CountInv
  <2>4. t \notin table => inHand'[t] = inHand[t]
    BY <1>0, <2>1
  <2>5. KeptInv(t)'
    BY <1>2, <2>4, KeptStays DEF IInv, AllKept
  <2> QED
    BY <2>3, <2>5
<1> QED
  BY <1>1, <1>2, <1>4, <1>5, PrefixRefl DEF IInv, CountsInv, AllKept

\* handlePTYOutput: the piece gets the next number, in a session that is not locked, so
\* not in the file either.
LEMMA AppendKeeps ==
    ASSUME HandoverConstants, IInv, NEW s \in Sessions, HandlePTYOutput(s)
    PROVE  IInv' /\ NoNumberReused
<1> DEFINE n == layers[s].seq + 1
           x == [seq |-> n, piece |-> inHand[s]]
           lg == Append(log[s], inHand[s])
<1>1. /\ s \notin held /\ inHand[s] # 0
      /\ UNCHANGED <<procVars, batch, read, childVars, clientVars>>
      /\ inHand' = [inHand EXCEPT ![s] = 0]
  BY DEF HandlePTYOutput, AppendOutput
<1>2. /\ layers[s] \in Copy /\ layers[s].seq \in Nat /\ inHand[s] \in Nat
      /\ layers[s].hot \in Seq(Piece)
      /\ log[s] \in Seq(Nat) /\ Len(log[s]) \in Nat /\ MaxHot \in Nat /\ MaxOut[s] \in Nat
  BY DEF IInv, DomInv, Copy, HandoverConstants
<1>3. s \in table /\ s \notin DOMAIN file /\ Faithful(layers[s], log[s])
  BY <1>1 DEF IInv, AllKept, KeptInv, FileInv, ProcInv
<1>4. PICK m : /\ m \in Copy /\ m.seq = n /\ Whole(m) = Append(Whole(layers[s]), x)
               /\ Len(layers[s].pending) <= Len(m.pending)
               /\ layers' = [layers EXCEPT ![s] = m]
  <2> DEFINE all == Append(layers[s].hot, x)
             k == IF Len(all) > MaxHot THEN Len(all) - MaxHot ELSE 0
             mm == [layers[s] EXCEPT !.seq = n, !.hot = SubSeq(all, k + 1, Len(all)),
                                     !.pending = @ \o SubSeq(all, 1, k)]
  <2>1. x \in Piece /\ Len(all) = Len(layers[s].hot) + 1 /\ Len(layers[s].hot) \in Nat
    BY <1>2 DEF Piece
  <2>2. k \in Nat /\ k <= Len(layers[s].hot) + 1 /\ n \in Nat
    BY <1>2, <2>1, SMTT(30)
  <2>3. layers' = [layers EXCEPT ![s] = mm]
    BY DEF HandlePTYOutput, AppendOutput, IInv, DomInv, Copy
  <2> HIDE DEF x, n, k
  <2>4. /\ mm \in Copy /\ mm.seq = n /\ Whole(mm) = Append(Whole(layers[s]), x)
        /\ Len(layers[s].pending) <= Len(mm.pending)
    BY <1>2, <2>1, <2>2, AppendMoves, Zenon
  <2> HIDE DEF mm
  <2> QED
    BY <2>3, <2>4
<1>5. log' = [log EXCEPT ![s] = lg]
  <2>1. n - 1 = Len(log[s])
    BY <1>2, <1>3 DEF Faithful
  <2>2. SubSeq(log[s], 1, n - 1) = log[s]
    BY <1>2, <2>1, SubSeqFull
  <2> QED
    BY <2>2 DEF HandlePTYOutput, AppendOutput
<1>6. Faithful(m, lg)
  BY <1>2, <1>3, <1>4, AppendIsFaithful
<1>7. ProcInv' /\ FileInv'
  BY <1>1 DEF IInv, ProcInv, FileInv, procVars, childVars, clientVars
<1>8. UNCHANGED <<batch, written, read, table, file>>
  BY <1>1 DEF procVars, childVars
<1>9. lg \in Seq(Nat) /\ Len(lg) = Len(log[s]) + 1 /\ lg[Len(log[s]) + 1] = inHand[s]
      /\ \A i \in 1 .. Len(log[s]) : lg[i] = log[s][i]
  BY <1>2
<1> HIDE DEF lg
<1>10. DomInv'
  BY <1>1, <1>4, <1>5, <1>8, <1>9 DEF IInv, DomInv
<1>11. ASSUME NEW t \in Sessions PROVE CountInv(t)' /\ KeptInv(t)' /\ IsPrefix(log[t], log'[t])
  <2>1. CASE t # s
    <3>1. layers'[t] = layers[t] /\ log'[t] = log[t] /\ inHand'[t] = inHand[t]
      BY <1>1, <1>4, <1>5, <2>1 DEF IInv, DomInv
    <3>2. CountInv(t)'
      BY <1>8, <3>1 DEF IInv, CountsInv, CountInv
    <3>3. KeptInv(t)'
      BY <1>8, <3>1, KeptStays DEF IInv, AllKept
    <3>4. Len(log[t]) \in Nat
      BY DEF IInv, DomInv
    <3> QED
      BY <3>1, <3>2, <3>3, <3>4 DEF IsPrefix
  <2>2. CASE t = s
    <3>1. layers'[s] = m /\ log'[s] = lg /\ inHand'[s] = 0
      BY <1>1, <1>4, <1>5 DEF IInv, DomInv
    <3>2. batch[s] <= Len(m.pending)
      <4>1. batch[s] \in Nat /\ Len(layers[s].pending) \in Nat /\ Len(m.pending) \in Nat
        <5>1. batch[s] \in Nat
          BY DEF IInv, DomInv
        <5>2. layers[s].pending \in Seq(Piece) /\ m.pending \in Seq(Piece)
          BY <1>2, <1>4 DEF Copy
        <5> QED
          BY <5>1, <5>2, LenProperties
      <4>2. batch[s] <= Len(layers[s].pending)
        BY DEF IInv, AllKept, KeptInv
      <4> QED
        BY <1>4, <4>1, <4>2
    <3>3. KeptInv(s)'
      BY <1>3, <1>6, <1>8, <3>1, <3>2 DEF KeptInv
    <3>4. read[s] \in Nat /\ written[s] \in Nat /\ CountInv(s)
      BY DEF IInv, DomInv, CountsInv
    <3>5. 0 <= read[s] /\ Len(lg) <= read[s] /\ inHand[s] \in 1 .. MaxOut[s]
      BY <1>1, <1>2, <1>9, <3>4 DEF CountInv
    <3>6. \A i \in 1 .. Len(lg) : lg[i] \in 1 .. MaxOut[s]
      <4> SUFFICES ASSUME NEW i \in 1 .. Len(lg) PROVE lg[i] \in 1 .. MaxOut[s]
        OBVIOUS
      <4>1. i \in 1 .. Len(log[s]) \/ i = Len(log[s]) + 1
        BY <1>2, <1>9
      <4> QED
        BY <1>9, <3>4, <3>5, <4>1 DEF CountInv
    <3>7. Len(lg) + 0 <= read[s]
      BY <1>2, <1>9, <3>4, <3>5
    <3>8. CountInv(s)'
      BY <1>8, <3>1, <3>4, <3>5, <3>6, <3>7 DEF CountInv
    <3>9. IsPrefix(log[s], lg)
      <4>1. SubSeq(lg, 1, Len(log[s])) = SubSeq(log[s], 1, Len(log[s]))
        BY <1>2, <1>9
      <4> QED
        BY <1>2, <1>9, <4>1 DEF IsPrefix
    <3> QED
      BY <2>2, <3>1, <3>3, <3>8, <3>9
  <2> QED
    BY <2>1, <2>2
<1> QED
  BY <1>7, <1>10, <1>11 DEF IInv, CountsInv, AllKept, NoNumberReused

\* flushColdPending: the batch is what waits now, and moves as a whole.
LEMMA FlushKeeps ==
    ASSUME IInv, NEW s \in Sessions, FlushBegin(s) \/ FlushEnd(s)
    PROVE  IInv' /\ NoNumberReused
<1>0. /\ s \in table /\ UNCHANGED <<procVars, read, inHand, log, childVars, clientVars>>
  BY DEF FlushBegin, FlushEnd
<1>1. ProcInv' /\ FileInv'
  BY <1>0 DEF IInv, ProcInv, FileInv, procVars, childVars, clientVars
<1>2. UNCHANGED <<written, read, inHand, log, table, file>>
  BY <1>0 DEF procVars, childVars
<1>3. /\ layers[s] \in Copy /\ batch[s] \in Nat /\ batch[s] <= Len(layers[s].pending)
      /\ Faithful(layers[s], log[s])
  BY <1>0 DEF IInv, DomInv, AllKept, KeptInv
<1>4. Len(layers[s].pending) \in Nat
  BY <1>3, LenProperties DEF Copy
<1>5. CASE FlushBegin(s)
  <2>1. /\ layers' = [layers EXCEPT ![s] = layers[s]]
        /\ batch' = [batch EXCEPT ![s] = Len(layers[s].pending)]
    BY <1>5 DEF FlushBegin, IInv, DomInv
  <2>2. Len(layers[s].pending) <= Len(layers[s].pending)
    BY <1>4
  <2> QED
    BY <1>0, <1>1, <1>2, <1>3, <1>4, <2>1, <2>2, LayersMove DEF IInv
<1>6. CASE FlushEnd(s)
  <2> DEFINE k == batch[s]
             m == [layers[s] EXCEPT !.cold = @ \o SubSeq(layers[s].pending, 1, k),
                                    !.pending = SubSeq(@, k + 1, Len(@))]
  <2>1. m \in Copy /\ m.seq = layers[s].seq /\ Whole(m) = Whole(layers[s])
    BY <1>3, FlushMoves, Zenon
  <2>2. /\ layers' = [layers EXCEPT ![s] = m] /\ batch' = [batch EXCEPT ![s] = 0]
    BY <1>6 DEF FlushEnd, IInv, DomInv, Copy
  <2> HIDE DEF m
  <2>3. Faithful(m, log[s])
    BY <1>3, <2>1 DEF Faithful
  <2>4. 0 <= Len(m.pending)
    BY <2>1, LenProperties DEF Copy
  <2> QED
    BY <1>0, <1>1, <1>2, <2>1, <2>2, <2>3, <2>4, LayersMove DEF IInv
<1> QED
  BY <1>5, <1>6

\* The children, their waiters and the clients.
LEMMA ProcessKeeps ==
    ASSUME IInv, NEW s \in Sessions,
           \/ ChildExits(s) \/ PTYEnds(s) \/ Reap(s)
           \/ Connect(s) \/ Deliver(s) \/ StaleFound(s)
    PROVE  IInv' /\ NoNumberReused
<1>1. UNCHANGED <<procVars, outVars, written>>
  BY DEF ChildExits, PTYEnds, Reap, Connect, Deliver, StaleFound, childVars
<1>2. ptyClosed' \subseteq table /\ reaper' \subseteq Sessions
  BY DEF IInv, ProcInv, ChildExits, PTYEnds, Reap, Connect, Deliver, StaleFound, childVars
<1>3. child' \in [Sessions -> {"running", "exited", "reaped"}]
  BY DEF IInv, ProcInv, ChildExits, PTYEnds, Reap, Connect, Deliver, StaleFound, childVars
<1>4. conn' \in [Sessions -> {"live", "stale", "down", "told"}]
  BY DEF IInv, ProcInv, ChildExits, PTYEnds, Reap, Connect, Deliver, StaleFound, clientVars
<1>5. ProcInv' /\ FileInv'
  BY <1>1, <1>2, <1>3, <1>4 DEF IInv, ProcInv, FileInv, procVars
<1>6. DomInv' /\ CountsInv' /\ AllKept' /\ NoNumberReused
  BY <1>1, OutputUntouched DEF procVars
<1> QED
  BY <1>5, <1>6 DEF IInv

\* What the old process does before the exec, but for copying a session.
LEMMA OldProcessKeeps ==
    ASSUME IInv, StartHandover \/ Disconnect \/ AbortHandover
    PROVE  IInv' /\ NoNumberReused
<1>1. UNCHANGED <<table, outVars, childVars>>
  BY DEF StartHandover, Disconnect, AbortHandover, clientVars
<1>2. DOMAIN file' \subseteq DOMAIN file /\ \A s \in DOMAIN file' : file'[s] = file[s]
  BY DEF StartHandover, Disconnect, AbortHandover
<1>3. conn' \in [Sessions -> {"live", "stale", "down", "told"}]
  BY DEF IInv, ProcInv, StartHandover, Disconnect, AbortHandover, clientVars
<1>4. upgrades' \in 0 .. MaxUpgrades
  BY HandoverConstants DEF IInv, ProcInv, StartHandover, Disconnect, AbortHandover, HandoverConstants
<1>5. ProcInv'
  BY <1>1, <1>2, <1>3, <1>4
  DEF IInv, ProcInv, StartHandover, Disconnect, AbortHandover, childVars
<1>6. FileInv'
  BY <1>1 DEF IInv, FileInv, StartHandover, Disconnect, AbortHandover
<1>7. DomInv' /\ CountsInv' /\ AllKept' /\ NoNumberReused
  BY <1>1, <1>2, OutputUntouched DEF childVars
<1> QED
  BY <1>5, <1>6, <1>7 DEF IInv

\* WriteHandover copies a session it has locked.
LEMMA SerializeKeeps ==
    ASSUME IInv, NEW s \in Sessions, SerializeSession(s)
    PROVE  IInv' /\ NoNumberReused
<1>0. /\ phase = "locking" /\ s \in table /\ held' = held \union {s}
      /\ UNCHANGED <<mode, phase, upgrades, accepting, table, outVars, childVars, clientVars>>
  BY DEF SerializeSession
<1>1. /\ DOMAIN file' \subseteq DOMAIN file \union {s}
      /\ \A t \in DOMAIN file' : file'[t] = IF t = s /\ Live(s) THEN layers[s] ELSE file[t]
      /\ ~Live(s) => file' = file
  BY DEF SerializeSession, Snapshot
<1>2. ProcInv' /\ FileInv'
  BY <1>0, <1>1 DEF IInv, ProcInv, FileInv, childVars, clientVars
<1>3. DomInv' /\ CountsInv' /\ NoNumberReused
  BY <1>0, PrefixRefl DEF IInv, DomInv, CountsInv, CountInv, outVars, childVars
<1>4. ASSUME NEW t \in Sessions PROVE KeptInv(t)'
  <2>1. UNCHANGED <<layers, batch, log, table, inHand>>
    BY <1>0 DEF outVars
  <2>2. CASE t = s /\ Live(s)
    <3>1. layers[s] \in Copy /\ Faithful(layers[s], log[s]) /\ KeptInv(s)
      BY <1>0 DEF IInv, DomInv, AllKept, KeptInv
    <3>2. s \in DOMAIN file' => file'[s] = layers[s]
      BY <1>1, <2>2
    <3> QED
      BY <2>1, <2>2, <3>1, <3>2 DEF KeptInv
  <2>3. CASE ~(t = s /\ Live(s))
    <3>1. t \in DOMAIN file' => t \in DOMAIN file /\ file'[t] = file[t]
      BY <1>1, <2>3
    <3> QED
      BY <2>1, <3>1, KeptStays DEF IInv, AllKept
  <2> QED
    BY <2>2, <2>3
<1> QED
  BY <1>2, <1>3, <1>4 DEF IInv, AllKept

\* The exec: memory is gone, the file is as faithful as the layers were.
LEMMA ExecKeeps ==
    ASSUME IInv, Exec
    PROVE  IInv' /\ NoNumberReused
<1>1. /\ held' = {} /\ table' = {} /\ ptyClosed' = {} /\ reaper' = {} /\ accepting' = FALSE
      /\ phase' = "restoring"
      /\ layers' = [s \in Sessions |-> NoLayers] /\ batch' = [s \in Sessions |-> 0]
      /\ inHand' = [s \in Sessions |-> 0]
      /\ UNCHANGED <<mode, upgrades, file, read, log, written, child>>
  BY DEF Exec
<1>2. conn' \in [Sessions -> {"live", "stale", "down", "told"}]
  BY DEF Exec, IInv, ProcInv
<1>3. ProcInv' /\ FileInv'
  BY <1>1, <1>2 DEF IInv, ProcInv, FileInv
<1>4. NoLayers \in Copy /\ Len(NoLayers.pending) = 0
  BY DEF NoLayers, Copy
<1>5. DomInv'
  BY <1>1, <1>4 DEF IInv, DomInv
<1>6. ASSUME NEW s \in Sessions PROVE CountInv(s)' /\ KeptInv(s)'
  <2>1. layers'[s] = NoLayers /\ batch'[s] = 0 /\ inHand'[s] = 0
    BY <1>1
  <2>2. CountInv(s) /\ KeptInv(s)
    BY DEF IInv, CountsInv, AllKept
  <2>3. /\ read[s] \in Nat /\ inHand[s] \in Nat /\ Len(log[s]) \in Nat
    BY DEF IInv, DomInv
  <2>4. 0 <= read[s] /\ Len(log[s]) + 0 <= read[s]
    BY <2>3, LogRead
  <2>5. CountInv(s)'
    BY <1>1, <2>1, <2>2, <2>4 DEF CountInv
  <2>6. KeptInv(s)'
    BY <1>1, <1>4, <2>1, <2>2 DEF KeptInv
  <2> QED
    BY <2>5, <2>6
<1> QED
  BY <1>1, <1>3, <1>5, <1>6, PrefixRefl DEF IInv, CountsInv, AllKept

\* The new process's steps that restore no session.
LEMMA NewProcessKeeps ==
    ASSUME IInv, \/ RestoreFails \/ AdoptSharedTransport \/ RestoreEnds
                 \/ \E s \in Sessions : RestoreSessionFails(s)
    PROVE  IInv' /\ NoNumberReused
<1>1. UNCHANGED <<mode, upgrades, held, table, outVars, written, ptyClosed, clientVars>>
  BY DEF RestoreFails, AdoptSharedTransport, RestoreEnds, RestoreSessionFails, childVars
<1>2. DOMAIN file' \subseteq DOMAIN file /\ \A s \in DOMAIN file' : file'[s] = file[s]
  <2>1. CASE RestoreFails
    BY <2>1 DEF RestoreFails
  <2>2. CASE ~RestoreFails
    BY <2>2 DEF AdoptSharedTransport, RestoreEnds, RestoreSessionFails, Without
  <2> QED
    BY <2>1, <2>2
<1>3. child' \in [Sessions -> {"running", "exited", "reaped"}] /\ reaper' \subseteq Sessions
  BY DEF IInv, ProcInv, RestoreFails, AdoptSharedTransport, RestoreEnds, RestoreSessionFails,
         childVars
<1>4. accepting' \in BOOLEAN /\ phase' \in {"restoring", "fresh", "up"}
  BY DEF IInv, ProcInv, RestoreFails, AdoptSharedTransport, RestoreEnds, RestoreSessionFails
<1>5. ProcInv'
  BY <1>1, <1>2, <1>3, <1>4 DEF IInv, ProcInv, clientVars
<1>6. FileInv'
  BY <1>1, <1>2 DEF IInv, FileInv, RestoreFails, AdoptSharedTransport, RestoreEnds,
                    RestoreSessionFails
<1>7. DomInv' /\ CountsInv' /\ AllKept' /\ NoNumberReused
  BY <1>1, <1>2, OutputUntouched
<1> QED
  BY <1>5, <1>6, <1>7 DEF IInv

\* restoreSession: the copy becomes the layers of a session that was not there.
LEMMA RestoreKeeps ==
    ASSUME IInv, NEW s \in Sessions, RestoreSession(s)
    PROVE  IInv' /\ NoNumberReused
<1>1. /\ phase = "restoring" /\ s \in DOMAIN file
      /\ layers' = [layers EXCEPT ![s] = file[s]] /\ table' = table \union {s}
      /\ file' = Without(s)
      /\ UNCHANGED <<mode, phase, upgrades, held, accepting, batch, read, inHand, log,
                     childVars, clientVars>>
  BY DEF RestoreSession, Restored
<1>2. DOMAIN file' = DOMAIN file \ {s} /\ \A t \in DOMAIN file' : file'[t] = file[t]
  BY <1>1 DEF Without
<1>3. ProcInv' /\ FileInv'
  BY <1>1, <1>2 DEF IInv, ProcInv, FileInv, childVars, clientVars
<1>4. file[s] \in Copy /\ Faithful(file[s], log[s]) /\ s \notin table
  BY <1>1 DEF IInv, AllKept, KeptInv, FileInv
<1>5. batch' = [batch EXCEPT ![s] = 0]
  BY <1>1, <1>4 DEF IInv, AllKept, KeptInv, DomInv
<1>6. 0 <= Len(file[s].pending)
  BY <1>4, LenProperties DEF Copy
<1> QED
  BY <1>1, <1>2, <1>3, <1>4, <1>5, <1>6, LayersMove DEF IInv, childVars

-----------------------------------------------------------------------------
(* The theorems.                                                           *)

LEMMA InitHolds ==
    ASSUME HandoverConstants, Init
    PROVE  IInv
<1> USE DEF Init
<1>1. ProcInv
  BY DEF ProcInv, HandoverConstants
<1>2. FileInv
  BY DEF FileInv
<1>3. NoLayers \in Copy /\ Len(NoLayers.pending) = 0 /\ NoLayers.seq = 0
  BY DEF NoLayers, Copy
<1>4. DomInv
  BY <1>3 DEF DomInv
<1>5. ASSUME NEW s \in Sessions PROVE CountInv(s) /\ KeptInv(s)
  <2>1. /\ layers[s] = NoLayers /\ batch[s] = 0 /\ inHand[s] = 0 /\ read[s] = 0
        /\ written[s] = 0 /\ log[s] = <<>> /\ MaxOut[s] \in Nat /\ s \notin DOMAIN file
    BY DEF HandoverConstants
  <2>2. CountInv(s)
    BY <2>1 DEF CountInv
  <2>3. Faithful(layers[s], log[s])
    <3>1. Whole(NoLayers) = <<>> /\ Numbered(0, <<>>) = <<>>
      BY DEF Whole, NoLayers, Numbered
    <3> QED
      BY <1>3, <2>1, <3>1 DEF Faithful
  <2>4. KeptInv(s)
    BY <1>3, <2>1, <2>3 DEF KeptInv
  <2> QED
    BY <2>2, <2>4
<1> QED
  BY <1>1, <1>2, <1>4, <1>5 DEF IInv, CountsInv, AllKept

\* Every step keeps the invariant, and every number's piece of output.
LEMMA StepKeeps ==
    ASSUME HandoverConstants, IInv, [Next]_vars
    PROVE  IInv' /\ NoNumberReused
<1>1. CASE UNCHANGED vars
  <2>1. UNCHANGED <<mode, phase, upgrades, held, file, accepting, table, outVars, written,
                    ptyClosed, child, reaper, conn>>
    BY <1>1 DEF vars, procVars, childVars, clientVars
  <2>2. ProcInv' /\ FileInv'
    BY <2>1 DEF IInv, ProcInv, FileInv
  <2> QED
    BY <2>1, <2>2, OutputUntouched DEF IInv
<1>2. ASSUME NEW s \in Sessions,
             \/ ChildWrites(s) \/ ChildExits(s) \/ PTYRead(s) \/ HandlePTYOutput(s)
             \/ FlushBegin(s) \/ FlushEnd(s) \/ PTYEnds(s) \/ Reap(s)
             \/ Connect(s) \/ Deliver(s) \/ StaleFound(s)
      PROVE  IInv' /\ NoNumberReused
  BY <1>2, WriteKeeps, ReadKeeps, AppendKeeps, FlushKeeps, ProcessKeeps
<1>3. CASE OldProcess
  BY <1>3, OldProcessKeeps, SerializeKeeps, ExecKeeps DEF OldProcess
<1>4. CASE NewProcess
  BY <1>4, NewProcessKeeps, RestoreKeeps DEF NewProcess
<1> QED
  BY <1>1, <1>2, <1>3, <1>4 DEF Next

\* The restart's invariant: while the state is written every session in it is locked,
\* while it is read none of them is back, and the layers of a session, or its copy in
\* the file, hold exactly what was appended to it.
THEOREM HandoverInvariant == Spec => []IInv
<1>1. Init => IInv
  BY InitHolds, HandoverConstants
<1>2. IInv /\ [Next]_vars => IInv'
  BY StepKeeps, HandoverConstants
<1> QED
  BY <1>1, <1>2, PTL DEF Spec

\* handlePTYOutput, WriteHandover and RestoreHandover: no number is given to two pieces
\* of output, restart or not.
THEOREM NumbersNeverReusedHolds == Spec => NumbersNeverReused
<1>1. IInv /\ [Next]_vars => [NoNumberReused]_vars
  BY StepKeeps, HandoverConstants
<1> QED
  BY <1>1, HandoverInvariant, PTL DEF Spec, NumbersNeverReused, NoNumberReused

\* A sequence's parts have their elements in the set that all of it has.
LEMMA PartsOfWhole ==
    ASSUME NEW C, NEW a \in Seq(Piece), NEW b \in Seq(Piece), a \o b \in Seq(C)
    PROVE  a \in Seq(C) /\ b \in Seq(C)
<1> DEFINE w == a \o b
<1>1. /\ Len(a) \in Nat /\ Len(b) \in Nat /\ Len(w) = Len(a) + Len(b)
      /\ \A i \in 1 .. Len(a) : w[i] = a[i]
      /\ \A i \in 1 .. Len(b) : w[Len(a) + i] = b[i]
  BY ConcatProperties, LenProperties
<1>2. w \in Seq(C)
  OBVIOUS
<1> HIDE DEF w
<1>3. \A i \in 1 .. Len(w) : w[i] \in C
  BY <1>2
<1>4. \A i \in 1 .. Len(a) : a[i] \in C
  BY <1>1, <1>3
<1>5. \A i \in 1 .. Len(b) : b[i] \in C
  BY <1>1, <1>3
<1> QED
  BY <1>4, <1>5

\* The layers hold chunks of the session's output, as many as its child may write.
LEMMA LayersTyped ==
    ASSUME HandoverConstants, IInv, NEW s \in Sessions
    PROVE  /\ layers[s].cold \in Seq(Chunks(s)) /\ layers[s].pending \in Seq(Chunks(s))
           /\ layers[s].hot \in Seq(Chunks(s))
<1>1. CASE s \notin table
  <2>1. layers[s] = NoLayers
    BY <1>1 DEF IInv, AllKept, KeptInv
  <2> QED
    BY <2>1 DEF NoLayers
<1>2. CASE s \in table
  <2>1. /\ layers[s].cold \in Seq(Piece) /\ layers[s].pending \in Seq(Piece)
        /\ layers[s].hot \in Seq(Piece)
    BY DEF IInv, DomInv, Copy
  <2>2. Whole(layers[s]) = Numbered(Len(log[s]), log[s])
    BY <1>2 DEF IInv, AllKept, KeptInv, Faithful
  <2>3. \A i \in 1 .. Len(log[s]) : i \in 1 .. MaxOut[s] /\ log[s][i] \in 1 .. MaxOut[s]
    <3>1. /\ Len(log[s]) \in Nat /\ read[s] \in Nat /\ written[s] \in Nat
          /\ MaxOut[s] \in Nat
      BY DEF IInv, DomInv, HandoverConstants
    <3>2. /\ read[s] <= written[s] /\ written[s] <= MaxOut[s]
          /\ \A i \in 1 .. Len(log[s]) : log[s][i] \in 1 .. MaxOut[s]
      BY DEF IInv, CountsInv, CountInv
    <3>3. Len(log[s]) <= MaxOut[s]
      BY <3>1, <3>2, LogRead
    <3> QED
      BY <3>1, <3>2, <3>3
  <2>4. Numbered(Len(log[s]), log[s]) \in Seq(Chunks(s))
    <3>1. Len(log[s]) \in Nat
      BY DEF IInv, DomInv
    <3>2. \A i \in 1 .. Len(log[s]) : [seq |-> i, piece |-> log[s][i]] \in Chunks(s)
      BY <2>3 DEF Chunks
    <3> QED
      BY <3>1, <3>2 DEF Numbered
  <2>5. (layers[s].cold \o layers[s].pending) \o layers[s].hot \in Seq(Chunks(s))
    BY <2>2, <2>4 DEF Whole
  <2>6. layers[s].cold \o layers[s].pending \in Seq(Piece)
    BY <2>1
  <2>7. /\ layers[s].cold \o layers[s].pending \in Seq(Chunks(s))
        /\ layers[s].hot \in Seq(Chunks(s))
    BY <2>1, <2>5, <2>6, PartsOfWhole, Zenon
  <2> QED
    BY <2>1, <2>7, PartsOfWhole, Zenon
<1> QED
  BY <1>1, <1>2

\* WriteHandover and RestoreHandover: what was appended before the restart is in the
\* layers after it, once, in order and under its number, for any output of any sessions,
\* whatever was half-way when the signal came.
THEOREM OutputKeptHolds == Spec => []OutputKept
<1>1. ASSUME HandoverConstants, IInv PROVE OutputKept
  <2>1. TypeOK
    <3>1. \A s \in Sessions : \A part \in {layers[s].cold, layers[s].pending, layers[s].hot} :
              part \in Seq(Chunks(s))
      BY <1>1, LayersTyped
    <3>2. \A s \in Sessions : batch[s] <= Len(layers[s].pending)
      BY <1>1 DEF IInv, AllKept, KeptInv
    <3> QED
      BY <1>1, <3>1, <3>2 DEF TypeOK, IInv, ProcInv
  <2>2. ASSUME NEW s \in table
        PROVE  layers[s].cold \o layers[s].pending \o layers[s].hot
                 = [n \in 1 .. layers[s].seq |-> [seq |-> n, piece |-> log[s][n]]]
    BY <1>1 DEF IInv, ProcInv, AllKept, KeptInv, Faithful, Whole, Numbered
  <2> QED
    BY <2>1, <2>2 DEF OutputKept
<1> QED
  BY <1>1, HandoverInvariant, HandoverConstants, PTL
=============================================================================
