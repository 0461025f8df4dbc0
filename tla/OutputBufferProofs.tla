------------------------- MODULE OutputBufferProofs --------------------------
(***************************************************************************)
(* Proofs about the output ring buffer, for any output, any limits, any    *)
(* number of compressions and any timing of a resync.                      *)
(***************************************************************************)
EXTENDS OutputBuffer, Integers, SequenceTheorems, WellFoundedInduction, TLAPS

\* The limits.
LEMMA Limits ==
    /\ MaxSeq \in Nat \ {0} /\ MaxLen \in Nat \ {0} /\ MaxData \in Nat \ {0}
    /\ MaxFlushers \in Nat \ {0} /\ MaxHotChunks \in Nat \ {0} /\ MaxHotBytes \in Nat \ {0}
    /\ SegmentTarget \in Nat \ {0} /\ BatchBytes \in Nat \ {0}
    /\ MaxClock \in Nat /\ MaxColdBytes \in Nat /\ MaxAge \in Nat /\ FlushAge \in Nat
    /\ MaxLen <= MaxHotBytes
  BY OutputBufferConstants DEF OutputBufferConstants

-----------------------------------------------------------------------------
(* Numbers.                                                                *)

\* A set of numbers has a least one.
LEMMA Least ==
    ASSUME NEW T, T \subseteq Nat, T # {}
    PROVE  \E x \in T : \A y \in T : x <= y
<1> DEFINE less == {ss \in Nat \X Nat : ss[1] < ss[2]}
<1>1. IsWellFoundedOn(less, Nat)
  <2>1. OpToRel(<, Nat) = less
    BY DEF OpToRel
  <2> QED
    BY <2>1, NatLessThanWellFounded
<1>2. PICK x \in T : \A y \in T : <<y, x>> \notin less
  BY <1>1, WFMin
<1>3. ASSUME NEW y \in T PROVE x <= y
  <2>1. x \in Nat /\ y \in Nat /\ ~(y < x)
    BY <1>2
  <2> QED
    BY <2>1
<1> QED
  BY <1>3

\* Induction, for a set in the place of a predicate.
LEMMA Induction ==
    ASSUME NEW T, 0 \in T, \A n \in Nat : n \in T => n + 1 \in T
    PROVE  \A n \in Nat : n \in T
<1> SUFFICES ASSUME Nat \ T # {} PROVE FALSE
  OBVIOUS
<1>1. PICK x \in Nat \ T : \A y \in Nat \ T : x <= y
  BY Least
<1>2. x # 0 /\ x - 1 \in Nat
  BY <1>1
<1>3. x - 1 \in T
  BY <1>1, <1>2
<1> QED
  BY <1>2, <1>3

\* Where a loop over n elements stops that goes on at the positions S.
Stop(n, S) == Min({j \in 0 .. n : j = n \/ j \notin S})

LEMMA LoopStops ==
    ASSUME NEW n \in Nat, NEW S
    PROVE  /\ Stop(n, S) \in 0 .. n
           /\ Stop(n, S) = n \/ Stop(n, S) \notin S
           /\ \A j \in 0 .. n : j < Stop(n, S) => j \in S
<1> DEFINE k == Stop(n, S)
           T == {j \in 0 .. n : j = n \/ j \notin S}
<1>1. T \subseteq Nat /\ n \in T
  OBVIOUS
<1>2. \E x \in T : \A y \in T : x <= y
  BY <1>1, Least
<1>3. k \in T /\ \A y \in T : k <= y
  BY <1>2 DEF Min, Stop
<1> HIDE DEF k
<1>4. ASSUME NEW j \in 0 .. n, j < k PROVE j \in S
  BY <1>3, <1>4
<1> QED
  BY <1>3, <1>4 DEF k

-----------------------------------------------------------------------------
(* Sums.                                                                   *)

Sums(ns, f) ==
    /\ f \in [0 .. Len(ns) -> Nat]
    /\ f[0] = 0
    /\ \A k \in 1 .. Len(ns) : f[k] = f[k - 1] + ns[k]

\* The recursion of Total defines something.
LEMMA TotalIsSum ==
    ASSUME NEW ns \in Seq(Nat)
    PROVE  \E f : Sums(ns, f) /\ Total(ns) = f[Len(ns)]
<1> DEFINE Step(g, n) == [k \in 0 .. n |-> IF k = 0 THEN 0 ELSE g[k - 1] + ns[k]]
           Good(n) == n <= Len(ns) => \E g \in [0 .. n -> Nat] : g = Step(g, n)
           T == {n \in Nat : Good(n)}
<1>1. Len(ns) \in Nat /\ \A i \in 1 .. Len(ns) : ns[i] \in Nat
  OBVIOUS
<1>2. 0 \in T
  <2> DEFINE g == [k \in 0 .. 0 |-> 0]
  <2>1. g \in [0 .. 0 -> Nat] /\ g = Step(g, 0)
    OBVIOUS
  <2> QED
    BY <2>1
<1>3. ASSUME NEW n \in Nat, n \in T, n + 1 <= Len(ns)
      PROVE  \E g \in [0 .. n + 1 -> Nat] : g = Step(g, n + 1)
  <2>1. PICK g \in [0 .. n -> Nat] : g = Step(g, n)
    BY <1>1, <1>3
  <2> DEFINE h == [k \in 0 .. n + 1 |-> IF k = n + 1 THEN g[n] + ns[n + 1] ELSE g[k]]
  <2>2. h \in [0 .. n + 1 -> Nat]
    <3>1. n \in 0 .. n /\ n + 1 \in 1 .. Len(ns)
      BY <1>1, <1>3
    <3>2. g[n] \in Nat /\ ns[n + 1] \in Nat
      BY <1>1, <2>1, <3>1
    <3>3. ASSUME NEW k \in 0 .. n + 1, k # n + 1 PROVE g[k] \in Nat
      BY <2>1, <3>3
    <3> QED
      BY <3>2, <3>3
  <2>3. ASSUME NEW k \in 0 .. n + 1
        PROVE  h[k] = IF k = 0 THEN 0 ELSE h[k - 1] + ns[k]
    <3>1. CASE k = n + 1
      BY <3>1
    <3>2. CASE k # n + 1
      <4>1. k \in 0 .. n /\ h[k] = g[k] /\ (k # 0 => k - 1 \in 0 .. n /\ h[k - 1] = g[k - 1])
        BY <3>2
      <4>2. g[k] = IF k = 0 THEN 0 ELSE g[k - 1] + ns[k]
        BY <2>1, <4>1
      <4> QED
        BY <4>1, <4>2
    <3> QED
      BY <3>1, <3>2
  <2> HIDE DEF h
  <2>4. h = [k \in 0 .. n + 1 |-> h[k]]
    BY <2>2
  <2> QED
    BY <2>2, <2>3, <2>4
<1>4. \A n \in Nat : n \in T => n + 1 \in T
  <2>1. \A n \in Nat : Good(n) => Good(n + 1)
    BY <1>3
  <2> HIDE DEF Good
  <2> QED
    BY <2>1
<1>5. Len(ns) \in T
  <2> HIDE DEF T
  <2> QED
    BY <1>1, <1>2, <1>4, Induction
<1>6. \E g : g = Step(g, Len(ns))
  BY <1>1, <1>5
<1> DEFINE sum == CHOOSE g : g = Step(g, Len(ns))
<1>7. Total(ns) = sum[Len(ns)]
  BY DEF Total
<1>8. sum = Step(sum, Len(ns))
  BY <1>6
<1> HIDE DEF sum
<1>9. \A k \in 0 .. Len(ns) : sum[k] = IF k = 0 THEN 0 ELSE sum[k - 1] + ns[k]
  BY <1>8
<1>10. \A k \in 0 .. Len(ns) : sum[k] \in Nat
  <2> DEFINE U == {k \in Nat : k <= Len(ns) => sum[k] \in Nat}
  <2>1. 0 \in U
    BY <1>1, <1>9
  <2>2. ASSUME NEW k \in Nat, k \in U PROVE k + 1 \in U
    <3>1. CASE k + 1 <= Len(ns)
      <4>1. k + 1 \in 1 .. Len(ns) /\ sum[k] \in Nat /\ ns[k + 1] \in Nat
        BY <1>1, <2>2, <3>1
      <4>2. sum[k + 1] = sum[k] + ns[k + 1]
        BY <1>1, <1>9, <4>1
      <4> QED
        BY <4>1, <4>2
    <3> QED
      BY <3>1
  <2>3. \A k \in Nat : k \in U
    <3> HIDE DEF U
    <3> QED
      BY <2>1, <2>2, Induction
  <2> QED
    BY <1>1, <2>3
<1>11. sum \in [0 .. Len(ns) -> Nat]
  <2>1. sum = [k \in 0 .. Len(ns) |-> sum[k]]
    BY <1>8
  <2> QED
    BY <1>10, <2>1
<1> QED
  <2>1. sum[0] = 0 /\ \A k \in 1 .. Len(ns) : sum[k] = sum[k - 1] + ns[k]
    BY <1>1, <1>9
  <2>2. Sums(ns, sum)
    BY <1>11, <2>1 DEF Sums
  <2> QED
    BY <1>7, <2>2

\* t is part of u, after d elements.
PartOf(t, u, d) ==
    /\ d + Len(t) <= Len(u)
    /\ \A j \in 1 .. Len(t) : u[d + j] = t[j]

\* Sums of a sequence and of a part of another that it is equal to run in parallel.
LEMMA SumsShift ==
    ASSUME NEW t \in Seq(Nat), NEW u \in Seq(Nat), NEW d \in Nat, PartOf(t, u, d),
           NEW f, Sums(u, f), NEW g, Sums(t, g)
    PROVE  f[d + Len(t)] = f[d] + g[Len(t)]
<1> DEFINE T == {j \in Nat : j <= Len(t) => f[d + j] = f[d] + g[j]}
<1>1. /\ Len(t) \in Nat /\ Len(u) \in Nat /\ d + Len(t) <= Len(u)
      /\ \A j \in 1 .. Len(t) : u[d + j] = t[j]
  BY DEF PartOf
<1>2. /\ \A k \in 0 .. Len(u) : f[k] \in Nat
      /\ \A k \in 0 .. Len(t) : g[k] \in Nat
      /\ g[0] = 0
      /\ \A k \in 1 .. Len(u) : f[k] = f[k - 1] + u[k]
      /\ \A k \in 1 .. Len(t) : g[k] = g[k - 1] + t[k]
  BY <1>1 DEF Sums
<1>3. 0 \in T
  <2>1. d + 0 = d /\ d \in 0 .. Len(u)
    BY <1>1
  <2>2. f[d] \in Nat /\ g[0] = 0
    BY <1>2, <2>1
  <2>3. f[d + 0] = f[d] + g[0]
    BY <2>1, <2>2
  <2> QED
    BY <2>3
<1>4. ASSUME NEW j \in Nat, j \in T PROVE j + 1 \in T
  <2> SUFFICES ASSUME j + 1 <= Len(t) PROVE f[d + (j + 1)] = f[d] + g[j + 1]
    BY <1>4
  <2>1. /\ j + 1 \in 1 .. Len(t) /\ d + (j + 1) \in 1 .. Len(u)
        /\ d \in 0 .. Len(u) /\ d + j \in 0 .. Len(u) /\ j \in 0 .. Len(t)
        /\ (d + (j + 1)) - 1 = d + j /\ (j + 1) - 1 = j
    BY <1>1
  <2>2. f[d + j] = f[d] + g[j]
    BY <1>1, <1>4
  <2>3. f[d + (j + 1)] = f[d + j] + u[d + (j + 1)] /\ g[j + 1] = g[j] + t[j + 1]
    BY <1>2, <2>1
  <2>4. u[d + (j + 1)] = t[j + 1] /\ t[j + 1] \in Nat
    BY <1>1, <2>1, ElementOfSeq
  <2>5. f[d] \in Nat /\ g[j] \in Nat
    BY <1>2, <2>1
  <2>6. f[d + (j + 1)] = (f[d] + g[j]) + t[j + 1]
    BY <2>2, <2>3, <2>4
  <2>7. (f[d] + g[j]) + t[j + 1] = f[d] + (g[j] + t[j + 1])
    BY <2>4, <2>5, SMTT(30)
  <2> QED
    BY <2>3, <2>6, <2>7, Zenon
<1>5. Len(t) \in T
  <2> HIDE DEF T
  <2> QED
    BY <1>1, <1>3, <1>4, Induction
<1> QED
  BY <1>5

LEMMA TotalOfConcat ==
    ASSUME NEW s \in Seq(Nat), NEW t \in Seq(Nat)
    PROVE  Total(s \o t) = Total(s) + Total(t)
<1> DEFINE u == s \o t
<1>1. /\ u \in Seq(Nat) /\ Len(u) = Len(s) + Len(t) /\ Len(s) \in Nat /\ Len(t) \in Nat
      /\ \A j \in 1 .. Len(s) : u[0 + j] = s[j]
      /\ \A j \in 1 .. Len(t) : u[Len(s) + j] = t[j]
  OBVIOUS
<1>2. PICK f : Sums(s, f) /\ Total(s) = f[Len(s)]
  BY TotalIsSum
<1>3. PICK g : Sums(t, g) /\ Total(t) = g[Len(t)]
  BY TotalIsSum
<1> HIDE DEF u
<1>4. PICK h : Sums(u, h) /\ Total(u) = h[Len(u)]
  BY <1>1, TotalIsSum
<1>5. h[0 + Len(s)] = h[0] + f[Len(s)]
  <2>1. PartOf(s, u, 0)
    BY <1>1 DEF PartOf
  <2> QED
    BY <1>1, <1>2, <1>4, <2>1, SumsShift
<1>6. h[Len(s) + Len(t)] = h[Len(s)] + g[Len(t)]
  <2>1. PartOf(t, u, Len(s))
    BY <1>1 DEF PartOf
  <2> QED
    BY <1>1, <1>3, <1>4, <2>1, SumsShift
<1>7. h[0] = 0 /\ f[Len(s)] \in Nat
  <2>1. h[0] = 0 /\ f \in [0 .. Len(s) -> Nat]
    BY <1>2, <1>4 DEF Sums
  <2>2. Len(s) \in 0 .. Len(s)
    BY <1>1
  <2> QED
    BY <2>1, <2>2
<1>8. h[Len(s)] = f[Len(s)]
  BY <1>1, <1>5, <1>7
<1> QED
  BY <1>1, <1>2, <1>3, <1>4, <1>6, <1>8 DEF u

LEMMA TotalIsNat ==
    ASSUME NEW s \in Seq(Nat)
    PROVE  Total(s) \in Nat
<1>1. PICK f : Sums(s, f) /\ Total(s) = f[Len(s)]
  BY TotalIsSum
<1> QED
  BY <1>1 DEF Sums

LEMMA TotalOfFew ==
    /\ Total(<<>>) = 0
    /\ \A n \in Nat : Total(<<n>>) = n
<1>1. Total(<<>>) = 0
  <2>1. <<>> \in Seq(Nat) /\ Len(<<>>) = 0
    OBVIOUS
  <2> QED
    BY <2>1, TotalIsSum DEF Sums
<1>2. ASSUME NEW n \in Nat PROVE Total(<<n>>) = n
  <2>1. <<n>> \in Seq(Nat) /\ Len(<<n>>) = 1 /\ <<n>>[1] = n
    OBVIOUS
  <2>2. PICK f : Sums(<<n>>, f) /\ Total(<<n>>) = f[1]
    BY <2>1, TotalIsSum
  <2>3. f[0] = 0 /\ f[1] = f[1 - 1] + n
    BY <2>1, <2>2 DEF Sums
  <2> QED
    BY <2>2, <2>3
<1> QED
  BY <1>1, <1>2

-----------------------------------------------------------------------------
(* The sizes of chunks and of segments.                                    *)

Segment == [startSeq : 1 .. MaxSeq, endSeq : 1 .. MaxSeq, newestTime : 0 .. MaxClock,
            chunks : Seq(Chunk), data : Nat]

LEMMA BytesOfParts ==
    /\ Bytes(<<>>) = 0
    /\ \A s \in Seq(Chunk) : Bytes(s) \in Nat
    /\ \A s, t \in Seq(Chunk) : Bytes(s \o t) = Bytes(s) + Bytes(t)
    /\ \A s \in Seq(Chunk), ch \in Chunk : Bytes(Append(s, ch)) = Bytes(s) + ch.len
<1> DEFINE Lens(s) == [i \in 1 .. Len(s) |-> s[i].len]
<1>1. ASSUME NEW s \in Seq(Chunk) PROVE Lens(s) \in Seq(Nat)
  <2>1. ASSUME NEW i \in 1 .. Len(s) PROVE s[i].len \in Nat
    <3>1. s[i] \in Chunk
      OBVIOUS
    <3> QED
      BY <3>1, Limits DEF Chunk
  <2> QED
    BY <2>1
<1>2. ASSUME NEW s \in Seq(Chunk), NEW t \in Seq(Chunk)
      PROVE  Lens(s \o t) = Lens(s) \o Lens(t)
  OBVIOUS
<1>3. Bytes(<<>>) = 0
  <2>1. Lens(<<>>) = <<>>
    OBVIOUS
  <2> QED
    BY <2>1, TotalOfFew DEF Bytes
<1>4. ASSUME NEW s \in Seq(Chunk) PROVE Bytes(s) \in Nat
  BY <1>1, TotalIsNat DEF Bytes
<1>5. ASSUME NEW s \in Seq(Chunk), NEW t \in Seq(Chunk)
      PROVE  Bytes(s \o t) = Bytes(s) + Bytes(t)
  <2> HIDE DEF Lens
  <2>1. Total(Lens(s \o t)) = Total(Lens(s)) + Total(Lens(t))
    BY <1>1, <1>2, TotalOfConcat
  <2> QED
    BY <2>1 DEF Bytes, Lens
<1>6. ASSUME NEW s \in Seq(Chunk), NEW ch \in Chunk
      PROVE  Bytes(Append(s, ch)) = Bytes(s) + ch.len
  <2>1. Append(s, ch) = s \o <<ch>> /\ <<ch>> \in Seq(Chunk)
    OBVIOUS
  <2>2. Lens(<<ch>>) = <<ch.len>> /\ ch.len \in Nat
    BY Limits DEF Chunk
  <2>3. Bytes(<<ch>>) = ch.len
    BY <2>2, TotalOfFew DEF Bytes
  <2> QED
    BY <1>5, <2>1, <2>3
<1> QED
  BY <1>3, <1>4, <1>5, <1>6

LEMMA SizeOfParts ==
    /\ Size(<<>>) = 0
    /\ \A s \in Seq(Segment) : Size(s) \in Nat
    /\ \A s, t \in Seq(Segment) : Size(s \o t) = Size(s) + Size(t)
    /\ \A s \in Seq(Segment), x \in Segment : Size(Append(s, x)) = Size(s) + x.data
<1> DEFINE Datas(s) == [i \in 1 .. Len(s) |-> s[i].data]
<1>1. ASSUME NEW s \in Seq(Segment) PROVE Datas(s) \in Seq(Nat)
  <2>1. ASSUME NEW i \in 1 .. Len(s) PROVE s[i].data \in Nat
    <3>1. s[i] \in Segment
      OBVIOUS
    <3> QED
      BY <3>1 DEF Segment
  <2> QED
    BY <2>1
<1>2. ASSUME NEW s \in Seq(Segment), NEW t \in Seq(Segment)
      PROVE  Datas(s \o t) = Datas(s) \o Datas(t)
  OBVIOUS
<1>3. Size(<<>>) = 0
  <2>1. Datas(<<>>) = <<>>
    OBVIOUS
  <2> QED
    BY <2>1, TotalOfFew DEF Size
<1>4. ASSUME NEW s \in Seq(Segment) PROVE Size(s) \in Nat
  BY <1>1, TotalIsNat DEF Size
<1>5. ASSUME NEW s \in Seq(Segment), NEW t \in Seq(Segment)
      PROVE  Size(s \o t) = Size(s) + Size(t)
  <2> HIDE DEF Datas
  <2>1. Total(Datas(s \o t)) = Total(Datas(s)) + Total(Datas(t))
    BY <1>1, <1>2, TotalOfConcat
  <2> QED
    BY <2>1 DEF Size, Datas
<1>6. ASSUME NEW s \in Seq(Segment), NEW x \in Segment
      PROVE  Size(Append(s, x)) = Size(s) + x.data
  <2>1. Append(s, x) = s \o <<x>> /\ <<x>> \in Seq(Segment)
    OBVIOUS
  <2>2. Datas(<<x>>) = <<x.data>> /\ x.data \in Nat
    BY DEF Segment
  <2>3. Size(<<x>>) = x.data
    BY <2>2, TotalOfFew DEF Size
  <2> QED
    BY <1>5, <2>1, <2>3
<1> QED
  BY <1>3, <1>4, <1>5, <1>6

-----------------------------------------------------------------------------
(* The order of chunks.                                                    *)

\* The sequence numbers of s ascend; those in A are before those in B.
Rising(s) == \A i, j \in 1 .. Len(s) : i < j => s[i].seq < s[j].seq
Older(A, B) == \A x \in A, y \in B : x.seq < y.seq

LEMMA Elements ==
    ASSUME NEW S, NEW s \in Seq(S)
    PROVE  \A x : x \in ToSet(s) <=> \E i \in 1 .. Len(s) : x = s[i]
<1>1. DOMAIN s = 1 .. Len(s)
  OBVIOUS
<1> QED
  BY <1>1 DEF ToSet

LEMMA Joined ==
    ASSUME NEW s \in Seq(Chunk), NEW t \in Seq(Chunk)
    PROVE  /\ s \o t \in Seq(Chunk)
           /\ ToSet(s \o t) = ToSet(s) \union ToSet(t)
           /\ Rising(s) /\ Rising(t) /\ Older(ToSet(s), ToSet(t)) => Rising(s \o t)
<1> DEFINE u == s \o t
<1>1. /\ u \in Seq(Chunk) /\ Len(u) = Len(s) + Len(t) /\ Len(s) \in Nat /\ Len(t) \in Nat
      /\ \A j \in 1 .. Len(s) : u[j] = s[j]
      /\ \A j \in 1 .. Len(t) : u[Len(s) + j] = t[j]
      /\ \A j \in 1 .. Len(u) : j > Len(s) => j - Len(s) \in 1 .. Len(t) /\ u[j] = t[j - Len(s)]
      /\ DOMAIN u = 1 .. Len(u) /\ DOMAIN s = 1 .. Len(s) /\ DOMAIN t = 1 .. Len(t)
  OBVIOUS
<1> HIDE DEF u
<1>2. ToSet(u) \subseteq ToSet(s) \union ToSet(t)
  <2> SUFFICES ASSUME NEW j \in 1 .. Len(u) PROVE u[j] \in ToSet(s) \union ToSet(t)
    <3>1. ASSUME NEW x \in ToSet(u) PROVE \E j \in 1 .. Len(u) : x = u[j]
      BY <1>1 DEF ToSet
    <3> QED
      BY <3>1, Zenon
  <2>1. CASE j <= Len(s)
    BY <1>1, <2>1 DEF ToSet
  <2>2. CASE j > Len(s)
    BY <1>1, <2>2 DEF ToSet
  <2> QED
    BY <1>1, <2>1, <2>2
<1>3. ToSet(s) \union ToSet(t) \subseteq ToSet(u)
  <2>1. \A j \in 1 .. Len(s) : j \in 1 .. Len(u) /\ u[j] = s[j]
    BY <1>1
  <2>2. \A j \in 1 .. Len(t) : Len(s) + j \in 1 .. Len(u) /\ u[Len(s) + j] = t[j]
    BY <1>1
  <2>3. ToSet(s) \subseteq ToSet(u)
    BY <1>1, <2>1 DEF ToSet
  <2>4. ToSet(t) \subseteq ToSet(u)
    <3> SUFFICES ASSUME NEW j \in 1 .. Len(t) PROVE t[j] \in ToSet(u)
      BY <1>1 DEF ToSet
    <3>1. Len(s) + j \in DOMAIN u /\ u[Len(s) + j] = t[j]
      BY <1>1, <2>2
    <3> QED
      BY <3>1 DEF ToSet
  <2> QED
    BY <2>3, <2>4
<1>4. ASSUME Rising(s), Rising(t), Older(ToSet(s), ToSet(t))
      PROVE  Rising(u)
  <2> SUFFICES ASSUME NEW i \in 1 .. Len(u), NEW j \in 1 .. Len(u), i < j
               PROVE  u[i].seq < u[j].seq
    BY DEF Rising
  <2>1. CASE j <= Len(s)
    BY <1>1, <1>4, <2>1 DEF Rising
  <2>2. CASE i > Len(s)
    <3>1. /\ i - Len(s) \in 1 .. Len(t) /\ j - Len(s) \in 1 .. Len(t)
          /\ i - Len(s) < j - Len(s) /\ u[i] = t[i - Len(s)] /\ u[j] = t[j - Len(s)]
      BY <1>1, <2>2
    <3>2. t[i - Len(s)].seq < t[j - Len(s)].seq
      BY <1>4, <3>1 DEF Rising
    <3> QED
      BY <3>1, <3>2
  <2>3. CASE i <= Len(s) /\ j > Len(s)
    <3>1. i \in 1 .. Len(s) /\ j - Len(s) \in 1 .. Len(t)
      BY <1>1, <2>3
    <3>2. u[i] = s[i] /\ u[j] = t[j - Len(s)]
      BY <1>1, <2>3, <3>1
    <3>3. u[i] \in ToSet(s) /\ u[j] \in ToSet(t)
      BY <1>1, <3>1, <3>2 DEF ToSet
    <3> QED
      BY <1>4, <3>3 DEF Older
  <2> QED
    BY <1>1, <2>1, <2>2, <2>3
<1> QED
  BY <1>1, <1>2, <1>3, <1>4 DEF u

\* The two parts of a layer that a loop leaves.
LEMMA Parted ==
    ASSUME NEW S, NEW s \in Seq(S), NEW k \in 0 .. Len(s)
    PROVE  /\ Take(s, k) \in Seq(S) /\ Len(Take(s, k)) = k
           /\ Drop(s, k) \in Seq(S) /\ Len(Drop(s, k)) = Len(s) - k
           /\ \A i \in 1 .. k : Take(s, k)[i] = s[i]
           /\ \A i \in 1 .. Len(s) - k : Drop(s, k)[i] = s[k + i]
<1>1. Len(s) \in Nat /\ \A i \in 1 .. Len(s) : s[i] \in S
  BY ElementOfSeq, LenProperties
<1>2. /\ Take(s, k) \in Seq(S) /\ Len(Take(s, k)) = k
      /\ \A i \in 1 .. k : Take(s, k)[i] = s[i]
  BY <1>1 DEF Take
<1>3. /\ Drop(s, k) \in Seq(S) /\ Len(Drop(s, k)) = Len(s) - k
      /\ \A i \in 1 .. Len(s) - k : Drop(s, k)[i] = s[k + i]
  BY <1>1 DEF Drop
<1> QED
  BY <1>2, <1>3

LEMMA PartsJoin ==
    ASSUME NEW S, NEW s \in Seq(S), NEW k \in 0 .. Len(s)
    PROVE  Take(s, k) \o Drop(s, k) = s
<1>1. Len(s) \in Nat
  BY LenProperties
<1>2. /\ 1 \in 1 .. Len(s) + 1 /\ k \in 1 - 1 .. Len(s) /\ Len(s) \in k .. Len(s)
  BY <1>1
<1>3. Take(s, k) \o Drop(s, k) = SubSeq(s, 1, Len(s))
  BY <1>2, ConcatAdjacentSubSeq, Zenon DEF Take, Drop
<1> QED
  BY <1>3, SubSeqFull, Zenon

LEMMA PartElements ==
    ASSUME NEW S, NEW s \in Seq(S), NEW k \in 0 .. Len(s)
    PROVE  /\ \A x : x \in ToSet(Take(s, k)) <=> \E i \in 1 .. k : x = s[i]
           /\ \A x : x \in ToSet(Drop(s, k)) <=> \E i \in k + 1 .. Len(s) : x = s[i]
           /\ ToSet(s) = ToSet(Take(s, k)) \union ToSet(Drop(s, k))
<1> DEFINE a == Take(s, k)
           b == Drop(s, k)
<1>1. /\ Len(s) \in Nat
      /\ a \in Seq(S) /\ Len(a) = k /\ \A i \in 1 .. k : a[i] = s[i]
      /\ b \in Seq(S) /\ Len(b) = Len(s) - k /\ \A i \in 1 .. Len(s) - k : b[i] = s[k + i]
  BY Parted, LenProperties, Zenon
<1> HIDE DEF a, b
<1>2. \A x : x \in ToSet(a) <=> \E i \in 1 .. k : x = s[i]
  <2>1. \A x : x \in ToSet(a) <=> \E i \in 1 .. Len(a) : x = a[i]
    BY <1>1, Elements
  <2>2. 1 .. Len(a) = 1 .. k
    BY <1>1, Zenon
  <2>3. ASSUME NEW x \in ToSet(a) PROVE \E i \in 1 .. k : x = s[i]
    <3>1. PICK i \in 1 .. k : x = a[i]
      BY <2>1, <2>2, Zenon
    <3> QED
      BY <1>1, <3>1, Zenon
  <2>4. ASSUME NEW i \in 1 .. k PROVE s[i] \in ToSet(a)
    <3>1. a[i] \in ToSet(a)
      BY <2>1, <2>2, Zenon
    <3> QED
      BY <1>1, <3>1, Zenon
  <2> QED
    BY <2>3, <2>4, Zenon
<1>3. \A x : x \in ToSet(b) <=> \E i \in k + 1 .. Len(s) : x = s[i]
  <2>1. \A x : x \in ToSet(b) <=> \E i \in 1 .. Len(b) : x = b[i]
    BY <1>1, Elements
  <2>2. \A i \in 1 .. Len(b) : b[i] = s[k + i] /\ k + i \in k + 1 .. Len(s)
    BY <1>1
  <2>3. ASSUME NEW i \in k + 1 .. Len(s)
        PROVE  i - k \in 1 .. Len(b) /\ k + (i - k) = i
    BY <1>1
  <2>4. \A i \in k + 1 .. Len(s) : i - k \in 1 .. Len(b) /\ b[i - k] = s[i]
    BY <2>2, <2>3
  <2>5. ASSUME NEW x \in ToSet(b) PROVE \E i \in k + 1 .. Len(s) : x = s[i]
    BY <2>1, <2>2
  <2>6. ASSUME NEW i \in k + 1 .. Len(s) PROVE s[i] \in ToSet(b)
    BY <2>1, <2>4
  <2> QED
    BY <2>5, <2>6
<1>4. \A x : x \in ToSet(s) <=> \E i \in 1 .. Len(s) : x = s[i]
  BY Elements
<1>5. \A i : i \in 1 .. Len(s) <=> i \in 1 .. k \/ i \in k + 1 .. Len(s)
  BY <1>1
<1>6. ToSet(s) = ToSet(a) \union ToSet(b)
  BY <1>2, <1>3, <1>4, <1>5
<1> QED
  BY <1>2, <1>3, <1>6 DEF a, b

LEMMA PartsRise ==
    ASSUME NEW s \in Seq(Chunk), NEW k \in 0 .. Len(s), Rising(s)
    PROVE  /\ Rising(Take(s, k)) /\ Rising(Drop(s, k))
           /\ Older(ToSet(Take(s, k)), ToSet(Drop(s, k)))
<1> DEFINE a == Take(s, k)
           b == Drop(s, k)
<1>1. /\ Len(s) \in Nat
      /\ Len(a) = k /\ \A i \in 1 .. k : a[i] = s[i]
      /\ Len(b) = Len(s) - k /\ \A i \in 1 .. Len(s) - k : b[i] = s[k + i]
  BY Parted, LenProperties, Zenon
<1>2. /\ \A x : x \in ToSet(a) <=> \E i \in 1 .. k : x = s[i]
      /\ \A x : x \in ToSet(b) <=> \E i \in k + 1 .. Len(s) : x = s[i]
  BY PartElements, Zenon
<1> HIDE DEF a, b
<1>3. Rising(a)
  BY <1>1 DEF Rising
<1>4. Rising(b)
  <2> SUFFICES ASSUME NEW i \in 1 .. Len(b), NEW j \in 1 .. Len(b), i < j
               PROVE  b[i].seq < b[j].seq
    BY DEF Rising
  <2>1. k + i \in 1 .. Len(s) /\ k + j \in 1 .. Len(s) /\ k + i < k + j
    BY <1>1
  <2>2. s[k + i].seq < s[k + j].seq
    BY <2>1 DEF Rising
  <2> QED
    BY <1>1, <2>2
<1>5. Older(ToSet(a), ToSet(b))
  <2> SUFFICES ASSUME NEW i \in 1 .. k, NEW j \in k + 1 .. Len(s) PROVE s[i].seq < s[j].seq
    BY <1>2 DEF Older
  <2>1. i \in 1 .. Len(s) /\ j \in 1 .. Len(s) /\ i < j
    BY <1>1
  <2> QED
    BY <2>1 DEF Rising
<1> QED
  BY <1>3, <1>4, <1>5 DEF a, b

-----------------------------------------------------------------------------
(* Pieces put together.                                                    *)

PiecesRise(q) ==
    /\ \A i \in 1 .. Len(q) : Rising(q[i])
    /\ \A i, j \in 1 .. Len(q) : i < j => Older(ToSet(q[i]), ToSet(q[j]))

\* f[k] is the first k pieces of q, put together.
Flattens(q, f) ==
    \A i \in 1 .. Len(q) : f[i] = IF i = 1 THEN q[i] ELSE f[i - 1] \o q[i]

\* The recursion of FlattenSeq defines something.
LEMMA FlattenSeqFlattens ==
    ASSUME NEW q \in Seq(Seq(Chunk)), q # <<>>
    PROVE  \E f : Flattens(q, f) /\ FlattenSeq(q) = f[Len(q)]
<1> DEFINE Step(g, n) == [i \in 1 .. n |-> IF i = 1 THEN q[i] ELSE g[i - 1] \o q[i]]
           Good(n) == \E g : g = Step(g, n)
           T == {n \in Nat : Good(n)}
<1>1. Len(q) \in Nat /\ Len(q) # 0
  OBVIOUS
<1>2. 0 \in T
  <2> DEFINE g == [i \in 1 .. 0 |-> 0]
  <2>1. g = Step(g, 0)
    OBVIOUS
  <2> QED
    BY <2>1
<1>3. ASSUME NEW n \in Nat, Good(n) PROVE Good(n + 1)
  <2>1. PICK g : g = Step(g, n)
    BY <1>3
  <2> DEFINE new == IF n + 1 = 1 THEN q[n + 1] ELSE g[n] \o q[n + 1]
             h == [i \in 1 .. n + 1 |-> IF i = n + 1 THEN new ELSE g[i]]
  <2>2. h = [i \in 1 .. n + 1 |-> h[i]]
    OBVIOUS
  <2>3. ASSUME NEW i \in 1 .. n + 1
        PROVE  h[i] = IF i = 1 THEN q[i] ELSE h[i - 1] \o q[i]
    <3>1. CASE i = n + 1
      <4>1. h[i] = new
        BY <3>1
      <4>2. i # 1 => i - 1 \in 1 .. n + 1 /\ i - 1 # n + 1 /\ i - 1 = n
        BY <3>1
      <4>3. i # 1 => h[i - 1] = g[n]
        BY <4>2
      <4> QED
        BY <3>1, <4>1, <4>3
    <3>2. CASE i # n + 1
      <4>1. i \in 1 .. n /\ h[i] = g[i] /\ (i # 1 => i - 1 \in 1 .. n /\ h[i - 1] = g[i - 1])
        BY <3>2
      <4>2. g[i] = IF i = 1 THEN q[i] ELSE g[i - 1] \o q[i]
        BY <2>1, <4>1
      <4> QED
        BY <4>1, <4>2
    <3> QED
      BY <3>1, <3>2
  <2> HIDE DEF h
  <2>4. h = Step(h, n + 1)
    BY <2>2, <2>3
  <2> QED
    BY <2>4
<1>4. \A n \in Nat : n \in T => n + 1 \in T
  <2> HIDE DEF Good
  <2> QED
    BY <1>3
<1>5. Len(q) \in T
  <2> HIDE DEF T
  <2> QED
    BY <1>1, <1>2, <1>4, Induction
<1>6. \E g : g = Step(g, Len(q))
  BY <1>5
<1> DEFINE f == CHOOSE g : g = Step(g, Len(q))
<1>7. FlattenSeq(q) = f[Len(q)]
  BY <1>1 DEF FlattenSeq
<1>8. f = Step(f, Len(q))
  BY <1>6
<1> HIDE DEF f
<1>9. Flattens(q, f)
  BY <1>8 DEF Flattens
<1> QED
  BY <1>7, <1>9

\* What is in the first k pieces, put together as r.
PutTogether(q, k, r) ==
    /\ r \in Seq(Chunk)
    /\ \A x : x \in ToSet(r) <=> \E i \in 1 .. k : x \in ToSet(q[i])
    /\ PiecesRise(q) => Rising(r)

LEMMA Flattened ==
    ASSUME NEW q \in Seq(Seq(Chunk))
    PROVE  PutTogether(q, Len(q), FlattenSeq(q))
<1>1. Len(q) \in Nat /\ \A i \in 1 .. Len(q) : q[i] \in Seq(Chunk)
  OBVIOUS
<1>2. CASE q = <<>>
  <2>1. FlattenSeq(q) = <<>> /\ Len(q) = 0
    BY <1>2 DEF FlattenSeq
  <2>2. <<>> \in Seq(Chunk) /\ ToSet(<<>>) = {} /\ Rising(<<>>)
    BY DEF ToSet, Rising
  <2> QED
    BY <2>1, <2>2 DEF PutTogether
<1>3. CASE q # <<>>
  <2>1. PICK f : Flattens(q, f) /\ FlattenSeq(q) = f[Len(q)]
    BY <1>3, FlattenSeqFlattens
  <2> DEFINE Good(k) == k \in 1 .. Len(q) => PutTogether(q, k, f[k])
             T == {k \in Nat : Good(k)}
  <2>2. 0 \in T
    BY <1>1
  <2>3. ASSUME NEW k \in Nat, Good(k), k + 1 \in 1 .. Len(q)
        PROVE  PutTogether(q, k + 1, f[k + 1])
    <3>1. CASE k = 0
      <4>1. f[1] = q[1] /\ 1 \in 1 .. Len(q)
        BY <2>1, <2>3, <3>1 DEF Flattens
      <4>2. k + 1 = 1 /\ \A i \in 1 .. 1 : i = 1
        BY <3>1
      <4>3. PutTogether(q, 1, q[1])
        BY <1>1, <4>1, <4>2 DEF PutTogether, PiecesRise
      <4> QED
        BY <4>1, <4>2, <4>3
    <3>2. CASE k # 0
      <4>1. k \in 1 .. Len(q) /\ k + 1 # 1 /\ (k + 1) - 1 = k
        BY <1>1, <2>3, <3>2
      <4>2. f[k + 1] = f[k] \o q[k + 1]
        BY <2>1, <2>3, <4>1 DEF Flattens
      <4>3. PutTogether(q, k, f[k])
        BY <2>3, <4>1
      <4>4. f[k] \in Seq(Chunk) /\ q[k + 1] \in Seq(Chunk)
        BY <1>1, <2>3, <4>3 DEF PutTogether
      <4>5. /\ f[k] \o q[k + 1] \in Seq(Chunk)
            /\ ToSet(f[k] \o q[k + 1]) = ToSet(f[k]) \union ToSet(q[k + 1])
            /\ Rising(f[k]) /\ Rising(q[k + 1]) /\ Older(ToSet(f[k]), ToSet(q[k + 1]))
                 => Rising(f[k] \o q[k + 1])
        BY <4>4, Joined
      <4>6. \A i : i \in 1 .. k + 1 <=> i \in 1 .. k \/ i = k + 1
        OBVIOUS
      <4>7. ASSUME NEW x
            PROVE  x \in ToSet(f[k + 1]) <=> \E i \in 1 .. k + 1 : x \in ToSet(q[i])
        BY <4>2, <4>3, <4>5, <4>6 DEF PutTogether
      <4>8. ASSUME PiecesRise(q) PROVE Rising(f[k + 1])
        <5>1. Rising(f[k]) /\ Rising(q[k + 1])
          BY <2>3, <4>3, <4>8 DEF PutTogether, PiecesRise
        <5>2. ASSUME NEW x \in ToSet(f[k]), NEW y \in ToSet(q[k + 1]) PROVE x.seq < y.seq
          <6>1. PICK i \in 1 .. k : x \in ToSet(q[i])
            BY <4>3 DEF PutTogether
          <6>2. i \in 1 .. Len(q) /\ i < k + 1
            BY <4>1, <6>1
          <6> QED
            BY <2>3, <4>8, <6>1, <6>2 DEF PiecesRise, Older
        <5>3. Older(ToSet(f[k]), ToSet(q[k + 1]))
          BY <5>2 DEF Older
        <5> QED
          BY <4>2, <4>5, <5>1, <5>3
      <4> QED
        BY <4>2, <4>5, <4>7, <4>8 DEF PutTogether
    <3> QED
      BY <3>1, <3>2
  <2>4. \A k \in Nat : k \in T => k + 1 \in T
    <3>1. \A k \in Nat : Good(k) => Good(k + 1)
      BY <2>3
    <3> HIDE DEF Good
    <3> QED
      BY <3>1
  <2>5. Len(q) \in T
    <3> HIDE DEF T
    <3> QED
      BY <1>1, <2>2, <2>4, Induction
  <2>6. Len(q) \in 1 .. Len(q)
    BY <1>1, <1>3
  <2> QED
    BY <2>1, <2>5, <2>6
<1> QED
  BY <1>2, <1>3

-----------------------------------------------------------------------------
(* The inductive invariant.                                                *)

\* The chunks of the compressed segments, and all that is retained.
ColdOf(segs) == {x \in Chunk : \E i \in 1 .. Len(segs) : x \in ToSet(segs[i].chunks)}
Kept == ColdOf(segments) \union ToSet(pending) \union ToSet(hot)

\* A segment says of itself what its chunks are.
Sealed(s) ==
    /\ s.chunks # <<>> /\ Rising(s.chunks)
    /\ s.startSeq = s.chunks[1].seq
    /\ s.endSeq = s.chunks[Len(s.chunks)].seq
    /\ s.newestTime = s.chunks[Len(s.chunks)].at

SegmentsInOrder(segs) ==
    /\ \A i \in 1 .. Len(segs) : Sealed(segs[i])
    /\ \A i, j \in 1 .. Len(segs) :
           i < j => Older(ToSet(segs[i].chunks), ToSet(segs[j].chunks))

OrderInv ==
    /\ SegmentsInOrder(segments) /\ Rising(pending) /\ Rising(hot)
    /\ Older(ColdOf(segments), ToSet(pending)) /\ Older(ColdOf(segments), ToSet(hot))
    /\ Older(ToSet(pending), ToSet(hot))

\* A chunk carries the time of its number, and times grow with numbers; so what is
\* older than a chunk that is past its age is past it, too.
BornInv ==
    /\ Len(born) = seq
    /\ \A i, j \in 1 .. seq : i <= j => born[i] <= born[j]
    /\ \A i \in 1 .. seq : born[i] <= clock
    /\ \A ch \in Kept : ch.seq <= seq /\ ch.at = born[ch.seq]

\* Somebody compresses a batch that is not empty.
BatchInv == BatchAtHead /\ (flusher = "none" <=> batch = <<>>)

\* hot keeps the newest chunk until it is past its age: then everything is.
NewestInv ==
    /\ hot # <<>> => hot[Len(hot)].seq = seq
    /\ hot = <<>> /\ seq > 0 => TooOld(born[seq])

\* NothingVanishes, of the chunks kept.
LossExplained ==
    \A n \in 1 .. seq :
        \/ \E x \in Kept : x.seq = n
        \/ TooOld(born[n])
        \/ n \in failed
        \/ \A y \in Kept : n < y.seq

StoreInv ==
    /\ TypeOK /\ OrderInv /\ BornInv /\ BatchInv /\ NewestInv /\ Accounting
    /\ LossExplained

\* ResyncSkipsNothing, of the chunks kept.
PassedOver ==
    \A x \in Kept :
        x.seq < next /\ x.seq >= (IF from > 1 THEN from ELSE sent[1]) => x.seq \in ToSet(sent)

\* A resync has sent numbers from "from" up to "next", and what it has passed over is
\* accounted for.
ResyncInv ==
    /\ from <= next /\ next <= seq + 1 /\ upTo <= seq
    /\ sent = <<>> => next = from
    /\ \A i \in 1 .. Len(sent) : from <= sent[i] /\ sent[i] < next
    /\ phase = "idle" => sent = <<>> /\ from = 1
    /\ phase = "running" /\ from > 1 =>
          \A n \in from .. next - 1 :
              n \in ToSet(sent) \union failed \/ noticed \/ TooOld(born[n])
    /\ ResyncInOrder /\ PassedOver /\ GapReported

IInv == StoreInv /\ ResyncInv

-----------------------------------------------------------------------------
(* Eviction.                                                               *)

LEMMA ExpiredStops ==
    ASSUME NEW q \in Seq(Chunk)
    PROVE  /\ Expired(q) \in 0 .. Len(q)
           /\ Expired(q) = Len(q) \/ ~TooOld(q[Expired(q) + 1].at)
           /\ \A i \in 1 .. Expired(q) : TooOld(q[i].at)
<1> DEFINE n == Len(q)
           S == {j \in 0 .. n : TooOld(q[j + 1].at)}
           k == Expired(q)
<1>1. n \in Nat
  OBVIOUS
<1>2. {j \in 0 .. n : j = n \/ ~TooOld(q[j + 1].at)} = {j \in 0 .. n : j = n \/ j \notin S}
  OBVIOUS
<1>3. k = Stop(n, S)
  BY <1>2 DEF Expired, LoopCount, Stop
<1> HIDE DEF S, k
<1>4. /\ k \in 0 .. n
      /\ k = n \/ k \notin S
      /\ \A j \in 0 .. n : j < k => j \in S
  BY <1>1, <1>3, LoopStops
<1>5. k = n \/ ~TooOld(q[k + 1].at)
  BY <1>4 DEF S
<1>6. ASSUME NEW i \in 1 .. k PROVE TooOld(q[i].at)
  <2>1. i - 1 \in 0 .. n /\ i - 1 < k /\ (i - 1) + 1 = i
    BY <1>1, <1>4
  <2>2. i - 1 \in S
    BY <1>4, <2>1
  <2> QED
    BY <2>1, <2>2 DEF S
<1> QED
  BY <1>4, <1>5, <1>6 DEF k

\* While a limit is exceeded by what is left, or the head is too old, the head goes; so
\* what is too old goes, and the last chunk goes only for that.
LEMMA HotEvictedStops ==
    ASSUME NEW q \in Seq(Chunk)
    PROVE  /\ HotEvicted(q, Bytes(q)) \in 0 .. Len(q)
           /\ Expired(q) <= HotEvicted(q, Bytes(q))
           /\ HotEvicted(q, Bytes(q)) = Len(q) /\ q # <<>> => TooOld(q[Len(q)].at)
<1> DEFINE n == Len(q)
           Go(j) == \/ TooOld(q[j + 1].at)
                    \/ n - j > MaxHotChunks
                    \/ Bytes(q) - Bytes(Take(q, j)) > MaxHotBytes
           S == {j \in 0 .. n : Go(j)}
           k == HotEvicted(q, Bytes(q))
<1>1. n \in Nat
  OBVIOUS
<1>2. {j \in 0 .. n : j = n \/ ~Go(j)} = {j \in 0 .. n : j = n \/ j \notin S}
  OBVIOUS
<1>3. k = Stop(n, S)
  BY <1>2 DEF HotEvicted, LoopCount, Stop
<1> HIDE DEF S, k
<1>4. /\ k \in 0 .. n
      /\ k = n \/ k \notin S
      /\ \A j \in 0 .. n : j < k => j \in S
  BY <1>1, <1>3, LoopStops
<1>5. Expired(q) <= k
  <2>1. CASE k = n
    BY <1>1, <2>1, ExpiredStops
  <2>2. CASE k # n
    <3>1. ~TooOld(q[k + 1].at)
      BY <1>4, <2>2 DEF S
    <3>2. ~(k + 1 \in 1 .. Expired(q))
      BY <3>1, ExpiredStops
    <3>3. Expired(q) \in Nat /\ k \in Nat
      BY <1>1, <1>4, ExpiredStops
    <3> QED
      BY <3>2, <3>3
  <2> QED
    BY <2>1, <2>2
<1>6. ASSUME k = n, q # <<>> PROVE TooOld(q[n].at)
  <2>1. n - 1 \in 0 .. n /\ n - 1 < k /\ (n - 1) + 1 = n
    BY <1>1, <1>6
  <2>2. n - 1 \in S
    BY <1>4, <2>1
  <2>3. Go(n - 1)
    BY <2>2 DEF S
  <2>4. ~(n - (n - 1) > MaxHotChunks)
    BY <1>1, Limits
  <2>5. Bytes(q) - Bytes(Take(q, n - 1)) = q[n].len
    <3>1. Take(q, n - 1) \in Seq(Chunk) /\ q[n] \in Chunk
      BY <1>1, <2>1, Parted
    <3>2. q = Append(Take(q, n - 1), q[n])
      BY <1>1, <1>6 DEF Take
    <3>3. Bytes(q) = Bytes(Take(q, n - 1)) + q[n].len
      BY <3>1, <3>2, BytesOfParts, Zenon
    <3>4. Bytes(Take(q, n - 1)) \in Nat
      BY <3>1, BytesOfParts
    <3>5. q[n].len \in Nat
      BY <3>1, Limits DEF Chunk
    <3> QED
      BY <3>3, <3>4, <3>5
  <2>6. q[n].len <= MaxLen /\ q[n].len \in Nat
    <3>1. q[n] \in Chunk
      BY <1>1, <2>1
    <3> QED
      BY <3>1, Limits DEF Chunk
  <2>7. ~(Bytes(q) - Bytes(Take(q, n - 1)) > MaxHotBytes)
    BY <2>5, <2>6, Limits
  <2> QED
    BY <2>1, <2>3, <2>4, <2>7
<1> QED
  BY <1>4, <1>5, <1>6 DEF k

LEMMA SegmentsEvictedStops ==
    ASSUME segments \in Seq(Segment)
    PROVE  SegmentsEvicted \in 0 .. Len(segments)
<1> DEFINE n == Len(segments)
           S == {j \in 0 .. n : \/ TooOld(segments[j + 1].newestTime)
                                \/ coldBytes - Size(Take(segments, j)) > MaxColdBytes}
<1>1. n \in Nat
  OBVIOUS
<1>2. SegmentsEvicted = Stop(n, S)
  BY DEF SegmentsEvicted, LoopCount, Stop
<1> HIDE DEF S
<1> QED
  BY <1>1, <1>2, LoopStops

\* What evictHotLocked keeps, passes on, and throws away.
LEMMA EvictHotSplits ==
    ASSUME NEW q \in Seq(Chunk), Rising(q), NEW h, h = EvictHot(q, Bytes(q))
    PROVE  /\ h.hot \in Seq(Chunk) /\ h.moved \in Seq(Chunk) /\ h.bytes = Bytes(h.hot)
           /\ Rising(h.hot) /\ Rising(h.moved) /\ Older(ToSet(h.moved), ToSet(h.hot))
           /\ ToSet(h.hot) \subseteq ToSet(q) /\ ToSet(h.moved) \subseteq ToSet(q)
           /\ \A x \in ToSet(q) : x \in ToSet(h.hot) \/ x \in ToSet(h.moved) \/ TooOld(x.at)
           /\ q # <<>> => IF h.hot = <<>> THEN TooOld(q[Len(q)].at)
                          ELSE h.hot[Len(h.hot)] = q[Len(q)]
<1> DEFINE k == HotEvicted(q, Bytes(q))
           e == Expired(q)
           a == Take(q, k)
           b == Drop(q, k)
           m == Drop(a, e)
           z == Take(a, e)
<1>1. /\ k \in 0 .. Len(q) /\ e \in 0 .. k /\ Len(q) \in Nat
      /\ k = Len(q) /\ q # <<>> => TooOld(q[Len(q)].at)
      /\ \A i \in 1 .. e : TooOld(q[i].at)
  BY HotEvictedStops, ExpiredStops
<1>2. h.hot = b /\ h.moved = m /\ h.bytes = Bytes(q) - Bytes(a)
  BY DEF EvictHot
<1> HIDE DEF k, e
<1>3. /\ a \in Seq(Chunk) /\ Len(a) = k /\ b \in Seq(Chunk) /\ Len(b) = Len(q) - k
      /\ \A i \in 1 .. k : a[i] = q[i]
      /\ \A i \in 1 .. Len(q) - k : b[i] = q[k + i]
  BY <1>1, Parted
<1>4. /\ ToSet(q) = ToSet(a) \union ToSet(b)
      /\ Rising(a) /\ Rising(b) /\ Older(ToSet(a), ToSet(b))
  BY <1>1, PartElements, PartsRise
<1>5. Bytes(q) - Bytes(a) = Bytes(b)
  <2>1. a \o b = q
    BY <1>1, PartsJoin
  <2>2. Bytes(q) = Bytes(a) + Bytes(b)
    BY <1>3, <2>1, BytesOfParts, Zenon
  <2>3. Bytes(a) \in Nat /\ Bytes(b) \in Nat
    BY <1>3, BytesOfParts
  <2> QED
    BY <2>2, <2>3
<1> HIDE DEF a, b
<1>6. m \in Seq(Chunk) /\ Rising(m)
  BY <1>1, <1>3, <1>4, Parted, PartsRise
<1>7. ToSet(a) = ToSet(z) \union ToSet(m)
  BY <1>1, <1>3, PartElements
<1>8. ASSUME NEW x \in ToSet(z) PROVE TooOld(x.at)
  <2>1. PICK i \in 1 .. e : x = a[i]
    BY <1>1, <1>3, PartElements
  <2>2. i \in 1 .. k
    BY <1>1
  <2> QED
    BY <1>1, <1>3, <2>1, <2>2
<1> HIDE DEF m, z
<1>9. Older(ToSet(m), ToSet(b))
  BY <1>4, <1>7 DEF Older
<1>10. ASSUME q # <<>>
       PROVE  IF b = <<>> THEN TooOld(q[Len(q)].at) ELSE b[Len(b)] = q[Len(q)]
  <2>1. CASE b = <<>>
    <3>1. k = Len(q)
      BY <1>1, <1>3, <2>1
    <3> QED
      BY <1>1, <1>10, <2>1, <3>1
  <2>2. CASE b # <<>>
    <3>1. Len(b) \in 1 .. Len(q) - k /\ k + Len(b) = Len(q)
      BY <1>1, <1>3, <2>2
    <3> QED
      BY <1>3, <2>2, <3>1
  <2> QED
    BY <2>1, <2>2
<1> QED
  BY <1>2, <1>3, <1>4, <1>5, <1>6, <1>7, <1>8, <1>9, <1>10

\* What evictColdPendingLocked keeps; the batch is touched by nobody.
LEMMA EvictColdPendingKeeps ==
    ASSUME NEW w \in Seq(Chunk), Rising(w), NEW p, p = EvictColdPending(w)
    PROVE  /\ p \in Seq(Chunk) /\ Rising(p) /\ ToSet(p) \subseteq ToSet(w)
           /\ \A x \in ToSet(w) : x \in ToSet(p) \/ TooOld(x.at)
           /\ Bytes(Take(w, Len(w) - Len(p))) \in Nat
           /\ Bytes(w) - Bytes(Take(w, Len(w) - Len(p))) = Bytes(p)
           /\ flusher # "none" => p = w
<1> DEFINE e == IF flusher # "none" THEN 0 ELSE Expired(w)
<1>1. /\ e \in 0 .. Len(w) /\ Len(w) \in Nat
      /\ \A i \in 1 .. e : TooOld(w[i].at)
  BY ExpiredStops
<1>2. p = Drop(w, e)
  <2>1. Drop(w, 0) = w
    BY DEF Drop
  <2> QED
    BY <2>1 DEF EvictColdPending
<1> HIDE DEF e
<1>3. p \in Seq(Chunk) /\ Rising(p) /\ Len(p) = Len(w) - e
  BY <1>1, <1>2, Parted, PartsRise
<1>4. ToSet(w) = ToSet(Take(w, e)) \union ToSet(p)
  BY <1>1, <1>2, PartElements
<1>5. ASSUME NEW x \in ToSet(Take(w, e)) PROVE TooOld(x.at)
  <2>1. PICK i \in 1 .. e : x = w[i]
    BY <1>1, PartElements
  <2> QED
    BY <1>1, <2>1
<1>6. /\ Bytes(Take(w, Len(w) - Len(p))) \in Nat
      /\ Bytes(w) - Bytes(Take(w, Len(w) - Len(p))) = Bytes(p)
  <2>1. Len(w) - Len(p) = e
    BY <1>1, <1>3
  <2>2. Take(w, e) \o p = w /\ Take(w, e) \in Seq(Chunk)
    BY <1>1, <1>2, PartsJoin, Parted
  <2>3. Bytes(w) = Bytes(Take(w, e)) + Bytes(p)
    BY <1>3, <2>2, BytesOfParts, Zenon
  <2>4. Bytes(Take(w, e)) \in Nat /\ Bytes(p) \in Nat
    BY <1>3, <2>2, BytesOfParts
  <2> QED
    BY <2>1, <2>3, <2>4
<1>7. flusher # "none" => p = w
  BY DEF EvictColdPending
<1> QED
  BY <1>3, <1>4, <1>5, <1>6, <1>7

\* What evictColdLocked leaves of the segments.
LEMMA SegmentsDropped ==
    ASSUME NEW segs \in Seq(Segment), SegmentsInOrder(segs), NEW k \in 0 .. Len(segs),
           NEW d, d = Drop(segs, k)
    PROVE  /\ d \in Seq(Segment) /\ SegmentsInOrder(d)
           /\ Size(segs) - Size(Take(segs, k)) = Size(d)
           /\ ColdOf(d) \subseteq ColdOf(segs)
           /\ \A x \in ColdOf(segs) : x \in ColdOf(d) \/ \A y \in ColdOf(d) : x.seq < y.seq
<1>1. /\ d \in Seq(Segment) /\ Len(d) = Len(segs) - k /\ Len(segs) \in Nat
      /\ \A i \in 1 .. Len(d) : d[i] = segs[k + i] /\ k + i \in 1 .. Len(segs)
      /\ Take(segs, k) \in Seq(Segment)
  <2>1. Len(segs) \in Nat
    OBVIOUS
  <2>2. /\ d \in Seq(Segment) /\ Len(d) = Len(segs) - k /\ Take(segs, k) \in Seq(Segment)
        /\ \A i \in 1 .. Len(segs) - k : d[i] = segs[k + i]
    BY Parted
  <2> QED
    BY <2>1, <2>2
<1>2. SegmentsInOrder(d)
  <2>1. \A i \in 1 .. Len(d) : Sealed(d[i])
    BY <1>1 DEF SegmentsInOrder
  <2>2. ASSUME NEW i \in 1 .. Len(d), NEW j \in 1 .. Len(d), i < j
        PROVE  Older(ToSet(d[i].chunks), ToSet(d[j].chunks))
    <3>1. k + i \in 1 .. Len(segs) /\ k + j \in 1 .. Len(segs) /\ k + i < k + j
      BY <1>1, <2>2
    <3> QED
      BY <1>1, <3>1 DEF SegmentsInOrder
  <2> QED
    BY <2>1, <2>2 DEF SegmentsInOrder
<1>3. Size(segs) - Size(Take(segs, k)) = Size(d)
  <2>1. Take(segs, k) \o d = segs
    BY PartsJoin
  <2>2. Size(segs) = Size(Take(segs, k)) + Size(d)
    BY <1>1, <2>1, SizeOfParts, Zenon
  <2>3. Size(Take(segs, k)) \in Nat /\ Size(d) \in Nat
    BY <1>1, SizeOfParts
  <2> QED
    BY <2>2, <2>3
<1>4. ColdOf(d) \subseteq ColdOf(segs)
  BY <1>1 DEF ColdOf
<1>5. ASSUME NEW x \in ColdOf(segs), x \notin ColdOf(d), NEW y \in ColdOf(d)
      PROVE  x.seq < y.seq
  <2>1. PICK i \in 1 .. Len(segs) : x \in ToSet(segs[i].chunks)
    BY DEF ColdOf
  <2>2. PICK j \in 1 .. Len(d) : y \in ToSet(d[j].chunks)
    BY DEF ColdOf
  <2>3. i <= k
    <3> SUFFICES ASSUME i > k PROVE FALSE
      BY <1>1
    <3>1. i - k \in 1 .. Len(d) /\ k + (i - k) = i
      BY <1>1
    <3>2. d[i - k] = segs[i]
      BY <1>1, <3>1
    <3> QED
      BY <1>5, <2>1, <3>1, <3>2 DEF ColdOf
  <2>4. k + j \in 1 .. Len(segs) /\ i < k + j /\ d[j] = segs[k + j]
    BY <1>1, <2>3
  <2>5. Older(ToSet(segs[i].chunks), ToSet(segs[k + j].chunks))
    BY <2>4 DEF SegmentsInOrder
  <2> QED
    BY <2>1, <2>2, <2>4, <2>5 DEF Older
<1> QED
  BY <1>1, <1>2, <1>3, <1>4, <1>5

LEMMA LongerHasPrefix ==
    ASSUME NEW b \in Seq(Chunk), NEW p \in Seq(Chunk), NEW m \in Seq(Chunk), IsPrefix(b, p)
    PROVE  IsPrefix(b, p \o m)
<1>1. Len(b) \in Nat /\ Len(p) \in Nat /\ Len(m) \in Nat /\ Len(b) <= Len(p)
  BY DEF IsPrefix
<1>2. Len(p \o m) = Len(p) + Len(m)
  OBVIOUS
<1>3. SubSeq(p \o m, 1, Len(b)) = SubSeq(p, 1, Len(b))
  BY <1>1
<1> QED
  BY <1>1, <1>2, <1>3 DEF IsPrefix

\* The pass of evictOutputChunksLocked over all layers, q being the chunks of hot.
LEMMA Evicts ==
    ASSUME TypeOK, SegmentsInOrder(segments), Rising(pending), BatchAtHead,
           Older(ColdOf(segments), ToSet(pending)), Accounting,
           NEW q \in Seq(Chunk), Rising(q),
           Older(ColdOf(segments), ToSet(q)), Older(ToSet(pending), ToSet(q)),
           NEW bytes, bytes = Bytes(q), EvictOutputChunks(q, bytes)
    PROVE  /\ hot' \in Seq(Chunk) /\ pending' \in Seq(Chunk) /\ segments' \in Seq(Segment)
           /\ Accounting' /\ OrderInv'
           /\ Kept' \subseteq ColdOf(segments) \union ToSet(pending) \union ToSet(q)
           /\ \A x \in ColdOf(segments) \union ToSet(pending) \union ToSet(q) :
                 x \in Kept' \/ TooOld(x.at) \/ \A y \in Kept' : x.seq < y.seq
           /\ flusher # "none" => IsPrefix(batch, pending')
           /\ q # <<>> => IF hot' = <<>> THEN TooOld(q[Len(q)].at)
                          ELSE hot'[Len(hot')] = q[Len(q)]
           /\ q = <<>> => hot' = <<>>
<1> DEFINE h == EvictHot(q, Bytes(q))
           m == h.moved
           w == pending \o m
           p == EvictColdPending(w)
           k == SegmentsEvicted
<1>1. /\ hot' = h.hot /\ hotBytes' = h.bytes /\ pending' = p
      /\ pendingBytes' = pendingBytes + Bytes(m) - Bytes(Take(w, Len(w) - Len(p)))
      /\ segments' = Drop(segments, k)
      /\ coldBytes' = coldBytes - Size(Take(segments, k))
  BY DEF EvictOutputChunks
<1>2. pending \in Seq(Chunk) /\ batch \in Seq(Chunk) /\ segments \in Seq(Segment)
  BY DEF TypeOK, Segment
<1>3. k \in 0 .. Len(segments)
  BY <1>2, SegmentsEvictedStops
<1> HIDE DEF k
<1>4. /\ h.hot \in Seq(Chunk) /\ m \in Seq(Chunk) /\ h.bytes = Bytes(h.hot)
      /\ Rising(h.hot) /\ Rising(m) /\ Older(ToSet(m), ToSet(h.hot))
      /\ ToSet(h.hot) \subseteq ToSet(q) /\ ToSet(m) \subseteq ToSet(q)
      /\ \A x \in ToSet(q) : x \in ToSet(h.hot) \/ x \in ToSet(m) \/ TooOld(x.at)
      /\ q # <<>> => IF h.hot = <<>> THEN TooOld(q[Len(q)].at)
                     ELSE h.hot[Len(h.hot)] = q[Len(q)]
  BY EvictHotSplits
<1> HIDE DEF h
<1> HIDE DEF m
<1>5. w \in Seq(Chunk) /\ Rising(w) /\ ToSet(w) = ToSet(pending) \union ToSet(m)
  <2>1. Older(ToSet(pending), ToSet(m))
    BY <1>4 DEF Older
  <2> QED
    BY <1>2, <1>4, <2>1, Joined
<1>6. Bytes(w) = Bytes(pending) + Bytes(m) /\ Bytes(pending) \in Nat /\ Bytes(m) \in Nat
  BY <1>2, <1>4, BytesOfParts
<1>7. flusher # "none" => IsPrefix(batch, w)
  BY <1>2, <1>4, LongerHasPrefix DEF BatchAtHead
<1> HIDE DEF w
<1>8. /\ p \in Seq(Chunk) /\ Rising(p) /\ ToSet(p) \subseteq ToSet(w)
      /\ \A x \in ToSet(w) : x \in ToSet(p) \/ TooOld(x.at)
      /\ Bytes(Take(w, Len(w) - Len(p))) \in Nat
      /\ Bytes(w) - Bytes(Take(w, Len(w) - Len(p))) = Bytes(p)
      /\ flusher # "none" => p = w
  BY <1>5, EvictColdPendingKeeps
<1> HIDE DEF p
<1>9. /\ segments' \in Seq(Segment) /\ SegmentsInOrder(segments')
      /\ Size(segments) - Size(Take(segments, k)) = Size(segments')
      /\ ColdOf(segments') \subseteq ColdOf(segments)
      /\ \A x \in ColdOf(segments) :
            x \in ColdOf(segments') \/ \A y \in ColdOf(segments') : x.seq < y.seq
  BY <1>1, <1>2, <1>3, SegmentsDropped
<1>10. Accounting'
  <2>1. hotBytes' = Bytes(hot')
    BY <1>1, <1>4
  <2>2. pendingBytes' = Bytes(pending')
    <3>1. pendingBytes = Bytes(pending)
      BY DEF Accounting
    <3>2. pendingBytes' = Bytes(w) - Bytes(Take(w, Len(w) - Len(p)))
      BY <1>1, <1>6, <1>8, <3>1
    <3> QED
      BY <1>1, <1>8, <3>2
  <2>3. coldBytes' = Size(segments')
    BY <1>1, <1>9 DEF Accounting
  <2> QED
    BY <2>1, <2>2, <2>3 DEF Accounting
<1>11. OrderInv'
  BY <1>1, <1>4, <1>5, <1>8, <1>9 DEF OrderInv, Older
<1>12. Kept' \subseteq ColdOf(segments) \union ToSet(pending) \union ToSet(q)
  BY <1>1, <1>4, <1>5, <1>8, <1>9 DEF Kept
<1>13. ASSUME NEW x \in ColdOf(segments) \union ToSet(pending) \union ToSet(q),
              x \notin Kept', ~TooOld(x.at), NEW y \in Kept'
       PROVE  x.seq < y.seq
  <2>1. x \in ColdOf(segments)
    BY <1>1, <1>4, <1>5, <1>8, <1>13 DEF Kept
  <2>2. x \notin ColdOf(segments')
    BY <1>13 DEF Kept
  <2>3. CASE y \in ColdOf(segments')
    BY <1>9, <2>1, <2>2, <2>3
  <2>4. CASE y \in ToSet(pending')
    BY <1>1, <1>4, <1>5, <1>8, <2>1, <2>4 DEF Older
  <2>5. CASE y \in ToSet(hot')
    BY <1>1, <1>4, <2>1, <2>5 DEF Older
  <2> QED
    BY <2>3, <2>4, <2>5 DEF Kept
<1>14. q = <<>> => hot' = <<>>
  <2>1. ToSet(<<>>) = {}
    BY DEF ToSet
  <2>2. hot' # <<>> => hot'[1] \in ToSet(hot')
    BY <1>1, <1>4, Elements
  <2> QED
    BY <1>1, <1>4, <2>1, <2>2
<1> QED
  BY <1>1, <1>4, <1>7, <1>8, <1>9, <1>10, <1>11, <1>12, <1>13, <1>14

\* The layers read one after the other hold what is kept, in order.
LEMMA LayersAre ==
    ASSUME TypeOK, OrderInv
    PROVE  /\ Retained \in Seq(Chunk) /\ Rising(Retained)
           /\ ToSet(Retained) = Kept
<1> DEFINE q == [i \in 1 .. Len(segments) |-> segments[i].chunks]
           c == FlattenSeq(q)
<1>1. /\ segments \in Seq(Segment) /\ pending \in Seq(Chunk) /\ hot \in Seq(Chunk)
      /\ Len(segments) \in Nat
  BY DEF TypeOK, Segment
<1>2. \A i \in 1 .. Len(segments) : segments[i].chunks \in Seq(Chunk)
  <2>1. \A i \in 1 .. Len(segments) : segments[i] \in Segment
    BY <1>1
  <2> QED
    BY <2>1 DEF Segment
<1>3. /\ q \in Seq(Seq(Chunk)) /\ Len(q) = Len(segments)
      /\ \A i \in 1 .. Len(segments) : q[i] = segments[i].chunks
  BY <1>1, <1>2
<1> HIDE DEF q
<1>4. PutTogether(q, Len(q), c)
  BY <1>3, Flattened
<1> HIDE DEF c
<1>5. PiecesRise(q)
  BY <1>3 DEF OrderInv, SegmentsInOrder, Sealed, PiecesRise
<1>6. c \in Seq(Chunk) /\ Rising(c)
  BY <1>4, <1>5 DEF PutTogether
<1>7. ASSUME NEW x PROVE x \in ToSet(c) <=> x \in ColdOf(segments)
  <2>1. x \in ToSet(c) => x \in Chunk
    BY <1>6, Elements
  <2>2. x \in ToSet(c) <=> \E i \in 1 .. Len(segments) : x \in ToSet(segments[i].chunks)
    BY <1>3, <1>4 DEF PutTogether
  <2> QED
    BY <2>1, <2>2 DEF ColdOf
<1>8. ToSet(c) = ColdOf(segments)
  BY <1>7
<1>9. /\ c \o pending \in Seq(Chunk) /\ Rising(c \o pending)
      /\ ToSet(c \o pending) = ColdOf(segments) \union ToSet(pending)
  BY <1>1, <1>6, <1>8, Joined DEF OrderInv
<1>10. Older(ToSet(c \o pending), ToSet(hot))
  BY <1>9 DEF OrderInv, Older
<1>11. Retained = (c \o pending) \o hot
  BY DEF Retained, c, q
<1> QED
  BY <1>1, <1>9, <1>10, <1>11, Joined DEF OrderInv, Kept

LEMMA LayersRise ==
    ASSUME TypeOK, OrderInv
    PROVE  LayersInOrder
<1>1. Retained \in Seq(Chunk) /\ Rising(Retained)
  BY LayersAre
<1>2. \A i \in 1 .. Len(Retained) - 1 :
          i \in 1 .. Len(Retained) /\ i + 1 \in 1 .. Len(Retained) /\ i < i + 1
  BY <1>1
<1> QED
  BY <1>1, <1>2 DEF LayersInOrder, Rising

LEMMA RetainedAreKept ==
    ASSUME TypeOK, OrderInv
    PROVE  \A n : n \in RetainedSeqs <=> \E x \in Kept : x.seq = n
BY LayersAre DEF RetainedSeqs

\* What the invariant says of loss and of resync is what the properties say.
LEMMA LossIsExplained ==
    ASSUME TypeOK, OrderInv, LossExplained
    PROVE  NothingVanishes
<1> SUFFICES ASSUME NEW n \in (1 .. seq) \ RetainedSeqs
             PROVE  TooOld(born[n]) \/ n \in failed \/ \A m \in RetainedSeqs : n < m
  BY DEF NothingVanishes
<1>1. ~ \E x \in Kept : x.seq = n
  BY RetainedAreKept
<1> QED
  BY <1>1, RetainedAreKept DEF LossExplained

LEMMA NothingIsPassedOver ==
    ASSUME TypeOK, OrderInv, PassedOver
    PROVE  ResyncSkipsNothing
BY RetainedAreKept DEF PassedOver, ResyncSkipsNothing

-----------------------------------------------------------------------------
(* Steps that are not of a resync.                                         *)

\* Time may pass, and a chunk may be born.
Onward ==
    /\ seq' \in Nat /\ seq <= seq' /\ clock' \in Nat /\ clock <= clock'
    /\ \A n \in 1 .. seq : born'[n] = born[n]
    /\ failed \subseteq failed'
    /\ \A x \in Kept' : x \in Kept \/ x.seq = seq + 1

LEMMA Aging ==
    ASSUME TypeOK, BornInv, Onward
    PROVE  /\ seq \in Nat /\ seq' \in Nat /\ seq <= seq'
           /\ \A n \in 1 .. seq : TooOld(born[n]) => TooOld(born[n])'
<1>1. /\ clock \in Nat /\ born \in Seq(Nat) /\ Len(born) = seq /\ MaxAge \in Nat
      /\ seq \in Nat
  BY Limits DEF TypeOK, BornInv
<1>2. seq' \in Nat /\ seq <= seq' /\ clock' \in Nat /\ clock <= clock'
  BY DEF Onward
<1>3. ASSUME NEW n \in 1 .. seq, TooOld(born[n]) PROVE TooOld(born[n])'
  <2>1. born[n] \in Nat /\ born'[n] = born[n]
    BY <1>1 DEF Onward
  <2> QED
    BY <1>1, <1>2, <1>3, <2>1 DEF TooOld
<1> QED
  BY <1>1, <1>2, <1>3

\* Numbers: what is at most one beyond b is at most one beyond c.
LEMMA Beyond ==
    \A a, b, c \in Nat : b <= c => (a <= b => a <= c) /\ (a <= b + 1 => a <= c + 1)
OBVIOUS

\* What is said of a resync stays true.
LEMMA ResyncUnmoved ==
    ASSUME TypeOK, BornInv, ResyncInv, UNCHANGED resyncVars, Onward
    PROVE  ResyncInv'
<1>1. /\ phase' = phase /\ from' = from /\ next' = next /\ sent' = sent
      /\ noticed' = noticed /\ upTo' = upTo
  BY DEF resyncVars
<1>2. /\ from \in Nat /\ from >= 1 /\ next \in Nat /\ upTo \in Nat
      /\ next <= seq + 1 /\ upTo <= seq /\ from <= next
  BY DEF TypeOK, ResyncInv
<1>3. /\ seq \in Nat /\ seq' \in Nat /\ seq <= seq'
      /\ \A n \in 1 .. seq : TooOld(born[n]) => TooOld(born[n])'
  BY Aging
<1>4. ResyncInOrder'
  BY <1>1 DEF ResyncInv, ResyncInOrder
<1>5. PassedOver'
  <2>1. SUFFICES ASSUME NEW x \in Kept', x.seq < next,
                        x.seq >= (IF from > 1 THEN from ELSE sent[1])
                 PROVE  x.seq \in ToSet(sent)
    BY <1>1 DEF PassedOver
  <2>2. x \in Kept
    BY <1>2, <1>3, <2>1 DEF Onward
  <2> QED
    BY <2>1, <2>2 DEF ResyncInv, PassedOver
<1>6. GapReported'
  <2>1. SUFFICES ASSUME phase = "done", from > 1, NEW n \in from .. upTo
                 PROVE  n \in ToSet(sent) \union failed' \/ noticed \/ TooOld(born[n])'
    BY <1>1 DEF GapReported
  <2>2. n \in 1 .. seq
    BY <1>2, <1>3
  <2> QED
    BY <1>3, <2>1, <2>2 DEF ResyncInv, GapReported, Onward
<1>7. ASSUME phase = "running", from > 1, NEW n \in from .. next - 1
      PROVE  n \in ToSet(sent) \union failed' \/ noticed \/ TooOld(born[n])'
  <2>1. n \in 1 .. seq
    BY <1>2, <1>3
  <2> QED
    BY <1>3, <1>7, <2>1 DEF ResyncInv, Onward
<1>8. from' <= next' /\ next' <= seq' + 1 /\ upTo' <= seq'
  <2>1. from <= next /\ next <= seq' + 1 /\ upTo <= seq'
    <3>1. seq \in Nat /\ seq' \in Nat /\ seq <= seq'
      BY <1>3
    <3> QED
      BY <1>2, <3>1, Beyond, Zenon
  <2> QED
    BY <1>1, <2>1, Zenon
<1>9. /\ (sent' = <<>> => next' = from')
      /\ \A i \in 1 .. Len(sent') : from' <= sent'[i] /\ sent'[i] < next'
      /\ (phase' = "idle" => sent' = <<>> /\ from' = 1)
  <2>1. /\ (sent = <<>> => next = from)
        /\ \A i \in 1 .. Len(sent) : from <= sent[i] /\ sent[i] < next
        /\ (phase = "idle" => sent = <<>> /\ from = 1)
    BY DEF ResyncInv
  <2> QED
    BY <1>1, <2>1, Zenon
<1> QED
  BY <1>1, <1>4, <1>5, <1>6, <1>7, <1>8, <1>9 DEF ResyncInv

\* A loss that had a reason keeps it, if what is lost now has one.
LEMMA LossStaysExplained ==
    ASSUME TypeOK, BornInv, LossExplained, Onward,
           \A x \in Kept :
              \/ x \in Kept' \/ TooOld(x.at) \/ x.seq \in failed'
              \/ \A y \in Kept' : x.seq < y.seq,
           NEW n \in 1 .. seq
    PROVE  \/ \E x \in Kept' : x.seq = n
           \/ TooOld(born[n])'
           \/ n \in failed'
           \/ \A y \in Kept' : n < y.seq
<1>1. seq \in Nat /\ (TooOld(born[n]) => TooOld(born[n])')
  BY Aging
<1>2. CASE \E x \in Kept : x.seq = n
  <2>1. PICK x \in Kept : x.seq = n
    BY <1>2
  <2>2. x.at = born[n]
    BY <2>1 DEF BornInv
  <2> QED
    BY <1>1, <2>1, <2>2
<1>3. CASE \A y \in Kept : n < y.seq
  <2>1. \A y \in Kept' : n < y.seq
    BY <1>1, <1>3 DEF Onward
  <2> QED
    BY <2>1
<1> QED
  BY <1>1, <1>2, <1>3 DEF LossExplained, Onward

LEMMA StoreTypes ==
    ASSUME TypeOK
    PROVE  /\ hot \in Seq(Chunk) /\ pending \in Seq(Chunk) /\ batch \in Seq(Chunk)
           /\ segments \in Seq(Segment) /\ born \in Seq(0 .. MaxClock)
           /\ clock \in 0 .. MaxClock /\ clock \in Nat /\ seq \in 0 .. MaxSeq /\ seq \in Nat
           /\ hotBytes \in Nat /\ pendingBytes \in Nat /\ coldBytes \in Nat
           /\ flushers \in [Callers -> 0 .. MaxFlushers]
           /\ failed \in SUBSET (1 .. MaxSeq)
BY Limits DEF TypeOK, Segment

\* The counters of what has its type are numbers.
LEMMA CountersAreNat ==
    ASSUME hot' \in Seq(Chunk), pending' \in Seq(Chunk), segments' \in Seq(Segment),
           Accounting'
    PROVE  hotBytes' \in Nat /\ pendingBytes' \in Nat /\ coldBytes' \in Nat
BY BytesOfParts, SizeOfParts DEF Accounting

LEMMA KeptAreChunks ==
    ASSUME TypeOK
    PROVE  \A x \in Kept : /\ x \in Chunk /\ x.seq \in 1 .. MaxSeq /\ x.seq \in Nat
                           /\ x.at \in Nat
<1>1. hot \in Seq(Chunk) /\ pending \in Seq(Chunk)
  BY StoreTypes
<1>2. ToSet(hot) \subseteq Chunk /\ ToSet(pending) \subseteq Chunk
  BY <1>1, Elements
<1>3. \A x \in Kept : x \in Chunk
  BY <1>2 DEF Kept, ColdOf
<1> QED
  BY <1>3, Limits DEF Chunk

\* A chunk is in hot now, and is the newest.
LEMMA NewChunk ==
    ASSUME StoreInv, seq < MaxSeq, NEW len \in 1 .. MaxLen, NEW q,
           q = Append(hot, [seq |-> seq + 1, len |-> len, at |-> clock])
    PROVE  /\ q \in Seq(Chunk) /\ Rising(q) /\ q # <<>>
           /\ q[Len(q)].seq = seq + 1 /\ q[Len(q)].at = clock
           /\ ToSet(q) = ToSet(hot) \union {q[Len(q)]}
           /\ hotBytes + len = Bytes(q)
           /\ Older(ColdOf(segments), ToSet(q)) /\ Older(ToSet(pending), ToSet(q))
<1> DEFINE c == [seq |-> seq + 1, len |-> len, at |-> clock]
<1>1. /\ hot \in Seq(Chunk) /\ clock \in 0 .. MaxClock /\ seq \in Nat /\ MaxSeq \in Nat
      /\ hotBytes = Bytes(hot)
  BY StoreTypes, Limits DEF StoreInv, Accounting
<1>2. c \in Chunk /\ c.seq = seq + 1 /\ c.len = len /\ c.at = clock
  BY <1>1 DEF Chunk
<1> HIDE DEF c
<1>3. q = Append(hot, c)
  BY DEF c
<1>4. /\ q = hot \o <<c>> /\ <<c>> \in Seq(Chunk) /\ Rising(<<c>>) /\ ToSet(<<c>>) = {c}
      /\ q # <<>> /\ q[Len(q)] = c /\ Len(hot) \in Nat
  BY <1>1, <1>2, <1>3 DEF Rising, ToSet
<1>5. \A x \in Kept : x.seq < c.seq
  <2>2. \A x \in Kept : x.seq \in Nat /\ x.seq <= seq
    BY KeptAreChunks DEF StoreInv, BornInv
  <2> QED
    BY <1>1, <1>2, <2>2
<1>6. Older(ToSet(hot), ToSet(<<c>>))
  BY <1>4, <1>5 DEF Older, Kept
<1>7. q \in Seq(Chunk) /\ Rising(q) /\ ToSet(q) = ToSet(hot) \union {c}
  BY <1>1, <1>4, <1>6, Joined DEF StoreInv, OrderInv
<1>8. Older(ColdOf(segments), ToSet(q)) /\ Older(ToSet(pending), ToSet(q))
  BY <1>5, <1>7 DEF StoreInv, OrderInv, Older, Kept
<1>9. Bytes(q) = Bytes(hot) + c.len
  BY <1>1, <1>2, <1>3, BytesOfParts
<1> QED
  BY <1>1, <1>2, <1>4, <1>7, <1>8, <1>9

\* handlePTYOutput: a chunk is born, and the layers are swept.
LEMMA PTYStep ==
    ASSUME IInv, NEW len \in 1 .. MaxLen, HandlePTYOutput(len)
    PROVE  IInv'
<1> DEFINE c == [seq |-> seq + 1, len |-> len, at |-> clock]
           q == Append(hot, c)
           z == q[Len(q)]
           K == ColdOf(segments) \union ToSet(pending) \union ToSet(q)
<1>1. /\ seq < MaxSeq /\ seq' = seq + 1 /\ clock' = clock /\ failed' = failed
      /\ flusher' = flusher /\ batch' = batch /\ UNCHANGED resyncVars
      /\ born' = Append(born, clock)
      /\ EvictOutputChunks(q, hotBytes + len)
  BY DEF HandlePTYOutput
<1>2. StoreInv /\ TypeOK /\ OrderInv /\ BornInv /\ BatchInv /\ Accounting /\ LossExplained
  BY DEF IInv, StoreInv
<1>3. /\ seq \in Nat /\ clock \in 0 .. MaxClock /\ clock \in Nat /\ MaxSeq \in Nat
      /\ born \in Seq(0 .. MaxClock) /\ Len(born) = seq
      /\ flushers \in [Callers -> 0 .. MaxFlushers] /\ MaxFlushers \in Nat
  BY <1>2, StoreTypes, Limits DEF BornInv
<1>4. /\ q \in Seq(Chunk) /\ Rising(q) /\ q # <<>>
      /\ z.seq = seq + 1 /\ z.at = clock
      /\ ToSet(q) = ToSet(hot) \union {z}
      /\ hotBytes + len = Bytes(q)
      /\ Older(ColdOf(segments), ToSet(q)) /\ Older(ToSet(pending), ToSet(q))
  BY <1>1, <1>2, NewChunk
<1> HIDE DEF q, c
<1>5. /\ hot' \in Seq(Chunk) /\ pending' \in Seq(Chunk) /\ segments' \in Seq(Segment)
      /\ Accounting' /\ OrderInv'
      /\ Kept' \subseteq K
      /\ \A x \in K : x \in Kept' \/ TooOld(x.at) \/ \A y \in Kept' : x.seq < y.seq
      /\ (flusher # "none" => IsPrefix(batch, pending'))
      /\ IF hot' = <<>> THEN TooOld(z.at) ELSE hot'[Len(hot')] = z
  <2>1. SegmentsInOrder(segments) /\ Rising(pending) /\ Older(ColdOf(segments), ToSet(pending))
    BY <1>2 DEF OrderInv
  <2>2. BatchAtHead
    BY <1>2 DEF BatchInv
  <2> QED
    BY <1>1, <1>2, <1>4, <2>1, <2>2, Evicts
<1> HIDE DEF z
<1>6. \A x \in K : x \in Kept \/ x = z
  BY <1>4 DEF Kept
<1>7. Kept \union {z} \subseteq K
  BY <1>4 DEF Kept
<1> HIDE DEF K
<1>8. /\ born' \in Seq(0 .. MaxClock) /\ Len(born') = seq + 1
      /\ \A n \in 1 .. seq : born'[n] = born[n]
      /\ born'[seq + 1] = clock
  BY <1>1, <1>3
<1>9. Onward
  BY <1>1, <1>3, <1>4, <1>5, <1>6, <1>8 DEF Onward
<1>10. BornInv'
  <2>1. Len(born') = seq'
    BY <1>1, <1>8
  <2>2. ASSUME NEW i \in 1 .. seq' PROVE born'[i] <= clock'
    BY <1>1, <1>2, <1>3, <1>8 DEF BornInv
  <2>3. ASSUME NEW i \in 1 .. seq', NEW j \in 1 .. seq', i <= j PROVE born'[i] <= born'[j]
    <3>1. CASE j = seq + 1
      BY <1>1, <1>8, <2>2, <3>1
    <3>2. CASE j # seq + 1
      BY <1>1, <1>2, <1>3, <1>8, <2>3, <3>2 DEF BornInv
    <3> QED
      BY <3>1, <3>2
  <2>4. ASSUME NEW x \in Kept' PROVE x.seq <= seq' /\ x.at = born'[x.seq]
    <3>1. CASE x \in Kept
      <4>1. x.seq \in 1 .. seq /\ x.at = born[x.seq]
        BY <1>2, <1>3, <3>1, KeptAreChunks DEF BornInv
      <4> QED
        BY <1>1, <1>3, <1>8, <4>1
    <3>2. CASE x = z
      BY <1>1, <1>3, <1>4, <1>8, <3>2
    <3> QED
      BY <1>5, <1>6, <3>1, <3>2
  <2> QED
    BY <2>1, <2>2, <2>3, <2>4 DEF BornInv
<1>11. BatchInv'
  <2>1. flusher = "none" <=> batch = <<>>
    BY <1>2 DEF BatchInv
  <2>2. batch = <<>> => IsPrefix(batch, pending')
    BY <1>5 DEF IsPrefix
  <2> QED
    BY <1>1, <1>5, <2>1, <2>2 DEF BatchInv, BatchAtHead
<1>12. NewestInv'
  <2>1. TooOld(z.at) => TooOld(born[seq])'
    BY <1>1, <1>4, <1>8 DEF TooOld
  <2> QED
    BY <1>1, <1>4, <1>5, <2>1 DEF NewestInv
<1>13. LossExplained'
  <2>1. SUFFICES ASSUME NEW n \in 1 .. seq'
                 PROVE  \/ \E x \in Kept' : x.seq = n
                        \/ TooOld(born[n])'
                        \/ n \in failed'
                        \/ \A y \in Kept' : n < y.seq
    BY DEF LossExplained
  <2>2. CASE n = seq + 1
    <3>1. TooOld(z.at) => TooOld(born[n])'
      BY <1>1, <1>4, <1>8, <2>2 DEF TooOld
    <3> QED
      BY <1>4, <1>5, <1>7, <2>2, <3>1
  <2>3. CASE n # seq + 1
    <3>1. n \in 1 .. seq
      BY <1>1, <1>3, <2>3
    <3> QED
      BY <1>2, <1>5, <1>7, <1>9, <3>1, LossStaysExplained
  <2> QED
    BY <2>2, <2>3
<1>14. ResyncInv'
  BY <1>1, <1>2, <1>9, ResyncUnmoved DEF IInv
<1>15. TypeOK'
  <2>1. hotBytes' \in Nat /\ pendingBytes' \in Nat /\ coldBytes' \in Nat
    BY <1>5, CountersAreNat
  <2>2. flushers' \in [Callers -> 0 .. MaxFlushers]
    BY <1>3 DEF HandlePTYOutput, Callers
  <2>3. seq' \in 0 .. MaxSeq
    BY <1>1, <1>3
  <2> QED
    BY <1>1, <1>2, <1>5, <1>8, <2>1, <2>2, <2>3 DEF TypeOK, resyncVars, Segment
<1> QED
  BY <1>5, <1>10, <1>11, <1>12, <1>13, <1>14, <1>15 DEF IInv, StoreInv

\* What the cleanup ticker does for the session.
LEMMA EvictStep ==
    ASSUME IInv, EvictStaleOutput
    PROVE  IInv'
<1>1. /\ seq' = seq /\ clock' = clock /\ failed' = failed /\ born' = born
      /\ flusher' = flusher /\ batch' = batch /\ UNCHANGED resyncVars
      /\ EvictOutputChunks(hot, hotBytes)
  BY DEF EvictStaleOutput
<1>2. /\ StoreInv /\ TypeOK /\ OrderInv /\ BornInv /\ BatchInv /\ NewestInv /\ Accounting
      /\ LossExplained
  BY DEF IInv, StoreInv
<1>3. /\ hot \in Seq(Chunk) /\ seq \in Nat /\ clock \in Nat
      /\ flushers \in [Callers -> 0 .. MaxFlushers] /\ MaxFlushers \in Nat \ {0}
  BY <1>2, StoreTypes, Limits
<1>4. /\ hot' \in Seq(Chunk) /\ pending' \in Seq(Chunk) /\ segments' \in Seq(Segment)
      /\ Accounting' /\ OrderInv'
      /\ Kept' \subseteq Kept
      /\ \A x \in Kept : x \in Kept' \/ TooOld(x.at) \/ \A y \in Kept' : x.seq < y.seq
      /\ (flusher # "none" => IsPrefix(batch, pending'))
      /\ (hot # <<>> => IF hot' = <<>> THEN TooOld(hot[Len(hot)].at)
                        ELSE hot'[Len(hot')] = hot[Len(hot)])
      /\ (hot = <<>> => hot' = <<>>)
  <2>1. /\ SegmentsInOrder(segments) /\ Rising(pending) /\ Rising(hot)
        /\ Older(ColdOf(segments), ToSet(pending)) /\ Older(ColdOf(segments), ToSet(hot))
        /\ Older(ToSet(pending), ToSet(hot))
    BY <1>2 DEF OrderInv
  <2>2. BatchAtHead /\ hotBytes = Bytes(hot)
    BY <1>2 DEF BatchInv, Accounting
  <2>3. Kept = ColdOf(segments) \union ToSet(pending) \union ToSet(hot)
    BY DEF Kept
  <2> QED
    BY <1>1, <1>2, <1>3, <2>1, <2>2, <2>3, Evicts
<1>5. Onward
  BY <1>1, <1>3, <1>4 DEF Onward
<1>6. BornInv'
  BY <1>1, <1>2, <1>4 DEF BornInv
<1>7. BatchInv'
  <2>1. flusher = "none" <=> batch = <<>>
    BY <1>2 DEF BatchInv
  <2>2. batch = <<>> => IsPrefix(batch, pending')
    BY <1>4 DEF IsPrefix
  <2> QED
    BY <1>1, <1>4, <2>1, <2>2 DEF BatchInv, BatchAtHead
<1>8. NewestInv'
  <2>1. CASE hot = <<>>
    BY <1>1, <1>2, <1>4, <2>1 DEF NewestInv, TooOld
  <2>2. CASE hot # <<>>
    <3>1. hot[Len(hot)] \in Kept
      BY <1>3, <2>2, Elements DEF Kept
    <3>2. hot[Len(hot)].seq = seq /\ hot[Len(hot)].at = born[seq]
      BY <1>2, <2>2, <3>1 DEF NewestInv, BornInv
    <3>3. TooOld(born[seq]) => TooOld(born[seq])'
      BY <1>1 DEF TooOld
    <3> QED
      BY <1>1, <1>4, <2>2, <3>2, <3>3 DEF NewestInv
  <2> QED
    BY <2>1, <2>2
<1>9. LossExplained'
  <2>1. ASSUME NEW n \in 1 .. seq
        PROVE  \/ \E x \in Kept' : x.seq = n
               \/ TooOld(born[n])'
               \/ n \in failed'
               \/ \A y \in Kept' : n < y.seq
    BY <1>2, <1>4, <1>5, LossStaysExplained
  <2> QED
    BY <1>1, <2>1 DEF LossExplained
<1>10. ResyncInv'
  BY <1>1, <1>2, <1>5, ResyncUnmoved DEF IInv
<1>11. TypeOK'
  <2>1. hotBytes' \in Nat /\ pendingBytes' \in Nat /\ coldBytes' \in Nat
    BY <1>4, CountersAreNat
  <2>2. flushers' \in [Callers -> 0 .. MaxFlushers]
    BY <1>3 DEF EvictStaleOutput, Callers
  <2> QED
    BY <1>1, <1>2, <1>4, <2>1, <2>2 DEF TypeOK, resyncVars, Segment
<1> QED
  BY <1>4, <1>6, <1>7, <1>8, <1>9, <1>10, <1>11 DEF IInv, StoreInv

\* flushColdPending takes all that waits.
LEMMA FlushBeginStep ==
    ASSUME IInv, NEW g \in Callers, FlushBegin(g)
    PROVE  IInv'
<1>1. /\ UNCHANGED <<clock, seq, bufferVars, resyncVars, born, failed>>
      /\ \/ UNCHANGED <<flusher, batch>>
         \/ flusher' = g /\ batch' = pending /\ pending # <<>>
  BY DEF FlushBegin
<1>2. TypeOK /\ BornInv /\ BatchInv
  BY DEF IInv, StoreInv
<1>3. Kept' = Kept
  BY <1>1 DEF Kept, bufferVars
<1>4. Onward
  BY <1>1, <1>2, <1>3, StoreTypes DEF Onward
<1>5. ResyncInv'
  BY <1>1, <1>2, <1>4, ResyncUnmoved DEF IInv
<1>6. BatchInv'
  <2>1. g # "none"
    BY DEF Callers
  <2>2. pending \in Seq(Chunk)
    BY <1>2, StoreTypes
  <2>3. IsPrefix(pending, pending)
    BY <2>2 DEF IsPrefix
  <2> QED
    BY <1>1, <1>2, <2>1, <2>3 DEF BatchInv, BatchAtHead, bufferVars
<1>7. TypeOK'
  <2>1. flushers' \in [Callers -> 0 .. MaxFlushers]
    <3>1. flushers \in [Callers -> 0 .. MaxFlushers] /\ MaxFlushers \in Nat
      BY <1>2, StoreTypes, Limits
    <3> QED
      BY <3>1 DEF FlushBegin
  <2> QED
    BY <1>1, <1>2, <2>1 DEF TypeOK, bufferVars, resyncVars
<1>8. OrderInv' /\ Accounting' /\ NewestInv'
  BY <1>1 DEF IInv, StoreInv, OrderInv, Accounting, NewestInv, TooOld, bufferVars
<1>9. BornInv' /\ LossExplained'
  BY <1>1, <1>3 DEF IInv, StoreInv, BornInv, LossExplained, TooOld
<1> QED
  BY <1>5, <1>6, <1>7, <1>8, <1>9 DEF IInv, StoreInv

\* Time passes: what was too old is.
LEMMA TickStep ==
    ASSUME IInv, Tick
    PROVE  IInv'
<1>1. /\ clock < MaxClock /\ clock' = clock + 1
      /\ UNCHANGED <<seq, bufferVars, flushVars, resyncVars, born, failed>>
  BY DEF Tick
<1>2. TypeOK /\ BornInv /\ LossExplained
  BY DEF IInv, StoreInv
<1>3. /\ clock \in Nat /\ MaxClock \in Nat /\ seq \in Nat /\ Len(born) = seq
      /\ born \in Seq(0 .. MaxClock)
  BY <1>2, StoreTypes, Limits DEF BornInv
<1>4. Kept' = Kept
  BY <1>1 DEF Kept, bufferVars
<1>5. Onward
  BY <1>1, <1>3, <1>4 DEF Onward
<1>6. ResyncInv'
  BY <1>1, <1>2, <1>5, ResyncUnmoved DEF IInv
<1>7. LossExplained'
  <2>1. ASSUME NEW n \in 1 .. seq
        PROVE  \/ \E x \in Kept' : x.seq = n
               \/ TooOld(born[n])'
               \/ n \in failed'
               \/ \A y \in Kept' : n < y.seq
    BY <1>2, <1>4, <1>5, LossStaysExplained
  <2> QED
    BY <1>1, <2>1 DEF LossExplained
<1>8. BornInv'
  <2>1. \A i \in 1 .. seq : born[i] \in Nat /\ born[i] <= clock
    BY <1>2, <1>3 DEF BornInv
  <2>2. \A i \in 1 .. seq : born[i] <= clock + 1
    BY <1>3, <2>1
  <2> QED
    BY <1>1, <1>2, <1>4, <2>2 DEF BornInv
<1>9. NewestInv'
  <2>1. seq > 0 /\ TooOld(born[seq]) => TooOld(born[seq])'
    BY <1>1, <1>2, <1>3, <1>5, Aging
  <2> QED
    BY <1>1, <2>1 DEF IInv, StoreInv, NewestInv, bufferVars
<1>10. TypeOK'
  <2>1. clock' \in 0 .. MaxClock
    BY <1>1, <1>3
  <2> QED
    BY <1>1, <1>2, <2>1 DEF TypeOK, bufferVars, resyncVars, flushVars
<1>11. OrderInv' /\ Accounting' /\ BatchInv'
  BY <1>1 DEF IInv, StoreInv, OrderInv, Accounting, BatchInv, BatchAtHead, bufferVars, flushVars
<1> QED
  BY <1>6, <1>7, <1>8, <1>9, <1>10, <1>11 DEF IInv, StoreInv

\* What was compressed is at the head of coldPending, and leaves it.
LEMMA BatchRemoved ==
    ASSUME StoreInv, RemoveBatch
    PROVE  /\ batch \in Seq(Chunk) /\ batch # <<>> /\ Rising(batch)
           /\ pending' \in Seq(Chunk) /\ Rising(pending')
           /\ ToSet(pending) = ToSet(batch) \union ToSet(pending')
           /\ Older(ToSet(batch), ToSet(pending'))
           /\ pendingBytes' = Bytes(pending')
<1> DEFINE k == Len(batch)
<1>1. pending \in Seq(Chunk) /\ batch \in Seq(Chunk) /\ k \in Nat /\ Len(pending) \in Nat
  BY StoreTypes DEF StoreInv
<1>2. batch # <<>>
  BY DEF StoreInv, BatchInv, RemoveBatch
<1>3. k <= Len(pending) /\ SubSeq(batch, 1, k) = SubSeq(pending, 1, k)
  BY DEF StoreInv, BatchInv, BatchAtHead, IsPrefix
<1>4. SubSeq(batch, 1, k) = batch
  BY <1>1
<1>5. k \in 0 .. Len(pending) /\ batch = Take(pending, k) /\ pending' = Drop(pending, k)
  BY <1>1, <1>3, <1>4 DEF Take, RemoveBatch
<1> HIDE DEF k
<1>6. Rising(pending)
  BY DEF StoreInv, OrderInv
<1>7. pending' \in Seq(Chunk) /\ Rising(batch) /\ Rising(pending')
  BY <1>1, <1>5, <1>6, Parted, PartsRise
<1>8. /\ Older(ToSet(batch), ToSet(pending'))
      /\ ToSet(pending) = ToSet(batch) \union ToSet(pending')
  BY <1>1, <1>5, <1>6, PartElements, PartsRise
<1>9. pendingBytes' = Bytes(pending')
  <2>1. batch \o pending' = pending
    BY <1>1, <1>5, PartsJoin
  <2>2. Bytes(pending) = Bytes(batch) + Bytes(pending')
    BY <1>1, <1>7, <2>1, BytesOfParts, Zenon
  <2>3. Bytes(batch) \in Nat /\ Bytes(pending') \in Nat
    BY <1>1, <1>7, BytesOfParts
  <2>4. pendingBytes' = Bytes(pending) - Bytes(batch)
    BY DEF StoreInv, Accounting, RemoveBatch
  <2> QED
    BY <2>2, <2>3, <2>4
<1> QED
  BY <1>1, <1>2, <1>7, <1>8, <1>9

\* The batch becomes a segment.
LEMMA SegmentAdded ==
    ASSUME TypeOK, NEW segs \in Seq(Segment), SegmentsInOrder(segs),
           NEW b \in Seq(Chunk), b # <<>>, Rising(b), Older(ColdOf(segs), ToSet(b)),
           NEW size \in 1 .. MaxData, NEW t, t = Append(segs, CompressChunks(b, size))
    PROVE  /\ t \in Seq(Segment) /\ SegmentsInOrder(t)
           /\ ColdOf(t) = ColdOf(segs) \union ToSet(b)
           /\ Size(t) = Size(segs) + size
<1> DEFINE s == CompressChunks(b, size)
<1>1. Len(b) \in Nat /\ Len(b) > 0 /\ b[1] \in Chunk /\ b[Len(b)] \in Chunk /\ size \in Nat
  BY Limits
<1>2. /\ s.chunks = b /\ s.startSeq = b[1].seq /\ s.endSeq = b[Len(b)].seq
      /\ s.newestTime = b[Len(b)].at /\ s.data = size
  BY DEF CompressChunks, Last
<1>3. s \in Segment
  BY <1>1 DEF CompressChunks, Last, Segment, Chunk
<1>4. Sealed(s)
  BY <1>2 DEF Sealed
<1> HIDE DEF s
<1>5. t = Append(segs, s)
  BY DEF s
<1>6. /\ t \in Seq(Segment) /\ Len(t) = Len(segs) + 1 /\ Len(segs) \in Nat
      /\ t[Len(segs) + 1] = s
      /\ \A i \in 1 .. Len(segs) : t[i] = segs[i]
      /\ \A i : i \in 1 .. Len(segs) + 1 <=> i \in 1 .. Len(segs) \/ i = Len(segs) + 1
  BY <1>3, <1>5
<1>7. \A i \in 1 .. Len(segs) : Older(ToSet(segs[i].chunks), ToSet(b))
  <2>1. \A i \in 1 .. Len(segs) : segs[i] \in Segment
    OBVIOUS
  <2>2. \A i \in 1 .. Len(segs) : segs[i].chunks \in Seq(Chunk)
    BY <2>1 DEF Segment
  <2>3. ASSUME NEW i \in 1 .. Len(segs), NEW x \in ToSet(segs[i].chunks)
        PROVE  x \in ColdOf(segs)
    <3>1. x \in Chunk
      BY <2>2, Elements
    <3> QED
      BY <3>1 DEF ColdOf
  <2> QED
    BY <2>3 DEF Older
<1>8. SegmentsInOrder(t)
  <2>1. ASSUME NEW i \in 1 .. Len(t) PROVE Sealed(t[i])
    BY <1>4, <1>6 DEF SegmentsInOrder
  <2>2. ASSUME NEW i \in 1 .. Len(t), NEW j \in 1 .. Len(t), i < j
        PROVE  Older(ToSet(t[i].chunks), ToSet(t[j].chunks))
    <3>1. i \in 1 .. Len(segs)
      BY <1>6, <2>2
    <3>2. CASE j = Len(segs) + 1
      BY <1>2, <1>6, <1>7, <3>1, <3>2
    <3>3. CASE j \in 1 .. Len(segs)
      BY <1>6, <2>2, <3>1, <3>3 DEF SegmentsInOrder
    <3> QED
      BY <1>6, <3>2, <3>3
  <2> QED
    BY <2>1, <2>2 DEF SegmentsInOrder
<1>9. ColdOf(t) = ColdOf(segs) \union ToSet(b)
  <2>1. ASSUME NEW x \in Chunk
        PROVE  (\E i \in 1 .. Len(t) : x \in ToSet(t[i].chunks))
                 <=> x \in ToSet(b) \/ \E i \in 1 .. Len(segs) : x \in ToSet(segs[i].chunks)
    BY <1>2, <1>6
  <2>2. \A x \in ToSet(b) : x \in Chunk
    BY Elements
  <2>3. \A x : x \in ColdOf(t) <=> x \in ColdOf(segs) \/ x \in ToSet(b)
    BY <2>1, <2>2 DEF ColdOf
  <2> QED
    BY <2>3
<1> QED
  BY <1>2, <1>3, <1>5, <1>6, <1>8, <1>9, SizeOfParts

\* What is the same whether the compression succeeded or not.
LEMMA BatchGone ==
    ASSUME IInv, RemoveBatch, failed \subseteq failed',
           \A x \in Kept' : x \in Kept,
           \A x \in Kept : x \in Kept' \/ x.seq \in failed'
    PROVE  BornInv' /\ BatchInv' /\ NewestInv' /\ LossExplained' /\ ResyncInv'
<1>1. /\ flusher' = "none" /\ batch' = <<>> /\ UNCHANGED resyncVars
      /\ seq' = seq /\ clock' = clock /\ hot' = hot /\ born' = born
  BY DEF RemoveBatch
<1>2. TypeOK /\ BornInv /\ LossExplained /\ seq \in Nat /\ clock \in Nat
  BY StoreTypes DEF IInv, StoreInv
<1>3. Onward
  BY <1>1, <1>2 DEF Onward
<1>4. ResyncInv'
  BY <1>1, <1>2, <1>3, ResyncUnmoved DEF IInv
<1>5. LossExplained'
  <2>1. ASSUME NEW n \in 1 .. seq
        PROVE  \/ \E x \in Kept' : x.seq = n
               \/ TooOld(born[n])'
               \/ n \in failed'
               \/ \A y \in Kept' : n < y.seq
    BY <1>2, <1>3, LossStaysExplained
  <2> QED
    BY <1>1, <2>1 DEF LossExplained
<1>6. BornInv'
  BY <1>1, <1>2 DEF BornInv
<1>7. NewestInv'
  BY <1>1 DEF IInv, StoreInv, NewestInv, TooOld
<1>8. BatchInv'
  <2>1. IsPrefix(<<>>, pending')
    BY DEF IsPrefix
  <2> QED
    BY <1>1, <2>1 DEF BatchInv, BatchAtHead
<1> QED
  BY <1>4, <1>5, <1>6, <1>7, <1>8

\* flushColdPending puts the segment in the place of the batch.
LEMMA FlushEndStep ==
    ASSUME IInv, NEW size \in 1 .. MaxData, FlushEnd(size)
    PROVE  IInv'
<1>1. /\ RemoveBatch /\ failed' = failed
      /\ segments' = Append(segments, CompressChunks(batch, size))
      /\ coldBytes' = coldBytes + size
  BY DEF FlushEnd
<1>2. StoreInv /\ TypeOK /\ OrderInv /\ Accounting
  BY DEF IInv, StoreInv
<1>3. /\ batch \in Seq(Chunk) /\ batch # <<>> /\ Rising(batch)
      /\ pending' \in Seq(Chunk) /\ Rising(pending')
      /\ ToSet(pending) = ToSet(batch) \union ToSet(pending')
      /\ Older(ToSet(batch), ToSet(pending'))
      /\ pendingBytes' = Bytes(pending')
  BY <1>1, <1>2, BatchRemoved
<1>4. /\ hot \in Seq(Chunk) /\ hot' = hot /\ hotBytes' = hotBytes /\ segments \in Seq(Segment)
  BY <1>1, <1>2, StoreTypes DEF RemoveBatch
<1>5. /\ segments' \in Seq(Segment) /\ SegmentsInOrder(segments')
      /\ ColdOf(segments') = ColdOf(segments) \union ToSet(batch)
      /\ Size(segments') = Size(segments) + size
  <2>1. SegmentsInOrder(segments) /\ Older(ColdOf(segments), ToSet(batch))
    BY <1>2, <1>3 DEF OrderInv, Older
  <2> QED
    BY <1>1, <1>2, <1>3, <1>4, <2>1, SegmentAdded
<1>6. Kept' = Kept
  BY <1>3, <1>4, <1>5 DEF Kept
<1>7. BornInv' /\ BatchInv' /\ NewestInv' /\ LossExplained' /\ ResyncInv'
  BY <1>1, <1>6, BatchGone
<1>8. OrderInv'
  BY <1>2, <1>3, <1>4, <1>5 DEF OrderInv, Older
<1>9. Accounting'
  BY <1>1, <1>2, <1>3, <1>4, <1>5 DEF Accounting
<1>10. TypeOK'
  <2>1. hotBytes' \in Nat /\ pendingBytes' \in Nat /\ coldBytes' \in Nat
    BY <1>3, <1>4, <1>5, <1>9, CountersAreNat
  <2>2. RemoveBatch /\ failed' = failed
    BY <1>1
  <2>3. hot' \in Seq(Chunk) /\ pending' \in Seq(Chunk) /\ segments' \in Seq(Segment)
    BY <1>3, <1>4, <1>5
  <2>4. /\ clock' = clock /\ seq' = seq /\ flushers' = flushers /\ born' = born
        /\ phase' = phase /\ from' = from /\ next' = next /\ sent' = sent
        /\ noticed' = noticed /\ upTo' = upTo
        /\ batch' = <<>> /\ flusher' = "none"
    BY <2>2 DEF RemoveBatch, resyncVars
  <2>5. batch' \in Seq(Chunk) /\ flusher' \in Callers \union {"none"}
    BY <2>4
  <2> QED
    BY <1>2, <2>1, <2>2, <2>3, <2>4, <2>5 DEF TypeOK, Segment
<1> QED
  BY <1>7, <1>8, <1>9, <1>10 DEF IInv, StoreInv

\* The batch is dropped, and history says so.
LEMMA FlushFailsStep ==
    ASSUME IInv, FlushFails
    PROVE  IInv'
<1>1. /\ RemoveBatch /\ segments' = segments /\ coldBytes' = coldBytes
      /\ failed' = failed \union {batch[i].seq : i \in 1 .. Len(batch)}
  BY DEF FlushFails
<1>2. StoreInv /\ TypeOK /\ OrderInv /\ Accounting
  BY DEF IInv, StoreInv
<1>3. /\ batch \in Seq(Chunk) /\ pending' \in Seq(Chunk) /\ Rising(pending')
      /\ ToSet(pending) = ToSet(batch) \union ToSet(pending')
      /\ pendingBytes' = Bytes(pending')
  BY <1>1, <1>2, BatchRemoved
<1>4. hot' = hot /\ hotBytes' = hotBytes /\ failed \subseteq failed'
  BY <1>1 DEF RemoveBatch
<1>5. \A x \in Kept' : x \in Kept
  BY <1>1, <1>3, <1>4 DEF Kept
<1>6. \A x \in ToSet(batch) : x.seq \in failed'
  BY <1>1, <1>3, Elements
<1>7. \A x \in Kept : x \in Kept' \/ x.seq \in failed'
  BY <1>1, <1>3, <1>4, <1>6 DEF Kept
<1>8. BornInv' /\ BatchInv' /\ NewestInv' /\ LossExplained' /\ ResyncInv'
  BY <1>1, <1>4, <1>5, <1>7, BatchGone
<1>9. OrderInv'
  BY <1>1, <1>2, <1>3, <1>4 DEF OrderInv, Older
<1>10. Accounting'
  BY <1>1, <1>2, <1>3, <1>4 DEF Accounting
<1>11. TypeOK'
  <2>1. /\ hot' \in Seq(Chunk) /\ segments' \in Seq(Segment)
        /\ failed \in SUBSET (1 .. MaxSeq)
    BY <1>1, <1>2, <1>4, StoreTypes
  <2>2. hotBytes' \in Nat /\ pendingBytes' \in Nat /\ coldBytes' \in Nat
    BY <1>3, <1>10, <2>1, CountersAreNat
  <2>3. \A i \in 1 .. Len(batch) : batch[i].seq \in 1 .. MaxSeq
    <3>1. \A i \in 1 .. Len(batch) : batch[i] \in Chunk
      BY <1>3
    <3> QED
      BY <3>1 DEF Chunk
  <2>4. failed' \in SUBSET (1 .. MaxSeq)
    BY <1>1, <2>1, <2>3
  <2>5. /\ clock' = clock /\ seq' = seq /\ flushers' = flushers /\ born' = born
        /\ phase' = phase /\ from' = from /\ next' = next /\ sent' = sent
        /\ noticed' = noticed /\ upTo' = upTo
        /\ batch' = <<>> /\ flusher' = "none"
    BY <1>1 DEF RemoveBatch, resyncVars
  <2>6. batch' \in Seq(Chunk) /\ flusher' \in Callers \union {"none"}
    BY <2>5
  <2> QED
    BY <1>2, <1>3, <2>1, <2>2, <2>4, <2>5, <2>6 DEF TypeOK, Segment
<1> QED
  BY <1>8, <1>9, <1>10, <1>11 DEF IInv, StoreInv

\* A client asks for what follows the last number it has.
LEMMA StartStep ==
    ASSUME IInv, NEW last \in 0 .. seq, StartResync(last)
    PROVE  IInv'
<1>1. /\ phase = "idle" /\ phase' = "running" /\ from' = last + 1 /\ next' = last + 1
      /\ UNCHANGED <<clock, seq, bufferVars, flushVars, sent, noticed, upTo, born, failed>>
  BY DEF StartResync
<1>2. /\ TypeOK /\ seq \in Nat /\ seq \in 0 .. MaxSeq /\ MaxSeq \in Nat
      /\ sent = <<>> /\ from = 1 /\ upTo <= seq
  BY <1>1, StoreTypes, Limits DEF IInv, StoreInv, ResyncInv
<1>3. TypeOK'
  <2>1. last + 1 \in 1 .. MaxSeq + 1
    BY <1>2
  <2> QED
    BY <1>1, <1>2, <2>1 DEF TypeOK, bufferVars, flushVars
<1>4. StoreInv'
  <2>1. OrderInv' /\ BornInv' /\ BatchInv' /\ NewestInv' /\ Accounting' /\ LossExplained'
    BY <1>1 DEF IInv, StoreInv, OrderInv, BornInv, BatchInv, BatchAtHead, NewestInv,
       Accounting, LossExplained, Kept, TooOld, bufferVars, flushVars
  <2> QED
    BY <1>3, <2>1 DEF StoreInv
<1>5. PassedOver'
  <2>1. SUFFICES ASSUME NEW x \in Kept', x.seq < next',
                        x.seq >= (IF from' > 1 THEN from' ELSE sent'[1])
                 PROVE  FALSE
    BY DEF PassedOver
  <2>2. x \in Kept
    BY <1>1 DEF Kept, bufferVars
  <2>3. x.seq \in Nat /\ x.seq >= 1
    BY <1>2, <2>2, KeptAreChunks
  <2> QED
    BY <1>1, <2>1, <2>3
<1>6. ResyncInOrder' /\ GapReported'
  BY <1>1, <1>2 DEF ResyncInOrder, GapReported
<1>7. ASSUME NEW n \in from' .. next' - 1 PROVE FALSE
  BY <1>1
<1> QED
  BY <1>1, <1>2, <1>4, <1>5, <1>6, <1>7 DEF IInv, ResyncInv

-----------------------------------------------------------------------------
(* What a resync reads.                                                    *)

\* The chunks of an ascending sequence from offset on.
LEMMA ChunksFromAre ==
    ASSUME NEW s \in Seq(Chunk), Rising(s), NEW o \in Nat, NEW r, r = ChunksFrom(s, o)
    PROVE  /\ r \in Seq(Chunk) /\ Rising(r)
           /\ \A x : x \in ToSet(r) <=> x \in ToSet(s) /\ x.seq >= o
<1> DEFINE n == Len(s)
           S == {j \in 0 .. n : s[j + 1].seq < o}
           k == Stop(n, S)
<1>1. n \in Nat /\ \A i \in 1 .. n : s[i] \in Chunk
  OBVIOUS
<1>2. \A i \in 1 .. n : s[i].seq \in Nat
  <2>1. \A x \in Chunk : x.seq \in Nat
    BY Limits DEF Chunk
  <2> QED
    BY <1>1, <2>1
<1>3. r = Drop(s, k)
  <2>1. {j \in 0 .. n : j = n \/ ~(s[j + 1].seq < o)} = {j \in 0 .. n : j = n \/ j \notin S}
    OBVIOUS
  <2>2. LoopCount(s, LAMBDA j : s[j + 1].seq < o) = k
    BY <2>1 DEF LoopCount, Stop
  <2> HIDE DEF S, k
  <2> QED
    BY <2>2 DEF ChunksFrom
<1> HIDE DEF S, k
<1>4. k \in 0 .. n /\ (k = n \/ k \notin S) /\ \A j \in 0 .. n : j < k => j \in S
  BY <1>1, LoopStops DEF k
<1>5. r \in Seq(Chunk) /\ Rising(r)
  BY <1>3, <1>4, Parted, PartsRise DEF n
<1>6. \A x : x \in ToSet(r) <=> \E i \in k + 1 .. n : x = s[i]
  BY <1>3, <1>4, PartElements DEF n
<1>7. ASSUME NEW i \in 1 .. k PROVE s[i].seq < o
  <2>1. i - 1 \in 0 .. n /\ i - 1 < k /\ (i - 1) + 1 = i
    BY <1>1, <1>4
  <2> QED
    BY <1>4, <2>1 DEF S
<1>8. ASSUME NEW i \in k + 1 .. n PROVE s[i].seq >= o
  <2>1. k \in 0 .. n /\ k # n /\ k + 1 \in 1 .. n /\ i \in 1 .. n
    BY <1>1, <1>4
  <2>2. ~(s[k + 1].seq < o)
    BY <1>4, <2>1 DEF S
  <2>3. i = k + 1 \/ s[k + 1].seq < s[i].seq
    BY <1>1, <2>1 DEF Rising
  <2> QED
    BY <1>2, <2>1, <2>2, <2>3
<1>9. \A i \in 1 .. n : i \in 1 .. k \/ i \in k + 1 .. n
  BY <1>1, <1>4
<1>10. \A i \in k + 1 .. n : i \in 1 .. n
  BY <1>1, <1>4
<1>11. \A x : x \in ToSet(s) <=> \E i \in 1 .. n : x = s[i]
  BY Elements
<1>12. ASSUME NEW i \in 1 .. k PROVE ~(s[i].seq >= o)
  <2>1. i \in 1 .. n
    BY <1>1, <1>4
  <2> QED
    BY <1>2, <1>7, <2>1
<1> HIDE DEF n
<1>13. ASSUME NEW x PROVE x \in ToSet(r) <=> x \in ToSet(s) /\ x.seq >= o
  BY <1>6, <1>8, <1>9, <1>10, <1>11, <1>12
<1> QED
  BY <1>5, <1>13

\* The segments that hold any chunk from offset on.
LEMMA SegmentsFromAre ==
    ASSUME segments \in Seq(Segment), SegmentsInOrder(segments), NEW o \in Nat,
           NEW r, r = SegmentsFrom(o)
    PROVE  /\ r \in Seq(Segment) /\ SegmentsInOrder(r)
           /\ \A i \in 1 .. Len(r) : \E x \in ToSet(r[i].chunks) : x.seq >= o
           /\ \A x \in ColdOf(segments) : x.seq >= o => x \in ColdOf(r)
           /\ ColdOf(r) \subseteq ColdOf(segments)
<1> DEFINE n == Len(segments)
           S == {j \in 0 .. n : segments[j + 1].endSeq < o}
           k == Stop(n, S)
<1>1. n \in Nat /\ \A i \in 1 .. n : segments[i] \in Segment
  OBVIOUS
<1>2. \A i \in 1 .. n : segments[i].chunks \in Seq(Chunk)
  BY <1>1 DEF Segment
<1>3. r = Drop(segments, k)
  <2>1. {j \in 0 .. n : j = n \/ ~(segments[j + 1].endSeq < o)}
          = {j \in 0 .. n : j = n \/ j \notin S}
    OBVIOUS
  <2>2. LoopCount(segments, LAMBDA j : segments[j + 1].endSeq < o) = k
    BY <2>1 DEF LoopCount, Stop
  <2> HIDE DEF S, k
  <2> QED
    BY <2>2 DEF SegmentsFrom
<1> HIDE DEF S, k
<1>4. k \in 0 .. n /\ (k = n \/ k \notin S) /\ \A j \in 0 .. n : j < k => j \in S
  BY <1>1, LoopStops DEF k
<1>5. /\ r \in Seq(Segment) /\ SegmentsInOrder(r) /\ ColdOf(r) \subseteq ColdOf(segments)
      /\ Len(r) = n - k /\ \A i \in 1 .. n - k : r[i] = segments[k + i]
  <2>1. k \in 0 .. Len(segments)
    BY <1>4 DEF n
  <2>2. /\ r \in Seq(Segment) /\ SegmentsInOrder(r)
        /\ ColdOf(r) \subseteq ColdOf(segments)
    BY <1>3, <2>1, SegmentsDropped
  <2>3. Len(r) = n - k /\ \A i \in 1 .. n - k : r[i] = segments[k + i]
    <3>1. /\ Len(Drop(segments, k)) = Len(segments) - k
          /\ \A i \in 1 .. Len(segments) - k : Drop(segments, k)[i] = segments[k + i]
      BY <2>1, Parted, Zenon
    <3> QED
      BY <1>3, <3>1, Zenon DEF n
  <2> QED
    BY <2>2, <2>3
\* The newest chunk of a segment, and the others.
<1>6. ASSUME NEW i \in 1 .. n
      PROVE  /\ \E x \in ToSet(segments[i].chunks) : x.seq = segments[i].endSeq
             /\ \A x \in ToSet(segments[i].chunks) : x.seq \in Nat
             /\ \A x \in ToSet(segments[i].chunks) : x.seq <= segments[i].endSeq
  <2> DEFINE c == segments[i].chunks
  <2>1. c \in Seq(Chunk) /\ c # <<>> /\ Rising(c) /\ segments[i].endSeq = c[Len(c)].seq
    BY <1>2 DEF SegmentsInOrder, Sealed
  <2> HIDE DEF c
  <2>2. Len(c) \in Nat /\ Len(c) \in 1 .. Len(c) /\ \A j \in 1 .. Len(c) : c[j] \in Chunk
    BY <2>1
  <2>3. \A j \in 1 .. Len(c) : c[j].seq \in Nat
    BY <2>2, Limits DEF Chunk
  <2>4. \A j \in 1 .. Len(c) : j = Len(c) \/ c[j].seq < c[Len(c)].seq
    BY <2>1, <2>2 DEF Rising
  <2>5. \A x : x \in ToSet(c) <=> \E j \in 1 .. Len(c) : x = c[j]
    BY <2>1, Elements
  <2>6. ASSUME NEW x \in ToSet(c) PROVE x.seq \in Nat /\ x.seq <= c[Len(c)].seq
    BY <2>2, <2>3, <2>4, <2>5
  <2>7. \E x \in ToSet(c) : x.seq = segments[i].endSeq
    BY <2>1, <2>2, <2>5
  <2> QED
    BY <2>1, <2>6, <2>7 DEF c
<1>7. ASSUME NEW x \in ColdOf(segments), x.seq >= o PROVE x \in ColdOf(r)
  <2>1. PICK i \in 1 .. n : x \in ToSet(segments[i].chunks)
    BY DEF ColdOf
  <2>2. i > k
    <3> SUFFICES ASSUME i <= k PROVE FALSE
      BY <1>1, <1>4
    <3>1. i - 1 \in 0 .. n /\ i - 1 < k /\ (i - 1) + 1 = i
      BY <1>1, <1>4
    <3>2. segments[i].endSeq < o
      BY <1>4, <3>1 DEF S
    <3>3. x.seq \in Nat /\ x.seq <= segments[i].endSeq
      BY <1>6, <2>1
    <3>4. segments[i].endSeq \in Nat
      BY <1>6
    <3> QED
      BY <1>7, <3>2, <3>3, <3>4
  <2>3. i - k \in 1 .. n - k /\ k + (i - k) = i
    BY <1>1, <1>4, <2>2
  <2>4. r[i - k] = segments[i]
    BY <1>5, <2>3
  <2> QED
    BY <1>5, <2>1, <2>3, <2>4 DEF ColdOf
<1>8. ASSUME NEW i \in 1 .. Len(r)
      PROVE  \E x \in ToSet(r[i].chunks) : x.seq >= o
  <2>1. /\ k # n /\ k + 1 \in 1 .. n /\ k + i \in 1 .. n /\ r[i] = segments[k + i]
        /\ (i = 1 \/ k + 1 < k + i)
    BY <1>1, <1>4, <1>5
  <2>2. ~(segments[k + 1].endSeq < o)
    BY <1>4, <2>1 DEF S
  <2>3. PICK y \in ToSet(segments[k + 1].chunks) : y.seq = segments[k + 1].endSeq
    BY <1>6, <2>1
  <2>4. y.seq \in Nat /\ y.seq >= o
    BY <1>6, <2>1, <2>2, <2>3
  <2>5. PICK x \in ToSet(segments[k + i].chunks) : x.seq = segments[k + i].endSeq
    BY <1>6, <2>1
  <2>6. i # 1 => y.seq < x.seq
    BY <2>1, <2>3, <2>5 DEF SegmentsInOrder, Older
  <2>7. x.seq \in Nat
    BY <1>6, <2>1
  <2>8. CASE i = 1
    BY <2>1, <2>3, <2>4, <2>8
  <2>9. CASE i # 1
    BY <2>1, <2>4, <2>6, <2>7, <2>9
  <2> QED
    BY <2>8, <2>9
<1> QED
  BY <1>5, <1>7, <1>8

\* q holds the chunks of A, in order and in pieces that are not empty.
PiecesOf(q, A) ==
    /\ q \in Seq(Seq(Chunk)) /\ PiecesRise(q)
    /\ \A i \in 1 .. Len(q) : ToSet(q[i]) # {}
    /\ \A x : (\E i \in 1 .. Len(q) : x \in ToSet(q[i])) <=> x \in A

\* Pieces of what is older come first.
LEMMA PiecesJoined ==
    ASSUME NEW a, NEW A, PiecesOf(a, A),
           NEW b, NEW B, PiecesOf(b, B), Older(A, B)
    PROVE  PiecesOf(a \o b, A \union B)
<1> DEFINE q == a \o b
<1>1. /\ a \in Seq(Seq(Chunk)) /\ b \in Seq(Seq(Chunk)) /\ PiecesRise(a) /\ PiecesRise(b)
      /\ \A i \in 1 .. Len(a) : ToSet(a[i]) # {}
      /\ \A i \in 1 .. Len(b) : ToSet(b[i]) # {}
      /\ \A x : (\E i \in 1 .. Len(a) : x \in ToSet(a[i])) <=> x \in A
      /\ \A x : (\E i \in 1 .. Len(b) : x \in ToSet(b[i])) <=> x \in B
  BY DEF PiecesOf
<1>2. /\ q \in Seq(Seq(Chunk)) /\ Len(q) = Len(a) + Len(b) /\ Len(a) \in Nat /\ Len(b) \in Nat
      /\ \A i \in 1 .. Len(a) : q[i] = a[i] /\ i \in 1 .. Len(q)
      /\ \A i \in 1 .. Len(b) : q[Len(a) + i] = b[i] /\ Len(a) + i \in 1 .. Len(q)
      /\ \A i \in 1 .. Len(q) :
            \/ i \in 1 .. Len(a)
            \/ i > Len(a) /\ i - Len(a) \in 1 .. Len(b) /\ q[i] = b[i - Len(a)]
  BY <1>1
<1> HIDE DEF q
<1>3. ASSUME NEW i \in 1 .. Len(q) PROVE Rising(q[i]) /\ ToSet(q[i]) # {}
  BY <1>1, <1>2 DEF PiecesRise
<1>4. ASSUME NEW i \in 1 .. Len(q), NEW j \in 1 .. Len(q), i < j
      PROVE  Older(ToSet(q[i]), ToSet(q[j]))
  <2>1. CASE i \in 1 .. Len(a) /\ j \in 1 .. Len(a)
    BY <1>1, <1>2, <1>4, <2>1 DEF PiecesRise
  <2>2. CASE i \in 1 .. Len(a) /\ j > Len(a)
    <3>0. j \notin 1 .. Len(a)
      BY <1>2, <2>2
    <3>1. j - Len(a) \in 1 .. Len(b) /\ q[j] = b[j - Len(a)]
      BY <1>2, <3>0, Zenon
    <3>2. ToSet(q[i]) \subseteq A /\ ToSet(q[j]) \subseteq B
      BY <1>1, <1>2, <2>2, <3>1
    <3> QED
      BY <3>2 DEF Older
  <2>3. CASE i > Len(a) /\ j > Len(a)
    <3>1. /\ i - Len(a) \in 1 .. Len(b) /\ q[i] = b[i - Len(a)]
          /\ j - Len(a) \in 1 .. Len(b) /\ q[j] = b[j - Len(a)]
      BY <1>2, <2>3
    <3>2. i - Len(a) < j - Len(a)
      BY <1>2, <1>4
    <3> QED
      BY <1>1, <3>1, <3>2 DEF PiecesRise
  <2> QED
    BY <1>2, <1>4, <2>1, <2>2, <2>3
<1>5. ASSUME NEW x
      PROVE  (\E i \in 1 .. Len(q) : x \in ToSet(q[i])) <=> x \in A \/ x \in B
  <2>1. (\E i \in 1 .. Len(q) : x \in ToSet(q[i])) => x \in A \/ x \in B
    BY <1>1, <1>2
  <2>2. x \in A => \E i \in 1 .. Len(q) : x \in ToSet(q[i])
    BY <1>1, <1>2
  <2>3. x \in B => \E i \in 1 .. Len(q) : x \in ToSet(q[i])
    BY <1>1, <1>2
  <2> QED
    BY <2>1, <2>2, <2>3
<1>6. PiecesRise(q)
  BY <1>3, <1>4 DEF PiecesRise
<1>7. PiecesOf(q, A \union B)
  BY <1>2, <1>3, <1>5, <1>6 DEF PiecesOf
<1> QED
  BY <1>7 DEF q

\* What a resync from offset o may be sent of the segments, and of the raw layers.
ColdFrom(o) == {x \in ColdOf(segments) : x.seq >= o}
RawFrom(o) == {x \in ToSet(pending) \union ToSet(hot) : x.seq >= o}

LEMMA ColdPieces ==
    ASSUME segments \in Seq(Segment), SegmentsInOrder(segments), NEW o \in Nat,
           NEW r, r = SegmentsFrom(o),
           NEW a, a = [i \in 1 .. Len(r) |-> ChunksFrom(r[i].chunks, o)]
    PROVE  PiecesOf(a, ColdFrom(o))
<1>1. /\ r \in Seq(Segment) /\ SegmentsInOrder(r) /\ Len(r) \in Nat
      /\ \A i \in 1 .. Len(r) : \E x \in ToSet(r[i].chunks) : x.seq >= o
      /\ \A x \in ColdOf(segments) : x.seq >= o => x \in ColdOf(r)
      /\ ColdOf(r) \subseteq ColdOf(segments)
  <2>1. /\ r \in Seq(Segment) /\ SegmentsInOrder(r)
        /\ \A i \in 1 .. Len(r) : \E x \in ToSet(r[i].chunks) : x.seq >= o
        /\ \A x \in ColdOf(segments) : x.seq >= o => x \in ColdOf(r)
        /\ ColdOf(r) \subseteq ColdOf(segments)
    BY SegmentsFromAre, Zenon
  <2>2. Len(r) \in Nat
    BY <2>1
  <2> QED
    BY <2>1, <2>2
<1>2. ASSUME NEW i \in 1 .. Len(r)
      PROVE  /\ ChunksFrom(r[i].chunks, o) \in Seq(Chunk)
             /\ Rising(ChunksFrom(r[i].chunks, o))
             /\ \A x : x \in ToSet(ChunksFrom(r[i].chunks, o))
                          <=> x \in ToSet(r[i].chunks) /\ x.seq >= o
  <2>1. r[i] \in Segment
    BY <1>1
  <2>2. r[i].chunks \in Seq(Chunk)
    BY <2>1 DEF Segment
  <2>3. Rising(r[i].chunks)
    BY <1>1 DEF SegmentsInOrder, Sealed
  <2> QED
    BY <2>2, <2>3, ChunksFromAre
<1>3. /\ a \in Seq(Seq(Chunk)) /\ Len(a) = Len(r)
      /\ \A i \in 1 .. Len(r) : a[i] = ChunksFrom(r[i].chunks, o)
  BY <1>1, <1>2
<1>4. \A i \in 1 .. Len(r) :
          /\ Rising(a[i])
          /\ \A x : x \in ToSet(a[i]) <=> x \in ToSet(r[i].chunks) /\ x.seq >= o
  BY <1>2, <1>3, Zenon
<1>5. PiecesRise(a)
  <2>1. ASSUME NEW i \in 1 .. Len(r), NEW j \in 1 .. Len(r), i < j
        PROVE  Older(ToSet(a[i]), ToSet(a[j]))
    <3>1. Older(ToSet(r[i].chunks), ToSet(r[j].chunks))
      BY <1>1, <2>1 DEF SegmentsInOrder
    <3> QED
      BY <1>4, <3>1 DEF Older
  <2> QED
    BY <1>3, <1>4, <2>1 DEF PiecesRise
<1>6. \A i \in 1 .. Len(a) : ToSet(a[i]) # {}
  BY <1>1, <1>3, <1>4
<1>7. ASSUME NEW x
      PROVE  (\E i \in 1 .. Len(a) : x \in ToSet(a[i])) <=> x \in ColdFrom(o)
  <2>1. ASSUME NEW i \in 1 .. Len(a), x \in ToSet(a[i]) PROVE x \in ColdFrom(o)
    <3>1. a[i] \in Seq(Chunk)
      BY <1>3
    <3>2. x \in Chunk
      BY <2>1, <3>1, Elements
    <3>3. x \in ToSet(r[i].chunks) /\ x.seq >= o
      BY <1>3, <1>4, <2>1
    <3>4. x \in ColdOf(r)
      BY <1>3, <3>2, <3>3 DEF ColdOf
    <3> QED
      BY <1>1, <3>3, <3>4 DEF ColdFrom
  <2>2. ASSUME x \in ColdFrom(o) PROVE \E i \in 1 .. Len(a) : x \in ToSet(a[i])
    <3>1. x.seq >= o /\ x \in ColdOf(r)
      BY <1>1, <2>2 DEF ColdFrom
    <3>2. PICK i \in 1 .. Len(r) : x \in ToSet(r[i].chunks)
      BY <3>1 DEF ColdOf
    <3> QED
      BY <1>3, <1>4, <3>1, <3>2
  <2> QED
    BY <2>1, <2>2
<1> QED
  BY <1>3, <1>5, <1>6, <1>7 DEF PiecesOf

LEMMA RawPieces ==
    ASSUME pending \in Seq(Chunk), hot \in Seq(Chunk), Rising(pending), Rising(hot),
           Older(ToSet(pending), ToSet(hot)), NEW o \in Nat,
           NEW r, r = ChunksFrom(pending \o hot, o),
           NEW b, b = [i \in 1 .. Len(r) |-> <<r[i]>>]
    PROVE  PiecesOf(b, RawFrom(o))
<1>1. /\ pending \o hot \in Seq(Chunk) /\ Rising(pending \o hot)
      /\ ToSet(pending \o hot) = ToSet(pending) \union ToSet(hot)
  BY Joined
<1>2. /\ r \in Seq(Chunk) /\ Rising(r)
      /\ \A x : x \in ToSet(r) <=> x \in RawFrom(o)
  BY <1>1, ChunksFromAre DEF RawFrom
<1>3. Len(r) \in Nat /\ \A i \in 1 .. Len(r) : r[i] \in Chunk
  BY <1>2
<1>4. /\ b \in Seq(Seq(Chunk)) /\ Len(b) = Len(r)
      /\ \A i \in 1 .. Len(r) : b[i] = <<r[i]>>
  BY <1>3
<1>5. ASSUME NEW i \in 1 .. Len(r)
      PROVE  Rising(b[i]) /\ \A x : x \in ToSet(b[i]) <=> x = r[i]
  <2>1. Rising(<<r[i]>>)
    BY DEF Rising
  <2>2. ToSet(<<r[i]>>) = {r[i]}
    BY DEF ToSet
  <2> QED
    BY <1>4, <2>1, <2>2
<1>6. PiecesRise(b)
  BY <1>2, <1>4, <1>5 DEF PiecesRise, Older, Rising
<1>7. \A i \in 1 .. Len(b) : ToSet(b[i]) # {}
  BY <1>4, <1>5
<1>8. \A x : x \in ToSet(r) <=> \E i \in 1 .. Len(r) : x = r[i]
  BY <1>2, Elements
<1>9. ASSUME NEW x
      PROVE  (\E i \in 1 .. Len(b) : x \in ToSet(b[i])) <=> x \in RawFrom(o)
  <2>1. (\E i \in 1 .. Len(r) : x \in ToSet(b[i])) <=> \E i \in 1 .. Len(r) : x = r[i]
    BY <1>5
  <2> QED
    BY <1>2, <1>4, <1>8, <2>1, Zenon
<1> QED
  BY <1>4, <1>6, <1>7, <1>9 DEF PiecesOf

\* What a resync from offset o may be sent.
LEMMA PiecesAre ==
    ASSUME TypeOK, OrderInv, NEW o \in Nat
    PROVE  PiecesOf(Pieces(o), RawFrom(o) \union (IF o > 1 THEN ColdFrom(o) ELSE {}))
<1> DEFINE r == SegmentsFrom(o)
           raw == ChunksFrom(pending \o hot, o)
           a == [i \in 1 .. Len(r) |-> ChunksFrom(r[i].chunks, o)]
           b == [i \in 1 .. Len(raw) |-> <<raw[i]>>]
<1>1. /\ segments \in Seq(Segment) /\ pending \in Seq(Chunk) /\ hot \in Seq(Chunk)
      /\ SegmentsInOrder(segments) /\ Rising(pending) /\ Rising(hot)
      /\ Older(ColdOf(segments), ToSet(pending)) /\ Older(ColdOf(segments), ToSet(hot))
      /\ Older(ToSet(pending), ToSet(hot))
  BY StoreTypes DEF OrderInv
<1>2. PiecesOf(a, ColdFrom(o))
  BY <1>1, ColdPieces
<1>3. PiecesOf(b, RawFrom(o))
  BY <1>1, RawPieces
<1>4. Pieces(o) = (IF o > 1 THEN a ELSE <<>>) \o b
  BY DEF Pieces
<1> HIDE DEF a, b
<1>5. Older(ColdFrom(o), RawFrom(o))
  BY <1>1 DEF Older, ColdFrom, RawFrom
<1>6. CASE o > 1
  <2>1. PiecesOf(a \o b, ColdFrom(o) \union RawFrom(o))
    BY <1>2, <1>3, <1>5, PiecesJoined
  <2>2. ColdFrom(o) \union RawFrom(o) = RawFrom(o) \union ColdFrom(o)
    OBVIOUS
  <2> QED
    BY <1>4, <1>6, <2>1, <2>2
<1>7. CASE ~(o > 1)
  <2>1. b \in Seq(Seq(Chunk))
    BY <1>3 DEF PiecesOf
  <2>2. <<>> \o b = b
    BY <2>1
  <2>3. RawFrom(o) \union {} = RawFrom(o)
    OBVIOUS
  <2> QED
    BY <1>3, <1>4, <1>7, <2>2, <2>3
<1> QED
  BY <1>6, <1>7

Wanted(o) == RawFrom(o) \union (IF o > 1 THEN ColdFrom(o) ELSE {})

\* What outputFromOffset returns: the first of them, and nothing if there is nothing.
LEMMA OutputIs ==
    ASSUME TypeOK, OrderInv, NEW o \in Nat, NEW c, c = OutputFromOffset(o)
    PROVE  /\ c \in Seq(Chunk) /\ Rising(c)
           /\ \A x \in ToSet(c) : x \in Wanted(o)
           /\ c = <<>> => Wanted(o) = {}
           /\ c # <<>> => \A x \in Wanted(o) : x \in ToSet(c) \/ c[Len(c)].seq < x.seq
<1> DEFINE ps == Pieces(o)
           n == Len(ps)
           S == {j \in 0 .. n : Bytes(FlattenSeq(Take(ps, j))) < BatchBytes}
           k == Stop(n, S)
           t == Take(ps, k)
<1>1. PiecesOf(ps, Wanted(o))
  BY PiecesAre DEF Wanted
<1>2. c = FlattenSeq(t)
  <2>1. {j \in 0 .. n : j = n \/ ~(Bytes(FlattenSeq(Take(ps, j))) < BatchBytes)}
          = {j \in 0 .. n : j = n \/ j \notin S}
    OBVIOUS
  <2>2. LoopCount(ps, LAMBDA j : Bytes(FlattenSeq(Take(ps, j))) < BatchBytes) = k
    BY <2>1 DEF LoopCount, Stop
  <2> HIDE DEF S, k
  <2> QED
    BY <2>2 DEF OutputFromOffset
<1> HIDE DEF ps, S, k, t
<1>3. /\ ps \in Seq(Seq(Chunk)) /\ PiecesRise(ps)
      /\ \A i \in 1 .. n : ToSet(ps[i]) # {}
      /\ \A x : (\E i \in 1 .. n : x \in ToSet(ps[i])) <=> x \in Wanted(o)
  BY <1>1 DEF PiecesOf
<1>4. n \in Nat
  BY <1>3
<1>5. k \in 0 .. n /\ (k = n \/ k \notin S)
  BY <1>4, LoopStops DEF k
<1>6. /\ t \in Seq(Seq(Chunk)) /\ Len(t) = k
      /\ \A i \in 1 .. k : t[i] = ps[i] /\ i \in 1 .. n
  <2>1. /\ Take(ps, k) \in Seq(Seq(Chunk)) /\ Len(Take(ps, k)) = k
        /\ \A i \in 1 .. k : Take(ps, k)[i] = ps[i]
    <3>1. ps \in Seq(Seq(Chunk)) /\ k \in 0 .. Len(ps)
      BY <1>3, <1>5
    <3> HIDE DEF n
    <3> QED
      BY <3>1, Parted
  <2>2. \A i \in 1 .. k : i \in 1 .. n
    BY <1>4, <1>5
  <2> QED
    BY <2>1, <2>2 DEF t
<1>7. PutTogether(t, k, c)
  BY <1>2, <1>6, Flattened
<1>8. PiecesRise(t)
  BY <1>3, <1>6 DEF PiecesRise
<1>9. /\ c \in Seq(Chunk) /\ Rising(c)
      /\ \A x : x \in ToSet(c) <=> \E i \in 1 .. k : x \in ToSet(ps[i])
  BY <1>6, <1>7, <1>8 DEF PutTogether
<1>10. \A x \in ToSet(c) : x \in Wanted(o)
  BY <1>3, <1>6, <1>9
<1>11. ASSUME k = 0 PROVE n = 0
  <2>1. Take(ps, 0) = <<>>
    BY <1>3, Parted DEF Take
  <2>2. FlattenSeq(<<>>) = <<>>
    BY DEF FlattenSeq
  <2>3. Bytes(FlattenSeq(Take(ps, 0))) = 0
    BY <2>1, <2>2, BytesOfParts
  <2>4. 0 \in S
    BY <1>4, <2>3, Limits DEF S
  <2> QED
    BY <1>5, <1>11, <2>4
<1>12. ASSUME c = <<>> PROVE Wanted(o) = {}
  <2>1. \A x : x \notin ToSet(c)
    BY <1>12 DEF ToSet
  <2>2. k = 0
    <3> SUFFICES ASSUME k # 0 PROVE FALSE
      OBVIOUS
    <3>1. 1 \in 1 .. k /\ 1 \in 1 .. n
      BY <1>4, <1>5
    <3> QED
      BY <1>3, <1>9, <2>1, <3>1
  <2>3. \A i \in 1 .. n : FALSE
    BY <1>11, <2>2
  <2> QED
    BY <1>3, <2>3
<1>13. ASSUME c # <<>>, NEW x \in Wanted(o), x \notin ToSet(c)
       PROVE  c[Len(c)].seq < x.seq
  <2>1. c[Len(c)] \in ToSet(c)
    BY <1>9, <1>13, Elements
  <2>2. PICK i \in 1 .. k : c[Len(c)] \in ToSet(ps[i])
    BY <1>9, <2>1
  <2>3. PICK j \in 1 .. n : x \in ToSet(ps[j])
    BY <1>3
  <2>4. j \notin 1 .. k
    BY <1>9, <1>13, <2>3
  <2>5. i \in 1 .. n /\ i < j
    BY <1>4, <1>5, <2>4
  <2> QED
    BY <1>3, <2>2, <2>3, <2>5 DEF PiecesRise, Older
<1> QED
  BY <1>9, <1>10, <1>12, <1>13

\* oldestRetainedSeqLocked is the number of a chunk that is kept, and 0 if there is none.
LEMMA OldestIsKept ==
    ASSUME TypeOK, OrderInv, Kept # {}
    PROVE  \E x \in Kept : x.seq = OldestRetainedSeq
<1>1. /\ segments \in Seq(Segment) /\ pending \in Seq(Chunk) /\ hot \in Seq(Chunk)
  BY StoreTypes
<1>2. CASE segments # <<>>
  <2>1. 1 \in 1 .. Len(segments) /\ segments[1] \in Segment
    BY <1>1, <1>2
  <2>2. segments[1].chunks \in Seq(Chunk) /\ Sealed(segments[1])
    BY <2>1 DEF Segment, OrderInv, SegmentsInOrder
  <2>3. segments[1].chunks # <<>> /\ segments[1].startSeq = segments[1].chunks[1].seq
    BY <2>2 DEF Sealed
  <2>4. segments[1].chunks[1] \in Chunk /\ 1 \in 1 .. Len(segments[1].chunks)
    BY <2>2, <2>3
  <2>5. segments[1].chunks[1] \in ToSet(segments[1].chunks)
    BY <2>2, <2>4, Elements
  <2>6. segments[1].chunks[1] \in Kept
    BY <2>1, <2>4, <2>5 DEF Kept, ColdOf
  <2> QED
    BY <1>2, <2>3, <2>6 DEF OldestRetainedSeq
<1>3. CASE segments = <<>> /\ pending # <<>>
  <2>1. pending[1] \in Kept
    BY <1>1, <1>3, Elements DEF Kept
  <2> QED
    BY <1>3, <2>1 DEF OldestRetainedSeq
<1>4. CASE segments = <<>> /\ pending = <<>> /\ hot # <<>>
  <2>1. hot[1] \in Kept
    BY <1>1, <1>4, Elements DEF Kept
  <2> QED
    BY <1>4, <2>1 DEF OldestRetainedSeq
<1>5. CASE segments = <<>> /\ pending = <<>> /\ hot = <<>>
  <2>1. ToSet(<<>>) = {}
    BY DEF ToSet
  <2>2. ColdOf(<<>>) = {}
    BY DEF ColdOf
  <2> QED
    BY <1>5, <2>1, <2>2 DEF Kept
<1> QED
  BY <1>2, <1>3, <1>4, <1>5

\* The numbers of chunks.
Numbers(c) == [i \in 1 .. Len(c) |-> c[i].seq]

\* u is s with d at its end.
Joins(s, d, u) ==
    /\ Len(u) = Len(s) + Len(d)
    /\ \A x : x \in ToSet(u) <=> x \in ToSet(s) \/ x \in ToSet(d)
    /\ \A i \in 1 .. Len(s) : u[i] = s[i]
    /\ \A i \in 1 .. Len(u) :
          \/ i \in 1 .. Len(s) /\ u[i] = s[i]
          \/ i - Len(s) \in 1 .. Len(d) /\ u[i] = d[i - Len(s)]

LEMMA Appended ==
    ASSUME NEW S, NEW s \in Seq(S), NEW d \in Seq(S)
    PROVE  s \o d \in Seq(S) /\ Joins(s, d, s \o d)
<1> DEFINE u == s \o d
<1>1. /\ u \in Seq(S) /\ Len(u) = Len(s) + Len(d) /\ Len(s) \in Nat /\ Len(d) \in Nat
      /\ \A i \in 1 .. Len(s) : u[i] = s[i] /\ i \in 1 .. Len(u)
      /\ \A i \in 1 .. Len(d) : u[Len(s) + i] = d[i] /\ Len(s) + i \in 1 .. Len(u)
      /\ \A i \in 1 .. Len(u) :
            \/ i \in 1 .. Len(s)
            \/ i - Len(s) \in 1 .. Len(d) /\ u[i] = d[i - Len(s)]
  <2>1. /\ u \in Seq(S) /\ Len(u) = Len(s) + Len(d) /\ Len(s) \in Nat /\ Len(d) \in Nat
        /\ \A i \in 1 .. Len(s) : u[i] = s[i]
        /\ \A i \in 1 .. Len(d) : u[Len(s) + i] = d[i]
    OBVIOUS
  <2> HIDE DEF u
  <2>2. ASSUME NEW i \in 1 .. Len(u), i \notin 1 .. Len(s)
        PROVE  i - Len(s) \in 1 .. Len(d) /\ Len(s) + (i - Len(s)) = i
    BY <2>1, <2>2
  <2>3. /\ \A i \in 1 .. Len(s) : i \in 1 .. Len(u)
        /\ \A i \in 1 .. Len(d) : Len(s) + i \in 1 .. Len(u)
    BY <2>1
  <2>4. ASSUME NEW i \in 1 .. Len(u), i \notin 1 .. Len(s)
        PROVE  i - Len(s) \in 1 .. Len(d) /\ u[i] = d[i - Len(s)]
    <3>1. u[Len(s) + (i - Len(s))] = d[i - Len(s)]
      BY <2>1, <2>2, <2>4, Zenon
    <3> QED
      BY <2>2, <2>4, <3>1, Zenon
  <2> QED
    BY <2>1, <2>3, <2>4, Zenon
<1> HIDE DEF u
<1>2. /\ \A x : x \in ToSet(u) <=> \E i \in 1 .. Len(u) : x = u[i]
      /\ \A x : x \in ToSet(s) <=> \E i \in 1 .. Len(s) : x = s[i]
      /\ \A x : x \in ToSet(d) <=> \E i \in 1 .. Len(d) : x = d[i]
  <2>1. \A q \in Seq(S) : \A x : x \in ToSet(q) <=> \E i \in 1 .. Len(q) : x = q[i]
    BY Elements
  <2> QED
    BY <1>1, <2>1, Zenon
<1>3. ASSUME NEW x, x \in ToSet(u) PROVE x \in ToSet(s) \/ x \in ToSet(d)
  <2>1. PICK i \in 1 .. Len(u) : x = u[i]
    BY <1>2, <1>3
  <2>2. CASE i \in 1 .. Len(s)
    BY <1>1, <1>2, <2>1, <2>2
  <2>3. CASE i - Len(s) \in 1 .. Len(d) /\ u[i] = d[i - Len(s)]
    BY <1>2, <2>1, <2>3
  <2> QED
    BY <1>1, <2>2, <2>3
<1>4. ASSUME NEW x, x \in ToSet(s) \/ x \in ToSet(d) PROVE x \in ToSet(u)
  <2>1. CASE x \in ToSet(s)
    <3>1. PICK i \in 1 .. Len(s) : x = s[i]
      BY <1>2, <2>1
    <3>2. u[i] = x /\ i \in 1 .. Len(u)
      BY <1>1, <3>1
    <3> QED
      BY <1>2, <3>2
  <2>2. CASE x \in ToSet(d)
    <3>1. PICK i \in 1 .. Len(d) : x = d[i]
      BY <1>2, <2>2
    <3>2. u[Len(s) + i] = x /\ Len(s) + i \in 1 .. Len(u)
      BY <1>1, <3>1
    <3> QED
      BY <1>2, <3>2
  <2> QED
    BY <1>4, <2>1, <2>2
<1>5. \A x : x \in ToSet(u) <=> x \in ToSet(s) \/ x \in ToSet(d)
  BY <1>3, <1>4
<1>6. Joins(s, d, u)
  BY <1>1, <1>5 DEF Joins
<1> QED
  BY <1>1, <1>6 DEF u

\* A batch c of a resync that asked for what follows, and its numbers d.
LEMMA BatchOfResync ==
    ASSUME IInv, NEW c, c = OutputFromOffset(next), c # <<>>, NEW d, d = Numbers(c)
    PROVE  /\ c \in Seq(Chunk) /\ Len(c) \in Nat /\ Len(c) \in 1 .. Len(c)
           /\ d \in Seq(1 .. MaxSeq) /\ Len(d) = Len(c)
           /\ \A i \in 1 .. Len(c) :
                 /\ d[i] = c[i].seq /\ d[i] \in Nat
                 /\ next <= d[i] /\ d[i] <= seq /\ d[i] <= d[Len(c)]
           /\ \A i, j \in 1 .. Len(c) : i < j => d[i] < d[j]
           /\ \A x \in ToSet(c) : x \in Kept /\ x.seq \in ToSet(d)
           /\ \A x \in Wanted(next) : x.seq \in ToSet(d) \/ d[Len(c)] < x.seq
<1>1. TypeOK /\ OrderInv /\ BornInv /\ next \in Nat /\ seq \in Nat
  BY StoreTypes, Limits DEF IInv, StoreInv, TypeOK
<1>2. /\ c \in Seq(Chunk) /\ Rising(c)
      /\ \A x \in ToSet(c) : x \in Wanted(next)
      /\ \A x \in Wanted(next) : x \in ToSet(c) \/ c[Len(c)].seq < x.seq
  BY <1>1, OutputIs
<1>3. \A x \in Wanted(next) : x \in Kept /\ x.seq >= next
  BY DEF Wanted, RawFrom, ColdFrom, Kept
<1>4. Len(c) \in Nat /\ Len(c) \in 1 .. Len(c)
  BY <1>2
<1>5. \A i \in 1 .. Len(c) : c[i] \in ToSet(c)
  BY <1>2, Elements
<1>6. \A i \in 1 .. Len(c) :
          c[i].seq \in 1 .. MaxSeq /\ c[i].seq \in Nat /\ next <= c[i].seq /\ c[i].seq <= seq
  <2>1. \A x \in Kept : x.seq \in 1 .. MaxSeq /\ x.seq \in Nat /\ x.seq <= seq
    BY <1>1, KeptAreChunks DEF BornInv
  <2>2. \A x \in ToSet(c) : x \in Kept /\ next <= x.seq
    BY <1>1, <1>2, <1>3, <2>1
  <2> QED
    BY <1>5, <2>1, <2>2
<1>7. /\ d \in Seq(1 .. MaxSeq) /\ Len(d) = Len(c)
      /\ \A i \in 1 .. Len(c) : d[i] = c[i].seq
  BY <1>4, <1>6 DEF Numbers
<1>8. \A i, j \in 1 .. Len(c) : i < j => d[i] < d[j]
  BY <1>2, <1>7 DEF Rising
<1>9. \A i \in 1 .. Len(c) : d[i] <= d[Len(c)]
  <2>1. \A i \in 1 .. Len(c) : i = Len(c) \/ i < Len(c)
    BY <1>4
  <2> QED
    BY <1>4, <1>6, <1>7, <1>8, <2>1
<1>10. \A x \in ToSet(c) : x.seq \in ToSet(d)
  <2>1. /\ \A x : x \in ToSet(c) <=> \E i \in 1 .. Len(c) : x = c[i]
        /\ \A x : x \in ToSet(d) <=> \E i \in 1 .. Len(d) : x = d[i]
    BY <1>2, <1>7, Elements
  <2> QED
    BY <1>7, <2>1
<1> QED
  BY <1>2, <1>3, <1>4, <1>6, <1>7, <1>8, <1>9, <1>10

\* The buffer does not change in a turn of the resync.
LEMMA StoreUnmoved ==
    ASSUME StoreInv, UNCHANGED <<clock, seq, bufferVars, flushVars, born, failed>>, TypeOK'
    PROVE  StoreInv'
<1>1. OrderInv' /\ BornInv' /\ BatchInv' /\ NewestInv' /\ Accounting' /\ LossExplained'
  BY DEF StoreInv, OrderInv, BornInv, BatchInv, BatchAtHead, NewestInv, Accounting,
     LossExplained, Kept, TooOld, bufferVars, flushVars
<1> QED
  BY <1>1 DEF StoreInv

\* A turn that finds nothing ends the resync: a number it passed over and nobody
\* holds was lost for a reason, and if nothing is left, everything is too old.
LEMMA ResyncEnds ==
    ASSUME IInv, ResyncBatch, OutputFromOffset(next) = <<>>
    PROVE  IInv'
<1>1. /\ phase = "running" /\ phase' = "done" /\ upTo' = seq
      /\ (noticed' <=> noticed \/ (next > 1 /\ OldestRetainedSeq > next))
      /\ noticed' \in BOOLEAN
      /\ UNCHANGED <<next, sent, from>>
      /\ UNCHANGED <<clock, seq, bufferVars, flushVars, born, failed>>
  BY DEF ResyncBatch
<1>2. /\ StoreInv /\ ResyncInv /\ TypeOK /\ OrderInv /\ BornInv /\ NewestInv /\ LossExplained
      /\ PassedOver
  BY DEF IInv, StoreInv, ResyncInv
<1>3. /\ seq \in Nat /\ next \in Nat /\ from \in Nat /\ from <= next /\ next <= seq + 1
      /\ seq \in 0 .. MaxSeq /\ from >= 1
      /\ clock \in Nat /\ MaxAge \in Nat /\ born \in Seq(Nat) /\ Len(born) = seq
  BY <1>2, StoreTypes, Limits DEF ResyncInv, TypeOK, BornInv
<1>4. Wanted(next) = {}
  BY <1>2, <1>3, OutputIs
<1>5. ASSUME next > 1, NEW x \in Kept PROVE x.seq < next
  <2>1. x.seq \in Nat
    BY <1>2, KeptAreChunks
  <2>2. ~(x.seq >= next)
    BY <1>4, <1>5 DEF Wanted, RawFrom, ColdFrom, Kept
  <2> QED
    BY <1>3, <2>1, <2>2
<1>6. ASSUME from > 1, NEW n \in from .. seq, n >= next
      PROVE  n \in failed \/ TooOld(born[n])
  <2>1. n \in 1 .. seq /\ next > 1
    BY <1>3, <1>6
  <2>2. ~ \E x \in Kept : x.seq = n
    BY <1>3, <1>5, <1>6, <2>1
  <2>3. ASSUME \A y \in Kept : n < y.seq PROVE TooOld(born[n])
    <3>1. Kept = {}
      <4>1. ASSUME NEW y \in Kept PROVE FALSE
        <5>1. n < y.seq /\ y.seq < next /\ y.seq \in Nat
          BY <1>2, <1>5, <2>1, <2>3, KeptAreChunks
        <5> QED
          BY <1>3, <1>6, <5>1
      <4> QED
        BY <4>1
    <3>2. hot = <<>>
      <4>1. hot \in Seq(Chunk)
        BY <1>2, StoreTypes
      <4> QED
        BY <3>1, <4>1, Elements DEF Kept
    <3>3. seq > 0 /\ seq \in 1 .. seq
      BY <1>3, <2>1
    <3>4. TooOld(born[seq])
      BY <1>2, <3>2, <3>3 DEF NewestInv
    <3>5. born[n] <= born[seq]
      BY <1>2, <2>1, <3>3 DEF BornInv
    <3>6. born[n] \in Nat /\ born[seq] \in Nat
      BY <1>3, <2>1, <3>3
    <3> QED
      BY <1>3, <3>4, <3>5, <3>6 DEF TooOld
  <2> QED
    BY <1>2, <2>1, <2>2, <2>3 DEF LossExplained
<1>7. GapReported'
  <2>1. SUFFICES ASSUME from > 1, NEW n \in from .. seq
                 PROVE  n \in ToSet(sent) \union failed \/ noticed' \/ TooOld(born[n])
    BY <1>1 DEF GapReported, TooOld
  <2>2. CASE n >= next
    BY <1>6, <2>1, <2>2
  <2>3. CASE ~(n >= next)
    <3>1. n \in from .. next - 1
      BY <1>3, <2>3
    <3>2. n \in ToSet(sent) \union failed \/ noticed \/ TooOld(born[n])
      BY <1>1, <1>2, <2>1, <3>1 DEF ResyncInv
    <3> QED
      BY <1>1, <3>2
  <2> QED
    BY <2>2, <2>3
<1>8. TypeOK'
  BY <1>1, <1>2, <1>3 DEF TypeOK, bufferVars, flushVars
<1>9. StoreInv'
  BY <1>1, <1>2, <1>8, StoreUnmoved
<1>10. ResyncInOrder' /\ PassedOver'
  BY <1>1, <1>2 DEF ResyncInv, ResyncInOrder, PassedOver, Kept, bufferVars
<1>11. upTo' <= seq'
  BY <1>1, <1>3
<1>12. /\ from' <= next' /\ next' <= seq' + 1
       /\ (sent' = <<>> => next' = from')
       /\ \A i \in 1 .. Len(sent') : from' <= sent'[i] /\ sent'[i] < next'
  <2>1. /\ from <= next /\ next <= seq + 1
        /\ (sent = <<>> => next = from)
        /\ \A i \in 1 .. Len(sent) : from <= sent[i] /\ sent[i] < next
    BY <1>2 DEF ResyncInv
  <2>2. from' = from /\ next' = next /\ sent' = sent /\ seq' = seq
    BY <1>1
  <2> QED
    BY <2>1, <2>2, Zenon
<1> QED
  BY <1>1, <1>7, <1>9, <1>10, <1>11, <1>12 DEF IInv, ResyncInv

\* A turn that sends chunks: what it passes over was lost, and if not for a reason of
\* its own, with all that was older than what is kept, which the client is told.
LEMMA ResyncGoesOn ==
    ASSUME IInv, ResyncBatch, OutputFromOffset(next) # <<>>
    PROVE  IInv'
<1> DEFINE c == OutputFromOffset(next)
           d == Numbers(c)
           L == d[Len(c)]
<1>1. /\ phase = "running" /\ phase' = "running" /\ upTo' = upTo
      /\ (noticed' <=> noticed \/ (next > 1 /\ OldestRetainedSeq > next))
      /\ noticed' \in BOOLEAN /\ from' = from
      /\ UNCHANGED <<clock, seq, bufferVars, flushVars, born, failed>>
  BY DEF ResyncBatch
<1>2. sent' = sent \o d /\ next' = c[Len(c)].seq + 1
  BY DEF ResyncBatch, Numbers, Last
<1>3. c # <<>>
  OBVIOUS
<1>4. /\ c \in Seq(Chunk) /\ Len(c) \in Nat /\ Len(c) \in 1 .. Len(c)
      /\ d \in Seq(1 .. MaxSeq) /\ Len(d) = Len(c)
      /\ \A i \in 1 .. Len(c) :
            /\ d[i] = c[i].seq /\ d[i] \in Nat
            /\ next <= d[i] /\ d[i] <= seq /\ d[i] <= L
      /\ \A i, j \in 1 .. Len(c) : i < j => d[i] < d[j]
      /\ \A x \in ToSet(c) : x \in Kept /\ x.seq \in ToSet(d)
      /\ \A x \in Wanted(next) : x.seq \in ToSet(d) \/ L < x.seq
  BY <1>3, BatchOfResync
<1>5. /\ StoreInv /\ ResyncInv /\ TypeOK /\ OrderInv /\ BornInv /\ LossExplained
      /\ PassedOver /\ ResyncInOrder
  BY DEF IInv, StoreInv, ResyncInv
<1>6. /\ seq \in Nat /\ next \in Nat /\ from \in Nat /\ from <= next /\ next <= seq + 1
      /\ seq \in 0 .. MaxSeq /\ from >= 1 /\ MaxSeq \in Nat /\ upTo <= seq
      /\ sent \in Seq(1 .. MaxSeq)
      /\ (sent = <<>> => next = from)
  BY <1>5, StoreTypes, Limits DEF ResyncInv, TypeOK
<1>7. L \in Nat /\ next <= L /\ L <= seq /\ L = c[Len(c)].seq
  BY <1>4
<1>8. ToSet(c) # {}
  BY <1>4, Elements
<1> HIDE DEF c, d, L
<1>9. /\ sent' \in Seq(1 .. MaxSeq) /\ Len(sent') = Len(sent) + Len(d)
      /\ \A x : x \in ToSet(sent') <=> x \in ToSet(sent) \/ x \in ToSet(d)
      /\ \A i \in 1 .. Len(sent) : sent'[i] = sent[i]
      /\ \A i \in 1 .. Len(sent') :
            \/ i \in 1 .. Len(sent) /\ sent'[i] = sent[i]
            \/ i - Len(sent) \in 1 .. Len(d) /\ sent'[i] = d[i - Len(sent)]
  <2>1. sent \in Seq(1 .. MaxSeq) /\ d \in Seq(1 .. MaxSeq)
    BY <1>4, <1>6
  <2>2. sent' \in Seq(1 .. MaxSeq) /\ Joins(sent, d, sent')
    BY <1>2, <2>1, Appended
  <2> QED
    BY <2>2 DEF Joins
<1>10. next' = L + 1
  BY <1>2, <1>7
<1>11. \A i \in 1 .. Len(sent) : from <= sent[i] /\ sent[i] < next /\ sent[i] \in Nat
  BY <1>5, <1>6 DEF ResyncInv
<1>12. ASSUME NEW i \in 1 .. Len(sent') PROVE from <= sent'[i] /\ sent'[i] < L + 1
  <2>1. CASE i \in 1 .. Len(sent) /\ sent'[i] = sent[i]
    <3>1. from <= sent[i] /\ sent[i] < L + 1
      BY <1>6, <1>7, <1>11, <2>1, SMTT(30)
    <3> QED
      BY <2>1, <3>1, Zenon
  <2>2. CASE i - Len(sent) \in 1 .. Len(d) /\ sent'[i] = d[i - Len(sent)]
    <3>1. /\ d[i - Len(sent)] \in Nat /\ next <= d[i - Len(sent)]
          /\ d[i - Len(sent)] <= L
      BY <1>4, <2>2
    <3>2. from <= d[i - Len(sent)] /\ d[i - Len(sent)] < L + 1
      BY <1>6, <1>7, <3>1, SMTT(30)
    <3> QED
      BY <2>2, <3>2, Zenon
  <2> QED
    BY <1>9, <2>1, <2>2
<1>13. ASSUME NEW i \in 1 .. Len(sent'), NEW j \in 1 .. Len(sent'), i < j
       PROVE  sent'[i] < sent'[j]
  <2>1. Len(sent) \in Nat /\ Len(d) \in Nat /\ Len(d) = Len(c)
    BY <1>4, <1>6
  <2>2. CASE i \in 1 .. Len(sent) /\ j \in 1 .. Len(sent)
    <3>1. sent[i] < sent[j]
      BY <1>5, <1>13, <2>2 DEF ResyncInOrder
    <3> QED
      BY <1>9, <2>2, <3>1
  <2>3. CASE i \in 1 .. Len(sent) /\ j \notin 1 .. Len(sent)
    <3>1. j - Len(sent) \in 1 .. Len(c) /\ sent'[j] = d[j - Len(sent)]
      BY <1>9, <2>1, <2>3
    <3>2. next <= d[j - Len(sent)] /\ d[j - Len(sent)] \in Nat
      BY <1>4, <3>1
    <3>3. sent'[i] = sent[i] /\ sent[i] < next /\ sent[i] \in Nat
      BY <1>9, <1>11, <2>3
    <3> QED
      BY <1>6, <3>1, <3>2, <3>3, SMTT(30)
  <2>4. CASE i \notin 1 .. Len(sent)
    <3>1. j \notin 1 .. Len(sent)
      BY <1>13, <2>1, <2>4
    <3>2. /\ i - Len(sent) \in 1 .. Len(c) /\ sent'[i] = d[i - Len(sent)]
          /\ j - Len(sent) \in 1 .. Len(c) /\ sent'[j] = d[j - Len(sent)]
      BY <1>9, <2>1, <2>4, <3>1
    <3>3. i - Len(sent) < j - Len(sent)
      BY <1>13, <2>1
    <3> QED
      BY <1>4, <3>2, <3>3
  <2> QED
    BY <2>2, <2>3, <2>4
<1>14. ResyncInOrder'
  BY <1>1, <1>12, <1>13 DEF ResyncInOrder
<1>15. ASSUME NEW x \in Kept, x.seq >= next, x.seq < L + 1,
              next = 1 => x.seq >= sent'[1]
       PROVE  x.seq \in ToSet(d)
  <2>1. x.seq \in Nat
    BY <1>5, KeptAreChunks
  <2>2. x \in Wanted(next)
    <3>1. CASE next > 1
      BY <1>15, <3>1 DEF Kept, Wanted, RawFrom, ColdFrom
    <3>2. CASE ~(next > 1)
      <4>1. next = 1 /\ sent = <<>>
        <5>1. next = 1 /\ from = 1
          BY <1>6, <3>2
        <5>2. \A i \in 1 .. Len(sent) : FALSE
          BY <1>11, <5>1
        <5> QED
          BY <1>6, <5>1, <5>2
      <4>2. sent'[1] = d[1] /\ d[1] = c[1].seq /\ 1 \in 1 .. Len(c)
        BY <1>2, <1>4, <4>1
      <4>3. c[1] \in RawFrom(next)
        <5>1. c[1] \in ToSet(c)
          BY <1>4, <4>2, Elements
        <5>2. c[1] \in Wanted(next)
          BY <1>5, <1>6, <5>1, OutputIs DEF c
        <5> QED
          BY <3>2, <5>2 DEF Wanted
      <4>4. x \notin ColdOf(segments)
        <5> SUFFICES ASSUME x \in ColdOf(segments) PROVE FALSE
          OBVIOUS
        <5>1. x.seq < c[1].seq
          BY <1>5, <4>3 DEF OrderInv, Older, RawFrom
        <5>2. c[1].seq \in Nat
          BY <1>4, <4>2
        <5> QED
          BY <1>15, <2>1, <4>1, <4>2, <5>1, <5>2
      <4> QED
        BY <1>15, <4>4 DEF Kept, Wanted, RawFrom
    <3> QED
      BY <3>1, <3>2
  <2> QED
    BY <1>4, <1>7, <1>15, <2>1, <2>2
<1>16. PassedOver'
  <2>1. SUFFICES ASSUME NEW x \in Kept, x.seq < L + 1,
                        x.seq >= (IF from > 1 THEN from ELSE sent'[1])
                 PROVE  x.seq \in ToSet(sent')
    BY <1>1, <1>10 DEF PassedOver, Kept, bufferVars
  <2>2. x.seq \in Nat /\ x.seq >= 1
    BY <1>5, KeptAreChunks
  <2>3. CASE x.seq < next
    <3>1. x.seq >= (IF from > 1 THEN from ELSE sent[1])
      <4>1. CASE from > 1
        BY <2>1, <4>1
      <4>2. CASE ~(from > 1)
        <5>1. sent # <<>>
          BY <1>6, <2>2, <2>3, <4>2
        <5>2. 1 \in 1 .. Len(sent)
          BY <1>6, <5>1
        <5>3. sent'[1] = sent[1]
          BY <1>9, <5>2
        <5> QED
          BY <2>1, <4>2, <5>3
      <4> QED
        BY <4>1, <4>2
    <3> QED
      BY <1>5, <1>9, <2>3, <3>1 DEF PassedOver
  <2>4. CASE ~(x.seq < next)
    <3>1. next = 1 => ~(from > 1)
      BY <1>6
    <3>2. x.seq >= next
      BY <1>6, <2>2, <2>4
    <3> QED
      BY <1>9, <1>15, <2>1, <3>1, <3>2
  <2> QED
    BY <2>3, <2>4
<1>17. ASSUME from > 1, NEW n \in from .. L
       PROVE  n \in ToSet(sent') \union failed \/ noticed' \/ TooOld(born[n])
  <2>1. n \in Nat /\ n \in 1 .. seq
    BY <1>6, <1>7
  <2>2. CASE n < next
    <3>1. n \in from .. next - 1
      BY <1>6, <2>1, <2>2
    <3>2. n \in ToSet(sent) \union failed \/ noticed \/ TooOld(born[n])
      BY <1>1, <1>5, <1>17, <3>1 DEF ResyncInv
    <3> QED
      BY <1>1, <1>9, <3>2
  <2>3. CASE ~(n < next)
    <3>1. n >= next /\ next > 1 /\ n < L + 1
      BY <1>6, <1>7, <1>17, <2>1, <2>3
    <3>2. CASE \E x \in Kept : x.seq = n
      <4>1. PICK x \in Kept : x.seq = n
        BY <3>2
      <4>2. next = 1 => x.seq >= sent'[1]
        BY <1>6, <3>1
      <4>3. n \in ToSet(d)
        BY <1>15, <3>1, <4>1, <4>2
      <4> QED
        BY <1>9, <4>3
    <3>3. CASE \A y \in Kept : n < y.seq
      <4>1. Kept # {}
        BY <1>4, <1>8
      <4>2. PICK x \in Kept : x.seq = OldestRetainedSeq
        BY <1>5, <4>1, OldestIsKept
      <4>3. n < OldestRetainedSeq /\ OldestRetainedSeq \in Nat
        BY <1>5, <3>3, <4>2, KeptAreChunks
      <4>4. OldestRetainedSeq > next
        BY <1>6, <2>1, <3>1, <4>3
      <4> QED
        BY <1>1, <3>1, <4>4
    <3> QED
      BY <1>5, <2>1, <3>2, <3>3 DEF LossExplained
  <2> QED
    BY <2>2, <2>3
<1>18. TypeOK'
  <2>1. next' \in 1 .. MaxSeq + 1
    <3>1. L + 1 \in 1 .. MaxSeq + 1
      BY <1>6, <1>7
    <3> QED
      BY <1>10, <3>1, Zenon
  <2> QED
    BY <1>1, <1>5, <1>9, <2>1 DEF TypeOK, bufferVars, flushVars
<1>19. StoreInv'
  BY <1>1, <1>5, <1>18, StoreUnmoved
<1>20. GapReported'
  BY <1>1 DEF GapReported
<1>21. from' <= next' /\ next' <= seq' + 1 /\ upTo' <= seq'
  <2>1. from <= L + 1 /\ L + 1 <= seq + 1
    BY <1>6, <1>7
  <2> QED
    BY <1>1, <1>6, <1>10, <2>1
<1>22. sent' # <<>>
  BY <1>4, <1>6, <1>9
<1>23. \A i \in 1 .. Len(sent') : from' <= sent'[i] /\ sent'[i] < next'
  BY <1>1, <1>10, <1>12
<1>24. \A n \in from' .. next' - 1 :
           from' > 1 => n \in ToSet(sent') \union failed' \/ noticed' \/ TooOld(born[n])'
  <2>1. (L + 1) - 1 = L
    BY <1>7
  <2> QED
    BY <1>1, <1>10, <1>17, <2>1 DEF TooOld
<1> QED
  BY <1>1, <1>14, <1>16, <1>19, <1>20, <1>21, <1>22, <1>23, <1>24 DEF IInv, ResyncInv

-----------------------------------------------------------------------------
(* The theorems.                                                           *)

LEMMA Starts ==
    ASSUME Init
    PROVE  IInv
<1>1. /\ clock = 0 /\ seq = 0 /\ hot = <<>> /\ hotBytes = 0 /\ pending = <<>>
      /\ pendingBytes = 0 /\ segments = <<>> /\ coldBytes = 0
      /\ flushers = [g \in Callers |-> 0] /\ flusher = "none" /\ batch = <<>>
      /\ phase = "idle" /\ from = 1 /\ next = 1 /\ sent = <<>>
      /\ noticed = FALSE /\ upTo = 0 /\ born = <<>> /\ failed = {}
  BY DEF Init
<1>2. TypeOK
  <2>1. /\ 0 \in 0 .. MaxClock /\ 0 \in 0 .. MaxSeq /\ 1 \in 1 .. MaxSeq + 1
        /\ 0 \in 0 .. MaxFlushers /\ \A S : <<>> \in Seq(S)
    BY Limits
  <2>2. [g \in Callers |-> 0] \in [Callers -> 0 .. MaxFlushers]
    BY <2>1
  <2> QED
    BY <1>1, <2>1, <2>2 DEF TypeOK
<1>3. ToSet(<<>>) = {} /\ ColdOf(<<>>) = {}
  BY DEF ToSet, ColdOf
<1>4. Kept = {}
  BY <1>1, <1>3 DEF Kept
<1>5. OrderInv
  BY <1>1, <1>3 DEF OrderInv, SegmentsInOrder, Rising, Older
<1>6. BornInv
  BY <1>1, <1>4 DEF BornInv
<1>7. BatchInv /\ NewestInv
  BY <1>1 DEF BatchInv, BatchAtHead, IsPrefix, NewestInv
<1>8. Accounting
  BY <1>1, BytesOfParts, SizeOfParts DEF Accounting
<1>9. LossExplained
  BY <1>1 DEF LossExplained
<1>10. ResyncInv
  BY <1>1, <1>4 DEF ResyncInv, ResyncInOrder, PassedOver, GapReported
<1> QED
  BY <1>2, <1>5, <1>6, <1>7, <1>8, <1>9, <1>10 DEF IInv, StoreInv

LEMMA Stutters ==
    ASSUME IInv, UNCHANGED vars
    PROVE  IInv'
<1>1. /\ UNCHANGED <<clock, seq, hot, hotBytes, pending, pendingBytes, segments, coldBytes>>
      /\ UNCHANGED <<flushers, flusher, batch, phase, from, next, sent, noticed, upTo>>
      /\ UNCHANGED <<born, failed>>
  BY DEF vars, bufferVars, flushVars, resyncVars
<1>2. TypeOK'
  BY <1>1 DEF IInv, StoreInv, TypeOK
<1>3. StoreInv'
  BY <1>1, <1>2, StoreUnmoved DEF IInv, bufferVars, flushVars
<1>4. ResyncInv'
  BY <1>1 DEF IInv, ResyncInv, ResyncInOrder, PassedOver, GapReported, Kept, TooOld
<1> QED
  BY <1>3, <1>4 DEF IInv

\* The invariant of the buffer and of a resync, of whatever size the limits are: the PTY
\* reader, the cleanup ticker, a compression that holds no lock and a resync interleave.
THEOREM BufferInvariant == Spec => []IInv
<1>1. Init => IInv
  BY Starts
<1>2. IInv /\ [Next]_vars => IInv'
  <2> SUFFICES ASSUME IInv, [Next]_vars PROVE IInv'
    OBVIOUS
  <2>1. CASE \E len \in 1 .. MaxLen : HandlePTYOutput(len)
    BY <2>1, PTYStep
  <2>2. CASE EvictStaleOutput
    BY <2>2, EvictStep
  <2>3. CASE \E g \in Callers : FlushBegin(g)
    BY <2>3, FlushBeginStep
  <2>4. CASE SomeFlushEnds
    BY <2>4, FlushEndStep DEF SomeFlushEnds
  <2>5. CASE FlushFails
    BY <2>5, FlushFailsStep
  <2>6. CASE Tick
    BY <2>6, TickStep
  <2>7. CASE \E last \in 0 .. seq : StartResync(last)
    BY <2>7, StartStep
  <2>8. CASE ResyncBatch
    <3>1. CASE OutputFromOffset(next) = <<>>
      BY <2>8, <3>1, ResyncEnds
    <3>2. CASE OutputFromOffset(next) # <<>>
      BY <2>8, <3>2, ResyncGoesOn
    <3> QED
      BY <3>1, <3>2
  <2>9. CASE UNCHANGED vars
    BY <2>9, Stutters
  <2> QED
    BY <2>1, <2>2, <2>3, <2>4, <2>5, <2>6, <2>7, <2>8, <2>9 DEF Next
<1> QED
  BY <1>1, <1>2, PTL DEF Spec

\* The buffer is what its fields say: the layers in order, the batch of flushColdPending
\* at the head of coldPending, the counters those of the layers.
THEOREM StoreConsistentHolds == Spec => []StoreConsistent
<1>1. IInv => StoreConsistent
  BY LayersRise DEF IInv, StoreInv, BatchInv, StoreConsistent
<1> QED
  BY <1>1, BufferInvariant, PTL

\* A chunk leaves the buffer only because it aged out, its compression failed or the
\* size limit of evictColdLocked took it and all that was older.
THEOREM NothingVanishesHolds == Spec => []NothingVanishes
<1>1. IInv => NothingVanishes
  BY LossIsExplained DEF IInv, StoreInv
<1> QED
  BY <1>1, BufferInvariant, PTL

\* What the loop of handleConn sends from outputFromOffset is in order, complete for what
\* is there, and a gap the size limit left is reported.
THEOREM ResyncExactHolds == Spec => []ResyncExact
<1>1. IInv => ResyncExact
  BY NothingIsPassedOver DEF IInv, StoreInv, ResyncInv, ResyncExact
<1> QED
  BY <1>1, BufferInvariant, PTL
==============================================================================
