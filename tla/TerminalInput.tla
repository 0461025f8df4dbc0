---------------------------- MODULE TerminalInput ----------------------------
(***************************************************************************)
(* The client's keyboard loop (handleStdin in cmd/tezzer/input.go): bytes  *)
(* read from stdin are grouped into packets.  Plain input is sent when a   *)
(* read has been worked through, but never cut within a UTF-8 character;   *)
(* an escape sequence is collected until it is complete; the bytes after   *)
(* the prefix key (Ctrl-^) are commands.  One goroutine handles whole      *)
(* reads and the flush timer, so each is one step.                         *)
(***************************************************************************)
EXTENDS Naturals, Sequences, FiniteSets, SequencesExt, Functions

CONSTANTS MaxTyped, \* bound: bytes typed
          MaxBatch, \* plain bytes that are sent at once (512)
          MaxEsc    \* length at which an escape sequence is sent as it is (32)

ASSUME TerminalInputConstants == {MaxTyped, MaxBatch, MaxEsc} \subseteq Nat \ {0}

\* "A" stands for letters, "[" for "[" and "O", "L" and "M" for the first bytes of
\* a character of two and three bytes, "C" for the others, "E" for ESC, "P" for the
\* prefix key and "." for the key that detaches.
Keys == {"A", "[", "L", "M", "C", "E", "P", "."}

\* A byte, at its place among those typed.
Byte == [pos : 1 .. MaxTyped, key : Keys]

VARIABLES
    typed,    \* bytes typed so far
    esc,      \* escBatchBuf; escBatchActive while it is not empty
    batch,    \* inputBatchBuf
    prefixed, \* escapePressed
    packets,  \* what SendInput has been given, in order
    dropped,  \* bytes given to it while it failed
    gone,     \* places of bytes that were commands, or pending at the end
    ended,    \* "", or why the client ends: "detach", "eof" or "error"
    armed,    \* the flush timer runs
    link,     \* SendInput succeeds
    readOnly  \* -peek

loop == [esc |-> esc, batch |-> batch, prefixed |-> prefixed, packets |-> packets,
         dropped |-> dropped, gone |-> gone, ended |-> ended]
inputVars == <<typed, esc, batch, prefixed, packets, dropped, gone, ended, armed, link, readOnly>>

InputInit ==
    /\ typed = 0 /\ esc = <<>> /\ batch = <<>> /\ prefixed = FALSE
    /\ packets = <<>> /\ dropped = {} /\ gone = {} /\ ended = ""
    /\ armed = FALSE /\ link = TRUE
    /\ readOnly \in BOOLEAN

-----------------------------------------------------------------------------
(* Operators on the state of the loop.                                     *)

Places(bytes) == {bytes[i].pos : i \in DOMAIN bytes}

\* sendInputBytes, with noteSendResult.
SendInputBytes(st, bytes) ==
    IF readOnly THEN [st EXCEPT !.gone = @ \union Places(bytes)]
    ELSE IF link THEN [st EXCEPT !.packets = Append(@, bytes)]
    ELSE [st EXCEPT !.dropped = @ \union Places(bytes)]

CharLength == [k \in {"L", "M"} |-> IF k = "L" THEN 2 ELSE 3]

\* How many bytes at the end begin a character that is not complete; at most three
\* are looked at.
Utf8IncompleteTrail(bytes) ==
    LET n == Len(bytes)
        begins(i) == /\ bytes[n + 1 - i].key \in {"L", "M"}
                     /\ \A j \in 1 .. i - 1 : bytes[n + 1 - j].key = "C"
        cut == {i \in 1 .. n : i <= 3 /\ begins(i)}
    IN  IF \E i \in cut : i < CharLength[bytes[n + 1 - i].key]
        THEN CHOOSE i \in cut : TRUE ELSE 0

\* Mutant: a character may be cut.
FlushInputBatchWhole(st) ==
    IF st.batch = <<>> THEN st
    ELSE [SendInputBytes(st, st.batch) EXCEPT !.batch = <<>>]

FlushInputBatch(st) ==
    LET n == Len(st.batch)
        keep == Utf8IncompleteTrail(st.batch)
        send == SubSeq(st.batch, 1, n - keep)
    IN  [IF send = <<>> THEN st ELSE SendInputBytes(st, send)
            EXCEPT !.batch = SubSeq(@, n - keep + 1, n)]

FlushEscBatch(st) ==
    IF st.esc = <<>> THEN st
    ELSE [SendInputBytes(st, st.esc) EXCEPT !.esc = <<>>]

\* shouldFlushEscBuf: too long, or "ESC [" has its final letter.
ShouldFlushEscBuf(bytes) ==
    LET n == Len(bytes)
    IN  \/ n >= MaxEsc
        \/ n >= 3 /\ bytes[2].key = "[" /\ bytes[n].key = "A"

\* The byte after the prefix key: detach; the prefix key itself, sent at once; or a
\* command for the client (and unknown ones), which sends no input.
Command(st, b) ==
    LET s == [st EXCEPT !.prefixed = FALSE]
    IN  CASE b.key = "." -> [s EXCEPT !.ended = "detach", !.gone = @ \union {b.pos}]
          [] b.key = "P" -> LET t == SendInputBytes(s, <<b>>)
                            IN  IF link \/ readOnly THEN t ELSE [t EXCEPT !.ended = "error"]
          [] OTHER -> [s EXCEPT !.gone = @ \union {b.pos}]

StartEsc(st, b) == [FlushInputBatch(FlushEscBatch(st)) EXCEPT !.esc = <<b>>]

\* One byte of a read.  The batch is checked for its size at the end of a run of
\* plain bytes, which matters only before the prefix key: ESC and the end of the
\* read send it in any case.
ProcessByte(st, b) ==
    IF st.ended # "" THEN [st EXCEPT !.gone = @ \union {b.pos}]
    ELSE IF st.prefixed THEN Command(st, b)
    ELSE IF b.key = "P"
         THEN [IF Len(st.batch) >= MaxBatch THEN FlushInputBatch(st) ELSE st
                  EXCEPT !.prefixed = TRUE, !.gone = @ \union {b.pos}]
    ELSE IF b.key = "E" THEN StartEsc(st, b)
    ELSE IF st.esc # <<>>
         THEN LET more == [st EXCEPT !.esc = Append(@, b)]
              IN  IF ShouldFlushEscBuf(more.esc) THEN FlushEscBatch(more) ELSE more
    ELSE [st EXCEPT !.batch = Append(@, b)]

\* The bytes of a read, one after the other.
ProcessRead(st, bytes) ==
    LET after[n \in 0 .. Len(bytes)] ==
          IF n = 0 THEN st ELSE ProcessByte(after[n - 1], bytes[n])
    IN  after[Len(bytes)]

\* Mutant: the timer is armed for plain input only.
RecheckBatch(st) == st.ended = "" /\ st.batch # <<>>

\* recheckFlushTimer; the loop has returned once the client ends.
RecheckFlushTimer(st) == st.ended = "" /\ (st.esc # <<>> \/ st.batch # <<>>)

SetLoop(st) ==
    /\ esc' = st.esc /\ batch' = st.batch /\ prefixed' = st.prefixed
    /\ packets' = st.packets /\ dropped' = st.dropped /\ gone' = st.gone
    /\ ended' = st.ended
    /\ armed' = RecheckFlushTimer(st)

-----------------------------------------------------------------------------

\* A read returns the keys typed since the last one.
Read(keys) ==
    /\ ended = "" /\ typed + Len(keys) <= MaxTyped
    /\ \E bytes \in {[i \in DOMAIN keys |-> [pos |-> typed + i, key |-> keys[i]]]} :
       \E st \in {ProcessRead(loop, bytes)} :
          SetLoop(IF st.ended = "" THEN FlushInputBatch(st) ELSE st)
    /\ typed' = typed + Len(keys)
    /\ UNCHANGED <<link, readOnly>>

TimerFires ==
    /\ ended = "" /\ armed
    /\ \E st \in {FlushInputBatch(FlushEscBatch(loop))} : SetLoop(st)
    /\ UNCHANGED <<typed, link, readOnly>>

StdinEnds ==
    /\ ended = ""
    /\ ended' = "eof" /\ armed' = FALSE
    /\ UNCHANGED <<typed, esc, batch, prefixed, packets, dropped, gone, link, readOnly>>

LinkChanges ==
    /\ ended = ""
    /\ link' = ~link
    /\ UNCHANGED <<typed, esc, batch, prefixed, packets, dropped, gone, ended, armed, readOnly>>

InputNext ==
    \/ \E n \in 1 .. MaxTyped : n <= MaxTyped - typed /\ \E keys \in [1 .. n -> Keys] : Read(keys)
    \/ TimerFires \/ StdinEnds \/ LinkChanges

InputSpec == InputInit /\ [][InputNext]_inputVars

\* A timer that is armed fires.
InputFairSpec == InputSpec /\ WF_inputVars(TimerFires)

-----------------------------------------------------------------------------
(* Properties.                                                             *)

Sent == FlattenSeq(packets)

InputTypeOK ==
    /\ typed \in 0 .. MaxTyped
    /\ Range(esc) \union Range(batch) \union Range(Sent) \subseteq Byte
    /\ dropped \union gone \subseteq 1 .. MaxTyped
    /\ {prefixed, armed, link, readOnly} \subseteq BOOLEAN
    /\ ended \in {"", "detach", "eof", "error"}

\* Every byte typed is sent, dropped, pending or a command, and only one of these.
EachByteOnce ==
    LET all == Sent \o esc \o batch
    IN  /\ Places(all) \union dropped \union gone = 1 .. typed
        /\ Cardinality(Places(all)) = Len(all)
        /\ Places(all) \intersect (dropped \union gone) = {} /\ dropped \intersect gone = {}

\* Bytes b and c of the stream sent are out of order only where a doubled prefix key,
\* which is sent at once, overtakes what is pending, or where what was overtaken
\* belongs to a UTF-8 character that was not complete when an ESC was typed.
InOrder ==
    \A i, j \in DOMAIN Sent : i < j /\ Sent[i].pos > Sent[j].pos =>
          Sent[i].key = "P" \/ Sent[j].key \in {"L", "M", "C"}

\* A character typed as plain input is not cut by a packet boundary, however the
\* reads, the timer and the size of the batch fall (the comment in flushInputBatch).
WholeCharacters ==
    \A q, r \in DOMAIN packets : \A i \in DOMAIN packets[q] : \A j \in DOMAIN packets[r] :
        LET b == packets[q][i]
            c == packets[r][j]
            sameCharacter ==
                /\ b.key \in {"L", "M"}
                /\ c.pos \in b.pos + 1 .. b.pos + CharLength[b.key] - 1
                /\ \A p \in b.pos + 1 .. c.pos : [pos |-> p, key |-> "C"] \in Range(Sent)
            plain == "E" \notin {packets[q][1].key, packets[r][1].key}
        IN  sameCharacter /\ plain => q = r

\* What is typed does not stay in the client: time and again all of it is sent or
\* dropped, though nothing more is typed, but for the beginning of a character.
NothingLingers ==
    []<>(\/ ended # ""
         \/ Places(esc \o batch) \subseteq
               Places(SubSeq(batch, Len(batch) + 1 - Utf8IncompleteTrail(batch), Len(batch))))

\* README.md:15-17: a dropped connection does not end the client.  It does when the
\* doubled prefix key is typed while the connection is down.
LinkLossIsSurvived == [][ended' # "error"]_inputVars

\* The comment in handleStdin: what was typed before an ESC is sent before it.
BeforeEsc ==
    \A i, j \in DOMAIN Sent : i < j /\ Sent[i].pos > Sent[j].pos => Sent[i].key # "E"

\* The comment in handleStdin: without a batch the timer stands still.  It fires every
\* 2 ms, for ever, while the first byte of a character is held back.
QuietWhenIdle == []<>(~armed \/ ended # "")

\* However reads, escape sequences, the timer and the connection fall, what is sent is
\* what was typed: each byte once, in order but for the two cases named above, and no
\* character cut.
PacketsAsTyped == InputTypeOK /\ EachByteOnce /\ InOrder /\ WholeCharacters
=============================================================================
