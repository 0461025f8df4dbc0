------------------------------ MODULE TermModes ------------------------------
(***************************************************************************)
(* Terminal modes across attach, detach and upgrade.  An app switches      *)
(* modes (alternate screen, cursor, keypad) with escape sequences in its   *)
(* output; the session reads the output in chunks that may cut a sequence, *)
(* keeps the last ones and tracks the modes (termui.ModeTracker); a client *)
(* that attaches is given the modes and the kept chunks, and undoes the    *)
(* modes when it leaves.  The client also guesses whether its terminal is  *)
(* on the alternate screen (termui.AltScreenTracker, trackScreen).         *)
(***************************************************************************)
EXTENDS Naturals, Sequences

CONSTANTS MaxWrites,   \* bound: escape sequences the app writes
          MaxChunks,   \* bound: chunks read
          MaxAttach,   \* bound: clients, one after the other
          MaxHandovers,\* bound: upgrades of the server
          Keep         \* chunks kept (outputChunks)

ASSUME TermModesConstants ==
    {MaxWrites, MaxChunks, MaxAttach, MaxHandovers, Keep} \subseteq Nat /\ Keep > 0

\* Symbols of the output.  A mode's number is one symbol, as is ";"; "x" is any other
\* character and, in a sequence, a final byte.
Modes == {"alt", "cursor"}
Final == {"[", "h", "l", "c", "x"}

\* What the app writes: modes set and reset, keypad modes, a full reset, a sequence
\* that is no mode, one that is cancelled, and one that another interrupts.
Writes ==
    {<<"E", "[", "?", "alt", ";", "cursor", "h">>, <<"E", "[", "?", "alt", "l">>,
     <<"E", "=">>, <<"E", "c">>, <<"E", "[", "x">>,
     <<"E", "[", "?", "cursor", "CAN", "h">>, <<"E", "[", "E", "[", "?", "alt", "h">>}

VARIABLES
    pending, \* output of the app that nobody has read
    writes,  \* number of sequences written
    last,    \* number of the last chunk
    kept,    \* the last chunks, at most Keep (outputChunks)
    tracker, \* the session's ModeTracker
    real,    \* a terminal that has seen every chunk
    settled, \* number of the last chunk that no sequence runs beyond
    client,  \* "none", "attaching", "live" or "left"
    modes,   \* the modes the client was given with ATTACHED
    covered, \* number of the last chunk they stand for
    term,    \* the client's terminal
    altTracker, \* its AltScreenTracker
    shown,   \* number of the last chunk it has shown
    gap,     \* chunks were missing after what it has shown, or after the modes it was given
    cut,     \* an upgrade has cut a sequence
    attaches, handovers

sessionVars == <<pending, writes, last, kept, tracker, real, settled>>
clientVars == <<client, modes, covered, term, altTracker, shown, gap>>
modesVars == <<sessionVars, clientVars, cut, attaches, handovers>>

-----------------------------------------------------------------------------
(* The parsers.                                                            *)

\* on: the modes that differ from their initial value, and "keypad".
Fresh == [scan |-> "ground", params |-> {}, on |-> {}]

\* The cursor is on at first; the other modes are off.
SetModes(on, nums, set) ==
    LET differ == {m \in nums : (m = "cursor") # set}
    IN  (on \ (nums \ differ)) \union differ

\* A terminal's reading of one symbol.
TerminalByte(t, b) ==
    IF b = "E" THEN [t EXCEPT !.scan = "esc"]
    ELSE IF b = "CAN" THEN [t EXCEPT !.scan = "ground"]
    ELSE CASE t.scan = "esc" ->
                [t EXCEPT !.scan = IF b = "[" THEN "csi" ELSE "ground",
                          !.on = CASE b = "c" -> {}
                                   [] b = "=" -> @ \union {"keypad"}
                                   [] b = ">" -> @ \ {"keypad"}
                                   [] OTHER -> @]
           [] t.scan = "csi" /\ b = "?" -> [t EXCEPT !.scan = "private", !.params = {}]
           [] t.scan = "ignore" \/ (t.scan = "csi" /\ b # "?") ->
                [t EXCEPT !.scan = IF b \in Final THEN "ground" ELSE "ignore"]
           [] t.scan = "private" /\ b \in Modes -> [t EXCEPT !.params = @ \union {b}]
           [] t.scan = "private" /\ b \in Final ->
                [t EXCEPT !.scan = "ground",
                          !.on = IF b \in {"h", "l"} THEN SetModes(@, t.params, b = "h") ELSE @]
           [] OTHER -> t

TerminalReads(t, bytes) ==
    LET after[n \in 0 .. Len(bytes)] ==
          IF n = 0 THEN t ELSE TerminalByte(after[n - 1], bytes[n])
    IN  after[Len(bytes)]

\* Mutant: the fast path takes whatever follows "ESC [" for a sequence to skip.
SkipsAny(bytes, i) == i + 2 <= Len(bytes) /\ bytes[i + 1] = "[" /\ bytes[i + 2] # "?"

\* ModeTracker's fast path: "ESC [" and one more byte are skipped at once.
Skips(bytes, i) ==
    /\ i + 2 <= Len(bytes) /\ bytes[i + 1] = "["
    /\ bytes[i + 2] \notin {"?", "E", "CAN"}

\* One step of ModeTracker.Scan, at byte i; a sequence that is no mode is left at once.
\* skip: bytes that the fast path has still to pass over.
ModeStep(s, bytes, i) ==
    IF s.skip > 0 THEN [s EXCEPT !.skip = @ - 1]
    ELSE IF s.t.scan = "ground"
         THEN IF bytes[i] # "E" THEN s
              ELSE IF Skips(bytes, i) THEN [s EXCEPT !.skip = 2]
              ELSE [s EXCEPT !.t.scan = "esc"]
    ELSE IF s.t.scan = "csi" /\ bytes[i] \notin {"?", "E"}
         THEN [s EXCEPT !.t.scan = "ground"]
    ELSE [s EXCEPT !.t = TerminalByte(@, bytes[i])]

\* ModeTracker.Scan of one chunk.
ModeScan(t, bytes) ==
    LET after[n \in 0 .. Len(bytes)] ==
          IF n = 0 THEN [t |-> t, skip |-> 0] ELSE ModeStep(after[n - 1], bytes, n)
    IN  after[Len(bytes)].t

\* The sequence that sets (h) or resets (l) mode m.
Csi(m, final) == <<"E", "[", "?", m, final>>

\* ModeTracker.Restore: a sequence for each mode that differs, then the keypad's.
Restore(t) ==
    LET Differing(m, sequence) == IF m \in t.on THEN sequence ELSE <<>>
    IN  Differing("alt", Csi("alt", "h")) \o Differing("cursor", Csi("cursor", "l"))
            \o Differing("keypad", <<"E", "=">>)

\* terminalModeReset: every mode, set or not.
TerminalModeReset == Csi("alt", "l") \o <<"E", ">">> \o Csi("cursor", "h")

\* AltScreenTracker.Scan of one symbol.
AltByte(t, b) ==
    IF b = "E" THEN [t EXCEPT !.scan = "esc"]
    ELSE IF b = "CAN" THEN [t EXCEPT !.scan = "ground"]
    ELSE CASE t.scan = "esc" ->
                [t EXCEPT !.scan = IF b = "[" THEN "csi" ELSE "ground",
                          !.state = IF b = "c" THEN "main" ELSE @]
           [] t.scan = "csi" /\ b = "?" -> [t EXCEPT !.scan = "private", !.hit = FALSE]
           [] t.scan = "ignore" \/ (t.scan = "csi" /\ b # "?") ->
                [t EXCEPT !.scan = IF b \in Final THEN "ground" ELSE "ignore"]
           [] t.scan = "private" /\ b = "alt" -> [t EXCEPT !.hit = TRUE]
           [] t.scan = "private" /\ b \in Final ->
                [t EXCEPT !.scan = "ground",
                          !.state = CASE t.hit /\ b = "h" -> "alt"
                                      [] t.hit /\ b = "l" -> "main"
                                      [] OTHER -> @]
           [] OTHER -> t

AltScan(t, bytes) ==
    LET after[n \in 0 .. Len(bytes)] ==
          IF n = 0 THEN t ELSE AltByte(after[n - 1], bytes[n])
    IN  after[Len(bytes)]

NewAlt(state) == [scan |-> "ground", hit |-> FALSE, state |-> state]

\* trackScreen: chunk n is shown after frontier.
TrackScreen(t, n, frontier, bytes) ==
    AltScan(CASE n = 1 -> NewAlt("main")
              [] n # 1 /\ n # frontier + 1 -> [t EXCEPT !.state = "unknown", !.scan = "ground"]
              [] OTHER -> t,
            bytes)

-----------------------------------------------------------------------------

ModesInit ==
    /\ pending = <<>> /\ writes = 0 /\ last = 0 /\ kept = <<>>
    /\ tracker = Fresh /\ real = Fresh /\ settled = 0
    /\ client = "none" /\ modes = <<>> /\ covered = 0 /\ term = Fresh
    /\ altTracker = NewAlt("unknown") /\ shown = 0 /\ gap = FALSE
    /\ cut = FALSE /\ attaches = 0 /\ handovers = 0

AppWrites ==
    /\ writes < MaxWrites
    /\ \E w \in Writes : pending' = pending \o w
    /\ writes' = writes + 1
    /\ UNCHANGED <<last, kept, tracker, real, settled, clientVars, cut, attaches, handovers>>

\* handlePTYOutput: a chunk is kept and scanned.
HandlePTYOutput ==
    /\ last < MaxChunks
    /\ \E n \in 1 .. Len(pending) : \E data \in {SubSeq(pending, 1, n)} :
        /\ kept' = LET all == Append(kept, data)
                   IN  SubSeq(all, IF Len(all) > Keep THEN 2 ELSE 1, Len(all))
        /\ tracker' = ModeScan(tracker, data)
        /\ real' = TerminalReads(real, data)
        /\ settled' = IF real'.scan = "ground" THEN last + 1 ELSE settled
        /\ pending' = SubSeq(pending, n + 1, Len(pending))
    /\ last' = last + 1
    /\ UNCHANGED <<writes, clientVars, cut, attaches, handovers>>

\* ATTACHED carries TermModeRestore.
Attach ==
    /\ client \in {"none", "left"} /\ attaches < MaxAttach
    /\ attaches' = attaches + 1
    /\ client' = "attaching" /\ modes' = Restore(tracker) /\ covered' = settled
    /\ term' = Fresh /\ altTracker' = NewAlt("unknown") /\ shown' = 0 /\ gap' = FALSE
    /\ UNCHANGED <<sessionVars, cut, handovers>>

\* The client writes the modes to its terminal before any output.
ApplyModes ==
    /\ client = "attaching"
    /\ client' = "live"
    /\ term' = TerminalReads(term, modes)
    /\ altTracker' = AltScan(altTracker, modes)
    /\ UNCHANGED <<sessionVars, modes, covered, shown, gap, cut, attaches, handovers>>

\* Mutant: output is written after the client has left.
CanRenderAlways == client \in {"live", "left"}

\* outputStopped is set by restoreTerminalModes.
CanRender == client = "live"

\* The next chunk is shown, or the oldest one kept if it is no longer there.
Render ==
    /\ CanRender /\ shown < last
    /\ \E oldest \in {last - Len(kept) + 1} :
       \E n \in {IF oldest > shown + 1 THEN oldest ELSE shown + 1} :
       \E data \in {kept[n - oldest + 1]} :
        /\ term' = TerminalReads(term, data)
        /\ altTracker' = TrackScreen(altTracker, n, shown, data)
        /\ shown' = n
        /\ gap' = (gap \/ (n > shown + 1 /\ (shown > 0 \/ n > covered + 1)))
    /\ UNCHANGED <<sessionVars, client, modes, covered, cut, attaches, handovers>>

\* restoreTerminalModes, at a detach, a kill or the end of the session.
Leave ==
    /\ client = "live"
    /\ client' = "left"
    /\ term' = TerminalReads(term, TerminalModeReset)
    /\ UNCHANGED <<sessionVars, modes, covered, altTracker, shown, gap, cut, attaches, handovers>>

\* WriteHandover stores Restore(), and restoreSession scans it anew: where the old
\* tracker stood in a sequence is lost.
HandedOver(t) == ModeScan(Fresh, Restore(t))

Handover ==
    /\ handovers < MaxHandovers
    /\ handovers' = handovers + 1
    /\ tracker' = HandedOver(tracker)
    /\ cut' = (cut \/ tracker.scan # "ground")
    /\ UNCHANGED <<pending, writes, last, kept, real, settled, clientVars, attaches>>

ModesNext == AppWrites \/ HandlePTYOutput \/ Attach \/ ApplyModes \/ Render \/ Leave \/ Handover

ModesSpec == ModesInit /\ [][ModesNext]_modesVars

-----------------------------------------------------------------------------
(* Properties.                                                             *)

ModesTypeOK ==
    /\ Len(kept) <= Keep /\ last \in 0 .. MaxChunks /\ shown \in 0 .. MaxChunks
    /\ \A t \in {tracker, real, term} : t.on \subseteq Modes \union {"keypad"}
    /\ altTracker.state \in {"unknown", "main", "alt"}
    /\ client \in {"none", "attaching", "live", "left"}

\* The tracker, which skips what it can and is restarted from its own Restore by an
\* upgrade, knows what a terminal that has seen every byte knows, however the output
\* is cut into chunks - unless an upgrade falls within a sequence.
TrackerExact == ~cut => tracker.on = real.on

\* A client that has shown everything has the app's modes on its terminal, though it
\* attached long after they were set, while the ring replays what it still has.
AttachedAgrees ==
    client = "live" /\ shown = last /\ ~gap /\ ~cut => term.on = real.on

\* Whatever the client thinks of the screen the app is on, if it thinks anything, is so
\* once it has shown all there is, gaps or not (a replay from the first chunk on passes
\* through states that differ).
ScreenStateTrue ==
    client = "live" /\ shown = last =>
        /\ altTracker.state = "alt" => "alt" \in real.on
        /\ altTracker.state = "main" => "alt" \notin real.on

\* A client leaves the terminal as it found it, and it stays so.
LeavesCleanTerminal == client = "left" => term.on = {}

\* The comment at TermModeRestore: the modes the apps have set; after an upgrade in
\* the middle of a sequence the session does not know the mode it sets.
ModesSurviveUpgrade == tracker.on = real.on

\* The comment at termModes in Session: a client that comes back is given the modes
\* that the replay no longer has.  One that reconnects after a gap is not.
ModesSurviveGap == client = "live" /\ shown = last /\ ~cut => term.on = real.on

\* The session knows the app's modes and gives them to those who attach.
ModesKnown == ModesTypeOK /\ TrackerExact /\ AttachedAgrees

\* The client knows its own terminal while it is there, and leaves it clean.
TerminalKnown == ScreenStateTrue /\ LeavesCleanTerminal
=============================================================================
