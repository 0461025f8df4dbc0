------------------------------ MODULE Handover ------------------------------
(***************************************************************************)
(* The zero-downtime restart (SIGUSR2): internal/session/handover.go and   *)
(* cmd/tezzerd/handover.go.  The old process takes the manager's lock and  *)
(* then each session's, copies every session into the state file, closes   *)
(* the clients' connections and execs the new binary with all locks held;  *)
(* the new process restores the sessions one by one while children keep    *)
(* writing to their terminals and clients reconnect to inherited sockets.  *)
(* A failure before the exec undoes all of it.  Delivery to a client is    *)
(* what OutputDelivery promises: chunks in order, from its last offset on. *)
(* Eviction is OutputBuffer's; here the retention limits are not reached.  *)
(***************************************************************************)
EXTENDS Naturals, Sequences, FiniteSets, SequencesExt

CONSTANTS Sessions,    \* sessions of the server, all started
          Modes,       \* subset of {"shared", "own"}: one UDP socket for all
                       \* sessions (--udp-port), or one each
          MaxOut,      \* bound: session -> pieces of output its child writes
          MaxHot,      \* chunks kept raw before they wait for compression
          MaxUpgrades  \* bound: SIGUSR2 signals

ASSUME HandoverConstants ==
    /\ Modes \subseteq {"shared", "own"} /\ Modes # {}
    /\ MaxOut \in [Sessions -> Nat]
    /\ {MaxHot, MaxUpgrades} \subseteq Nat

VARIABLES
    mode,      \* which of Modes this server runs in
    phase,     \* "up"; "locking", "sealed": in performHandover; "restoring";
               \* "fresh": the state file was unusable
    upgrades,  \* signals received
    held,      \* sessions whose lock WriteHandover holds
    file,      \* the state file: session -> its copy
    accepting, \* "shared" mode: the socket is served by this process
    table,     \* Manager.sessions
    layers,    \* session -> the three layers of its output and its seq
    batch,     \* session -> head of coldPending under compression (its length)
    written,   \* session -> pieces the child has written to the terminal
    read,      \* session -> pieces read from the terminal
    inHand,    \* session -> the piece read and not yet appended, or 0
    ptyClosed, \* sessions whose PTY reader has ended
    child,     \* session -> "running", "exited" (a zombie) or "reaped"
    reaper,    \* sessions whose child a goroutine waits for
    conn,      \* session -> its client: "live", "stale" (the process behind the
               \* connection is gone), "down", or "told" (the session is gone)
    last,      \* session -> newest chunk its client has shown
    log,       \* history: session -> the piece appended under each number
    skipped    \* history: ended sessions, or children still waited for, not in the file

procVars == <<mode, phase, upgrades, held, file, accepting, table, skipped>>
outVars == <<layers, batch, read, inHand, log>>
childVars == <<written, ptyClosed, child, reaper>>
clientVars == <<conn, last>>
vars == <<procVars, outVars, childVars, clientVars>>

Chunks(s) == [seq : 1 .. MaxOut[s], piece : 1 .. MaxOut[s]]
NoLayers == [seq |-> 0, cold |-> <<>>, pending |-> <<>>, hot |-> <<>>]

Init ==
    /\ mode \in Modes
    /\ phase = "up" /\ upgrades = 0 /\ held = {} /\ file = <<>> /\ accepting = TRUE
    /\ table = Sessions
    /\ layers = [s \in Sessions |-> NoLayers] /\ batch = [s \in Sessions |-> 0]
    /\ written = [s \in Sessions |-> 0] /\ read = [s \in Sessions |-> 0]
    /\ inHand = [s \in Sessions |-> 0]
    /\ ptyClosed = {} /\ reaper = {} /\ child = [s \in Sessions |-> "running"]
    /\ conn = [s \in Sessions |-> "live"] /\ last = [s \in Sessions |-> 0]
    /\ log = [s \in Sessions |-> <<>>] /\ skipped = {}

-----------------------------------------------------------------------------
(* A session at work.                                                      *)

\* The child writes to its terminal; the kernel keeps it across the exec.
ChildWrites(s) ==
    /\ child[s] = "running" /\ written[s] < MaxOut[s]
    /\ written' = [written EXCEPT ![s] = @ + 1]
    /\ UNCHANGED <<procVars, outVars, ptyClosed, child, reaper, clientVars>>

ChildExits(s) ==
    /\ child[s] = "running"
    /\ child' = [child EXCEPT ![s] = "exited"]
    /\ UNCHANGED <<procVars, outVars, written, ptyClosed, reaper, clientVars>>

\* ptyReader's Read: no lock is needed.
PTYRead(s) ==
    /\ s \in table \ ptyClosed
    /\ inHand[s] = 0 /\ read[s] < written[s]
    /\ read' = [read EXCEPT ![s] = @ + 1]
    /\ inHand' = [inHand EXCEPT ![s] = read'[s]]
    /\ UNCHANGED <<procVars, layers, batch, log, childVars, clientVars>>

\* The part of handlePTYOutput under the session's lock, which is free if free:
\* number and append; what exceeds the hot layer waits for compression.
AppendOutput(s, free) ==
    /\ inHand[s] # 0 /\ free
    /\ LET n == layers[s].seq + 1
           all == Append(layers[s].hot, [seq |-> n, piece |-> inHand[s]])
           k == IF Len(all) > MaxHot THEN Len(all) - MaxHot ELSE 0
       IN  /\ layers' = [layers EXCEPT ![s].seq = n,
                                       ![s].hot = SubSeq(all, k + 1, Len(all)),
                                       ![s].pending = @ \o SubSeq(all, 1, k)]
           /\ log' = [log EXCEPT ![s] = Append(SubSeq(@, 1, n - 1), inHand[s])]
    /\ inHand' = [inHand EXCEPT ![s] = 0]
    /\ UNCHANGED <<procVars, batch, read, childVars, clientVars>>

\* Mutant: output goes on while the state is written.
HandlePTYOutputUnlocked(s) == AppendOutput(s, TRUE)

HandlePTYOutput(s) == AppendOutput(s, s \notin held)

\* flushColdPending: its two visits to the lock.
FlushBegin(s) ==
    /\ s \in table \ held
    /\ batch[s] = 0 /\ layers[s].pending # <<>>
    /\ batch' = [batch EXCEPT ![s] = Len(layers[s].pending)]
    /\ UNCHANGED <<procVars, layers, read, inHand, log, childVars, clientVars>>

FlushEnd(s) ==
    /\ s \in table \ held
    /\ batch[s] > 0
    /\ layers' = [layers EXCEPT
                    ![s].cold = @ \o SubSeq(layers[s].pending, 1, batch[s]),
                    ![s].pending = SubSeq(@, batch[s] + 1, Len(@))]
    /\ batch' = [batch EXCEPT ![s] = 0]
    /\ UNCHANGED <<procVars, read, inHand, log, childVars, clientVars>>

\* ptyReader ends: EOF has been read.
PTYEnds(s) ==
    /\ s \in table \ (ptyClosed \union held)
    /\ child[s] # "running" /\ read[s] = written[s] /\ inHand[s] = 0
    /\ ptyClosed' = ptyClosed \union {s}
    /\ reaper' = reaper \union {s}
    /\ UNCHANGED <<procVars, outVars, written, child, clientVars>>

\* proc.Wait returns; then, for a session, SessionGone and the SESSION_CLOSED
\* notice are sent.  (Not while its lock is held: they wait for it.)
Reap(s) ==
    /\ s \in reaper \ held /\ child[s] = "exited"
    /\ child' = [child EXCEPT ![s] = "reaped"]
    /\ reaper' = reaper \ {s}
    /\ conn' = IF s \in table /\ conn[s] = "live" THEN [conn EXCEPT ![s] = "told"] ELSE conn
    /\ UNCHANGED <<procVars, outVars, written, ptyClosed, last>>

-----------------------------------------------------------------------------
(* The old process.                                                        *)

\* SIGUSR2: performHandover, and WriteHandover takes the manager's lock.
StartHandover ==
    /\ phase = "up" /\ upgrades < MaxUpgrades
    /\ upgrades' = upgrades + 1
    /\ phase' = "locking"
    /\ UNCHANGED <<mode, skipped, held, file, accepting, table, outVars, childVars, clientVars>>

Live(s) == s \notin ptyClosed

\* Mutant: the batch being compressed is taken to be in a segment already.
SnapshotWithoutBatch(s) ==
    [layers[s] EXCEPT !.pending = SubSeq(@, batch[s] + 1, Len(@))]

\* What is serialised of a session.
Snapshot(s) == layers[s]

\* The loop of WriteHandover: lock the next session and copy it, unless it is a
\* remnant whose PTY has closed.
SerializeSession(s) ==
    /\ phase = "locking" /\ s \in table \ held
    /\ held' = held \union {s}
    /\ file' = IF Live(s)
               THEN [t \in DOMAIN file \union {s} |-> IF t = s THEN Snapshot(s) ELSE file[t]]
               ELSE file
    /\ UNCHANGED <<mode, skipped, phase, upgrades, accepting, table, outVars, childVars, clientVars>>

\* The state is encoded; DisconnectAllClients closes the connections.
Disconnect ==
    /\ phase = "locking" /\ held = table
    /\ phase' = "sealed"
    /\ conn' = [s \in Sessions |-> IF conn[s] = "live" THEN "down" ELSE conn[s]]
    /\ UNCHANGED <<mode, skipped, upgrades, held, file, accepting, table, outVars, childVars, last>>

\* Mutant: performHandover forgets abort on one of its error returns.
AbortHandoverLocked ==
    /\ phase \in {"locking", "sealed"}
    /\ phase' = "up" /\ file' = <<>>
    /\ UNCHANGED <<mode, skipped, upgrades, held, accepting, table, outVars, childVars, clientVars>>

\* release, on a failure in WriteHandover or as abort when seek, dup or exec
\* fails in performHandover.
AbortHandover ==
    /\ phase \in {"locking", "sealed"}
    /\ phase' = "up" /\ held' = {} /\ file' = <<>>
    /\ UNCHANGED <<mode, skipped, upgrades, accepting, table, outVars, childVars, clientVars>>

\* syscall.Exec: memory and goroutines are gone; terminals, sockets, children and
\* the state file remain.
Exec ==
    /\ phase = "sealed"
    /\ phase' = "restoring" /\ held' = {} /\ table' = {} /\ accepting' = FALSE
    /\ layers' = [s \in Sessions |-> NoLayers] /\ batch' = [s \in Sessions |-> 0]
    /\ inHand' = [s \in Sessions |-> 0]
    /\ ptyClosed' = {} /\ reaper' = {}
    /\ conn' = [s \in Sessions |-> IF conn[s] = "live" THEN "stale" ELSE conn[s]]
    /\ skipped' = skipped \union ((table \union reaper) \ DOMAIN file)
    /\ UNCHANGED <<mode, upgrades, file, read, log, written, child, last>>

-----------------------------------------------------------------------------
(* The new process.                                                        *)

\* RestoreHandover returns an error: the file cannot be decoded, its version is
\* another one, or the shared socket cannot be used.  The server starts fresh.
RestoreFails ==
    /\ phase = "restoring" /\ table = {} /\ ~accepting
    /\ phase' = "fresh" /\ file' = <<>>
    /\ UNCHANGED <<mode, skipped, upgrades, held, accepting, table, outVars, childVars, clientVars>>

\* adoptSharedTransport: before any session is restored.
AdoptSharedTransport ==
    /\ phase = "restoring" /\ mode = "shared" /\ ~accepting
    /\ accepting' = TRUE
    /\ UNCHANGED <<mode, skipped, phase, upgrades, held, file, table, outVars, childVars, clientVars>>

\* The session rebuilt from the file.
Restored(s) == file[s]

Without(s) == [t \in DOMAIN file \ {s} |-> file[t]]

\* Mutant: the session is not put back into the table.
RestoreSessionHidden(s) ==
    /\ phase = "restoring" /\ (mode = "shared" => accepting)
    /\ s \in DOMAIN file
    /\ layers' = [layers EXCEPT ![s] = Restored(s)]
    /\ file' = Without(s)
    /\ UNCHANGED <<mode, skipped, phase, upgrades, held, accepting, table, batch, read, inHand,
                   log, childVars, clientVars>>

\* restoreSession: the transport, the PTY reader, the table.
RestoreSession(s) ==
    /\ phase = "restoring" /\ (mode = "shared" => accepting)
    /\ s \in DOMAIN file
    /\ layers' = [layers EXCEPT ![s] = Restored(s)]
    /\ table' = table \union {s}
    /\ file' = Without(s)
    /\ UNCHANGED <<mode, skipped, phase, upgrades, held, accepting, batch, read, inHand, log,
                   childVars, clientVars>>

\* It fails: the PTY is closed, which hangs up the child, and a goroutine waits
\* for the child.  (A child that ignores the hang-up is not modelled.)
RestoreSessionFails(s) ==
    /\ phase = "restoring" /\ mode = "own"
    /\ s \in DOMAIN file
    /\ file' = Without(s)
    /\ child' = [child EXCEPT ![s] = IF @ = "running" THEN "exited" ELSE @]
    /\ reaper' = reaper \union {s}
    /\ UNCHANGED <<mode, skipped, phase, upgrades, held, accepting, table, outVars, written,
                   ptyClosed, clientVars>>

\* All entries are done; the server goes on to its own start-up.
RestoreEnds ==
    /\ phase = "restoring" /\ (mode = "shared" => accepting)
    /\ file = <<>>
    /\ phase' = "up" /\ accepting' = TRUE
    /\ UNCHANGED <<mode, skipped, upgrades, held, file, table, outVars, childVars, clientVars>>

-----------------------------------------------------------------------------
(* The client of a session.                                                *)

\* Somebody answers at the session's address.
Served(s) == IF mode = "shared" THEN accepting ELSE s \in table \ ptyClosed

\* The transport accepts the client.  On a shared socket sharedOnConnect looks
\* the session up (the manager's lock must be free) and answers NO_SUCH_SESSION
\* if it is not there.
Connect(s) ==
    /\ conn[s] = "down" /\ Served(s)
    /\ (mode = "shared" /\ s \notin table => phase \notin {"locking", "sealed"})
    /\ conn' = [conn EXCEPT ![s] = IF s \in table THEN "live" ELSE "told"]
    /\ UNCHANGED <<procVars, outVars, childVars, last>>

\* Resync and live output, as one: the next chunk.
Deliver(s) ==
    /\ conn[s] = "live" /\ s \in table
    /\ \E ch \in ToSet(layers[s].cold \o layers[s].pending \o layers[s].hot) :
           /\ ch.seq = last[s] + 1
           /\ last' = [last EXCEPT ![s] = ch.seq]
    /\ UNCHANGED <<procVars, outVars, childVars, conn>>

\* The client's liveness check finds that nobody answers any more.
StaleFound(s) ==
    /\ conn[s] = "stale"
    /\ conn' = [conn EXCEPT ![s] = "down"]
    /\ UNCHANGED <<procVars, outVars, childVars, last>>

-----------------------------------------------------------------------------

OldProcess == StartHandover \/ (\E s \in Sessions : SerializeSession(s)) \/ Disconnect
                  \/ AbortHandover \/ Exec

NewProcess == RestoreFails \/ AdoptSharedTransport \/ RestoreEnds
                  \/ \E s \in Sessions : RestoreSession(s) \/ RestoreSessionFails(s)

Output(s) == PTYRead(s) \/ HandlePTYOutput(s)

Next ==
    \/ \E s \in Sessions : \/ ChildWrites(s) \/ ChildExits(s)
                           \/ PTYRead(s) \/ HandlePTYOutput(s)
                           \/ FlushBegin(s) \/ FlushEnd(s)
                           \/ PTYEnds(s) \/ Reap(s)
                           \/ Connect(s) \/ Deliver(s) \/ StaleFound(s)
    \/ OldProcess
    \/ NewProcess

Spec == Init /\ [][Next]_vars

\* The one goroutine that performs or restores a handover goes on; readers,
\* reapers and clients do.  No signal is promised and no child has to write.
Fairness ==
    /\ WF_vars((OldProcess \/ NewProcess) /\ ~StartHandover)
    /\ \A s \in Sessions : /\ WF_vars(Output(s))
                           /\ WF_vars(PTYEnds(s))
                           /\ WF_vars(Reap(s))
                           /\ WF_vars(Connect(s) \/ StaleFound(s))
                           /\ WF_vars(Deliver(s))

FairSpec == Spec /\ Fairness

-----------------------------------------------------------------------------
(* Properties.                                                             *)

TypeOK ==
    /\ mode \in Modes /\ phase \in {"up", "locking", "sealed", "restoring", "fresh"}
    /\ upgrades \in 0 .. MaxUpgrades /\ accepting \in BOOLEAN
    /\ held \subseteq table /\ table \subseteq Sessions
    /\ DOMAIN file \subseteq Sessions
    /\ \A s \in Sessions : \A part \in {layers[s].cold, layers[s].pending, layers[s].hot} :
           part \in Seq(Chunks(s))
    /\ \A s \in Sessions : batch[s] <= Len(layers[s].pending)
    /\ ptyClosed \subseteq table /\ reaper \subseteq Sessions
    /\ child \in [Sessions -> {"running", "exited", "reaped"}]
    /\ conn \in [Sessions -> {"live", "stale", "down", "told"}]

\* WriteHandover and RestoreHandover: whatever was appended to a session before
\* the restart (to whichever layer, also while a batch of it was being compressed
\* or output kept arriving during the locking) is in its layers after it, once
\* and in order, under its number, and the numbering goes on from there.
OutputKept ==
    /\ TypeOK
    /\ \A s \in table :
           LET l == layers[s]
           IN  l.cold \o l.pending \o l.hot
                 = [n \in 1 .. l.seq |-> [seq |-> n, piece |-> log[s][n]]]

\* handlePTYOutput's numbers: one that was given to a piece of output, which a
\* client may have shown, is never given to another one, restart or not.
NumbersNeverReused == [][\A s \in Sessions : IsPrefix(log[s], log'[s])]_vars

\* The world stop of performHandover ends: by the exec or by an abort that gives
\* back every lock.
WorldResumes == (held # {}) ~> (held = {})

\* The client of a session that is not lost shows all that was appended: after
\* the disconnection, or on a connection to a process that no longer exists, it
\* comes back and catches up.
ClientsCatchUp ==
    \A s \in Sessions : \A n \in 1 .. MaxOut[s] :
        n <= Len(log[s]) ~> \/ last[s] >= n
                            \/ conn[s] = "told"
                            \/ child[s] # "running"
                            \/ phase = "fresh"

\* A child that exits is collected, whichever process is there by then, and also
\* when its session cannot be restored; but see EveryExitCollected.
ExitsCollected ==
    \A s \in Sessions :
        child[s] = "exited" ~> child[s] = "reaped" \/ phase = "fresh" \/ s \in skipped

\* cmd/tezzerd/handover.go:7-8 says of the exec that children stay children, so
\* that "exit code collection" does not break.
EveryExitCollected ==
    \A s \in Sessions : child[s] = "exited" ~> (child[s] = "reaped" \/ phase = "fresh")

\* cmd/tezzerd/handover.go:10-11: connections are cut once, but clients recover by
\* their reconnect, as port and key are inherited.  So a client is told that its
\* session is gone only if that is true.
NotToldGone ==
    \A s \in Sessions :
        conn[s] = "told" => \/ child[s] # "running"
                            \/ phase = "fresh"

\* An upgrade that begins ends, and leaves nothing uncollected that it restored.
UpgradeCompletes == WorldResumes /\ ExitsCollected
=============================================================================
