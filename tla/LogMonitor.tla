----------------------------- MODULE LogMonitor -----------------------------
(***************************************************************************)
(* The monitor of container logs and the notifications it makes, for one   *)
(* container: all state of the watcher is kept by container id.            *)
(*                                                                         *)
(* A poll lists the containers, cancels the streams of those that stopped, *)
(* follows each running one and scans the tail of each stopped one once.   *)
(* Every stream is a goroutine that classifies lines; an alert that is not *)
(* a duplicate starts two more goroutines, one that counts it in the table *)
(* of notifications and one that sends it to external channels if the      *)
(* notification is new. Users acknowledge and delete notifications.        *)
(***************************************************************************)
EXTENDS Naturals, Sequences

CONSTANTS
    Lines,          \* the lines the container may write, of those named below
    BlockLines,     \* maxLines of a block pattern
    TailLines,      \* LOGWATCHER_TAIL_LINES
    MaxLines,       \* bound: lines the container writes
    MaxStreams,     \* bound: streams opened
    MaxTasks        \* bound: goroutines of one kind and one alert

LogMonitorAssumption ==
    /\ Lines \subseteq {"plain", "warn", "error", "block"}
    /\ BlockLines \in Nat \ {0} /\ TailLines \in Nat
    /\ MaxLines \in Nat /\ MaxStreams \in Nat /\ MaxTasks \in Nat \ {0}

VARIABLES
    box,        \* status of the container
    log,        \* the lines it wrote
    listed,     \* the status a poll read, between its list and its lock
    streams,    \* the log streams, in the order they were opened
    watching,   \* the stream whose cancel function is stored, or 0
    scanned,    \* was the tail of the stopped container read?
    dedup,      \* alerts seen within the window
    upserts,    \* goroutines that are about to count an alert
    checks,     \* goroutines that are about to send an alert
    notes,      \* the table of notifications
    channel     \* are external notifications enabled, with a channel?

vars == <<box, log, listed, streams, watching, scanned, dedup, upserts, checks, notes, channel>>

\* A line is noise (plain), a warning, an error, or the first line of a block, which is
\* reported as one warning.
Alerts == Lines \ {"plain"}

NoBlock == BlockLines

Status == {"none", "running", "exited"}

Stream == [open : BOOLEAN, follow : BOOLEAN, pos : 0 .. MaxLines, block : 0 .. NoBlock,
           cancelled : BOOLEAN]

Closed == [open |-> FALSE, follow |-> FALSE, pos |-> 0, block |-> NoBlock, cancelled |-> FALSE]

\* OccurrenceCount, of which only none, one and more are told apart. History: the messages sent
\* for the row, and whether an occurrence of it could not be counted.
Note == [count : 0 .. 2, acked : BOOLEAN, sent : 0 .. 3, lost : BOOLEAN]

NoNote == [count |-> 0, acked |-> FALSE, sent |-> 0, lost |-> FALSE]

AtMost(n, m) == IF n < m THEN n ELSE m

TypeOK ==
    /\ box \in Status
    /\ log \in Seq(Lines)
    /\ listed \in Status \cup {"idle"}
    /\ streams \in Seq(Stream) /\ Len(streams) <= MaxStreams
    /\ watching \in 0 .. Len(streams)
    /\ scanned \in BOOLEAN
    /\ dedup \subseteq Alerts
    /\ upserts \in [Alerts -> 0 .. MaxTasks] /\ checks \in [Alerts -> 0 .. MaxTasks]
    /\ notes \in [Alerts -> Note]
    /\ channel \in BOOLEAN

Init ==
    /\ box = "none" /\ log = <<>> /\ listed = "idle"
    /\ streams = <<>> /\ watching = 0 /\ scanned = FALSE
    /\ dedup = {}
    /\ upserts = [a \in Alerts |-> 0] /\ checks = [a \in Alerts |-> 0]
    /\ notes = [a \in Alerts |-> NoNote]
    /\ channel \in BOOLEAN

watcherVars == <<listed, streams, watching, scanned>>
alertVars == <<dedup, upserts, checks>>

-----------------------------------------------------------------------------
(* The container. *)

ChangeStatus ==
    /\ \/ box # "running" /\ box' = "running"
       \/ box = "running" /\ box' = "exited"
       \/ box = "exited" /\ box' = "none" /\ Len(log) = MaxLines
    /\ UNCHANGED <<log, watcherVars, alertVars, notes, channel>>

WriteLine ==
    /\ box = "running" /\ Len(log) < MaxLines
    /\ \E l \in Lines : log' = Append(log, l)
    /\ UNCHANGED <<box, watcherVars, alertVars, notes, channel>>

-----------------------------------------------------------------------------
(* The poll. *)

Poll ==
    /\ listed = "idle"
    /\ listed' = box
    /\ UNCHANGED <<box, log, streams, watching, scanned, alertVars, notes, channel>>

NewStream(follow) ==
    [open |-> TRUE, follow |-> follow, block |-> NoBlock, cancelled |-> FALSE,
     pos |-> IF Len(log) > TailLines THEN Len(log) - TailLines ELSE 0]

CancelStopped ==
    IF listed = "running" \/ watching = 0 THEN streams
    ELSE [streams EXCEPT ![watching].cancelled = streams[watching].open]

\* Mutant: a container that runs is followed although a stream follows it already.
Mut_MustFollow == listed = "running"

MustFollow == listed = "running" /\ watching = 0

MustScan == listed = "exited" /\ ~scanned

\* One step under the lock, with the list as it was read without it. The entry is stored before
\* the goroutine opens its stream, which may fail.
Reconcile ==
    /\ listed # "idle"
    /\ IF MustFollow \/ MustScan
       THEN /\ Len(streams) < MaxStreams
            /\ \E opens \in BOOLEAN : streams' =
                 Append(CancelStopped, IF opens THEN NewStream(MustFollow) ELSE Closed)
       ELSE streams' = CancelStopped
    /\ watching' = IF MustFollow THEN Len(streams) + 1
                   ELSE IF listed = "running" THEN watching ELSE 0
    /\ scanned' = (listed = "exited" \/ (listed = "running" /\ scanned))
    /\ listed' = "idle"
    /\ UNCHANGED <<box, log, alertVars, notes, channel>>

-----------------------------------------------------------------------------
(* The streams. *)

\* isDuplicate tests and marks the alert under the lock of the watcher.
Emit(a) ==
    IF a \in dedup THEN UNCHANGED alertVars
    ELSE /\ upserts[a] < MaxTasks /\ checks[a] < MaxTasks
         /\ dedup' = dedup \cup {a}
         /\ upserts' = [upserts EXCEPT ![a] = @ + 1]
         /\ checks' = IF a = "error" THEN [checks EXCEPT ![a] = @ + 1] ELSE checks

\* What becomes of the block that a stream is reading, and what it emits, when it reads l.
ReadLine(i) ==
    LET s == streams[i]
        l == log[s.pos + 1]
        next == IF l = "plain" THEN s.block
                ELSE IF s.block # NoBlock THEN s.block + 1
                ELSE IF l = "block" THEN 0 ELSE NoBlock
        \* A cancelled stream may return one line that it had read before it looks.
        ends == s.cancelled
    IN /\ s.open /\ s.pos < Len(log)
       /\ streams' = [streams EXCEPT ![i] = IF ends THEN Closed
                                           ELSE [s EXCEPT !.pos = @ + 1, !.block = next]]
       /\ IF (s.block # NoBlock /\ next = NoBlock) \/ (ends /\ next # NoBlock) THEN Emit("block")
          ELSE IF s.block = NoBlock /\ l \in Alerts \ {"block"} THEN Emit(l)
          ELSE UNCHANGED alertVars
       /\ UNCHANGED <<box, log, listed, watching, scanned, notes, channel>>

\* The stream was cancelled, reached its end or was cut off. The entry in watching stays.
EndStream(i) ==
    /\ streams[i].open
    /\ streams' = [streams EXCEPT ![i] = Closed]
    /\ IF streams[i].block # NoBlock THEN Emit("block") ELSE UNCHANGED alertVars
    /\ UNCHANGED <<box, log, listed, watching, scanned, notes, channel>>

\* The window of an alert is longer than the timeouts of the goroutines it started.
Expire ==
    \E a \in dedup :
      /\ upserts[a] = 0 /\ checks[a] = 0
      /\ dedup' = dedup \ {a}
      /\ UNCHANGED <<box, log, watcherVars, upserts, checks, notes, channel>>

-----------------------------------------------------------------------------
(* The notifications. *)

\* An acknowledged notification stays acknowledged when its alert occurs again.
Upsert(a) ==
    /\ upserts[a] > 0
    /\ upserts' = [upserts EXCEPT ![a] = @ - 1]
    /\ notes' = [notes EXCEPT ![a].count = AtMost(@ + 1, 2)]
    /\ UNCHANGED <<box, log, watcherVars, dedup, checks, channel>>

UpsertFails(a) ==
    /\ upserts[a] > 0
    /\ upserts' = [upserts EXCEPT ![a] = @ - 1]
    /\ notes' = [notes EXCEPT ![a].lost = notes[a].count > 0]
    /\ UNCHANGED <<box, log, watcherVars, dedup, checks, channel>>

\* Mutant: also an alert that occurred before counts as new.
Mut_IsNew(a) == notes[a].count > 0 /\ ~notes[a].acked

IsNew(a) == notes[a].count = 1 /\ ~notes[a].acked

\* Notifier.Send reads the settings when it is called.
Announce(a) == IF channel THEN [notes EXCEPT ![a].sent = AtMost(@ + 1, 3)] ELSE notes

\* Only the goroutine that finds its alert counted once sends it, and the count of its own
\* occurrence may come before or after.
Send(a) ==
    /\ checks[a] > 0
    /\ checks' = [checks EXCEPT ![a] = @ - 1]
    /\ notes' = IF IsNew(a) THEN Announce(a) ELSE notes
    /\ UNCHANGED <<box, log, watcherVars, dedup, upserts, channel>>

Unread == {a \in Alerts : notes[a].count > 0 /\ ~notes[a].acked}

Acknowledge(a) ==
    /\ a \in Unread
    /\ notes' = [notes EXCEPT ![a].acked = TRUE]
    /\ UNCHANGED <<box, log, watcherVars, alertVars, channel>>

\* A user deletes any notification; the retention job only acknowledged ones.
Delete(a) ==
    /\ notes[a].count > 0
    /\ notes' = [notes EXCEPT ![a] = NoNote]
    /\ UNCHANGED <<box, log, watcherVars, alertVars, channel>>

UserStep(a) == Acknowledge(a) \/ Delete(a)

-----------------------------------------------------------------------------
Next ==
    \/ ChangeStatus \/ WriteLine
    \/ Poll \/ Reconcile
    \/ \E i \in DOMAIN streams : ReadLine(i) \/ EndStream(i)
    \/ Expire
    \/ \E a \in Alerts : Upsert(a) \/ UpsertFails(a) \/ Send(a) \/ UserStep(a)

Spec == Init /\ [][Next]_vars

-----------------------------------------------------------------------------
(* Properties. *)

\* At most one stream follows the container, and it is the one whose cancel function is stored:
\* a stream that nobody can cancel would read the log of a restarted container a second time.
OneFollower ==
    \A i \in DOMAIN streams :
        streams[i].open /\ streams[i].follow /\ ~streams[i].cancelled => i = watching

\* A repeated error is sent at most twice for one notification, however the goroutines that
\* count and send interleave, unless an occurrence of it could not be counted.
AnnouncedAtMostTwice == \A a \in Alerts : notes[a].sent > 2 => notes[a].lost
=============================================================================
