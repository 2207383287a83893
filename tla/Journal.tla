------------------------------ MODULE Journal ------------------------------
(***************************************************************************)
(* The log of the plane in the database, and the stream of it that a       *)
(* browser follows.                                                        *)
(*                                                                         *)
(* Whether an entry is stored depends on where it comes from and on        *)
(* LOG_DB_LEVEL. It is stored by a goroutine in a transaction of its own,  *)
(* so that rows may become visible in another order than that of their     *)
(* ids. The stream polls for rows with an id above the last one it sent,   *)
(* and sends what it got row by row.                                       *)
(***************************************************************************)
EXTENDS Naturals, Sequences

CONSTANTS
    MaxEntries,     \* bound: entries logged
    MaxOpens        \* bound: streams opened

JournalAssumption == MaxEntries \in Nat /\ MaxOpens \in Nat

VARIABLES
    dbLevel,    \* DBLogLevel
    writers,    \* goroutines that are about to store an entry
    rows,       \* the rows in the order of their ids
    stream,     \* the stream of a browser: is it open, its lastID, what it has yet to send
    sent,       \* the ids it sent
    count       \* entries logged and streams opened, for the bounds

vars == <<dbLevel, writers, rows, stream, sent, count>>

DBLogLevel == [none |-> 0, error |-> 1, warn |-> 2]

\* Where an entry comes from. Info is never stored; entries of the request logger and of the
\* log monitor are stored at every level.
Sources == {"info", "warn", "error", "request", "container"}

TypeOK ==
    /\ dbLevel \in {DBLogLevel[l] : l \in DOMAIN DBLogLevel}
    /\ writers \in 0 .. MaxEntries
    /\ rows \in Seq({"open", "visible", "deleted"})
    /\ stream \in [open : BOOLEAN, lastID : 0 .. MaxEntries, newLogs : SUBSET (1 .. MaxEntries)]
    /\ sent \in Seq(1 .. MaxEntries)
    /\ count \in [entries : 0 .. MaxEntries, opens : 0 .. MaxOpens]

Init ==
    /\ dbLevel \in {DBLogLevel[l] : l \in DOMAIN DBLogLevel}
    /\ writers = 0 /\ rows = <<>>
    /\ stream = [open |-> FALSE, lastID |-> 0, newLogs |-> {}] /\ sent = <<>>
    /\ count = [entries |-> 0, opens |-> 0]

\* The level is compared the way the code does it: a warning passes at every level, an error
\* does not pass at the level warn.
Stored(source) ==
    \/ source = "warn" /\ dbLevel <= DBLogLevel["warn"]
    \/ source = "error" /\ dbLevel <= DBLogLevel["error"]
    \/ source \in {"request", "container"}

Log(source) ==
    /\ count.entries < MaxEntries
    /\ count' = [count EXCEPT !.entries = @ + 1]
    /\ writers' = IF Stored(source) THEN writers + 1 ELSE writers
    /\ UNCHANGED <<dbLevel, rows, stream, sent>>

\* The insert takes the next id, the end of the transaction makes the row visible.
Insert ==
    /\ writers > 0
    /\ writers' = writers - 1
    /\ rows' = Append(rows, "open")
    /\ UNCHANGED <<dbLevel, stream, sent, count>>

Commit ==
    \E i \in DOMAIN rows :
      /\ rows[i] = "open"
      /\ rows' = [rows EXCEPT ![i] = "visible"]
      /\ UNCHANGED <<dbLevel, writers, stream, sent, count>>

\* The retention job.
Retain ==
    \E i \in DOMAIN rows :
      /\ rows[i] = "visible"
      /\ rows' = [rows EXCEPT ![i] = "deleted"]
      /\ UNCHANGED <<dbLevel, writers, stream, sent, count>>

Visible == {i \in DOMAIN rows : rows[i] = "visible"}

\* The one id that fits: 0 when there is no row.
LatestAppLogID == {i \in Visible \cup {0} : \A j \in Visible : j <= i}

OpenStream ==
    /\ ~stream.open /\ count.opens < MaxOpens
    /\ count' = [count EXCEPT !.opens = @ + 1]
    /\ \E id \in LatestAppLogID : stream' = [open |-> TRUE, lastID |-> id, newLogs |-> {}]
    /\ sent' = <<>>
    /\ UNCHANGED <<dbLevel, writers, rows>>

\* Mutant: the poll asks for rows from the last id on.
Mut_PollAppLogs == {i \in Visible : i >= stream.lastID}

PollAppLogs == {i \in Visible : i > stream.lastID}

Poll ==
    /\ stream.open /\ stream.newLogs = {}
    /\ stream' = [stream EXCEPT !.newLogs = PollAppLogs]
    /\ UNCHANGED <<dbLevel, writers, rows, sent, count>>

\* The rows come in the order of their ids.
SendRow ==
    /\ stream.open
    /\ \E i \in stream.newLogs :
         /\ \A j \in stream.newLogs : i <= j
         /\ sent' = Append(sent, i)
         /\ stream' = [stream EXCEPT !.newLogs = @ \ {i},
                                     !.lastID = IF i > @ THEN i ELSE @]
    /\ UNCHANGED <<dbLevel, writers, rows, count>>

CloseStream ==
    /\ stream.open
    /\ stream' = [stream EXCEPT !.open = FALSE, !.newLogs = {}]
    /\ UNCHANGED <<dbLevel, writers, rows, sent, count>>

Next ==
    \/ \E s \in Sources : Log(s)
    \/ Insert \/ Commit \/ Retain
    \/ OpenStream \/ Poll \/ SendRow \/ CloseStream

Spec == Init /\ [][Next]_vars

-----------------------------------------------------------------------------
(* Properties. *)

\* A stream sends no row twice and sends the rows in the order of their ids, in whatever order
\* the transactions that store them end.
RowsSentOnce == \A i, j \in DOMAIN sent : i < j => sent[i] < sent[j]
=============================================================================
