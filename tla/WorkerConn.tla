----------------------------- MODULE WorkerConn -----------------------------
(***************************************************************************)
(* The commands that goroutines of the plane send over ONE connection of a *)
(* remote worker (module AgentRegistry), and one container log stream.     *)
(*                                                                         *)
(* WorkerConn.Send puts a future into the pending map, sends the command   *)
(* and waits for the future, a timeout, or the done channel. The handler   *)
(* of the connection receives the messages of the worker, one by one: it   *)
(* looks the future or the log channel up under the lock of the connection *)
(* and sends to it after the unlock, so that the goroutine that waits may  *)
(* have left, or the channel may have been closed, in between.             *)
(***************************************************************************)
EXTENDS Naturals

CONSTANTS
    Cmds,        \* the goroutines that send one command each
    NoCmd,
    MaxAnswers,  \* answers of the worker to one command
    MaxLines,    \* log lines sent by the worker
    LogBuffer    \* capacity of a log channel

ASSUME ConnAssumption ==
    /\ NoCmd \notin Cmds
    /\ MaxAnswers \in Nat \ {0} /\ MaxLines \in Nat /\ LogBuffer \in Nat \ {0}

VARIABLES
    cmd,       \* cmd[c]: progress of Send, what it returns, answers the worker still owes
    pending,   \* commands in the pending map
    future,    \* answers in the two channels of each command, of capacity 1
    loop,      \* the receive loop: what it does and for which command
    log,       \* the log stream: its reader, its channel, in the map?, lines in it, lines to come
    stream,    \* is the gRPC stream up, and is the done channel closed?
    panicked   \* did the process end by a send on a closed channel?

vars == <<cmd, pending, future, loop, log, stream, panicked>>

CmdStage == {"new", "sending", "waiting", "leaving", "returned"}
Answer   == {"result", "reject"}

Command  == [at : CmdStage, out : Answer \cup {"none", "error"}, owed : 0 .. MaxAnswers]
LogState == [reader : {"none", "sending", "reading", "gone"}, chan : {"none", "open", "closed"},
             mapped : BOOLEAN, lines : 0 .. LogBuffer, left : 0 .. MaxLines]

TypeOK ==
    /\ cmd \in [Cmds -> Command]
    /\ pending \subseteq Cmds
    /\ future \subseteq Cmds \X Answer
    /\ loop \in [at : Answer, cmd : Cmds] \cup [at : {"recv", "log", "ended"}, cmd : {NoCmd}]
    /\ log \in LogState
    /\ stream \in [up : BOOLEAN, done : BOOLEAN]
    /\ panicked \in BOOLEAN

Receiving == [at |-> "recv", cmd |-> NoCmd]

Init ==
    /\ cmd = [c \in Cmds |-> [at |-> "new", out |-> "none", owed |-> 0]]
    /\ pending = {}
    /\ future = {}
    /\ loop = Receiving
    /\ log = [reader |-> "none", chan |-> "none", mapped |-> FALSE, lines |-> 0, left |-> MaxLines]
    /\ stream = [up |-> TRUE, done |-> FALSE]
    /\ panicked = FALSE

-----------------------------------------------------------------------------
(* WorkerConn.Send *)

Send(c) ==
    /\ cmd[c].at = "new"
    /\ cmd' = [cmd EXCEPT ![c] = [at |-> "sending", out |-> "none", owed |-> MaxAnswers]]
    /\ pending' = pending \cup {c}
    /\ UNCHANGED <<future, loop, log, stream, panicked>>

\* The call of stream.Send returns; the worker may have answered before.
Sent(c) ==
    /\ cmd[c].at = "sending"
    /\ \/ cmd' = [cmd EXCEPT ![c].at = "waiting"]
       \/ ~stream.up /\ cmd' = [cmd EXCEPT ![c].at = "leaving", ![c].out = "error"]
    /\ UNCHANGED <<pending, future, loop, log, stream, panicked>>

\* Mutant: no timeout, the done channel ends the waiting.
Mut_Await(c) ==
    /\ cmd[c].at = "waiting"
    /\ \/ \E a \in Answer :
              /\ <<c, a>> \in future
              /\ future' = future \ {<<c, a>>}
              /\ cmd' = [cmd EXCEPT ![c].at = "leaving", ![c].out = a]
       \/ /\ stream.done
          /\ cmd' = [cmd EXCEPT ![c].at = "leaving", ![c].out = "error"]
          /\ UNCHANGED future
    /\ UNCHANGED <<pending, loop, log, stream, panicked>>

\* The select: an answer, or the timeout, or the done channel (which, like the
\* timeout, makes it return an error).
Await(c) ==
    /\ cmd[c].at = "waiting"
    /\ \/ \E a \in Answer :
              /\ <<c, a>> \in future
              /\ future' = future \ {<<c, a>>}
              /\ cmd' = [cmd EXCEPT ![c].at = "leaving", ![c].out = a]
       \/ /\ cmd' = [cmd EXCEPT ![c].at = "leaving", ![c].out = "error"]
          /\ UNCHANGED future
    /\ UNCHANGED <<pending, loop, log, stream, panicked>>

\* Mutant: the entry of a command that failed stays in the map.
Mut_Leave(c) ==
    /\ cmd[c].at = "leaving"
    /\ cmd' = [cmd EXCEPT ![c].at = "returned"]
    /\ pending' = IF cmd[c].out = "error" THEN pending ELSE pending \ {c}
    /\ UNCHANGED <<future, loop, log, stream, panicked>>

Leave(c) ==
    /\ cmd[c].at = "leaving"
    /\ cmd' = [cmd EXCEPT ![c].at = "returned"]
    /\ pending' = pending \ {c}
    /\ UNCHANGED <<future, loop, log, stream, panicked>>

SendStep(c) == Sent(c) \/ Await(c) \/ Leave(c)

-----------------------------------------------------------------------------
(* The receive loop: Server.handleMessage *)

RecvAnswer(c, a) ==
    /\ loop = Receiving /\ stream.up
    /\ cmd[c].owed > 0
    /\ cmd' = [cmd EXCEPT ![c].owed = @ - 1]
    /\ loop' = IF c \in pending THEN [at |-> a, cmd |-> c] ELSE loop
    /\ UNCHANGED <<pending, future, log, stream, panicked>>

\* Mutant: channels without a buffer, which need Send to be waiting.
Mut_Resolve ==
    /\ loop.at \in Answer
    /\ cmd[loop.cmd].at = "waiting"
    /\ cmd' = [cmd EXCEPT ![loop.cmd].at = "leaving", ![loop.cmd].out = loop.at]
    /\ loop' = Receiving
    /\ UNCHANGED <<pending, future, log, stream, panicked>>

\* resolveAck and resolveResult, after the unlock: a send to a buffered channel.
Resolve ==
    /\ loop.at \in Answer
    /\ <<loop.cmd, loop.at>> \notin future
    /\ future' = future \cup {<<loop.cmd, loop.at>>}
    /\ loop' = Receiving
    /\ UNCHANGED <<cmd, pending, log, stream, panicked>>

RecvLog ==
    /\ loop = Receiving /\ stream.up
    /\ log.reader # "none" /\ log.left > 0
    /\ log' = [log EXCEPT !.left = @ - 1]
    /\ loop' = IF log.mapped THEN [at |-> "log", cmd |-> NoCmd] ELSE loop
    /\ UNCHANGED <<cmd, pending, future, stream, panicked>>

\* Mutant: lines are kept, whatever the capacity.
Mut_PushLog ==
    /\ loop.at = "log"
    /\ panicked' = (log.chan = "closed")
    /\ log' = [log EXCEPT !.lines = @ + 1]
    /\ loop' = Receiving
    /\ UNCHANGED <<cmd, pending, future, stream>>

\* pushLog, after the unlock: a full channel drops the line, a closed one panics.
PushLog ==
    /\ loop.at = "log"
    /\ panicked' = (log.chan = "closed")
    /\ \/ log.lines < LogBuffer /\ log' = [log EXCEPT !.lines = @ + 1]
       \/ log.lines = LogBuffer /\ UNCHANGED log
    /\ loop' = Receiving
    /\ UNCHANGED <<cmd, pending, future, stream>>

\* The stream is lost, or the done channel was closed.
EndLoop ==
    /\ loop = Receiving
    /\ ~stream.up \/ stream.done
    /\ loop' = [loop EXCEPT !.at = "ended"]
    /\ UNCHANGED <<cmd, pending, future, log, stream, panicked>>

LoopStep == Resolve \/ PushLog \/ EndLoop

-----------------------------------------------------------------------------
(* Client.StreamLogs and its reader *)

OpenLog ==
    /\ log.reader = "none"
    /\ log' = [log EXCEPT !.reader = "sending", !.chan = "open", !.mapped = TRUE]
    /\ UNCHANGED <<cmd, pending, future, loop, stream, panicked>>

\* SendNoWait returns; on an error the channel is closed at once.
LogSent ==
    /\ log.reader = "sending"
    /\ \/ log' = [log EXCEPT !.reader = "reading"]
       \/ /\ ~stream.up
          /\ log' = [log EXCEPT !.reader = "gone", !.chan = "closed", !.mapped = FALSE]
    /\ UNCHANGED <<cmd, pending, future, loop, stream, panicked>>

ReadLog ==
    /\ log.reader = "reading" /\ log.lines > 0
    /\ log' = [log EXCEPT !.lines = @ - 1]
    /\ UNCHANGED <<cmd, pending, future, loop, stream, panicked>>

\* The browser goes away: the reader returns ...
CancelLog ==
    /\ log.reader = "reading"
    /\ log' = [log EXCEPT !.reader = "gone"]
    /\ UNCHANGED <<cmd, pending, future, loop, stream, panicked>>

\* ... and a goroutine closes the channel.
CloseLogStream ==
    /\ log.reader = "gone" /\ log.mapped
    /\ log' = [log EXCEPT !.chan = "closed", !.mapped = FALSE]
    /\ UNCHANGED <<cmd, pending, future, loop, stream, panicked>>

LogStep == OpenLog \/ LogSent \/ ReadLog \/ CancelLog \/ CloseLogStream

-----------------------------------------------------------------------------

LoseStream ==
    /\ stream.up
    /\ stream' = [stream EXCEPT !.up = FALSE]
    /\ UNCHANGED <<cmd, pending, future, loop, log, panicked>>

\* By Unregister of this handler or of another one of the same worker; never, when
\* the registry entry was overwritten before.
CloseDone ==
    /\ ~stream.done
    /\ stream' = [stream EXCEPT !.done = TRUE]
    /\ UNCHANGED <<cmd, pending, future, loop, log, panicked>>

Next ==
    /\ ~panicked
    /\ \/ \E c \in Cmds : Send(c) \/ SendStep(c) \/ \E a \in Answer : RecvAnswer(c, a)
       \/ RecvLog \/ LoopStep \/ LogStep \/ LoseStream \/ CloseDone

Spec == Init /\ [][Next]_vars

FairSpec ==
    /\ Spec
    /\ \A c \in Cmds : WF_vars(SendStep(c) /\ Next)
    /\ WF_vars(LoopStep /\ Next)

-----------------------------------------------------------------------------
(* Properties *)

\* The pending map holds the commands in flight and nothing else, however they ended.
NothingLeftPending ==
    \A c \in pending : cmd[c].at \in {"sending", "waiting", "leaving"}

\* Every Send returns, also when the worker never answers and nobody closes done.
SendReturns == \A c \in Cmds : cmd[c].at = "sending" ~> cmd[c].at = "returned" \/ panicked

\* An answer that comes after the timeout and a log line nobody reads never block the
\* receive loop, on which all other commands and the heartbeats of the worker depend:
\* as long as the worker answers a command once, the channel has room for it.
LoopKeepsReceiving == loop.at \in Answer \cup {"log"} ~> loop.at \in {"recv", "ended"} \/ panicked

-----------------------------------------------------------------------------
(* Claims that the code does not keep: registry.go:144, "Thread-safe", of the   *)
(* registry through which other parts of the plane send commands to workers     *)

\* Two goroutines are in stream.Send at the same time, which gRPC does not allow.
OneSender ==
    /\ \A c, d \in Cmds : cmd[c].at = "sending" /\ cmd[d].at = "sending" => c = d
    /\ log.reader = "sending" => \A c \in Cmds : cmd[c].at # "sending"

\* pushLog sends to the channel that CloseLogStream has closed meanwhile.
NoSendOnClosedChannel == ~panicked
=============================================================================
