---------------------------- MODULE ExecSession ----------------------------
(***************************************************************************)
(* A shell in a container, on a web socket: melody's read pump feeds what  *)
(* the client sends into a channel, and ExecAttach runs two goroutines,    *)
(* one that writes from the channel to the shell and one that writes from  *)
(* the shell to the socket. ExecAttach returns at the first result of      *)
(* either, or when the request ends, and its connection to the shell is    *)
(* closed then.                                                            *)
(***************************************************************************)
EXTENDS Naturals, Sequences

CONSTANTS
    QueueCap,       \* capacity of a session's channel (64 in the code)
    MaxSent,        \* bound: messages of the client
    MaxPrinted      \* bound: pieces of output of the shell

ExecSessionAssumption ==
    QueueCap \in Nat \ {0} /\ MaxSent \in Nat /\ MaxPrinted \in Nat

\* Capacity of errCh: one result of each goroutine.
ErrCap == 2

VARIABLES
    driver,     \* "docker" or "podman"
    client,     \* the client's side: "none", "open", "left"
    closed,     \* the session was closed from the plane's side
    pump,       \* melody's read pump: idle, the message it feeds, or ended
    entry,      \* the session is in execSessions
    queue,      \* readCh
    attach,     \* the goroutine that runs ExecAttach
    bash,       \* the container has /bin/bash
    shell,      \* the process: none; chosen, or chosen though the container has it not; alive,
                \* deaf (it reads no more), exited
    conn,       \* the connection to it
    toShell, fromShell,     \* the two goroutines
    errs,       \* results in errCh
    got,        \* what the client was sent
    sent, printed

vars == <<driver, client, closed, pump, entry, queue, attach, bash, shell, conn, toShell,
          fromShell, errs, got, sent, printed>>

\* A resize, and what is no message, do nothing to the shell that is told apart here.
Kinds == {"input", "resize", "close"}

TypeOK ==
    /\ client \in {"none", "open", "left"}
    /\ pump \in Kinds \cup {"idle", "ended"}
    /\ Len(queue) <= QueueCap /\ \A i \in DOMAIN queue : queue[i] \in Kinds
    /\ attach \in {"none", "detect", "create", "announce", "hijack", "run", "ended"}
    /\ shell \in {"none", "chosen", "missing", "alive", "deaf", "exited"}
     /\ conn \in {"none", "open", "closed"}
    /\ toShell \in {"off", "read", "write", "send", "gone"}
    /\ fromShell \in {"off", "read", "send", "gone"}
    /\ errs \in 0 .. ErrCap
    /\ \A i \in DOMAIN got : got[i] \in {"shell", "output", "exit"}

Init ==
    /\ driver \in {"docker", "podman"} /\ bash \in BOOLEAN
    /\ client = "none" /\ closed = FALSE /\ pump = "idle" /\ entry = FALSE /\ queue = <<>>
    /\ attach = "none" /\ shell = "none" /\ conn = "none"
    /\ toShell = "off" /\ fromShell = "off" /\ errs = 0 /\ got = <<>>
    /\ sent = 0 /\ printed = 0

Writable == client = "open" /\ ~closed

Write(message) == got' = IF Writable THEN Append(got, message) ELSE got

-----------------------------------------------------------------------------
(* The web socket. *)

\* HandleConnect: the session gets its channel and its goroutine.
Connect ==
    /\ client = "none"
    /\ client' = "open" /\ entry' = TRUE /\ attach' = "detect"
    /\ UNCHANGED <<driver, closed, pump, queue, bash, shell, conn, toShell, fromShell, errs,
                   got, sent, printed>>

Leave ==
    /\ client = "open" /\ client' = "left"
    /\ UNCHANGED <<driver, closed, pump, entry, queue, attach, bash, shell, conn, toShell,
                   fromShell, errs, got, sent, printed>>

Sends ==
    /\ Writable /\ pump = "idle" /\ sent < MaxSent
    /\ pump' \in Kinds /\ sent' = sent + 1
    /\ UNCHANGED <<driver, client, closed, entry, queue, attach, bash, shell, conn, toShell,
                   fromShell, errs, got, printed>>

\* Mutant: the read pump does not wait for the channel.
Mut_Feed ==
    /\ pump \in Kinds
    /\ queue' = IF entry THEN Append(queue, pump) ELSE queue
    /\ pump' = "idle"
    /\ UNCHANGED <<driver, client, closed, entry, attach, bash, shell, conn, toShell, fromShell,
                   errs, got, sent, printed>>

\* HandleMessage and feed: the read pump waits while the channel is full.
Feed ==
    /\ pump \in Kinds
    /\ \/ entry /\ Len(queue) < QueueCap /\ queue' = Append(queue, pump)
       \/ ~entry /\ queue' = queue
    /\ pump' = "idle"
    /\ UNCHANGED <<driver, client, closed, entry, attach, bash, shell, conn, toShell, fromShell,
                   errs, got, sent, printed>>

\* HandleDisconnect: the read pump finds the socket closed by either side. The request ends
\* with it, and its context.
Disconnect ==
    /\ pump = "idle" /\ (client = "left" \/ closed)
    /\ pump' = "ended" /\ entry' = FALSE
    /\ UNCHANGED <<driver, client, closed, queue, attach, bash, shell, conn, toShell, fromShell,
                   errs, got, sent, printed>>

ContextDone == pump = "ended"

-----------------------------------------------------------------------------
(* ExecAttach. *)

\* ExecAttach returns: the deferred close, then the goroutine of HandleConnect takes the session
\* out and closes it.
Return ==
    /\ attach' = "ended" /\ closed' = TRUE /\ entry' = FALSE
    /\ conn' = IF conn = "open" THEN "closed" ELSE conn

\* canExec of /bin/bash. Docker's looks at the exit code without waiting for the end of the
\* command, when it is still 0.
CanExec == IF driver = "docker" THEN {bash, TRUE} ELSE {bash}

\* detectShell, then the exec is created; the shell is announced before it is started by
\* podman's driver, after by docker's.
Detect ==
    /\ attach = "detect"
    /\ \/ \E b \in CanExec \cup {FALSE} :
            /\ shell' = IF b /\ ~bash THEN "missing" ELSE "chosen"
            /\ attach' = IF driver = "podman" THEN "announce" ELSE "hijack"
            /\ UNCHANGED <<closed, entry, conn>>
       \/ Return /\ shell' = shell
    /\ UNCHANGED <<driver, client, pump, queue, bash, toShell, fromShell, errs, got, sent,
                   printed>>

Announce ==
    /\ attach = "announce"
    /\ Write("shell")
    /\ \/ driver = "podman" /\ attach' = "hijack" /\ UNCHANGED <<toShell, fromShell>>
       \/ driver = "docker" /\ attach' = "run" /\ toShell' = "read" /\ fromShell' = "read"
    /\ UNCHANGED <<driver, client, closed, pump, entry, queue, bash, shell, conn, errs, sent,
                   printed>>

\* The connection to the shell; it fails when the context is done, or by itself.
Hijack ==
    /\ attach = "hijack"
    /\ \/ /\ ~ContextDone
          /\ conn' = "open" /\ shell' = IF shell = "missing" THEN "exited" ELSE "alive"
          /\ \/ driver = "podman" /\ attach' = "run" /\ toShell' = "read" /\ fromShell' = "read"
             \/ driver = "docker" /\ attach' = "announce" /\ UNCHANGED <<toShell, fromShell>>
          /\ UNCHANGED <<closed, entry>>
       \/ Return /\ UNCHANGED <<shell, toShell, fromShell>>
    /\ UNCHANGED <<driver, client, pump, queue, bash, errs, got, sent, printed>>

\* The select at the end.
Await ==
    /\ attach = "run"
    /\ \/ errs > 0 /\ errs' = errs - 1
       \/ ContextDone /\ errs' = errs
    /\ Return
    /\ UNCHANGED <<driver, client, pump, queue, bash, shell, toShell, fromShell, got, sent,
                   printed>>

\* The goroutine from the socket to the shell. Nothing ever closes its channel.
ReadMessage ==
    /\ toShell = "read" /\ queue # <<>>
    /\ queue' = Tail(queue)
    /\ toShell' = CASE Head(queue) = "input" -> "write"
                    [] Head(queue) = "close" -> "send"
                    [] OTHER -> "read"
    /\ UNCHANGED <<driver, client, closed, pump, entry, attach, bash, shell, conn, fromShell,
                   errs, got, sent, printed>>

WriteShell ==
    /\ toShell = "write"
    /\ \/ conn = "open" /\ shell \in {"alive", "exited"} /\ toShell' = "read"
       \/ (conn = "closed" \/ shell = "exited") /\ toShell' = "send"
    /\ UNCHANGED <<driver, client, closed, pump, entry, queue, attach, bash, shell, conn,
                   fromShell, errs, got, sent, printed>>

Mut_ReadShell ==
    /\ fromShell = "read"
    /\ \/ /\ conn = "open" /\ shell \in {"alive", "deaf"} /\ printed < MaxPrinted
          /\ printed' = printed + 1 /\ Write("output")
          /\ fromShell' = IF Writable THEN "read" ELSE "send"
       \/ /\ conn = "open" /\ shell = "exited"
          /\ Write("exit") /\ fromShell' = "gone" /\ printed' = printed
       \/ /\ conn = "closed" /\ fromShell' = "send" /\ UNCHANGED <<got, printed>>
    /\ UNCHANGED <<driver, client, closed, pump, entry, queue, attach, bash, shell, conn,
                   toShell, errs, sent>>

\* The goroutine from the shell to the socket: output, the end of the shell, and the end of
\* the connection.
ReadShell ==
    /\ fromShell = "read"
    /\ \/ /\ conn = "open" /\ shell \in {"alive", "deaf"} /\ printed < MaxPrinted
          /\ printed' = printed + 1 /\ Write("output")
          /\ fromShell' = IF Writable THEN "read" ELSE "send"
       \/ /\ conn = "open" /\ shell = "exited"
          /\ Write("exit") /\ fromShell' = "send" /\ printed' = printed
       \/ /\ conn = "closed" /\ fromShell' = "send" /\ UNCHANGED <<got, printed>>
    /\ UNCHANGED <<driver, client, closed, pump, entry, queue, attach, bash, shell, conn,
                   toShell, errs, sent>>

\* Either goroutine hands over its result and ends.
ToShellEnds ==
    /\ toShell = "send" /\ errs < ErrCap
    /\ errs' = errs + 1 /\ toShell' = "gone"
    /\ UNCHANGED <<driver, client, closed, pump, entry, queue, attach, bash, shell, conn,
                   fromShell, got, sent, printed>>

FromShellEnds ==
    /\ fromShell = "send" /\ errs < ErrCap
    /\ errs' = errs + 1 /\ fromShell' = "gone"
    /\ UNCHANGED <<driver, client, closed, pump, entry, queue, attach, bash, shell, conn,
                   toShell, got, sent, printed>>

\* The process ends, or stops reading its terminal for good.
ShellTurns ==
    /\ \/ shell = "alive" /\ shell' \in {"deaf", "exited"}
       \/ shell = "deaf" /\ shell' = "exited"
    /\ UNCHANGED <<driver, client, closed, pump, entry, queue, attach, bash, conn, toShell,
                   fromShell, errs, got, sent, printed>>

Server ==
    \/ Feed \/ Disconnect \/ Detect \/ Announce \/ Hijack \/ Await
    \/ ReadMessage \/ WriteShell \/ ToShellEnds \/ FromShellEnds

Next == Connect \/ Leave \/ Sends \/ Server \/ ReadShell \/ ShellTurns

Spec == Init /\ [][Next]_vars

\* Each goroutine goes on while it can.
Fairness ==
    /\ WF_vars(Feed) /\ WF_vars(Disconnect)
    /\ WF_vars(Detect) /\ WF_vars(Announce) /\ WF_vars(Hijack) /\ WF_vars(Await)
    /\ WF_vars(ReadMessage) /\ WF_vars(WriteShell) /\ WF_vars(ReadShell)
    /\ WF_vars(ToShellEnds) /\ WF_vars(FromShellEnds)

FairSpec == Spec /\ Fairness

-----------------------------------------------------------------------------
(* What is checked. *)

\* When the shell ends, or the client goes, ExecAttach returns and the connection to the shell is
\* closed: neither goroutine keeps the other, and no full channel keeps the read pump from
\* noticing that the client is gone. A process that reads its terminal no more is the exception:
\* the writer waits for it, the channel fills, and the read pump waits for the channel.
SessionEnds ==
    (client = "left" \/ shell = "exited")
        ~> (shell = "deaf" \/ (attach = "ended" /\ conn # "open"))
=============================================================================
