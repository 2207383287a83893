------------------------------ MODULE MCAccess ------------------------------
(***************************************************************************)
(* The model checked for what users, workers and git providers are let do, *)
(* and for what is shown to users: Sessions, Enrolment, Webhooks,          *)
(* ExecSession, LogMonitor and Journal on small instances.                 *)
(*                                                                         *)
(* These components share no state and do not call each other, so that     *)
(* their interleavings show nothing that each does not show alone: "part"  *)
(* says which of them runs in a behavior, and the variables of the others  *)
(* are "off". Each takes its constants from here by their names, except    *)
(* for the requests of Webhooks.                                           *)
(***************************************************************************)
EXTENDS Integers, Sequences

CONSTANTS
    Emails, NoEmail, Requests, MaxUsers, MaxTokens, MaxEvents,              \* Sessions
    Workers, RegTokens, Calls, Nobody, Validity, RenewBefore, MaxCerts,
    LastDay, MaxStops,                                                      \* Enrolment
    Posts, Editors, Filters, MaxSecrets,                                    \* Webhooks
    QueueCap, MaxSent, MaxPrinted,                                          \* ExecSession
    Lines, BlockLines, TailLines, MaxLines, MaxStreams, MaxTasks,           \* LogMonitor
    MaxEntries, MaxOpens                                                    \* Journal

VARIABLES
    part,
    users, tokens, claims, jar, req, events, spent, signedOut,
    regToken, node, certs, call, job, plane, today, missed,
    hook, member, calls, edits, delivery, jobs,
    driver, client, closed, pump, entry, queue, attach, bash, shell, conn, toShell,
    fromShell, errs, got, sent, printed,
    box, log, listed, streams, watching, scanned, dedup, upserts, checks, notes, channel,
    dbLevel, writers, rows, stream, rowsSent, count

S == INSTANCE Sessions
E == INSTANCE Enrolment
W == INSTANCE Webhooks WITH Calls <- Posts
X == INSTANCE ExecSession
L == INSTANCE LogMonitor
J == INSTANCE Journal WITH sent <- rowsSent

ASSUME AccessAssumption ==
    /\ S!SessionsAssumption /\ E!EnrolmentAssumption /\ W!WebhooksAssumption
    /\ X!ExecSessionAssumption /\ L!LogMonitorAssumption /\ J!JournalAssumption

sVars == <<users, tokens, claims, jar, req, events, spent, signedOut>>
eVars == <<regToken, node, certs, call, job, plane, today, missed>>
wVars == <<hook, member, calls, edits, delivery, jobs>>
xVars == <<driver, client, closed, pump, entry, queue, attach, bash, shell, conn, toShell,
           fromShell, errs, got, sent, printed>>
lVars == <<box, log, listed, streams, watching, scanned, dedup, upserts, checks, notes, channel>>
jVars == <<dbLevel, writers, rows, stream, rowsSent, count>>

vars == <<part, sVars, eVars, wVars, xVars, lVars, jVars>>

\* The variables of a part that does not take part.
NoSession ==
    /\ users = "off" /\ tokens = "off" /\ claims = "off" /\ jar = "off" /\ req = "off"
    /\ events = "off" /\ spent = "off" /\ signedOut = "off"

NoEnrolment ==
    /\ regToken = "off" /\ node = "off" /\ certs = "off" /\ call = "off" /\ job = "off"
    /\ plane = "off" /\ today = "off" /\ missed = "off"

NoHook ==
    /\ hook = "off" /\ member = "off" /\ calls = "off" /\ edits = "off" /\ delivery = "off"
    /\ jobs = "off"

NoExec ==
    /\ driver = "off" /\ client = "off" /\ closed = "off" /\ pump = "off" /\ entry = "off"
    /\ queue = "off" /\ attach = "off" /\ bash = "off" /\ shell = "off" /\ conn = "off"
    /\ toShell = "off" /\ fromShell = "off" /\ errs = "off" /\ got = "off" /\ sent = "off"
    /\ printed = "off"

NoMonitor ==
    /\ box = "off" /\ log = "off" /\ listed = "off" /\ streams = "off" /\ watching = "off"
    /\ scanned = "off" /\ dedup = "off" /\ upserts = "off" /\ checks = "off"
    /\ notes = "off" /\ channel = "off"

NoJournal ==
    /\ dbLevel = "off" /\ writers = "off" /\ rows = "off" /\ stream = "off"
    /\ rowsSent = "off" /\ count = "off"

Init ==
    \/ /\ part = "sessions" /\ S!Init
       /\ NoEnrolment /\ NoHook /\ NoExec /\ NoMonitor /\ NoJournal
    \/ /\ part = "enrolment" /\ E!Init
       /\ NoSession /\ NoHook /\ NoExec /\ NoMonitor /\ NoJournal
    \/ /\ part = "webhooks" /\ W!Init
       /\ NoSession /\ NoEnrolment /\ NoExec /\ NoMonitor /\ NoJournal
    \/ /\ part = "exec" /\ X!Init
       /\ NoSession /\ NoEnrolment /\ NoHook /\ NoMonitor /\ NoJournal
    \/ /\ part = "alerts" /\ L!Init
       /\ NoSession /\ NoEnrolment /\ NoHook /\ NoExec /\ NoJournal
    \/ /\ part = "journal" /\ J!Init
       /\ NoSession /\ NoEnrolment /\ NoHook /\ NoExec /\ NoMonitor

SessionsStep ==
    part = "sessions" /\ S!Next /\ UNCHANGED <<part, eVars, wVars, xVars, lVars, jVars>>

EnrolmentStep ==
    part = "enrolment" /\ E!Next /\ UNCHANGED <<part, sVars, wVars, xVars, lVars, jVars>>

WebhooksStep ==
    part = "webhooks" /\ W!Next /\ UNCHANGED <<part, sVars, eVars, xVars, lVars, jVars>>

ExecStep == part = "exec" /\ X!Next /\ UNCHANGED <<part, sVars, eVars, wVars, lVars, jVars>>

AlertsStep == part = "alerts" /\ L!Next /\ UNCHANGED <<part, sVars, eVars, wVars, xVars, jVars>>

JournalStep == part = "journal" /\ J!Next /\ UNCHANGED <<part, sVars, eVars, wVars, xVars, lVars>>

Next ==
    \/ SessionsStep \/ EnrolmentStep \/ WebhooksStep
    \/ ExecStep \/ AlertsStep \/ JournalStep

Spec == Init /\ [][Next]_vars

\* The fairness of ExecSession, asked of the part that has a session.
FairSpec ==
    /\ Spec
    /\ WF_xVars(part = "exec" /\ X!Feed) /\ WF_xVars(part = "exec" /\ X!Disconnect)
    /\ WF_xVars(part = "exec" /\ X!Detect) /\ WF_xVars(part = "exec" /\ X!Announce)
    /\ WF_xVars(part = "exec" /\ X!Hijack) /\ WF_xVars(part = "exec" /\ X!Await)
    /\ WF_xVars(part = "exec" /\ X!ReadMessage) /\ WF_xVars(part = "exec" /\ X!WriteShell)
    /\ WF_xVars(part = "exec" /\ X!ReadShell)
    /\ WF_xVars(part = "exec" /\ X!ToShellEnds) /\ WF_xVars(part = "exec" /\ X!FromShellEnds)

-----------------------------------------------------------------------------
(* Properties, each of the part that it is about *)

\* The type invariants of the modules.
TypeOK ==
    /\ part = "sessions" => S!TypeOK
    /\ part = "enrolment" => E!TypeOK
    /\ part = "webhooks" => W!TypeOK
    /\ part = "exec" => X!TypeOK
    /\ part = "alerts" => L!TypeOK
    /\ part = "journal" => J!TypeOK

\* Sessions: a request that finds the account off from its start to its end opens no session,
\* although auth/service.go looks at token, account and store in separate statements.
OffAccountsGetNoSession == part = "sessions" => S!OffAccountsGetNoSession

\* Sessions: tabs that refresh at the same time do not log the browser out.
TabsKeepTheSession == part = "sessions" => S!TabsKeepTheSession

\* Enrolment: every certificate in use has RenewBefore days left, less the days on which the
\* renewal job did not go through its list.
RenewalMargin == part = "enrolment" => E!RenewalMargin

\* Enrolment: a request that comes after the revocation of a worker gets no certificate for it.
NoCertAfterRevocation == part = "enrolment" => E!NoCertAfterRevocation

\* Webhooks: a delivery becomes a job only if secret, filter and switch admitted it at one moment.
JobsWereAdmitted == part = "webhooks" => W!JobsWereAdmitted

\* ExecSession: when the client has left, the process is gone or the session was closed, the
\* goroutine of the session ends.
SessionEnds == part = "exec" => X!SessionEnds

\* LogMonitor: at most one stream follows the container, the one that can be cancelled.
OneFollower == part = "alerts" => L!OneFollower

\* LogMonitor: however the goroutines that count and send interleave, a repeated error is sent
\* at most twice for one notification, unless an occurrence could not be counted.
AnnouncedAtMostTwice == part = "alerts" => L!AnnouncedAtMostTwice

\* Journal: a stream of the journal sends no row twice, and in the order of the ids.
RowsSentOnce == part = "journal" => J!RowsSentOnce
=============================================================================
