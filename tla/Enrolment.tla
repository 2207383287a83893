----------------------------- MODULE Enrolment -----------------------------
(***************************************************************************)
(* Registration of workers and the internal certificate authority.         *)
(*                                                                         *)
(* A registration token is looked up and consumed in two statements, then  *)
(* a certificate is issued and the worker row created. Certificates of     *)
(* workers and of the plane are rows; a daily job issues a successor for   *)
(* each that comes close to its end and links the two. Requests, the job,  *)
(* days and crashes of the plane interleave.                               *)
(***************************************************************************)
EXTENDS Naturals, Sequences

CONSTANTS
    Workers, RegTokens,
    Calls,          \* the requests that can be under way at a time
    Nobody,
    Validity,       \* certValidityDays
    RenewBefore,    \* renewBeforeDays
    MaxCerts,       \* bound: certificates issued
    LastDay,        \* bound: days
    MaxStops        \* bound: crashes of the plane

EnrolmentAssumption ==
    /\ Nobody \notin Workers
    /\ Validity \in Nat /\ RenewBefore \in 1 .. Validity
    /\ MaxCerts \in Nat \ {0} /\ LastDay \in Nat /\ MaxStops \in Nat

VARIABLES
    regToken,   \* registration tokens: is it valid, used, expired?
    node,       \* status of the worker rows, soft-deleted ones included
    certs,      \* the issued certificates, in the order of their ids
    call,       \* the requests
    job,        \* the renewal job: the certificates it has to renew, and the one of them whose
                \* successor is issued but not linked
    plane,      \* is the plane up, which certificate does it serve, how often did it stop
    today,
    missed      \* history: days since the renewal job last went through its list

vars == <<regToken, node, certs, call, job, plane, today, missed>>

Plane == Nobody

\* WorkerNode.Status before the first hello, or after an administrator acted on it.
NodeStatus == {"none", "pending", "revoked", "deleted"}

\* History: late says that the request came after the revocation of its worker was done.
Cert == [owner : Workers \cup {Plane}, notAfter : 0 .. LastDay + Validity, revoked : BOOLEAN,
         renewedTo : 0 .. MaxCerts, late : BOOLEAN]

Idle == [at |-> "idle", worker |-> Nobody, token |-> Nobody, late |-> FALSE]

NoJob == [at |-> "idle", todo |-> {}, old |-> 0, new |-> 0]

TypeOK ==
    /\ regToken \in [RegTokens -> {"none", "fresh", "used", "expired"}]
    /\ node \in [Workers -> NodeStatus]
    /\ certs \in Seq(Cert) /\ Len(certs) <= MaxCerts
    /\ call \in [Calls -> [at : {"idle", "token", "consume", "issue", "create", "renew", "status"},
                           worker : Workers \cup {Nobody}, token : RegTokens \cup {Nobody},
                           late : BOOLEAN]]
    /\ job \in [at : {"idle", "due", "running"}, todo : SUBSET (1 .. MaxCerts),
                old : 0 .. MaxCerts, new : 0 .. MaxCerts]
    /\ plane \in [up : BOOLEAN, cert : 0 .. MaxCerts, stops : 0 .. MaxStops]
    /\ today \in 0 .. LastDay
    /\ missed \in 0 .. LastDay

Init ==
    /\ regToken = [t \in RegTokens |-> "none"]
    /\ node = [w \in Workers |-> "none"]
    /\ certs = <<>>
    /\ call = [c \in Calls |-> Idle]
    /\ job = NoJob
    /\ plane = [up |-> FALSE, cert |-> 0, stops |-> 0]
    /\ today = 0 /\ missed = 0

-----------------------------------------------------------------------------
(* The certificate authority. *)

NewCert(owner, late) ==
    [owner |-> owner, notAfter |-> today + Validity, revoked |-> FALSE, renewedTo |-> 0,
     late |-> late]

IssueCert(owner, late) ==
    /\ Len(certs) < MaxCerts
    /\ certs' = Append(certs, NewCert(owner, late))

\* Certificates in use: neither revoked nor replaced by a successor.
Leaves == {i \in DOMAIN certs : ~certs[i].revoked /\ certs[i].renewedTo = 0}

\* Mutant: the job looks for certificates that have expired.
Mut_Expiring == {i \in Leaves : certs[i].notAfter < today}

\* The query asks for no order.
Expiring == {i \in Leaves : certs[i].notAfter < today + RenewBefore}

\* The renewal job runs at the start of the plane and then once a day.
RunRenewal ==
    /\ job.at = "due"
    /\ job' = [job EXCEPT !.at = "running", !.todo = Expiring]
    /\ UNCHANGED <<regToken, node, certs, call, plane, today, missed>>

RenewIssue ==
    /\ job.at = "running" /\ job.new = 0
    /\ \E i \in job.todo :
         /\ IssueCert(certs[i].owner, FALSE)
         /\ job' = [job EXCEPT !.old = i, !.new = Len(certs) + 1]
    /\ UNCHANGED <<regToken, node, call, plane, today, missed>>

RenewLink ==
    /\ job.new # 0
    /\ certs' = [certs EXCEPT ![job.old].renewedTo = job.new]
    /\ job' = [job EXCEPT !.todo = @ \ {job.old}, !.old = 0, !.new = 0]
    /\ UNCHANGED <<regToken, node, call, plane, today, missed>>

\* The first error ends the run, the certificates that are left wait a day.
RenewFails ==
    /\ job.at = "running" /\ job.todo # {}
    /\ job' = NoJob
    /\ UNCHANGED <<regToken, node, certs, call, plane, today, missed>>

RenewDone ==
    /\ job.at = "running" /\ job.todo = {}
    /\ job' = NoJob
    /\ missed' = 0
    /\ UNCHANGED <<regToken, node, certs, call, plane, today>>

RenewalJob == RunRenewal \/ RenewIssue \/ RenewLink \/ RenewFails \/ RenewDone

-----------------------------------------------------------------------------
(* Requests. *)

Start(c, r) == plane.up /\ call[c] = Idle /\ call' = [call EXCEPT ![c] = r]

Goto(c, stage) == call' = [call EXCEPT ![c].at = stage]

End(c) == call' = [call EXCEPT ![c] = Idle]

CreateToken(t) ==
    /\ plane.up /\ regToken[t] = "none"
    /\ regToken' = [regToken EXCEPT ![t] = "fresh"]
    /\ UNCHANGED <<node, certs, call, job, plane, today, missed>>

ExistsByID(w) == node[w] \notin {"none", "deleted"}

Register(c, w, t) ==
    /\ ~ExistsByID(w)
    /\ regToken[t] # "none"
    /\ Start(c, [Idle EXCEPT !.at = "token", !.worker = w, !.token = t])
    /\ UNCHANGED <<regToken, node, certs, job, plane, today, missed>>

LookUpToken(c) ==
    /\ call[c].at = "token"
    /\ IF regToken[call[c].token] = "fresh" THEN Goto(c, "consume") ELSE End(c)
    /\ UNCHANGED <<regToken, node, certs, job, plane, today, missed>>

\* The update does not look at the row again, so two registrations can use one token.
ConsumeToken(c) ==
    /\ call[c].at = "consume"
    /\ regToken' = [regToken EXCEPT ![call[c].token] = "used"]
    /\ Goto(c, "issue")
    /\ UNCHANGED <<node, certs, job, plane, today, missed>>

\* A certificate that cannot be issued ends the request, its token is spent.
RegisterIssue(c) ==
    /\ call[c].at = "issue"
    /\ \/ IssueCert(call[c].worker, FALSE) /\ Goto(c, "create")
       \/ End(c) /\ UNCHANGED certs
    /\ UNCHANGED <<regToken, node, job, plane, today, missed>>

\* The id of a soft-deleted row is still taken.
CreateWorker(c) ==
    LET w == call[c].worker IN
    /\ call[c].at = "create"
    /\ node' = IF node[w] = "none" THEN [node EXCEPT ![w] = "pending"] ELSE node
    /\ End(c)
    /\ UNCHANGED <<regToken, certs, job, plane, today, missed>>

\* Mutant: the request for a new certificate does not look at the status of the worker.
Mut_FindActive(w) == node[w] \in {"pending", "revoked"}

FindActive(w) == node[w] = "pending"

Renew(c, w) ==
    /\ FindActive(w)
    /\ Start(c, [Idle EXCEPT !.at = "renew", !.worker = w, !.late = (node[w] = "revoked")])
    /\ UNCHANGED <<regToken, node, certs, job, plane, today, missed>>

RenewCert(c) ==
    /\ call[c].at = "renew"
    /\ \/ IssueCert(call[c].worker, call[c].late)
       \/ UNCHANGED certs
    /\ End(c)
    /\ UNCHANGED <<regToken, node, job, plane, today, missed>>

RevokeCerts(c, w) ==
    /\ Start(c, [Idle EXCEPT !.at = "status", !.worker = w])
    /\ certs' = [i \in DOMAIN certs |->
                   IF certs[i].owner = w THEN [certs[i] EXCEPT !.revoked = TRUE] ELSE certs[i]]
    /\ UNCHANGED <<regToken, node, job, plane, today, missed>>

RevokeNode(c) ==
    LET w == call[c].worker IN
    /\ call[c].at = "status"
    /\ node' = IF ExistsByID(w) THEN [node EXCEPT ![w] = "revoked"] ELSE node
    /\ End(c)
    /\ UNCHANGED <<regToken, certs, job, plane, today, missed>>

DeleteNode(w) ==
    /\ plane.up /\ node[w] = "revoked"
    /\ node' = [node EXCEPT ![w] = "deleted"]
    /\ UNCHANGED <<regToken, certs, call, job, plane, today, missed>>

CallStep(c) ==
    \/ \E w \in Workers :
        \/ \E t \in RegTokens : Register(c, w, t)
        \/ Renew(c, w) \/ RevokeCerts(c, w)
    \/ LookUpToken(c) \/ ConsumeToken(c) \/ RegisterIssue(c) \/ CreateWorker(c)
    \/ RenewCert(c) \/ RevokeNode(c)

-----------------------------------------------------------------------------
(* The plane and the days. *)

\* Every start issues a certificate for the server and runs the renewal job.
StartPlane ==
    /\ ~plane.up
    /\ IssueCert(Plane, FALSE)
    /\ plane' = [plane EXCEPT !.up = TRUE, !.cert = Len(certs) + 1]
    /\ job' = [NoJob EXCEPT !.at = "due"]
    /\ UNCHANGED <<regToken, node, call, today, missed>>

StopPlane ==
    /\ plane.up /\ plane.stops < MaxStops
    /\ plane' = [plane EXCEPT !.up = FALSE, !.cert = 0, !.stops = @ + 1]
    /\ job' = NoJob
    /\ call' = [c \in Calls |-> Idle]
    /\ UNCHANGED <<regToken, node, certs, today, missed>>

ExpireToken(t) ==
    /\ regToken[t] = "fresh"
    /\ regToken' = [regToken EXCEPT ![t] = "expired"]
    /\ UNCHANGED <<node, certs, call, job, plane, today, missed>>

\* A run of the job takes less than a day.
NextDay ==
    /\ job.at = "idle" /\ today < LastDay
    /\ today' = today + 1
    /\ missed' = missed + 1
    /\ job' = IF plane.up THEN [NoJob EXCEPT !.at = "due"] ELSE NoJob
    /\ UNCHANGED <<regToken, node, certs, call, plane>>

Next ==
    \/ \E c \in Calls : CallStep(c)
    \/ \E t \in RegTokens : CreateToken(t) \/ ExpireToken(t)
    \/ \E w \in Workers : DeleteNode(w)
    \/ RenewalJob
    \/ StartPlane \/ StopPlane \/ NextDay

Spec == Init /\ [][Next]_vars

-----------------------------------------------------------------------------
(* Properties. *)

\* The job leaves every certificate in use RenewBefore days: failed runs, crashes between the
\* issue of a successor and its link, and days without the plane eat into them one by one.
RenewalMargin == \A i \in Leaves : certs[i].notAfter + missed >= today + RenewBefore

\* A request that comes after the revocation of a worker was done gets no certificate for it.
NoCertAfterRevocation == \A i \in DOMAIN certs : ~certs[i].late

\* What the renewal job promises: the certificate that the plane serves has not expired.
ServedCertIsValid == plane.up => certs[plane.cert].notAfter >= today
=============================================================================
