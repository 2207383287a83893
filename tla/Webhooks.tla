------------------------------ MODULE Webhooks ------------------------------
(***************************************************************************)
(* A webhook of a project: the requests of a git provider that it          *)
(* receives, while members of the project change it.                       *)
(*                                                                         *)
(* A received request is handled in steps, with the row of the webhook as  *)
(* it was read first: verify the signature, compare the branch, store a    *)
(* delivery, insert a job, note it in the webhook. A client that goes away *)
(* cancels the context that the last three use.                            *)
(***************************************************************************)
EXTENDS Naturals, FiniteSets

CONSTANTS
    Calls,          \* requests of the provider, each arriving once
    Editors,        \* requests of members of the project, each arriving once
    Filters,        \* values of the branch filter; "" stands for "" and "*"
    MaxSecrets      \* bound: secrets generated

WebhooksAssumption ==
    /\ "" \in Filters
    /\ MaxSecrets \in Nat \ {0}

VARIABLES
    hook,       \* the row: does it exist, active, secret, branch, last_status
    member,     \* are the editors members of the project
    calls,      \* the received requests
    edits,      \* the requests of the members
    delivery,   \* the row of the delivery of a call
    jobs        \* calls that have a job in the queue

vars == <<hook, member, calls, edits, delivery, jobs>>

\* A stored secret is encrypted with the key of the application and decrypts to itself.
Secrets == 1 .. MaxSecrets

Webhook == [exists : BOOLEAN, active : BOOLEAN, secret : Secrets, branch : Filters,
            last : {"", "pending"}]

NewHook(filter) ==
    [exists |-> TRUE, active |-> TRUE, secret |-> 1, branch |-> filter, last |-> ""]

\* A request: the secret it is signed with, what parsePayload makes of its body, and whether
\* the body is longer than what the request logger hands on. A tag has no branch; a generic
\* body that is no JSON becomes a push without a branch.
Request == [secret : Secrets, event : {"ping", "push", "tag"}, branch : Filters, long : BOOLEAN]

Stage == {"away", "load", "judge", "record", "insert", "fail", "note"}
Answer == {"none", "ok", "pong", "skipped", "unauthorized", "accepted", "failed"}

NoCall == [at |-> "away", req |-> [secret |-> 1, event |-> "ping", branch |-> "", long |-> FALSE],
           hook |-> NewHook(""), answer |-> "none", gone |-> FALSE, admitted |-> FALSE]

TypeOK ==
    /\ hook \in Webhook
    /\ member \in BOOLEAN
    /\ calls \in [Calls -> [at : Stage, req : Request, hook : Webhook, answer : Answer,
                            gone : BOOLEAN, admitted : BOOLEAN]]
    /\ edits \in [Editors -> {"new", "loaded", "done"}]
    /\ delivery \in [Calls -> {"none", "pending", "failed"}]
    /\ jobs \subseteq Calls

Init ==
    /\ hook \in {NewHook(b) : b \in Filters}
    /\ member = TRUE
    /\ calls = [c \in Calls |-> NoCall]
    /\ edits = [e \in Editors |-> "new"]
    /\ delivery = [c \in Calls |-> "none"]
    /\ jobs = {}

-----------------------------------------------------------------------------
(* The requests of the provider. *)

\* The request logger reads the body up to its limit and hands on no more, so that no
\* signature matches a longer body; for GitLab, which sends a token, the rest does not parse.
Verified(secret, req) == req.secret = secret /\ ~req.long

\* Mutant: the branch filter is read again instead of taken from the loaded row.
Mut_MatchesBranch(loaded, branch) == hook.branch = "" \/ hook.branch = branch

MatchesBranch(loaded, branch) == loaded.branch = "" \/ loaded.branch = branch

\* Would a webhook whose row is h accept the request?
Admits(h, req) ==
    /\ h.exists /\ h.active
    /\ Verified(h.secret, req) /\ req.event # "ping"
    /\ h.branch = "" \/ h.branch = req.branch

Arrive(c) ==
    \E req \in Request :
      /\ calls[c].at = "away" /\ calls[c].answer = "none"
      /\ req.secret <= hook.secret
      /\ req.event # "push" => req.branch = ""
      /\ calls' = [calls EXCEPT ![c] = [NoCall EXCEPT !.at = "load", !.req = req,
                                        !.admitted = Admits(hook, req)]]
      /\ UNCHANGED <<hook, member, edits, delivery, jobs>>

\* The provider gives up waiting: the context of the request is cancelled.
Leave(c) ==
    /\ calls[c].at # "away" /\ ~calls[c].gone
    /\ calls' = [calls EXCEPT ![c].gone = TRUE]
    /\ UNCHANGED <<hook, member, edits, delivery, jobs>>

At(c, stage) == calls[c].at = stage

Goto(c, stage) == calls' = [calls EXCEPT ![c].at = stage]

Reply(c, answer) == calls' = [calls EXCEPT ![c] = [NoCall EXCEPT !.answer = answer,
                                                   !.admitted = calls[c].admitted]]

\* A row that is not found, or cannot be read any more, gets the same answer as a ping.
LoadActive(c) ==
    /\ At(c, "load")
    /\ IF hook.exists /\ hook.active /\ ~calls[c].gone
       THEN calls' = [calls EXCEPT ![c].at = "judge", ![c].hook = hook]
       ELSE Reply(c, "ok")
    /\ UNCHANGED <<hook, member, edits, delivery, jobs>>

Receive(c) ==
    LET req == calls[c].req
    IN /\ At(c, "judge")
       /\ IF ~Verified(calls[c].hook.secret, req) THEN Reply(c, "unauthorized")
          ELSE IF req.event = "ping" THEN Reply(c, "pong")
          ELSE IF ~MatchesBranch(calls[c].hook, req.branch) THEN Reply(c, "skipped")
          ELSE Goto(c, "record")
       /\ UNCHANGED <<hook, member, edits, delivery, jobs>>

\* That the row could not be stored is not noticed.
CreateDelivery(c) ==
    /\ At(c, "record")
    /\ delivery' = IF calls[c].gone THEN delivery ELSE [delivery EXCEPT ![c] = "pending"]
    /\ Goto(c, "insert")
    /\ UNCHANGED <<hook, member, edits, jobs>>

EnqueueWebhookDeploy(c) ==
    /\ At(c, "insert")
    /\ \/ ~calls[c].gone /\ jobs' = jobs \cup {c} /\ Goto(c, "note")
       \/ jobs' = jobs /\ Goto(c, "fail")
    /\ UNCHANGED <<hook, member, edits, delivery>>

\* With the context of the request: after a client that went away the delivery stays pending.
UpdateDelivery(c) ==
    /\ At(c, "fail")
    /\ delivery' = IF calls[c].gone \/ delivery[c] = "none" THEN delivery
                   ELSE [delivery EXCEPT ![c] = "failed"]
    /\ Reply(c, "failed")
    /\ UNCHANGED <<hook, member, edits, jobs>>

UpdateLastTriggered(c) ==
    /\ At(c, "note")
    /\ hook' = IF calls[c].gone \/ ~hook.exists THEN hook ELSE [hook EXCEPT !.last = "pending"]
    /\ Reply(c, "accepted")
    /\ UNCHANGED <<member, edits, delivery, jobs>>

-----------------------------------------------------------------------------
(* The requests of the members. *)

Expel ==
    /\ member
    /\ member' = FALSE
    /\ UNCHANGED <<hook, calls, edits, delivery, jobs>>

\* CheckProjectAccess and Load; what follows goes by the id alone.
LoadForEdit(e) ==
    /\ edits[e] = "new"
    /\ edits' = [edits EXCEPT ![e] = IF member /\ hook.exists THEN "loaded" ELSE "done"]
    /\ UNCHANGED <<hook, member, calls, delivery, jobs>>

\* An update of some columns of the row, if it is still there. The requests on their way see
\* the row as it is from now on, if they read it from now on.
SetColumns(e, h) ==
    /\ edits[e] = "loaded"
    /\ edits' = [edits EXCEPT ![e] = "done"]
    /\ hook' = IF hook.exists THEN h ELSE hook
    /\ calls' = [c \in Calls |-> [calls[c] EXCEPT !.admitted =
                   @ \/ (At(c, "load") /\ Admits(hook', calls[c].req))]]
    /\ UNCHANGED <<member, delivery, jobs>>

Update(e) ==
    \/ \E b \in Filters : SetColumns(e, [hook EXCEPT !.branch = b])
    \/ \E on \in BOOLEAN : SetColumns(e, [hook EXCEPT !.active = on])

RotateSecret(e) ==
    hook.secret < MaxSecrets /\ SetColumns(e, [hook EXCEPT !.secret = @ + 1])

Delete(e) == SetColumns(e, [hook EXCEPT !.exists = FALSE])

Next ==
    \/ \E c \in Calls : \/ Arrive(c) \/ Leave(c) \/ LoadActive(c) \/ Receive(c)
                        \/ CreateDelivery(c) \/ EnqueueWebhookDeploy(c)
                        \/ UpdateDelivery(c) \/ UpdateLastTriggered(c)
    \/ Expel
    \/ \E e \in Editors : LoadForEdit(e) \/ Update(e) \/ RotateSecret(e) \/ Delete(e)

Spec == Init /\ [][Next]_vars

-----------------------------------------------------------------------------
(* Properties. *)

\* A request has a job only if at one moment before its row was read the webhook was active,
\* had the secret it is signed with and a filter that its branch passes, all at once: a
\* rotation and a change of the filter that overlap with it are not mixed.
JobsWereAdmitted == \A c \in jobs : calls[c].admitted
=============================================================================
