---------------------------- MODULE AgentRegistry ----------------------------
(***************************************************************************)
(* The connections of ONE remote worker to the plane: the gRPC handlers    *)
(* Server.Connect, the registry entry of the worker, the done channels of  *)
(* its connections, and its row in worker_nodes with the admin calls that  *)
(* revoke and delete it. Registry entries of other workers are separate    *)
(* keys of the same map.                                                   *)
(*                                                                         *)
(* The worker keeps one stream and dials again once it has lost it; the    *)
(* plane may learn of the loss long after that, from the keepalive. So     *)
(* several handlers of one worker can be at work, each of which registers  *)
(* at its start and unregisters the worker, by its id, at its end.         *)
(***************************************************************************)
EXTENDS Naturals

CONSTANTS
    Streams,     \* slots for handlers that are at work at the same time
    NoStream,    \* no entry in the registry
    MaxCalls,    \* revoke calls
    MaxCrashes   \* restarts of the plane

ASSUME RegistryAssumption ==
    /\ NoStream \notin Streams
    /\ MaxCalls \in Nat /\ MaxCrashes \in Nat

VARIABLES
    node,        \* status of the worker's row
    registered,  \* the stream whose connection the registry holds
    link,        \* link[s]: the stream itself
    handler,     \* handler[s]: progress of Connect
    done,        \* done[s]: is the done channel of the connection closed?
    delete,      \* progress of an admin's delete call
    budget       \* revoke calls and restarts left

vars == <<node, registered, link, handler, done, delete, budget>>

NodeStatus == {"pending", "connected", "disconnected", "revoked", "deleted"}
Stage      == {"none", "found", "greeting", "saved", "loop", "recv", "leaving", "closing"}

\* Between Register and the deferred Unregister.
Serving == Stage \ {"none", "found"}

TypeOK ==
    /\ node \in NodeStatus
    /\ registered \in Streams \cup {NoStream}
    /\ link \in [Streams -> {"down", "up", "lost"}]
    /\ handler \in [Streams -> Stage]
    /\ done \in [Streams -> BOOLEAN]
    /\ delete \in {"idle", "found"}
    /\ budget \in [calls : 0 .. MaxCalls, crash : 0 .. MaxCrashes]

Init ==
    /\ node = "pending"
    /\ registered = NoStream
    /\ link = [s \in Streams |-> "down"]
    /\ handler = [s \in Streams |-> "none"]
    /\ done = [s \in Streams |-> FALSE]
    /\ delete = "idle"
    /\ budget = [calls |-> MaxCalls, crash |-> MaxCrashes]

Goto(s, from, to) == handler[s] = from /\ handler' = [handler EXCEPT ![s] = to]

-----------------------------------------------------------------------------
(* Server.Connect *)

\* Mutant: a worker that counts as connected is refused.
Mut_Lookup(s) ==
    /\ \A t \in Streams : link[t] # "up"
    /\ node \in {"pending", "disconnected"}
    /\ Goto(s, "none", "found")
    /\ link' = [link EXCEPT ![s] = "up"]
    /\ UNCHANGED <<node, registered, done, delete, budget>>

\* The worker dials; the row must be there and not be revoked.
Lookup(s) ==
    /\ \A t \in Streams : link[t] # "up"
    /\ node \notin {"revoked", "deleted"}
    /\ Goto(s, "none", "found")
    /\ link' = [link EXCEPT ![s] = "up"]
    /\ UNCHANGED <<node, registered, done, delete, budget>>

\* The entry of an earlier connection is overwritten, its channel stays open.
Register(s) ==
    /\ Goto(s, "found", "greeting")
    /\ registered' = s
    /\ done' = [done EXCEPT ![s] = FALSE]
    /\ UNCHANGED <<node, link, delete, budget>>

\* Mutant: the status a listing shows for an open stream is stored.
Mut_Hello(s) ==
    /\ link[s] = "up"
    /\ Goto(s, "greeting", "saved")
    /\ node' = link[s]
    /\ UNCHANGED <<registered, link, done, delete, budget>>

\* db.Save of the copy read by Lookup: an upsert, which clears deleted_at, too.
Hello(s) ==
    /\ link[s] = "up"
    /\ Goto(s, "greeting", "saved")
    /\ node' = "connected"
    /\ UNCHANGED <<registered, link, done, delete, budget>>

\* The stream breaks, or its first message is no hello.
HelloFails(s) ==
    /\ Goto(s, "greeting", "closing")
    /\ link' = [link EXCEPT ![s] = "lost"]
    /\ UNCHANGED <<node, registered, done, delete, budget>>

AckHello(s) ==
    /\ \/ Goto(s, "saved", "loop")
       \/ link[s] = "lost" /\ Goto(s, "saved", "closing")
    /\ UNCHANGED <<node, registered, link, done, delete, budget>>

\* The context of a lost stream may not be cancelled yet.
Select(s) ==
    /\ \/ link[s] = "lost" /\ Goto(s, "loop", "leaving")
       \/ done[s] /\ Goto(s, "loop", "closing")
       \/ ~done[s] /\ Goto(s, "loop", "recv")
    /\ UNCHANGED <<node, registered, link, done, delete, budget>>

\* A heartbeat, or the answer to a command (module WorkerConn).
HandleMessage(s) ==
    /\ link[s] = "up"
    /\ Goto(s, "recv", "loop")
    /\ UNCHANGED <<node, registered, link, done, delete, budget>>

RecvFails(s) ==
    /\ link[s] = "lost"
    /\ Goto(s, "recv", "leaving")
    /\ UNCHANGED <<node, registered, link, done, delete, budget>>

MarkDisconnected(s) ==
    /\ Goto(s, "leaving", "closing")
    /\ node' = IF node = "deleted" THEN node ELSE "disconnected"
    /\ UNCHANGED <<registered, link, done, delete, budget>>

\* Mutant: the registered channel is closed, but only an own entry removed.
Mut_Unregister(s) ==
    /\ Goto(s, "closing", "none")
    /\ link' = [link EXCEPT ![s] = "down"]
    /\ done' = IF registered = NoStream THEN done ELSE [done EXCEPT ![registered] = TRUE]
    /\ registered' = IF registered = s THEN NoStream ELSE registered
    /\ UNCHANGED <<node, delete, budget>>

\* By the worker's id: whichever connection is registered is closed and removed.
Unregister(s) ==
    /\ Goto(s, "closing", "none")
    /\ link' = [link EXCEPT ![s] = "down"]
    /\ done' = IF registered = NoStream THEN done ELSE [done EXCEPT ![registered] = TRUE]
    /\ registered' = NoStream
    /\ UNCHANGED <<node, delete, budget>>

ConnectStep(s) ==
    \/ Register(s) \/ Hello(s) \/ HelloFails(s) \/ AckHello(s) \/ Select(s)
    \/ HandleMessage(s) \/ RecvFails(s) \/ MarkDisconnected(s) \/ Unregister(s)

-----------------------------------------------------------------------------
(* Admin calls and environment *)

Spend(what) == budget[what] > 0 /\ budget' = [budget EXCEPT ![what] = @ - 1]

Revoke ==
    /\ node # "deleted"
    /\ Spend("calls")
    /\ node' = "revoked"
    /\ UNCHANGED <<registered, link, handler, done, delete>>

FindRevoked ==
    /\ delete = "idle" /\ node = "revoked"
    /\ delete' = "found"
    /\ UNCHANGED <<node, registered, link, handler, done, budget>>

DeleteNode ==
    /\ delete = "found"
    /\ delete' = "idle"
    /\ node' = "deleted"
    /\ UNCHANGED <<registered, link, handler, done, budget>>

\* The worker restarts, its network fails, or the connection is half an hour old.
LoseStream(s) ==
    /\ link[s] = "up"
    /\ link' = [link EXCEPT ![s] = "lost"]
    /\ UNCHANGED <<node, registered, handler, done, delete, budget>>

\* The row keeps the status it has.
PlaneRestarts ==
    /\ Spend("crash")
    /\ registered' = NoStream
    /\ link' = [s \in Streams |-> "down"]
    /\ handler' = [s \in Streams |-> "none"]
    /\ done' = [s \in Streams |-> FALSE]
    /\ delete' = "idle"
    /\ UNCHANGED node

Next ==
    \/ \E s \in Streams : Lookup(s) \/ ConnectStep(s) \/ LoseStream(s)
    \/ Revoke \/ FindRevoked \/ DeleteNode \/ PlaneRestarts

Spec == Init /\ [][Next]_vars

\* The worker dials again and sends heartbeats, the keepalive finds lost streams,
\* and MaxConnectionAge ends every stream after half an hour.
FairSpec ==
    /\ Spec
    /\ WF_vars(\E s \in Streams : Lookup(s))
    /\ \A s \in Streams : WF_vars(ConnectStep(s)) /\ WF_vars(LoseStream(s))

-----------------------------------------------------------------------------
(* Properties *)

\* The registry never hands out a connection whose handler has ended or whose done
\* channel is closed; so no channel is closed twice, which would panic, although a
\* handler unregisters connections of others.
RegisteredIsServed ==
    registered # NoStream => handler[registered] \in Serving /\ ~done[registered]

\* A worker that keeps dialling is reachable again, unless it is revoked: whatever
\* handlers evict each other, and although its row may say "connected" all the time
\* because a handler that was closed by another one, or a crash, leaves it so.
ComesBack ==
    registered = NoStream ~> registered # NoStream \/ node \in {"revoked", "deleted"}

-----------------------------------------------------------------------------
(* Claims that the code does not keep *)

\* registry.go:183, IsConnected "returns true if the worker has an active stream": the
\* handler of an older stream removes the entry of the new one when it ends.
IsConnected == registered # NoStream
ActiveStreamIsConnected ==
    \A s \in Streams : link[s] = "up" /\ handler[s] \in {"loop", "recv"} => IsConnected

\* routes.go:29, "Permanently delete a revoked worker node": the handler of a stream
\* that was opened before saves its copy of the row.
DeletedIsPermanent == [][node = "deleted" => node' = "deleted"]_vars
=============================================================================
