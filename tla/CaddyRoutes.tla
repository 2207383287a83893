---------------------------- MODULE CaddyRoutes ----------------------------
(***************************************************************************)
(* The routes of Caddy as the plane writes them through the admin API.     *)
(*                                                                         *)
(* A start of the plane replaces the whole configuration, then registers   *)
(* the three routes of the dashboard; the first route that matches a       *)
(* request takes it, so their order matters. Jobs add, move and remove the *)
(* routes of services: each is one call after another, a new route is put  *)
(* at the index that was the number of routes a call ago, and calls may    *)
(* fail.                                                                   *)
(***************************************************************************)
EXTENDS Naturals, Sequences, Functions

CONSTANTS
    Services,
    MaxJobs,        \* bound: calls of the ingress adapter
    MaxStarts,      \* bound: starts of the plane
    MaxFaults       \* bound: calls of the admin API that fail

Dashboard == <<"api", "docs", "ui">>

CaddyRoutesAssumption ==
    /\ Services \cap Range(Dashboard) = {}
    /\ MaxJobs \in Nat /\ MaxStarts \in Nat \ {0} /\ MaxFaults \in Nat

VARIABLES
    routes,     \* the routes of the server tidefly-plane, first match first
    boot,       \* the dashboard routes that the start of the plane still has to register
    task,       \* task[i]: the calls that work on the route with the id i
    asked,      \* history: where the last task that succeeded since the start led the route
    mishap,     \* history: an update or a count failed although the route or the list was there
    left        \* bounds: jobs, starts and faults that are left

vars == <<routes, boot, task, asked, mishap, left>>

Ids == Services \cup Range(Dashboard)

Upstreams == {"none", "blue", "green"}

Route == [id : Ids, to : Upstreams]

Idle == [at |-> "idle", to |-> "none", index |-> 0]

MaxRoutes == Len(Dashboard) + MaxJobs + MaxStarts * Len(Dashboard)

TypeOK ==
    /\ routes \in Seq(Route) /\ Len(routes) <= MaxRoutes
    /\ boot \in Seq(Range(Dashboard))
    /\ task \in [Ids -> [at : {"idle", "delete", "drop", "patch", "count", "put"},
                         to : Upstreams, index : 0 .. MaxRoutes]]
    /\ asked \in [Services -> Upstreams]
    /\ mishap \in BOOLEAN
    /\ left \in [jobs : 0 .. MaxJobs, starts : 0 .. MaxStarts, faults : 0 .. MaxFaults]

Init ==
    /\ routes = <<>> /\ boot = <<>>
    /\ task = [i \in Ids |-> Idle]
    /\ asked = [s \in Services |-> "none"]
    /\ mishap = FALSE
    /\ left = [jobs |-> MaxJobs, starts |-> MaxStarts, faults |-> MaxFaults]

Goto(i, stage) == task' = [task EXCEPT ![i].at = stage]

End(i) == task' = [task EXCEPT ![i] = Idle]

Spend(what) == left[what] > 0 /\ left' = [left EXCEPT ![what] = @ - 1]

\* An @id of the admin API stands for a route that has it.
Known(i) == \E n \in DOMAIN routes : routes[n].id = i

\* asked after the task of i succeeded.
Succeeded(i) == IF i \in Services THEN [asked EXCEPT ![i] = task[i].to] ELSE asked

-----------------------------------------------------------------------------
(* The start of the plane. *)

\* Run: everything that was under way is gone. The bootstrap replaces the configuration with
\* one that has no route; when it fails, the plane goes on with the routes there are.
Bootstrap ==
    /\ \/ Spend("starts") /\ routes' = <<>>
       \/ left.starts > 0 /\ left.faults > 0 /\ UNCHANGED routes
          /\ left' = [left EXCEPT !.starts = @ - 1, !.faults = @ - 1]
    /\ boot' = Dashboard
    /\ task' = [i \in Ids |-> Idle]
    /\ asked' = [s \in Services |-> "none"]
    /\ UNCHANGED mishap

Registering == \E i \in Range(Dashboard) : task[i].at # "idle"

\* The routes with a path come before the one that takes the rest.
RegisterDashboard ==
    /\ boot # <<>> /\ ~Registering
    /\ task' = [task EXCEPT ![Head(boot)].at = "patch"]
    /\ boot' = Tail(boot)
    /\ UNCHANGED <<routes, asked, mishap, left>>

-----------------------------------------------------------------------------
(* The calls of the admin API. *)

ReplaceRoute(n, to) == [routes EXCEPT ![n].to = to]

\* PATCH of the id: replaces the route if there is one.
Patch(i) ==
    /\ task[i].at = "patch"
    /\ \/ /\ \E n \in DOMAIN routes :
               routes[n].id = i /\ routes' = ReplaceRoute(n, task[i].to)
          /\ End(i)
          /\ asked' = Succeeded(i)
       \/ ~Known(i) /\ Goto(i, "count") /\ UNCHANGED <<routes, asked>>
    /\ UNCHANGED <<boot, mishap, left>>

\* Any error of the PATCH counts as a route that is not there.
PatchFails(i) ==
    /\ task[i].at = "patch" /\ Spend("faults")
    /\ Goto(i, "count")
    /\ mishap' = (mishap \/ Known(i))
    /\ UNCHANGED <<routes, boot, asked>>

ToPut(i, index) == [at |-> "put", to |-> task[i].to, index |-> index]

\* Mutant: the count is one too small.
Mut_RouteCount(i) ==
    /\ task[i].at = "count"
    /\ task' = [task EXCEPT ![i] = ToPut(i, IF routes = <<>> THEN 0 ELSE Len(routes) - 1)]
    /\ UNCHANGED <<routes, boot, asked, mishap, left>>

RouteCount(i) ==
    /\ task[i].at = "count"
    /\ task' = [task EXCEPT ![i] = ToPut(i, Len(routes))]
    /\ UNCHANGED <<routes, boot, asked, mishap, left>>

\* A count that fails is taken for zero.
CountFails(i) ==
    /\ task[i].at = "count" /\ Spend("faults")
    /\ task' = [task EXCEPT ![i] = ToPut(i, 0)]
    /\ mishap' = TRUE
    /\ UNCHANGED <<routes, boot, asked>>

\* PUT inserts at the index.
WithRoute(rs, n, r) == SubSeq(rs, 1, n - 1) \o <<r>> \o SubSeq(rs, n, Len(rs))

Put(i) ==
    /\ task[i].at = "put" /\ task[i].index <= Len(routes)
    /\ routes' = WithRoute(routes, task[i].index + 1, [id |-> i, to |-> task[i].to])
    /\ End(i)
    /\ asked' = Succeeded(i)
    /\ UNCHANGED <<boot, mishap, left>>

\* Caddy refuses an index past the end. The first route of the dashboard that cannot be put
\* ends the registration; a job goes on without its route.
PutRefused(i) ==
    /\ task[i].at = "put"
    /\ \/ task[i].index > Len(routes) /\ UNCHANGED left
       \/ Spend("faults")
    /\ End(i)
    /\ boot' = IF i \in Services THEN boot ELSE <<>>
    /\ asked' = IF i \in Services THEN [asked EXCEPT ![i] = "none"] ELSE asked
    /\ UNCHANGED <<routes, mishap>>

WithoutRoute(rs, n) == SubSeq(rs, 1, n - 1) \o SubSeq(rs, n + 1, Len(rs))

\* DELETE of the id; drop is the one of an update, whose error is ignored.
RemoveRoute(i) ==
    /\ task[i].at \in {"delete", "drop"}
    /\ \/ /\ \E n \in DOMAIN routes : routes[n].id = i /\ routes' = WithoutRoute(routes, n)
          /\ UNCHANGED left
       \/ ~Known(i) /\ UNCHANGED <<routes, left>>
       \/ Spend("faults") /\ UNCHANGED routes
    /\ IF task[i].at = "drop" THEN Goto(i, "patch") ELSE End(i)
    /\ UNCHANGED <<boot, asked, mishap>>

-----------------------------------------------------------------------------
(* The calls of the ingress adapter, which the jobs and the reconciler make. *)

Started == left.starts < MaxStarts /\ boot = <<>> /\ ~Registering

AdapterCall(s, stage, to) ==
    /\ Started /\ task[s] = Idle /\ Spend("jobs")
    /\ task' = [task EXCEPT ![s] = [at |-> stage, to |-> to, index |-> 0]]
    /\ asked' = [asked EXCEPT ![s] = "none"]
    /\ UNCHANGED <<routes, boot, mishap>>

AddRoute(s) == \E to \in Upstreams \ {"none"} : AdapterCall(s, "patch", to)

\* UpdateRoute removes the route and adds it.
UpdateRoute(s) == \E to \in Upstreams \ {"none"} : AdapterCall(s, "drop", to)

DeleteRoute(s) == AdapterCall(s, "delete", "none")

-----------------------------------------------------------------------------
Next ==
    \/ Bootstrap \/ RegisterDashboard
    \/ \E i \in Ids : \/ Patch(i) \/ PatchFails(i) \/ RouteCount(i) \/ CountFails(i)
                      \/ Put(i) \/ PutRefused(i) \/ RemoveRoute(i)
    \/ \E s \in Services : AddRoute(s) \/ UpdateRoute(s) \/ DeleteRoute(s)

Spec == Init /\ [][Next]_vars

-----------------------------------------------------------------------------
(* Properties. *)

\* Requests go where they are meant to, unless a PATCH or a count failed. The routes of the
\* dashboard with a path come before the one that takes every path, whatever routes of services
\* come and go; and the first route of a service leads where the last successful call since the
\* start of the plane wanted it, although calls for other services move the indexes.
RequestsGoWhereAsked ==
    ~mishap =>
        /\ \A m, n \in DOMAIN routes :
               routes[m].id = "ui" /\ routes[n].id \in {"api", "docs"} => n < m
        /\ \A s \in Services : asked[s] # "none" =>
               /\ Known(s)
               /\ \A n \in DOMAIN routes : routes[n].id = s => routes[n].to = asked[s]
=============================================================================
