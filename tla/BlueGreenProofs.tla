-------------------------- MODULE BlueGreenProofs --------------------------
(***************************************************************************)
(* Blue-green deployments, for any number of versions, exits and crashes:  *)
(* types; one deployment at a time implements Rollout; and it leaves one   *)
(* slot.                                                                   *)
(***************************************************************************)
EXTENDS BlueGreen, TLAPS

RowRecord == [status : Status, active : Slots \cup {"none"}, ver : Versions, asked : Versions]
BoxRecord == [state : BoxState, ver : Versions]
DepRecord == [at : DepStage, slot : Slots \cup {"none"}, ver : Versions]
HcRecord  == [at : {"idle", "queried", "restart", "removed"}, ver : Versions, status : Status]
RecRecord == [at : {"idle", "queried", "heal", "removed"}, ver : Versions]
BudgetRecord == [fault : 0 .. MaxFaults, crash : 0 .. MaxCrashes, exit : 0 .. MaxExits]

\* The first version is one.
LEMMA FirstVersion == ASSUME BlueGreenAssumption PROVE 1 \in Versions
<1>1. MaxVersion \in Nat \ {0}
  BY DEF BlueGreenAssumption
<1> QED
  BY <1>1 DEF Versions

\* What the steps make of the row.
LEMMA RowTypes ==
    ASSUME NEW r \in RowRecord
    PROVE  /\ \A s \in Status : [r EXCEPT !.status = s] \in RowRecord
           /\ \A s \in Status, v \in Versions : [r EXCEPT !.status = s, !.asked = v] \in RowRecord
           /\ \A s \in Status, v \in Versions : [r EXCEPT !.status = s, !.ver = v] \in RowRecord
           /\ \A x \in Slots : [r EXCEPT !.active = x] \in RowRecord
           /\ r.status \in Status /\ r.active \in Slots \cup {"none"}
           /\ r.ver \in Versions /\ r.asked \in Versions
  BY DEF RowRecord

\* What the steps make of a container.
LEMMA BoxTypes ==
    ASSUME BlueGreenAssumption
    PROVE  /\ Absent \in BoxRecord
           /\ \A v \in Versions : [state |-> "running", ver |-> v] \in BoxRecord
           /\ \A b \in BoxRecord : [b EXCEPT !.state = "down"] \in BoxRecord
  BY FirstVersion DEF Absent, BoxRecord, BoxState

\* What the steps make of the progress of a job.
LEMMA DepTypes ==
    ASSUME NEW r \in DepRecord
    PROVE  /\ \A s \in DepStage : [r EXCEPT !.at = s] \in DepRecord
           /\ \A s \in DepStage, x \in Slots \cup {"none"} :
                [r EXCEPT !.at = s, !.slot = x] \in DepRecord
           /\ \A v \in Versions : [at |-> "queued", slot |-> "none", ver |-> v] \in DepRecord
           /\ r.at \in DepStage /\ r.slot \in Slots \cup {"none"} /\ r.ver \in Versions
  BY DEF DepRecord, DepStage

\* What the steps make of the progress of the healers.
LEMMA HealerTypes ==
    ASSUME NEW h \in HcRecord, NEW r \in RecRecord
    PROVE  /\ \A s \in {"idle", "queried", "restart", "removed"} : [h EXCEPT !.at = s] \in HcRecord
           /\ \A s \in {"idle", "queried", "heal", "removed"} : [r EXCEPT !.at = s] \in RecRecord
           /\ \A v \in Versions, s \in Status : [at |-> "queried", ver |-> v, status |-> s] \in HcRecord
           /\ \A v \in Versions : [at |-> "queried", ver |-> v] \in RecRecord
           /\ h.ver \in Versions /\ r.ver \in Versions
  BY DEF HcRecord, RecRecord

\* A failure, a crash or an exit leaves one less of its kind.
LEMMA SpendTypes ==
    ASSUME BlueGreenAssumption, budget \in BudgetRecord, NEW what \in {"fault", "crash", "exit"},
           Spend(what)
    PROVE  budget' \in BudgetRecord
<1>1. MaxFaults \in Nat /\ MaxCrashes \in Nat /\ MaxExits \in Nat
  BY DEF BlueGreenAssumption
<1>2. CASE what = "fault"
  BY <1>1, <1>2 DEF Spend, BudgetRecord
<1>3. CASE what = "crash"
  BY <1>1, <1>3 DEF Spend, BudgetRecord
<1>4. CASE what = "exit"
  BY <1>1, <1>4 DEF Spend, BudgetRecord
<1> QED
  BY <1>2, <1>3, <1>4

\* The type invariant in terms of these records.
Typed ==
    /\ row \in RowRecord
    /\ box \in [Names -> BoxRecord]
    /\ upstream \in Names \cup {"none"}
    /\ dep \in [Deployers -> DepRecord]
    /\ hc \in HcRecord /\ rec \in RecRecord
    /\ budget \in BudgetRecord

\* It is the same.
LEMMA TypedIsTypeOK == Typed <=> TypeOK
  BY DEF Typed, TypeOK, RowRecord, BoxRecord, DepRecord, HcRecord, RecRecord, BudgetRecord

\* The slots, and the names of their containers.
LEMMA SlotTypes ==
    ASSUME Typed, NEW d \in Deployers
    PROVE  /\ NewName(d) \in Slots /\ NewName(d) \in Names
           /\ OldName(d) \in Names /\ OldName(d) # NewName(d)
           /\ NextSlot(dep[d].slot) \in Slots
<1>1. dep[d].slot \in Slots \cup {"none"}
  BY DepTypes DEF Typed
<1> QED
  BY <1>1 DEF NewName, OldName, NextSlot, SlotName, Slots, Names

\* A job that goes on to another stage stays well typed.
LEMMA GotoTypes ==
    ASSUME Typed, NEW d \in Deployers, NEW s \in DepStage, Goto(d, s)
    PROVE  dep' \in [Deployers -> DepRecord]
<1>1. dep' = [dep EXCEPT ![d] = [dep[d] EXCEPT !.at = s]] /\ dep[d] \in DepRecord
  BY DEF Goto, Typed
<1>2. [dep[d] EXCEPT !.at = s] \in DepRecord
  BY <1>1, DepTypes
<1> QED
  BY <1>1, <1>2 DEF Typed

\* Steps of a redeploy job.
LEMMA JobTypes ==
    ASSUME BlueGreenAssumption, Typed, NEW d \in Deployers, Redeploy(d) \/ JobStep(d)
    PROVE  Typed'
<1>0. /\ dep[d] \in DepRecord /\ dep[d].ver \in Versions
      /\ "queued" \in DepStage /\ "idle" \in DepStage /\ "loaded" \in DepStage
      /\ "cleared" \in DepStage /\ "created" \in DepStage /\ "healthy" \in DepStage
      /\ "unrouted" \in DepStage /\ "routed" \in DepStage /\ "removed" \in DepStage
      /\ "marked" \in DepStage
      /\ "running" \in Status /\ "deploying" \in Status /\ "failed" \in Status
  BY DepTypes DEF Typed, DepStage, Status
<1>r. ASSUME RollBack(d)
      PROVE  row' \in RowRecord /\ box' \in [Names -> BoxRecord] /\ dep' \in [Deployers -> DepRecord]
  <2>1. row' \in RowRecord
    BY <1>0, <1>r, RowTypes DEF RollBack, Typed
  <2>2. box' \in [Names -> BoxRecord]
    BY <1>r, BoxTypes DEF RollBack, Typed
  <2>3. dep' \in [Deployers -> DepRecord]
    BY <1>0, <1>r, GotoTypes DEF RollBack
  <2> QED
    BY <2>1, <2>2, <2>3
<1>1. CASE Redeploy(d)
  <2>1. row.asked + 1 \in Versions
    <3>1. row.asked \in Versions /\ row.asked < MaxVersion
      BY <1>1, RowTypes DEF Typed, Redeploy
    <3>2. MaxVersion \in Nat
      BY DEF BlueGreenAssumption
    <3> QED
      BY <3>1, <3>2 DEF Versions
  <2>2. row' = [row EXCEPT !.status = "deploying", !.asked = row.asked + 1]
    BY <1>1 DEF Redeploy
  <2>3. row' \in RowRecord
    BY <1>0, <2>1, <2>2, RowTypes DEF Typed
  <2>4. dep' = [dep EXCEPT ![d] = [at |-> "queued", slot |-> "none", ver |-> row'.asked]]
    BY <1>1 DEF Redeploy
  <2>5. [at |-> "queued", slot |-> "none", ver |-> row'.asked] \in DepRecord
    BY <1>0, <2>3, RowTypes, DepTypes
  <2>6. dep' \in [Deployers -> DepRecord]
    BY <2>4, <2>5 DEF Typed
  <2> QED
    BY <1>1, <2>3, <2>6 DEF Redeploy, Typed
<1>2. CASE Load(d)
  <2>1. row' \in RowRecord /\ row.active \in Slots \cup {"none"}
    BY <1>0, <1>2, RowTypes DEF Load, Typed
  <2>2. dep' = [dep EXCEPT ![d] = [dep[d] EXCEPT !.at = "loaded", !.slot = row.active]]
    BY <1>2 DEF Load, Typed
  <2>3. [dep[d] EXCEPT !.at = "loaded", !.slot = row.active] \in DepRecord
    BY <1>0, <2>1, DepTypes
  <2>4. dep' \in [Deployers -> DepRecord]
    BY <2>2, <2>3 DEF Typed
  <2> QED
    BY <1>2, <2>1, <2>4 DEF Load, Typed
<1>3. CASE ClearSlot(d)
  <2>1. dep' \in [Deployers -> DepRecord] /\ box' \in [Names -> BoxRecord]
    BY <1>0, <1>3, GotoTypes, BoxTypes DEF ClearSlot, Typed
  <2> QED
    BY <1>3, <2>1 DEF ClearSlot, Typed
<1>4. CASE CreateSlot(d)
  <2>1. dep' \in [Deployers -> DepRecord] /\ box' \in [Names -> BoxRecord]
    BY <1>0, <1>4, GotoTypes, BoxTypes DEF CreateSlot, Typed
  <2> QED
    BY <1>4, <2>1 DEF CreateSlot, Typed
<1>5. CASE CreateSlotFails(d)
  <2>1. dep' \in [Deployers -> DepRecord] /\ row' \in RowRecord /\ budget' \in BudgetRecord
    BY <1>0, <1>5, GotoTypes, RowTypes, SpendTypes DEF CreateSlotFails, Typed
  <2> QED
    BY <1>5, <2>1 DEF CreateSlotFails, Typed
<1>6. CASE WaitHealthy(d)
  <2>1. /\ dep' \in [Deployers -> DepRecord] /\ row' \in RowRecord
        /\ box' \in [Names -> BoxRecord]
    BY <1>0, <1>6, <1>r, GotoTypes DEF WaitHealthy, Typed
  <2> QED
    BY <1>6, <2>1 DEF WaitHealthy, Typed
<1>7. CASE Unroute(d)
  <2>1. dep' \in [Deployers -> DepRecord] /\ budget' \in BudgetRecord
    BY <1>0, <1>7, GotoTypes, SpendTypes DEF Unroute, Typed
  <2> QED
    BY <1>7, <2>1 DEF Unroute, Typed
<1>8. CASE Route(d)
  <2>1. CASE /\ upstream' = NewName(d) /\ Goto(d, "routed") /\ UNCHANGED <<row, box, budget>>
    BY <1>0, <1>8, <2>1, GotoTypes, SlotTypes DEF Route, Typed
  <2>2. CASE Spend("fault") /\ RollBack(d) /\ UNCHANGED upstream
    BY <1>8, <2>2, <1>r, SpendTypes DEF Route, Typed
  <2> QED
    BY <1>8, <2>1, <2>2 DEF Route
<1>9. CASE RemoveOld(d)
  <2>1. /\ dep' \in [Deployers -> DepRecord] /\ box' \in [Names -> BoxRecord]
        /\ budget' \in BudgetRecord
    BY <1>0, <1>9, GotoTypes, BoxTypes, SpendTypes DEF RemoveOld, Typed
  <2> QED
    BY <1>9, <2>1 DEF RemoveOld, Typed
<1>10. CASE MarkSlot(d)
  <2>1. dep' \in [Deployers -> DepRecord] /\ row' \in RowRecord
    BY <1>0, <1>10, GotoTypes, RowTypes, SlotTypes DEF MarkSlot, Typed
  <2> QED
    BY <1>10, <2>1 DEF MarkSlot, Typed
<1>11. CASE Commit(d)
  <2>1. dep' \in [Deployers -> DepRecord] /\ row' \in RowRecord
    BY <1>0, <1>11, GotoTypes, RowTypes DEF Commit, Typed
  <2> QED
    BY <1>11, <2>1 DEF Commit, Typed
<1> QED
  BY <1>1, <1>2, <1>3, <1>4, <1>5, <1>6, <1>7, <1>8, <1>9, <1>10, <1>11 DEF JobStep

\* Steps of the health check.
LEMMA HealthTypes ==
    ASSUME BlueGreenAssumption, Typed, HealthCheckStep PROVE Typed'
<1>0. /\ hc \in HcRecord /\ rec \in RecRecord /\ hc.ver \in Versions
      /\ row.ver \in Versions /\ row.status \in Status
      /\ "running" \in Status /\ "failed" \in Status
  BY HealerTypes, RowTypes DEF Typed, Status
<1>1. CASE HcQuery
  <2>1. hc' \in HcRecord
    BY <1>0, <1>1, HealerTypes DEF HcQuery
  <2> QED
    BY <1>1, <2>1 DEF HcQuery, Typed
<1>2. CASE HcList
  <2>1. hc' \in HcRecord /\ row' \in RowRecord
    BY <1>0, <1>2, HealerTypes, RowTypes DEF HcList, Typed
  <2> QED
    BY <1>2, <2>1 DEF HcList, Typed
<1>3. CASE HcRemove
  <2>1. hc' \in HcRecord /\ box' \in [Names -> BoxRecord] /\ budget' \in BudgetRecord
    BY <1>0, <1>3, HealerTypes, BoxTypes, SpendTypes DEF HcRemove, Typed
  <2> QED
    BY <1>3, <2>1 DEF HcRemove, Typed
<1>4. CASE HcCreate
  <2>1. /\ hc' \in HcRecord /\ row' \in RowRecord /\ box' \in [Names -> BoxRecord]
        /\ budget' \in BudgetRecord
    BY <1>0, <1>4, HealerTypes, BoxTypes, RowTypes, SpendTypes DEF HcCreate, Typed
  <2> QED
    BY <1>4, <2>1 DEF HcCreate, Typed
<1> QED
  BY <1>1, <1>2, <1>3, <1>4 DEF HealthCheckStep

\* Steps of the reconciler.
LEMMA ReconcilerTypes ==
    ASSUME BlueGreenAssumption, Typed, ReconcilerStep PROVE Typed'
<1>0. /\ hc \in HcRecord /\ rec \in RecRecord /\ rec.ver \in Versions /\ row.ver \in Versions
      /\ "running" \in Status /\ "failed" \in Status
  BY HealerTypes, RowTypes DEF Typed, Status
<1>1. CASE RecQuery
  <2>1. rec' \in RecRecord
    BY <1>0, <1>1, HealerTypes DEF RecQuery
  <2> QED
    BY <1>1, <2>1 DEF RecQuery, Typed
<1>2. CASE RecDiff
  <2>1. rec' \in RecRecord /\ box' \in [Names -> BoxRecord]
    BY <1>0, <1>2, HealerTypes, BoxTypes DEF RecDiff, Typed
  <2> QED
    BY <1>2, <2>1 DEF RecDiff, Typed
<1>3. CASE RecHeal
  <2>1. rec' \in RecRecord
    BY <1>0, <1>3, HealerTypes DEF RecHeal
  <2>2. row' \in RowRecord
    BY <1>0, <1>3, RowTypes DEF RecHeal, Typed
  <2>3. box' \in [Names -> BoxRecord]
    BY <1>3, BoxTypes DEF RecHeal, Typed
  <2>4. budget' \in BudgetRecord
    BY <1>3, SpendTypes DEF RecHeal, Typed
  <2> QED
    BY <1>3, <2>1, <2>2, <2>3, <2>4 DEF RecHeal, Typed
<1>4. CASE RecCreate
  <2>1. /\ rec' \in RecRecord /\ row' \in RowRecord /\ box' \in [Names -> BoxRecord]
        /\ budget' \in BudgetRecord
    BY <1>0, <1>4, HealerTypes, BoxTypes, RowTypes, SpendTypes DEF RecCreate, Typed
  <2> QED
    BY <1>4, <2>1 DEF RecCreate, Typed
<1> QED
  BY <1>1, <1>2, <1>3, <1>4 DEF ReconcilerStep

\* Every step keeps the types.
LEMMA TypedStep == ASSUME BlueGreenAssumption, Typed, [Next]_vars PROVE Typed'
<1>1. CASE \E n \in Names : BoxExits(n)
  <2>1. PICK n \in Names : BoxExits(n)
    BY <1>1
  <2>2. box' = [box EXCEPT ![n] = [box[n] EXCEPT !.state = "down"]] /\ box[n] \in BoxRecord
    BY <2>1 DEF BoxExits, Typed
  <2>3. box' \in [Names -> BoxRecord]
    BY <2>2, BoxTypes DEF Typed
  <2>4. budget' \in BudgetRecord
    BY <2>1, SpendTypes DEF BoxExits, Typed
  <2> QED
    BY <2>1, <2>3, <2>4 DEF BoxExits, Typed
<1>2. CASE PlaneRestarts
  <2>1. \A d \in Deployers : dep[d] \in DepRecord /\ [dep[d] EXCEPT !.at = "queued"] \in DepRecord
    BY DepTypes DEF Typed, DepStage
  <2>2. dep' \in [Deployers -> DepRecord]
    BY <1>2, <2>1 DEF PlaneRestarts
  <2>3. hc' \in HcRecord /\ rec' \in RecRecord
    BY <1>2, HealerTypes DEF PlaneRestarts, Typed
  <2>4. budget' \in BudgetRecord
    BY <1>2, SpendTypes DEF PlaneRestarts, Typed
  <2> QED
    BY <1>2, <2>2, <2>3, <2>4 DEF PlaneRestarts, Typed
<1>3. CASE UNCHANGED vars
  BY <1>3 DEF vars, Typed
<1> QED
  BY <1>1, <1>2, <1>3, JobTypes, HealthTypes, ReconcilerTypes DEF Next, DeployNext

\* The initial state is well typed.
LEMMA TypedInit == ASSUME BlueGreenAssumption, Init PROVE Typed
<1>1. row \in RowRecord
  BY FirstVersion DEF Init, RowRecord, Status
<1>2. box \in [Names -> BoxRecord]
  BY FirstVersion, BoxTypes DEF Init
<1>3. dep \in [Deployers -> DepRecord]
  BY FirstVersion DEF Init, DepRecord, DepStage
<1>4. hc \in HcRecord /\ rec \in RecRecord
  BY FirstVersion DEF Init, HcRecord, RecRecord, Status
<1>5. budget \in BudgetRecord
  BY DEF Init, BudgetRecord, BlueGreenAssumption
<1> QED
  BY <1>1, <1>2, <1>3, <1>4, <1>5 DEF Init, Typed, Names

\* Types: in every reachable state of the deployments and the healers, the row, the containers,
\* the route and the progress of every actor have the values that the code can give them.
THEOREM BlueGreenTypes == ASSUME BlueGreenAssumption PROVE Spec => []TypeOK
  BY TypedInit, TypedStep, TypedIsTypeOK, PTL DEF Spec

-----------------------------------------------------------------------------
\* What is known of the only job D at its stages, when no call fails and the plane goes on:
\* where the route leads, which versions are behind it, and that the job still agrees with
\* the row about the active slot.
Faithful(D) ==
    LET at == dep[D].at
        ver == dep[D].ver
    IN /\ budget.fault = 0 /\ budget.crash = 0
       /\ at \in {"idle", "queued", "loaded", "cleared", "created", "healthy"}
          => upstream = SlotName(row.active)
       /\ at = "idle" => box[SlotName(row.active)].ver <= row.asked
       /\ at # "idle" => ver <= row.asked
       /\ at \in {"queued", "loaded", "cleared", "created", "healthy"}
          => box[SlotName(row.active)].ver < ver
       /\ at \in {"loaded", "cleared", "created", "healthy", "unrouted", "routed", "removed"}
          => dep[D].slot = row.active
       /\ at = "unrouted" => upstream = "none"
       /\ at \in {"routed", "removed", "marked"} => upstream = NewName(D)
       /\ at \in {"created", "healthy", "unrouted", "routed", "removed", "marked"}
          => box[NewName(D)].ver = ver
       /\ at = "marked" => row.active = NewName(D)

\* The two slots are different names, neither is the plain one, and each follows the other.
LEMMA SlotFacts ==
    /\ \A x \in Slots \cup {"none"} :
         NextSlot(x) \in Slots /\ SlotName(x) \in Names /\ SlotName(x) # NextSlot(x)
    /\ \A x \in Slots : SlotName(x) = x /\ x \in Names /\ x # "none"
    /\ "none" \notin Names
  BY DEF NextSlot, SlotName, Slots, Names

\* What a step of the job D makes of its own record.
LEMMA GotoRecord ==
    ASSUME Typed, NEW D \in Deployers, NEW s, Goto(D, s)
    PROVE  dep'[D].at = s /\ dep'[D].slot = dep[D].slot /\ dep'[D].ver = dep[D].ver
  BY DEF Goto, Typed, DepRecord

\* Columns of the row that a step changes, and those that it keeps.
LEMMA RowFields ==
    ASSUME NEW r \in RowRecord
    PROVE  /\ \A s : [r EXCEPT !.status = s].active = r.active
                     /\ [r EXCEPT !.status = s].asked = r.asked
           /\ \A s, v : [r EXCEPT !.status = s, !.ver = v].active = r.active
                        /\ [r EXCEPT !.status = s, !.ver = v].asked = r.asked
           /\ \A s, v : [r EXCEPT !.status = s, !.asked = v].active = r.active
                        /\ [r EXCEPT !.status = s, !.asked = v].asked = v
           /\ \A x : [r EXCEPT !.active = x].active = x /\ [r EXCEPT !.active = x].asked = r.asked
  BY DEF RowRecord

\* Without a failure or a crash in the budget there is none.
LEMMA NothingToSpend ==
    ASSUME NEW D, Faithful(D) PROVE ~Spend("fault") /\ ~Spend("crash")
  BY DEF Faithful, Spend

\* The facts about one job are kept by its steps.
LEMMA FaithfulJob ==
    ASSUME Typed, NEW D \in Deployers, Faithful(D), Redeploy(D) \/ JobStep(D), MaxVersion \in Nat
    PROVE  Faithful(D)'
<1>0. /\ dep[D] \in DepRecord /\ row \in RowRecord /\ dep[D].slot \in Slots \cup {"none"}
      /\ row.active \in Slots \cup {"none"} /\ row.asked \in Nat /\ dep[D].ver \in Nat
      /\ \A n \in Names : box[n].ver \in Nat
  <2>1. /\ dep[D] \in DepRecord /\ row \in RowRecord /\ dep[D].slot \in Slots \cup {"none"}
        /\ row.active \in Slots \cup {"none"} /\ row.asked \in Versions /\ dep[D].ver \in Versions
    BY DepTypes, RowTypes DEF Typed
  <2>2. \A n \in Names : box[n].ver \in Versions
    BY DEF Typed, BoxRecord
  <2> QED
    BY <2>1, <2>2 DEF Versions
<1>s. /\ NewName(D) = NextSlot(dep[D].slot) /\ OldName(D) = SlotName(dep[D].slot)
      /\ NewName(D) \in Names /\ OldName(D) \in Names /\ OldName(D) # NewName(D)
      /\ SlotName(row.active) \in Names /\ SlotName(NewName(D)) = NewName(D)
  BY <1>0, SlotFacts DEF NewName, OldName
<1>n. ~Spend("fault")
  BY NothingToSpend
<1>1. CASE Redeploy(D)
  <2>1. row'.active = row.active /\ row'.asked = row.asked + 1
    BY <1>0, <1>1, RowFields DEF Redeploy
  <2>2. dep'[D] = [at |-> "queued", slot |-> "none", ver |-> row'.asked]
    BY <1>1 DEF Redeploy, Typed
  <2>3. dep'[D].at = "queued" /\ dep'[D].ver = row.asked + 1
    BY <2>1, <2>2
  <2>4. box' = box /\ upstream' = upstream /\ budget' = budget /\ dep[D].at = "idle"
    BY <1>1 DEF Redeploy
  <2> QED
    BY <1>0, <1>s, <2>1, <2>3, <2>4 DEF Faithful
<1>2. CASE Load(D)
  <2>1. dep'[D] = [dep[D] EXCEPT !.at = "loaded", !.slot = row.active]
    BY <1>2 DEF Load, Typed
  <2>2. dep'[D].at = "loaded" /\ dep'[D].slot = row.active /\ dep'[D].ver = dep[D].ver
    BY <1>0, <2>1 DEF DepRecord
  <2>3. row'.active = row.active /\ row'.asked = row.asked
    BY <1>0, <1>2, RowFields DEF Load
  <2>4. box' = box /\ upstream' = upstream /\ budget' = budget /\ dep[D].at = "queued"
    BY <1>2 DEF Load
  <2> QED
    BY <1>0, <1>s, <2>2, <2>3, <2>4 DEF Faithful
<1>r. ASSUME RollBack(D), upstream' = upstream, budget' = budget,
             dep[D].at \in {"loaded", "cleared", "created"}
      PROVE  Faithful(D)'
  <2>1. /\ dep'[D].at \in {"queued", "idle"} /\ dep'[D].slot = dep[D].slot
        /\ dep'[D].ver = dep[D].ver
    BY <1>r, GotoRecord DEF RollBack
  <2>2. row'.active = row.active /\ row'.asked = row.asked
    BY <1>0, <1>r, RowFields DEF RollBack
  <2>3. box'[SlotName(row.active)] = box[SlotName(row.active)]
    BY <1>s, <1>r DEF RollBack, Typed, Faithful
  <2> QED
    BY <1>0, <1>s, <1>r, <2>1, <2>2, <2>3 DEF Faithful
<1>3. CASE ClearSlot(D)
  <2>1. dep'[D].at = "cleared" /\ dep'[D].slot = dep[D].slot /\ dep'[D].ver = dep[D].ver
    BY <1>3, GotoRecord DEF ClearSlot
  <2>2. /\ dep[D].at = "loaded"
        /\ row' = row /\ upstream' = upstream /\ budget' = budget
        /\ box' = [box EXCEPT ![NewName(D)] = Absent]
    BY <1>3 DEF ClearSlot
  <2>3. box'[SlotName(row.active)] = box[SlotName(row.active)]
    BY <1>s, <2>2 DEF Typed, Faithful
  <2> QED
    BY <1>0, <1>s, <2>1, <2>2, <2>3 DEF Faithful
<1>4. CASE CreateSlot(D)
  <2>1. dep'[D].at = "created" /\ dep'[D].slot = dep[D].slot /\ dep'[D].ver = dep[D].ver
    BY <1>4, GotoRecord DEF CreateSlot
  <2>2. /\ dep[D].at = "cleared"
        /\ row' = row /\ upstream' = upstream /\ budget' = budget
        /\ box' = [box EXCEPT ![NewName(D)] = [state |-> "running", ver |-> dep[D].ver]]
    BY <1>4 DEF CreateSlot
  <2>3. box'[SlotName(row.active)] = box[SlotName(row.active)]
    BY <1>s, <2>2 DEF Typed, Faithful
  <2>4. box'[NewName(D)].ver = dep[D].ver /\ NewName(D)' = NewName(D)
    BY <1>s, <2>1, <2>2 DEF Typed, NewName
  <2> QED
    BY <1>0, <1>s, <2>1, <2>2, <2>3, <2>4 DEF Faithful
<1>5. CASE CreateSlotFails(D)
  <2>1. /\ dep'[D].at \in {"queued", "idle"} /\ dep'[D].slot = dep[D].slot
        /\ dep'[D].ver = dep[D].ver
    BY <1>5, GotoRecord DEF CreateSlotFails
  <2>2. row'.active = row.active /\ row'.asked = row.asked
    BY <1>0, <1>5, RowFields DEF CreateSlotFails
  <2>3. box' = box /\ upstream' = upstream /\ budget' = budget /\ dep[D].at = "cleared"
    BY <1>5, <1>n DEF CreateSlotFails
  <2> QED
    BY <1>0, <1>s, <2>1, <2>2, <2>3 DEF Faithful
<1>6. CASE WaitHealthy(D)
  <2>1. CASE Goto(D, "healthy") /\ UNCHANGED <<row, box>>
    <3>1. dep'[D].at = "healthy" /\ dep'[D].slot = dep[D].slot /\ dep'[D].ver = dep[D].ver
      BY <2>1, GotoRecord
    <3>2. NewName(D)' = NewName(D)
      BY <3>1 DEF NewName
    <3>3. dep[D].at = "created" /\ upstream' = upstream /\ budget' = budget
      BY <1>6 DEF WaitHealthy
    <3> QED
      BY <1>0, <1>s, <2>1, <3>1, <3>2, <3>3 DEF Faithful
  <2>2. CASE RollBack(D)
    BY <1>6, <1>r, <2>2 DEF WaitHealthy
  <2> QED
    BY <1>6, <2>1, <2>2 DEF WaitHealthy
<1>7. CASE Unroute(D)
  <2>1. dep'[D].at = "unrouted" /\ dep'[D].slot = dep[D].slot /\ dep'[D].ver = dep[D].ver
    BY <1>7, GotoRecord DEF Unroute
  <2>2. NewName(D)' = NewName(D)
    BY <2>1 DEF NewName
  <2>3. /\ dep[D].at = "healthy" /\ upstream' = "none" /\ row' = row /\ box' = box
        /\ budget' = budget
    BY <1>7, <1>n DEF Unroute
  <2> QED
    BY <1>0, <1>s, <2>1, <2>2, <2>3 DEF Faithful
<1>8. CASE Route(D)
  <2>1. /\ dep[D].at = "unrouted" /\ upstream' = NewName(D) /\ row' = row /\ box' = box
        /\ budget' = budget /\ Goto(D, "routed")
    BY <1>8, <1>n DEF Route
  <2>2. dep'[D].at = "routed" /\ dep'[D].slot = dep[D].slot /\ dep'[D].ver = dep[D].ver
    BY <2>1, GotoRecord
  <2>3. NewName(D)' = NewName(D)
    BY <2>2 DEF NewName
  <2> QED
    BY <1>0, <1>s, <2>1, <2>2, <2>3 DEF Faithful
<1>9. CASE RemoveOld(D)
  <2>1. dep'[D].at = "removed" /\ dep'[D].slot = dep[D].slot /\ dep'[D].ver = dep[D].ver
    BY <1>9, GotoRecord DEF RemoveOld
  <2>2. NewName(D)' = NewName(D)
    BY <2>1 DEF NewName
  <2>3. /\ dep[D].at = "routed" /\ upstream' = upstream /\ row' = row /\ budget' = budget
        /\ box' = [box EXCEPT ![OldName(D)] = Absent]
    BY <1>9, <1>n DEF RemoveOld
  <2>4. box'[NewName(D)] = box[NewName(D)]
    BY <1>s, <2>3 DEF Typed
  <2> QED
    BY <1>0, <1>s, <2>1, <2>2, <2>3, <2>4 DEF Faithful
<1>10. CASE MarkSlot(D)
  <2>1. dep'[D].at = "marked" /\ dep'[D].slot = dep[D].slot /\ dep'[D].ver = dep[D].ver
    BY <1>10, GotoRecord DEF MarkSlot
  <2>2. NewName(D)' = NewName(D)
    BY <2>1 DEF NewName
  <2>3. row'.active = NewName(D) /\ row'.asked = row.asked
    BY <1>0, <1>s, <1>10, RowFields DEF MarkSlot
  <2>4. /\ dep[D].at = "removed" /\ upstream' = upstream /\ box' = box /\ budget' = budget
    BY <1>10 DEF MarkSlot
  <2> QED
    BY <1>0, <1>s, <2>1, <2>2, <2>3, <2>4 DEF Faithful
<1>11. CASE Commit(D)
  <2>1. dep'[D].at = "idle"
    BY <1>11, GotoRecord DEF Commit
  <2>2. row'.active = row.active /\ row'.asked = row.asked
    BY <1>0, <1>11, RowFields DEF Commit
  <2>3. dep[D].at = "marked" /\ upstream' = upstream /\ box' = box /\ budget' = budget
    BY <1>11 DEF Commit
  <2> QED
    BY <1>0, <1>s, <2>1, <2>2, <2>3 DEF Faithful
<1> QED
  BY <1>1, <1>2, <1>3, <1>4, <1>5, <1>6, <1>7, <1>8, <1>9, <1>10, <1>11 DEF JobStep

\* The facts about the only job are kept by every step of the deployments.
LEMMA FaithfulStep ==
    ASSUME Typed, NEW D, Deployers = {D}, Faithful(D), [DeployNext]_vars, MaxVersion \in Nat
    PROVE  Faithful(D)'
<1>1. CASE \E d \in Deployers : Redeploy(d) \/ JobStep(d)
  BY <1>1, FaithfulJob
<1>2. CASE \E n \in Names : BoxExits(n)
  <2>1. PICK n \in Names : BoxExits(n)
    BY <1>2
  <2>2. box' = [box EXCEPT ![n] = [box[n] EXCEPT !.state = "down"]]
    BY <2>1 DEF BoxExits
  <2>3. \A m \in Names : box'[m].ver = box[m].ver
    BY <2>2 DEF Typed, BoxRecord
  <2>4. dep' = dep /\ row' = row /\ upstream' = upstream
    BY <2>1 DEF BoxExits
  <2>5. budget'.fault = budget.fault /\ budget'.crash = budget.crash
    BY <2>1 DEF BoxExits, Spend, Typed, BudgetRecord
  <2>6. NewName(D) \in Names /\ SlotName(row.active) \in Names /\ NewName(D)' = NewName(D)
    <3>1. dep[D].slot \in Slots \cup {"none"} /\ row.active \in Slots \cup {"none"}
      BY DepTypes, RowTypes DEF Typed
    <3> QED
      BY <3>1, <2>4, SlotFacts DEF NewName
  <2> QED
    BY <2>3, <2>4, <2>5, <2>6 DEF Faithful
<1>3. CASE PlaneRestarts
  BY <1>3, NothingToSpend DEF PlaneRestarts
<1>4. CASE UNCHANGED vars
  BY <1>4 DEF vars, Faithful, NewName
<1> QED
  BY <1>1, <1>2, <1>3, <1>4 DEF DeployNext

\* The candidate is the version of the only job, while it prepares one.
LEMMA CandidateOfJob ==
    ASSUME NEW D, Deployers = {D}
    PROVE  /\ Candidate = IF dep[D].at \in {"created", "healthy", "unrouted"}
                          THEN dep[D].ver ELSE 0
           /\ Candidate' = IF dep'[D].at \in {"created", "healthy", "unrouted"}
                           THEN dep'[D].ver ELSE 0
<1>1. /\ Preparing = IF dep[D].at \in {"created", "healthy", "unrouted"} THEN {D} ELSE {}
      /\ Preparing' = IF dep'[D].at \in {"created", "healthy", "unrouted"} THEN {D} ELSE {}
  BY DEF Preparing
<1>2. (CHOOSE d \in {D} : TRUE) = D
  OBVIOUS
<1> QED
  BY <1>1, <1>2 DEF Candidate

\* A step of the job that neither switches nor prepares leaves users where they are.
LEMMA StepOfJobIsAllowed ==
    ASSUME Typed, Typed', NEW D, Deployers = {D}, Faithful(D), Faithful(D)',
           Redeploy(D) \/ JobStep(D), MaxVersion \in Nat
    PROVE  [Promise!Next]_<<Serving, Candidate>>
<1> DEFINE Prep == {"created", "healthy", "unrouted"}
<1>0. /\ Candidate = IF dep[D].at \in Prep THEN dep[D].ver ELSE 0
      /\ Candidate' = IF dep'[D].at \in Prep THEN dep'[D].ver ELSE 0
  BY CandidateOfJob
<1>t. /\ dep[D].ver \in Versions /\ dep[D].slot \in Slots \cup {"none"}
      /\ row.active \in Slots \cup {"none"}
      /\ \A n \in Names : box[n].ver \in Versions
  BY DepTypes, RowTypes DEF Typed, BoxRecord
<1>p. \A v \in Versions : v \in Nat /\ v > 0
  BY DEF Versions
<1>s. /\ NewName(D) = NextSlot(dep[D].slot) /\ OldName(D) = SlotName(dep[D].slot)
      /\ NewName(D) \in Names /\ OldName(D) \in Names /\ OldName(D) # NewName(D)
      /\ SlotName(row.active) \in Names /\ "none" \notin Names
  BY <1>t, SlotFacts DEF NewName, OldName
<1>u. /\ upstream \in Names => Serving = box[upstream].ver
      /\ upstream' \in Names => Serving' = box'[upstream'].ver
      /\ upstream = "none" => Serving = 0
      /\ upstream' = "none" => Serving' = 0
  BY <1>s DEF Serving
<1>n. ~Spend("fault")
  BY NothingToSpend
<1>k. ASSUME Serving' = Serving, Candidate' = Candidate
      PROVE  [Promise!Next]_<<Serving, Candidate>>
  BY <1>k
<1>a. ASSUME RollBack(D), upstream' = upstream, dep[D].at = "created"
      PROVE  [Promise!Next]_<<Serving, Candidate>>
  <2>1. dep'[D].at \in {"queued", "idle"}
    BY <1>a, GotoRecord DEF RollBack
  <2>2. upstream = SlotName(row.active) /\ dep[D].slot = row.active
    BY <1>a DEF Faithful
  <2>3. box'[upstream] = box[upstream]
    BY <1>s, <1>a, <2>2 DEF RollBack, Typed
  <2>4. Serving' = Serving /\ Serving > 0
    BY <1>a, <1>s, <1>t, <1>p, <1>u, <2>2, <2>3
  <2>5. Candidate' = 0 /\ Candidate # 0
    BY <1>0, <1>a, <1>t, <1>p, <2>1
  <2>6. Promise!Abandon
    BY <2>4, <2>5 DEF Promise!Abandon, Promise!Nobody
  <2> QED
    BY <2>6 DEF Promise!Next
<1>1. CASE Redeploy(D) \/ Load(D)
  <2>1. dep[D].at \in {"idle", "queued"} /\ dep'[D].at \in {"queued", "loaded"}
    BY <1>1 DEF Redeploy, Load, Typed, DepRecord
  <2>2. box' = box /\ upstream' = upstream
    BY <1>1 DEF Redeploy, Load
  <2> QED
    BY <1>0, <1>k, <2>1, <2>2 DEF Serving
<1>2. CASE ClearSlot(D)
  <2>1. dep[D].at = "loaded" /\ dep'[D].at = "cleared"
    BY <1>2, GotoRecord DEF ClearSlot
  <2>2. upstream = SlotName(row.active) /\ dep[D].slot = row.active
    BY <2>1 DEF Faithful
  <2>3. box'[upstream] = box[upstream] /\ upstream' = upstream
    BY <1>s, <1>2, <2>2 DEF ClearSlot, Typed
  <2> QED
    BY <1>0, <1>k, <1>s, <1>u, <2>1, <2>2, <2>3
<1>3. CASE CreateSlot(D)
  <2>1. dep[D].at = "cleared" /\ dep'[D].at = "created" /\ dep'[D].ver = dep[D].ver
    BY <1>3, GotoRecord DEF CreateSlot
  <2>2. upstream = SlotName(row.active) /\ dep[D].slot = row.active
    BY <2>1 DEF Faithful
  <2>3. box'[upstream] = box[upstream] /\ upstream' = upstream
    BY <1>s, <1>3, <2>2 DEF CreateSlot, Typed
  <2>4. Serving' = Serving /\ Serving > 0 /\ Serving < dep[D].ver
    BY <1>s, <1>t, <1>p, <1>u, <2>1, <2>2, <2>3 DEF Faithful
  <2>5. Candidate = 0 /\ Candidate' = dep[D].ver
    BY <1>0, <2>1
  <2>6. Candidate' \in {v \in Versions : v > Serving}
    BY <1>t, <1>p, <2>4, <2>5
  <2>7. Promise!Prepare
    BY <2>4, <2>5, <2>6 DEF Promise!Prepare, Promise!Nobody
  <2> QED
    BY <2>7 DEF Promise!Next
<1>4. CASE CreateSlotFails(D)
  <2>1. dep[D].at = "cleared" /\ dep'[D].at \in {"queued", "idle"} /\ box' = box /\ upstream' = upstream
    BY <1>4, <1>n, GotoRecord DEF CreateSlotFails
  <2> QED
    BY <1>0, <1>k, <2>1 DEF Serving
<1>5. CASE WaitHealthy(D)
  <2>1. CASE Goto(D, "healthy") /\ UNCHANGED <<row, box>>
    <3>1. /\ dep[D].at = "created" /\ dep'[D].at = "healthy" /\ dep'[D].ver = dep[D].ver
          /\ upstream' = upstream /\ box' = box
      BY <1>5, <2>1, GotoRecord DEF WaitHealthy
    <3> QED
      BY <1>0, <1>k, <3>1 DEF Serving
  <2>2. CASE RollBack(D)
    BY <1>5, <1>a, <2>2 DEF WaitHealthy
  <2> QED
    BY <1>5, <2>1, <2>2 DEF WaitHealthy
<1>6. CASE Unroute(D)
  <2>1. /\ dep[D].at = "healthy" /\ dep'[D].at = "unrouted" /\ dep'[D].ver = dep[D].ver
        /\ upstream' = "none"
    BY <1>6, <1>n, GotoRecord DEF Unroute
  <2>2. Serving' = 0 /\ Candidate' = Candidate /\ Candidate # 0
    BY <1>0, <1>t, <1>p, <1>u, <2>1
  <2>3. Promise!Cut
    BY <2>2 DEF Promise!Cut, Promise!Nobody
  <2> QED
    BY <2>3 DEF Promise!Next
<1>7. CASE Route(D)
  <2>1. /\ dep[D].at = "unrouted" /\ upstream' = NewName(D) /\ box' = box /\ Goto(D, "routed")
    BY <1>7, <1>n DEF Route
  <2>2. dep'[D].at = "routed"
    BY <2>1, GotoRecord
  <2>3. upstream = "none" /\ box[NewName(D)].ver = dep[D].ver
    BY <2>1 DEF Faithful
  <2>4. Serving = 0 /\ Serving' = dep[D].ver
    BY <1>s, <1>u, <2>1, <2>3
  <2>5. Candidate = dep[D].ver /\ Candidate # 0 /\ Candidate' = 0
    BY <1>0, <1>t, <1>p, <2>1, <2>2
  <2>6. Promise!Connect
    BY <2>4, <2>5 DEF Promise!Connect, Promise!Nobody
  <2> QED
    BY <2>6 DEF Promise!Next
<1>8. CASE RemoveOld(D)
  <2>1. /\ dep[D].at = "routed" /\ dep'[D].at = "removed" /\ upstream' = upstream
        /\ box' = [box EXCEPT ![OldName(D)] = Absent]
    BY <1>8, <1>n, GotoRecord DEF RemoveOld
  <2>2. upstream = NewName(D)
    BY <2>1 DEF Faithful
  <2>3. box'[upstream] = box[upstream]
    BY <1>s, <2>1, <2>2 DEF Typed
  <2> QED
    BY <1>0, <1>k, <1>s, <1>u, <2>1, <2>2, <2>3
<1>9. CASE MarkSlot(D) \/ Commit(D)
  <2>1. /\ dep[D].at \in {"removed", "marked"} /\ dep'[D].at \in {"marked", "idle"}
        /\ box' = box /\ upstream' = upstream
    BY <1>9, GotoRecord DEF MarkSlot, Commit
  <2> QED
    BY <1>0, <1>k, <2>1 DEF Serving
<1> QED
  BY <1>1, <1>2, <1>3, <1>4, <1>5, <1>6, <1>7, <1>8, <1>9 DEF JobStep

\* Every step of the deployments is one that Rollout allows, or leaves what users see.
LEMMA StepIsAllowed ==
    ASSUME Typed, Typed', NEW D, Deployers = {D}, Faithful(D), Faithful(D)',
           [DeployNext]_vars, MaxVersion \in Nat
    PROVE  [Promise!Next]_<<Serving, Candidate>>
<1>1. CASE \E d \in Deployers : Redeploy(d) \/ JobStep(d)
  BY <1>1, StepOfJobIsAllowed
<1>2. CASE \E n \in Names : BoxExits(n)
  <2>1. PICK n \in Names : BoxExits(n)
    BY <1>2
  <2>2. box' = [box EXCEPT ![n] = [box[n] EXCEPT !.state = "down"]]
    BY <2>1 DEF BoxExits
  <2>3. \A m \in Names : box'[m].ver = box[m].ver
    BY <2>2 DEF Typed, BoxRecord
  <2>4. dep' = dep /\ upstream' = upstream
    BY <2>1 DEF BoxExits
  <2>5. Serving' = Serving
    BY <2>3, <2>4 DEF Serving, Typed
  <2>6. Candidate' = Candidate
    BY <2>4, CandidateOfJob
  <2> QED
    BY <2>5, <2>6
<1>3. CASE PlaneRestarts
  BY <1>3, NothingToSpend DEF PlaneRestarts
<1>4. CASE UNCHANGED vars
  BY <1>4, CandidateOfJob DEF vars, Serving
<1> QED
  BY <1>1, <1>2, <1>3, <1>4 DEF DeployNext

\* Initially users reach the first version, and nothing is prepared.
LEMMA InitIsAllowed ==
    ASSUME BlueGreenAssumption, MaxFaults = 0, MaxCrashes = 0, NEW D, Deployers = {D}, Init
    PROVE  Faithful(D) /\ Promise!Init
<1>1. /\ dep[D].at = "idle" /\ row.active = "none" /\ row.asked = 1 /\ upstream = "main"
      /\ budget.fault = 0 /\ budget.crash = 0 /\ box["main"].ver = 1
  BY DEF Init, Names
<1>2. SlotName("none") = "main" /\ "main" # "none"
  BY DEF SlotName
<1>3. Faithful(D)
  BY <1>1, <1>2 DEF Faithful
<1>4. Serving = 1 /\ Candidate = 0
  BY <1>1, <1>2, CandidateOfJob DEF Serving
<1> QED
  BY <1>3, <1>4, FirstVersion DEF Promise!Init, Promise!Nobody

\* Refinement: one blue-green deployment at a time, of any number of versions and with new
\* containers that may not come up or exit at any moment, implements Rollout: users reach the
\* old version until the new one is ready, are cut off while UpdateRoute is between its two
\* halves, and reach the new one; a deployment that is given up changes nothing for them.
THEOREM DeploymentKeepsPromise ==
    ASSUME BlueGreenAssumption, MaxFaults = 0, MaxCrashes = 0, NEW D, Deployers = {D}
    PROVE  DeploySpec => KeepsPromise
<1>0. MaxVersion \in Nat
  BY DEF BlueGreenAssumption
<1>1. Init => Typed /\ Faithful(D) /\ Promise!Init
  BY TypedInit, InitIsAllowed
<1>2. Typed /\ Faithful(D) /\ [DeployNext]_vars => Typed' /\ Faithful(D)'
  BY <1>0, TypedStep, FaithfulStep DEF Next
<1>3. /\ Typed /\ Typed' /\ Faithful(D) /\ Faithful(D)' /\ [DeployNext]_vars
      => [Promise!Next]_<<Serving, Candidate>>
  BY <1>0, StepIsAllowed
<1> QED
  BY <1>1, <1>2, <1>3, PTL DEF DeploySpec, KeepsPromise, Promise!Spec

-----------------------------------------------------------------------------
\* What is known of the containers at the stages of the only job, as long as no call has
\* failed: a retry after a crash meets no more than the two slots of its deployment.
Tidy(D) ==
    budget.fault = MaxFaults =>
    LET at == dep[D].at
    IN /\ Present \subseteq {SlotName(row.active), NextSlot(row.active)}
       /\ at # "idle" => row.status # "running"
       /\ at = "idle" /\ row.status = "running"
          => Present = {upstream} /\ upstream = SlotName(row.active)
       /\ at \in {"loaded", "cleared", "created", "healthy", "unrouted", "routed", "removed"}
          => dep[D].slot = row.active
       /\ at \in {"created", "healthy", "unrouted", "routed"} => NewName(D) \in Present
       /\ at \in {"routed", "removed"} => upstream = NewName(D)
       /\ at = "removed" => Present = {NewName(D)}
       /\ at = "marked" => Present = {upstream} /\ upstream = SlotName(row.active)

\* Which containers there are after one is removed, is created, or exits.
LEMMA PresentAfter ==
    ASSUME Typed, NEW n \in Names
    PROVE  /\ box' = [box EXCEPT ![n] = Absent] => Present' = Present \ {n}
           /\ \A v : box' = [box EXCEPT ![n] = [state |-> "running", ver |-> v]]
                     => Present' = Present \cup {n}
           /\ box[n].state = "running" /\ box' = [box EXCEPT ![n].state = "down"]
              => Present' = Present
<1>1. \A m \in Names : box[m] \in BoxRecord
  BY DEF Typed
<1>2. Absent.state = "absent"
  BY DEF Absent
<1>3. ASSUME box' = [box EXCEPT ![n] = Absent] PROVE Present' = Present \ {n}
  BY <1>2, <1>3 DEF Typed, Present
<1>4. ASSUME NEW v, box' = [box EXCEPT ![n] = [state |-> "running", ver |-> v]]
      PROVE  Present' = Present \cup {n}
  BY <1>4 DEF Typed, Present
<1>5. ASSUME box[n].state = "running", box' = [box EXCEPT ![n].state = "down"]
      PROVE  Present' = Present
  <2>1. box'[n] = [box[n] EXCEPT !.state = "down"] /\ \A m \in Names \ {n} : box'[m] = box[m]
    BY <1>5 DEF Typed
  <2>2. box'[n].state = "down"
    BY <1>1, <2>1 DEF BoxRecord
  <2> QED
    BY <1>5, <2>1, <2>2 DEF Present
<1> QED
  BY <1>3, <1>4, <1>5

\* After a call has failed nothing is claimed any more.
LEMMA FailureIsRemembered ==
    ASSUME BlueGreenAssumption, Typed, NEW D, Spend("fault") PROVE Tidy(D)'
<1>1. budget.fault \in 0 .. MaxFaults /\ budget'.fault = budget.fault - 1 /\ MaxFaults \in Nat
  BY DEF Spend, Typed, BudgetRecord, BlueGreenAssumption
<1> QED
  BY <1>1 DEF Tidy

\* The status of the row after a step.
LEMMA RowStatus ==
    ASSUME NEW r \in RowRecord
    PROVE  /\ \A s : [r EXCEPT !.status = s].status = s
           /\ \A s, v : [r EXCEPT !.status = s, !.ver = v].status = s
           /\ \A s, v : [r EXCEPT !.status = s, !.asked = v].status = s
           /\ \A x : [r EXCEPT !.active = x].status = r.status
  BY DEF RowRecord

\* The job keeps the two slots tidy.
LEMMA TidyJob ==
    ASSUME BlueGreenAssumption, Typed, NEW D \in Deployers, Tidy(D), Redeploy(D) \/ JobStep(D)
    PROVE  Tidy(D)'
<1>0. /\ dep[D] \in DepRecord /\ row \in RowRecord /\ dep[D].slot \in Slots \cup {"none"}
      /\ row.active \in Slots \cup {"none"}
  BY DepTypes, RowTypes DEF Typed
<1>s. /\ NewName(D) = NextSlot(dep[D].slot) /\ OldName(D) = SlotName(dep[D].slot)
      /\ NewName(D) \in Names /\ OldName(D) \in Names /\ OldName(D) # NewName(D)
      /\ SlotName(NewName(D)) = NewName(D)
  BY <1>0, SlotFacts DEF NewName, OldName
<1>f. SUFFICES ASSUME ~Spend("fault") PROVE Tidy(D)'
  BY FailureIsRemembered
<1>1. CASE Redeploy(D)
  <2>1. row'.active = row.active /\ row'.status = "deploying"
    BY <1>0, <1>1, RowFields, RowStatus DEF Redeploy
  <2>2. dep'[D].at = "queued"
    BY <1>1 DEF Redeploy, Typed
  <2>3. Present' = Present /\ budget' = budget
    BY <1>1 DEF Redeploy, Present
  <2> QED
    BY <2>1, <2>2, <2>3 DEF Tidy
<1>2. CASE Load(D)
  <2>1. dep'[D] = [dep[D] EXCEPT !.at = "loaded", !.slot = row.active]
    BY <1>2 DEF Load, Typed
  <2>2. dep'[D].at = "loaded" /\ dep'[D].slot = row.active
    BY <1>0, <2>1 DEF DepRecord
  <2>3. row'.active = row.active /\ row'.status = "deploying"
    BY <1>0, <1>2, RowFields, RowStatus DEF Load
  <2>4. Present' = Present /\ budget' = budget
    BY <1>2 DEF Load, Present
  <2> QED
    BY <2>2, <2>3, <2>4 DEF Tidy
<1>r. ASSUME RollBack(D), budget' = budget PROVE Tidy(D)'
  <2>1. dep'[D].at \in {"queued", "idle"}
    BY <1>r, GotoRecord DEF RollBack
  <2>2. row'.active = row.active /\ row'.status = "failed"
    BY <1>0, <1>r, RowFields, RowStatus DEF RollBack
  <2>3. Present' = Present \ {NewName(D)}
    BY <1>s, <1>r, PresentAfter DEF RollBack
  <2> QED
    BY <1>r, <2>1, <2>2, <2>3 DEF Tidy
<1>3. CASE ClearSlot(D)
  <2>1. dep[D].at = "loaded" /\ dep'[D].at = "cleared" /\ dep'[D].slot = dep[D].slot
    BY <1>3, GotoRecord DEF ClearSlot
  <2>2. Present' = Present \ {NewName(D)} /\ row' = row /\ upstream' = upstream /\ budget' = budget
    BY <1>s, <1>3, PresentAfter DEF ClearSlot
  <2> QED
    BY <2>1, <2>2 DEF Tidy
<1>4. CASE CreateSlot(D)
  <2>1. dep[D].at = "cleared" /\ dep'[D].at = "created" /\ dep'[D].slot = dep[D].slot
    BY <1>4, GotoRecord DEF CreateSlot
  <2>2. /\ Present' = Present \cup {NewName(D)}
        /\ row' = row /\ upstream' = upstream /\ budget' = budget
    BY <1>s, <1>4, PresentAfter DEF CreateSlot
  <2>3. NewName(D)' = NewName(D)
    BY <2>1 DEF NewName
  <2> QED
    BY <1>s, <2>1, <2>2, <2>3 DEF Tidy
<1>5. CASE CreateSlotFails(D)
  <2>1. dep'[D].at \in {"queued", "idle"}
    BY <1>5, GotoRecord DEF CreateSlotFails
  <2>2. row'.active = row.active /\ row'.status = "failed"
    BY <1>0, <1>5, RowFields, RowStatus DEF CreateSlotFails
  <2>3. Present' = Present /\ budget' = budget
    BY <1>5, <1>f DEF CreateSlotFails, Present
  <2> QED
    BY <2>1, <2>2, <2>3 DEF Tidy
<1>6. CASE WaitHealthy(D)
  <2>1. CASE Goto(D, "healthy") /\ UNCHANGED <<row, box>>
    <3>1. dep[D].at = "created" /\ dep'[D].at = "healthy" /\ dep'[D].slot = dep[D].slot
      BY <1>6, <2>1, GotoRecord DEF WaitHealthy
    <3>2. NewName(D)' = NewName(D) /\ Present' = Present /\ budget' = budget
      BY <1>6, <2>1, <3>1 DEF NewName, Present, WaitHealthy
    <3> QED
      BY <2>1, <3>1, <3>2 DEF Tidy
  <2>2. CASE RollBack(D)
    BY <1>6, <1>r, <2>2 DEF WaitHealthy
  <2> QED
    BY <1>6, <2>1, <2>2 DEF WaitHealthy
<1>7. CASE Unroute(D)
  <2>1. dep[D].at = "healthy" /\ dep'[D].at = "unrouted" /\ dep'[D].slot = dep[D].slot
    BY <1>7, GotoRecord DEF Unroute
  <2>2. NewName(D)' = NewName(D) /\ Present' = Present /\ row' = row /\ budget' = budget
    BY <1>7, <1>f, <2>1 DEF NewName, Present, Unroute
  <2> QED
    BY <2>1, <2>2 DEF Tidy
<1>8. CASE Route(D)
  <2>1. /\ dep[D].at = "unrouted" /\ upstream' = NewName(D) /\ Goto(D, "routed")
        /\ row' = row /\ box' = box /\ budget' = budget
    BY <1>8, <1>f DEF Route
  <2>2. dep'[D].at = "routed" /\ dep'[D].slot = dep[D].slot
    BY <2>1, GotoRecord
  <2>3. NewName(D)' = NewName(D) /\ Present' = Present
    BY <2>1, <2>2 DEF NewName, Present
  <2> QED
    BY <2>1, <2>2, <2>3 DEF Tidy
<1>9. CASE RemoveOld(D)
  <2>1. /\ dep[D].at = "routed" /\ dep'[D].at = "removed" /\ dep'[D].slot = dep[D].slot
        /\ upstream' = upstream /\ row' = row /\ budget' = budget
        /\ box' = [box EXCEPT ![OldName(D)] = Absent]
    BY <1>9, <1>f, GotoRecord DEF RemoveOld
  <2>2. NewName(D)' = NewName(D) /\ Present' = Present \ {OldName(D)}
    BY <1>s, <2>1, PresentAfter DEF NewName
  <2>3. budget.fault = MaxFaults => /\ Present \subseteq {OldName(D), NewName(D)}
                                    /\ NewName(D) \in Present /\ upstream = NewName(D)
                                    /\ dep[D].slot = row.active /\ row.status # "running"
    BY <1>s, <2>1 DEF Tidy
  <2>4. budget.fault = MaxFaults => Present' = {NewName(D)}
    BY <1>s, <2>2, <2>3
  <2> QED
    BY <1>s, <2>1, <2>2, <2>3, <2>4 DEF Tidy
<1>10. CASE MarkSlot(D)
  <2>1. dep[D].at = "removed" /\ dep'[D].at = "marked" /\ upstream' = upstream /\ budget' = budget
    BY <1>10, GotoRecord DEF MarkSlot
  <2>2. row'.active = NewName(D) /\ row'.status = row.status /\ Present' = Present
    BY <1>0, <1>s, <1>10, RowFields, RowStatus DEF MarkSlot, Present
  <2> QED
    BY <1>s, <2>1, <2>2 DEF Tidy
<1>11. CASE Commit(D)
  <2>1. dep[D].at = "marked" /\ dep'[D].at = "idle" /\ upstream' = upstream /\ budget' = budget
    BY <1>11, GotoRecord DEF Commit
  <2>2. row'.active = row.active /\ Present' = Present
    BY <1>0, <1>11, RowFields DEF Commit, Present
  <2> QED
    BY <2>1, <2>2 DEF Tidy
<1> QED
  BY <1>1, <1>2, <1>3, <1>4, <1>5, <1>6, <1>7, <1>8, <1>9, <1>10, <1>11 DEF JobStep

\* Every step of the deployments, crashes included, keeps the two slots tidy.
LEMMA TidyStep ==
    ASSUME BlueGreenAssumption, Typed, NEW D, Deployers = {D}, Tidy(D), [DeployNext]_vars
    PROVE  Tidy(D)'
<1>1. CASE \E d \in Deployers : Redeploy(d) \/ JobStep(d)
  BY <1>1, TidyJob
<1>2. CASE \E n \in Names : BoxExits(n)
  <2>1. PICK n \in Names : BoxExits(n)
    BY <1>2
  <2>2. Present' = Present
    BY <2>1, PresentAfter DEF BoxExits
  <2>3. dep' = dep /\ row' = row /\ upstream' = upstream
    BY <2>1 DEF BoxExits
  <2>4. budget'.fault = budget.fault
    BY <2>1 DEF BoxExits, Spend, Typed, BudgetRecord
  <2> QED
    BY <2>2, <2>3, <2>4 DEF Tidy, NewName
<1>3. CASE PlaneRestarts
  <2>1. dep'[D] = IF dep[D].at = "idle" THEN dep[D] ELSE [dep[D] EXCEPT !.at = "queued"]
    BY <1>3 DEF PlaneRestarts
  <2>2. dep[D] \in DepRecord
    BY DEF Typed
  <2>3. IF dep[D].at = "idle" THEN dep'[D].at = "idle" ELSE dep'[D].at = "queued"
    BY <2>1, <2>2 DEF DepRecord
  <2>4. Present' = Present /\ row' = row /\ upstream' = upstream
    BY <1>3 DEF PlaneRestarts, Present
  <2>5. budget'.fault = budget.fault
    BY <1>3 DEF PlaneRestarts, Spend, Typed, BudgetRecord
  <2> QED
    BY <2>3, <2>4, <2>5 DEF Tidy
<1>4. CASE UNCHANGED vars
  BY <1>4 DEF vars, Tidy, Present, NewName
<1> QED
  BY <1>1, <1>2, <1>3, <1>4 DEF DeployNext

\* Initially there is the container of the first deploy only.
LEMMA TidyInit ==
    ASSUME NEW D, Deployers = {D}, Init PROVE Tidy(D)
<1>1. dep[D].at = "idle" /\ row.active = "none" /\ upstream = "main"
  BY DEF Init
<1>2. Present = {"main"}
  BY DEF Init, Present, Names, Slots, Absent
<1> QED
  BY <1>1, <1>2 DEF Tidy, SlotName

\* Whatever number of crashes interrupts the only deployment, and however often it is tried,
\* a deployment that succeeds leaves exactly the container that receives the traffic, and the
\* row knows its slot.
THEOREM OneSlotIsLeft ==
    ASSUME BlueGreenAssumption, NEW D, Deployers = {D}
    PROVE  DeploySpec => []OneSlotLeft
<1>1. Init => Typed /\ Tidy(D)
  BY TypedInit, TidyInit
<1>2. Typed /\ Tidy(D) /\ [DeployNext]_vars => Typed' /\ Tidy(D)'
  BY TypedStep, TidyStep DEF Next
<1>3. Tidy(D) => OneSlotLeft
  BY DEF Tidy, OneSlotLeft, DeployIdle
<1> QED
  BY <1>1, <1>2, <1>3, PTL DEF DeploySpec
=============================================================================
