----------------------------- MODULE WorkProofs -----------------------------
(***************************************************************************)
(* What the plane does to containers, images, routes and stored data, for  *)
(* any names, services, replicas, requests, failures and bounds: the       *)
(* invariant of each component of MCWork, and the properties that follow   *)
(* from it.                                                                *)
(***************************************************************************)
EXTENDS MCWork, TLAPS, FiniteSetTheorems

\* The elements of a sequence are of the type of its elements.
LEMMA ElementTypes == ASSUME NEW T, NEW seq \in Seq(T) PROVE \A k \in DOMAIN seq : seq[k] \in T
  OBVIOUS

-----------------------------------------------------------------------------
(* Backup *)

\* A row of a backup, as BackupInv knows it.
BackupRows ==
    [service : Services, at : B!RecordStage, bucket : Buckets,
     key : B!Keys \cup {B!NoKey}, content : B!Contents]

\* A record and an object hold what was dumped from the database of their own service, and so
\* does the restore that runs.
BackupInv ==
    /\ B!TypeOK
    /\ records \in Seq(BackupRows) /\ Len(records) <= MaxRecords
    /\ \A s \in Services : database[s].service = s
    /\ \A o \in objects : o.content.service = o.key.service
    /\ \A i \in DOMAIN records :
         /\ records[i].content.service = records[i].service
         /\ records[i].at \in {"uploaded", "completed"} =>
              records[i].key \in B!Keys /\ records[i].key.service = records[i].service
    /\ \/ restore = B!Idle
       \/ /\ restore.record \in DOMAIN records /\ restore.object \in B!Contents
          /\ restore.object.service = records[restore.record].service

\* A new record, and a record that changes.
LEMMA RowsGrow ==
    ASSUME NEW r \in BackupRows, records \in Seq(BackupRows), records' = Append(records, r)
    PROVE  /\ records' \in Seq(BackupRows) /\ Len(records') = Len(records) + 1
           /\ DOMAIN records' = DOMAIN records \cup {Len(records) + 1}
           /\ \A i \in DOMAIN records : records'[i] = records[i]
           /\ records'[Len(records) + 1] = r
  OBVIOUS

LEMMA RowChanges ==
    ASSUME NEW i \in DOMAIN records, NEW r \in BackupRows, records \in Seq(BackupRows),
           records' = [records EXCEPT ![i] = r]
    PROVE  /\ records' \in Seq(BackupRows) /\ Len(records') = Len(records)
           /\ DOMAIN records' = DOMAIN records /\ records'[i] = r
           /\ \A k \in DOMAIN records : k # i => records'[k] = records[k]
  OBVIOUS

\* A database whose content changes to another one of its service.
LEMMA DatabaseChanges ==
    ASSUME NEW s \in Services, NEW c \in B!Contents, c.service = s,
           database \in [Services -> B!Contents], \A t \in Services : database[t].service = t,
           database' = [database EXCEPT ![s] = c]
    PROVE  /\ database' \in [Services -> B!Contents]
           /\ \A t \in Services : database'[t].service = t
  OBVIOUS

LEMMA BackupInit == ASSUME B!BackupAssumption, B!Init PROVE BackupInv
<1>1. /\ config = "none" /\ records = <<>> /\ objects = {} /\ restore = B!Idle
      /\ clock = 0 /\ faults = 0
      /\ database = [s \in Services |-> [service |-> s, state |-> 0, whole |-> TRUE]]
  BY DEF B!Init
<1>2. MaxRecords \in Nat /\ MaxSeconds \in Nat /\ MaxWrites \in Nat /\ MaxFaults \in Nat
  BY DEF B!BackupAssumption
<1>3. database \in [Services -> B!Contents] /\ \A s \in Services : database[s].service = s
  BY <1>1, <1>2 DEF B!Contents
<1>4. records \in Seq(BackupRows) /\ Len(records) = 0 /\ DOMAIN records = {}
  BY <1>1
<1>5. B!TypeOK
  BY <1>1, <1>2, <1>3, <1>4 DEF B!TypeOK, B!Idle
<1> QED
  BY <1>1, <1>2, <1>3, <1>4, <1>5 DEF BackupInv

LEMMA BackupStays ==
    ASSUME B!BackupAssumption, BackupInv, [B!Next]_(B!vars) PROVE BackupInv'
<1>n. /\ MaxRecords \in Nat /\ MaxSeconds \in Nat /\ MaxWrites \in Nat /\ MaxFaults \in Nat
      /\ clock \in 0 .. MaxSeconds /\ faults \in 0 .. MaxFaults
      /\ config \in Buckets \cup {"none"} /\ database \in [Services -> B!Contents]
      /\ objects \subseteq B!Objects /\ restore.record \in 0 .. MaxRecords
      /\ records \in Seq(BackupRows) /\ Len(records) <= MaxRecords /\ Len(records) \in Nat
      /\ DOMAIN records = 1 .. Len(records)
      /\ \A s \in Services : database[s].service = s
  BY DEF B!BackupAssumption, BackupInv, B!TypeOK
<1>o. \A o \in objects : o.content.service = o.key.service
  BY DEF BackupInv
<1>r. \A i \in DOMAIN records :
        /\ records[i] \in BackupRows
        /\ records[i].content.service = records[i].service
        /\ records[i].at \in {"uploaded", "completed"} =>
             records[i].key \in B!Keys /\ records[i].key.service = records[i].service
  BY <1>n, ElementTypes DEF BackupInv
<1>t. \/ restore = B!Idle
      \/ /\ restore.record \in DOMAIN records /\ restore.object \in B!Contents
         /\ restore.object.service = records[restore.record].service
  BY DEF BackupInv
<1> DEFINE Good(r) == /\ r \in BackupRows /\ r.content.service = r.service
                      /\ r.at \in {"uploaded", "completed"} =>
                           r.key \in B!Keys /\ r.key.service = r.service
<1>f. B!Fault => faults' \in 0 .. MaxFaults
  BY <1>n DEF B!Fault
\* What is left to show of a step, by what it changes.
<1>q. ASSUME config' \in Buckets \cup {"none"}, database' \in [Services -> B!Contents],
             objects' \subseteq B!Objects, clock' \in 0 .. MaxSeconds, faults' \in 0 .. MaxFaults,
             records' \in Seq(BackupRows), Len(records') <= MaxRecords,
             \A s \in Services : database'[s].service = s,
             \A o \in objects' : o.content.service = o.key.service,
             \A i \in DOMAIN records' : Good(records'[i]),
             \/ restore' = B!Idle
             \/ /\ restore'.record \in DOMAIN records' /\ restore'.object \in B!Contents
                /\ restore'.object.service = records'[restore'.record].service
      PROVE  BackupInv'
  <2>1. Len(records') \in Nat /\ DOMAIN records' = 1 .. Len(records')
    BY <1>q
  <2>2. restore'.record \in 0 .. MaxRecords
    BY <1>q, <1>n, <2>1 DEF B!Idle
  <2>3. \A i \in DOMAIN records' : /\ records'[i].service \in Services
                                   /\ records'[i].at \in B!RecordStage
                                   /\ records'[i].bucket \in Buckets
    BY <1>q DEF BackupRows
  <2>4. B!TypeOK'
    BY <1>q, <2>2, <2>3 DEF B!TypeOK
  <2> QED
    BY <1>q, <2>4 DEF BackupInv
\* A record that changes, and with it no more than the fault counter.
<1>p. ASSUME NEW i \in DOMAIN records, NEW r, Good(r), r.service = records[i].service,
             records' = [records EXCEPT ![i] = r],
             config' = config, database' = database, restore' = restore, clock' = clock,
             faults' \in 0 .. MaxFaults, objects' \subseteq B!Objects,
             \A o \in objects' : o.content.service = o.key.service
      PROVE  BackupInv'
  <2>1. /\ records' \in Seq(BackupRows) /\ Len(records') = Len(records)
        /\ DOMAIN records' = DOMAIN records /\ records'[i] = r
        /\ \A k \in DOMAIN records : k # i => records'[k] = records[k]
    BY <1>p, <1>n, RowChanges
  <2>2. \A k \in DOMAIN records' : Good(records'[k])
    BY <1>p, <1>r, <2>1
  <2>3. \/ restore' = B!Idle
        \/ /\ restore'.record \in DOMAIN records' /\ restore'.object \in B!Contents
           /\ restore'.object.service = records'[restore'.record].service
    BY <1>p, <1>t, <2>1
  <2> HIDE DEF Good
  <2> QED
    BY <1>q, <1>p, <1>n, <2>1, <2>2, <2>3
<1>1. CASE UNCHANGED B!vars
  BY <1>1 DEF B!vars, BackupInv, B!TypeOK
<1>2. CASE B!SaveConfig
  BY <1>2, <1>q, <1>n, <1>o, <1>r, <1>t DEF B!SaveConfig
<1>3. ASSUME NEW s \in Services, B!BackupPostgres(s) PROVE BackupInv'
  <2> DEFINE r == [service |-> s, at |-> "running", bucket |-> config, key |-> B!NoKey,
                   content |-> database[s]]
  <2>1. r \in BackupRows /\ Good(r)
    BY <1>3, <1>n DEF B!BackupPostgres, BackupRows, B!RecordStage
  <2>2. records' = Append(records, r) /\ Len(records) < MaxRecords
    BY <1>3 DEF B!BackupPostgres
  <2> HIDE DEF r
  <2>3. /\ records' \in Seq(BackupRows) /\ Len(records') = Len(records) + 1
        /\ DOMAIN records' = DOMAIN records \cup {Len(records) + 1}
        /\ \A i \in DOMAIN records : records'[i] = records[i]
        /\ records'[Len(records) + 1] = r
    BY <2>1, <2>2, <1>n, RowsGrow
  <2>4. \A i \in DOMAIN records' : Good(records'[i])
    BY <2>1, <2>3, <1>r
  <2>5. /\ config' = config /\ database' = database /\ objects' = objects
        /\ restore' = restore /\ clock' = clock /\ faults' = faults
    BY <1>3 DEF B!BackupPostgres
  <2>6. \/ restore' = B!Idle
        \/ /\ restore'.record \in DOMAIN records' /\ restore'.object \in B!Contents
           /\ restore'.object.service = records'[restore'.record].service
    BY <2>3, <2>5, <1>t
  <2>7. Len(records') <= MaxRecords
    BY <2>2, <2>3, <1>n
  <2> HIDE DEF Good
  <2> QED
    BY <1>q, <1>n, <1>o, <2>3, <2>4, <2>5, <2>6, <2>7
<1>4. ASSUME NEW s \in Services, B!Write(s) PROVE BackupInv'
  <2>1. /\ database' = [database EXCEPT ![s].state = @ + 1] /\ database[s].state < MaxWrites
        /\ config' = config /\ records' = records /\ objects' = objects
        /\ restore' = restore /\ clock' = clock /\ faults' = faults
    BY <1>4 DEF B!Write
  <2>2. /\ database' \in [Services -> B!Contents]
        /\ \A t \in Services : database'[t].service = t
    <3> DEFINE c == [database[s] EXCEPT !.state = @ + 1]
    <3>1. c \in B!Contents /\ c.service = s
      BY <2>1, <1>n DEF B!Contents
    <3>2. database' = [database EXCEPT ![s] = c]
      BY <2>1
    <3> HIDE DEF c
    <3> QED
      BY <3>1, <3>2, <1>n, DatabaseChanges
  <2> QED
    BY <1>q, <1>n, <1>o, <1>r, <1>t, <2>1, <2>2
<1>5. ASSUME NEW i \in DOMAIN records, B!PgDump(i) PROVE BackupInv'
  <2>0. records[i] \in BackupRows /\ Good(records[i])
    BY <1>r
  <2>1. CASE records' = [records EXCEPT ![i].at = "dumped",
                                        ![i].content = database[records[i].service]]
             /\ faults' = faults
    <3> DEFINE r == [records[i] EXCEPT !.at = "dumped", !.content = database[records[i].service]]
    <3>1. records' = [records EXCEPT ![i] = r]
      BY <2>1
    <3>2. Good(r) /\ r.service = records[i].service
      BY <2>0, <1>n DEF BackupRows, B!RecordStage
    <3> QED
      BY <1>5, <1>n, <1>o, <2>1, <3>1, <3>2, <1>p DEF B!PgDump
  <2>2. CASE B!Fault /\ records' = [records EXCEPT ![i].at = "failed"]
    <3> DEFINE r == [records[i] EXCEPT !.at = "failed"]
    <3>1. records' = [records EXCEPT ![i] = r]
      BY <2>2
    <3>2. Good(r) /\ r.service = records[i].service
      BY <2>0, <1>n DEF BackupRows, B!RecordStage
    <3> QED
      BY <1>5, <1>n, <1>o, <1>f, <2>2, <3>1, <3>2, <1>p DEF B!PgDump
  <2> QED
    BY <1>5, <2>1, <2>2 DEF B!PgDump
<1>6. ASSUME NEW i \in DOMAIN records, B!Upload(i) PROVE BackupInv'
  <2>0. records[i] \in BackupRows /\ Good(records[i])
    BY <1>r
  <2> DEFINE k == B!Key(records[i].service)
  <2>1. k \in B!Keys /\ k.service = records[i].service
    BY <2>0, <1>n DEF B!Key, B!Keys, BackupRows
  <2>2. CASE /\ objects' = {o \in objects : o.bucket # records[i].bucket \/ o.key # k}
                             \cup {[bucket |-> records[i].bucket, key |-> k,
                                    content |-> records[i].content]}
             /\ records' = [records EXCEPT ![i].at = "uploaded", ![i].key = k]
             /\ faults' = faults
    <3> DEFINE r == [records[i] EXCEPT !.at = "uploaded", !.key = k]
               new == [bucket |-> records[i].bucket, key |-> k, content |-> records[i].content]
    <3> HIDE DEF k
    <3>1. records' = [records EXCEPT ![i] = r]
      BY <2>2
    <3>2. Good(r) /\ r.service = records[i].service
      BY <2>0, <2>1, <1>n DEF BackupRows, B!RecordStage
    <3>3. new \in B!Objects /\ new.content.service = new.key.service
      BY <2>0, <2>1 DEF B!Objects, BackupRows
    <3>4. objects' \subseteq B!Objects /\ \A o \in objects' : o.content.service = o.key.service
      BY <2>2, <3>3, <1>n, <1>o
    <3>5. config' = config /\ database' = database /\ restore' = restore /\ clock' = clock
      BY <1>6 DEF B!Upload
    <3> HIDE DEF r, Good
    <3> QED
      BY <1>n, <2>2, <3>1, <3>2, <3>4, <3>5, <1>p
  <2>3. CASE /\ B!Fault /\ records' = [records EXCEPT ![i].at = "failed"] /\ objects' = objects
    <3> DEFINE r == [records[i] EXCEPT !.at = "failed"]
    <3>1. records' = [records EXCEPT ![i] = r]
      BY <2>3
    <3>2. Good(r) /\ r.service = records[i].service
      BY <2>0, <1>n DEF BackupRows, B!RecordStage
    <3> QED
      BY <1>6, <1>n, <1>o, <1>f, <2>3, <3>1, <3>2, <1>p DEF B!Upload
  <2> QED
    BY <1>6, <2>2, <2>3 DEF B!Upload
<1>7. ASSUME NEW i \in DOMAIN records, B!Complete(i) PROVE BackupInv'
  <2>0. records[i] \in BackupRows /\ Good(records[i]) /\ records[i].at = "uploaded"
    BY <1>7, <1>r DEF B!Complete
  <2> PICK stage \in {"completed", "abandoned"} :
             /\ records' = [records EXCEPT ![i].at = stage]
             /\ faults' = faults \/ B!Fault
    BY <1>7 DEF B!Complete
  <2> DEFINE r == [records[i] EXCEPT !.at = stage]
  <2>1. records' = [records EXCEPT ![i] = r]
    OBVIOUS
  <2>2. Good(r) /\ r.service = records[i].service
    BY <2>0, <1>n DEF BackupRows, B!RecordStage
  <2> QED
    <3>1. /\ config' = config /\ database' = database /\ objects' = objects
          /\ restore' = restore /\ clock' = clock /\ faults' \in 0 .. MaxFaults
      BY <1>7, <1>n, <1>f DEF B!Complete
    <3> HIDE DEF r, Good
    <3> QED
      BY <1>n, <1>o, <2>1, <2>2, <3>1, <1>p
<1>8. ASSUME NEW i \in DOMAIN records, B!RestorePostgres(i) PROVE BackupInv'
  <2>1. PICK o \in B!Stored(i) : restore' = [record |-> i, object |-> o.content]
    BY <1>8 DEF B!RestorePostgres
  <2>2. o \in objects /\ records[i].at = "completed" /\ o.key = records[i].key
    BY <2>1 DEF B!Stored
  <2>3. o.content \in B!Contents /\ o.content.service = records[i].service
    BY <2>2, <1>n, <1>o, <1>r DEF B!Objects
  <2>4. /\ restore'.record \in DOMAIN records /\ restore'.object \in B!Contents
        /\ restore'.object.service = records[restore'.record].service
    BY <2>1, <2>3
  <2>5. /\ config' = config /\ database' = database /\ records' = records
        /\ objects' = objects /\ clock' = clock /\ faults' = faults
    BY <1>8 DEF B!RestorePostgres
  <2> QED
    BY <1>q, <1>n, <1>o, <1>r, <2>4, <2>5
<1>9. CASE B!PgRestore
  <2> DEFINE s == records[restore.record].service
  <2>1. /\ restore.record \in DOMAIN records /\ restore.object \in B!Contents
        /\ restore.object.service = s /\ s \in Services
    BY <1>9, <1>t, <1>r DEF B!PgRestore, BackupRows
  <2>2. /\ database' = [database EXCEPT ![s] = restore.object]
           \/ database' = [database EXCEPT ![s].whole = FALSE]
        /\ faults' \in 0 .. MaxFaults /\ restore' = B!Idle
        /\ config' = config /\ records' = records /\ objects' = objects /\ clock' = clock
    BY <1>9, <1>f, <1>n DEF B!PgRestore
  <2> HIDE DEF s
  <2>3. /\ database' \in [Services -> B!Contents]
        /\ \A t \in Services : database'[t].service = t
    <3> DEFINE c == [database[s] EXCEPT !.whole = FALSE]
    <3>1. c \in B!Contents /\ c.service = s
      BY <2>1, <1>n DEF B!Contents
    <3>2. database' = [database EXCEPT ![s] = restore.object]
             \/ database' = [database EXCEPT ![s] = c]
      BY <2>2
    <3> HIDE DEF c
    <3> QED
      BY <2>1, <3>1, <3>2, <1>n, DatabaseChanges
  <2> QED
    BY <1>q, <1>n, <1>o, <1>r, <2>2, <2>3
<1>10. CASE B!Tick
  <2>1. clock' \in 0 .. MaxSeconds
    BY <1>10, <1>n DEF B!Tick
  <2> QED
    BY <1>10, <1>q, <1>n, <1>o, <1>r, <1>t, <2>1 DEF B!Tick
<1>11. CASE B!Crash
  <2> DEFINE Row(i) == IF records[i].at \in {"running", "dumped", "uploaded"}
                       THEN [records[i] EXCEPT !.at = "abandoned"] ELSE records[i]
  <2>1. /\ records' = [i \in DOMAIN records |-> Row(i)]
        /\ restore' = B!Idle /\ faults' \in 0 .. MaxFaults
        /\ config' = config /\ objects' = objects /\ clock' = clock
    BY <1>11, <1>f DEF B!Crash
  <2>2. \A i \in DOMAIN records : Good(Row(i))
    BY <1>r DEF BackupRows, B!RecordStage
  <2> HIDE DEF Row
  <2>3. /\ records' \in Seq(BackupRows) /\ Len(records') = Len(records)
        /\ \A i \in DOMAIN records' : Good(records'[i])
    BY <2>1, <2>2, <1>n
  <2>4. \/ database' = database
        \/ /\ records[restore.record].service \in Services
           /\ database' = [database EXCEPT ![records[restore.record].service].whole = FALSE]
    BY <1>11, <1>t, <1>r DEF B!Crash, BackupRows
  <2>5. /\ database' \in [Services -> B!Contents]
        /\ \A t \in Services : database'[t].service = t
    <3> DEFINE s == records[restore.record].service
               c == [database[s] EXCEPT !.whole = FALSE]
    <3>1. s \in Services => c \in B!Contents /\ c.service = s
      <4>1. SUFFICES ASSUME s \in Services PROVE c \in B!Contents /\ c.service = s
        OBVIOUS
      <4> HIDE DEF s
      <4>2. database[s] \in B!Contents /\ database[s].service = s
        BY <4>1, <1>n
      <4> QED
        BY <4>2 DEF B!Contents
    <3>2. database' = database \/ (s \in Services /\ database' = [database EXCEPT ![s] = c])
      BY <2>4
    <3> HIDE DEF s, c
    <3> QED
      BY <3>1, <3>2, <1>n, DatabaseChanges
  <2> HIDE DEF Good
  <2> QED
    BY <1>q, <1>n, <1>o, <2>1, <2>3, <2>5
<1> QED
  BY <1>1, <1>2, <1>3, <1>4, <1>5, <1>6, <1>7, <1>8, <1>9, <1>10, <1>11 DEF B!Next

LEMMA BackupMeans == ASSUME BackupInv PROVE B!TypeOK /\ B!RestoresItsOwnService
  BY DEF BackupInv, B!RestoresItsOwnService

-----------------------------------------------------------------------------
(* ImageUpdates *)

\* The containers and the reconciler, with all their fields.
Boxes == [state : {"running", "down", "gone"}, image : I!Digests]

Indices == SUBSET Nat

RecRows ==
    [at : I!Updating \cup {"idle", "diff", "heal", "heal create"}, remote : I!Digests,
     deployed : I!Digests, old : Indices, current : Nat, new : Nat, missing : 0 .. Replicas]

\* How many replicas run beside the one that the update has just created, or is about to remove.
Serving ==
    /\ rec.at \in {"create", "failed"} => Cardinality(I!Running) >= floor
    /\ rec.at = "wait" => /\ rec.new \in DOMAIN boxes
                          /\ Cardinality(I!Running \ {rec.new}) >= floor
    /\ rec.at = "stop" => floor = 0 \/ Cardinality(I!Running) >= floor + 1
    /\ rec.at = "delete" => Cardinality(I!Running \ {rec.current}) >= floor

ImagesInv == I!TypeOK /\ boxes \in Seq(Boxes) /\ rec \in RecRows /\ Serving

\* The operators of FiniteSets that ImageUpdates sees are those of this module.
LEMMA SameCount == ASSUME NEW S PROVE I!Cardinality(S) = Cardinality(S)
  BY DEF I!Cardinality, Cardinality

\* The containers that run, or exist, counted.
LEMMA Counted ==
    ASSUME NEW n \in Nat, NEW S \in SUBSET (1 .. n)
    PROVE  IsFiniteSet(S) /\ Cardinality(S) \in 0 .. n
<1>1. IsFiniteSet(1 .. n) /\ Cardinality(1 .. n) = n
  BY FS_Interval
<1>2. IsFiniteSet(S) /\ Cardinality(S) <= Cardinality(1 .. n)
  BY <1>1, FS_Subset
<1>3. Cardinality(S) \in Nat
  BY <1>2, FS_CardinalityType
<1> QED
  BY <1>1, <1>2, <1>3

LEMMA RunningCount ==
    ASSUME boxes \in Seq(Boxes)
    PROVE  /\ IsFiniteSet(I!Running) /\ Cardinality(I!Running) \in 0 .. Len(boxes)
           /\ IsFiniteSet(I!Present) /\ Cardinality(I!Present) \in 0 .. Len(boxes)
<1>1. Len(boxes) \in Nat /\ DOMAIN boxes = 1 .. Len(boxes)
  OBVIOUS
<1>2. I!Running \subseteq 1 .. Len(boxes) /\ I!Present \subseteq 1 .. Len(boxes)
  BY <1>1 DEF I!Running, I!Present
<1> QED
  BY <1>1, <1>2, Counted

\* A set without one of its elements.
LEMMA Without ==
    ASSUME NEW S, NEW x, IsFiniteSet(S)
    PROVE  /\ IsFiniteSet(S \ {x}) /\ Cardinality(S) \in Nat /\ Cardinality(S \ {x}) \in Nat
           /\ Cardinality(S \ {x}) <= Cardinality(S)
           /\ Cardinality(S \ {x}) + 1 >= Cardinality(S)
<1>1. Cardinality(S) \in Nat /\ Cardinality(S \ {x}) \in Nat /\ IsFiniteSet(S \ {x})
  BY FS_CardinalityType, FS_RemoveElement, FS_Subset
<1>2. CASE x \in S
  <2>1. Cardinality(S \ {x}) = Cardinality(S) - 1
    BY <1>2, FS_RemoveElement
  <2> QED
    BY <1>1, <2>1
<1>3. CASE x \notin S
  <2>1. Cardinality(S \ {x}) = Cardinality(S)
    <3>1. S \ {x} = S
      BY <1>3
    <3> QED
      BY <3>1, Zenon
  <2> QED
    BY <1>1, <2>1
<1> QED
  BY <1>2, <1>3

\* A container that is created, and one that ends.
LEMMA BoxesGrow ==
    ASSUME boxes \in Seq(Boxes), NEW image \in I!Digests,
           boxes' = Append(boxes, [state |-> "running", image |-> image])
    PROVE  /\ boxes' \in Seq(Boxes) /\ Len(boxes') = Len(boxes) + 1 /\ Len(boxes) \in Nat
           /\ I!Running' \ {Len(boxes')} = I!Running /\ I!Running \subseteq I!Running'
<1>1. [state |-> "running", image |-> image] \in Boxes
  BY DEF Boxes
<1>2. /\ boxes' \in Seq(Boxes) /\ Len(boxes') = Len(boxes) + 1 /\ Len(boxes) \in Nat
      /\ DOMAIN boxes' = DOMAIN boxes \cup {Len(boxes')} /\ Len(boxes') \notin DOMAIN boxes
      /\ \A i \in DOMAIN boxes : boxes'[i] = boxes[i]
  BY <1>1
<1>3. I!Running' = {i \in DOMAIN boxes' : boxes'[i].state = "running"}
  BY DEF I!Running
<1> QED
  BY <1>2, <1>3 DEF I!Running

LEMMA BoxEnds ==
    ASSUME boxes \in Seq(Boxes), NEW i, NEW state \in {"down", "gone"},
           boxes' = I!Set(i, state)
    PROVE  /\ boxes' \in Seq(Boxes) /\ Len(boxes') = Len(boxes) /\ DOMAIN boxes' = DOMAIN boxes
           /\ I!Running' = I!Running \ {i}
<1>0. boxes' = [boxes EXCEPT ![i].state = state]
  BY DEF I!Set
<1>1. \A k \in DOMAIN boxes : boxes[k] \in Boxes
  BY ElementTypes
<1>2. /\ DOMAIN boxes' = DOMAIN boxes
      /\ \A k \in DOMAIN boxes : boxes'[k] = IF k = i THEN [boxes[k] EXCEPT !.state = state]
                                              ELSE boxes[k]
  BY <1>0
<1>3. \A k \in DOMAIN boxes : /\ boxes'[k] \in Boxes
                              /\ k # i => boxes'[k] = boxes[k]
                              /\ k = i => boxes'[k].state = state
  BY <1>1, <1>2 DEF Boxes
<1>4. boxes' \in Seq(Boxes) /\ Len(boxes') = Len(boxes)
  <2>1. DOMAIN boxes = 1 .. Len(boxes) /\ Len(boxes) \in Nat
    OBVIOUS
  <2>2. boxes' = [k \in 1 .. Len(boxes) |-> boxes'[k]]
    BY <1>0, <2>1
  <2>3. \A k \in 1 .. Len(boxes) : boxes'[k] \in Boxes
    BY <1>3, <2>1
  <2> HIDE DEF Boxes
  <2> QED
    BY <2>1, <2>2, <2>3
<1>5. I!Running' = {k \in DOMAIN boxes' : boxes'[k].state = "running"}
  BY DEF I!Running
<1> QED
  BY <1>2, <1>3, <1>4, <1>5 DEF I!Running

LEMMA ImagesInit == ASSUME I!ImageAssumption, I!Init PROVE ImagesInv
<1>1. /\ Replicas \in Nat /\ MaxDigest \in Nat \ {0} /\ ImageFaults \in Nat
      /\ rec = I!Idle /\ floor = 0 /\ faults = 0
      /\ boxes = [i \in 1 .. Replicas |-> [state |-> "running", image |-> 1]]
  BY DEF I!ImageAssumption, I!Init
<1>2. boxes \in Seq(Boxes) /\ Len(boxes) = Replicas
  <2>1. [state |-> "running", image |-> 1] \in Boxes
    BY <1>1 DEF Boxes, I!Digests
  <2> QED
    BY <1>1, <2>1
<1>3. rec \in RecRows /\ rec.at = "idle" /\ rec.remote = 0 /\ rec.missing = 0
  <2>1. {} \in Indices /\ 0 \in I!Digests /\ 0 \in 0 .. Replicas
    BY <1>1 DEF Indices, I!Digests
  <2> QED
    BY <1>1, <2>1 DEF I!Idle, RecRows
<1>4. I!TypeOK
  <2>1. /\ published \in I!Digests \ {0} /\ held \in I!Digests
        /\ row \in [status : {"running", "deploying", "failed"}, deployed : I!Digests,
                    remote : I!Digests, available : BOOLEAN]
        /\ poll \in [at : {"idle", "fetch", "store"}, digest : I!Digests, deployed : I!Digests]
    <3>1. /\ published = 1 /\ held = 1
          /\ poll = [at |-> "idle", digest |-> 0, deployed |-> 0]
          /\ row \in [status : {"running"}, deployed : {0, 1}, remote : {0}, available : {FALSE}]
      BY DEF I!Init
    <3>2. 0 \in I!Digests /\ 1 \in I!Digests
      BY <1>1 DEF I!Digests
    <3>3. published \in I!Digests \ {0} /\ held \in I!Digests
      BY <3>1, <3>2
    <3>4. poll \in [at : {"idle", "fetch", "store"}, digest : I!Digests, deployed : I!Digests]
      BY <3>1, <3>2
    <3>5. row \in [status : {"running", "deploying", "failed"}, deployed : I!Digests,
                   remote : I!Digests, available : BOOLEAN]
      BY <3>1, <3>2
    <3> QED
      BY <3>3, <3>4, <3>5
  <2>2. /\ rec.at \in I!Updating \cup {"idle", "diff", "heal", "heal create"}
        /\ rec.remote \in I!Digests /\ rec.missing \in 0 .. Replicas
        /\ floor \in 0 .. Len(boxes) /\ faults \in 0 .. ImageFaults
    BY <1>1, <1>2, <1>3 DEF I!Digests
  <2> QED
    BY <1>2, <2>1, <2>2 DEF I!TypeOK, Boxes
<1> QED
  BY <1>2, <1>3, <1>4 DEF ImagesInv, Serving

LEMMA ImagesStays ==
    ASSUME I!ImageAssumption, ImagesInv, [I!Next]_(I!vars) PROVE ImagesInv'
<1>t. /\ boxes \in Seq(Boxes) /\ Len(boxes) \in Nat /\ rec \in RecRows /\ Serving
      /\ Replicas \in Nat /\ MaxDigest \in Nat \ {0} /\ ImageFaults \in Nat
      /\ floor \in Nat /\ floor <= Len(boxes) /\ faults \in 0 .. ImageFaults
      /\ IsFiniteSet(I!Running) /\ Cardinality(I!Running) \in 0 .. Len(boxes)
      /\ Cardinality(I!Present) \in Nat
  <2>1. /\ boxes \in Seq(Boxes) /\ rec \in RecRows /\ Serving
        /\ Replicas \in Nat /\ MaxDigest \in Nat \ {0} /\ ImageFaults \in Nat
    BY DEF ImagesInv, I!ImageAssumption
  <2>2. floor \in 0 .. Len(boxes) /\ faults \in 0 .. ImageFaults
    BY DEF ImagesInv, I!TypeOK
  <2>3. Len(boxes) \in Nat
    BY <2>1
  <2>4. /\ IsFiniteSet(I!Running) /\ Cardinality(I!Running) \in 0 .. Len(boxes)
        /\ Cardinality(I!Present) \in 0 .. Len(boxes)
    BY <2>1, RunningCount
  <2> QED
    BY <2>1, <2>2, <2>3, <2>4
<1>u. /\ published \in I!Digests \ {0} /\ held \in I!Digests
      /\ row \in [status : {"running", "deploying", "failed"}, deployed : I!Digests,
                  remote : I!Digests, available : BOOLEAN]
      /\ poll \in [at : {"idle", "fetch", "store"}, digest : I!Digests, deployed : I!Digests]
  BY DEF ImagesInv, I!TypeOK
<1>a. /\ floor \in Nat /\ Cardinality(I!Running) \in Nat /\ Cardinality(I!Present) \in Nat
      /\ Len(boxes) \in Nat /\ floor <= Len(boxes)
  BY <1>t
<1>w. \A x : /\ Cardinality(I!Running \ {x}) \in Nat
             /\ Cardinality(I!Running \ {x}) <= Cardinality(I!Running)
             /\ Cardinality(I!Running \ {x}) + 1 >= Cardinality(I!Running)
  BY <1>t, Without
<1>f. I!Fault => faults' \in 0 .. ImageFaults
  BY <1>t DEF I!Fault
\* The state that the registry, the row and the polling job are in stays of its type.
<1>v. /\ published' \in I!Digests \ {0} /\ held' \in I!Digests
      /\ row' \in [status : {"running", "deploying", "failed"}, deployed : I!Digests,
                   remote : I!Digests, available : BOOLEAN]
      /\ poll' \in [at : {"idle", "fetch", "store"}, digest : I!Digests, deployed : I!Digests]
      /\ faults' \in 0 .. ImageFaults
  <2>0. /\ 0 \in I!Digests /\ rec.remote \in I!Digests /\ row.deployed \in I!Digests
        /\ published \in I!Digests /\ poll.digest \in I!Digests
    <3>1. 0 \in I!Digests
      BY <1>t DEF I!Digests
    <3>2. rec.remote \in I!Digests
      BY <1>t DEF RecRows
    <3>3. published \in I!Digests /\ row.deployed \in I!Digests
      BY <1>u
    <3>4. poll.digest \in I!Digests
      BY <1>u
    <3> QED
      BY <3>1, <3>2, <3>3, <3>4
  <2>1. published' = published \/ (published < MaxDigest /\ published' = published + 1)
    BY DEF I!Next, I!PollStep, I!ReconcilerStep, I!RollingStep, I!Push, I!PollDigests,
        I!FetchDigest, I!StoreDigest, I!RecQuery, I!DiffHeal, I!DiffUpdate, I!ScaleUp,
        I!ScaleDown, I!DiffNoop, I!Heal, I!HealCreate, I!CreateReplica, I!WaitHealthy,
        I!StopOld, I!DeleteOld, I!CreateMissing, I!UpdateCommit, I!UpdateFails, I!Exit,
        I!Crash, I!RemoveImage, I!vars
  <2>p. published' \in I!Digests \ {0}
    BY <2>1, <1>t, <1>u DEF I!Digests
  <2>2. held' \in I!Digests
    BY <1>u, <2>0, <2>p
    DEF I!Next, I!PollStep, I!ReconcilerStep, I!RollingStep, I!Push, I!PollDigests,
        I!FetchDigest, I!StoreDigest, I!RecQuery, I!DiffHeal, I!DiffUpdate, I!ScaleUp,
        I!ScaleDown, I!DiffNoop, I!Heal, I!HealCreate, I!CreateReplica, I!WaitHealthy,
        I!StopOld, I!DeleteOld, I!CreateMissing, I!UpdateCommit, I!UpdateFails, I!Exit,
        I!Crash, I!RemoveImage, I!vars, I!Create, I!CreateFails
  <2>3. \/ row' = row
        \/ row' = [row EXCEPT !.remote = poll.digest,
                              !.available = @ \/ poll.digest # poll.deployed]
        \/ \E s \in {"running", "deploying", "failed"} : row' = [row EXCEPT !.status = s]
        \/ row' = [row EXCEPT !.status = "running", !.deployed = rec.remote,
                              !.available = FALSE]
    BY DEF I!Next, I!PollStep, I!ReconcilerStep, I!RollingStep, I!Push, I!PollDigests,
        I!FetchDigest, I!StoreDigest, I!RecQuery, I!DiffHeal, I!DiffUpdate, I!ScaleUp,
        I!ScaleDown, I!DiffNoop, I!Heal, I!HealCreate, I!CreateReplica, I!WaitHealthy,
        I!StopOld, I!DeleteOld, I!CreateMissing, I!UpdateCommit, I!UpdateFails, I!Exit,
        I!Crash, I!RemoveImage, I!vars
  <2>4. row' \in [status : {"running", "deploying", "failed"}, deployed : I!Digests,
                  remote : I!Digests, available : BOOLEAN]
    BY <1>u, <2>0, <2>3
  <2>5. \/ poll' = poll
        \/ poll' = [at |-> "fetch", digest |-> 0, deployed |-> row.deployed]
        \/ poll' = [poll EXCEPT !.at = "store", !.digest = published]
        \/ poll' = [poll EXCEPT !.at = "idle"]
    BY DEF I!Next, I!PollStep, I!ReconcilerStep, I!RollingStep, I!Push, I!PollDigests,
        I!FetchDigest, I!StoreDigest, I!RecQuery, I!DiffHeal, I!DiffUpdate, I!ScaleUp,
        I!ScaleDown, I!DiffNoop, I!Heal, I!HealCreate, I!CreateReplica, I!WaitHealthy,
        I!StopOld, I!DeleteOld, I!CreateMissing, I!UpdateCommit, I!UpdateFails, I!Exit,
        I!Crash, I!RemoveImage, I!vars
  <2>6. poll' \in [at : {"idle", "fetch", "store"}, digest : I!Digests, deployed : I!Digests]
    <3>1. poll \in [at : {"idle", "fetch", "store"}, digest : I!Digests, deployed : I!Digests]
      BY <1>u
    <3>2. CASE poll' = [at |-> "fetch", digest |-> 0, deployed |-> row.deployed]
      BY <2>0, <3>2
    <3>3. CASE poll' = [poll EXCEPT !.at = "store", !.digest = published]
      BY <2>0, <3>1, <3>3
    <3>4. CASE poll' = [poll EXCEPT !.at = "idle"]
      BY <3>1, <3>4
    <3> QED
      BY <2>5, <3>1, <3>2, <3>3, <3>4
  <2>7. faults' = faults \/ I!Fault
    BY DEF I!Next, I!PollStep, I!ReconcilerStep, I!RollingStep, I!Push, I!PollDigests,
        I!FetchDigest, I!StoreDigest, I!RecQuery, I!DiffHeal, I!DiffUpdate, I!ScaleUp,
        I!ScaleDown, I!DiffNoop, I!Heal, I!HealCreate, I!CreateReplica, I!WaitHealthy,
        I!StopOld, I!DeleteOld, I!CreateMissing, I!UpdateCommit, I!UpdateFails, I!Exit,
        I!Crash, I!RemoveImage, I!vars, I!CreateFails
  <2> QED
    BY <1>t, <1>f, <2>p, <2>2, <2>4, <2>6, <2>7
\* What is left to show of a step.
<1>q. ASSUME boxes' \in Seq(Boxes), rec' \in RecRows, floor' \in 0 .. Len(boxes'), Serving'
      PROVE  ImagesInv'
  <2>1. /\ rec'.at \in I!Updating \cup {"idle", "diff", "heal", "heal create"}
        /\ rec'.remote \in I!Digests /\ rec'.missing \in 0 .. Replicas
    BY <1>q DEF RecRows
  <2>2. I!TypeOK'
    BY <1>q, <1>v, <2>1 DEF I!TypeOK, Boxes
  <2> QED
    BY <1>q, <2>2 DEF ImagesInv
\* A container is created from the image that the engine holds.
<1>c. ASSUME I!Create
      PROVE  /\ boxes' \in Seq(Boxes) /\ Len(boxes') = Len(boxes) + 1
             /\ Len(boxes') \in Nat /\ Len(boxes') \in DOMAIN boxes'
             /\ I!Running' \ {Len(boxes')} = I!Running
             /\ Cardinality(I!Running' \ {Len(boxes')}) = Cardinality(I!Running)
             /\ Cardinality(I!Running') >= Cardinality(I!Running)
             /\ Cardinality(I!Running') \in Nat
  <2>1. boxes' = Append(boxes, [state |-> "running", image |-> held'])
    BY <1>c DEF I!Create
  <2>2. /\ boxes' \in Seq(Boxes) /\ Len(boxes') = Len(boxes) + 1
        /\ I!Running' \ {Len(boxes')} = I!Running /\ I!Running \subseteq I!Running'
    BY <1>t, <1>v, <2>1, BoxesGrow
  <2>3. Len(boxes') \in Nat /\ I!Running' \subseteq 1 .. Len(boxes')
    BY <2>2 DEF I!Running
  <2>4. IsFiniteSet(I!Running') /\ Cardinality(I!Running') \in Nat
    BY <2>3, Counted
  <2>5. Cardinality(I!Running) <= Cardinality(I!Running')
    BY <2>2, <2>4, FS_Subset
  <2>6. Cardinality(I!Running' \ {Len(boxes')}) = Cardinality(I!Running)
    BY <2>2, Zenon
  <2>7. Len(boxes') \in DOMAIN boxes'
    BY <2>2
  <2> QED
    BY <2>2, <2>3, <2>4, <2>5, <2>6, <2>7
<1>e. ASSUME NEW i, NEW state \in {"down", "gone"}, boxes' = I!Set(i, state)
      PROVE  /\ boxes' \in Seq(Boxes) /\ Len(boxes') = Len(boxes)
             /\ I!Running' = I!Running \ {i}
             /\ Cardinality(I!Running') = Cardinality(I!Running \ {i})
             /\ Cardinality(I!Running') \in Nat /\ DOMAIN boxes' = DOMAIN boxes
             /\ Cardinality(I!Running') <= Cardinality(I!Running)
             /\ Cardinality(I!Running') + 1 >= Cardinality(I!Running)
  <2>1. /\ boxes' \in Seq(Boxes) /\ Len(boxes') = Len(boxes) /\ DOMAIN boxes' = DOMAIN boxes
        /\ I!Running' = I!Running \ {i}
    BY <1>t, <1>e, BoxEnds
  <2>2. Cardinality(I!Running') = Cardinality(I!Running \ {i})
    BY <2>1, Zenon
  <2> QED
    BY <2>1, <2>2, <1>w
<1>s. ASSUME boxes' = boxes
      PROVE  I!Running' = I!Running /\ Cardinality(I!Running') = Cardinality(I!Running)
  <2>1. I!Running' = I!Running
    BY <1>s DEF I!Running
  <2> QED
    BY <2>1, Zenon
<1>i. I!Idle \in RecRows /\ I!Idle.at = "idle"
  <2>1. {} \in Indices /\ 0 \in I!Digests /\ 0 \in 0 .. Replicas
    BY <1>t DEF Indices, I!Digests
  <2> QED
    BY <2>1 DEF I!Idle, RecRows
\* Steps that leave the reconciler and the containers alone.
<1>1. ASSUME boxes' = boxes, rec' = rec, floor' = floor PROVE ImagesInv'
  <2>1. Serving'
    BY <1>1, <1>s, <1>t DEF Serving
  <2> QED
    BY <1>1, <1>q, <1>t, <2>1
<1>2. CASE UNCHANGED I!vars \/ I!Push \/ I!PollStep \/ I!RemoveImage
  BY <1>1, <1>2 DEF I!vars, I!Push, I!PollStep, I!PollDigests, I!FetchDigest, I!StoreDigest,
     I!RemoveImage
\* Steps after which no update is under way.
<1>3. ASSUME boxes' \in Seq(Boxes), rec' \in RecRows, floor' = floor, Len(boxes') >= Len(boxes),
             rec'.at \in {"idle", "diff", "heal", "heal create"}
      PROVE  ImagesInv'
  <2>1. Serving'
    BY <1>3 DEF Serving
  <2>2. floor' \in 0 .. Len(boxes')
    <3>0. boxes' \in Seq(Boxes) /\ Len(boxes') >= Len(boxes) /\ floor' = floor
      BY <1>3
    <3>1. Len(boxes') \in Nat
      BY <3>0
    <3> QED
      BY <1>t, <3>0, <3>1
  <2> QED
    BY <1>3, <1>q, <2>1, <2>2
<1>4. CASE I!RecQuery
  <2>1. rec' = [I!Idle EXCEPT !.at = "diff", !.remote = row.remote, !.deployed = row.deployed]
    BY <1>4 DEF I!RecQuery
  <2>2. rec' \in RecRows /\ rec'.at = "diff"
    BY <2>1, <1>i, <1>u DEF RecRows
  <2> QED
    BY <1>4, <2>2, <1>3, <1>t DEF I!RecQuery
<1>5. CASE I!DiffHeal
  <2>1. rec' \in RecRows /\ rec'.at = "heal"
    BY <1>5, <1>t DEF I!DiffHeal, RecRows
  <2> QED
    BY <1>5, <2>1, <1>3, <1>t DEF I!DiffHeal
<1>6. CASE I!DiffUpdate
  <2> DEFINE missing == IF Cardinality(I!Present) < Replicas
                        THEN Replicas - Cardinality(I!Present) ELSE 0
  <2>1. /\ rec' = [rec EXCEPT !.at = "create", !.old = I!Present, !.missing = missing]
        /\ floor' = Cardinality(I!Running) /\ boxes' = boxes
    BY <1>6, SameCount DEF I!DiffUpdate
  <2>2. missing \in 0 .. Replicas
    BY <1>t
  <2>3. I!Present \in Indices
    BY <1>t DEF I!Present, Indices
  <2> HIDE DEF missing
  <2>4. rec' \in RecRows /\ rec'.at = "create"
    BY <2>1, <2>2, <2>3, <1>t DEF RecRows, I!Updating
  <2>5. Serving'
    BY <2>1, <2>4, <1>s, <1>t DEF Serving
  <2> QED
    BY <2>1, <2>4, <2>5, <1>q, <1>t
<1>7. CASE I!ScaleUp
  <2>1. boxes' \in Seq(Boxes) /\ Len(boxes') >= Len(boxes)
    BY <1>7, <1>c, <1>t DEF I!ScaleUp, I!CreateFails
  <2> QED
    BY <1>7, <2>1, <1>3, <1>i DEF I!ScaleUp
<1>8. CASE I!ScaleDown
  <2>1. boxes' \in Seq(Boxes) /\ Len(boxes') = Len(boxes)
    BY <1>8, <1>e DEF I!ScaleDown
  <2> QED
    BY <1>8, <2>1, <1>3, <1>i, <1>t DEF I!ScaleDown
<1>9. CASE I!DiffNoop
  BY <1>9, <1>3, <1>i, <1>t DEF I!DiffNoop
<1>10. CASE I!Heal
  <2>1. CASE boxes' = boxes /\ rec' = I!Idle /\ floor' = floor
    BY <2>1, <1>3, <1>i, <1>t
  <2>2. CASE /\ boxes' = [i \in DOMAIN boxes |-> [boxes[i] EXCEPT !.state = "gone"]]
             /\ rec' = [rec EXCEPT !.at = "heal create"] /\ floor' = floor
    <3>0. boxes \in Seq(Boxes)
      BY <1>t
    <3>x. \A i \in DOMAIN boxes : boxes[i] \in Boxes
      BY <3>0, ElementTypes
    <3>1. \A i \in DOMAIN boxes : [boxes[i] EXCEPT !.state = "gone"] \in Boxes
      BY <3>x DEF Boxes
    <3>2. boxes' \in Seq(Boxes) /\ Len(boxes') = Len(boxes)
      <4>1. DOMAIN boxes = 1 .. Len(boxes) /\ Len(boxes) \in Nat
        BY <3>0
      <4>2. boxes' = [i \in 1 .. Len(boxes) |-> [boxes[i] EXCEPT !.state = "gone"]]
        BY <2>2, <4>1
      <4> QED
        BY <4>1, <4>2, <3>1
    <3>3. rec' \in RecRows /\ rec'.at = "heal create"
      BY <2>2, <1>t DEF RecRows
    <3> QED
      <4>1. /\ Len(boxes') >= Len(boxes) /\ floor' = floor
            /\ rec'.at \in {"idle", "diff", "heal", "heal create"}
        <5>1. Len(boxes') = Len(boxes)
          BY <3>2
        <5>2. Len(boxes') >= Len(boxes)
          BY <5>1, <1>a
        <5> QED
          BY <2>2, <3>3, <5>2
      <4> QED
        BY <3>2, <3>3, <4>1, <1>3
  <2> QED
    BY <1>10, <2>1, <2>2 DEF I!Heal
<1>11. CASE I!HealCreate
  <2>1. I!Create \/ boxes' = boxes
    BY <1>11 DEF I!HealCreate, I!CreateFails
  <2>2. boxes' \in Seq(Boxes) /\ Len(boxes') >= Len(boxes)
    BY <2>1, <1>c, <1>t
  <2> QED
    BY <1>11, <2>2, <1>3, <1>i DEF I!HealCreate
<1>12. CASE I!CreateReplica
  <2>1. CASE /\ I!Create /\ floor' = floor /\ rec.at = "create"
             /\ \E i \in rec.old :
                  rec' = [rec EXCEPT !.at = "wait", !.old = @ \ {i}, !.current = i,
                                     !.new = Len(boxes')]
    <3>1. PICK i \in rec.old : rec' = [rec EXCEPT !.at = "wait", !.old = @ \ {i}, !.current = i,
                                                  !.new = Len(boxes')]
      BY <2>1
    <3>2. Len(boxes') \in Nat /\ i \in Nat /\ rec.old \ {i} \in Indices
      <4>1. rec.old \subseteq Nat
        BY <1>t DEF RecRows, Indices
      <4> QED
        BY <2>1, <1>c, <4>1 DEF Indices
    <3>3. rec' \in RecRows /\ rec'.at = "wait" /\ rec'.new = Len(boxes')
      BY <3>1, <3>2, <1>t DEF RecRows, I!Updating
    <3>4. Serving'
      BY <2>1, <3>3, <1>c, <1>t DEF Serving
    <3> QED
      BY <2>1, <3>2, <3>3, <3>4, <1>c, <1>q, <1>t
  <2>2. CASE /\ boxes' = boxes /\ floor' = floor /\ rec.at = "create"
             /\ rec' = [rec EXCEPT !.at = "failed"]
    <3>1. rec' \in RecRows /\ rec'.at = "failed"
      BY <2>2, <1>t DEF RecRows, I!Updating
    <3>2. Serving'
      BY <2>2, <3>1, <1>s, <1>t DEF Serving
    <3> QED
      BY <2>2, <3>1, <3>2, <1>q, <1>t
  <2> QED
    BY <1>12, <2>1, <2>2 DEF I!CreateReplica, I!CreateFails
<1>13. CASE I!WaitHealthy
  <2>0. /\ rec.at = "wait" /\ floor' = floor /\ Cardinality(I!Running \ {rec.new}) >= floor
        /\ rec.new \in DOMAIN boxes
    BY <1>13, <1>t DEF I!WaitHealthy, Serving
  <2>1. CASE /\ rec.new \in DOMAIN boxes /\ boxes[rec.new].state = "running" /\ boxes' = boxes
             /\ rec' = [rec EXCEPT !.at = "stop"]
    <3>1. rec' \in RecRows /\ rec'.at = "stop"
      BY <2>1, <1>t DEF RecRows, I!Updating
    <3>2. rec.new \in I!Running
      BY <2>1 DEF I!Running
    <3>3. Cardinality(I!Running \ {rec.new}) = Cardinality(I!Running) - 1
      BY <3>2, <1>t, FS_RemoveElement
    <3>4. Cardinality(I!Running) >= floor + 1
      BY <2>0, <3>3, <1>t, <1>w
    <3>5. Serving'
      BY <2>0, <2>1, <3>1, <3>4, <1>s, <1>t DEF Serving
    <3> QED
      BY <2>0, <2>1, <3>1, <3>5, <1>q, <1>t
  <2>2. CASE /\ boxes' = boxes \/ boxes' = I!Set(rec.new, "gone")
             /\ rec' = [rec EXCEPT !.at = "failed"]
    <3>1. rec' \in RecRows /\ rec'.at = "failed"
      BY <2>2, <1>t DEF RecRows, I!Updating
    <3>2. /\ boxes' \in Seq(Boxes) /\ Len(boxes') = Len(boxes)
          /\ \/ Cardinality(I!Running') = Cardinality(I!Running)
             \/ Cardinality(I!Running') = Cardinality(I!Running \ {rec.new})
      BY <2>2, <1>e, <1>s, <1>t
    <3>x. /\ Cardinality(I!Running \ {rec.new}) \in Nat
          /\ Cardinality(I!Running \ {rec.new}) <= Cardinality(I!Running)
          /\ Cardinality(I!Running) \in Nat /\ floor \in Nat
      BY <1>w, <1>a
    <3>3. Cardinality(I!Running') >= floor
      BY <2>0, <3>2, <3>x
    <3>4. Serving'
      BY <2>0, <3>1, <3>3 DEF Serving
    <3> QED
      BY <2>0, <3>1, <3>2, <3>4, <1>q, <1>t
  <2> QED
    BY <1>13, <2>0, <2>1, <2>2 DEF I!WaitHealthy
<1>14. CASE I!StopOld
  <2>0. /\ floor = 0 \/ Cardinality(I!Running) >= floor + 1
        /\ floor' = floor /\ rec' = [rec EXCEPT !.at = "delete"]
        /\ boxes' = boxes \/ boxes' = I!Set(rec.current, "down")
    BY <1>14, <1>t DEF I!StopOld, Serving
  <2>1. rec' \in RecRows /\ rec'.at = "delete" /\ rec'.current = rec.current
    BY <2>0, <1>t DEF RecRows, I!Updating
  <2>2. /\ boxes' \in Seq(Boxes) /\ Len(boxes') = Len(boxes)
        /\ I!Running' = I!Running \/ I!Running' = I!Running \ {rec.current}
    BY <2>0, <1>e, <1>s, <1>t
  <2>3. I!Running' \ {rec.current} = I!Running \ {rec.current}
    BY <2>2
  <2>x. /\ Cardinality(I!Running \ {rec.current}) \in Nat
        /\ Cardinality(I!Running \ {rec.current}) + 1 >= Cardinality(I!Running)
        /\ Cardinality(I!Running) \in Nat /\ floor \in Nat
    BY <1>w, <1>a
  <2>4. Cardinality(I!Running \ {rec.current}) >= floor
    BY <2>0, <2>x
  <2>5. Serving'
    BY <2>0, <2>1, <2>3, <2>4 DEF Serving
  <2> QED
    BY <2>0, <2>1, <2>2, <2>5, <1>q, <1>t
<1>15. CASE I!DeleteOld
  <2>0. /\ Cardinality(I!Running \ {rec.current}) >= floor
        /\ floor' = floor /\ rec' = [rec EXCEPT !.at = "create"]
        /\ boxes' = boxes \/ boxes' = I!Set(rec.current, "gone")
    BY <1>15, <1>t DEF I!DeleteOld, Serving
  <2>1. rec' \in RecRows /\ rec'.at = "create"
    BY <2>0, <1>t DEF RecRows, I!Updating
  <2>2. /\ boxes' \in Seq(Boxes) /\ Len(boxes') = Len(boxes)
        /\ \/ Cardinality(I!Running') = Cardinality(I!Running)
           \/ Cardinality(I!Running') = Cardinality(I!Running \ {rec.current})
    BY <2>0, <1>e, <1>s, <1>t
  <2>x. /\ Cardinality(I!Running \ {rec.current}) \in Nat
        /\ Cardinality(I!Running \ {rec.current}) <= Cardinality(I!Running)
        /\ Cardinality(I!Running) \in Nat /\ floor \in Nat
    BY <1>w, <1>a
  <2>3. Cardinality(I!Running') >= floor
    BY <2>0, <2>2, <2>x
  <2>4. Serving'
    BY <2>0, <2>1, <2>3 DEF Serving
  <2> QED
    BY <2>0, <2>1, <2>2, <2>4, <1>q, <1>t
<1>16. CASE I!CreateMissing
  <2>0. /\ rec.at = "create" /\ rec.missing > 0 /\ floor' = floor
        /\ rec' = [rec EXCEPT !.missing = @ - 1]
        /\ I!Create \/ boxes' = boxes
    BY <1>16 DEF I!CreateMissing, I!CreateFails
  <2>m. rec.missing - 1 \in 0 .. Replicas
    <3>1. rec.missing \in 0 .. Replicas
      BY <1>t DEF RecRows
    <3> QED
      BY <2>0, <3>1, <1>t
  <2>1. rec' \in RecRows /\ rec'.at = "create"
    <3> DEFINE m == rec.missing - 1
    <3>0. rec' = [rec EXCEPT !.missing = m]
      BY <2>0
    <3>1. m \in 0 .. Replicas
      BY <2>m
    <3> HIDE DEF m
    <3> QED
      BY <2>0, <3>0, <3>1, <1>t DEF RecRows
  <2>2. /\ boxes' \in Seq(Boxes) /\ Len(boxes') >= Len(boxes) /\ Len(boxes') \in Nat
        /\ Cardinality(I!Running') \in Nat /\ Cardinality(I!Running') >= Cardinality(I!Running)
    BY <2>0, <1>c, <1>s, <1>t
  <2>3. Serving'
    BY <2>0, <2>1, <2>2, <1>t DEF Serving
  <2> QED
    BY <2>0, <2>1, <2>2, <2>3, <1>q, <1>t
<1>17. CASE I!UpdateCommit \/ I!UpdateFails
  <2>1. boxes' = boxes /\ rec' = I!Idle /\ floor' = floor
    BY <1>17 DEF I!UpdateCommit, I!UpdateFails
  <2> QED
    BY <2>1, <1>3, <1>i, <1>t
<1>18. CASE I!Exit
  <2>0. PICK i \in I!Running :
          /\ boxes' = I!Set(i, "down") /\ rec' = rec
          /\ floor' = IF floor = 0 \/ (rec.at = "wait" /\ i = rec.new) THEN floor ELSE floor - 1
    BY <1>18 DEF I!Exit
  <2>1. /\ boxes' \in Seq(Boxes) /\ Len(boxes') = Len(boxes) /\ I!Running' = I!Running \ {i}
        /\ DOMAIN boxes' = DOMAIN boxes
    BY <2>0, <1>e
  <2>2. ASSUME NEW x
        PROVE  /\ Cardinality(I!Running' \ {x}) + 1 >= Cardinality(I!Running \ {x})
               /\ Cardinality(I!Running' \ {x}) \in Nat
               /\ x = i => Cardinality(I!Running' \ {x}) = Cardinality(I!Running \ {x})
    <3>1. I!Running' \ {x} = (I!Running \ {x}) \ {i}
      BY <2>1
    <3>2. IsFiniteSet(I!Running \ {x})
      BY <1>t, Without
    <3>3. Cardinality(I!Running' \ {x}) = Cardinality((I!Running \ {x}) \ {i})
      BY <3>1, Zenon
    <3>4. x = i => (I!Running \ {x}) \ {i} = I!Running \ {x}
      OBVIOUS
    <3>5. x = i => Cardinality((I!Running \ {x}) \ {i}) = Cardinality(I!Running \ {x})
      BY <3>4, Zenon
    <3> QED
      BY <3>2, <3>3, <3>5, Without
  <2>3. Cardinality(I!Running') + 1 >= Cardinality(I!Running) /\ Cardinality(I!Running') \in Nat
    BY <2>0, <1>e
  <2>4. Serving'
    <3>1. /\ rec.at' = rec.at /\ rec.new' = rec.new /\ rec.current' = rec.current
          /\ DOMAIN boxes' = DOMAIN boxes
      BY <2>0, <2>1
    <3>2. /\ Cardinality(I!Running \ {rec.new}) \in Nat
          /\ Cardinality(I!Running \ {rec.current}) \in Nat
      BY <1>w
    <3>3. rec.at \in {"create", "failed"} => Cardinality(I!Running') >= floor'
      BY <2>0, <2>3, <1>a, <1>t DEF Serving
    <3>x. /\ Cardinality(I!Running' \ {rec.new}) + 1 >= Cardinality(I!Running \ {rec.new})
          /\ Cardinality(I!Running' \ {rec.new}) \in Nat
          /\ rec.new = i =>
               Cardinality(I!Running' \ {rec.new}) = Cardinality(I!Running \ {rec.new})
          /\ Cardinality(I!Running' \ {rec.current}) + 1 >= Cardinality(I!Running \ {rec.current})
          /\ Cardinality(I!Running' \ {rec.current}) \in Nat
      BY <2>2
    <3>y. /\ rec.at = "wait" => rec.new \in DOMAIN boxes
          /\ rec.at = "wait" => Cardinality(I!Running \ {rec.new}) >= floor
          /\ rec.at = "delete" => Cardinality(I!Running \ {rec.current}) >= floor
      BY <1>t DEF Serving
    <3>4. rec.at = "wait" => /\ rec.new \in DOMAIN boxes'
                            /\ Cardinality(I!Running' \ {rec.new}) >= floor'
      BY <2>0, <3>x, <3>y, <3>1, <3>2, <1>a
    <3>5. rec.at = "stop" => floor' = 0 \/ Cardinality(I!Running') >= floor' + 1
      BY <2>0, <2>3, <1>a, <1>t DEF Serving
    <3>6. rec.at = "delete" => Cardinality(I!Running' \ {rec.current}) >= floor'
      BY <2>0, <3>x, <3>y, <3>2, <1>a
    <3> QED
      BY <3>1, <3>3, <3>4, <3>5, <3>6 DEF Serving
  <2>5. floor' \in 0 .. Len(boxes')
    BY <2>0, <2>1, <1>t
  <2> QED
    BY <2>0, <2>1, <2>4, <2>5, <1>q, <1>t
<1>19. CASE I!Crash
  BY <1>19, <1>3, <1>i, <1>t DEF I!Crash
<1> QED
  BY <1>2, <1>4, <1>5, <1>6, <1>7, <1>8, <1>9, <1>10, <1>11, <1>12, <1>13, <1>14, <1>15, <1>16,
     <1>17, <1>18, <1>19
  DEF I!Next, I!ReconcilerStep, I!RollingStep

LEMMA ImagesMeans == ASSUME ImagesInv PROVE I!TypeOK /\ I!UpdateKeepsServing
<1>1. boxes \in Seq(Boxes) /\ Serving /\ I!TypeOK
  BY DEF ImagesInv
<1>2. /\ IsFiniteSet(I!Running) /\ Cardinality(I!Running) \in Nat /\ floor \in Nat
  <2>1. floor \in 0 .. Len(boxes)
    BY <1>1 DEF I!TypeOK
  <2>2. Len(boxes) \in Nat
    BY <1>1
  <2>3. IsFiniteSet(I!Running) /\ Cardinality(I!Running) \in 0 .. Len(boxes)
    BY <1>1, RunningCount
  <2> QED
    BY <2>1, <2>2, <2>3
<1>3. \A x : /\ Cardinality(I!Running \ {x}) \in Nat
             /\ Cardinality(I!Running \ {x}) <= Cardinality(I!Running)
  BY <1>2, Without
<1> QED
  <2>1. rec.at \in I!Updating => Cardinality(I!Running) >= floor
    <3>1. /\ Cardinality(I!Running \ {rec.new}) \in Nat
          /\ Cardinality(I!Running \ {rec.new}) <= Cardinality(I!Running)
          /\ Cardinality(I!Running \ {rec.current}) \in Nat
          /\ Cardinality(I!Running \ {rec.current}) <= Cardinality(I!Running)
      BY <1>3
    <3> QED
      BY <1>1, <1>2, <3>1 DEF Serving, I!Updating
  <2>2. I!Cardinality(I!Running) = Cardinality(I!Running)
    BY SameCount
  <2> QED
    BY <1>1, <2>1, <2>2 DEF I!UpdateKeepsServing

-----------------------------------------------------------------------------
(* SelfUpdate *)

UpdateRows ==
    [Updates -> [at : U!Stage, id : 1 .. MaxPlanes, host : 1 .. MaxPlanes, new : BOOLEAN,
                 kept : BOOLEAN]]

Active(us) == {u \in Updates : us[u].at \notin {"idle"} \cup U!Ended}

\* A list of containers that differs from the present one in the containers it has.
LEMMA PlanesChange ==
    ASSUME boxes \in Seq(U!Box), NEW bs, bs = [i \in DOMAIN boxes |-> bs[i]],
           \A i \in DOMAIN boxes : bs[i] \in U!Box
    PROVE  bs \in Seq(U!Box) /\ Len(bs) = Len(boxes) /\ DOMAIN bs = DOMAIN boxes
<1>1. DOMAIN boxes = 1 .. Len(boxes) /\ Len(boxes) \in Nat
  OBVIOUS
<1>2. bs = [i \in 1 .. Len(boxes) |-> bs[i]] /\ \A i \in 1 .. Len(boxes) : bs[i] \in U!Box
  BY <1>1
<1> QED
  BY <1>1, <1>2

\* Containers that are stopped, removed or renamed.
LEMMA StopPlanes ==
    ASSUME boxes \in Seq(U!Box), NEW is
    PROVE  /\ U!Stop(is) \in Seq(U!Box) /\ Len(U!Stop(is)) = Len(boxes)
           /\ DOMAIN U!Stop(is) = DOMAIN boxes
<1> DEFINE bs == U!Stop(is)
<1>1. \A i \in DOMAIN boxes : boxes[i] \in U!Box
  BY ElementTypes
<1>2. bs = [i \in DOMAIN boxes |-> bs[i]] /\ \A i \in DOMAIN boxes : bs[i] \in U!Box
  BY <1>1 DEF U!Stop, U!Box
<1> HIDE DEF bs
<1>3. bs \in Seq(U!Box) /\ Len(bs) = Len(boxes) /\ DOMAIN bs = DOMAIN boxes
  BY <1>2, PlanesChange
<1> QED
  BY <1>3 DEF bs

LEMMA RemovePlanes ==
    ASSUME boxes \in Seq(U!Box), NEW is
    PROVE  /\ U!Remove(is) \in Seq(U!Box) /\ Len(U!Remove(is)) = Len(boxes)
           /\ DOMAIN U!Remove(is) = DOMAIN boxes
           /\ \A i \in DOMAIN boxes :
                /\ i \in is => U!Remove(is)[i].name = "gone"
                /\ i \notin is => U!Remove(is)[i] = boxes[i]
<1> DEFINE bs == U!Remove(is)
<1>1. \A i \in DOMAIN boxes : boxes[i] \in U!Box
  BY ElementTypes
<1>2. /\ bs = [i \in DOMAIN boxes |-> bs[i]]
      /\ \A i \in DOMAIN boxes : /\ bs[i] \in U!Box
                                 /\ i \in is => bs[i].name = "gone"
                                 /\ i \notin is => bs[i] = boxes[i]
  BY <1>1 DEF U!Remove, U!Box
<1> HIDE DEF bs
<1>3. bs \in Seq(U!Box) /\ Len(bs) = Len(boxes) /\ DOMAIN bs = DOMAIN boxes
  BY <1>2, PlanesChange
<1> QED
  BY <1>2, <1>3 DEF bs

LEMMA RenamePlanes ==
    ASSUME boxes \in Seq(U!Box), NEW is, NEW n \in U!Names
    PROVE  /\ U!Rename(is, n) \in Seq(U!Box) /\ Len(U!Rename(is, n)) = Len(boxes)
           /\ DOMAIN U!Rename(is, n) = DOMAIN boxes
           /\ \A i \in DOMAIN boxes :
                /\ U!Rename(is, n)[i].state = boxes[i].state
                /\ i \in is => U!Rename(is, n)[i].name = n
                /\ i \notin is => U!Rename(is, n)[i] = boxes[i]
<1> DEFINE bs == U!Rename(is, n)
<1>1. \A i \in DOMAIN boxes : boxes[i] \in U!Box
  BY ElementTypes
<1>2. /\ bs = [i \in DOMAIN boxes |-> bs[i]]
      /\ \A i \in DOMAIN boxes : /\ bs[i] \in U!Box /\ bs[i].state = boxes[i].state
                                 /\ i \in is => bs[i].name = n
                                 /\ i \notin is => bs[i] = boxes[i]
  BY <1>1 DEF U!Rename, U!Box
<1> HIDE DEF bs
<1>3. bs \in Seq(U!Box) /\ Len(bs) = Len(boxes) /\ DOMAIN bs = DOMAIN boxes
  BY <1>2, PlanesChange
<1> QED
  BY <1>2, <1>3 DEF bs

\* One container that starts or becomes healthy, and one that is created.
WithState(k, x) == [boxes EXCEPT ![k].state = x]

LEMMA PlaneState ==
    ASSUME boxes \in Seq(U!Box), NEW k, NEW x \in {"starting", "healthy"}
    PROVE  /\ WithState(k, x) \in Seq(U!Box) /\ Len(WithState(k, x)) = Len(boxes)
           /\ DOMAIN WithState(k, x) = DOMAIN boxes
           /\ \A i \in DOMAIN boxes : /\ WithState(k, x)[i].name = boxes[i].name
                                      /\ i # k => WithState(k, x)[i] = boxes[i]
                                      /\ i = k => WithState(k, x)[i].state = x
<1> DEFINE bs == WithState(k, x)
<1>0. bs = [boxes EXCEPT ![k].state = x]
  BY DEF WithState
<1> HIDE DEF bs
<1>1. \A i \in DOMAIN boxes : boxes[i] \in U!Box
  BY ElementTypes
<1>2. DOMAIN bs = DOMAIN boxes /\ bs = [i \in DOMAIN boxes |-> bs[i]]
  BY <1>0
<1>3. \A i \in DOMAIN boxes : bs[i] = IF i = k THEN [boxes[i] EXCEPT !.state = x] ELSE boxes[i]
  BY <1>0
<1>4. \A i \in DOMAIN boxes : /\ bs[i] \in U!Box /\ bs[i].name = boxes[i].name
                              /\ i # k => bs[i] = boxes[i]
                              /\ i = k => bs[i].state = x
  BY <1>1, <1>3 DEF U!Box
<1>5. bs \in Seq(U!Box) /\ Len(bs) = Len(boxes) /\ DOMAIN bs = DOMAIN boxes
  BY <1>2, <1>4, PlanesChange
<1> QED
  BY <1>4, <1>5 DEF bs

LEMMA NewPlane ==
    ASSUME boxes \in Seq(U!Box), NEW n \in U!Names, NEW new \in BOOLEAN
    PROVE  /\ U!New(n, new) \in Seq(U!Box) /\ Len(U!New(n, new)) = Len(boxes) + 1
           /\ Len(boxes) \in Nat /\ DOMAIN boxes = 1 .. Len(boxes)
           /\ DOMAIN U!New(n, new) = 1 .. Len(boxes) + 1
           /\ \A i \in DOMAIN boxes : U!New(n, new)[i] = boxes[i]
           /\ U!New(n, new)[Len(boxes) + 1] = [name |-> n, state |-> "off", new |-> new]
<1> DEFINE box == [name |-> n, state |-> "off", new |-> new]
<1>1. box \in U!Box
  BY DEF U!Box
<1>2. U!New(n, new) = Append(boxes, box)
  BY DEF U!New
<1> HIDE DEF box
<1>3. /\ Append(boxes, box) \in Seq(U!Box) /\ Len(Append(boxes, box)) = Len(boxes) + 1
      /\ Len(boxes) \in Nat /\ DOMAIN boxes = 1 .. Len(boxes)
      /\ DOMAIN Append(boxes, box) = 1 .. Len(boxes) + 1
      /\ \A i \in DOMAIN boxes : Append(boxes, box)[i] = boxes[i]
      /\ Append(boxes, box)[Len(boxes) + 1] = box
  BY <1>1
<1> QED
  BY <1>2, <1>3 DEF box

\* Where the updates are after a step: the one that goes on, and those that end with their plane.
LEMMA UpdateGoes ==
    ASSUME updates \in UpdateRows, component \in {"plane", "ui", "caddy"},
           NEW u \in Updates, NEW bs, NEW next \in U!Stage, U!Goto(u, bs, next)
    PROVE  /\ updates' \in UpdateRows
           /\ updates'[u].at \in {next, "dead"} /\ updates'[u].id = updates[u].id
           /\ \A v \in Updates :
                v # u => /\ updates'[v].id = updates[v].id
                         /\ \/ updates'[v] = updates[v]
                            \/ updates'[v].at = "dead" /\ v \in Active(updates)
           /\ component' = component /\ refresh' = refresh /\ cache' \in {cache, "none"}
<1> DEFINE us == [updates EXCEPT ![u].at = next]
<1>1. /\ updates' = U!Running(us, bs) /\ component' = component /\ refresh' = refresh
      /\ cache' \in {cache, "none"}
  BY DEF U!Goto
<1>2. /\ us \in UpdateRows /\ us[u].at = next /\ us[u].id = updates[u].id
      /\ \A v \in Updates : v # u => us[v] = updates[v]
  BY DEF UpdateRows
<1> HIDE DEF us
<1>3. /\ DOMAIN updates' = Updates /\ updates' = [v \in Updates |-> updates'[v]]
      /\ \A v \in Updates :
           \/ updates'[v] = us[v]
           \/ us[v].at \notin {"idle"} \cup U!Ended /\ updates'[v] = [us[v] EXCEPT !.at = "dead"]
  BY <1>1 DEF U!Running
<1>4. "dead" \in U!Stage
  BY DEF U!Stage
<1> DEFINE One == [at : U!Stage, id : 1 .. MaxPlanes, host : 1 .. MaxPlanes, new : BOOLEAN,
                   kept : BOOLEAN]
<1>5. \A v \in Updates : us[v] \in One
  BY <1>2 DEF UpdateRows
<1>6. \A v \in Updates : /\ updates'[v] \in One /\ updates'[v].id = us[v].id
                         /\ \/ updates'[v] = us[v]
                            \/ us[v].at \notin {"idle"} \cup U!Ended /\ updates'[v].at = "dead"
  BY <1>3, <1>4, <1>5
<1> HIDE DEF One
<1>7. updates' \in [Updates -> One]
  BY <1>3, <1>6
<1>8. updates' \in UpdateRows
  BY <1>7 DEF One, UpdateRows
<1> QED
  BY <1>1, <1>2, <1>6, <1>8 DEF Active

\* What stays of its type in a step that turns the containers into bs, and in one that fails.
LEMMA DoTypes ==
    ASSUME U!TypeOK, NEW u \in Updates, NEW bs \in Seq(U!Box), Len(bs) \in 1 .. MaxPlanes,
           NEW next \in U!Stage, U!Do(u, bs, next)
    PROVE  U!TypeOK'
<1>1. /\ updates \in UpdateRows /\ component \in {"plane", "ui", "caddy"}
      /\ cache \in U!Versions \cup {"none"} /\ refresh \in U!Versions \cup {"idle"}
      /\ faults \in 0 .. UpdateFaults
  BY DEF U!TypeOK, UpdateRows
<1>2. boxes' = bs /\ U!Goto(u, bs, next) /\ faults' = faults
  BY DEF U!Do
<1>3. routed' \in BOOLEAN
  <2>1. U!Routed(bs)
    BY DEF U!Do
  <2> QED
    BY <2>1, Zenon DEF U!Routed
<1>4. /\ updates' \in UpdateRows /\ component' = component /\ refresh' = refresh
      /\ cache' \in {cache, "none"}
  BY <1>1, <1>2, UpdateGoes
<1> QED
  BY <1>1, <1>2, <1>3, <1>4 DEF U!TypeOK, UpdateRows

LEMMA FailTypes ==
    ASSUME U!SelfUpdateAssumption, U!TypeOK, NEW u \in Updates, NEW next \in U!Stage,
           U!Fail(u, next)
    PROVE  U!TypeOK'
<1>1. /\ updates \in UpdateRows /\ component \in {"plane", "ui", "caddy"}
      /\ cache \in U!Versions \cup {"none"} /\ refresh \in U!Versions \cup {"idle"}
      /\ faults \in 0 .. UpdateFaults /\ UpdateFaults \in Nat /\ routed \in BOOLEAN
      /\ boxes \in Seq(U!Box) /\ Len(boxes) \in 1 .. MaxPlanes
  BY DEF U!TypeOK, UpdateRows, U!SelfUpdateAssumption
<1>2. /\ boxes' = boxes /\ routed' = routed /\ U!Goto(u, boxes, next)
      /\ faults < UpdateFaults /\ faults' = faults + 1
  BY DEF U!Fail
<1>3. faults' \in 0 .. UpdateFaults
  BY <1>1, <1>2
<1>4. /\ updates' \in UpdateRows /\ component' = component /\ refresh' = refresh
      /\ cache' \in {cache, "none"}
  BY <1>1, <1>2, UpdateGoes
<1> QED
  BY <1>1, <1>2, <1>3, <1>4 DEF U!TypeOK, UpdateRows

LEMMA SelfTypes ==
    ASSUME U!SelfUpdateAssumption, U!TypeOK, [U!Next]_(U!vars) PROVE U!TypeOK'
<1>t. /\ updates \in UpdateRows /\ component \in {"plane", "ui", "caddy"}
      /\ cache \in U!Versions \cup {"none"} /\ refresh \in U!Versions \cup {"idle"}
      /\ faults \in 0 .. UpdateFaults /\ UpdateFaults \in Nat /\ routed \in BOOLEAN
      /\ boxes \in Seq(U!Box) /\ Len(boxes) \in 1 .. MaxPlanes
      /\ MaxPlanes \in Nat \ {0}
  BY DEF U!TypeOK, UpdateRows, U!SelfUpdateAssumption
<1>i. DOMAIN boxes = 1 .. Len(boxes) /\ Len(boxes) \in Nat
  BY <1>t
<1>s. /\ U!Failed \in U!Stage
      /\ {"done", "failed", "clear", "create", "start", "health", "rollback", "self1", "self2",
          "self3", "self4", "stop", "remove", "rename", "stop again", "remove again", "recreate",
          "restart", "wait", "restore", "inspect", "pull", "backup", "dead"} \subseteq U!Stage
  BY DEF U!Failed, U!Stage
<1>d. ASSUME NEW u \in Updates, NEW next \in U!Stage, NEW bs \in Seq(U!Box),
             Len(bs) = Len(boxes), U!Do(u, bs, next)
      PROVE  U!TypeOK'
  BY <1>d, <1>t, DoTypes
<1>n. ASSUME NEW u \in Updates, NEW next \in U!Stage, U!Do(u, boxes, next) PROVE U!TypeOK'
  BY <1>n, <1>t, <1>d
<1>f. ASSUME NEW u \in Updates, NEW next \in U!Stage, U!Fail(u, next) PROVE U!TypeOK'
  BY <1>f, FailTypes
\* Steps that leave the containers alone, or create one.
<1>k. ASSUME component' = component, routed' \in BOOLEAN, updates' \in UpdateRows,
             cache' \in U!Versions \cup {"none"}, refresh' \in U!Versions \cup {"idle"},
             faults' \in 0 .. UpdateFaults, boxes' = boxes
      PROVE  U!TypeOK'
  BY <1>k, <1>t DEF U!TypeOK, UpdateRows
<1>c. ASSUME NEW u \in Updates, NEW n \in U!Names, NEW next \in U!Stage,
             Len(boxes) < MaxPlanes, boxes' = U!New(n, updates[u].new),
             updates' = [updates EXCEPT ![u].at = next, ![u].id = Len(boxes) + 1],
             UNCHANGED <<component, cache, refresh, routed, faults>>
      PROVE  U!TypeOK'
  <2>1. updates[u].new \in BOOLEAN
    BY <1>t DEF UpdateRows
  <2>2. boxes' \in Seq(U!Box) /\ Len(boxes') = Len(boxes) + 1
    BY <1>c, <1>t, <2>1, NewPlane
  <2>3. Len(boxes) + 1 \in 1 .. MaxPlanes
    BY <1>c, <1>t, <1>i
  <2> DEFINE l == Len(boxes) + 1
  <2>4. updates' = [updates EXCEPT ![u].at = next, ![u].id = l] /\ l \in 1 .. MaxPlanes
    BY <1>c, <2>3
  <2> HIDE DEF l
  <2>5. updates' \in UpdateRows
    BY <2>4, <1>t DEF UpdateRows
  <2> QED
    BY <1>c, <1>t, <2>2, <2>3, <2>5 DEF U!TypeOK, UpdateRows
<1>1. CASE UNCHANGED U!vars
  BY <1>1 DEF U!vars, U!TypeOK
<1>2. ASSUME NEW u \in Updates, U!UpdateSelf(u) PROVE U!TypeOK'
  <2>1. PICK i \in DOMAIN boxes :
          updates' = [updates EXCEPT ![u].at = "pull", ![u].host = i]
    BY <1>2 DEF U!UpdateSelf
  <2>2. i \in 1 .. MaxPlanes /\ "pull" \in U!Stage
    <3>1. Len(boxes) \in 1 .. MaxPlanes /\ MaxPlanes \in Nat
      BY <1>t
    <3>2. i \in 1 .. MaxPlanes
      BY <3>1, <1>i
    <3> QED
      BY <3>2, <1>s
  <2>3. updates' \in UpdateRows
    BY <2>1, <2>2, <1>t DEF UpdateRows
  <2>4. cache' \in U!Versions \cup {"none"}
    BY <1>2, <1>t DEF U!UpdateSelf, U!Versions
  <2> QED
    BY <1>2, <1>k, <1>t, <2>3, <2>4 DEF U!UpdateSelf
<1>3. ASSUME NEW u \in Updates, U!Pull(u) PROVE U!TypeOK'
  <2>1. PICK new \in BOOLEAN, next \in {"backup", "inspect"} :
          updates' = [updates EXCEPT ![u].new = new, ![u].at = next]
    BY <1>3 DEF U!Pull
  <2>2. updates' \in UpdateRows
    BY <2>1, <1>s, <1>t DEF UpdateRows
  <2> QED
    BY <1>3, <1>k, <1>t, <2>2 DEF U!Pull, U!versionVars
<1>4. ASSUME NEW u \in Updates, U!Inspect(u) PROVE U!TypeOK'
  <2>1. \/ U!Do(u, boxes, U!Failed) \/ U!Do(u, boxes, "stop") \/ U!Do(u, boxes, "clear")
        \/ U!Fail(u, U!Failed)
    BY <1>4 DEF U!Inspect
  <2> QED
    BY <2>1, <1>n, <1>f, <1>s
<1>5. ASSUME NEW u \in Updates, U!RemoveGreen(u) PROVE U!TypeOK'
  BY <1>5, <1>d, <1>f, <1>s, <1>t, RemovePlanes DEF U!RemoveGreen
<1>6. ASSUME NEW u \in Updates, U!CreateGreen(u) PROVE U!TypeOK'
  <2>1. \/ U!Do(u, boxes, "done") \/ U!Fail(u, "done")
        \/ /\ Len(boxes) < MaxPlanes /\ boxes' = U!New("green", updates[u].new)
           /\ updates' = [updates EXCEPT ![u].at = "start", ![u].id = Len(boxes) + 1]
           /\ UNCHANGED <<component, cache, refresh, routed, faults>>
    BY <1>6 DEF U!CreateGreen, U!versionVars
  <2>2. "green" \in U!Names
    BY DEF U!Names
  <2> QED
    BY <2>1, <2>2, <1>n, <1>f, <1>c, <1>s
<1>7. ASSUME NEW u \in Updates, U!StartGreen(u) PROVE U!TypeOK'
  <2> DEFINE bs == [boxes EXCEPT ![U!Id(u)].state = "starting"]
  <2>1. U!Do(u, boxes, "done") \/ U!Do(u, bs, "health") \/ U!Fail(u, "rollback")
    BY <1>7 DEF U!StartGreen
  <2>2. bs \in Seq(U!Box) /\ Len(bs) = Len(boxes)
    <3>1. boxes \in Seq(U!Box) /\ bs = WithState(U!Id(u), "starting")
      BY <1>t DEF WithState
    <3> HIDE DEF bs
    <3> QED
      BY <3>1, PlaneState
  <2> HIDE DEF bs
  <2> QED
    BY <2>1, <2>2, <1>n, <1>d, <1>f, <1>s
<1>8. ASSUME NEW u \in Updates, U!WaitHealthy(u) PROVE U!TypeOK'
  <2> DEFINE bs == [boxes EXCEPT ![U!Id(u)].state = "healthy"]
  <2>1. U!Do(u, boxes, "rollback") \/ U!Do(u, bs, "self1") \/ U!Do(u, bs, "stop")
    BY <1>8 DEF U!WaitHealthy
  <2>2. bs \in Seq(U!Box) /\ Len(bs) = Len(boxes)
    <3>1. boxes \in Seq(U!Box) /\ bs = WithState(U!Id(u), "healthy")
      BY <1>t DEF WithState
    <3> HIDE DEF bs
    <3> QED
      BY <3>1, PlaneState
  <2> HIDE DEF bs
  <2> QED
    BY <2>1, <2>2, <1>n, <1>d, <1>s
<1>9. ASSUME NEW u \in Updates, U!Rollback(u) PROVE U!TypeOK'
  BY <1>9, <1>d, <1>f, <1>s, <1>t, RemovePlanes DEF U!Rollback
<1>10. ASSUME NEW u \in Updates, U!SelfStep(u) PROVE U!TypeOK'
  <2>1. "name" \in U!Names /\ "old" \in U!Names
    BY DEF U!Names
  <2>2. ASSUME NEW at, NEW next \in {"self2", "self4"}, U!RenameGreen(u, at, next)
        PROVE  U!TypeOK'
    <3>1. \/ U!Do(u, boxes, next) \/ U!Do(u, U!Rename({U!Id(u)}, "name"), next)
          \/ U!Fail(u, next)
      BY <2>2 DEF U!RenameGreen
    <3> DEFINE bs == U!Rename({U!Id(u)}, "name")
    <3>2. bs \in Seq(U!Box) /\ Len(bs) = Len(boxes)
      BY <2>1, <1>t, RenamePlanes
    <3>3. U!Do(u, bs, next) => U!TypeOK'
      <4> HIDE DEF bs
      <4> QED
        BY <3>2, <1>d, <1>s
    <3> QED
      BY <3>1, <3>3, <1>n, <1>f, <1>s
  <2>3. CASE U!RenameOld(u)
    <3>1. \/ U!Do(u, boxes, "self3") \/ U!Do(u, U!Rename(U!Named("name"), "old"), "self3")
          \/ U!Fail(u, "self3")
      BY <2>3 DEF U!RenameOld
    <3> DEFINE bs == U!Rename(U!Named("name"), "old")
    <3>2. bs \in Seq(U!Box) /\ Len(bs) = Len(boxes)
      BY <2>1, <1>t, RenamePlanes
    <3>3. U!Do(u, bs, "self3") => U!TypeOK'
      <4> HIDE DEF bs
      <4> QED
        BY <3>2, <1>d, <1>s
    <3> QED
      BY <3>1, <3>3, <1>n, <1>f, <1>s
  <2>4. CASE U!RemoveOld(u)
    BY <2>4, <1>d, <1>f, <1>s, <1>t, RemovePlanes DEF U!RemoveOld
  <2> QED
    BY <1>10, <2>2, <2>3, <2>4 DEF U!SelfStep
<1>11. ASSUME NEW u \in Updates, U!OtherStep(u) PROVE U!TypeOK'
  <2>1. "name" \in U!Names
    BY DEF U!Names
  <2>2. ASSUME NEW at, NEW next \in {"remove", "remove again"}, U!StopNamed(u, at, next)
        PROVE  U!TypeOK'
    BY <2>2, <1>d, <1>f, <1>s, <1>t, StopPlanes DEF U!StopNamed
  <2>3. ASSUME NEW at, NEW next \in {"rename", "recreate"},
               NEW failed \in {"rename", "failed", "recreate"},
               U!RemoveNamed(u, at, next, failed)
        PROVE  U!TypeOK'
    BY <2>3, <1>d, <1>f, <1>s, <1>t, RemovePlanes DEF U!RemoveNamed
  <2>4. CASE U!TakeName(u)
    <3> DEFINE bs == U!Rename({U!Id(u)}, "name")
    <3>1. U!Do(u, boxes, "done") \/ U!Do(u, bs, "stop again") \/ U!Fail(u, "done")
      BY <2>4 DEF U!TakeName
    <3>2. bs \in Seq(U!Box) /\ Len(bs) = Len(boxes)
      BY <2>1, <1>t, RenamePlanes
    <3> HIDE DEF bs
    <3> QED
      BY <3>1, <3>2, <1>n, <1>d, <1>f, <1>s
  <2>5. CASE U!Recreate(u)
    <3>1. \/ U!Do(u, boxes, U!Failed) \/ U!Fail(u, U!Failed)
          \/ /\ Len(boxes) < MaxPlanes /\ boxes' = U!New("name", updates[u].new)
             /\ updates' = [updates EXCEPT ![u].at = "restart", ![u].id = Len(boxes) + 1]
             /\ UNCHANGED <<component, cache, refresh, routed, faults>>
      BY <2>5 DEF U!Recreate, U!versionVars
    <3> QED
      BY <3>1, <2>1, <1>n, <1>f, <1>c, <1>s
  <2>6. CASE U!StartRecreated(u)
    <3> DEFINE bs == [boxes EXCEPT ![U!Id(u)].state = "healthy"]
    <3>1. \/ U!Do(u, bs, "wait") \/ U!Do(u, bs, "done") \/ U!Do(u, boxes, "wait")
          \/ U!Do(u, boxes, "done") \/ U!Fail(u, U!Failed)
      BY <2>6 DEF U!StartRecreated
    <3>2. bs \in Seq(U!Box) /\ Len(bs) = Len(boxes)
      <4>1. boxes \in Seq(U!Box) /\ bs = WithState(U!Id(u), "healthy")
        BY <1>t DEF WithState
      <4> HIDE DEF bs
      <4> QED
        BY <4>1, PlaneState
    <3> HIDE DEF bs
    <3> QED
      BY <3>1, <3>2, <1>n, <1>d, <1>f, <1>s
  <2>7. CASE U!BackupCaddyConfig(u)
    <3>1. \/ /\ updates' = [updates EXCEPT ![u].at = "inspect", ![u].kept = routed]
             /\ UNCHANGED <<component, boxes, cache, refresh, routed, faults>>
          \/ U!Fail(u, "inspect")
      BY <2>7 DEF U!BackupCaddyConfig, U!versionVars
    <3>2. CASE /\ updates' = [updates EXCEPT ![u].at = "inspect", ![u].kept = routed]
               /\ UNCHANGED <<component, boxes, cache, refresh, routed, faults>>
      <4>1. updates' \in UpdateRows
        BY <3>2, <1>s, <1>t DEF UpdateRows
      <4> QED
        BY <3>2, <4>1, <1>k, <1>t
    <3> QED
      BY <3>1, <3>2, <1>f, <1>s
  <2>8. CASE U!WaitCaddyHealthy(u)
    BY <2>8, <1>n, <1>f, <1>s DEF U!WaitCaddyHealthy
  <2>9. CASE U!RestoreCaddyConfig(u)
    <3>1. \/ /\ routed' = (routed \/ updates[u].kept) /\ U!Goto(u, boxes, "done")
             /\ UNCHANGED <<boxes, faults>>
          \/ U!Fail(u, "done")
      BY <2>9 DEF U!RestoreCaddyConfig
    <3>2. CASE /\ routed' = (routed \/ updates[u].kept) /\ U!Goto(u, boxes, "done")
               /\ UNCHANGED <<boxes, faults>>
      <4>1. /\ updates' \in UpdateRows /\ component' = component /\ refresh' = refresh
            /\ cache' \in {cache, "none"}
        BY <3>2, <1>s, <1>t, UpdateGoes
      <4>2. routed' \in BOOLEAN
        BY <3>2, Zenon
      <4> QED
        BY <3>2, <4>1, <4>2, <1>k, <1>t
    <3> QED
      BY <3>1, <3>2, <1>f, <1>s
  <2> QED
    BY <1>11, <2>2, <2>3, <2>4, <2>5, <2>6, <2>7, <2>8, <2>9 DEF U!OtherStep
<1>12. CASE U!FetchVersionInfo \/ U!SetCache
  <2>1. /\ cache' \in U!Versions \cup {"none"} /\ refresh' \in U!Versions \cup {"idle"}
        /\ UNCHANGED <<component, boxes, updates, routed, faults>>
    BY <1>12, <1>t DEF U!FetchVersionInfo, U!SetCache, U!Versions
  <2> QED
    BY <2>1, <1>k, <1>t
<1>13. CASE U!Crash
  <2>1. PICK i \in DOMAIN boxes :
          updates' = [u \in Updates |-> IF updates[u].at \notin {"idle"} \cup U!Ended
                                           /\ (updates[u].host = i \/ component # "plane")
                                        THEN [updates[u] EXCEPT !.at = "dead"] ELSE updates[u]]
    BY <1>13 DEF U!Crash
  <2>2. updates' \in UpdateRows
    BY <2>1, <1>s, <1>t DEF UpdateRows
  <2>3. faults' \in 0 .. UpdateFaults
    BY <1>13, <1>t DEF U!Crash
  <2> QED
    BY <1>13, <2>2, <2>3, <1>k, <1>t DEF U!Crash
<1> QED
  BY <1>1, <1>2, <1>3, <1>4, <1>5, <1>6, <1>7, <1>8, <1>9, <1>10, <1>11, <1>12, <1>13 DEF U!Next

\* Of containers bs: no two have one name, the one that has the name of the plane is healthy, and
\* a healthy one exists.
PlanesOK(bs) ==
    /\ \A i, k \in DOMAIN bs : bs[i].name = bs[k].name /\ bs[i].name # "gone" => i = k
    /\ \A i \in DOMAIN bs : bs[i].name = "name" => bs[i].state = "healthy"
    /\ \E i \in DOMAIN bs : bs[i].state = "healthy"

\* The stages of an update of the plane, and those at which the container that it created is
\* still called green, or the plane's own still has its name.
PlaneStage ==
    {"idle", "pull", "inspect", "clear", "create", "start", "health", "rollback", "self1",
     "self2", "self3", "self4", "done", "dead"}
Kept == {"clear", "create", "start", "health", "rollback", "self1", "self2"}
Green == {"start", "health", "rollback", "self1", "self2"}

HasName(bs) == \E i \in DOMAIN bs : bs[i].name = "name"
IsGreen(bs, id) == id \in DOMAIN bs /\ bs[id].name = "green"

\* What an update of the plane at a stage, with the container that it created, relies on.
StageOK(at, id, bs) ==
    /\ at \in Kept => HasName(bs)
    /\ at \in Green => IsGreen(bs, id)
    /\ at \in {"self1", "self2"} => bs[id].state = "healthy"
    /\ at \in {"self3", "self4"} =>
         HasName(bs) \/ (IsGreen(bs, id) /\ bs[id].state = "healthy")

\* One update runs at most, and finds what it relies on.
PlaneInv ==
    /\ PlanesOK(boxes)
    /\ \A u, v \in Active(updates) : u = v
    /\ \A u \in Updates : /\ updates[u].at \in PlaneStage
                          /\ StageOK(updates[u].at, updates[u].id, boxes)

\* Updates that are bounded to one at a time.
SelfInv == U!TypeOK /\ (MaxRunning = 1 /\ component = "plane" => PlaneInv)

LEMMA SameCountU == ASSUME NEW S PROVE U!Cardinality(S) = Cardinality(S)
  BY DEF U!Cardinality, Cardinality

LEMMA SelfInit == ASSUME U!SelfUpdateAssumption, U!Init PROVE SelfInv
<1> DEFINE box == [name |-> "name", state |-> "healthy", new |-> FALSE]
           row0 == [at |-> "idle", id |-> 1, host |-> 1, new |-> FALSE, kept |-> FALSE]
<1>1. /\ boxes = <<box>> /\ updates = [u \in Updates |-> row0]
      /\ component \in {"plane", "ui", "caddy"} /\ cache = "none" /\ refresh = "idle"
      /\ routed = TRUE /\ faults = 0 /\ MaxPlanes \in Nat \ {0} /\ UpdateFaults \in Nat
  BY DEF U!Init, U!SelfUpdateAssumption
<1>2. box \in U!Box /\ box.name = "name" /\ box.state = "healthy"
  BY DEF U!Box, U!Names
<1>3. /\ row0 \in [at : U!Stage, id : 1 .. MaxPlanes, host : 1 .. MaxPlanes, new : BOOLEAN,
                   kept : BOOLEAN]
      /\ row0.at = "idle"
  BY <1>1 DEF U!Stage
<1> HIDE DEF box, row0
<1>4. /\ boxes \in Seq(U!Box) /\ Len(boxes) = 1 /\ DOMAIN boxes = {1} /\ boxes[1] = box
  BY <1>1, <1>2
<1>5. updates \in UpdateRows /\ \A u \in Updates : updates[u].at = "idle"
  BY <1>1, <1>3 DEF UpdateRows
<1>6. U!TypeOK
  <2>1. Len(boxes) \in 1 .. MaxPlanes /\ faults \in 0 .. UpdateFaults
    BY <1>1, <1>4
  <2> QED
    BY <1>1, <1>4, <1>5, <2>1 DEF U!TypeOK, UpdateRows
<1>7. PlaneInv
  BY <1>2, <1>4, <1>5 DEF PlaneInv, PlanesOK, Active, PlaneStage, StageOK, Kept, Green
<1> QED
  BY <1>6, <1>7 DEF SelfInv

\* The update that runs has gone on to another stage, or ends with its plane.
LEMMA PlaneGoes ==
    ASSUME U!TypeOK, PlaneInv, NEW u \in Active(updates), NEW bs, NEW next \in PlaneStage,
           U!Goto(u, bs, next), PlanesOK(boxes'), StageOK(next, updates[u].id, boxes')
    PROVE  PlaneInv'
<1>1. /\ updates \in UpdateRows /\ component \in {"plane", "ui", "caddy"} /\ u \in Updates
  BY DEF U!TypeOK, UpdateRows, Active
<1>2. next \in U!Stage
  BY DEF PlaneStage, U!Stage
<1>3. /\ updates' \in UpdateRows
      /\ updates'[u].at \in {next, "dead"} /\ updates'[u].id = updates[u].id
      /\ \A v \in Updates : v # u => updates'[v] = updates[v] \/ v \in Active(updates)
  BY <1>1, <1>2, UpdateGoes
<1>4. \A v \in Updates : v # u => v \notin Active(updates) /\ updates'[v] = updates[v]
  BY <1>3 DEF PlaneInv
<1>5. Active(updates') \subseteq {u}
  BY <1>4 DEF Active
<1>6. updates'[u].at \in PlaneStage /\ StageOK(updates'[u].at, updates'[u].id, boxes')
  BY <1>3 DEF PlaneStage, StageOK, Kept, Green
<1>7. \A v \in Updates : v # u => /\ updates'[v].at \in PlaneStage
                                  /\ StageOK(updates'[v].at, updates'[v].id, boxes')
  BY <1>4 DEF PlaneInv, Active, StageOK, Kept, Green, U!Ended
<1> QED
  BY <1>5, <1>6, <1>7 DEF PlaneInv

\* The calls of the engine, on a plane whose containers are as they should be.
LEMMA PlanesGo ==
    ASSUME U!TypeOK, PlaneInv, NEW u \in Active(updates), NEW bs, NEW next \in PlaneStage,
           U!Do(u, bs, next), PlanesOK(bs), StageOK(next, updates[u].id, bs)
    PROVE  PlaneInv'
<1>1. boxes' = bs /\ U!Goto(u, bs, next)
  BY DEF U!Do
<1> QED
  BY <1>1, PlaneGoes

LEMMA PlanesFail ==
    ASSUME U!TypeOK, PlaneInv, NEW u \in Active(updates), NEW next \in PlaneStage,
           U!Fail(u, next), StageOK(next, updates[u].id, boxes)
    PROVE  PlaneInv'
<1>1. boxes' = boxes /\ U!Goto(u, boxes, next) /\ PlanesOK(boxes)
  BY DEF U!Fail, PlaneInv
<1> QED
  BY <1>1, PlaneGoes

LEMMA PlaneStays ==
    ASSUME U!SelfUpdateAssumption, U!TypeOK, PlaneInv, component = "plane", MaxRunning = 1,
           [U!Next]_(U!vars)
    PROVE  PlaneInv'
<1>t. /\ updates \in UpdateRows /\ boxes \in Seq(U!Box) /\ Len(boxes) \in Nat
      /\ DOMAIN boxes = 1 .. Len(boxes) /\ PlanesOK(boxes)
  <2>1. updates \in UpdateRows /\ boxes \in Seq(U!Box) /\ PlanesOK(boxes)
    BY DEF U!TypeOK, UpdateRows, PlaneInv
  <2> QED
    BY <2>1
<1>u. \A u \in Updates : /\ updates[u].at \in PlaneStage
                         /\ StageOK(updates[u].at, updates[u].id, boxes)
  BY DEF PlaneInv
<1>a. ASSUME NEW u \in Updates, updates[u].at \notin {"idle"} \cup U!Ended
      PROVE  u \in Active(updates)
  BY <1>a DEF Active
<1>n. ASSUME NEW u \in Active(updates), NEW next \in PlaneStage, U!Do(u, boxes, next),
             StageOK(next, updates[u].id, boxes)
      PROVE  PlaneInv'
  BY <1>n, <1>t, PlanesGo
<1>f. ASSUME NEW u \in Active(updates), NEW next \in PlaneStage, U!Fail(u, next),
             StageOK(next, updates[u].id, boxes)
      PROVE  PlaneInv'
  BY <1>f, PlanesFail
<1>e. \A id, bs : /\ StageOK("done", id, bs) /\ StageOK("dead", id, bs) /\ StageOK("pull", id, bs)
                  /\ StageOK("inspect", id, bs) /\ StageOK("idle", id, bs)
  BY DEF StageOK, Kept, Green
<1>1. CASE UNCHANGED U!vars
  BY <1>1 DEF U!vars, PlaneInv, PlanesOK, Active, StageOK, HasName, IsGreen
<1>2. ASSUME NEW u \in Updates, U!UpdateSelf(u) PROVE PlaneInv'
  <2> DEFINE Busy == {v \in Updates : updates[v].at \notin {"idle"} \cup U!Ended}
  <2>1. Busy = {}
    <3>1. Cardinality(Busy) < 1
      <4>1. U!Cardinality(Busy) < 1
        BY <1>2 DEF U!UpdateSelf
      <4> HIDE DEF Busy
      <4> QED
        BY <4>1, SameCountU
    <3>2. ASSUME NEW v \in Busy PROVE FALSE
      <4>1. Busy = {v}
        BY <3>2 DEF PlaneInv, Active
      <4>2. Cardinality({v}) = 1
        BY FS_Singleton
      <4>3. Cardinality(Busy) = 1
        <5> HIDE DEF Busy
        <5> QED
          BY <4>1, <4>2, Zenon
      <4> HIDE DEF Busy
      <4> QED
        BY <3>1, <4>3
    <3> QED
      BY <3>2
  <2>2. PICK i \in DOMAIN boxes :
          updates' = [updates EXCEPT ![u].at = "pull", ![u].host = i]
    BY <1>2 DEF U!UpdateSelf
  <2>3. /\ updates'[u].at = "pull"
        /\ \A v \in Updates : v # u => updates'[v] = updates[v]
    BY <2>2, <1>t DEF UpdateRows
  <2>4. Active(updates') \subseteq {u}
    BY <2>1, <2>3 DEF Active
  <2>5. boxes' = boxes
    BY <1>2 DEF U!UpdateSelf
  <2>6. \A v \in Updates : /\ updates'[v].at \in PlaneStage
                           /\ StageOK(updates'[v].at, updates'[v].id, boxes)
    BY <2>3, <1>u, <1>e DEF PlaneStage
  <2> QED
    BY <2>4, <2>5, <2>6, <1>t DEF PlaneInv
<1>3. ASSUME NEW u \in Updates, U!Pull(u) PROVE PlaneInv'
  <2>1. PICK new \in BOOLEAN :
          updates' = [updates EXCEPT ![u].new = new, ![u].at = "inspect"]
    BY <1>3 DEF U!Pull
  <2>2. /\ updates'[u].at = "inspect" /\ updates[u].at = "pull" /\ boxes' = boxes
        /\ \A v \in Updates : v # u => updates'[v] = updates[v]
    BY <1>3, <2>1, <1>t DEF UpdateRows, U!Pull, U!At
  <2>3. Active(updates') \subseteq Active(updates)
    BY <2>2 DEF Active, U!Ended
  <2>4. \A v \in Updates : /\ updates'[v].at \in PlaneStage
                           /\ StageOK(updates'[v].at, updates'[v].id, boxes)
    BY <2>2, <1>u, <1>e DEF PlaneStage
  <2> QED
    BY <2>2, <2>3, <2>4, <1>t DEF PlaneInv
<1>4. ASSUME NEW u \in Updates, U!Inspect(u) PROVE PlaneInv'
  <2>0. u \in Active(updates)
    BY <1>4, <1>a DEF U!Inspect, U!At, U!Ended
  <2>1. \/ U!Do(u, boxes, "done") \/ U!Fail(u, "done")
        \/ U!Named("name") # {} /\ U!Do(u, boxes, "clear")
    BY <1>4 DEF U!Inspect, U!Failed, U!Free
  <2>2. U!Named("name") # {} => StageOK("clear", updates[u].id, boxes)
    BY DEF U!Named, StageOK, HasName, Kept, Green
  <2> QED
    BY <2>0, <2>1, <2>2, <1>n, <1>f, <1>e DEF PlaneStage
<1>5. ASSUME NEW u \in Updates, U!RemoveGreen(u) PROVE PlaneInv'
  <2>0. u \in Active(updates) /\ HasName(boxes)
    BY <1>5, <1>a, <1>u DEF U!RemoveGreen, U!At, U!Ended, StageOK, Kept
  <2> DEFINE bs == U!Remove(U!Named("green"))
  <2>1. U!Do(u, bs, "create") \/ U!Fail(u, "create")
    BY <1>5 DEF U!RemoveGreen
  <2>2. /\ DOMAIN bs = DOMAIN boxes
        /\ \A i \in DOMAIN boxes : \/ bs[i].name = "gone" /\ boxes[i].name = "green"
                                   \/ bs[i] = boxes[i]
    BY <1>t, RemovePlanes DEF U!Named
  <2> HIDE DEF bs
  <2>3. HasName(bs) /\ PlanesOK(bs)
    BY <2>0, <2>2, <1>t DEF HasName, PlanesOK
  <2>4. StageOK("create", updates[u].id, bs) /\ StageOK("create", updates[u].id, boxes)
    BY <2>0, <2>3 DEF StageOK, Kept, Green
  <2> QED
    BY <2>0, <2>1, <2>3, <2>4, <1>f, PlanesGo DEF PlaneStage
<1>6. ASSUME NEW u \in Updates, U!CreateGreen(u) PROVE PlaneInv'
  <2>0. /\ u \in Active(updates) /\ HasName(boxes) /\ updates[u].new \in BOOLEAN
        /\ updates[u].at = "create"
    BY <1>6, <1>a, <1>t, <1>u DEF U!CreateGreen, U!At, U!Ended, StageOK, Kept, UpdateRows
  <2>1. CASE /\ U!Free("green") /\ boxes' = U!New("green", updates[u].new)
             /\ updates' = [updates EXCEPT ![u].at = "start", ![u].id = Len(boxes) + 1]
    <3> DEFINE l == Len(boxes) + 1
    <3>1. /\ DOMAIN boxes' = 1 .. l /\ boxes'[l].name = "green"
          /\ boxes'[l].state = "off"
          /\ \A i \in DOMAIN boxes : boxes'[i] = boxes[i]
      <4>1. boxes' = U!New("green", updates[u].new) /\ "green" \in U!Names
        BY <2>1 DEF U!Names
      <4> DEFINE green == U!New("green", updates[u].new)
                 box == [name |-> "green", state |-> "off", new |-> updates[u].new]
      <4>2. /\ DOMAIN green = 1 .. l /\ green[l] = box
            /\ \A i \in DOMAIN boxes : green[i] = boxes[i]
        <5>1. ASSUME NEW n \in U!Names, NEW v \in BOOLEAN
              PROVE  LET bs == U!New(n, v) IN
                       /\ DOMAIN bs = 1 .. Len(boxes) + 1
                       /\ bs[Len(boxes) + 1] = [name |-> n, state |-> "off", new |-> v]
                       /\ \A i \in DOMAIN boxes : bs[i] = boxes[i]
          BY <1>t, NewPlane
        <5> QED
          BY <4>1, <2>0, <5>1, Zenon
      <4>3. box.name = "green" /\ box.state = "off"
        OBVIOUS
      <4>4. boxes' = green
        BY <4>1
      <4> HIDE DEF green, box
      <4> QED
        BY <4>2, <4>3, <4>4
    <3>0. l = Len(boxes) + 1
      OBVIOUS
    <3>2. l \in DOMAIN boxes' /\ DOMAIN boxes' = DOMAIN boxes \cup {l}
      BY <3>1, <1>t
    <3>3. \A i \in DOMAIN boxes : boxes[i].name # "green"
      BY <2>1 DEF U!Free, U!Named
    <3>4. updates' = [updates EXCEPT ![u].at = "start", ![u].id = l]
      BY <2>1
    <3> HIDE DEF l
    <3>5. PlanesOK(boxes') /\ HasName(boxes') /\ IsGreen(boxes', l)
      <4>1. l \notin DOMAIN boxes /\ boxes'[l].name # "name" /\ boxes'[l].name # "gone"
        BY <3>0, <3>1, <1>t
      <4>2. \A i \in DOMAIN boxes : boxes'[i].name # "green"
        BY <3>1, <3>3
      <4>3. \A i, k \in DOMAIN boxes' : boxes'[i].name = boxes'[k].name /\ boxes'[i].name # "gone"
                                          => i = k
        <5>1. ASSUME NEW i \in DOMAIN boxes, NEW k \in DOMAIN boxes,
                     boxes'[i].name = boxes'[k].name, boxes'[i].name # "gone"
              PROVE  i = k
          BY <3>1, <5>1, <1>t DEF PlanesOK
        <5>2. ASSUME NEW i \in DOMAIN boxes, boxes'[i].name = boxes'[l].name PROVE FALSE
          BY <3>1, <4>2, <5>2
        <5> QED
          BY <3>2, <5>1, <5>2, Zenon
      <4>4. \A i \in DOMAIN boxes' : boxes'[i].name = "name" => boxes'[i].state = "healthy"
        BY <3>1, <3>2, <4>1, <1>t DEF PlanesOK
      <4>5. \E i \in DOMAIN boxes' : boxes'[i].state = "healthy"
        BY <3>1, <3>2, <1>t DEF PlanesOK
      <4>6. HasName(boxes') /\ IsGreen(boxes', l)
        BY <2>0, <3>1, <3>2 DEF HasName, IsGreen
      <4> QED
        BY <4>3, <4>4, <4>5, <4>6 DEF PlanesOK
    <3>6. /\ updates'[u].at = "start" /\ updates'[u].id = l
          /\ \A v \in Updates : v # u => updates'[v] = updates[v]
      BY <3>4, <1>t DEF UpdateRows
    <3>7. Active(updates') \subseteq Active(updates)
      BY <2>0, <3>6 DEF Active
    <3>8. \A v \in Updates : v # u => v \notin Active(updates)
      BY <2>0 DEF PlaneInv
    <3>9. \A v \in Updates : /\ updates'[v].at \in PlaneStage
                             /\ StageOK(updates'[v].at, updates'[v].id, boxes')
      BY <3>5, <3>6, <3>8, <1>u DEF StageOK, PlaneStage, Kept, Green, Active, U!Ended
    <3> QED
      BY <3>5, <3>7, <3>9 DEF PlaneInv
  <2>2. CASE U!Do(u, boxes, "done") \/ U!Fail(u, "done")
    BY <2>0, <2>2, <1>n, <1>f, <1>e DEF PlaneStage
  <2> QED
    BY <1>6, <2>1, <2>2 DEF U!CreateGreen
<1>7. ASSUME NEW u \in Updates, U!StartGreen(u) PROVE PlaneInv'
  <2>0. u \in Active(updates) /\ HasName(boxes) /\ IsGreen(boxes, updates[u].id)
    BY <1>7, <1>a, <1>u DEF U!StartGreen, U!At, U!Ended, StageOK, Kept, Green
  <2> DEFINE bs == WithState(updates[u].id, "starting")
  <2>1. U!Do(u, boxes, "done") \/ U!Do(u, bs, "health") \/ U!Fail(u, "rollback")
    BY <1>7 DEF U!StartGreen, U!Id, WithState
  <2>2. /\ DOMAIN bs = DOMAIN boxes
        /\ \A i \in DOMAIN boxes : /\ bs[i].name = boxes[i].name
                                   /\ i # updates[u].id => bs[i] = boxes[i]
    BY <1>t, PlaneState
  <2> HIDE DEF bs
  <2>3. HasName(bs) /\ PlanesOK(bs) /\ IsGreen(bs, updates[u].id)
    BY <2>0, <2>2, <1>t DEF HasName, PlanesOK, IsGreen
  <2>4. StageOK("health", updates[u].id, bs) /\ StageOK("rollback", updates[u].id, boxes)
    BY <2>0, <2>3 DEF StageOK, Kept, Green
  <2> QED
    BY <2>0, <2>1, <2>3, <2>4, <1>e, <1>n, <1>f, PlanesGo DEF PlaneStage
<1>8. ASSUME NEW u \in Updates, U!WaitHealthy(u) PROVE PlaneInv'
  <2>0. u \in Active(updates) /\ HasName(boxes) /\ IsGreen(boxes, updates[u].id)
    BY <1>8, <1>a, <1>u DEF U!WaitHealthy, U!At, U!Ended, StageOK, Kept, Green
  <2> DEFINE bs == WithState(updates[u].id, "healthy")
  <2>1. U!Do(u, boxes, "rollback") \/ U!Do(u, bs, "self1")
    BY <1>8 DEF U!WaitHealthy, U!Id, WithState
  <2>2. /\ DOMAIN bs = DOMAIN boxes
        /\ \A i \in DOMAIN boxes : /\ bs[i].name = boxes[i].name
                                   /\ i # updates[u].id => bs[i] = boxes[i]
                                   /\ i = updates[u].id => bs[i].state = "healthy"
    BY <1>t, PlaneState
  <2> HIDE DEF bs
  <2>3. /\ HasName(bs) /\ PlanesOK(bs) /\ IsGreen(bs, updates[u].id)
        /\ bs[updates[u].id].state = "healthy"
    BY <2>0, <2>2, <1>t DEF HasName, PlanesOK, IsGreen
  <2>4. StageOK("self1", updates[u].id, bs) /\ StageOK("rollback", updates[u].id, boxes)
    BY <2>0, <2>3 DEF StageOK, Kept, Green
  <2> QED
    BY <2>0, <2>1, <2>3, <2>4, <1>n, PlanesGo DEF PlaneStage
<1>9. ASSUME NEW u \in Updates, U!Rollback(u) PROVE PlaneInv'
  <2>0. u \in Active(updates) /\ HasName(boxes) /\ IsGreen(boxes, updates[u].id)
    BY <1>9, <1>a, <1>u DEF U!Rollback, U!At, U!Ended, StageOK, Kept, Green
  <2> DEFINE bs == U!Remove({updates[u].id})
  <2>1. U!Do(u, bs, "done") \/ U!Fail(u, "done")
    BY <1>9 DEF U!Rollback, U!Id
  <2>2. /\ DOMAIN bs = DOMAIN boxes
        /\ \A i \in DOMAIN boxes : \/ bs[i].name = "gone" /\ boxes[i].name = "green"
                                   \/ bs[i] = boxes[i]
    BY <2>0, <1>t, RemovePlanes DEF IsGreen
  <2> HIDE DEF bs
  <2>3. PlanesOK(bs)
    BY <2>0, <2>2, <1>t DEF HasName, PlanesOK
  <2> QED
    BY <2>0, <2>1, <2>3, <1>e, <1>f, PlanesGo DEF PlaneStage
<1>10. ASSUME NEW u \in Updates, U!RenameGreen(u, "self1", "self2") PROVE PlaneInv'
  <2>0. /\ u \in Active(updates) /\ HasName(boxes) /\ IsGreen(boxes, updates[u].id)
        /\ boxes[updates[u].id].state = "healthy"
    BY <1>10, <1>a, <1>u DEF U!RenameGreen, U!At, U!Ended, StageOK, Kept, Green
  <2>1. ~U!Free("name")
    BY <2>0 DEF HasName, U!Free, U!Named
  <2>2. U!Do(u, boxes, "self2") \/ U!Fail(u, "self2")
    BY <1>10, <2>1 DEF U!RenameGreen
  <2>3. StageOK("self2", updates[u].id, boxes)
    BY <2>0 DEF StageOK, Kept, Green
  <2> QED
    BY <2>0, <2>2, <2>3, <1>n, <1>f DEF PlaneStage
<1>11. ASSUME NEW u \in Updates, U!RenameOld(u) PROVE PlaneInv'
  <2>0. /\ u \in Active(updates) /\ HasName(boxes) /\ IsGreen(boxes, updates[u].id)
        /\ boxes[updates[u].id].state = "healthy"
    BY <1>11, <1>a, <1>u DEF U!RenameOld, U!At, U!Ended, StageOK, Kept, Green
  <2> DEFINE bs == U!Rename(U!Named("name"), "old")
  <2>1. \/ U!Free("old") /\ U!Do(u, bs, "self3")
        \/ U!Do(u, boxes, "self3") \/ U!Fail(u, "self3")
    BY <1>11 DEF U!RenameOld
  <2>2. "old" \in U!Names
    BY DEF U!Names
  <2>3. /\ DOMAIN bs = DOMAIN boxes
        /\ \A i \in DOMAIN boxes : /\ bs[i].state = boxes[i].state
                                   /\ \/ bs[i].name = "old" /\ boxes[i].name = "name"
                                      \/ bs[i] = boxes[i] /\ boxes[i].name # "name"
    BY <2>2, <1>t, RenamePlanes DEF U!Named
  <2> HIDE DEF bs
  <2>4. U!Free("old") => PlanesOK(bs)
    <3> SUFFICES ASSUME U!Free("old") PROVE PlanesOK(bs)
      OBVIOUS
    <3>1. \A i \in DOMAIN boxes : boxes[i].name # "old"
      BY DEF U!Free, U!Named
    <3> QED
      BY <2>3, <3>1, <1>t DEF PlanesOK
  <2>5. IsGreen(bs, updates[u].id) /\ bs[updates[u].id].state = "healthy"
    BY <2>0, <2>3 DEF IsGreen
  <2>6. StageOK("self3", updates[u].id, bs) /\ StageOK("self3", updates[u].id, boxes)
    BY <2>0, <2>5 DEF StageOK, Kept, Green
  <2> QED
    BY <2>0, <2>1, <2>4, <2>6, <1>n, <1>f, PlanesGo DEF PlaneStage
<1>12. ASSUME NEW u \in Updates, U!RenameGreen(u, "self3", "self4") PROVE PlaneInv'
  <2>0. /\ u \in Active(updates)
        /\ HasName(boxes) \/ (IsGreen(boxes, updates[u].id)
                              /\ boxes[updates[u].id].state = "healthy")
    BY <1>12, <1>a, <1>u DEF U!RenameGreen, U!At, U!Ended, StageOK
  <2> DEFINE bs == U!Rename({updates[u].id}, "name")
  <2>1. \/ U!Free("name") /\ U!Do(u, bs, "self4")
        \/ U!Do(u, boxes, "self4") \/ U!Fail(u, "self4")
    BY <1>12 DEF U!RenameGreen, U!Id
  <2>2. StageOK("self4", updates[u].id, boxes)
    BY <2>0 DEF StageOK, Kept, Green
  <2>3. CASE U!Free("name") /\ U!Do(u, bs, "self4")
    <3>1. \A i \in DOMAIN boxes : boxes[i].name # "name"
      BY <2>3 DEF U!Free, U!Named
    <3>2. IsGreen(boxes, updates[u].id) /\ boxes[updates[u].id].state = "healthy"
      BY <2>0, <3>1 DEF HasName
    <3>3. "name" \in U!Names
      BY DEF U!Names
    <3>4. /\ DOMAIN bs = DOMAIN boxes
          /\ \A i \in DOMAIN boxes : /\ bs[i].state = boxes[i].state
                                     /\ i = updates[u].id => bs[i].name = "name"
                                     /\ i # updates[u].id => bs[i] = boxes[i]
      BY <3>3, <1>t, RenamePlanes
    <3> HIDE DEF bs
    <3>5. PlanesOK(bs) /\ HasName(bs)
      BY <3>1, <3>2, <3>4, <1>t DEF PlanesOK, HasName, IsGreen
    <3>6. StageOK("self4", updates[u].id, bs)
      BY <3>5 DEF StageOK, Kept, Green
    <3> QED
      BY <2>0, <2>3, <3>5, <3>6, PlanesGo DEF PlaneStage
  <2> HIDE DEF bs
  <2> QED
    BY <2>0, <2>1, <2>2, <2>3, <1>n, <1>f DEF PlaneStage
<1>13. ASSUME NEW u \in Updates, U!RemoveOld(u) PROVE PlaneInv'
  <2>0. /\ u \in Active(updates)
        /\ HasName(boxes) \/ (IsGreen(boxes, updates[u].id)
                              /\ boxes[updates[u].id].state = "healthy")
    BY <1>13, <1>a, <1>u DEF U!RemoveOld, U!At, U!Ended, StageOK
  <2> DEFINE bs == U!Remove(U!Named("old"))
  <2>1. U!Do(u, bs, "done") \/ U!Fail(u, "done")
    BY <1>13 DEF U!RemoveOld
  <2>2. /\ DOMAIN bs = DOMAIN boxes
        /\ \A i \in DOMAIN boxes : \/ bs[i].name = "gone" /\ boxes[i].name = "old"
                                   \/ bs[i] = boxes[i]
    BY <1>t, RemovePlanes DEF U!Named
  <2> HIDE DEF bs
  <2>3. PlanesOK(bs)
    BY <2>0, <2>2, <1>t DEF HasName, PlanesOK, IsGreen
  <2> QED
    BY <2>0, <2>1, <2>3, <1>e, <1>f, PlanesGo DEF PlaneStage
<1>14. ASSUME NEW u \in Updates, U!OtherStep(u) PROVE PlaneInv'
  <2>1. updates[u].at \in {"stop", "remove", "rename", "stop again", "remove again", "recreate",
                           "restart", "backup", "wait", "restore"}
    BY <1>14 DEF U!OtherStep, U!StopNamed, U!RemoveNamed, U!TakeName, U!Recreate,
       U!StartRecreated, U!BackupCaddyConfig, U!WaitCaddyHealthy, U!RestoreCaddyConfig, U!At
  <2> QED
    BY <2>1, <1>u DEF PlaneStage
<1>15. CASE U!FetchVersionInfo \/ U!SetCache
  BY <1>15 DEF U!FetchVersionInfo, U!SetCache, PlaneInv, PlanesOK, Active, StageOK, HasName,
     IsGreen
<1>16. CASE U!Crash
  <2>1. PICK i \in DOMAIN boxes :
          updates' = [u \in Updates |-> IF updates[u].at \notin {"idle"} \cup U!Ended
                                           /\ (updates[u].host = i \/ component # "plane")
                                        THEN [updates[u] EXCEPT !.at = "dead"] ELSE updates[u]]
    BY <1>16 DEF U!Crash
  <2>2. \A u \in Updates : updates'[u] = updates[u] \/ updates'[u].at = "dead"
    BY <2>1, <1>t DEF UpdateRows
  <2>3. boxes' = boxes
    BY <1>16 DEF U!Crash
  <2>4. Active(updates') \subseteq Active(updates)
    BY <2>2 DEF Active, U!Ended
  <2>5. \A u \in Updates : /\ updates'[u].at \in PlaneStage
                           /\ StageOK(updates'[u].at, updates'[u].id, boxes)
    BY <2>2, <1>u, <1>e DEF PlaneStage
  <2> QED
    BY <2>3, <2>4, <2>5, <1>t DEF PlaneInv
<1> QED
  BY <1>1, <1>2, <1>3, <1>4, <1>5, <1>6, <1>7, <1>8, <1>9, <1>10, <1>11, <1>12, <1>13, <1>14,
     <1>15, <1>16
  DEF U!Next, U!SelfStep

LEMMA SelfStays ==
    ASSUME U!SelfUpdateAssumption, SelfInv, [U!Next]_(U!vars) PROVE SelfInv'
<1>1. U!TypeOK /\ U!TypeOK'
  BY SelfTypes DEF SelfInv
<1>2. component' = component
  <2>1. ASSUME NEW u \in Updates, U!UpdateSelf(u) \/ U!Pull(u) \/ U!Inspect(u)
        PROVE  component' = component
    BY <2>1 DEF U!UpdateSelf, U!Pull, U!Inspect, U!Do, U!Fail, U!Goto
  <2>2. ASSUME NEW u \in Updates,
               \/ U!RemoveGreen(u) \/ U!CreateGreen(u) \/ U!StartGreen(u) \/ U!WaitHealthy(u)
               \/ U!Rollback(u)
        PROVE  component' = component
    BY <2>2 DEF U!RemoveGreen, U!CreateGreen, U!StartGreen, U!WaitHealthy, U!Rollback, U!Do,
       U!Fail, U!Goto
  <2>3. ASSUME NEW u \in Updates, U!SelfStep(u) PROVE component' = component
    BY <2>3 DEF U!SelfStep, U!RenameGreen, U!RenameOld, U!RemoveOld, U!Do, U!Fail, U!Goto
  <2>4. ASSUME NEW u \in Updates, U!OtherStep(u) PROVE component' = component
    BY <2>4 DEF U!OtherStep, U!StopNamed, U!RemoveNamed, U!TakeName, U!Recreate,
       U!StartRecreated, U!BackupCaddyConfig, U!WaitCaddyHealthy, U!RestoreCaddyConfig,
       U!Do, U!Fail, U!Goto
  <2>5. CASE U!FetchVersionInfo \/ U!SetCache \/ U!Crash \/ UNCHANGED U!vars
    BY <2>5 DEF U!FetchVersionInfo, U!SetCache, U!Crash, U!vars
  <2> QED
    BY <2>1, <2>2, <2>3, <2>4, <2>5 DEF U!Next
<1> QED
  BY <1>1, <1>2, PlaneStays DEF SelfInv

LEMMA SelfMeans ==
    ASSUME SelfInv PROVE U!TypeOK /\ (MaxRunning = 1 => U!PlaneStaysUp)
  BY DEF SelfInv, PlaneInv, PlanesOK, U!PlaneStaysUp

-----------------------------------------------------------------------------
(* RemoteService *)

Commands == [kind : R!JobKinds \cup R!AdminKinds, target : Nat, slot : R!Slots]

\* A command to autoscale is within the range of the manifest.
InRange(c) == c.kind = "autoscale" => c.target \in 1 .. AsMax

WorkerInv ==
    /\ R!TypeOK
    /\ inbox \in Seq(Commands)
    /\ \A i \in DOMAIN inbox : InRange(inbox[i])

RemoteRow == [status : {"running", "failed", "stopped", "deploying"}, slot : R!Slots]
RemoteJob == [at : {"idle", "decide", "measure", "send", "wait", "restart"},
              current : 0 .. AsMax, slot : R!Slots]
Copies == [copies : 0 .. AsMax, slot : R!Slots]
Ages == [lastScaleUp : {"never", "now", "past"}, belowSince : {"never", "now", "past"}]

\* The state of the module, by the types of its fields.
WorkerTypes ==
    /\ row \in RemoteRow /\ connected \in BOOLEAN
    /\ inbox \in Seq(Commands) /\ Len(inbox) <= MaxQueue
    /\ \A i \in DOMAIN inbox : InRange(inbox[i])
    /\ remote \in Copies /\ local \in 0 .. 1
    /\ jobs \in [R!JobKinds -> RemoteJob]
    /\ tracker \in Ages
    /\ losses \in 0 .. MaxLosses

LEMMA WorkerShape == WorkerTypes <=> WorkerInv
<1>1. ASSUME inbox \in Seq(Commands), NEW i \in DOMAIN inbox
      PROVE  inbox[i].kind \in R!JobKinds \cup R!AdminKinds
  <2>1. inbox[i] \in Commands
    BY <1>1, ElementTypes
  <2> QED
    BY <2>1 DEF Commands
<1> QED
  BY <1>1 DEF WorkerTypes, WorkerInv, R!TypeOK, RemoteRow, RemoteJob, Copies, Ages, InRange

LEMMA WorkerInit == ASSUME R!RemoteAssumption, R!Init PROVE WorkerInv
<1>i. connected = TRUE /\ local = 0 /\ inbox = <<>> /\ losses = 0
  BY DEF R!Init
<1>j. remote \in [copies : AsMin .. AsMax, slot : {""}]
  BY DEF R!Init
<1>1. row \in RemoteRow /\ connected \in BOOLEAN /\ local \in 0 .. 1
  <2>1. [status |-> "running", slot |-> ""] \in RemoteRow
    BY DEF RemoteRow, R!Slots
  <2>2. row = [status |-> "running", slot |-> ""]
    BY DEF R!Init
  <2>3. row \in RemoteRow
    BY <2>1, <2>2, Zenon
  <2> QED
    BY <1>i, <2>3
<1>2. inbox \in Seq(Commands) /\ Len(inbox) = 0 /\ DOMAIN inbox = {} /\ losses = 0
  BY <1>i
<1>3. remote \in Copies
  <2>1. AsMin .. AsMax \subseteq 0 .. AsMax /\ "" \in R!Slots
    BY DEF R!RemoteAssumption, R!Slots
  <2> QED
    BY <1>j, <2>1 DEF Copies
<1>4. jobs \in [R!JobKinds -> RemoteJob]
  <2>1. R!Idle \in RemoteJob
    BY DEF R!Idle, RemoteJob, R!RemoteAssumption, R!Slots
  <2> QED
    BY <2>1 DEF R!Init
<1>5. tracker \in Ages
  BY DEF R!Init, Ages
<1> QED
  BY <1>1, <1>2, <1>3, <1>4, <1>5, WorkerShape DEF WorkerTypes, R!RemoteAssumption

\* A command that is sent, the oldest that is taken.
LEMMA InboxGrows ==
    ASSUME R!RemoteAssumption, WorkerTypes, NEW k \in R!JobKinds \cup R!AdminKinds,
           NEW target \in Nat, NEW slot \in R!Slots, InRange(R!Command(k, target, slot)),
           R!SendCommand(k, target, slot)
    PROVE  /\ inbox' \in Seq(Commands) /\ Len(inbox') <= MaxQueue
           /\ \A i \in DOMAIN inbox' : InRange(inbox'[i])
<1> DEFINE c == R!Command(k, target, slot)
<1>1. c \in Commands /\ InRange(c)
  BY DEF Commands, R!Command
<1>2. inbox' = Append(inbox, c) /\ Len(inbox) < MaxQueue /\ MaxQueue \in Nat
  BY DEF R!SendCommand, R!RemoteAssumption
<1> HIDE DEF c
<1>3. inbox \in Seq(Commands) /\ \A i \in DOMAIN inbox : InRange(inbox[i])
  BY DEF WorkerTypes
<1>4. /\ Append(inbox, c) \in Seq(Commands) /\ Len(Append(inbox, c)) = Len(inbox) + 1
      /\ Len(inbox) \in Nat /\ DOMAIN inbox = 1 .. Len(inbox)
      /\ DOMAIN Append(inbox, c) = 1 .. Len(inbox) + 1
      /\ \A i \in DOMAIN inbox : Append(inbox, c)[i] = inbox[i]
      /\ Append(inbox, c)[Len(inbox) + 1] = c
  BY <1>1, <1>3
<1>5. Len(inbox') <= MaxQueue
  BY <1>2, <1>4
<1>6. ASSUME NEW i \in DOMAIN inbox' PROVE InRange(inbox'[i])
  <2>1. i \in DOMAIN inbox \/ i = Len(inbox) + 1
    BY <1>2, <1>4
  <2> QED
    BY <1>1, <1>2, <1>3, <1>4, <2>1
<1> QED
  BY <1>2, <1>4, <1>5, <1>6

LEMMA InboxShrinks ==
    ASSUME R!RemoteAssumption, WorkerTypes, inbox # <<>>, inbox' = Tail(inbox)
    PROVE  /\ inbox' \in Seq(Commands) /\ Len(inbox') <= MaxQueue
           /\ \A i \in DOMAIN inbox' : InRange(inbox'[i])
           /\ Head(inbox) \in Commands /\ InRange(Head(inbox))
<1>1. inbox \in Seq(Commands) /\ \A i \in DOMAIN inbox : InRange(inbox[i])
  BY DEF WorkerTypes
<1>2. /\ Tail(inbox) \in Seq(Commands) /\ Len(Tail(inbox)) = Len(inbox) - 1
      /\ Len(inbox) \in Nat \ {0} /\ DOMAIN inbox = 1 .. Len(inbox)
      /\ DOMAIN Tail(inbox) = 1 .. Len(inbox) - 1
      /\ \A i \in 1 .. Len(inbox) - 1 : Tail(inbox)[i] = inbox[i + 1]
      /\ Head(inbox) = inbox[1] /\ Head(inbox) \in Commands
  BY <1>1
<1>3. Len(inbox') <= MaxQueue
  BY <1>2 DEF WorkerTypes, R!RemoteAssumption
<1>4. ASSUME NEW i \in DOMAIN inbox' PROVE InRange(inbox'[i])
  <2>1. i + 1 \in DOMAIN inbox /\ inbox'[i] = inbox[i + 1]
    BY <1>2
  <2> QED
    BY <1>1, <2>1
<1>5. InRange(Head(inbox))
  BY <1>1, <1>2
<1> QED
  BY <1>2, <1>3, <1>4, <1>5

\* Where a job goes on, and where it ends.
LEMMA JobGoes ==
    ASSUME R!RemoteAssumption, WorkerTypes, NEW k \in R!JobKinds
    PROVE  /\ \A s \in {"idle", "decide", "measure", "send", "wait", "restart"} :
                R!Goto(k, s) => jobs' \in [R!JobKinds -> RemoteJob]
           /\ R!End(k) => jobs' \in [R!JobKinds -> RemoteJob]
           /\ jobs[k].slot \in R!Slots /\ R!NextSlot(jobs[k].slot) \in R!Slots
           /\ jobs[k].current \in 0 .. AsMax
<1>1. jobs \in [R!JobKinds -> RemoteJob] /\ jobs[k] \in RemoteJob
  BY DEF WorkerTypes
<1>2. R!Idle \in RemoteJob
  BY DEF R!Idle, RemoteJob, R!RemoteAssumption, R!Slots
<1>3. \A s \in {"idle", "decide", "measure", "send", "wait", "restart"} :
        [jobs[k] EXCEPT !.at = s] \in RemoteJob
  BY <1>1 DEF RemoteJob
<1>4. jobs[k].slot \in R!Slots /\ jobs[k].current \in 0 .. AsMax
  BY <1>1 DEF RemoteJob
<1> QED
  BY <1>1, <1>2, <1>3, <1>4 DEF R!Goto, R!End, R!NextSlot, R!Slots

LEMMA RowHeeds ==
    ASSUME R!RemoteAssumption, WorkerTypes, NEW k \in R!JobKinds, NEW ok, R!Heed(k, ok)
    PROVE  row' \in RemoteRow
<1>1. row \in RemoteRow /\ R!NextSlot(jobs[k].slot) \in R!Slots
  BY JobGoes DEF WorkerTypes
<1>2. /\ [row EXCEPT !.status = IF ok THEN "running" ELSE "failed"] \in RemoteRow
      /\ [row EXCEPT !.slot = R!NextSlot(jobs[k].slot)] \in RemoteRow
  BY <1>1 DEF RemoteRow
<1> QED
  BY <1>1, <1>2 DEF R!Heed, R!JobKinds

\* The answer of a command.
LEMMA AnswerTypes ==
    ASSUME R!RemoteAssumption, WorkerTypes, NEW c \in Commands, NEW answer, R!Answer(c, answer)
    PROVE  row' \in RemoteRow /\ jobs' \in [R!JobKinds -> RemoteJob] /\ tracker' \in Ages
<1>1. CASE R!Waits(c)
  <2>1. c.kind \in R!JobKinds
    BY <1>1 DEF R!Waits
  <2>2. row' \in RemoteRow
    BY <1>1, <2>1, RowHeeds DEF R!Answer
  <2>3. jobs' \in [R!JobKinds -> RemoteJob]
    BY <1>1, <2>1, JobGoes DEF R!Answer
  <2>4. tracker' \in Ages
    BY <1>1 DEF R!Answer, R!Scaled, Ages, WorkerTypes
  <2> QED
    BY <2>2, <2>3, <2>4
<1>2. CASE ~R!Waits(c)
  BY <1>2 DEF R!Answer, WorkerTypes
<1> QED
  BY <1>1, <1>2

LEMMA EffectTypes ==
    ASSUME R!RemoteAssumption, WorkerTypes, NEW c \in Commands, InRange(c),
           R!Effect(c, remote')
    PROVE  remote' \in Copies
<1>1. /\ remote \in Copies /\ remote.copies \in 0 .. AsMax /\ AsMax \in Nat /\ AsMax >= 1
      /\ c.kind \in R!JobKinds \cup R!AdminKinds /\ R!NextSlot(c.slot) \in R!Slots
  <2>1. remote \in Copies /\ remote.copies \in 0 .. AsMax
    BY DEF WorkerTypes, Copies
  <2>2. AsMax \in Nat /\ AsMax >= 1
    BY DEF R!RemoteAssumption
  <2>3. c.kind \in R!JobKinds \cup R!AdminKinds
    BY DEF Commands
  <2>4. R!NextSlot(c.slot) \in R!Slots
    BY DEF R!NextSlot, R!Slots
  <2> QED
    BY <2>1, <2>2, <2>3, <2>4
<1>2. ASSUME NEW n \in 0 .. AsMax PROVE [remote EXCEPT !.copies = n] \in Copies
  BY <1>1 DEF Copies
<1>3. CASE c.kind = "autoscale"
  <2>1. c.target \in 0 .. AsMax
    BY <1>1, <1>3 DEF InRange
  <2> QED
    BY <1>2, <1>3, <2>1 DEF R!Effect
<1>4. CASE c.kind \in {"heal", "deploy", "start"}
  <2>1. remote' = [remote EXCEPT !.copies = IF remote.copies = 0 THEN 1 ELSE remote.copies]
    BY <1>4 DEF R!Effect
  <2> QED
    BY <1>1, <1>2, <2>1
<1>5. CASE c.kind = "bluegreen"
  BY <1>1, <1>5 DEF R!Effect, Copies
<1>6. CASE c.kind = "rolling"
  BY <1>1, <1>6 DEF R!Effect
<1>7. CASE c.kind \in {"stop", "remove"}
  <2>1. remote' = [remote EXCEPT !.copies = IF remote.copies = 0 THEN 0 ELSE remote.copies - 1]
    BY <1>7 DEF R!Effect
  <2> QED
    BY <1>1, <1>2, <2>1
<1> QED
  BY <1>1, <1>3, <1>4, <1>5, <1>6, <1>7 DEF R!JobKinds, R!AdminKinds

\* The number of replicas that is asked for is another one of the range, or the one there is.
LEMMA TargetInRange ==
    ASSUME R!RemoteAssumption, NEW n \in 0 .. AsMax, NEW load
    PROVE  R!ScaleTarget(n, load) = n \/ R!ScaleTarget(n, load) \in 1 .. AsMax
  BY DEF R!ScaleTarget, R!RemoteAssumption

LEMMA WorkerStays ==
    ASSUME R!RemoteAssumption, WorkerInv, [R!Next]_(R!vars) PROVE WorkerInv'
<1> SUFFICES WorkerTypes'
  <2>1. WorkerTypes' => WorkerInv'
    BY WorkerShape, PTL
  <2> QED
    BY <2>1
<1>t. WorkerTypes
  BY WorkerShape
<1>k. "heal" \in R!JobKinds /\ "bluegreen" \in R!JobKinds /\ "autoscale" \in R!JobKinds
  BY DEF R!JobKinds
<1>l. R!Lose => losses' \in 0 .. MaxLosses
  BY <1>t DEF R!Lose, WorkerTypes, R!RemoteAssumption
<1>0. CASE UNCHANGED R!vars
  BY <1>0, <1>t DEF R!vars, WorkerTypes
<1>1. CASE R!ClientOperation
  <2>1. /\ UNCHANGED <<row, connected, remote, local, jobs, tracker, losses>>
        /\ remote.copies \in Nat /\ "" \in R!Slots
    <3>1. remote \in Copies /\ AsMax \in Nat
      BY <1>t DEF WorkerTypes, R!RemoteAssumption
    <3>2. remote.copies \in Nat
      BY <3>1 DEF Copies
    <3>3. UNCHANGED <<row, connected, remote, local, jobs, tracker, losses>>
      BY <1>1 DEF R!ClientOperation
    <3>4. "" \in R!Slots
      BY DEF R!Slots
    <3> QED
      BY <3>2, <3>3, <3>4
  <2>2. \E k \in R!AdminKinds, n \in Nat : R!SendCommand(k, n, "")
    BY <1>1, <2>1 DEF R!ClientOperation, R!Deploy, R!SendRollingUpdate, R!StartContainer,
       R!StopContainer, R!RemoveContainer, R!AdminKinds
  <2>3. PICK k \in R!AdminKinds, n \in Nat : R!SendCommand(k, n, "")
    BY <2>2
  <2>4. k \in R!JobKinds \cup R!AdminKinds /\ InRange(R!Command(k, n, ""))
    BY DEF InRange, R!Command, R!AdminKinds
  <2> QED
    BY <1>t, <2>1, <2>3, <2>4, InboxGrows DEF WorkerTypes
<1>2. CASE R!WorkerRuns
  <2>1. /\ inbox' \in Seq(Commands) /\ Len(inbox') <= MaxQueue
        /\ \A i \in DOMAIN inbox' : InRange(inbox'[i])
        /\ Head(inbox) \in Commands /\ InRange(Head(inbox))
    BY <1>2, <1>t, InboxShrinks DEF R!WorkerRuns
  <2>2. CASE R!Effect(Head(inbox), remote') /\ R!Answer(Head(inbox), "success")
             /\ UNCHANGED losses
    <3>1. remote' \in Copies
      BY <1>t, <2>1, <2>2, EffectTypes
    <3>2. row' \in RemoteRow /\ jobs' \in [R!JobKinds -> RemoteJob] /\ tracker' \in Ages
      BY <1>t, <2>1, <2>2, AnswerTypes
    <3> QED
      BY <1>2, <1>t, <2>1, <2>2, <3>1, <3>2 DEF R!WorkerRuns, WorkerTypes
  <2>3. CASE /\ R!Lose /\ UNCHANGED remote
             /\ \E answer \in {"failure", "reject", "other"} : R!Answer(Head(inbox), answer)
    <3>1. row' \in RemoteRow /\ jobs' \in [R!JobKinds -> RemoteJob] /\ tracker' \in Ages
      BY <1>t, <2>1, <2>3, AnswerTypes
    <3> QED
      BY <1>2, <1>t, <1>l, <2>1, <2>3, <3>1 DEF R!WorkerRuns, WorkerTypes
  <2> QED
    BY <1>2, <2>2, <2>3 DEF R!WorkerRuns
<1>3. ASSUME NEW k \in R!JobKinds, R!TimesOut(k) PROVE WorkerTypes'
  BY <1>3, <1>t, <1>l, RowHeeds, JobGoes DEF R!TimesOut, WorkerTypes
<1>4. CASE R!HealLoad
  BY <1>4, <1>t, <1>k, JobGoes DEF R!HealLoad, WorkerTypes
<1>5. CASE R!HealDecide
  BY <1>5, <1>t, <1>k, JobGoes DEF R!HealDecide, WorkerTypes
<1>6. CASE R!HealRestart
  <2>1. row' \in RemoteRow
    BY <1>6, <1>t DEF R!HealRestart, WorkerTypes, RemoteRow
  <2> QED
    BY <1>6, <1>t, <1>k, <2>1, JobGoes DEF R!HealRestart, WorkerTypes
<1>7. ASSUME NEW k \in {"heal", "bluegreen"}, R!Send(k, 1) PROVE WorkerTypes'
  <2>0. k \in R!JobKinds /\ jobs[k].slot \in R!Slots
    BY <1>7, <1>t, <1>k, JobGoes
  <2>1. CASE R!SendCommand(k, 1, jobs[k].slot) /\ R!Goto(k, "wait") /\ UNCHANGED row
    <3>1. InRange(R!Command(k, 1, jobs[k].slot)) /\ k \in R!JobKinds \cup R!AdminKinds
      BY <1>7, <2>0 DEF InRange, R!Command
    <3>2. /\ inbox' \in Seq(Commands) /\ Len(inbox') <= MaxQueue
          /\ \A i \in DOMAIN inbox' : InRange(inbox'[i])
      BY <1>t, <2>0, <2>1, <3>1, InboxGrows
    <3>3. jobs' \in [R!JobKinds -> RemoteJob]
      BY <1>t, <2>0, <2>1, JobGoes
    <3> QED
      BY <1>7, <1>t, <2>1, <3>2, <3>3 DEF R!Send, WorkerTypes
  <2>2. CASE R!Heed(k, FALSE) /\ R!End(k) /\ UNCHANGED inbox
    BY <1>7, <1>t, <2>0, <2>2, RowHeeds, JobGoes DEF R!Send, WorkerTypes
  <2> QED
    BY <1>7, <2>1, <2>2 DEF R!Send
<1>8. CASE R!BlueGreenLoad
  <2>1. [at |-> "decide", current |-> 0, slot |-> row.slot] \in RemoteJob
    BY <1>t DEF WorkerTypes, RemoteRow, RemoteJob, R!RemoteAssumption
  <2>2. jobs' \in [R!JobKinds -> RemoteJob]
    BY <1>8, <1>t, <2>1 DEF R!BlueGreenLoad, WorkerTypes
  <2> QED
    BY <1>8, <1>t, <2>2 DEF R!BlueGreenLoad, WorkerTypes
<1>9. CASE R!BlueGreenDecide
  <2>1. /\ jobs' \in [R!JobKinds -> RemoteJob]
        /\ R!NextSlot(jobs["bluegreen"].slot) \in R!Slots
    BY <1>9, <1>t, <1>k, JobGoes DEF R!BlueGreenDecide
  <2>2. row' \in RemoteRow /\ local' \in 0 .. 1
    BY <1>9, <1>t, <2>1 DEF R!BlueGreenDecide, WorkerTypes, RemoteRow
  <2> QED
    BY <1>9, <1>t, <2>1, <2>2 DEF R!BlueGreenDecide, WorkerTypes
<1>10. CASE R!AutoscaleLoad
  BY <1>10, <1>t, <1>k, JobGoes DEF R!AutoscaleLoad, WorkerTypes
<1>11. CASE R!ListContainers
  <2>1. CASE R!End("autoscale")
    BY <1>11, <1>t, <1>k, <2>1, JobGoes DEF R!ListContainers, WorkerTypes
  <2>2. CASE jobs' = [jobs EXCEPT !["autoscale"].at = "measure",
                                  !["autoscale"].current = remote.copies]
    <3>1. /\ jobs \in [R!JobKinds -> RemoteJob] /\ jobs["autoscale"] \in RemoteJob
          /\ remote.copies \in 0 .. AsMax
      BY <1>t, <1>k DEF WorkerTypes, Copies
    <3>2. [jobs["autoscale"] EXCEPT !.at = "measure", !.current = remote.copies] \in RemoteJob
      BY <3>1 DEF RemoteJob
    <3>3. jobs' \in [R!JobKinds -> RemoteJob]
      BY <1>k, <2>2, <3>1, <3>2
    <3> QED
      BY <1>11, <1>t, <3>3 DEF R!ListContainers, WorkerTypes
  <2> QED
    BY <1>11, <2>1, <2>2 DEF R!ListContainers
<1>12. CASE R!CollectMetrics
  <2> DEFINE current == jobs["autoscale"].current
  <2>0. UNCHANGED <<row, connected, remote, local, losses>>
    BY <1>12 DEF R!CollectMetrics
  <2>1. PICK load \in {"high", "medium", "low"} :
          LET target == R!ScaleTarget(current, load)
          IN  \/ R!End("autoscale") /\ UNCHANGED inbox
                 /\ tracker' \in {tracker, [tracker EXCEPT !.belowSince = "now"]}
              \/ /\ target # current /\ R!SendCommand("autoscale", target, "")
                 /\ R!Goto("autoscale", "wait") /\ UNCHANGED tracker
    BY <1>12 DEF R!CollectMetrics
  <2> DEFINE target == R!ScaleTarget(current, load)
  <2>2. CASE R!End("autoscale") /\ UNCHANGED inbox
             /\ tracker' \in {tracker, [tracker EXCEPT !.belowSince = "now"]}
    <3>1. tracker' \in Ages
      BY <1>t, <2>2 DEF WorkerTypes, Ages
    <3> QED
      BY <1>t, <1>k, <2>0, <2>2, <3>1, JobGoes DEF WorkerTypes
  <2>3. CASE target # current /\ R!SendCommand("autoscale", target, "")
             /\ R!Goto("autoscale", "wait") /\ UNCHANGED tracker
    <3>1. current \in 0 .. AsMax
      BY <1>t, <1>k, JobGoes
    <3>2. target \in 1 .. AsMax
      BY <2>3, <3>1, TargetInRange
    <3> HIDE DEF target
    <3>3. /\ target \in Nat /\ InRange(R!Command("autoscale", target, ""))
          /\ "autoscale" \in R!JobKinds \cup R!AdminKinds /\ "" \in R!Slots
      BY <1>k, <3>2 DEF InRange, R!Command, R!Slots
    <3>4. /\ inbox' \in Seq(Commands) /\ Len(inbox') <= MaxQueue
          /\ \A i \in DOMAIN inbox' : InRange(inbox'[i])
      BY <1>t, <2>3, <3>3, InboxGrows
    <3> QED
      BY <1>t, <1>k, <2>0, <2>3, <3>4, JobGoes DEF WorkerTypes
  <2> QED
    BY <2>1, <2>2, <2>3
<1>13. CASE R!Tick
  <2>1. tracker' \in Ages
    <3>1. /\ tracker \in Ages /\ DOMAIN tracker = {"lastScaleUp", "belowSince"}
          /\ \A f \in DOMAIN tracker : tracker[f] \in {"never", "now", "past"}
      BY <1>t DEF WorkerTypes, Ages
    <3>2. tracker' = [f \in DOMAIN tracker |-> IF tracker[f] = "now" THEN "past" ELSE tracker[f]]
      BY <1>13 DEF R!Tick
    <3> QED
      BY <3>1, <3>2 DEF Ages
  <2> QED
    BY <1>13, <1>t, <2>1 DEF R!Tick, WorkerTypes
<1>14. CASE R!LoseStream
  <2>1. <<>> \in Seq(Commands) /\ Len(<<>>) = 0 /\ DOMAIN <<>> = {} /\ MaxQueue \in Nat
    BY DEF R!RemoteAssumption
  <2>2. inbox' = inbox \/ inbox' = <<>>
    BY <1>14 DEF R!LoseStream
  <2>3. /\ inbox' \in Seq(Commands) /\ Len(inbox') <= MaxQueue
        /\ \A i \in DOMAIN inbox' : InRange(inbox'[i])
    <3>1. CASE inbox' = inbox
      BY <1>t, <3>1 DEF WorkerTypes
    <3>2. CASE inbox' = <<>>
      <4>1. DOMAIN inbox' = {} /\ inbox' \in Seq(Commands) /\ Len(inbox') <= MaxQueue
        BY <2>1, <3>2
      <4> QED
        BY <4>1
    <3> QED
      BY <2>2, <3>1, <3>2
  <2> QED
    BY <1>14, <1>t, <1>l, <2>3 DEF R!LoseStream, WorkerTypes
<1>15. CASE R!Connect
  BY <1>15, <1>t DEF R!Connect, WorkerTypes
<1>16. CASE R!CopyEnds
  <2>1. /\ remote \in Copies /\ remote.copies - 1 \in 0 .. AsMax
        /\ remote' = [remote EXCEPT !.copies = remote.copies - 1]
    BY <1>16, <1>t DEF R!CopyEnds, WorkerTypes, Copies, R!RemoteAssumption
  <2>2. remote' \in Copies
    BY <2>1 DEF Copies
  <2> QED
    BY <1>16, <1>t, <1>l, <2>2 DEF R!CopyEnds, WorkerTypes
<1> QED
  BY <1>0, <1>1, <1>2, <1>3, <1>4, <1>5, <1>6, <1>7, <1>8, <1>9, <1>10, <1>11, <1>12, <1>13,
     <1>14, <1>15, <1>16
  DEF R!Next

LEMMA WorkerMeans == ASSUME WorkerInv PROVE R!TypeOK
  BY DEF WorkerInv

-----------------------------------------------------------------------------
(* CaddyRoutes: lists of routes *)

Dash == {"api", "docs", "ui"}

HasId(rs, i) == \E n \in DOMAIN rs : rs[n].id = i
OneOfEach(rs) == \A m, n \in DOMAIN rs : rs[m].id = rs[n].id => m = n

\* The route of the dashboard that takes every path comes after those with a path.
UiLast(rs) ==
    \A m, n \in DOMAIN rs : rs[m].id = "ui" /\ rs[n].id \in {"api", "docs"} => n < m

\* The routes cs, made of the routes rs by one call of the admin API that concerns i.
Replaced(rs, cs, i, to) ==
    /\ DOMAIN cs = DOMAIN rs
    /\ \E n \in DOMAIN rs :
         /\ rs[n].id = i /\ cs[n].id = i /\ cs[n].to = to
         /\ \A m \in DOMAIN rs : m # n => cs[m] = rs[m]

Removed(rs, cs, i) ==
    /\ Len(rs) \in Nat \ {0} /\ DOMAIN rs = 1 .. Len(rs) /\ DOMAIN cs = 1 .. Len(rs) - 1
    /\ \E n \in DOMAIN rs :
         /\ rs[n].id = i
         /\ \A m \in DOMAIN cs : cs[m] = IF m < n THEN rs[m] ELSE rs[m + 1]

Inserted(rs, cs, k, r) ==
    /\ Len(rs) \in Nat /\ DOMAIN rs = 1 .. Len(rs) /\ DOMAIN cs = 1 .. Len(rs) + 1
    /\ k \in 0 .. Len(rs)
    /\ \A m \in DOMAIN cs : cs[m] = IF m <= k THEN rs[m] ELSE IF m = k + 1 THEN r ELSE rs[m - 1]

LEMMA RouteReplaced ==
    ASSUME NEW T, NEW rs \in Seq(T), NEW n \in DOMAIN rs, NEW r \in T
    PROVE  /\ [rs EXCEPT ![n] = r] \in Seq(T) /\ Len([rs EXCEPT ![n] = r]) = Len(rs)
           /\ DOMAIN [rs EXCEPT ![n] = r] = DOMAIN rs /\ [rs EXCEPT ![n] = r][n] = r
           /\ \A m \in DOMAIN rs : m # n => [rs EXCEPT ![n] = r][m] = rs[m]
  OBVIOUS

LEMMA Joined ==
    ASSUME NEW T, NEW a \in Seq(T), NEW b \in Seq(T)
    PROVE  /\ a \o b \in Seq(T) /\ Len(a \o b) = Len(a) + Len(b)
           /\ DOMAIN (a \o b) = 1 .. Len(a) + Len(b)
           /\ \A m \in 1 .. Len(a) + Len(b) :
                (a \o b)[m] = IF m <= Len(a) THEN a[m] ELSE b[m - Len(a)]
<1>1. a \o b \in Seq(T)
  OBVIOUS
<1>2. Len(a \o b) = Len(a) + Len(b) /\ DOMAIN (a \o b) = 1 .. Len(a) + Len(b)
  OBVIOUS
<1>3. ASSUME NEW m \in 1 .. Len(a) + Len(b)
      PROVE  (a \o b)[m] = IF m <= Len(a) THEN a[m] ELSE b[m - Len(a)]
  OBVIOUS
<1> QED
  BY <1>1, <1>2, <1>3

\* The piece of a list from one place to another.
LEMMA Piece ==
    ASSUME NEW T, NEW rs \in Seq(T), NEW m \in Nat, NEW n \in Nat, 1 <= m, m <= n + 1,
           n <= Len(rs)
    PROVE  /\ SubSeq(rs, m, n) \in Seq(T) /\ Len(SubSeq(rs, m, n)) = n + 1 - m
           /\ \A k \in 1 .. n + 1 - m : SubSeq(rs, m, n)[k] = rs[m + k - 1]
<1>1. SubSeq(rs, m, n) = [k \in 1 .. n + 1 - m |-> rs[m + k - 1]]
  OBVIOUS
<1>2. ASSUME NEW k \in 1 .. n + 1 - m PROVE m + k - 1 \in 1 .. Len(rs)
  <2>1. Len(rs) \in Nat
    OBVIOUS
  <2> QED
    BY <2>1
<1>3. \A k \in 1 .. n + 1 - m : rs[m + k - 1] \in T
  BY <1>2
<1>4. n + 1 - m \in Nat
  OBVIOUS
<1> QED
  BY <1>1, <1>3, <1>4

\* The places of a list of length l that come after k, counted from k + 1.
LEMMA Places ==
    ASSUME NEW l \in Nat, NEW k \in Nat, k <= l
    PROVE  /\ k + 1 \in Nat /\ 1 <= k + 1 /\ k + 1 <= l + 1 /\ l + 1 - (k + 1) = l - k
           /\ \A m \in 1 .. l - k : /\ m \in 1 .. l + 1 - (k + 1)
                                   /\ (k + 1) + m - 1 = m + k
<1>1. k + 1 \in Nat /\ 1 <= k + 1 /\ k + 1 <= l + 1
  OBVIOUS
<1>2. l + 1 - (k + 1) = l - k
  OBVIOUS
<1>3. ASSUME NEW m \in 1 .. l - k
      PROVE  m \in 1 .. l + 1 - (k + 1) /\ (k + 1) + m - 1 = m + k
  OBVIOUS
<1> QED
  BY <1>1, <1>2, <1>3

LEMMA RouteRemoved ==
    ASSUME NEW T, NEW rs \in Seq(T), NEW n \in DOMAIN rs
    PROVE  LET cs == C!WithoutRoute(rs, n) IN
             /\ cs \in Seq(T) /\ Len(cs) = Len(rs) - 1 /\ Len(rs) \in Nat \ {0}
             /\ DOMAIN rs = 1 .. Len(rs) /\ DOMAIN cs = 1 .. Len(rs) - 1
             /\ \A m \in DOMAIN cs : cs[m] = IF m < n THEN rs[m] ELSE rs[m + 1]
<1> DEFINE a == SubSeq(rs, 1, n - 1)
           b == SubSeq(rs, n + 1, Len(rs))
<1>1. Len(rs) \in Nat \ {0} /\ DOMAIN rs = 1 .. Len(rs) /\ n \in 1 .. Len(rs)
  OBVIOUS
<1>2. /\ a \in Seq(T) /\ Len(a) = n - 1 /\ \A m \in 1 .. n - 1 : a[m] = rs[m]
  <2>1. n - 1 \in Nat /\ n - 1 <= Len(rs) /\ n - 1 + 1 - 1 = n - 1
        /\ \A m \in Nat : 1 + m - 1 = m
    BY <1>1
  <2> QED
    BY <2>1, Piece
<1>3. /\ b \in Seq(T) /\ Len(b) = Len(rs) - n
      /\ \A m \in 1 .. Len(rs) - n : b[m] = rs[m + n]
  <2>1. n \in Nat /\ n <= Len(rs)
    BY <1>1
  <2>2. /\ n + 1 \in Nat /\ 1 <= n + 1 /\ n + 1 <= Len(rs) + 1
        /\ Len(rs) + 1 - (n + 1) = Len(rs) - n
    BY <1>1, <2>1, Places
  <2>3. /\ b \in Seq(T) /\ Len(b) = Len(rs) + 1 - (n + 1)
        /\ \A m \in 1 .. Len(rs) + 1 - (n + 1) : b[m] = rs[(n + 1) + m - 1]
    BY <1>1, <2>2, Piece
  <2>4. ASSUME NEW m \in 1 .. Len(rs) - n PROVE b[m] = rs[m + n]
    <3>1. m \in 1 .. Len(rs) + 1 - (n + 1) /\ (n + 1) + m - 1 = m + n
      BY <1>1, <2>1, Places
    <3> QED
      BY <2>3, <3>1
  <2> QED
    BY <2>2, <2>3, <2>4
<1> HIDE DEF a, b
<1>4. /\ a \o b \in Seq(T) /\ Len(a \o b) = Len(a) + Len(b)
      /\ DOMAIN (a \o b) = 1 .. Len(a) + Len(b)
      /\ \A m \in 1 .. Len(a) + Len(b) : (a \o b)[m] = IF m <= Len(a) THEN a[m]
                                                       ELSE b[m - Len(a)]
  BY <1>2, <1>3, Joined
<1>5. C!WithoutRoute(rs, n) = a \o b
  BY DEF C!WithoutRoute, a, b
<1> DEFINE cs == a \o b
<1>6. cs \in Seq(T) /\ Len(cs) = Len(rs) - 1 /\ DOMAIN cs = 1 .. Len(rs) - 1
  <2>1. Len(a) + Len(b) = Len(rs) - 1
    BY <1>1, <1>2, <1>3
  <2> QED
    BY <1>4, <2>1
<1>7. ASSUME NEW m \in 1 .. Len(rs) - 1 PROVE cs[m] = IF m < n THEN rs[m] ELSE rs[m + 1]
  <2>1. CASE m < n
    <3>1. m \in 1 .. n - 1 /\ m \in 1 .. Len(a) + Len(b) /\ m <= Len(a)
      BY <1>1, <1>2, <1>3, <2>1
    <3> QED
      BY <1>2, <1>4, <2>1, <3>1
  <2>2. CASE ~(m < n)
    <3>1. /\ m \in 1 .. Len(a) + Len(b) /\ ~(m <= Len(a)) /\ m - Len(a) \in 1 .. Len(rs) - n
          /\ (m - Len(a)) + n = m + 1
      BY <1>1, <1>2, <1>3, <2>2
    <3>2. cs[m] = b[m - Len(a)]
      BY <1>4, <3>1
    <3>3. b[m - Len(a)] = rs[(m - Len(a)) + n]
      BY <1>3, <3>1
    <3> QED
      BY <2>2, <3>1, <3>2, <3>3
  <2> QED
    BY <2>1, <2>2
<1> QED
  BY <1>1, <1>5, <1>6, <1>7, Zenon

LEMMA RouteInserted ==
    ASSUME NEW T, NEW rs \in Seq(T), NEW k \in 0 .. Len(rs), NEW r \in T
    PROVE  LET cs == C!WithRoute(rs, k + 1, r) IN
             /\ cs \in Seq(T) /\ Len(cs) = Len(rs) + 1 /\ Inserted(rs, cs, k, r)
<1> DEFINE a == SubSeq(rs, 1, k)
           b == SubSeq(rs, k + 1, Len(rs))
           c == a \o <<r>>
<1>1. Len(rs) \in Nat /\ DOMAIN rs = 1 .. Len(rs) /\ k \in Nat /\ k <= Len(rs)
  OBVIOUS
<1>2. /\ a \in Seq(T) /\ Len(a) = k /\ \A m \in 1 .. k : a[m] = rs[m]
  <2>1. k + 1 - 1 = k /\ \A m \in Nat : 1 + m - 1 = m
    BY <1>1
  <2> QED
    BY <1>1, <2>1, Piece
<1>3. /\ b \in Seq(T) /\ Len(b) = Len(rs) - k
      /\ \A m \in 1 .. Len(rs) - k : b[m] = rs[m + k]
  <2>1. /\ k + 1 \in Nat /\ 1 <= k + 1 /\ k + 1 <= Len(rs) + 1
        /\ Len(rs) + 1 - (k + 1) = Len(rs) - k
    BY <1>1, Places
  <2>3. /\ b \in Seq(T) /\ Len(b) = Len(rs) + 1 - (k + 1)
        /\ \A m \in 1 .. Len(rs) + 1 - (k + 1) : b[m] = rs[(k + 1) + m - 1]
    BY <1>1, <2>1, Piece
  <2>4. ASSUME NEW m \in 1 .. Len(rs) - k PROVE b[m] = rs[m + k]
    <3>1. m \in 1 .. Len(rs) + 1 - (k + 1) /\ (k + 1) + m - 1 = m + k
      BY <1>1, Places
    <3> QED
      BY <2>3, <3>1
  <2> QED
    BY <2>1, <2>3, <2>4
<1>4. C!WithRoute(rs, k + 1, r) = c \o b
  <2>1. (k + 1) - 1 = k
    BY <1>1
  <2> QED
    BY <2>1 DEF C!WithRoute
<1> HIDE DEF a, b
<1>5. /\ c \in Seq(T) /\ Len(c) = k + 1 /\ c[k + 1] = r
      /\ \A m \in 1 .. k : c[m] = a[m]
  BY <1>1, <1>2
<1> HIDE DEF c
<1>6. /\ c \o b \in Seq(T) /\ Len(c \o b) = Len(c) + Len(b)
      /\ DOMAIN (c \o b) = 1 .. Len(c) + Len(b)
      /\ \A m \in 1 .. Len(c) + Len(b) : (c \o b)[m] = IF m <= Len(c) THEN c[m]
                                                       ELSE b[m - Len(c)]
  BY <1>3, <1>5, Joined
<1> DEFINE cs == c \o b
<1>7. cs \in Seq(T) /\ Len(cs) = Len(rs) + 1 /\ DOMAIN cs = 1 .. Len(rs) + 1
  <2>1. Len(c) + Len(b) = Len(rs) + 1
    BY <1>1, <1>3, <1>5
  <2> QED
    BY <1>6, <2>1
<1>8. ASSUME NEW m \in 1 .. Len(rs) + 1
      PROVE  cs[m] = IF m <= k THEN rs[m] ELSE IF m = k + 1 THEN r ELSE rs[m - 1]
  <2>0. m \in 1 .. Len(c) + Len(b)
    BY <1>1, <1>3, <1>5
  <2>1. CASE m <= k
    <3>1. m \in 1 .. k /\ m <= Len(c)
      BY <1>1, <1>5, <2>1
    <3> QED
      BY <1>2, <1>5, <1>6, <2>0, <2>1, <3>1
  <2>2. CASE m = k + 1
    <3>1. m <= Len(c) /\ ~(m <= k)
      BY <1>1, <1>5, <2>2
    <3> QED
      BY <1>5, <1>6, <2>0, <2>2, <3>1
  <2>3. CASE ~(m <= k) /\ m # k + 1
    <3>1. /\ ~(m <= Len(c)) /\ m - Len(c) \in 1 .. Len(rs) - k
          /\ (m - Len(c)) + k = m - 1
      BY <1>1, <1>5, <2>3
    <3>2. cs[m] = b[m - Len(c)]
      BY <1>6, <2>0, <3>1
    <3>3. b[m - Len(c)] = rs[(m - Len(c)) + k]
      BY <1>3, <3>1
    <3> QED
      BY <2>3, <3>1, <3>2, <3>3
  <2> QED
    BY <2>1, <2>2, <2>3
<1> HIDE DEF cs
<1>9. Inserted(rs, cs, k, r)
  BY <1>1, <1>7, <1>8 DEF Inserted
<1> QED
  BY <1>4, <1>7, <1>9 DEF cs

\* What the calls keep.
LEMMA ReplacedKeeps ==
    ASSUME NEW rs, NEW cs, NEW i, NEW to, Replaced(rs, cs, i, to)
    PROVE  /\ HasId(cs, i)
           /\ \A j : HasId(cs, j) <=> HasId(rs, j)
           /\ UiLast(rs) => UiLast(cs)
           /\ OneOfEach(rs) => /\ OneOfEach(cs)
                               /\ \A n \in DOMAIN cs : cs[n].id = i => cs[n].to = to
           /\ \A n \in DOMAIN cs : cs[n].id # i => cs[n] = rs[n] /\ n \in DOMAIN rs
<1>1. \A n \in DOMAIN cs : cs[n].id = rs[n].id
  BY DEF Replaced
<1>2. HasId(cs, i) /\ \A j : HasId(cs, j) <=> HasId(rs, j)
  BY <1>1 DEF Replaced, HasId
<1>3. UiLast(rs) => UiLast(cs)
  BY <1>1 DEF Replaced, UiLast
<1>4. OneOfEach(rs) => /\ OneOfEach(cs)
                       /\ \A n \in DOMAIN cs : cs[n].id = i => cs[n].to = to
  BY <1>1 DEF Replaced, OneOfEach
<1>5. \A n \in DOMAIN cs : cs[n].id # i => cs[n] = rs[n] /\ n \in DOMAIN rs
  BY DEF Replaced
<1> QED
  BY <1>2, <1>3, <1>4, <1>5

LEMMA RemovedKeeps ==
    ASSUME NEW rs, NEW cs, NEW i, Removed(rs, cs, i)
    PROVE  /\ \A j : j # i => (HasId(cs, j) <=> HasId(rs, j))
           /\ HasId(cs, i) => HasId(rs, i)
           /\ UiLast(rs) => UiLast(cs)
           /\ OneOfEach(rs) => OneOfEach(cs) /\ ~HasId(cs, i)
           /\ \A n \in DOMAIN cs : \E m \in DOMAIN rs : cs[n] = rs[m]
<1>1. PICK n \in DOMAIN rs :
        rs[n].id = i /\ \A m \in DOMAIN cs : cs[m] = IF m < n THEN rs[m] ELSE rs[m + 1]
  BY DEF Removed
<1>2. Len(rs) \in Nat /\ DOMAIN rs = 1 .. Len(rs) /\ DOMAIN cs = 1 .. Len(rs) - 1
  BY DEF Removed
<1> DEFINE from(m) == IF m < n THEN m ELSE m + 1
<1>3. ASSUME NEW m \in DOMAIN cs
      PROVE  /\ from(m) \in DOMAIN rs /\ from(m) # n /\ cs[m] = rs[from(m)]
             /\ \A k \in DOMAIN cs : /\ from(m) = from(k) => m = k
                                     /\ from(k) < from(m) => k < m
  BY <1>1, <1>2
<1>4. ASSUME NEW m \in DOMAIN rs, m # n PROVE \E k \in DOMAIN cs : from(k) = m
  <2>1. CASE m < n
    BY <1>2, <2>1
  <2>2. CASE ~(m < n)
    <3>1. m - 1 \in DOMAIN cs /\ ~(m - 1 < n) /\ (m - 1) + 1 = m
      BY <1>2, <1>4, <2>2
    <3> QED
      BY <3>1
  <2> QED
    BY <2>1, <2>2
<1> HIDE DEF from
<1>5. \A j : HasId(cs, j) => HasId(rs, j)
  BY <1>3 DEF HasId
<1>6. ASSUME NEW j, j # i, HasId(rs, j) PROVE HasId(cs, j)
  <2>1. PICK m \in DOMAIN rs : rs[m].id = j
    BY <1>6 DEF HasId
  <2>2. PICK k \in DOMAIN cs : from(k) = m
    BY <1>1, <1>4, <1>6, <2>1
  <2> QED
    BY <1>3, <2>1, <2>2 DEF HasId
<1>7. UiLast(rs) => UiLast(cs)
  BY <1>3 DEF UiLast
<1>8. OneOfEach(rs) => OneOfEach(cs) /\ ~HasId(cs, i)
  BY <1>1, <1>3 DEF OneOfEach, HasId
<1> QED
  BY <1>3, <1>5, <1>6, <1>7, <1>8

LEMMA InsertedKeeps ==
    ASSUME NEW rs, NEW cs, NEW k, NEW r, Inserted(rs, cs, k, r)
    PROVE  /\ HasId(cs, r.id)
           /\ \A j : j # r.id => (HasId(cs, j) <=> HasId(rs, j))
           /\ OneOfEach(rs) /\ ~HasId(rs, r.id) => OneOfEach(cs)
           /\ \A n \in DOMAIN cs : cs[n] = r \/ \E m \in DOMAIN rs : cs[n] = rs[m]
           /\ UiLast(rs) /\ ~HasId(rs, "ui") /\ r.id # "ui" => UiLast(cs)
           /\ UiLast(rs) /\ r.id \notin Dash => UiLast(cs)
           /\ UiLast(rs) /\ r.id = "ui" /\ k = Len(rs) => UiLast(cs) \/ HasId(rs, "ui")
<1>1. /\ Len(rs) \in Nat /\ DOMAIN rs = 1 .. Len(rs) /\ DOMAIN cs = 1 .. Len(rs) + 1
      /\ k \in 0 .. Len(rs) /\ k + 1 \in DOMAIN cs
  BY DEF Inserted
<1> DEFINE from(m) == IF m <= k THEN m ELSE m - 1
           into(m) == IF m <= k THEN m ELSE m + 1
<1>2. ASSUME NEW m \in DOMAIN cs, m # k + 1
      PROVE  from(m) \in DOMAIN rs /\ cs[m] = rs[from(m)]
  BY <1>1, <1>2 DEF Inserted
<1>3. cs[k + 1] = r
  BY <1>1 DEF Inserted
<1>4. ASSUME NEW m \in DOMAIN cs, NEW n \in DOMAIN cs, m # k + 1, n # k + 1
      PROVE  /\ from(m) = from(n) => m = n
             /\ from(n) < from(m) => n < m
  BY <1>1, <1>4
<1>5. ASSUME NEW m \in DOMAIN rs PROVE into(m) \in DOMAIN cs /\ cs[into(m)] = rs[m]
  BY <1>1 DEF Inserted
<1>6. k = Len(rs) => \A m \in DOMAIN cs : m # k + 1 => m < k + 1
  BY <1>1
<1> HIDE DEF from, into
<1>7. HasId(cs, r.id)
  BY <1>1, <1>3 DEF HasId
<1>8. \A j : j # r.id => (HasId(cs, j) <=> HasId(rs, j))
  BY <1>2, <1>3, <1>5 DEF HasId
<1>9. OneOfEach(rs) /\ ~HasId(rs, r.id) => OneOfEach(cs)
  BY <1>2, <1>3, <1>4 DEF OneOfEach, HasId
<1>10. \A n \in DOMAIN cs : cs[n] = r \/ \E m \in DOMAIN rs : cs[n] = rs[m]
  BY <1>2, <1>3
<1>11. UiLast(rs) /\ ~HasId(rs, "ui") /\ r.id # "ui" => UiLast(cs)
  BY <1>2, <1>3 DEF UiLast, HasId
<1>12. UiLast(rs) /\ r.id \notin Dash => UiLast(cs)
  BY <1>2, <1>3, <1>4 DEF UiLast, Dash
<1>13. UiLast(rs) /\ r.id = "ui" /\ k = Len(rs) => UiLast(cs) \/ HasId(rs, "ui")
  BY <1>2, <1>3, <1>6 DEF UiLast, HasId
<1> QED
  BY <1>7, <1>8, <1>9, <1>10, <1>11, <1>12, <1>13

-----------------------------------------------------------------------------
(* CaddyRoutes: types, and how many routes there can be *)

TaskRow == [at : {"idle", "delete", "drop", "patch", "count", "put"},
            to : C!Upstreams, index : 0 .. C!MaxRoutes]
Tasks == [C!Ids -> TaskRow]
LeftRow == [jobs : 0 .. MaxJobs, starts : 0 .. MaxStarts, faults : 0 .. MaxFaults]
Boots == {<<>>, <<"ui">>, <<"docs", "ui">>, <<"api", "docs", "ui">>}

UnderWay(ts) == {i \in C!Ids : ts[i].at # "idle"}

\* The routes there are, and those that may still be put.
Load(rs, ts, b, l) == Len(rs) + Cardinality(UnderWay(ts)) + Len(b) + l.jobs + 3 * l.starts

RouteTypes ==
    /\ routes \in Seq(C!Route)
    /\ boot \in Boots
    /\ task \in Tasks
    /\ asked \in [Services -> C!Upstreams]
    /\ mishap \in BOOLEAN
    /\ left \in LeftRow
    /\ IsFiniteSet(UnderWay(task))
    /\ Load(routes, task, boot, left) <= MaxJobs + 3 * MaxStarts

LEMMA Dashboards ==
    ASSUME C!CaddyRoutesAssumption
    PROVE  /\ C!Dashboard = <<"api", "docs", "ui">> /\ C!Range(C!Dashboard) = Dash
           /\ C!Ids = Services \cup Dash /\ Services \cap Dash = {}
           /\ C!MaxRoutes = 3 + MaxJobs + MaxStarts * 3
           /\ MaxJobs \in Nat /\ MaxStarts \in Nat \ {0} /\ MaxFaults \in Nat
<1>1. C!Dashboard = <<"api", "docs", "ui">>
  BY DEF C!Dashboard
<1>2. C!Range(C!Dashboard) = Dash
  <2>1. /\ DOMAIN <<"api", "docs", "ui">> = 1 .. 3 /\ <<"api", "docs", "ui">>[1] = "api"
        /\ <<"api", "docs", "ui">>[2] = "docs" /\ <<"api", "docs", "ui">>[3] = "ui"
    OBVIOUS
  <2> DEFINE d == <<"api", "docs", "ui">>
  <2> HIDE DEF d
  <2>2. {d[x] : x \in 1 .. 3} = {d[1], d[2], d[3]}
    OBVIOUS
  <2>3. C!Range(C!Dashboard) = {d[x] : x \in 1 .. 3}
    BY <1>1, <2>1 DEF C!Range, d
  <2> QED
    BY <2>1, <2>2, <2>3 DEF Dash, d
<1>3. C!MaxRoutes = 3 + MaxJobs + MaxStarts * 3
  <2>1. Len(<<"api", "docs", "ui">>) = 3
    OBVIOUS
  <2> QED
    BY <1>1, <2>1 DEF C!MaxRoutes
<1> QED
  BY <1>1, <1>2, <1>3 DEF C!CaddyRoutesAssumption, C!Ids

LEMMA BootFacts ==
    ASSUME NEW b \in Boots
    PROVE  /\ b \in Seq(Dash) /\ Len(b) \in 0 .. 3
           /\ b # <<>> => /\ Head(b) \in Dash /\ Tail(b) \in Boots /\ Len(Tail(b)) = Len(b) - 1
           /\ Len(<<>>) = 0 /\ Len(<<"api", "docs", "ui">>) = 3
<1>1. CASE b = <<>>
  BY <1>1
<1>2. CASE b = <<"ui">>
  BY <1>2 DEF Boots, Dash
<1>3. CASE b = <<"docs", "ui">>
  BY <1>3 DEF Boots, Dash
<1>4. CASE b = <<"api", "docs", "ui">>
  BY <1>4 DEF Boots, Dash
<1> QED
  BY <1>1, <1>2, <1>3, <1>4 DEF Boots

LEMMA LeftFacts ==
    ASSUME C!CaddyRoutesAssumption, left \in LeftRow
    PROVE  /\ left.jobs \in Nat /\ left.starts \in Nat /\ left.faults \in Nat
           /\ C!Spend("jobs") => /\ left' \in LeftRow /\ left'.jobs = left.jobs - 1
                                 /\ left'.starts = left.starts
           /\ C!Spend("starts") => /\ left' \in LeftRow /\ left'.jobs = left.jobs
                                   /\ left'.starts = left.starts - 1 /\ left.starts > 0
           /\ C!Spend("faults") => /\ left' \in LeftRow /\ left'.jobs = left.jobs
                                   /\ left'.starts = left.starts
<1>1. /\ left.jobs \in 0 .. MaxJobs /\ left.starts \in 0 .. MaxStarts
      /\ left.faults \in 0 .. MaxFaults
  BY DEF LeftRow
<1>2. MaxJobs \in Nat /\ MaxStarts \in Nat /\ MaxFaults \in Nat
  BY Dashboards
<1>3. ASSUME NEW j \in 0 .. MaxJobs PROVE [left EXCEPT !["jobs"] = j] \in LeftRow
  BY DEF LeftRow
<1>4. ASSUME NEW j \in 0 .. MaxStarts PROVE [left EXCEPT !["starts"] = j] \in LeftRow
  BY DEF LeftRow
<1>5. ASSUME NEW j \in 0 .. MaxFaults PROVE [left EXCEPT !["faults"] = j] \in LeftRow
  BY DEF LeftRow
<1>6. ASSUME C!Spend("jobs")
      PROVE  left' \in LeftRow /\ left'.jobs = left.jobs - 1 /\ left'.starts = left.starts
  <2>1. left.jobs > 0 /\ left' = [left EXCEPT !["jobs"] = left.jobs - 1]
    BY <1>6 DEF C!Spend
  <2>2. left.jobs - 1 \in 0 .. MaxJobs
    BY <1>1, <1>2, <2>1
  <2> QED
    BY <1>3, <2>1, <2>2 DEF LeftRow
<1>7. ASSUME C!Spend("starts")
      PROVE  /\ left' \in LeftRow /\ left'.jobs = left.jobs
             /\ left'.starts = left.starts - 1 /\ left.starts > 0
  <2>1. left.starts > 0 /\ left' = [left EXCEPT !["starts"] = left.starts - 1]
    BY <1>7 DEF C!Spend
  <2>2. left.starts - 1 \in 0 .. MaxStarts
    BY <1>1, <1>2, <2>1
  <2> QED
    BY <1>4, <2>1, <2>2 DEF LeftRow
<1>8. ASSUME C!Spend("faults")
      PROVE  left' \in LeftRow /\ left'.jobs = left.jobs /\ left'.starts = left.starts
  <2>1. left.faults > 0 /\ left' = [left EXCEPT !["faults"] = left.faults - 1]
    BY <1>8 DEF C!Spend
  <2>2. left.faults - 1 \in 0 .. MaxFaults
    BY <1>1, <1>2, <2>1
  <2> QED
    BY <1>5, <2>1, <2>2 DEF LeftRow
<1> QED
  BY <1>1, <1>2, <1>6, <1>7, <1>8

\* Where a task is after a step of its own.
TaskIs(i, t) == /\ task' \in Tasks /\ task'[i] = t
                /\ \A j \in C!Ids : j # i => task'[j] = task[j]

LEMMA TaskGoes ==
    ASSUME task \in Tasks, NEW i \in C!Ids, NEW t \in TaskRow, task' = [task EXCEPT ![i] = t]
    PROVE  TaskIs(i, t)
  BY DEF TaskIs, Tasks

LEMMA TaskSteps ==
    ASSUME C!CaddyRoutesAssumption, task \in Tasks, NEW i \in C!Ids
    PROVE  /\ task[i] \in TaskRow
           /\ \A s \in {"patch", "count"} : C!Goto(i, s) => TaskIs(i, [task[i] EXCEPT !.at = s])
           /\ C!End(i) => TaskIs(i, C!Idle)
           /\ C!Idle \in TaskRow /\ C!Idle.at = "idle"
<1>1. task[i] \in TaskRow
  BY DEF Tasks
<1>2. C!Idle \in TaskRow /\ C!Idle.at = "idle"
  <2>1. 0 \in 0 .. C!MaxRoutes /\ "none" \in C!Upstreams
    BY Dashboards DEF C!Upstreams
  <2> QED
    BY <2>1 DEF C!Idle, TaskRow
<1>3. ASSUME NEW s \in {"patch", "count"}, C!Goto(i, s)
      PROVE  TaskIs(i, [task[i] EXCEPT !.at = s])
  <2>1. [task[i] EXCEPT !.at = s] \in TaskRow
    BY <1>1 DEF TaskRow
  <2>2. task' = [task EXCEPT ![i] = [task[i] EXCEPT !.at = s]]
    BY <1>3 DEF C!Goto
  <2> QED
    BY <2>1, <2>2, TaskGoes
<1>4. ASSUME C!End(i) PROVE TaskIs(i, C!Idle)
  BY <1>2, <1>4, TaskGoes DEF C!End
<1> QED
  BY <1>1, <1>2, <1>3, <1>4

\* A task that goes to put, and one that begins.
LEMMA TaskCounts ==
    ASSUME task \in Tasks, NEW i \in C!Ids, NEW n \in 0 .. C!MaxRoutes,
           task' = [task EXCEPT ![i] = C!ToPut(i, n)]
    PROVE  TaskIs(i, [at |-> "put", to |-> task[i].to, index |-> n])
<1>1. [at |-> "put", to |-> task[i].to, index |-> n] \in TaskRow
  BY DEF Tasks, TaskRow
<1>2. task' = [task EXCEPT ![i] = [at |-> "put", to |-> task[i].to, index |-> n]]
  BY DEF C!ToPut
<1> QED
  BY <1>1, <1>2, TaskGoes

LEMMA TaskBegins ==
    ASSUME C!CaddyRoutesAssumption, task \in Tasks, NEW i \in C!Ids,
           NEW s \in {"patch", "drop", "delete"}, NEW to \in C!Upstreams,
           task' = [task EXCEPT ![i] = [at |-> s, to |-> to, index |-> 0]]
    PROVE  TaskIs(i, [at |-> s, to |-> to, index |-> 0])
<1>1. 0 \in 0 .. C!MaxRoutes
  BY Dashboards
<1>2. [at |-> s, to |-> to, index |-> 0] \in TaskRow
  BY <1>1 DEF TaskRow
<1> QED
  BY <1>2, TaskGoes

\* How many tasks there are after it.
LEMMA WorkingGoes ==
    ASSUME IsFiniteSet(UnderWay(task)), NEW i \in C!Ids, NEW t, TaskIs(i, t)
    PROVE  /\ IsFiniteSet(UnderWay(task')) /\ Cardinality(UnderWay(task)) \in Nat
           /\ Cardinality(UnderWay(task')) \in Nat
           /\ Cardinality(UnderWay(task')) <= Cardinality(UnderWay(task)) + 1
           /\ task[i].at # "idle" =>
                Cardinality(UnderWay(task')) <= Cardinality(UnderWay(task))
           /\ task[i].at # "idle" /\ t.at = "idle" =>
                Cardinality(UnderWay(task')) = Cardinality(UnderWay(task)) - 1
<1> DEFINE W == UnderWay(task)
           V == UnderWay(task')
<1>2. /\ V \subseteq W \cup {i} /\ (task[i].at # "idle" => i \in W)
      /\ (task[i].at # "idle" /\ t.at = "idle" => V = W \ {i})
  BY DEF UnderWay, TaskIs
<1> HIDE DEF W, V
<1>3. IsFiniteSet(W \cup {i}) /\ Cardinality(W) \in Nat
      /\ Cardinality(W \cup {i}) <= Cardinality(W) + 1
      /\ (i \in W => W \cup {i} = W)
      /\ (i \in W => Cardinality(W \ {i}) = Cardinality(W) - 1)
  <2>1. IsFiniteSet(W)
    BY DEF W
  <2>2. IsFiniteSet(W \cup {i}) /\ Cardinality(W) \in Nat
    BY <2>1, FS_AddElement, FS_CardinalityType
  <2>3. Cardinality(W \cup {i}) = IF i \in W THEN Cardinality(W) ELSE Cardinality(W) + 1
    BY <2>1, FS_AddElement
  <2>4. i \in W => Cardinality(W \ {i}) = Cardinality(W) - 1
    BY <2>1, FS_RemoveElement
  <2> QED
    BY <2>2, <2>3, <2>4
<1>4. IsFiniteSet(V) /\ Cardinality(V) \in Nat /\ Cardinality(V) <= Cardinality(W \cup {i})
  BY <1>2, <1>3, FS_Subset, FS_CardinalityType
<1>5. Cardinality(W \cup {i}) \in Nat
  BY <1>3, FS_CardinalityType
<1>6. task[i].at # "idle" => Cardinality(V) <= Cardinality(W)
  BY <1>2, <1>3, <1>4
<1>7. task[i].at # "idle" /\ t.at = "idle" => Cardinality(V) = Cardinality(W) - 1
  BY <1>2, <1>3
<1> QED
  BY <1>3, <1>4, <1>5, <1>6, <1>7 DEF W, V

-----------------------------------------------------------------------------
(* CaddyRoutes: what the steps do *)

\* A call of the admin API that goes on with the task of i: the routes, the task and the rest.
CallStep(i) ==
    /\ task[i].at # "idle" /\ routes' \in Seq(C!Route)
    /\ left' \in LeftRow /\ left'.jobs = left.jobs /\ left'.starts = left.starts
    /\ mishap' \in BOOLEAN /\ (mishap => mishap')

\* The route that is there is replaced.
Replaces(i) ==
    /\ task[i].at = "patch"
    /\ Replaced(routes, routes', i, task[i].to) /\ Len(routes') = Len(routes)
    /\ TaskIs(i, C!Idle) /\ asked' = C!Succeeded(i) /\ boot' = boot

\* It is not there, or that is what the plane makes of an error.
Misses(i) ==
    /\ task[i].at = "patch"
    /\ TaskIs(i, [task[i] EXCEPT !.at = "count"])
    /\ ~mishap' => ~HasId(routes, i)
    /\ UNCHANGED <<routes, asked, boot>>

Counts(i) ==
    /\ task[i].at = "count"
    /\ \E n \in 0 .. C!MaxRoutes :
         /\ TaskIs(i, [at |-> "put", to |-> task[i].to, index |-> n])
         /\ ~mishap' => n = Len(routes)
    /\ UNCHANGED <<routes, asked, boot>>

Puts(i) ==
    /\ task[i].at = "put"
    /\ Inserted(routes, routes', task[i].index, [id |-> i, to |-> task[i].to])
    /\ Len(routes') = Len(routes) + 1
    /\ TaskIs(i, C!Idle) /\ asked' = C!Succeeded(i) /\ boot' = boot

Refuses(i) ==
    /\ task[i].at = "put" /\ TaskIs(i, C!Idle)
    /\ routes' = routes
    /\ boot' = IF i \in Services THEN boot ELSE <<>>
    /\ asked' = IF i \in Services THEN [asked EXCEPT ![i] = "none"] ELSE asked

Removes(i) ==
    /\ task[i].at \in {"delete", "drop"}
    /\ \/ Removed(routes, routes', i) /\ Len(routes') = Len(routes) - 1
       \/ routes' = routes
    /\ TaskIs(i, C!Idle) \/ TaskIs(i, [task[i] EXCEPT !.at = "patch"])
    /\ UNCHANGED <<asked, boot>>

LEMMA RouteCallDoes ==
    ASSUME C!CaddyRoutesAssumption, RouteTypes, NEW i \in C!Ids,
           \/ C!Patch(i) \/ C!PatchFails(i) \/ C!RouteCount(i) \/ C!CountFails(i)
           \/ C!Put(i) \/ C!PutRefused(i) \/ C!RemoveRoute(i)
    PROVE  /\ CallStep(i)
           /\ \/ Replaces(i) \/ Misses(i) \/ Counts(i) \/ Puts(i) \/ Refuses(i) \/ Removes(i)
<1>t. /\ routes \in Seq(C!Route) /\ task \in Tasks /\ mishap \in BOOLEAN /\ left \in LeftRow
      /\ task[i] \in TaskRow
  BY DEF RouteTypes, Tasks
<1>s. C!Spend("faults") =>
        left' \in LeftRow /\ left'.jobs = left.jobs /\ left'.starts = left.starts
  BY <1>t, LeftFacts
<1>k. C!Known(i) <=> HasId(routes, i)
  BY DEF C!Known, HasId
<1>n. 0 \in 0 .. C!MaxRoutes /\ Len(routes) \in 0 .. C!MaxRoutes
  <2>1. /\ Cardinality(UnderWay(task)) \in Nat
        /\ Load(routes, task, boot, left) <= MaxJobs + 3 * MaxStarts
    BY FS_CardinalityType DEF RouteTypes
  <2>2. left.jobs \in Nat /\ left.starts \in Nat
    BY <1>t, LeftFacts
  <2>3. Len(boot) \in 0 .. 3 /\ Len(routes) \in Nat
    BY <1>t, BootFacts DEF RouteTypes
  <2>4. C!MaxRoutes = 3 + MaxJobs + MaxStarts * 3 /\ MaxJobs \in Nat /\ MaxStarts \in Nat
    BY Dashboards
  <2>5. Len(routes) <= C!MaxRoutes
    <3> DEFINE w == Cardinality(UnderWay(task))
               n == Len(routes)
               b == Len(boot)
               j == left.jobs
               k == left.starts
    <3>1. n + w + b + j + 3 * k <= MaxJobs + 3 * MaxStarts
      BY <2>1 DEF Load
    <3>2. w \in Nat /\ n \in Nat /\ b \in Nat /\ j \in Nat /\ k \in Nat
      BY <2>1, <2>2, <2>3
    <3> HIDE DEF w, n, b, j, k
    <3>3. n <= C!MaxRoutes
      BY <2>4, <3>1, <3>2
    <3> QED
      BY <3>3 DEF n
  <2> QED
    BY <2>3, <2>4, <2>5
<1>0. [id |-> i, to |-> task[i].to] \in C!Route
  BY <1>t DEF C!Route, TaskRow
<1>1. CASE C!Patch(i)
  <2>0. task[i].at = "patch" /\ UNCHANGED <<boot, mishap, left>>
    BY <1>1 DEF C!Patch
  <2>1. CASE C!End(i) /\ asked' = C!Succeeded(i)
             /\ \E n \in DOMAIN routes :
                  routes[n].id = i /\ routes' = C!ReplaceRoute(n, task[i].to)
    <3>1. PICK n \in DOMAIN routes :
            routes[n].id = i /\ routes' = C!ReplaceRoute(n, task[i].to)
      BY <2>1
    <3> DEFINE r == [id |-> i, to |-> task[i].to]
    <3>2. routes[n] \in C!Route
      BY <1>t, ElementTypes
    <3>3. [routes[n] EXCEPT !.to = task[i].to] = r
      BY <3>1, <3>2 DEF C!Route
    <3>4. routes' = [routes EXCEPT ![n] = r]
      BY <3>1, <3>3 DEF C!ReplaceRoute
    <3>5. r.id = i /\ r.to = task[i].to /\ r \in C!Route
      BY <1>0
    <3> HIDE DEF r
    <3>6. /\ routes' \in Seq(C!Route) /\ Len(routes') = Len(routes)
          /\ DOMAIN routes' = DOMAIN routes /\ routes'[n] = r
          /\ \A m \in DOMAIN routes : m # n => routes'[m] = routes[m]
      BY <1>t, <3>4, <3>5, RouteReplaced
    <3>7. Replaced(routes, routes', i, task[i].to)
      BY <3>1, <3>5, <3>6 DEF Replaced
    <3>8. TaskIs(i, C!Idle)
      BY <1>t, <2>1, TaskSteps
    <3> QED
      BY <1>t, <2>0, <2>1, <3>6, <3>7, <3>8 DEF Replaces, CallStep
  <2>2. CASE ~C!Known(i) /\ C!Goto(i, "count") /\ UNCHANGED <<routes, asked>>
    <3>1. TaskIs(i, [task[i] EXCEPT !.at = "count"])
      BY <1>t, <2>2, TaskSteps
    <3> QED
      BY <1>t, <1>k, <2>0, <2>2, <3>1 DEF Misses, CallStep
  <2> QED
    BY <1>1, <2>1, <2>2 DEF C!Patch
<1>2. CASE C!PatchFails(i)
  <2>1. /\ task[i].at = "patch" /\ C!Spend("faults") /\ C!Goto(i, "count")
        /\ mishap' = (mishap \/ C!Known(i)) /\ UNCHANGED <<routes, boot, asked>>
    BY <1>2 DEF C!PatchFails
  <2>2. TaskIs(i, [task[i] EXCEPT !.at = "count"])
    BY <1>t, <2>1, TaskSteps
  <2>3. mishap' \in BOOLEAN /\ (mishap => mishap') /\ (~mishap' => ~HasId(routes, i))
    BY <1>k, <2>1, Zenon
  <2> QED
    BY <1>t, <1>s, <2>1, <2>2, <2>3 DEF Misses, CallStep
<1>3. CASE C!RouteCount(i)
  <2>1. /\ task[i].at = "count" /\ UNCHANGED <<routes, boot, asked, mishap, left>>
        /\ task' = [task EXCEPT ![i] = C!ToPut(i, Len(routes))]
    BY <1>3 DEF C!RouteCount
  <2>2. TaskIs(i, [at |-> "put", to |-> task[i].to, index |-> Len(routes)])
    BY <1>t, <1>n, <2>1, TaskCounts
  <2> QED
    BY <1>t, <1>n, <2>1, <2>2 DEF Counts, CallStep
<1>4. CASE C!CountFails(i)
  <2>1. /\ task[i].at = "count" /\ C!Spend("faults") /\ mishap' = TRUE
        /\ UNCHANGED <<routes, boot, asked>>
        /\ task' = [task EXCEPT ![i] = C!ToPut(i, 0)]
    BY <1>4 DEF C!CountFails
  <2>2. TaskIs(i, [at |-> "put", to |-> task[i].to, index |-> 0])
    BY <1>t, <1>n, <2>1, TaskCounts
  <2> QED
    BY <1>t, <1>n, <1>s, <2>1, <2>2 DEF Counts, CallStep
<1>5. CASE C!Put(i)
  <2> DEFINE r == [id |-> i, to |-> task[i].to]
  <2>1. /\ task[i].at = "put" /\ task[i].index <= Len(routes)
        /\ routes' = C!WithRoute(routes, task[i].index + 1, r)
        /\ C!End(i) /\ asked' = C!Succeeded(i) /\ UNCHANGED <<boot, mishap, left>>
    BY <1>5 DEF C!Put
  <2>2. task[i].index \in 0 .. Len(routes)
    BY <1>t, <1>n, <2>1 DEF TaskRow
  <2>3. r \in C!Route
    BY <1>0
  <2> HIDE DEF r
  <2>4. /\ routes' \in Seq(C!Route) /\ Len(routes') = Len(routes) + 1
        /\ Inserted(routes, routes', task[i].index, r)
    BY <1>t, <2>1, <2>2, <2>3, RouteInserted
  <2>5. TaskIs(i, C!Idle)
    BY <1>t, <2>1, TaskSteps
  <2> QED
    BY <1>t, <2>1, <2>4, <2>5 DEF Puts, CallStep, r
<1>6. CASE C!PutRefused(i)
  <2>1. /\ task[i].at = "put" /\ C!End(i) /\ UNCHANGED <<routes, mishap>>
        /\ (UNCHANGED left \/ C!Spend("faults"))
        /\ boot' = IF i \in Services THEN boot ELSE <<>>
        /\ asked' = IF i \in Services THEN [asked EXCEPT ![i] = "none"] ELSE asked
    BY <1>6 DEF C!PutRefused
  <2>2. TaskIs(i, C!Idle)
    BY <1>t, <2>1, TaskSteps
  <2> QED
    BY <1>t, <1>s, <2>1, <2>2 DEF Refuses, CallStep
<1>7. CASE C!RemoveRoute(i)
  <2>1. /\ task[i].at \in {"delete", "drop"} /\ UNCHANGED <<boot, asked, mishap>>
        /\ (UNCHANGED left \/ C!Spend("faults"))
        /\ C!Goto(i, "patch") \/ C!End(i)
    BY <1>7 DEF C!RemoveRoute
  <2>2. TaskIs(i, C!Idle) \/ TaskIs(i, [task[i] EXCEPT !.at = "patch"])
    BY <1>t, <2>1, TaskSteps
  <2>3. CASE \E n \in DOMAIN routes : routes[n].id = i /\ routes' = C!WithoutRoute(routes, n)
    <3>1. PICK n \in DOMAIN routes : routes[n].id = i /\ routes' = C!WithoutRoute(routes, n)
      BY <2>3
    <3>3. /\ routes' \in Seq(C!Route) /\ Len(routes') = Len(routes) - 1
          /\ Len(routes) \in Nat \ {0} /\ DOMAIN routes = 1 .. Len(routes)
          /\ DOMAIN routes' = 1 .. Len(routes) - 1
          /\ \A m \in DOMAIN routes' :
               routes'[m] = IF m < n THEN routes[m] ELSE routes[m + 1]
      BY <1>t, <3>1, RouteRemoved
    <3>4. Removed(routes, routes', i)
      BY <3>1, <3>3 DEF Removed
    <3> QED
      BY <1>t, <1>s, <2>1, <2>2, <3>3, <3>4 DEF Removes, CallStep
  <2>4. CASE UNCHANGED routes
    BY <1>t, <1>s, <2>1, <2>2, <2>4 DEF Removes, CallStep
  <2> QED
    BY <1>7, <2>3, <2>4 DEF C!RemoveRoute
<1> QED
  BY <1>1, <1>2, <1>3, <1>4, <1>5, <1>6, <1>7

\* A task that begins on a service, or on a route of the dashboard.
Begins(s) ==
    /\ boot = <<>> /\ (\A i \in Dash : task[i].at = "idle") /\ task[s].at = "idle"
    /\ left' \in LeftRow /\ left'.jobs = left.jobs - 1 /\ left'.starts = left.starts
    /\ \E at \in {"patch", "drop", "delete"}, to \in C!Upstreams :
         TaskIs(s, [at |-> at, to |-> to, index |-> 0])
    /\ asked' = [asked EXCEPT ![s] = "none"]
    /\ UNCHANGED <<routes, boot, mishap>>

Registers ==
    /\ boot # <<>> /\ (\A i \in Dash : task[i].at = "idle")
    /\ boot' = Tail(boot)
    /\ TaskIs(Head(boot), [task[Head(boot)] EXCEPT !.at = "patch"])
    /\ UNCHANGED <<routes, asked, mishap, left>>

Restarts ==
    /\ routes' \in {routes, <<>>} /\ boot' = <<"api", "docs", "ui">>
    /\ task' = [i \in C!Ids |-> C!Idle]
    /\ asked' = [s \in Services |-> "none"]
    /\ left' \in LeftRow /\ left'.jobs = left.jobs /\ left'.starts = left.starts - 1
    /\ mishap' = mishap

LEMMA RouteStepDoes ==
    ASSUME C!CaddyRoutesAssumption, RouteTypes, C!Next
    PROVE  \/ Restarts \/ Registers
           \/ \E s \in Services : Begins(s)
           \/ \E i \in C!Ids :
                /\ CallStep(i)
                /\ \/ Replaces(i) \/ Misses(i) \/ Counts(i) \/ Puts(i) \/ Refuses(i)
                   \/ Removes(i)
<1>t. task \in Tasks /\ left \in LeftRow /\ boot \in Boots
  BY DEF RouteTypes
<1>d. /\ C!Dashboard = <<"api", "docs", "ui">> /\ C!Range(C!Dashboard) = Dash
      /\ C!Ids = Services \cup Dash
  BY Dashboards
<1>r. C!Registering <=> \E i \in Dash : task[i].at # "idle"
  BY <1>d DEF C!Registering
<1>1. CASE C!Bootstrap
  <2>1. /\ boot' = C!Dashboard /\ task' = [i \in C!Ids |-> C!Idle]
        /\ asked' = [s \in Services |-> "none"] /\ mishap' = mishap
    BY <1>1 DEF C!Bootstrap
  <2>2. CASE C!Spend("starts") /\ routes' = <<>>
    <3>1. left' \in LeftRow /\ left'.jobs = left.jobs /\ left'.starts = left.starts - 1
      BY <1>t, <2>2, LeftFacts
    <3> QED
      BY <1>d, <2>1, <2>2, <3>1 DEF Restarts
  <2>3. CASE /\ left.starts > 0 /\ left.faults > 0 /\ UNCHANGED routes
             /\ left' = [left EXCEPT !.starts = left.starts - 1, !.faults = left.faults - 1]
    <3>1. /\ left.starts - 1 \in 0 .. MaxStarts /\ left.faults - 1 \in 0 .. MaxFaults
      BY <1>t, <2>3, LeftFacts, Dashboards DEF LeftRow
    <3> DEFINE a == left.starts - 1
               b == left.faults - 1
    <3>2. left' = [left EXCEPT !.starts = a, !.faults = b]
      BY <2>3
    <3>3. a \in 0 .. MaxStarts /\ b \in 0 .. MaxFaults
      BY <3>1
    <3>4. a = left.starts - 1
      OBVIOUS
    <3> HIDE DEF a, b
    <3>5. left' \in LeftRow /\ left'.jobs = left.jobs /\ left'.starts = a
      BY <1>t, <3>2, <3>3 DEF LeftRow
    <3> QED
      BY <1>d, <2>1, <2>3, <3>4, <3>5 DEF Restarts
  <2> QED
    BY <1>1, <2>2, <2>3 DEF C!Bootstrap
<1>2. CASE C!RegisterDashboard
  <2>1. /\ boot # <<>> /\ ~C!Registering /\ boot' = Tail(boot)
        /\ task' = [task EXCEPT ![Head(boot)].at = "patch"]
        /\ UNCHANGED <<routes, asked, mishap, left>>
    BY <1>2 DEF C!RegisterDashboard
  <2>2. Head(boot) \in C!Ids
    BY <1>t, <1>d, <2>1, BootFacts
  <2>3. C!Goto(Head(boot), "patch")
    BY <2>1 DEF C!Goto
  <2>4. TaskIs(Head(boot), [task[Head(boot)] EXCEPT !.at = "patch"])
    BY <1>t, <2>2, <2>3, TaskSteps
  <2> QED
    BY <1>r, <2>1, <2>4 DEF Registers
<1>3. ASSUME NEW s \in Services, C!AddRoute(s) \/ C!UpdateRoute(s) \/ C!DeleteRoute(s)
      PROVE  Begins(s)
  <2>1. PICK at \in {"patch", "drop", "delete"}, to \in C!Upstreams : C!AdapterCall(s, at, to)
    BY <1>3 DEF C!AddRoute, C!UpdateRoute, C!DeleteRoute, C!Upstreams
  <2>2. /\ C!Started /\ task[s] = C!Idle /\ C!Spend("jobs")
        /\ task' = [task EXCEPT ![s] = [at |-> at, to |-> to, index |-> 0]]
        /\ asked' = [asked EXCEPT ![s] = "none"]
        /\ UNCHANGED <<routes, boot, mishap>>
    BY <2>1 DEF C!AdapterCall
  <2>3. boot = <<>> /\ \A i \in Dash : task[i].at = "idle"
    BY <1>r, <2>2 DEF C!Started
  <2>4. left' \in LeftRow /\ left'.jobs = left.jobs - 1 /\ left'.starts = left.starts
    BY <1>t, <2>2, LeftFacts
  <2>5. TaskIs(s, [at |-> at, to |-> to, index |-> 0])
    BY <1>t, <1>d, <2>2, TaskBegins
  <2>6. task[s].at = "idle"
    BY <2>2 DEF C!Idle
  <2> QED
    BY <2>2, <2>3, <2>4, <2>5, <2>6 DEF Begins
<1>4. ASSUME NEW i \in C!Ids,
             \/ C!Patch(i) \/ C!PatchFails(i) \/ C!RouteCount(i) \/ C!CountFails(i)
             \/ C!Put(i) \/ C!PutRefused(i) \/ C!RemoveRoute(i)
      PROVE  /\ CallStep(i)
             /\ \/ Replaces(i) \/ Misses(i) \/ Counts(i) \/ Puts(i) \/ Refuses(i) \/ Removes(i)
  BY <1>4, RouteCallDoes
<1> QED
  BY <1>1, <1>2, <1>3, <1>4 DEF C!Next

LEMMA RouteTypesInit == ASSUME C!CaddyRoutesAssumption, C!Init PROVE RouteTypes
<1>1. routes = <<>> /\ boot = <<>> /\ mishap = FALSE
  BY DEF C!Init
<1>2. task = [i \in C!Ids |-> C!Idle] /\ asked = [s \in Services |-> "none"]
  BY DEF C!Init
<1>3. left = [jobs |-> MaxJobs, starts |-> MaxStarts, faults |-> MaxFaults]
  BY DEF C!Init
<1>4. /\ routes \in Seq(C!Route) /\ boot \in Boots /\ Len(routes) = 0 /\ Len(boot) = 0
      /\ mishap \in BOOLEAN
  <2>1. <<>> \in Boots
    BY DEF Boots
  <2>2. <<>> \in Seq(C!Route) /\ Len(<<>>) = 0
    OBVIOUS
  <2> QED
    BY <1>1, <2>1, <2>2
<1>5. task \in Tasks /\ \A i \in C!Ids : task[i].at = "idle"
  <2>1. C!Idle \in TaskRow /\ C!Idle.at = "idle"
    <3>1. 0 \in 0 .. C!MaxRoutes /\ "none" \in C!Upstreams
      BY Dashboards DEF C!Upstreams
    <3> QED
      BY <3>1 DEF C!Idle, TaskRow
  <2> QED
    BY <1>2, <2>1 DEF Tasks
<1>6. asked \in [Services -> C!Upstreams]
  BY <1>2 DEF C!Upstreams
<1>7. MaxJobs \in Nat /\ MaxStarts \in Nat /\ MaxFaults \in Nat
  BY Dashboards
<1>8. left \in LeftRow /\ left.jobs = MaxJobs /\ left.starts = MaxStarts
  BY <1>3, <1>7 DEF LeftRow
<1>9. IsFiniteSet(UnderWay(task)) /\ Cardinality(UnderWay(task)) = 0
  <2>1. UnderWay(task) = {}
    BY <1>5 DEF UnderWay
  <2> QED
    BY <2>1, FS_EmptySet
<1> QED
  BY <1>4, <1>5, <1>6, <1>7, <1>8, <1>9 DEF RouteTypes, Load

\* The load does not grow: n routes, w tasks, b boots, j jobs and k starts.
NoMore(n, w, b, j, k, n2, w2, b2, j2, k2) ==
    \/ n2 <= n /\ w2 = 0 /\ b2 = 3 /\ j2 = j /\ k2 = k - 1
    \/ n2 = n /\ w2 <= w + 1 /\ b2 = b - 1 /\ j2 = j /\ k2 = k
    \/ n2 = n /\ w2 <= w + 1 /\ b2 = b /\ j2 = j - 1 /\ k2 = k
    \/ n2 <= n /\ w2 <= w /\ b2 <= b /\ j2 = j /\ k2 = k
    \/ n2 = n + 1 /\ w2 = w - 1 /\ b2 <= b /\ j2 = j /\ k2 = k

LEMMA SumStays ==
    ASSUME NEW n \in Nat, NEW w \in Nat, NEW b \in Nat, NEW j \in Nat, NEW k \in Nat,
           NEW n2 \in Nat, NEW w2 \in Nat, NEW b2 \in Nat, NEW j2 \in Nat, NEW k2 \in Nat,
           NEW max \in Nat, n + w + b + j + 3 * k <= max,
           NoMore(n, w, b, j, k, n2, w2, b2, j2, k2)
    PROVE  n2 + w2 + b2 + j2 + 3 * k2 <= max
  BY DEF NoMore

LEMMA LoadStays ==
    ASSUME C!CaddyRoutesAssumption, RouteTypes,
           boot' \in Boots, left' \in LeftRow, IsFiniteSet(UnderWay(task')),
           routes' \in Seq(C!Route),
           NoMore(Len(routes), Cardinality(UnderWay(task)), Len(boot), left.jobs, left.starts,
                  Len(routes'), Cardinality(UnderWay(task')), Len(boot'), left'.jobs,
                  left'.starts)
    PROVE  Load(routes', task', boot', left') <= MaxJobs + 3 * MaxStarts
<1>1. Cardinality(UnderWay(task)) \in Nat /\ Cardinality(UnderWay(task')) \in Nat
  BY FS_CardinalityType DEF RouteTypes
<1>2. left.jobs \in Nat /\ left.starts \in Nat
  BY LeftFacts DEF RouteTypes
<1>3. Len(routes) \in Nat /\ Len(routes') \in Nat
  BY DEF RouteTypes
<1>4. Len(boot) \in Nat /\ Len(boot') \in Nat
  BY BootFacts DEF RouteTypes
<1>5. left'.jobs \in Nat /\ left'.starts \in Nat
  BY Dashboards DEF LeftRow
<1>6. Len(routes) + Cardinality(UnderWay(task)) + Len(boot) + left.jobs + 3 * left.starts
        <= MaxJobs + 3 * MaxStarts
  BY DEF RouteTypes, Load
<1>7. MaxJobs + 3 * MaxStarts \in Nat
  BY Dashboards
<1>8. Len(routes') + Cardinality(UnderWay(task')) + Len(boot') + left'.jobs + 3 * left'.starts
        <= MaxJobs + 3 * MaxStarts
  BY <1>1, <1>2, <1>3, <1>4, <1>5, <1>6, <1>7, SumStays, Zenon
<1> QED
  BY <1>8 DEF Load

LEMMA RouteTypesStay ==
    ASSUME C!CaddyRoutesAssumption, RouteTypes, [C!Next]_(C!vars) PROVE RouteTypes'
<1>t. /\ routes \in Seq(C!Route) /\ boot \in Boots /\ task \in Tasks
      /\ asked \in [Services -> C!Upstreams] /\ mishap \in BOOLEAN /\ left \in LeftRow
  BY DEF RouteTypes
<1>w. IsFiniteSet(UnderWay(task)) /\ Cardinality(UnderWay(task)) \in Nat
  BY FS_CardinalityType DEF RouteTypes
<1>n. /\ Len(routes) \in Nat /\ Len(boot) \in Nat
      /\ left.jobs \in Nat /\ left.starts \in Nat
  BY <1>t, BootFacts, LeftFacts
<1>i. Services \subseteq C!Ids /\ Dash \subseteq C!Ids
  BY Dashboards
<1>0. CASE UNCHANGED C!vars
  BY <1>0 DEF C!vars, RouteTypes, UnderWay, Load
<1>1. CASE Restarts
  <2>1. /\ routes' \in Seq(C!Route) /\ Len(routes') <= Len(routes) /\ Len(routes') \in Nat
        /\ boot' \in Boots /\ Len(boot') = 3 /\ mishap' \in BOOLEAN
    <3>1. <<>> \in Seq(C!Route) /\ Len(<<>>) = 0
      OBVIOUS
    <3>2. routes' = routes \/ routes' = <<>>
      BY <1>1 DEF Restarts
    <3>3. boot' = <<"api", "docs", "ui">> /\ mishap' = mishap
      BY <1>1 DEF Restarts
    <3>4. routes' \in Seq(C!Route) /\ Len(routes') <= Len(routes) /\ Len(routes') \in Nat
      <4>1. CASE routes' = routes
        BY <1>t, <4>1
      <4>2. CASE routes' = <<>>
        BY <1>n, <3>1, <4>2
      <4> QED
        BY <3>2, <4>1, <4>2
    <3>5. boot' \in Boots /\ Len(boot') = 3
      BY <3>3 DEF Boots
    <3> QED
      BY <1>t, <3>3, <3>4, <3>5
  <2>2. task' \in Tasks /\ \A i \in C!Ids : task'[i].at = "idle"
    <3>1. C!Idle \in TaskRow /\ C!Idle.at = "idle"
      <4>1. 0 \in 0 .. C!MaxRoutes /\ "none" \in C!Upstreams
        BY Dashboards DEF C!Upstreams
      <4> QED
        BY <4>1 DEF C!Idle, TaskRow
    <3>2. task' = [i \in C!Ids |-> C!Idle]
      BY <1>1 DEF Restarts
    <3> QED
      BY <3>1, <3>2 DEF Tasks
  <2>3. asked' \in [Services -> C!Upstreams]
    BY <1>1 DEF Restarts, C!Upstreams
  <2>4. left' \in LeftRow /\ left'.jobs = left.jobs /\ left'.starts = left.starts - 1
    BY <1>1 DEF Restarts
  <2>5. IsFiniteSet(UnderWay(task')) /\ Cardinality(UnderWay(task')) = 0
    <3>1. UnderWay(task') = {}
      BY <2>2 DEF UnderWay
    <3> QED
      BY <3>1, FS_EmptySet
  <2>6. Load(routes', task', boot', left') <= MaxJobs + 3 * MaxStarts
    BY <1>n, <2>1, <2>4, <2>5, LoadStays DEF NoMore
  <2> QED
    BY <2>1, <2>2, <2>3, <2>4, <2>5, <2>6 DEF RouteTypes
<1>2. CASE Registers
  <2> DEFINE i == Head(boot)
             t == [task[i] EXCEPT !.at = "patch"]
  <2>1. /\ i \in C!Ids /\ TaskIs(i, t) /\ boot' = Tail(boot) /\ boot # <<>>
        /\ UNCHANGED <<routes, asked, mishap, left>>
    BY <1>t, <1>i, <1>2, BootFacts DEF Registers
  <2> HIDE DEF i, t
  <2>2. boot' \in Boots /\ Len(boot') = Len(boot) - 1
    BY <1>t, <2>1, BootFacts
  <2>3. /\ IsFiniteSet(UnderWay(task')) /\ Cardinality(UnderWay(task')) \in Nat
        /\ Cardinality(UnderWay(task')) <= Cardinality(UnderWay(task)) + 1
    BY <1>w, <2>1, WorkingGoes
  <2>4. Load(routes', task', boot', left') <= MaxJobs + 3 * MaxStarts
    <3>1. /\ Len(routes') = Len(routes) /\ left'.jobs = left.jobs /\ left'.starts = left.starts
          /\ Len(boot') \in Nat
      BY <1>n, <2>1, <2>2
    <3>2. NoMore(Len(routes), Cardinality(UnderWay(task)), Len(boot), left.jobs, left.starts,
                 Len(routes'), Cardinality(UnderWay(task')), Len(boot'), left'.jobs,
                 left'.starts)
      BY <1>w, <1>n, <2>2, <2>3, <3>1 DEF NoMore
    <3> QED
      BY <1>t, <2>1, <2>2, <2>3, <3>2, LoadStays
  <2>5. task' \in Tasks
    BY <2>1 DEF TaskIs
  <2> QED
    BY <1>t, <2>1, <2>2, <2>3, <2>4, <2>5 DEF RouteTypes
<1>3. ASSUME NEW s \in Services, Begins(s) PROVE RouteTypes'
  <2>1. PICK at \in {"patch", "drop", "delete"}, to \in C!Upstreams :
          TaskIs(s, [at |-> at, to |-> to, index |-> 0])
    BY <1>3 DEF Begins
  <2>2. /\ left' \in LeftRow /\ left'.jobs = left.jobs - 1 /\ left'.starts = left.starts
        /\ asked' = [asked EXCEPT ![s] = "none"] /\ UNCHANGED <<routes, boot, mishap>>
    BY <1>3 DEF Begins
  <2>3. /\ IsFiniteSet(UnderWay(task')) /\ Cardinality(UnderWay(task')) \in Nat
        /\ Cardinality(UnderWay(task')) <= Cardinality(UnderWay(task)) + 1
    BY <1>w, <1>i, <2>1, WorkingGoes
  <2>4. Load(routes', task', boot', left') <= MaxJobs + 3 * MaxStarts
    BY <1>t, <1>n, <2>2, <2>3, LoadStays DEF NoMore
  <2>5. asked' \in [Services -> C!Upstreams]
    BY <1>t, <2>2 DEF C!Upstreams
  <2> QED
    BY <1>t, <2>1, <2>2, <2>3, <2>4, <2>5 DEF RouteTypes, TaskIs
<1>4. ASSUME NEW i \in C!Ids, CallStep(i),
             \/ Replaces(i) \/ Misses(i) \/ Counts(i) \/ Puts(i) \/ Refuses(i) \/ Removes(i)
      PROVE  RouteTypes'
  <2>1. /\ task[i].at # "idle" /\ routes' \in Seq(C!Route) /\ mishap' \in BOOLEAN
        /\ left' \in LeftRow /\ left'.jobs = left.jobs /\ left'.starts = left.starts
    BY <1>4 DEF CallStep
  <2>2. PICK t : TaskIs(i, t) /\ (Puts(i) => t.at = "idle")
    <3>1. C!Idle.at = "idle"
      BY DEF C!Idle
    <3> QED
      BY <1>4, <3>1 DEF Replaces, Misses, Counts, Puts, Refuses, Removes
  <2>3. /\ IsFiniteSet(UnderWay(task')) /\ Cardinality(UnderWay(task')) \in Nat
        /\ Cardinality(UnderWay(task')) <= Cardinality(UnderWay(task))
        /\ Puts(i) => Cardinality(UnderWay(task')) = Cardinality(UnderWay(task)) - 1
    BY <1>w, <2>1, <2>2, WorkingGoes
  <2>4. boot' = boot \/ boot' = <<>>
    BY <1>4 DEF Replaces, Misses, Counts, Puts, Refuses, Removes
  <2>5. boot' \in Boots /\ Len(boot') <= Len(boot) /\ Len(boot') \in Nat
    BY <1>t, <1>n, <2>4, BootFacts DEF Boots
  <2>6. task[i].to \in C!Upstreams
    <3>1. task[i] \in TaskRow
      BY <1>t DEF Tasks
    <3> QED
      BY <3>1 DEF TaskRow
  <2>7. asked' \in [Services -> C!Upstreams]
    <3>1. C!Succeeded(i) \in [Services -> C!Upstreams]
      BY <1>t, <2>6 DEF C!Succeeded
    <3>2. [asked EXCEPT ![i] = "none"] \in [Services -> C!Upstreams]
      BY <1>t DEF C!Upstreams
    <3>3. asked' \in {asked, C!Succeeded(i), [asked EXCEPT ![i] = "none"]}
      BY <1>4 DEF Replaces, Misses, Counts, Puts, Refuses, Removes
    <3> QED
      BY <1>t, <3>1, <3>2, <3>3
  <2>8. \/ Len(routes') \in Nat /\ Len(routes') <= Len(routes)
        \/ Puts(i) /\ Len(routes') = Len(routes) + 1
    BY <1>4, <1>n, <2>1 DEF Replaces, Misses, Counts, Puts, Refuses, Removes
  <2>9. Load(routes', task', boot', left') <= MaxJobs + 3 * MaxStarts
    BY <1>n, <2>1, <2>3, <2>5, <2>8, LoadStays DEF NoMore
  <2>10. task' \in Tasks
    BY <2>2 DEF TaskIs
  <2> QED
    BY <2>1, <2>3, <2>5, <2>7, <2>9, <2>10 DEF RouteTypes
<1> QED
  BY <1>0, <1>1, <1>2, <1>3, <1>4, RouteStepDoes

\* The type invariant of the module follows.
LEMMA RouteTypesMean == ASSUME C!CaddyRoutesAssumption, RouteTypes PROVE C!TypeOK
<1>1. boot \in Seq(C!Range(C!Dashboard))
  BY BootFacts, Dashboards DEF RouteTypes
<1>2. Len(routes) <= C!MaxRoutes
  <2> DEFINE w == Cardinality(UnderWay(task))
             n == Len(routes)
             b == Len(boot)
             j == left.jobs
             k == left.starts
  <2>1. n + w + b + j + 3 * k <= MaxJobs + 3 * MaxStarts
    BY DEF RouteTypes, Load
  <2>2. w \in Nat /\ n \in Nat /\ b \in Nat /\ j \in Nat /\ k \in Nat
    <3>1. w \in Nat
      BY FS_CardinalityType DEF RouteTypes
    <3>2. j \in Nat /\ k \in Nat
      BY LeftFacts DEF RouteTypes
    <3>3. n \in Nat /\ b \in Nat
      BY BootFacts DEF RouteTypes
    <3> QED
      BY <3>1, <3>2, <3>3
  <2>3. C!MaxRoutes = 3 + MaxJobs + MaxStarts * 3 /\ MaxJobs \in Nat /\ MaxStarts \in Nat
    BY Dashboards
  <2> HIDE DEF w, n, b, j, k
  <2>4. n <= C!MaxRoutes
    BY <2>1, <2>2, <2>3
  <2> QED
    BY <2>4 DEF n
<1> QED
  BY <1>1, <1>2 DEF C!TypeOK, RouteTypes, Tasks, TaskRow, LeftRow

-----------------------------------------------------------------------------
(* CaddyRoutes: the order in which the dashboard is registered *)

Busy(i) == task[i].at # "idle"

\* While the plane starts no service has a task, and the routes of the dashboard one at a time.
OneAtATime ==
    /\ \A i \in Dash : task[i].at \in {"idle", "patch", "count", "put"}
    /\ \A i, k \in Dash : Busy(i) /\ Busy(k) => i = k
    /\ boot # <<>> => \A s \in Services : ~Busy(s)
    /\ \A i \in Dash, s \in Services : Busy(i) => ~Busy(s)

\* The route that takes every path comes when the others are there.
UiComesLast ==
    /\ Len(boot) = 3 => \A i \in Dash : ~Busy(i)
    /\ Len(boot) = 2 => /\ ~Busy("docs") /\ ~Busy("ui")
                        /\ Busy("api") \/ HasId(routes, "api")
    /\ Len(boot) = 1 => /\ ~Busy("api") /\ ~Busy("ui") /\ HasId(routes, "api")
                        /\ Busy("docs") \/ HasId(routes, "docs")
    /\ Len(boot) = 0 /\ Busy("ui") => HasId(routes, "api") /\ HasId(routes, "docs")
    /\ HasId(routes, "ui") => HasId(routes, "api") /\ HasId(routes, "docs")

DashboardInv == OneAtATime /\ UiComesLast

LEMMA BootHeads ==
    ASSUME NEW b \in Boots
    PROVE  /\ b = <<>> <=> Len(b) = 0
           /\ Len(b) = 3 => Head(b) = "api" /\ Len(Tail(b)) = 2
           /\ Len(b) = 2 => Head(b) = "docs" /\ Len(Tail(b)) = 1
           /\ Len(b) = 1 => Head(b) = "ui" /\ Len(Tail(b)) = 0
           /\ Len(b) \in {0, 1, 2, 3}
<1>1. CASE b = <<>>
  BY <1>1
<1>2. CASE b = <<"ui">>
  BY <1>2
<1>3. CASE b = <<"docs", "ui">>
  BY <1>3
<1>4. CASE b = <<"api", "docs", "ui">>
  BY <1>4
<1> QED
  BY <1>1, <1>2, <1>3, <1>4 DEF Boots

\* What a call of i does to the routes of others, and where it leaves its task.
LEMMA CallKeepsIds ==
    ASSUME C!CaddyRoutesAssumption, RouteTypes, OneAtATime, NEW i \in C!Ids, CallStep(i),
           \/ Replaces(i) \/ Misses(i) \/ Counts(i) \/ Puts(i) \/ Refuses(i) \/ Removes(i)
    PROVE  /\ Busy(i) /\ \A j \in C!Ids : j # i => task'[j] = task[j]
           /\ \A j : j # i => (HasId(routes', j) <=> HasId(routes, j))
           /\ i \in Dash => /\ HasId(routes, i) => HasId(routes', i)
                            /\ task'[i].at \in {"idle", "patch", "count", "put"}
                            /\ task'[i].at = "idle" => HasId(routes', i) \/ boot' = <<>>
           /\ i \in Dash \/ boot' = boot
           /\ boot' = boot \/ boot' = <<>>
<1>0. /\ Busy(i) /\ C!Idle.at = "idle" /\ task[i] \in TaskRow
      /\ i \in Dash => task[i].at \in {"patch", "count", "put"}
  BY DEF CallStep, Busy, C!Idle, OneAtATime, RouteTypes, Tasks
<1>1. CASE Replaces(i)
  BY <1>0, <1>1, ReplacedKeeps DEF Replaces, TaskIs
<1>2. CASE Misses(i)
  BY <1>0, <1>2 DEF Misses, TaskIs, TaskRow
<1>3. CASE Counts(i)
  BY <1>0, <1>3 DEF Counts, TaskIs
<1>4. CASE Puts(i)
  <2> DEFINE r == [id |-> i, to |-> task[i].to]
  <2>1. Inserted(routes, routes', task[i].index, r) /\ r.id = i
    BY <1>4 DEF Puts
  <2> HIDE DEF r
  <2>2. /\ HasId(routes', i)
        /\ \A j : j # i => (HasId(routes', j) <=> HasId(routes, j))
    BY <2>1, InsertedKeeps
  <2> QED
    BY <1>0, <1>4, <2>2 DEF Puts, TaskIs
<1>5. CASE Refuses(i)
  <2>1. i \in Dash => i \notin Services
    BY Dashboards
  <2>2. i \in Dash \/ i \in Services
    BY Dashboards
  <2>3. TaskIs(i, C!Idle) /\ routes' = routes /\ boot' = IF i \in Services THEN boot ELSE <<>>
    BY <1>5 DEF Refuses
  <2>4. task'[i].at = "idle" /\ \A j \in C!Ids : j # i => task'[j] = task[j]
    BY <1>0, <2>3 DEF TaskIs
  <2>5. /\ i \in Dash => boot' = <<>>
        /\ i \in Dash \/ boot' = boot
        /\ boot' = boot \/ boot' = <<>>
    BY <2>1, <2>2, <2>3
  <2> QED
    BY <1>0, <2>3, <2>4, <2>5
<1>6. CASE Removes(i)
  <2>1. i \notin Dash
    BY <1>0, <1>6 DEF Removes
  <2>2. \A j : j # i => (HasId(routes', j) <=> HasId(routes, j))
    BY <1>6, RemovedKeeps DEF Removes
  <2> QED
    BY <1>0, <1>6, <2>1, <2>2 DEF Removes, TaskIs
<1> QED
  BY <1>1, <1>2, <1>3, <1>4, <1>5, <1>6

LEMMA DashboardInit == ASSUME C!CaddyRoutesAssumption, C!Init PROVE DashboardInv
<1>1. routes = <<>> /\ boot = <<>> /\ task = [i \in C!Ids |-> C!Idle]
  BY DEF C!Init
<1>2. \A i \in C!Ids : ~Busy(i) /\ task[i].at = "idle"
  BY <1>1 DEF Busy, C!Idle
<1>3. Len(boot) = 0 /\ \A i : ~HasId(routes, i)
  BY <1>1 DEF HasId
<1>4. /\ Services \subseteq C!Ids /\ Dash \subseteq C!Ids
      /\ "ui" \in Dash /\ "api" \in Dash /\ "docs" \in Dash
  BY Dashboards DEF Dash
<1> QED
  BY <1>1, <1>2, <1>3, <1>4 DEF DashboardInv, OneAtATime, UiComesLast

LEMMA DashboardStays ==
    ASSUME C!CaddyRoutesAssumption, RouteTypes, DashboardInv, [C!Next]_(C!vars)
    PROVE  DashboardInv'
<1>t. boot \in Boots /\ task \in Tasks
  BY DEF RouteTypes
<1>d. /\ C!Ids = Services \cup Dash /\ Services \cap Dash = {}
      /\ "ui" \in Dash /\ "api" \in Dash /\ "docs" \in Dash
  BY Dashboards DEF Dash
<1>i. C!Idle.at = "idle"
  BY DEF C!Idle
<1>0. CASE UNCHANGED C!vars
  BY <1>0 DEF C!vars, DashboardInv, OneAtATime, UiComesLast, Busy
<1>1. CASE Restarts
  <2>1. boot' = <<"api", "docs", "ui">> /\ Len(<<"api", "docs", "ui">>) = 3
    BY <1>1 DEF Restarts
  <2>2. \A i \in C!Ids : task'[i].at = "idle"
    BY <1>1, <1>i DEF Restarts
  <2>3. \A i : HasId(<<>>, i) => FALSE
    BY DEF HasId
  <2>4. HasId(routes', "ui") => HasId(routes', "api") /\ HasId(routes', "docs")
    BY <1>1, <2>3 DEF Restarts, DashboardInv, UiComesLast
  <2>5. Len(boot') = 3
    BY <2>1
  <2>6. UiComesLast'
    BY <1>d, <2>2, <2>4, <2>5 DEF UiComesLast, Busy
  <2>7. OneAtATime'
    BY <1>d, <2>2 DEF OneAtATime, Busy
  <2> QED
    BY <2>6, <2>7 DEF DashboardInv
<1>2. CASE Registers
  <2> DEFINE h == Head(boot)
  <2>1. /\ boot # <<>> /\ (\A i \in Dash : task[i].at = "idle") /\ boot' = Tail(boot)
        /\ TaskIs(h, [task[h] EXCEPT !.at = "patch"]) /\ routes' = routes
    BY <1>2 DEF Registers
  <2>2. h \in Dash
    BY <1>t, <2>1, BootFacts
  <2>3. /\ task'[h].at = "patch" /\ \A j \in C!Ids : j # h => task'[j] = task[j]
    <3>1. task[h] \in TaskRow
      BY <1>t, <1>d, <2>2 DEF Tasks
    <3> QED
      BY <2>1, <3>1 DEF TaskIs, TaskRow
  <2>4. \A s \in Services : task[s].at = "idle"
    BY <2>1 DEF DashboardInv, OneAtATime, Busy
  <2>5. OneAtATime'
    BY <1>d, <2>1, <2>2, <2>3, <2>4 DEF OneAtATime, Busy
  <2>6. UiComesLast'
    <3>0. UiComesLast /\ (\A j : HasId(routes', j) <=> HasId(routes, j))
      BY <2>1 DEF DashboardInv
    <3>5. HasId(routes', "ui") => HasId(routes', "api") /\ HasId(routes', "docs")
      BY <3>0 DEF UiComesLast
    <3>1. CASE Len(boot) = 3
      <4>1. h = "api" /\ Len(boot') = 2
        BY <1>t, <2>1, <3>1, BootHeads
      <4>2. ~Busy("docs")' /\ ~Busy("ui")' /\ Busy("api")'
        BY <1>d, <2>1, <2>3, <4>1 DEF Busy
      <4>3. Len(boot') # 3 /\ Len(boot') # 1 /\ Len(boot') # 0
        BY <4>1
      <4> QED
        BY <3>5, <4>2, <4>3 DEF UiComesLast
    <3>2. CASE Len(boot) = 2
      <4>1. h = "docs" /\ Len(boot') = 1
        BY <1>t, <2>1, <3>2, BootHeads
      <4>2. Busy("docs")' /\ ~Busy("ui")' /\ ~Busy("api")' /\ ~Busy("api")
        BY <1>d, <2>1, <2>3, <4>1 DEF Busy
      <4>3. Len(boot') # 3 /\ Len(boot') # 2 /\ Len(boot') # 0
        BY <4>1
      <4>4. HasId(routes', "api")
        BY <3>0, <3>2, <4>2 DEF UiComesLast
      <4> QED
        BY <3>5, <4>2, <4>3, <4>4 DEF UiComesLast
    <3>3. CASE Len(boot) = 1
      <4>1. h = "ui" /\ Len(boot') = 0
        BY <1>t, <2>1, <3>3, BootHeads
      <4>2. ~Busy("docs")
        BY <1>d, <2>1 DEF Busy
      <4>3. Len(boot') # 3 /\ Len(boot') # 2 /\ Len(boot') # 1
        BY <4>1
      <4>4. HasId(routes', "api") /\ HasId(routes', "docs")
        BY <3>0, <3>3, <4>2 DEF UiComesLast
      <4> QED
        BY <4>3, <4>4 DEF UiComesLast
    <3>4. Len(boot) # 0
      BY <1>t, <2>1, BootHeads
    <3> QED
      BY <1>t, <3>1, <3>2, <3>3, <3>4, BootHeads
  <2> QED
    BY <2>5, <2>6 DEF DashboardInv
<1>3. ASSUME NEW s \in Services, Begins(s) PROVE DashboardInv'
  <2>1. /\ boot = <<>> /\ (\A i \in Dash : task[i].at = "idle")
        /\ boot' = boot /\ routes' = routes
    BY <1>3 DEF Begins
  <2>2. \A j \in C!Ids : j # s => task'[j] = task[j]
    BY <1>3 DEF Begins, TaskIs
  <2>3. \A i \in Dash : task'[i].at = "idle"
    BY <1>d, <2>1, <2>2
  <2>4. Len(boot) = 0
    BY <1>t, <2>1, BootHeads
  <2>5. OneAtATime'
    BY <2>1, <2>3 DEF OneAtATime, Busy
  <2>6. UiComesLast'
    BY <1>d, <2>1, <2>3, <2>4 DEF UiComesLast, Busy, DashboardInv
  <2> QED
    BY <2>5, <2>6 DEF DashboardInv
<1>4. ASSUME NEW i \in C!Ids, CallStep(i),
             \/ Replaces(i) \/ Misses(i) \/ Counts(i) \/ Puts(i) \/ Refuses(i) \/ Removes(i)
      PROVE  DashboardInv'
  <2>1. /\ Busy(i) /\ \A j \in C!Ids : j # i => task'[j] = task[j]
        /\ \A j : j # i => (HasId(routes', j) <=> HasId(routes, j))
        /\ i \in Dash => /\ HasId(routes, i) => HasId(routes', i)
                         /\ task'[i].at \in {"idle", "patch", "count", "put"}
                         /\ task'[i].at = "idle" => HasId(routes', i) \/ boot' = <<>>
        /\ i \in Dash \/ boot' = boot
        /\ boot' = boot \/ boot' = <<>>
    BY <1>4, CallKeepsIds DEF DashboardInv
  <2>2. \A j \in C!Ids : j # i => (Busy(j)' <=> Busy(j))
    BY <2>1 DEF Busy
  <2>3. Len(<<>>) = 0
    OBVIOUS
  <2>4. CASE i \in Dash
    <3>1. \A j \in C!Ids : j # i => ~Busy(j) /\ ~Busy(j)'
      BY <1>d, <2>1, <2>2, <2>4 DEF DashboardInv, OneAtATime
    <3>2. \A j : HasId(routes, j) => HasId(routes', j)
      BY <2>1, <2>4
    <3>3. OneAtATime'
      <4>1. \A j \in Dash : task'[j].at \in {"idle", "patch", "count", "put"}
        BY <1>d, <2>1, <2>4 DEF DashboardInv, OneAtATime
      <4>2. \A j, k \in Dash : Busy(j)' /\ Busy(k)' => j = k
        BY <1>d, <3>1
      <4>3. \A s \in Services : ~Busy(s)'
        BY <1>d, <2>4, <3>1
      <4> QED
        BY <4>1, <4>2, <4>3 DEF OneAtATime
    <3>4. Busy(i)' \/ HasId(routes', i) \/ boot' = <<>>
      BY <2>1, <2>4 DEF Busy
    <3>5. UiComesLast
      BY DEF DashboardInv
    <3>6. Len(boot') = Len(boot) \/ Len(boot') = 0
      BY <2>1, <2>3
    <3>8. Len(boot) # 3
      BY <2>1, <2>4, <3>5 DEF UiComesLast
    <3>7. boot' = <<>> => Len(boot') = 0
      BY <2>3
    <3>9. CASE i = "ui"
      <4>1. Len(boot) # 2 /\ Len(boot) # 1
        BY <2>1, <3>5, <3>9 DEF UiComesLast
      <4>2. Len(boot) = 0
        BY <1>t, <3>8, <4>1, BootHeads
      <4>3. HasId(routes', "api") /\ HasId(routes', "docs")
        BY <2>1, <3>2, <3>5, <3>9, <4>2 DEF UiComesLast
      <4>4. Len(boot') = 0
        BY <3>6, <4>2
      <4> QED
        BY <3>3, <4>3, <4>4 DEF DashboardInv, UiComesLast
    <3>10. CASE i # "ui"
      <4>1. HasId(routes', "ui") => HasId(routes', "api") /\ HasId(routes', "docs")
        BY <2>1, <3>2, <3>5, <3>10 DEF UiComesLast
      <4>2. ~Busy("ui")'
        BY <1>d, <3>1, <3>10
      <4>3. Len(boot') = 2 => /\ ~Busy("docs")' /\ (Busy("api")' \/ HasId(routes', "api"))
        BY <1>d, <2>1, <2>2, <3>1, <3>2, <3>4, <3>5, <3>6, <3>7 DEF UiComesLast
      <4>4. Len(boot') = 1 => /\ ~Busy("api")' /\ HasId(routes', "api")
                              /\ (Busy("docs")' \/ HasId(routes', "docs"))
        BY <1>d, <2>1, <2>2, <3>1, <3>2, <3>4, <3>5, <3>6, <3>7 DEF UiComesLast
      <4>5. Len(boot') # 3
        BY <3>6, <3>8
      <4>6. UiComesLast'
        BY <4>1, <4>2, <4>3, <4>4, <4>5 DEF UiComesLast
      <4> QED
        BY <3>3, <4>6 DEF DashboardInv
    <3> QED
      BY <3>9, <3>10
  <2>5. CASE i \notin Dash
    <3>1. i \in Services /\ boot' = boot
      BY <1>d, <2>1, <2>5
    <3>2. boot = <<>> /\ \A j \in Dash : ~Busy(j) /\ task'[j] = task[j]
      BY <1>d, <2>1, <2>5, <3>1 DEF DashboardInv, OneAtATime
    <3>3. Len(boot') = 0
      BY <2>3, <3>1, <3>2
    <3>4. OneAtATime'
      BY <3>1, <3>2 DEF DashboardInv, OneAtATime, Busy
    <3>5. HasId(routes', "ui") => HasId(routes', "api") /\ HasId(routes', "docs")
      BY <1>d, <2>1, <2>5 DEF DashboardInv, UiComesLast
    <3>6. UiComesLast'
      BY <1>d, <3>2, <3>3, <3>5 DEF UiComesLast, Busy
    <3> QED
      BY <3>4, <3>6 DEF DashboardInv
  <2> QED
    BY <2>4, <2>5
<1> QED
  BY <1>0, <1>1, <1>2, <1>3, <1>4, RouteStepDoes

-----------------------------------------------------------------------------
(* CaddyRoutes: the routes lead where they were asked to *)

Leads(rs, s, to) == HasId(rs, s) /\ \A n \in DOMAIN rs : rs[n].id = s => rs[n].to = to

\* A task that is about to put a route found none.
NotThereYet == \A i \in C!Ids : task[i].at \in {"count", "put"} => ~HasId(routes, i)

UiGoesToTheEnd == task["ui"].at = "put" => task["ui"].index = Len(routes)

LeadsWhereAsked ==
    \A s \in Services : asked[s] # "none" => /\ task[s].at = "idle"
                                             /\ Leads(routes, s, asked[s])

RoutesKept == ~mishap => /\ OneOfEach(routes) /\ UiLast(routes)
                         /\ NotThereYet /\ UiGoesToTheEnd /\ LeadsWhereAsked

CaddyInv == RouteTypes /\ DashboardInv /\ RoutesKept

\* What a call of i leaves of the routes of the others.
Others(rs, cs, i) ==
    /\ \A j : j # i => (HasId(cs, j) <=> HasId(rs, j))
    /\ \A n \in DOMAIN cs : cs[n].id # i => \E m \in DOMAIN rs : cs[n] = rs[m]

LEMMA OthersLead ==
    ASSUME NEW rs, NEW cs, NEW i, NEW s, NEW to, s # i, Others(rs, cs, i), Leads(rs, s, to)
    PROVE  Leads(cs, s, to)
  BY DEF Others, Leads

\* A call of i keeps what holds of the routes, if no update and no count failed.
LEMMA CallKeepsRoutes ==
    ASSUME C!CaddyRoutesAssumption, CaddyInv, ~mishap', NEW i \in C!Ids, CallStep(i),
           \/ Replaces(i) \/ Misses(i) \/ Counts(i) \/ Puts(i) \/ Refuses(i) \/ Removes(i)
    PROVE  /\ OneOfEach(routes') /\ UiLast(routes') /\ Others(routes, routes', i)
           /\ task'[i].at \in {"count", "put"} => ~HasId(routes', i)
           /\ i = "ui" /\ task'[i].at = "put" => task'[i].index = Len(routes')
           /\ \A s \in Services : s # i => asked'[s] = asked[s]
           /\ i \in Services /\ asked'[i] # "none" =>
                task'[i].at = "idle" /\ Leads(routes', i, asked'[i])
           /\ task[i].at # "idle" /\ \A j \in C!Ids : j # i => task'[j] = task[j]
<1>1. /\ OneOfEach(routes) /\ UiLast(routes) /\ NotThereYet /\ UiGoesToTheEnd
      /\ LeadsWhereAsked /\ task[i].at # "idle"
  BY DEF CaddyInv, RoutesKept, CallStep
<1>2. i \in Services => asked[i] = "none"
  BY <1>1 DEF LeadsWhereAsked
<1>t. task \in Tasks /\ task[i] \in TaskRow /\ asked \in [Services -> C!Upstreams]
  BY DEF CaddyInv, RouteTypes, Tasks
<1>3. C!Idle.at = "idle"
  BY DEF C!Idle
<1>4. /\ \A s \in Services : s # i => C!Succeeded(i)[s] = asked[s]
      /\ i \in Services => C!Succeeded(i)[i] = task[i].to
      /\ \A s \in Services : s # i => [asked EXCEPT ![i] = "none"][s] = asked[s]
      /\ i \in Services => [asked EXCEPT ![i] = "none"][i] = "none"
  BY <1>t DEF C!Succeeded
<1>5. Others(routes, routes, i)
  BY DEF Others
<1>6. CASE Replaces(i)
  <2>1. /\ Replaced(routes, routes', i, task[i].to) /\ TaskIs(i, C!Idle)
        /\ asked' = C!Succeeded(i)
    BY <1>6 DEF Replaces
  <2>2. /\ HasId(routes', i) /\ UiLast(routes') /\ OneOfEach(routes')
        /\ \A j : HasId(routes', j) <=> HasId(routes, j)
        /\ \A n \in DOMAIN routes' : routes'[n].id = i => routes'[n].to = task[i].to
        /\ \A n \in DOMAIN routes' :
             routes'[n].id # i => routes'[n] = routes[n] /\ n \in DOMAIN routes
    BY <1>1, <2>1, ReplacedKeeps
  <2>3. Others(routes, routes', i) /\ Leads(routes', i, task[i].to)
    BY <2>2 DEF Others, Leads
  <2>4. task'[i].at = "idle" /\ \A j \in C!Ids : j # i => task'[j] = task[j]
    BY <1>3, <2>1 DEF TaskIs
  <2> QED
    BY <1>1, <1>4, <2>1, <2>2, <2>3, <2>4
<1>7. CASE Misses(i)
  <2>1. /\ TaskIs(i, [task[i] EXCEPT !.at = "count"]) /\ ~HasId(routes, i)
        /\ routes' = routes /\ asked' = asked
    BY <1>7 DEF Misses
  <2>2. task'[i].at = "count" /\ \A j \in C!Ids : j # i => task'[j] = task[j]
    BY <1>t, <2>1 DEF TaskIs, TaskRow
  <2> QED
    BY <1>1, <1>2, <1>5, <2>1, <2>2
<1>8. CASE Counts(i)
  <2>1. /\ TaskIs(i, [at |-> "put", to |-> task[i].to, index |-> Len(routes)])
        /\ task[i].at = "count" /\ routes' = routes /\ asked' = asked
    BY <1>8 DEF Counts
  <2>2. /\ task'[i].at = "put" /\ task'[i].index = Len(routes')
        /\ \A j \in C!Ids : j # i => task'[j] = task[j]
    BY <2>1 DEF TaskIs
  <2>3. ~HasId(routes', i)
    BY <1>1, <2>1 DEF NotThereYet
  <2> QED
    BY <1>1, <1>2, <1>5, <2>1, <2>2, <2>3
<1>9. CASE Puts(i)
  <2> DEFINE r == [id |-> i, to |-> task[i].to]
  <2>1. /\ Inserted(routes, routes', task[i].index, r) /\ TaskIs(i, C!Idle)
        /\ asked' = C!Succeeded(i) /\ task[i].at = "put"
    BY <1>9 DEF Puts
  <2>2. r.id = i /\ r.to = task[i].to
    OBVIOUS
  <2> HIDE DEF r
  <2>3. ~HasId(routes, i)
    BY <1>1, <2>1 DEF NotThereYet
  <2>4. /\ HasId(routes', i) /\ OneOfEach(routes')
        /\ \A j : j # i => (HasId(routes', j) <=> HasId(routes, j))
        /\ \A n \in DOMAIN routes' :
             routes'[n] = r \/ \E m \in DOMAIN routes : routes'[n] = routes[m]
    BY <1>1, <2>1, <2>2, <2>3, InsertedKeeps
  <2>5. UiLast(routes')
    <3>1. CASE i = "ui"
      <4>1. task[i].index = Len(routes)
        BY <1>1, <2>1, <3>1 DEF UiGoesToTheEnd
      <4> QED
        BY <1>1, <2>1, <2>2, <2>3, <3>1, <4>1, InsertedKeeps
    <3>2. CASE i \in {"api", "docs"}
      <4>1. ~HasId(routes, "ui")
        BY <2>3, <3>2 DEF CaddyInv, DashboardInv, UiComesLast
      <4> QED
        BY <1>1, <2>1, <2>2, <3>2, <4>1, InsertedKeeps
    <3>3. CASE i \notin Dash
      BY <1>1, <2>1, <2>2, <3>3, InsertedKeeps
    <3> QED
      BY <3>1, <3>2, <3>3 DEF Dash
  <2>6. Others(routes, routes', i)
    BY <2>2, <2>4 DEF Others
  <2>7. Leads(routes', i, task[i].to)
    BY <2>2, <2>3, <2>4 DEF Leads, HasId
  <2>8. task'[i].at = "idle" /\ \A j \in C!Ids : j # i => task'[j] = task[j]
    BY <1>3, <2>1 DEF TaskIs
  <2> QED
    BY <1>1, <1>4, <2>1, <2>4, <2>5, <2>6, <2>7, <2>8
<1>10. CASE Refuses(i)
  <2>1. /\ TaskIs(i, C!Idle) /\ routes' = routes
        /\ asked' = IF i \in Services THEN [asked EXCEPT ![i] = "none"] ELSE asked
    BY <1>10 DEF Refuses
  <2>2. task'[i].at = "idle" /\ \A j \in C!Ids : j # i => task'[j] = task[j]
    BY <1>3, <2>1 DEF TaskIs
  <2>3. /\ \A s \in Services : s # i => asked'[s] = asked[s]
        /\ i \in Services => asked'[i] = "none"
    BY <1>4, <2>1
  <2> QED
    BY <1>1, <1>5, <2>1, <2>2, <2>3
<1>11. CASE Removes(i)
  <2>1. /\ Removed(routes, routes', i) \/ routes' = routes
        /\ TaskIs(i, C!Idle) \/ TaskIs(i, [task[i] EXCEPT !.at = "patch"])
        /\ asked' = asked
    BY <1>11 DEF Removes
  <2>2. UiLast(routes') /\ OneOfEach(routes') /\ Others(routes, routes', i)
    <3>1. CASE Removed(routes, routes', i)
      <4>1. /\ UiLast(routes') /\ OneOfEach(routes')
            /\ \A j : j # i => (HasId(routes', j) <=> HasId(routes, j))
            /\ \A n \in DOMAIN routes' : \E m \in DOMAIN routes : routes'[n] = routes[m]
        BY <1>1, <3>1, RemovedKeeps
      <4> QED
        BY <4>1 DEF Others
    <3>2. CASE routes' = routes
      BY <1>1, <1>5, <3>2
    <3> QED
      BY <2>1, <3>1, <3>2
  <2>3. task'[i].at \in {"idle", "patch"} /\ \A j \in C!Ids : j # i => task'[j] = task[j]
    BY <1>t, <1>3, <2>1 DEF TaskIs, TaskRow
  <2> QED
    BY <1>1, <1>2, <2>1, <2>2, <2>3
<1> QED
  BY <1>6, <1>7, <1>8, <1>9, <1>10, <1>11

LEMMA CaddyInit == ASSUME C!CaddyRoutesAssumption, C!Init PROVE CaddyInv
<1>1. /\ routes = <<>> /\ task = [i \in C!Ids |-> C!Idle]
      /\ asked = [s \in Services |-> "none"]
  BY DEF C!Init
<1>2. OneOfEach(<<>>) /\ UiLast(<<>>) /\ \A i : ~HasId(<<>>, i)
  BY DEF OneOfEach, UiLast, HasId
<1>3. \A i \in C!Ids : task[i].at = "idle"
  BY <1>1 DEF C!Idle
<1>4. "ui" \in C!Ids
  BY Dashboards DEF Dash
<1>5. RoutesKept
  BY <1>1, <1>2, <1>3, <1>4
     DEF RoutesKept, NotThereYet, UiGoesToTheEnd, LeadsWhereAsked
<1> QED
  BY <1>5, RouteTypesInit, DashboardInit DEF CaddyInv

LEMMA CaddyStays ==
    ASSUME C!CaddyRoutesAssumption, CaddyInv, [C!Next]_(C!vars) PROVE CaddyInv'
<1>i. RouteTypes /\ DashboardInv /\ RoutesKept /\ RouteTypes' /\ DashboardInv'
  BY RouteTypesStay, DashboardStays DEF CaddyInv
<1>d. /\ C!Ids = Services \cup Dash /\ "ui" \in C!Ids /\ "ui" \in Dash
      /\ Services \cap Dash = {}
  BY Dashboards DEF Dash
<1>q. C!Idle.at = "idle"
  BY DEF C!Idle
<1>0. CASE UNCHANGED C!vars
  BY <1>i, <1>0 DEF C!vars, CaddyInv, RoutesKept, NotThereYet, UiGoesToTheEnd,
                    LeadsWhereAsked
<1>1. CASE Restarts
  <2>1. /\ \A i \in C!Ids : task'[i].at = "idle"
        /\ \A s \in Services : asked'[s] = "none"
        /\ mishap' = mishap /\ routes' \in {routes, <<>>}
    BY <1>q, <1>1 DEF Restarts
  <2>2. OneOfEach(<<>>) /\ UiLast(<<>>)
    BY DEF OneOfEach, UiLast
  <2>3. ~mishap' => OneOfEach(routes') /\ UiLast(routes')
    BY <1>i, <2>1, <2>2 DEF RoutesKept
  <2>4. RoutesKept'
    BY <1>d, <2>1, <2>3 DEF RoutesKept, NotThereYet, UiGoesToTheEnd, LeadsWhereAsked
  <2> QED
    BY <1>i, <2>4 DEF CaddyInv
<1>2. CASE Registers
  <2> DEFINE h == Head(boot)
  <2>1. /\ boot # <<>> /\ TaskIs(h, [task[h] EXCEPT !.at = "patch"])
        /\ UNCHANGED <<routes, asked, mishap>>
    BY <1>2 DEF Registers
  <2>2. h \in Dash
    BY <1>i, <2>1, BootFacts DEF RouteTypes
  <2>3. task'[h].at = "patch" /\ \A j \in C!Ids : j # h => task'[j] = task[j]
    <3>1. task[h] \in TaskRow
      BY <1>i, <1>d, <2>2 DEF RouteTypes, Tasks
    <3> QED
      BY <2>1, <3>1 DEF TaskIs, TaskRow
  <2> HIDE DEF h
  <2>4. h \notin Services
    BY <1>d, <2>2
  <2>5. ASSUME ~mishap, RoutesKept
        PROVE  NotThereYet' /\ UiGoesToTheEnd' /\ LeadsWhereAsked'
    <3>1. NotThereYet'
      BY <2>1, <2>3, <2>5 DEF RoutesKept, NotThereYet
    <3>2. UiGoesToTheEnd'
      BY <1>d, <2>1, <2>3, <2>5 DEF RoutesKept, UiGoesToTheEnd
    <3>3. LeadsWhereAsked'
      BY <1>d, <2>1, <2>3, <2>4, <2>5 DEF RoutesKept, LeadsWhereAsked
    <3> QED
      BY <3>1, <3>2, <3>3
  <2>6. RoutesKept'
    BY <1>i, <2>1, <2>5 DEF RoutesKept
  <2> QED
    BY <1>i, <2>6 DEF CaddyInv
<1>3. ASSUME NEW s \in Services, Begins(s) PROVE CaddyInv'
  <2>1. PICK at \in {"patch", "drop", "delete"}, to \in C!Upstreams :
          TaskIs(s, [at |-> at, to |-> to, index |-> 0])
    BY <1>3 DEF Begins
  <2>2. asked' = [asked EXCEPT ![s] = "none"] /\ routes' = routes /\ mishap' = mishap
    BY <1>3 DEF Begins
  <2>3. task'[s].at = at /\ \A j \in C!Ids : j # s => task'[j] = task[j]
    BY <2>1 DEF TaskIs
  <2>4. asked'[s] = "none" /\ \A z \in Services : z # s => asked'[z] = asked[z]
    BY <1>i, <2>2 DEF RouteTypes
  <2>5. s # "ui"
    BY <1>d
  <2>6. ASSUME ~mishap, RoutesKept
        PROVE  NotThereYet' /\ UiGoesToTheEnd' /\ LeadsWhereAsked'
    <3>1. NotThereYet'
      BY <2>2, <2>3, <2>6 DEF RoutesKept, NotThereYet
    <3>2. UiGoesToTheEnd'
      BY <1>d, <2>2, <2>3, <2>5, <2>6 DEF RoutesKept, UiGoesToTheEnd
    <3>3. LeadsWhereAsked'
      BY <1>d, <2>2, <2>3, <2>4, <2>6 DEF RoutesKept, LeadsWhereAsked
    <3> QED
      BY <3>1, <3>2, <3>3
  <2>7. RoutesKept'
    BY <1>i, <2>2, <2>6 DEF RoutesKept
  <2> QED
    BY <1>i, <2>7 DEF CaddyInv
<1>4. ASSUME NEW i \in C!Ids, CallStep(i),
             \/ Replaces(i) \/ Misses(i) \/ Counts(i) \/ Puts(i) \/ Refuses(i) \/ Removes(i)
      PROVE  CaddyInv'
  <2>1. ASSUME ~mishap'
        PROVE  /\ OneOfEach(routes') /\ UiLast(routes')
               /\ NotThereYet' /\ UiGoesToTheEnd' /\ LeadsWhereAsked'
    <3>1. /\ OneOfEach(routes') /\ UiLast(routes') /\ Others(routes, routes', i)
          /\ task'[i].at \in {"count", "put"} => ~HasId(routes', i)
          /\ i = "ui" /\ task'[i].at = "put" => task'[i].index = Len(routes')
          /\ \A s \in Services : s # i => asked'[s] = asked[s]
          /\ i \in Services /\ asked'[i] # "none" =>
               task'[i].at = "idle" /\ Leads(routes', i, asked'[i])
          /\ task[i].at # "idle" /\ \A j \in C!Ids : j # i => task'[j] = task[j]
      BY <1>4, <2>1, CallKeepsRoutes
    <3>2. NotThereYet /\ LeadsWhereAsked
      BY <1>4, <1>i, <2>1 DEF RoutesKept, CallStep
    <3>3. NotThereYet'
      BY <3>1, <3>2 DEF NotThereYet, Others
    <3>4. UiGoesToTheEnd'
      <4>1. CASE i = "ui"
        BY <3>1, <4>1 DEF UiGoesToTheEnd
      <4>2. CASE i # "ui"
        <5>1. ~Busy("ui")
          BY <1>d, <1>i, <3>1, <4>2 DEF DashboardInv, OneAtATime, Busy
        <5> QED
          BY <1>d, <3>1, <4>2, <5>1 DEF UiGoesToTheEnd, Busy
      <4> QED
        BY <4>1, <4>2
    <3>5. ASSUME NEW s \in Services, asked'[s] # "none"
          PROVE  task'[s].at = "idle" /\ Leads(routes', s, asked'[s])
      <4>1. CASE s = i
        BY <3>1, <3>5, <4>1
      <4>2. CASE s # i
        <5>1. asked'[s] = asked[s] /\ task'[s] = task[s]
          BY <1>d, <3>1, <4>2
        <5>2. task[s].at = "idle" /\ Leads(routes, s, asked[s])
          BY <3>2, <3>5, <5>1 DEF LeadsWhereAsked
        <5> QED
          BY <3>1, <4>2, <5>1, <5>2, OthersLead
      <4> QED
        BY <4>1, <4>2
    <3>6. LeadsWhereAsked'
      BY <3>5 DEF LeadsWhereAsked
    <3> QED
      BY <3>1, <3>3, <3>4, <3>6
  <2>2. RoutesKept'
    BY <2>1 DEF RoutesKept
  <2> QED
    BY <1>i, <2>2 DEF CaddyInv
<1> QED
  BY <1>i, <1>0, <1>1, <1>2, <1>3, <1>4, RouteStepDoes

LEMMA CaddyMeans ==
    ASSUME C!CaddyRoutesAssumption, CaddyInv PROVE C!TypeOK /\ C!RequestsGoWhereAsked
<1>1. C!TypeOK
  BY RouteTypesMean DEF CaddyInv
<1>2. ASSUME ~mishap PROVE UiLast(routes) /\ LeadsWhereAsked
  BY <1>2 DEF CaddyInv, RoutesKept
<1>3. \A s : C!Known(s) <=> HasId(routes, s)
  BY DEF C!Known, HasId
<1>4. C!RequestsGoWhereAsked
  BY <1>2, <1>3 DEF C!RequestsGoWhereAsked, UiLast, LeadsWhereAsked, Leads
<1> QED
  BY <1>1, <1>4

-----------------------------------------------------------------------------
(* Runtime: what the engine answers *)

\* Outcomes of a request: an engine, and a code.
AreOutcomes(os) == \A o \in os : o.engine \in D!Engines /\ o.code \in Nat

LEMMA RefusedOutcomes ==
    ASSUME NEW e \in D!Engines, NEW codes, codes \subseteq Nat
    PROVE  AreOutcomes(D!Refused(e, codes)) /\ \A o \in D!Refused(e, codes) : o.engine = e
  BY DEF AreOutcomes, D!Refused, D!Done

LEMMA EngineParts ==
    ASSUME NEW e \in D!Engines
    PROVE  /\ e.boxes \in Seq(D!Box)
           /\ e.local \in [Images -> {"absent", "tagged", "untagged"}]
           /\ e.net \in BOOLEAN /\ e.volume \in BOOLEAN
           /\ \A i \in DOMAIN e.boxes : e.boxes[i] \in D!Box
  BY DEF D!Engines

\* The engine after a change of one of its parts.
LEMMA EngineWith ==
    ASSUME NEW e \in D!Engines
    PROVE  /\ \A bs \in Seq(D!Box) :
                /\ [e EXCEPT !.boxes = bs] \in D!Engines /\ [e EXCEPT !.boxes = bs].boxes = bs
                /\ [e EXCEPT !.boxes = bs].local = e.local
                /\ [e EXCEPT !.boxes = bs].volume = e.volume
           /\ \A l \in [Images -> {"absent", "tagged", "untagged"}] :
                /\ [e EXCEPT !.local = l] \in D!Engines
                /\ [e EXCEPT !.local = l].boxes = e.boxes
           /\ \A b \in BOOLEAN : [e EXCEPT !.net = b] \in D!Engines
           /\ \A b \in BOOLEAN : [e EXCEPT !.volume = b] \in D!Engines
  BY DEF D!Engines

LEMMA BoxWith ==
    ASSUME NEW e \in D!Engines, NEW i \in DOMAIN e.boxes, NEW b \in D!Box,
           NEW f, f = [e EXCEPT !.boxes = [e.boxes EXCEPT ![i] = b]]
    PROVE  /\ f \in D!Engines /\ DOMAIN f.boxes = DOMAIN e.boxes /\ Len(f.boxes) = Len(e.boxes)
           /\ f.boxes[i] = b /\ \A k \in DOMAIN e.boxes : k # i => f.boxes[k] = e.boxes[k]
           /\ f.local = e.local /\ f.volume = e.volume
<1> DEFINE bs == [e.boxes EXCEPT ![i] = b]
<1>1. e.boxes \in Seq(D!Box)
  BY EngineParts
<1>2. /\ bs \in Seq(D!Box) /\ DOMAIN bs = DOMAIN e.boxes /\ Len(bs) = Len(e.boxes)
      /\ bs[i] = b /\ \A k \in DOMAIN e.boxes : k # i => bs[k] = e.boxes[k]
  BY <1>1
<1> HIDE DEF bs
<1>3. f = [e EXCEPT !.boxes = bs]
  BY DEF bs
<1>4. f \in D!Engines /\ f.boxes = bs /\ f.local = e.local /\ f.volume = e.volume
  BY <1>2, <1>3, EngineWith
<1> QED
  BY <1>2, <1>4

LEMMA StateSet ==
    ASSUME NEW e \in D!Engines, NEW i \in DOMAIN e.boxes,
           NEW s \in {"created", "running", "exited", "gone"}
    PROVE  LET f == D!SetState(e, i, s) IN
             /\ f \in D!Engines /\ DOMAIN f.boxes = DOMAIN e.boxes
             /\ Len(f.boxes) = Len(e.boxes)
             /\ f.boxes[i] = [e.boxes[i] EXCEPT !.state = s]
             /\ \A k \in DOMAIN e.boxes : k # i => f.boxes[k] = e.boxes[k]
             /\ f.local = e.local /\ f.volume = e.volume
<1>1. e.boxes[i] \in D!Box
  BY EngineParts
<1>2. [e.boxes[i] EXCEPT !.state = s] \in D!Box
  BY <1>1 DEF D!Box
<1>3. D!SetState(e, i, s) =
        [e EXCEPT !.boxes = [e.boxes EXCEPT ![i] = [e.boxes[i] EXCEPT !.state = s]]]
  BY DEF D!SetState
<1> QED
  BY <1>2, <1>3, BoxWith

LEMMA Found ==
    ASSUME NEW e \in D!Engines, NEW n
    PROVE  D!Find(e, n) \in 0 .. Len(e.boxes)
<1>1. e.boxes \in Seq(D!Box)
  BY EngineParts
<1>2. \A i \in D!Live(e) : i \in 1 .. Len(e.boxes)
  BY <1>1 DEF D!Live
<1>3. Len(e.boxes) \in Nat
  BY <1>1
<1> QED
  BY <1>2, <1>3 DEF D!Find

LEMMA CreateAnswers ==
    ASSUME NEW e \in D!Engines, NEW n \in BoxNames, NEW image \in Images
    PROVE  /\ AreOutcomes(D!EngineCreate(e, n, image))
           /\ \A o \in D!EngineCreate(e, n, image) :
                o.code < 400 => Len(o.engine.boxes) = Len(e.boxes) + 1
<1> DEFINE b == [name |-> n, image |-> image, state |-> "created", hidden |-> FALSE,
                 memory |-> "none"]
           bs == Append(e.boxes, b)
           f == [e EXCEPT !.boxes = bs]
           g == [f EXCEPT !.volume = TRUE]
<1>1. b \in D!Box
  BY DEF D!Box
<1>2. bs \in Seq(D!Box) /\ Len(bs) = Len(e.boxes) + 1
  <2>1. e.boxes \in Seq(D!Box)
    BY EngineParts
  <2> HIDE DEF b
  <2> QED
    BY <1>1, <2>1
<1>3. f \in D!Engines /\ f.boxes = bs
  <2> HIDE DEF bs
  <2> QED
    BY <1>2, EngineWith
<1>4. g \in D!Engines /\ g.boxes = bs
  <2> HIDE DEF f
  <2> QED
    BY <1>3, EngineWith DEF D!Engines
<1>5. \A o \in D!EngineCreate(e, n, image) :
        \/ o \in D!Refused(e, {404, 409, 500})
        \/ o = [engine |-> g, code |-> 201]
  <2>1. g = [e EXCEPT !.boxes = bs, !.volume = TRUE]
    BY Zenon
  <2> HIDE DEF g
  <2>2. \A o \in {D!Done(g, 201)} : o = [engine |-> g, code |-> 201]
    BY DEF D!Done
  <2>3. D!EngineCreate(e, n, image) \subseteq D!Refused(e, {404, 409, 500}) \cup {D!Done(g, 201)}
    BY <2>1 DEF D!EngineCreate, D!Refused, bs, b
  <2> QED
    BY <2>2, <2>3
<1> HIDE DEF g
<1>6. \A o \in D!Refused(e, {404, 409, 500}) : o.code \in {404, 409, 500} /\ o.engine = e
  BY DEF D!Refused, D!Done
<1>7. Len(g.boxes) = Len(e.boxes) + 1
  BY <1>2, <1>4
<1>8. \A o \in D!EngineCreate(e, n, image) :
        \/ o.engine = e /\ o.code \in {404, 409, 500}
        \/ o.engine = g /\ o.code = 201
  BY <1>5, <1>6
<1> QED
  BY <1>4, <1>7, <1>8 DEF AreOutcomes

\* The other operations that concern one container.
LEMMA BoxAnswers ==
    ASSUME NEW e \in D!Engines, NEW i
    PROVE  /\ AreOutcomes(D!EngineStart(e, i)) /\ AreOutcomes(D!EngineStop(e, i))
           /\ AreOutcomes(D!EngineRestart(e, i))
           /\ \A force \in BOOLEAN : AreOutcomes(D!EngineDelete(e, i, force))
<1>1. \A o \in D!Refused(e, {404}) \cup D!Refused(e, {304}) \cup D!Refused(e, {500})
               \cup D!Refused(e, {409}) : o.engine \in D!Engines /\ o.code \in Nat
  BY DEF D!Refused, D!Done
<1>2. ASSUME D!Exists(e, i), NEW s \in {"running", "exited", "gone"}, NEW code \in Nat
      PROVE  /\ D!Done(D!SetState(e, i, s), code).engine \in D!Engines
             /\ D!Done(D!SetState(e, i, s), code).code \in Nat
  BY <1>2, StateSet DEF D!Done, D!Exists
<1>3. AreOutcomes(D!EngineStart(e, i))
  BY <1>1, <1>2 DEF AreOutcomes, D!EngineStart
<1>4. AreOutcomes(D!EngineStop(e, i))
  BY <1>1, <1>2 DEF AreOutcomes, D!EngineStop
<1>5. AreOutcomes(D!EngineRestart(e, i))
  BY <1>1, <1>2 DEF AreOutcomes, D!EngineRestart
<1>6. \A force \in BOOLEAN : AreOutcomes(D!EngineDelete(e, i, force))
  BY <1>1, <1>2 DEF AreOutcomes, D!EngineDelete
<1> QED
  BY <1>3, <1>4, <1>5, <1>6

LEMMA ChangeAnswers ==
    ASSUME NEW e \in D!Engines, NEW i
    PROVE  /\ \A n \in BoxNames : AreOutcomes(D!EngineRename(e, i, n))
           /\ \A memory \in {"none", "low", "high"}, keep \in BOOLEAN :
                AreOutcomes(D!EngineUpdate(e, i, memory, keep))
<1>1. \A o \in D!Refused(e, {404}) \cup D!Refused(e, {500}) \cup D!Refused(e, {409}) :
        o.engine \in D!Engines /\ o.code \in Nat
  BY DEF D!Refused, D!Done
<1>2. ASSUME D!Exists(e, i), NEW n \in BoxNames, NEW code \in Nat
      PROVE  [e EXCEPT !.boxes[i].name = n] \in D!Engines
  <2>1. i \in DOMAIN e.boxes /\ e.boxes[i] \in D!Box
    BY <1>2, EngineParts DEF D!Exists
  <2>2. [e.boxes[i] EXCEPT !.name = n] \in D!Box
    BY <2>1 DEF D!Box
  <2>3. [e EXCEPT !.boxes[i].name = n] =
          [e EXCEPT !.boxes = [e.boxes EXCEPT ![i] = [e.boxes[i] EXCEPT !.name = n]]]
    OBVIOUS
  <2> QED
    BY <2>1, <2>2, <2>3, BoxWith
<1>3. ASSUME D!Exists(e, i), NEW memory \in {"none", "low", "high"}, NEW keep \in BOOLEAN
      PROVE  [e EXCEPT !.boxes[i].memory = IF keep THEN @ ELSE memory] \in D!Engines
  <2>1. i \in DOMAIN e.boxes /\ e.boxes[i] \in D!Box
    BY <1>3, EngineParts DEF D!Exists
  <2> DEFINE limit == IF keep THEN e.boxes[i].memory ELSE memory
  <2>2. limit \in {"none", "low", "high"}
    BY <2>1 DEF D!Box
  <2>3. [e EXCEPT !.boxes[i].memory = IF keep THEN @ ELSE memory] =
          [e EXCEPT !.boxes = [e.boxes EXCEPT ![i] = [e.boxes[i] EXCEPT !.memory = limit]]]
    OBVIOUS
  <2> HIDE DEF limit
  <2>4. [e.boxes[i] EXCEPT !.memory = limit] \in D!Box
    BY <2>1, <2>2 DEF D!Box
  <2> QED
    BY <2>1, <2>3, <2>4, BoxWith
<1>4. \A n \in BoxNames : AreOutcomes(D!EngineRename(e, i, n))
  BY <1>1, <1>2 DEF AreOutcomes, D!EngineRename, D!Done
<1>5. \A memory \in {"none", "low", "high"}, keep \in BOOLEAN :
        AreOutcomes(D!EngineUpdate(e, i, memory, keep))
  BY <1>1, <1>3 DEF AreOutcomes, D!EngineUpdate, D!Done
<1> QED
  BY <1>4, <1>5

LEMMA OtherAnswers ==
    ASSUME NEW e \in D!Engines, NEW image \in Images
    PROVE  /\ AreOutcomes(D!EnginePull(e, image)) /\ AreOutcomes(D!EngineDeleteImage(e, image))
           /\ AreOutcomes(D!EngineCreateNetwork(e)) /\ AreOutcomes(D!EngineDeleteNetwork(e))
           /\ AreOutcomes(D!EngineCreateVolume(e)) /\ AreOutcomes(D!EngineDeleteVolume(e))
<1>1. \A o \in D!Refused(e, {404}) \cup D!Refused(e, {409}) \cup D!Refused(e, {200, 500}) :
        o.engine \in D!Engines /\ o.code \in Nat
  BY DEF D!Refused, D!Done
<1>2. ASSUME NEW s \in {"absent", "tagged"} PROVE [e EXCEPT !.local[image] = s] \in D!Engines
  <2>1. [e.local EXCEPT ![image] = s] \in [Images -> {"absent", "tagged", "untagged"}]
    BY EngineParts
  <2> QED
    BY <2>1, EngineWith
<1>3. AreOutcomes(D!EnginePull(e, image))
  <2>1. [e EXCEPT !.local[image] = "tagged"] \in D!Engines
    BY <1>2
  <2> DEFINE f == [e EXCEPT !.local[image] = "tagged"]
  <2>2. D!EnginePull(e, image) = D!Refused(e, {200, 500}) \cup {D!Done(f, 200)}
    BY DEF D!EnginePull
  <2> HIDE DEF f
  <2>3. f \in D!Engines
    BY <2>1 DEF f
  <2> QED
    BY <1>1, <2>2, <2>3 DEF AreOutcomes, D!Done
<1>4. AreOutcomes(D!EngineDeleteImage(e, image))
  <2> DEFINE f == [e EXCEPT !.local[image] = "absent"]
  <2>1. f \in D!Engines
    BY <1>2
  <2>2. D!EngineDeleteImage(e, image) \subseteq
          D!Refused(e, {404}) \cup D!Refused(e, {409}) \cup {D!Done(f, 200)}
    BY DEF D!EngineDeleteImage
  <2> HIDE DEF f
  <2> QED
    BY <1>1, <2>1, <2>2 DEF AreOutcomes, D!Done
<1>5. AreOutcomes(D!EngineCreateNetwork(e))
  <2> DEFINE f == [e EXCEPT !.net = TRUE]
  <2>1. f \in D!Engines
    BY EngineParts DEF D!Engines
  <2>2. D!EngineCreateNetwork(e) \subseteq D!Refused(e, {409}) \cup {D!Done(f, 201)}
    BY DEF D!EngineCreateNetwork
  <2> HIDE DEF f
  <2> QED
    BY <1>1, <2>1, <2>2 DEF AreOutcomes, D!Done
<1>6. AreOutcomes(D!EngineDeleteNetwork(e))
  <2> DEFINE f == [e EXCEPT !.net = FALSE]
  <2>1. f \in D!Engines
    BY EngineParts DEF D!Engines
  <2>2. D!EngineDeleteNetwork(e) \subseteq D!Refused(e, {404}) \cup D!Refused(e, {409})
                                       \cup {D!Done(f, 204)}
    BY DEF D!EngineDeleteNetwork
  <2> HIDE DEF f
  <2> QED
    BY <1>1, <2>1, <2>2 DEF AreOutcomes, D!Done
<1>7. AreOutcomes(D!EngineCreateVolume(e))
  <2> DEFINE f == [e EXCEPT !.volume = TRUE]
  <2>1. f \in D!Engines
    BY EngineParts DEF D!Engines
  <2>2. D!EngineCreateVolume(e) \subseteq {D!Done(f, 201)}
    BY DEF D!EngineCreateVolume
  <2> HIDE DEF f
  <2> QED
    BY <1>1, <2>1, <2>2 DEF AreOutcomes, D!Done
<1>8. AreOutcomes(D!EngineDeleteVolume(e))
  <2> DEFINE f == [e EXCEPT !.volume = FALSE]
  <2>1. f \in D!Engines
    BY EngineParts DEF D!Engines
  <2>2. D!EngineDeleteVolume(e) \subseteq D!Refused(e, {404}) \cup D!Refused(e, {409})
                                       \cup {D!Done(f, 204)}
    BY DEF D!EngineDeleteVolume
  <2> HIDE DEF f
  <2> QED
    BY <1>1, <2>1, <2>2 DEF AreOutcomes, D!Done
<1> QED
  BY <1>3, <1>4, <1>5, <1>6, <1>7, <1>8

-----------------------------------------------------------------------------
(* Runtime: the invariant *)

CallRows ==
    [op : Ops \cup {"none"}, at : D!Stages, name : BoxNames \cup {"none"},
     image : Images \cup {"none"}, memory : {"none", "low", "high"}, id : 0 .. MaxBoxes,
     seen : D!Box \cup {"none"}, done : BOOLEAN]

\* A call is at a stage of its operation, with its arguments.
Staged(call) ==
    /\ call.op # "none" => call.name \in BoxNames /\ call.image \in Images
    /\ call.at = "send" => call.op \in D!Single
    /\ call.op = "create" =>
         /\ call.at \in {"check", "pull", "inspect", "remove", "create", "start", "ok", "err"}
         /\ call.at = "inspect" => driver = "docker"
    /\ call.op = "update" =>
         /\ call.at \in {"read", "update", "running", "restart", "ok", "err"}
         /\ call.at = "running" => driver = "podman"

\* When it has returned without an error, the engine has carried it out, and when it is about to
\* restart a container, the limit is set.
Carried(call) ==
    /\ call.at = "ok" /\ ~D!Gap(call) => call.done
    /\ call.op = "update" /\ call.at \in {"running", "restart"} /\ ~D!Gap(call) => call.done

RuntimeInv ==
    /\ driver \in {"docker", "podman"}
    /\ engine \in D!Engines /\ Len(engine.boxes) <= MaxBoxes
    /\ calls \in [Calls -> CallRows]
    /\ \A c \in Calls : Staged(calls[c]) /\ Carried(calls[c])
    /\ cleanup = [at |-> cleanup.at, left |-> cleanup.left, mounted |-> cleanup.mounted]
    /\ cleanup.at \in {"idle", "containers", "images", "volumes", "done"}
    /\ cleanup.mounted \in BOOLEAN
    /\ faults \in 0 .. MaxFaults

\* What an answer is.
IsAnswer(a, os) ==
    /\ a.engine \in D!Engines /\ Len(a.engine.boxes) <= MaxBoxes
    /\ faults + a.fault \in 0 .. MaxFaults
    /\ a.r.code \in Nat /\ a.r.lost \in BOOLEAN /\ a.r.box \in D!Box \cup {"none"}
    /\ a.done \in BOOLEAN
    /\ ~a.r.lost /\ a.r.code < 400 => a.done
    /\ ~a.r.lost => \E o \in os : o.engine = a.engine /\ o.code = a.r.code

LEMMA AnswersAre ==
    ASSUME D!RuntimeAssumption, RuntimeInv, NEW c \in Calls, NEW os, AreOutcomes(os),
           NEW a \in D!Answers(c, os)
    PROVE  IsAnswer(a, os)
<1> DEFINE id == calls[c].id
           box == IF id \in DOMAIN engine.boxes THEN engine.boxes[id] ELSE "none"
<1>1. box \in D!Box \cup {"none"}
  BY EngineParts DEF RuntimeInv
<1>2. PICK o \in os, lost \in BOOLEAN, reached \in BOOLEAN :
        /\ a = [engine |-> IF reached THEN o.engine ELSE engine,
                fault |-> IF lost \/ o.code = 500 THEN 1 ELSE 0,
                r |-> [lost |-> lost, code |-> o.code, box |-> box],
                done |-> reached /\ o.code < 400]
        /\ lost \/ reached
  <2> DEFINE Answer(o, lost, reached) ==
               [engine |-> IF reached THEN o.engine ELSE engine,
                fault |-> IF lost \/ o.code = 500 THEN 1 ELSE 0,
                r |-> [lost |-> lost, code |-> o.code, box |-> box],
                done |-> reached /\ o.code < 400]
  <2> DEFINE plain == {Answer(o, FALSE, TRUE) : o \in os}
             cut == {Answer(o, TRUE, reached) : o \in os, reached \in BOOLEAN}
  <2>1. a \in plain \/ a \in cut
    BY DEF D!Answers
  <2>2. CASE a \in plain
    BY <2>2
  <2>3. CASE a \in cut
    <3>1. PICK o \in os, reached \in BOOLEAN : a = Answer(o, TRUE, reached)
      BY <2>3
    <3> HIDE DEF Answer
    <3>2. \E lost \in BOOLEAN : a = Answer(o, lost, reached) /\ lost
      BY <3>1, Zenon
    <3>3. PICK lost \in BOOLEAN : a = Answer(o, lost, reached) /\ lost
      BY <3>2
    <3>4. \E x \in os, cuts \in BOOLEAN, arrives \in BOOLEAN :
            a = Answer(x, cuts, arrives) /\ (cuts \/ arrives)
      BY <3>3, Zenon
    <3> QED
      BY <3>4, Zenon DEF Answer
  <2> QED
    BY <2>1, <2>2, <2>3
<1>3. faults + a.fault <= MaxFaults /\ Len(a.engine.boxes) <= MaxBoxes
  BY DEF D!Answers
<1> HIDE DEF box
<1>4. /\ a.engine \in D!Engines /\ (a.fault = 0 \/ a.fault = 1)
      /\ a.r.code = o.code /\ a.r.lost = lost /\ a.r.box = box
      /\ o.code \in Nat
      /\ ~lost => a.engine = o.engine
  BY <1>2 DEF AreOutcomes, RuntimeInv
<1>5. a.done \in BOOLEAN /\ (~a.r.lost /\ a.r.code < 400 => a.done)
  <2>1. a.done = (reached /\ o.code < 400)
    BY <1>2
  <2> QED
    BY <1>2, <1>4, <2>1
<1>6. faults + a.fault \in 0 .. MaxFaults
  BY <1>3, <1>4 DEF RuntimeInv, D!RuntimeAssumption
<1> QED
  BY <1>1, <1>3, <1>4, <1>5, <1>6 DEF IsAnswer

\* A call that goes on.
SameCall(s, r) ==
    s.op = r.op /\ s.name = r.name /\ s.image = r.image /\ s.memory = r.memory

Ends(s, r, at, done) == s = [r EXCEPT !.at = at, !.done = done]
GetsId(s, r, at, id, done) == s = [r EXCEPT !.at = at, !.id = id, !.done = done]
Sees(s, r, at, seen, done) == s = [r EXCEPT !.at = at, !.seen = seen, !.done = done]

LEMMA CallGoes ==
    ASSUME NEW r \in CallRows, NEW at \in D!Stages, NEW done \in BOOLEAN, NEW s,
           \/ Ends(s, r, at, done)
           \/ \E id \in 0 .. MaxBoxes : GetsId(s, r, at, id, done)
           \/ \E seen \in D!Box \cup {"none"} : Sees(s, r, at, seen, done)
    PROVE  s \in CallRows /\ s.at = at /\ s.done = done /\ SameCall(s, r)
<1>1. CASE Ends(s, r, at, done)
  BY <1>1 DEF CallRows, SameCall, Ends
<1>2. ASSUME NEW id \in 0 .. MaxBoxes, GetsId(s, r, at, id, done)
      PROVE  s \in CallRows /\ s.at = at /\ s.done = done /\ SameCall(s, r)
  BY <1>2 DEF CallRows, SameCall, GetsId
<1>3. ASSUME NEW seen \in D!Box \cup {"none"}, Sees(s, r, at, seen, done)
      PROVE  s \in CallRows /\ s.at = at /\ s.done = done /\ SameCall(s, r)
  BY <1>3 DEF CallRows, SameCall, Sees
<1> QED
  BY <1>1, <1>2, <1>3

\* A step of c keeps the invariant if it holds of the call.
LEMMA CallStays ==
    ASSUME D!RuntimeAssumption, RuntimeInv, NEW c \in Calls, NEW call \in CallRows,
           engine' \in D!Engines, Len(engine'.boxes) <= MaxBoxes, faults' \in 0 .. MaxFaults,
           calls' = [calls EXCEPT ![c] = call], driver' = driver, cleanup' = cleanup,
           Staged(call), Carried(call)
    PROVE  RuntimeInv'
<1>1. calls' \in [Calls -> CallRows]
  BY DEF RuntimeInv
<1>2. calls'[c] = call /\ \A k \in Calls : k # c => calls'[k] = calls[k]
  BY DEF RuntimeInv
<1>3. \A k \in Calls : Staged(calls[k])' /\ Carried(calls[k])'
  BY <1>2 DEF RuntimeInv, Staged, Carried, D!Gap
<1> QED
  BY <1>1, <1>3 DEF RuntimeInv

LEMMA GetsStays ==
    ASSUME D!RuntimeAssumption, RuntimeInv, NEW c \in Calls, NEW os, NEW a, IsAnswer(a, os),
           NEW call \in CallRows, D!Gets(c, a, call), Staged(call), Carried(call)
    PROVE  RuntimeInv'
  BY CallStays DEF D!Gets, IsAnswer

LEMMA RuntimeInit == ASSUME D!RuntimeAssumption, D!Init PROVE RuntimeInv
<1>1. PICK n \in BoxNames, image \in Images :
        engine = [boxes |-> <<[name |-> n, image |-> image, state |-> "running",
                               hidden |-> TRUE, memory |-> "none"]>>,
                  local |-> [i \in Images |-> IF i = image THEN "tagged" ELSE "absent"],
                  net |-> TRUE, volume |-> FALSE]
  BY DEF D!Init
<1> DEFINE b == [name |-> n, image |-> image, state |-> "running", hidden |-> TRUE,
                 memory |-> "none"]
<1>2. b \in D!Box
  BY DEF D!Box
<1>3. <<b>> \in Seq(D!Box) /\ Len(<<b>>) = 1
  <2> HIDE DEF b
  <2> QED
    BY <1>2
<1>4. engine \in D!Engines /\ Len(engine.boxes) <= MaxBoxes
  <2>1. engine.boxes = <<b>>
    BY <1>1
  <2> DEFINE l == [i \in Images |-> IF i = image THEN "tagged" ELSE "absent"]
  <2> DEFINE bs == engine.boxes
  <2>2. engine = [boxes |-> bs, local |-> l, net |-> TRUE, volume |-> FALSE]
    BY <1>1, <2>1
  <2>5. l \in [Images -> {"absent", "tagged", "untagged"}]
    OBVIOUS
  <2>3. bs \in Seq(D!Box) /\ Len(bs) = 1
    BY <1>3, <2>1
  <2>4. 1 <= MaxBoxes
    BY DEF D!RuntimeAssumption
  <2>6. engine.boxes = bs
    OBVIOUS
  <2> HIDE DEF b, l, bs
  <2> QED
    <3>1. Len(engine.boxes) <= MaxBoxes
      BY <2>3, <2>4, <2>6, Zenon
    <3>2. engine \in D!Engines
      BY <2>2, <2>3, <2>5 DEF D!Engines
    <3> QED
      BY <3>1, <3>2
<1>5. D!Idle \in CallRows
  BY DEF D!Idle, CallRows, D!Stages, D!RuntimeAssumption
<1>6. \A c \in Calls : calls[c] = D!Idle
  BY DEF D!Init
<1>7. calls \in [Calls -> CallRows]
  BY <1>5 DEF D!Init
<1>8. Staged(D!Idle) /\ Carried(D!Idle)
  BY DEF Staged, Carried, D!Idle
<1> QED
  BY <1>4, <1>6, <1>7, <1>8 DEF RuntimeInv, D!Init, D!NotBegun, D!RuntimeAssumption

-----------------------------------------------------------------------------
(* Runtime: the steps *)

LEMMA BeginStays ==
    ASSUME D!RuntimeAssumption, RuntimeInv, NEW c \in Calls, D!Begin(c) PROVE RuntimeInv'
<1>1. PICK op \in Ops, n \in BoxNames, image \in Images, memory \in {"none", "low", "high"} :
        calls' = [calls EXCEPT ![c] =
          [op |-> op, at |-> D!FirstStage(op), name |-> n, image |-> image,
           memory |-> memory, id |-> D!Find(engine, n), seen |-> "none", done |-> FALSE]]
  BY DEF D!Begin
<1> DEFINE at == D!FirstStage(op)
           id == D!Find(engine, n)
<1>2. id \in 0 .. MaxBoxes
  <2>1. id \in 0 .. Len(engine.boxes) /\ Len(engine.boxes) \in Nat
    BY Found, EngineParts DEF RuntimeInv
  <2> HIDE DEF id
  <2> QED
    BY <2>1 DEF RuntimeInv, D!RuntimeAssumption
<1>3. /\ op \in D!Single \cup {"create", "update"}
      /\ op \in D!Single => at = "send" /\ op \notin {"create", "update"}
      /\ op = "create" => at = "check"
      /\ op = "update" => at = "read"
  BY DEF D!RuntimeAssumption, D!Single, D!FirstStage
<1> HIDE DEF at, id
<1> DEFINE call == [op |-> op, at |-> at, name |-> n, image |-> image, memory |-> memory,
                    id |-> id, seen |-> "none", done |-> FALSE]
<1>4. calls' = [calls EXCEPT ![c] = call]
  BY <1>1 DEF at, id
<1>5. at \in {"send", "check", "read"}
  BY <1>3
<1>6. call \in CallRows
  BY <1>2, <1>5 DEF CallRows, D!Stages
<1>7. Staged(call) /\ Carried(call)
  BY <1>3, <1>5 DEF Staged, Carried
<1> HIDE DEF call
<1> QED
  BY <1>4, <1>6, <1>7, CallStays DEF D!Begin, RuntimeInv

LEMMA SingleOutcomes ==
    ASSUME engine \in D!Engines, NEW call \in CallRows, call.op \in D!Single, Staged(call)
    PROVE  AreOutcomes(D!Outcomes(call))
<1> DEFINE i == D!Find(engine, call.name)
<1>1. /\ call.op \in D!Single /\ call.image \in Images
  BY DEF Staged, D!Single
<1>2. /\ AreOutcomes(D!EngineStart(engine, i)) /\ AreOutcomes(D!EngineStop(engine, i))
      /\ AreOutcomes(D!EngineRestart(engine, i)) /\ AreOutcomes(D!EngineDelete(engine, i, TRUE))
  BY BoxAnswers
<1>3. AreOutcomes(UNION {D!EngineRename(engine, i, n) : n \in BoxNames \ {call.name}})
  BY ChangeAnswers DEF AreOutcomes
<1>4. /\ AreOutcomes(D!EngineDeleteImage(engine, call.image))
      /\ AreOutcomes(D!EngineCreateNetwork(engine)) /\ AreOutcomes(D!EngineDeleteNetwork(engine))
      /\ AreOutcomes(D!EngineCreateVolume(engine)) /\ AreOutcomes(D!EngineDeleteVolume(engine))
  BY <1>1, OtherAnswers
<1> DEFINE renamed == UNION {D!EngineRename(engine, i, n) : n \in BoxNames \ {call.name}}
<1>5. D!Outcomes(call) \in
        {D!EngineStart(engine, i), D!EngineStop(engine, i), D!EngineRestart(engine, i),
         D!EngineDelete(engine, i, TRUE), renamed,
         D!EngineDeleteImage(engine, call.image), D!EngineCreateNetwork(engine),
         D!EngineDeleteNetwork(engine), D!EngineCreateVolume(engine),
         D!EngineDeleteVolume(engine)}
  BY <1>1 DEF D!Outcomes, D!Single
<1>6. AreOutcomes(renamed)
  BY <1>3
<1> HIDE DEF i, renamed
<1> QED
  BY <1>2, <1>4, <1>5, <1>6

\* What podman's driver takes for success is an answer with a good code, but for a rename.
LEMMA PodmanTakesGood ==
    ASSUME NEW r, r.code \in Nat, r.lost \in BOOLEAN, NEW op \in D!Single, op # "rename",
           D!PodmanTakes(op, r)
    PROVE  ~r.lost /\ r.code < 400
<1>1. \A codes : r.code \in codes /\ codes \subseteq 200 .. 299 => r.code < 400
  OBVIOUS
<1>2. CASE op \in {"start", "stop", "restart"}
  <2>1. ~r.lost /\ ~(r.code >= 400)
    BY <1>2, Zenon DEF D!PodmanTakes, D!P!StartContainer, D!P!StopContainer,
       D!P!RestartContainer, D!P!post, D!P!HasMessage
  <2> QED
    BY <2>1
<1>3. CASE op \in {"delete", "deleteImage", "deleteNetwork", "deleteVolume"}
  <2>1. D!P!delete(r)
    BY <1>3 DEF D!PodmanTakes, D!P!DeleteContainer, D!P!DeleteImage, D!P!DeleteNetwork,
                D!P!DeleteVolume
  <2> QED
    BY <2>1, <1>1 DEF D!P!delete
<1>4. CASE op \in {"createNetwork", "createVolume"}
  <2>1. ~r.lost /\ r.code \in {200, 201}
    BY <1>4, Zenon DEF D!PodmanTakes, D!P!CreateNetwork, D!P!CreateVolume, D!P!post,
       D!P!postExpect
  <2> QED
    BY <2>1
<1> QED
  BY <1>2, <1>3, <1>4 DEF D!Single

LEMMA OperationStays ==
    ASSUME D!RuntimeAssumption, RuntimeInv, NEW c \in Calls, D!Operation(c) PROVE RuntimeInv'
<1>1. calls[c] \in CallRows /\ Staged(calls[c]) /\ calls[c].at = "send"
  BY DEF D!Operation, RuntimeInv
<1>2. calls[c].op \in D!Single
  BY <1>1 DEF Staged
<1> DEFINE os == D!Outcomes(calls[c])
<1>3. AreOutcomes(os)
  BY <1>1, <1>2, SingleOutcomes DEF RuntimeInv
<1>4. PICK a \in D!Answers(c, os) :
        D!Gets(c, a, [calls[c] EXCEPT
            !.at = IF (driver = "podman" /\ D!PodmanTakes(calls[c].op, a.r))
                      \/ (driver = "docker" /\ D!D!Good(a.r)) THEN "ok" ELSE "err",
            !.done = a.done])
  BY DEF D!Operation
<1> HIDE DEF os
<1>5. IsAnswer(a, os)
  BY <1>3, AnswersAre
<1> DEFINE at == IF (driver = "podman" /\ D!PodmanTakes(calls[c].op, a.r))
                    \/ (driver = "docker" /\ D!D!Good(a.r)) THEN "ok" ELSE "err"
           done == a.done
           call == [calls[c] EXCEPT !.at = at, !.done = done]
<1>6. at = "ok" /\ ~(driver = "podman" /\ calls[c].op = "rename") => ~a.r.lost /\ a.r.code < 400
  BY <1>2, <1>5, PodmanTakesGood DEF IsAnswer, D!D!Good
<1>7. at \in {"ok", "err"} /\ done \in BOOLEAN
  BY <1>5 DEF IsAnswer
<1>8. D!Gets(c, a, call)
  BY <1>4
<1>9. at = "ok" /\ ~(driver = "podman" /\ calls[c].op = "rename") => done
  BY <1>5, <1>6 DEF IsAnswer
<1> HIDE DEF at, done
<1>10. at \in D!Stages
  BY <1>7 DEF D!Stages
<1>11. call \in CallRows /\ call.at = at /\ call.done = done /\ SameCall(call, calls[c])
  <2>1. Ends(call, calls[c], at, done)
    BY DEF Ends
  <2> HIDE DEF call
  <2> QED
    BY <1>1, <1>7, <1>10, <2>1, CallGoes
<1> HIDE DEF call
<1>12. Staged(call)
  BY <1>1, <1>2, <1>7, <1>11 DEF Staged, SameCall, D!Single
<1>13. Carried(call)
  BY <1>2, <1>7, <1>9, <1>11 DEF Carried, SameCall, D!Gap, D!Single
<1> QED
  BY <1>5, <1>8, <1>11, <1>12, <1>13, GetsStays

\* The stages of CreateContainer, and what the engine answers at them.
CreateStages == {"check", "pull", "inspect", "remove", "create", "start"}

LEMMA CreateStepOutcomes ==
    ASSUME engine \in D!Engines, NEW call \in CallRows, call.op = "create", Staged(call),
           call.at \in CreateStages
    PROVE  /\ AreOutcomes(D!CreateOutcomes(call))
           /\ call.at = "create" =>
                \A o \in D!CreateOutcomes(call) :
                  o.code < 400 => Len(o.engine.boxes) = Len(engine.boxes) + 1
<1>1. call.name \in BoxNames /\ call.image \in Images
  BY DEF Staged
<1>2. CASE call.at = "check"
  <2> DEFINE codes == {IF engine.local[call.image] = "tagged" THEN 200 ELSE 404}
  <2>1. D!CreateOutcomes(call) = D!Refused(engine, codes) /\ codes \subseteq Nat
    BY <1>2 DEF D!CreateOutcomes
  <2> HIDE DEF codes
  <2> QED
    BY <1>2, <2>1, RefusedOutcomes
<1>3. CASE call.at = "pull"
  BY <1>1, <1>3, OtherAnswers DEF D!CreateOutcomes
<1>4. CASE call.at = "inspect"
  <2> DEFINE codes == {IF D!Find(engine, call.name) = 0 THEN 404 ELSE 200}
  <2>1. D!CreateOutcomes(call) = D!Refused(engine, codes) /\ codes \subseteq Nat
    BY <1>4 DEF D!CreateOutcomes
  <2> HIDE DEF codes
  <2> QED
    BY <1>4, <2>1, RefusedOutcomes
<1>5. CASE call.at = "remove"
  BY <1>5, BoxAnswers DEF D!CreateOutcomes
<1>6. CASE call.at = "create"
  <2>1. D!CreateOutcomes(call) = D!EngineCreate(engine, call.name, call.image)
    BY <1>6 DEF D!CreateOutcomes
  <2> QED
    BY <1>1, <2>1, CreateAnswers
<1>7. CASE call.at = "start"
  BY <1>7, BoxAnswers DEF D!CreateOutcomes
<1> QED
  BY <1>2, <1>3, <1>4, <1>5, <1>6, <1>7 DEF CreateStages

LEMMA CreateContainerStays ==
    ASSUME D!RuntimeAssumption, RuntimeInv, NEW c \in Calls, D!CreateContainer(c)
    PROVE  RuntimeInv'
<1>1. /\ calls[c] \in CallRows /\ Staged(calls[c]) /\ calls[c].op = "create"
      /\ calls[c].at \in CreateStages /\ (calls[c].at = "inspect" => driver = "docker")
      /\ driver \in {"docker", "podman"}
  BY DEF D!CreateContainer, RuntimeInv, Staged, CreateStages
<1> DEFINE os == D!CreateOutcomes(calls[c])
<1>2. /\ AreOutcomes(os)
      /\ calls[c].at = "create" =>
           \A o \in os : o.code < 400 => Len(o.engine.boxes) = Len(engine.boxes) + 1
  BY <1>1, CreateStepOutcomes DEF RuntimeInv
<1>3. PICK a \in D!Answers(c, os) :
        D!Gets(c, a, [calls[c] EXCEPT
            !.at = IF driver = "docker" THEN D!D!CreateContainer(@, a.r)
                                        ELSE D!P!CreateContainer(@, a.r),
            !.id = IF a.r.lost \/ a.r.code >= 400 THEN @ ELSE D!CreateId(calls[c]),
            !.done = calls[c].at = "start" /\ a.done])
  BY DEF D!CreateContainer
<1> HIDE DEF os
<1>4. IsAnswer(a, os)
  BY <1>2, AnswersAre
<1> DEFINE at == IF driver = "docker" THEN D!D!CreateContainer(calls[c].at, a.r)
                                      ELSE D!P!CreateContainer(calls[c].at, a.r)
           id == IF a.r.lost \/ a.r.code >= 400 THEN calls[c].id ELSE D!CreateId(calls[c])
           done == calls[c].at = "start" /\ a.done
           call == [calls[c] EXCEPT !.at = at, !.id = id, !.done = done]
<1>5. D!Gets(c, a, call)
  BY <1>3
<1>6. /\ at \in {"pull", "inspect", "remove", "create", "start", "ok", "err"}
      /\ at = "inspect" => driver = "docker"
      /\ at = "ok" => calls[c].at = "start" /\ ~a.r.lost /\ ~(a.r.code >= 400)
  <2>1. CASE driver = "docker"
    <3>1. /\ at \in {"pull", "inspect", "remove", "create", "start", "ok", "err"}
          /\ at = "ok" => calls[c].at = "start" /\ D!D!Good(a.r)
      BY <1>1, <2>1 DEF D!D!CreateContainer, CreateStages
    <3>2. D!D!Good(a.r) => ~a.r.lost /\ ~(a.r.code >= 400)
      BY <1>4 DEF D!D!Good, IsAnswer
    <3> HIDE DEF at
    <3> QED
      BY <2>1, <3>1, <3>2
  <2>2. CASE driver = "podman"
    <3>1. /\ at \in {"pull", "remove", "create", "start", "ok", "err"}
          /\ at = "ok" => calls[c].at = "start" /\ D!P!post(a.r) /\ ~D!P!HasMessage(a.r)
      BY <1>1, <2>2 DEF D!P!CreateContainer, CreateStages
    <3> HIDE DEF at
    <3> QED
      BY <2>2, <3>1 DEF D!P!post, D!P!HasMessage
  <2> QED
    BY <1>1, <2>1, <2>2
<1>7. id \in 0 .. MaxBoxes
  <2>1. calls[c].id \in 0 .. MaxBoxes /\ MaxBoxes \in Nat
    BY <1>1 DEF CallRows, D!RuntimeAssumption
  <2>2. D!Find(engine, calls[c].name) \in 0 .. MaxBoxes
    <3>1. D!Find(engine, calls[c].name) \in 0 .. Len(engine.boxes)
      BY Found DEF RuntimeInv
    <3>2. Len(engine.boxes) \in Nat /\ Len(engine.boxes) <= MaxBoxes
      BY EngineParts DEF RuntimeInv
    <3> QED
      BY <2>1, <3>1, <3>2
  <2>3. calls[c].at = "create" /\ ~a.r.lost /\ ~(a.r.code >= 400) =>
          Len(engine.boxes) + 1 \in 0 .. MaxBoxes
    <3>1. SUFFICES ASSUME calls[c].at = "create", ~a.r.lost, ~(a.r.code >= 400)
                   PROVE  Len(engine.boxes) + 1 \in 0 .. MaxBoxes
      OBVIOUS
    <3>2. PICK o \in os : o.engine = a.engine /\ o.code = a.r.code
      BY <1>4, <3>1 DEF IsAnswer
    <3>3. o.code < 400
      BY <1>4, <3>1, <3>2 DEF IsAnswer
    <3>4. Len(a.engine.boxes) = Len(engine.boxes) + 1
      BY <1>2, <3>1, <3>2, <3>3
    <3>5. Len(a.engine.boxes) <= MaxBoxes /\ Len(engine.boxes) \in Nat
      BY <1>4, EngineParts DEF IsAnswer, RuntimeInv
    <3> QED
      BY <2>1, <3>4, <3>5
  <2> QED
    BY <2>1, <2>2, <2>3 DEF D!CreateId
<1>8. done \in BOOLEAN /\ (calls[c].at = "start" /\ ~a.r.lost /\ ~(a.r.code >= 400) => done)
  <2>1. done \in BOOLEAN
    OBVIOUS
  <2>2. a.r.code \in Nat /\ (~a.r.lost /\ a.r.code < 400 => a.done)
    BY <1>4 DEF IsAnswer
  <2> QED
    BY <2>1, <2>2
<1> HIDE DEF at, id, done
<1>9. at \in D!Stages
  BY <1>6 DEF D!Stages
<1>10. call \in CallRows /\ call.at = at /\ call.done = done /\ SameCall(call, calls[c])
  <2>1. GetsId(call, calls[c], at, id, done)
    BY DEF GetsId
  <2> HIDE DEF call
  <2> QED
    BY <1>1, <1>7, <1>8, <1>9, <2>1, CallGoes
<1> HIDE DEF call
<1>11. Staged(call)
  BY <1>1, <1>6, <1>10 DEF Staged, SameCall
<1>12. Carried(call)
  BY <1>1, <1>6, <1>8, <1>10 DEF Carried, SameCall
<1> QED
  BY <1>4, <1>5, <1>10, <1>11, <1>12, GetsStays

\* The stages of UpdateResources.
UpdateStages == {"read", "update", "running", "restart"}

LEMMA UpdateStepOutcomes ==
    ASSUME engine \in D!Engines, NEW call \in CallRows, call.at \in UpdateStages
    PROVE  AreOutcomes(D!UpdateOutcomes(call))
<1>1. CASE call.at \in {"read", "running"}
  <2> DEFINE codes == {IF D!Exists(engine, call.id) THEN 200 ELSE 404}
  <2>1. D!UpdateOutcomes(call) = D!Refused(engine, codes) /\ codes \subseteq Nat
    BY <1>1 DEF D!UpdateOutcomes
  <2> HIDE DEF codes
  <2> QED
    BY <2>1, RefusedOutcomes
<1>2. CASE call.at = "update"
  <2> DEFINE keep == driver = "docker" /\ call.memory = "none"
  <2>1. D!UpdateOutcomes(call) = D!EngineUpdate(engine, call.id, call.memory, keep)
    BY <1>2 DEF D!UpdateOutcomes
  <2>2. keep \in BOOLEAN /\ call.memory \in {"none", "low", "high"}
    BY DEF CallRows
  <2> HIDE DEF keep
  <2> QED
    BY <2>1, <2>2, ChangeAnswers
<1>3. CASE call.at = "restart"
  BY <1>3, BoxAnswers DEF D!UpdateOutcomes
<1> QED
  BY <1>1, <1>2, <1>3 DEF UpdateStages

LEMMA UpdateResourcesStays ==
    ASSUME D!RuntimeAssumption, RuntimeInv, NEW c \in Calls, D!UpdateResources(c)
    PROVE  RuntimeInv'
<1>1. /\ calls[c] \in CallRows /\ Staged(calls[c]) /\ Carried(calls[c])
      /\ calls[c].op = "update" /\ calls[c].at \in UpdateStages
      /\ calls[c].at = "running" => driver = "podman"
      /\ driver \in {"docker", "podman"}
  BY DEF D!UpdateResources, RuntimeInv, Staged, UpdateStages
<1> DEFINE os == D!UpdateOutcomes(calls[c])
<1>2. AreOutcomes(os)
  BY <1>1, UpdateStepOutcomes DEF RuntimeInv
<1>3. PICK a \in D!Answers(c, os) :
        LET seen == IF calls[c].at = "read" THEN a.r.box ELSE calls[c].seen
        IN  D!Gets(c, a, [calls[c] EXCEPT
                !.at = IF driver = "docker"
                       THEN D!D!UpdateResources(@, a.r, seen, calls[c].memory)
                       ELSE D!P!UpdateResources(@, a.r, seen, calls[c].memory),
                !.seen = seen,
                !.done = IF calls[c].at # "update" THEN @
                         ELSE a.done /\ ~(driver = "docker" /\ calls[c].memory = "none")])
  BY DEF D!UpdateResources
<1> HIDE DEF os
<1>4. IsAnswer(a, os)
  BY <1>2, AnswersAre
<1> DEFINE seen == IF calls[c].at = "read" THEN a.r.box ELSE calls[c].seen
           at == IF driver = "docker"
                 THEN D!D!UpdateResources(calls[c].at, a.r, seen, calls[c].memory)
                 ELSE D!P!UpdateResources(calls[c].at, a.r, seen, calls[c].memory)
           gap == driver = "docker" /\ calls[c].memory = "none"
           done == IF calls[c].at # "update" THEN calls[c].done ELSE a.done /\ ~gap
           call == [calls[c] EXCEPT !.at = at, !.seen = seen, !.done = done]
<1>5. D!Gets(c, a, call)
  BY <1>3
<1>6. seen \in D!Box \cup {"none"}
  BY <1>1, <1>4 DEF IsAnswer, CallRows
<1>g. D!Gap(calls[c]) <=> gap
  BY <1>1 DEF D!Gap
<1> HIDE DEF seen
<1>7. /\ at \in {"update", "running", "restart", "ok", "err"}
      /\ at = "running" => driver = "podman"
      /\ at = "update" => calls[c].at = "read"
      /\ at \in {"ok", "running", "restart"} =>
           \/ calls[c].at = "update" /\ ~a.r.lost /\ a.r.code < 400
           \/ calls[c].at \in {"running", "restart"}
  <2>1. CASE driver = "docker"
    <3>1. /\ at \in {"update", "restart", "ok", "err"}
          /\ at = "update" => calls[c].at = "read"
          /\ at \in {"ok", "restart"} =>
               \/ calls[c].at = "update" /\ D!D!Good(a.r)
               \/ calls[c].at = "restart"
      BY <1>1, <2>1 DEF D!D!UpdateResources, UpdateStages
    <3> HIDE DEF at
    <3> QED
      BY <2>1, <3>1 DEF D!D!Good
  <2>2. CASE driver = "podman"
    <3>1. /\ at \in {"update", "running", "restart", "ok", "err"}
          /\ at = "update" => calls[c].at = "read"
          /\ at \in {"ok", "running", "restart"} =>
               \/ calls[c].at = "update" /\ D!P!post(a.r) /\ a.r.code \in {200, 201}
               \/ calls[c].at \in {"running", "restart"}
      BY <1>1, <2>2 DEF D!P!UpdateResources, UpdateStages
    <3>2. a.r.code \in {200, 201} => a.r.code < 400
      OBVIOUS
    <3> HIDE DEF at
    <3> QED
      BY <2>2, <3>1, <3>2 DEF D!P!post
  <2> QED
    BY <1>1, <2>1, <2>2
<1>8. done \in BOOLEAN
  BY <1>1, <1>4 DEF IsAnswer, CallRows
<1>9. at \in {"ok", "running", "restart"} /\ ~gap => done
  <2>1. SUFFICES ASSUME at \in {"ok", "running", "restart"}, ~gap PROVE done
    OBVIOUS
  <2>2. CASE calls[c].at = "update" /\ ~a.r.lost /\ a.r.code < 400
    BY <1>4, <2>1, <2>2 DEF IsAnswer
  <2>3. CASE calls[c].at \in {"running", "restart"}
    <3>1. calls[c].done
      BY <1>1, <1>g, <2>1, <2>3 DEF Carried
    <3> QED
      BY <2>3, <3>1
  <2> HIDE DEF at
  <2> QED
    BY <1>7, <2>1, <2>2, <2>3
<1> HIDE DEF at, done
<1>10. at \in D!Stages
  BY <1>7 DEF D!Stages
<1>11. call \in CallRows /\ call.at = at /\ call.done = done /\ SameCall(call, calls[c])
  <2>1. Sees(call, calls[c], at, seen, done)
    BY DEF Sees
  <2> HIDE DEF call
  <2> QED
    BY <1>1, <1>6, <1>8, <1>10, <2>1, CallGoes
<1> HIDE DEF call
<1>12. Staged(call)
  BY <1>1, <1>7, <1>11 DEF Staged, SameCall
<1>13. D!Gap(call) <=> gap
  BY <1>g, <1>11 DEF D!Gap, SameCall
<1>14. Carried(call)
  BY <1>1, <1>9, <1>11, <1>13 DEF Carried, SameCall
<1> QED
  BY <1>4, <1>5, <1>11, <1>12, <1>14, GetsStays

-----------------------------------------------------------------------------
(* Runtime: the clean-up *)

\* What the clean-up must leave alone, from an engine e to an engine f.
Spares(e, f) ==
    /\ \A i \in D!Live(e) : e.boxes[i].state = "running" => f.boxes[i] = e.boxes[i]
    /\ \A i \in D!Live(f) :
         /\ f.local[f.boxes[i].image] = e.local[f.boxes[i].image]
         /\ e.volume /\ ~e.boxes[i].hidden => f.volume

\* A container that is not deleted by force, and one that is removed.
LEMMA DeleteSpares ==
    ASSUME engine \in D!Engines, NEW i, NEW o \in D!EngineDelete(engine, i, FALSE)
    PROVE  /\ Spares(engine, o.engine) /\ o.engine \in D!Engines
           /\ Len(o.engine.boxes) = Len(engine.boxes)
<1>1. CASE ~D!Exists(engine, i) \/ engine.boxes[i].state = "running"
  <2>1. o.engine = engine
    BY <1>1 DEF D!EngineDelete, D!Refused, D!Done
  <2> QED
    BY <2>1 DEF Spares
<1>2. CASE D!Exists(engine, i) /\ engine.boxes[i].state # "running"
  <2> DEFINE f == D!SetState(engine, i, "gone")
  <2>1. o.engine = f
    BY <1>2 DEF D!EngineDelete, D!Done
  <2>2. i \in DOMAIN engine.boxes /\ engine.boxes[i].state # "running"
    BY <1>2 DEF D!Exists
  <2>3. /\ f \in D!Engines /\ Len(f.boxes) = Len(engine.boxes)
        /\ DOMAIN f.boxes = DOMAIN engine.boxes
        /\ \A k \in DOMAIN engine.boxes : k # i => f.boxes[k] = engine.boxes[k]
        /\ f.local = engine.local /\ f.volume = engine.volume
    BY <2>2, StateSet
  <2> HIDE DEF f
  <2>4. Spares(engine, f)
    BY <2>2, <2>3 DEF Spares, D!Live, D!Exists
  <2> QED
    BY <2>1, <2>3, <2>4
<1> QED
  BY <1>1, <1>2

LEMMA CleanupContainersKeeps ==
    ASSUME D!RuntimeAssumption, RuntimeInv, D!CleanupContainers
    PROVE  RuntimeInv' /\ Spares(engine, engine')
<1>1. /\ driver' = driver /\ calls' = calls /\ faults' = faults
      /\ \/ engine' = engine
         \/ \E i : \E o \in D!EngineDelete(engine, i, FALSE) : engine' = o.engine
  BY DEF D!CleanupContainers
<1>2. /\ cleanup' = [at |-> cleanup'.at, left |-> cleanup'.left, mounted |-> cleanup'.mounted]
      /\ cleanup'.at \in {"containers", "images"} /\ cleanup'.mounted \in BOOLEAN
  <2> DEFINE c == cleanup.at
             l == cleanup.left
             m == cleanup.mounted
  <2>1. cleanup = [at |-> c, left |-> l, mounted |-> m] /\ m \in BOOLEAN /\ c = "containers"
    BY DEF RuntimeInv, D!CleanupContainers
  <2>2. \/ \E v \in l : cleanup' = [cleanup EXCEPT !.left = l \ {v}]
        \/ cleanup' = [cleanup EXCEPT !.at = "images"]
    BY DEF D!CleanupContainers
  <2> HIDE DEF c, l, m
  <2> QED
    BY <2>1, <2>2
<1>3. /\ engine' \in D!Engines /\ Len(engine'.boxes) <= MaxBoxes
      /\ Spares(engine, engine')
  <2>1. CASE engine' = engine
    BY <2>1 DEF RuntimeInv, Spares
  <2>2. ASSUME NEW i, NEW o \in D!EngineDelete(engine, i, FALSE), engine' = o.engine
        PROVE  /\ engine' \in D!Engines /\ Len(engine'.boxes) <= MaxBoxes
               /\ Spares(engine, engine')
    BY <2>2, DeleteSpares DEF RuntimeInv
  <2> QED
    BY <1>1, <2>1, <2>2
<1>4. \A k \in Calls : Staged(calls[k])' /\ Carried(calls[k])'
  BY <1>1 DEF RuntimeInv, Staged, Carried, D!Gap
<1> QED
  BY <1>1, <1>2, <1>3, <1>4 DEF RuntimeInv

\* No image that a driver lists is without a tag: the clean-up removes none.
LEMMA CleanupImagesKeeps ==
    ASSUME D!RuntimeAssumption, RuntimeInv, D!CleanupImages
    PROVE  RuntimeInv' /\ Spares(engine, engine')
<1>1. D!Dangling = {}
  BY DEF D!Dangling, D!D!ListImages, D!P!ListImages
<1>2. PICK removed \in SUBSET D!Dangling :
        engine' = [engine EXCEPT !.local =
                     [i \in Images |-> IF i \in removed THEN "absent" ELSE @[i]]]
  BY DEF D!CleanupImages
<1>3. engine' = engine
  <2> DEFINE l == [i \in Images |-> IF i \in removed THEN "absent" ELSE engine.local[i]]
  <2>1. l = engine.local
    BY <1>1, EngineParts DEF RuntimeInv
  <2>2. engine' = [engine EXCEPT !.local = l]
    BY <1>2
  <2> HIDE DEF l
  <2> QED
    BY <2>1, <2>2 DEF RuntimeInv, D!Engines
<1>4. /\ driver' = driver /\ calls' = calls /\ faults' = faults
      /\ cleanup' = [cleanup EXCEPT !.at = "volumes"]
  BY DEF D!CleanupImages
<1>5. /\ cleanup' = [at |-> cleanup'.at, left |-> cleanup'.left, mounted |-> cleanup'.mounted]
      /\ cleanup'.at = "volumes" /\ cleanup'.mounted \in BOOLEAN
  BY <1>4 DEF RuntimeInv
<1>6. \A k \in Calls : Staged(calls[k])' /\ Carried(calls[k])'
  BY <1>4 DEF RuntimeInv, Staged, Carried, D!Gap
<1> QED
  BY <1>3, <1>4, <1>5, <1>6 DEF RuntimeInv, Spares

LEMMA CleanupVolumesKeeps ==
    ASSUME D!RuntimeAssumption, RuntimeInv, D!CleanupVolumes
    PROVE  RuntimeInv' /\ Spares(engine, engine')
<1>1. /\ driver' = driver /\ calls' = calls /\ faults' = faults
      /\ cleanup' = [cleanup EXCEPT !.at = "done", !.mounted = FALSE]
      /\ \/ engine' = engine
         \/ \E o \in D!EngineDeleteVolume(engine) : engine' = o.engine
  BY DEF D!CleanupVolumes
<1>2. /\ cleanup' = [at |-> cleanup'.at, left |-> cleanup'.left, mounted |-> cleanup'.mounted]
      /\ cleanup'.at = "done" /\ cleanup'.mounted \in BOOLEAN
  BY <1>1 DEF RuntimeInv
<1>3. /\ engine' \in D!Engines /\ Len(engine'.boxes) <= MaxBoxes
      /\ Spares(engine, engine')
  <2>1. CASE engine' = engine
    BY <2>1 DEF RuntimeInv, Spares
  <2>2. ASSUME NEW o \in D!EngineDeleteVolume(engine), engine' = o.engine
        PROVE  /\ engine' \in D!Engines /\ Len(engine'.boxes) <= MaxBoxes
               /\ Spares(engine, engine')
    <3> DEFINE f == [engine EXCEPT !.volume = FALSE]
    <3>1. \/ engine' = engine
          \/ engine' = f /\ \A i \in D!Live(engine) : engine.boxes[i].hidden
      <4>1. CASE ~engine.volume \/ \E i \in D!Live(engine) : ~engine.boxes[i].hidden
        <5>1. D!EngineDeleteVolume(engine) \subseteq D!Refused(engine, {404, 409})
          BY <4>1 DEF D!EngineDeleteVolume, D!Refused
        <5> QED
          BY <2>2, <5>1 DEF D!Refused, D!Done
      <4>2. CASE engine.volume /\ \A i \in D!Live(engine) : engine.boxes[i].hidden
        <5>1. D!EngineDeleteVolume(engine) = {D!Done(f, 204)}
          BY <4>2 DEF D!EngineDeleteVolume
        <5> HIDE DEF f
        <5> QED
          BY <2>2, <4>2, <5>1 DEF D!Done
      <4> QED
        BY <4>1, <4>2
    <3>2. f \in D!Engines /\ f.boxes = engine.boxes /\ f.local = engine.local
      BY DEF RuntimeInv, D!Engines
    <3> HIDE DEF f
    <3>3. CASE engine' = engine
      BY <3>3 DEF RuntimeInv, Spares
    <3>4. CASE engine' = f /\ \A i \in D!Live(engine) : engine.boxes[i].hidden
      <4>1. D!Live(engine') = D!Live(engine)
        BY <3>2, <3>4 DEF D!Live, D!Exists
      <4> QED
        BY <3>2, <3>4, <4>1 DEF RuntimeInv, Spares
    <3> QED
      BY <3>1, <3>3, <3>4
  <2> QED
    BY <1>1, <2>1, <2>2
<1>4. \A k \in Calls : Staged(calls[k])' /\ Carried(calls[k])'
  BY <1>1 DEF RuntimeInv, Staged, Carried, D!Gap
<1> QED
  BY <1>1, <1>2, <1>3, <1>4 DEF RuntimeInv

LEMMA CleanupListsKeeps ==
    ASSUME D!RuntimeAssumption, RuntimeInv, D!CleanupLists
    PROVE  RuntimeInv' /\ Spares(engine, engine')
<1>1. /\ driver' = driver /\ calls' = calls /\ engine' = engine
      /\ \E known \in SUBSET D!Lists :
           /\ faults' = faults + (IF known = D!Lists THEN 0 ELSE 1) /\ faults' <= MaxFaults
           /\ cleanup' = [at |-> "containers", left |-> D!Lists,
                mounted |-> \E v \in known : \E d \in D!Inspected(v.id) : d.mounts]
  BY DEF D!CleanupLists
<1>2. PICK known \in SUBSET D!Lists :
        /\ faults' = faults + (IF known = D!Lists THEN 0 ELSE 1) /\ faults' <= MaxFaults
        /\ cleanup' = [at |-> "containers", left |-> D!Lists,
                       mounted |-> \E v \in known : \E d \in D!Inspected(v.id) : d.mounts]
  BY <1>1
<1>3. faults' \in 0 .. MaxFaults
  BY <1>2 DEF RuntimeInv, D!RuntimeAssumption
<1>4. /\ cleanup' = [at |-> cleanup'.at, left |-> cleanup'.left, mounted |-> cleanup'.mounted]
      /\ cleanup'.at = "containers" /\ cleanup'.mounted \in BOOLEAN
  <2> DEFINE m == \E v \in known : \E d \in D!Inspected(v.id) : d.mounts
  <2>1. m \in BOOLEAN
    OBVIOUS
  <2>2. cleanup' = [at |-> "containers", left |-> D!Lists, mounted |-> m]
    BY <1>2
  <2> HIDE DEF m
  <2> QED
    BY <2>1, <2>2
<1>5. \A k \in Calls : Staged(calls[k])' /\ Carried(calls[k])'
  BY <1>1 DEF RuntimeInv, Staged, Carried, D!Gap
<1> QED
  BY <1>1, <1>3, <1>4, <1>5 DEF RuntimeInv, Spares

\* What goes on without the plane.
LEMMA OthersStay ==
    ASSUME D!RuntimeAssumption, RuntimeInv, D!Exits \/ D!TagMoves PROVE RuntimeInv'
<1>1. driver' = driver /\ calls' = calls /\ cleanup' = cleanup /\ faults' = faults
  BY DEF D!Exits, D!TagMoves
<1>2. engine' \in D!Engines /\ Len(engine'.boxes) <= MaxBoxes
  <2>1. CASE D!Exits
    <3>1. PICK i \in D!Live(engine) : engine' = D!SetState(engine, i, "exited")
      BY <2>1 DEF D!Exits
    <3>2. i \in DOMAIN engine.boxes
      BY <3>1 DEF D!Live
    <3> QED
      BY <3>1, <3>2, StateSet DEF RuntimeInv
  <2>2. CASE D!TagMoves
    <3>1. PICK i \in Images : engine' = [engine EXCEPT !.local[i] = "untagged"]
      BY <2>2 DEF D!TagMoves
    <3> DEFINE l == [engine.local EXCEPT ![i] = "untagged"]
    <3>2. l \in [Images -> {"absent", "tagged", "untagged"}]
      BY EngineParts DEF RuntimeInv
    <3>3. engine' = [engine EXCEPT !.local = l]
      BY <3>1
    <3> HIDE DEF l
    <3> QED
      BY <3>2, <3>3, EngineWith DEF RuntimeInv
  <2> QED
    BY <2>1, <2>2
<1>3. \A k \in Calls : Staged(calls[k])' /\ Carried(calls[k])'
  BY <1>1 DEF RuntimeInv, Staged, Carried, D!Gap
<1> QED
  BY <1>1, <1>2, <1>3 DEF RuntimeInv

LEMMA RuntimeStays ==
    ASSUME D!RuntimeAssumption, RuntimeInv, [D!Next]_(D!vars) PROVE RuntimeInv'
<1>1. CASE UNCHANGED D!vars
  BY <1>1 DEF D!vars, RuntimeInv, Staged, Carried, D!Gap
<1> QED
  BY <1>1, BeginStays, OperationStays, CreateContainerStays, UpdateResourcesStays,
     CleanupListsKeeps, CleanupContainersKeeps, CleanupImagesKeeps, CleanupVolumesKeeps,
     OthersStay
  DEF D!Next

LEMMA RuntimeMeans == ASSUME RuntimeInv PROVE D!TypeOK /\ D!AnsweredOkIsDone
<1>1. \A c \in Calls : calls[c] \in CallRows
  BY DEF RuntimeInv
<1>2. D!TypeOK
  BY <1>1 DEF RuntimeInv, D!TypeOK, CallRows
<1>3. D!AnsweredOkIsDone
  BY DEF RuntimeInv, D!AnsweredOkIsDone, Carried
<1> QED
  BY <1>2, <1>3

\* Every step leaves alone what the clean-up must.
LEMMA RuntimeSpares ==
    ASSUME D!RuntimeAssumption, RuntimeInv, [D!Next]_(D!vars) PROVE D!CleanupSpares
<1>1. SUFFICES ASSUME cleanup' # cleanup PROVE Spares(engine, engine')
  BY DEF D!CleanupSpares, Spares
<1>2. ASSUME NEW c \in Calls,
             D!Begin(c) \/ D!Operation(c) \/ D!CreateContainer(c) \/ D!UpdateResources(c)
      PROVE  cleanup' = cleanup
  <2>1. CASE D!Begin(c)
    BY <2>1 DEF D!Begin
  <2>2. CASE D!Operation(c)
    BY <2>2 DEF D!Operation, D!Gets
  <2>3. CASE D!CreateContainer(c)
    BY <2>3 DEF D!CreateContainer, D!Gets
  <2>4. CASE D!UpdateResources(c)
    BY <2>4 DEF D!UpdateResources, D!Gets
  <2> QED
    BY <1>2, <2>1, <2>2, <2>3, <2>4
<1>3. D!Exits \/ D!TagMoves \/ UNCHANGED D!vars => cleanup' = cleanup
  BY DEF D!Exits, D!TagMoves, D!vars
<1>4. D!CleanupLists \/ D!CleanupContainers \/ D!CleanupImages \/ D!CleanupVolumes
  BY <1>1, <1>2, <1>3, Zenon DEF D!Next
<1>5. CASE D!CleanupLists
  BY <1>5, CleanupListsKeeps
<1>6. CASE D!CleanupContainers
  BY <1>6, CleanupContainersKeeps
<1>7. CASE D!CleanupImages
  BY <1>7, CleanupImagesKeeps
<1>8. CASE D!CleanupVolumes
  BY <1>8, CleanupVolumesKeeps
<1> QED
  BY <1>4, <1>5, <1>6, <1>7, <1>8

-----------------------------------------------------------------------------
(* Manifests: what becomes of a request *)

\* A record with the fields of a manifest.
Shaped(m) ==
    m = [name |-> m.name, schema |-> m.schema, image |-> m.image, build |-> m.build,
         clash |-> m.clash, restart |-> m.restart, strategy |-> m.strategy, auto |-> m.auto,
         port |-> m.port, health |-> m.health, domain |-> m.domain]

IsDocument(m) == Shaped(m) /\ m.name \in M!AllNames \cup {""}

LEMMA PlainDocument ==
    ASSUME NEW n \in M!AllNames \cup {""}
    PROVE  IsDocument(M!Plain(n)) /\ M!Plain(n).name = n /\ M!Plain(n).build = "none"
  BY DEF M!Plain, IsDocument, Shaped

\* m is d with another image and another build.
Rebuilt(m, d, i, b) == m = [d EXCEPT !.image = i, !.build = b]

LEMMA ImageAndBuild ==
    ASSUME NEW d, IsDocument(d), NEW i, NEW b, NEW m, Rebuilt(m, d, i, b)
    PROVE  IsDocument(m) /\ m.name = d.name /\ m.build = b
<1>1. m = [name |-> d.name, schema |-> d.schema, image |-> i, build |-> b,
           clash |-> d.clash, restart |-> d.restart, strategy |-> d.strategy,
           auto |-> d.auto, port |-> d.port, health |-> d.health, domain |-> d.domain]
  BY DEF IsDocument, Shaped, Rebuilt
<1> QED
  BY <1>1 DEF IsDocument, Shaped

LEMMA JustOne ==
    ASSUME NEW d, IsDocument(d), NEW v, NEW m,
           \/ m = [d EXCEPT !.schema = v] \/ m = [d EXCEPT !.image = v]
           \/ m = [d EXCEPT !.clash = v] \/ m = [d EXCEPT !.restart = v]
           \/ m = [d EXCEPT !.strategy = v] \/ m = [d EXCEPT !.auto = v]
    PROVE  IsDocument(m) /\ m.name = d.name /\ m.build = d.build
  BY DEF IsDocument, Shaped

LEMMA NameTaken ==
    ASSUME NEW d, IsDocument(d), NEW m, m = [d EXCEPT !.name = ""]
    PROVE  IsDocument(m)
  BY DEF IsDocument, Shaped

LEMMA PortAndHealth ==
    ASSUME NEW d, IsDocument(d), NEW p, NEW h, NEW m, m = [d EXCEPT !.port = p, !.health = h]
    PROVE  IsDocument(m)
<1>1. m = [name |-> d.name, schema |-> d.schema, image |-> d.image, build |-> d.build,
           clash |-> d.clash, restart |-> d.restart, strategy |-> d.strategy,
           auto |-> d.auto, port |-> p, health |-> h, domain |-> d.domain]
  BY DEF IsDocument, Shaped
<1> QED
  BY <1>1 DEF IsDocument, Shaped

LEMMA DocumentVariants ==
    ASSUME NEW p, IsDocument(p), NEW d \in M!Variants(p) PROVE IsDocument(d)
<1> DEFINE schema == [p EXCEPT !.schema = FALSE]
           named == [p EXCEPT !.name = ""]
           image == [p EXCEPT !.image = ""]
           clash == [p EXCEPT !.clash = TRUE]
           no == [p EXCEPT !.restart = "no"]
           never == [p EXCEPT !.restart = "never"]
           canary == [p EXCEPT !.strategy = "canary"]
           green == [p EXCEPT !.strategy = "blue-green"]
           ported == [p EXCEPT !.port = M!WebPort, !.health = "http"]
<1>1. IsDocument(schema) /\ IsDocument(image) /\ IsDocument(clash)
  BY JustOne
<1>2. IsDocument(no) /\ IsDocument(never) /\ IsDocument(canary) /\ IsDocument(green)
  BY JustOne
<1>3. IsDocument(named)
  BY NameTaken
<1>4. IsDocument(ported)
  BY PortAndHealth, Zenon
<1>5. d \in {p, schema, named, image, clash, no, never, canary, green, ported}
  BY Zenon DEF M!Variants
<1> HIDE DEF schema, named, image, clash, no, never, canary, green, ported
<1> QED
  BY <1>1, <1>2, <1>3, <1>4, <1>5

LEMMA PostedDocuments ==
    ASSUME NEW n \in UserNames, NEW d \in M!Documents(n) PROVE IsDocument(d)
<1> DEFINE p == M!Plain(n)
<1>1. n \in M!AllNames
  BY DEF M!AllNames
<1>2. IsDocument(p)
  BY <1>1, PlainDocument
<1>3. d \in M!Variants(p) \/ d \in M!Scaled(p) \/ d \in M!Built(p)
  BY DEF M!Documents
<1> HIDE DEF p
<1>4. CASE d \in M!Variants(p)
  BY <1>2, <1>4, DocumentVariants
<1>5. CASE d \in M!Scaled(p)
  <2>1. PICK a \in M!Autos : d = [p EXCEPT !.auto = a]
    BY <1>5 DEF M!Scaled
  <2> QED
    BY <1>2, <2>1, JustOne
<1>6. CASE d \in M!Built(p)
  <2>1. PICK i \in {"", "app"}, b \in {"empty", "inline", "git", "local"} :
           d = [p EXCEPT !.image = i, !.build = b]
    BY <1>6 DEF M!Built
  <2>2. Rebuilt(d, p, i, b)
    BY <2>1 DEF Rebuilt
  <2> QED
    BY <1>2, <2>2, ImageAndBuild
<1> QED
  BY <1>3, <1>4, <1>5, <1>6

\* What a request holds.
RequestHolds(r) ==
    /\ r.kind \in {"image", "dockerfile", "compose", "stack", "git", "manifest", "template"}
    /\ r.name \in UserNames \cup {""} /\ r.stack \in M!Compose
    /\ r.kind \in {"image", "dockerfile", "compose", "stack", "git"} => r.name \in UserNames
    /\ r.kind \in {"manifest", "template"} => IsDocument(r.doc)
    /\ r.kind = "git" => r.repo \in M!Repositories

LEMMA OfferedNames == ASSUME NEW k PROVE M!Offered(k) \subseteq UserNames
  BY DEF M!Offered

LEMMA Requested == ASSUME NEW r \in M!Requests PROVE RequestHolds(r)
<1> DEFINE build == Sources \cap {"image", "dockerfile"}
           multi == Sources \cap {"compose", "stack"}
<1>e. {} \in M!Compose
  BY DEF M!Compose
<1>k. build \subseteq {"image", "dockerfile"} /\ multi \subseteq {"compose", "stack"}
  OBVIOUS
<1>r. \/ r \in M!OfNames \/ r \in M!OfStacks \/ r \in M!OfRepositories
      \/ r \in M!OfManifests \/ r \in M!OfTemplates
  BY DEF M!Requests
<1>n. M!OfNames = {M!Named(k, n) : k \in build, n \in UserNames}
  BY DEF M!OfNames
<1>s. M!OfStacks = {M!Stacked(k, n, s) : k \in multi, n \in UserNames, s \in M!Compose}
  BY DEF M!OfStacks
<1> HIDE DEF build, multi
<1>1. ASSUME NEW k \in build, NEW n \in UserNames, r = M!Named(k, n) PROVE RequestHolds(r)
  BY <1>e, <1>k, <1>1 DEF M!Request, M!Named, RequestHolds
<1>2. ASSUME NEW k \in multi, NEW n \in UserNames, NEW s \in M!Compose, r = M!Stacked(k, n, s)
      PROVE  RequestHolds(r)
  BY <1>k, <1>2 DEF M!Request, M!Stacked, RequestHolds
<1>3. ASSUME NEW n \in M!Offered("git"), NEW s \in M!Compose, NEW p \in M!Repositories,
             r = M!Cloned(n, s, p)
      PROVE  RequestHolds(r)
  BY <1>3, OfferedNames DEF M!Request, M!Cloned, RequestHolds
<1>4. ASSUME NEW n \in UserNames, NEW g \in {"", n}, NEW d \in M!Documents(n),
             NEW k \in {"manifest", "template"}, r = M!Written(k, g, d)
      PROVE  RequestHolds(r)
  <2>1. IsDocument(d)
    BY PostedDocuments
  <2> QED
    BY <1>e, <1>4, <2>1 DEF M!Request, M!Written, RequestHolds
<1>5. CASE r \in M!OfNames
  <2>1. PICK k \in build, n \in UserNames : r = M!Named(k, n)
    BY <1>5, <1>n
  <2> QED
    BY <1>1, <2>1
<1>6. CASE r \in M!OfStacks
  <2>1. PICK k \in multi, n \in UserNames, s \in M!Compose : r = M!Stacked(k, n, s)
    BY <1>6, <1>s
  <2> QED
    BY <1>2, <2>1
<1>7. CASE r \in M!OfRepositories
  <2>1. PICK n \in M!Offered("git"), s \in M!Compose, p \in M!Repositories :
           r = M!Cloned(n, s, p)
    BY <1>7 DEF M!OfRepositories
  <2> QED
    BY <1>3, <2>1
<1>8. CASE r \in M!OfManifests
  <2>1. PICK n \in UserNames : r \in M!Posted(n)
    BY <1>8, OfferedNames DEF M!OfManifests
  <2>2. PICK g \in M!NameOrNone(n), d \in M!Documents(n) : r = M!Written("manifest", g, d)
    BY <2>1 DEF M!Posted
  <2> QED
    BY <1>4, <2>2 DEF M!NameOrNone
<1>9. CASE r \in M!OfTemplates
  <2>1. PICK n \in UserNames : r \in M!Filled(n)
    BY <1>9, OfferedNames DEF M!OfTemplates
  <2>2. PICK d \in M!Documents(n) : r = M!Written("template", "", d)
    BY <2>1 DEF M!Filled, M!Resolved
  <2> QED
    BY <1>4, <2>2
<1> QED
  BY <1>r, <1>5, <1>6, <1>7, <1>8, <1>9

LEMMA ShortNames == UserNames \subseteq M!AllNames
  BY DEF M!AllNames

LEMMA LongNames ==
    ASSUME NEW n \in UserNames, NEW z \in {"web", "db"} PROVE M!FullName(n, z) \in M!AllNames
<1> DEFINE services == {"web", "db"}
<1>1. M!AllNames = UserNames \cup {M!FullName(k, s) : k \in UserNames, s \in services}
  BY DEF M!AllNames
<1> HIDE DEF services
<1>2. z \in services
  BY DEF services
<1> QED
  BY <1>1, <1>2

\* m is d as a service of a stack.
InStack(m, d, i, s, r) == m = [d EXCEPT !.image = i, !.strategy = s, !.restart = r]

LEMMA Composed ==
    ASSUME NEW d, IsDocument(d), NEW i, NEW s, NEW r, NEW m, InStack(m, d, i, s, r)
    PROVE  IsDocument(m) /\ m.build = d.build
<1>1. m = [name |-> d.name, schema |-> d.schema, image |-> i, build |-> d.build,
           clash |-> d.clash, restart |-> r, strategy |-> s, auto |-> d.auto,
           port |-> d.port, health |-> d.health, domain |-> d.domain]
  BY DEF IsDocument, Shaped, InStack
<1> QED
  BY <1>1 DEF IsDocument, Shaped

LEMMA ComposeResults ==
    ASSUME NEW n \in UserNames, NEW s \in M!Compose, NEW c \in M!FromCompose(n, s)
    PROVE  IsDocument(c.m) /\ c.m.build = "none"
<1>1. PICK x \in s :
        c = [m |-> [M!Plain(M!FullName(n, x.svc)) EXCEPT
                      !.image = x.image, !.strategy = "rolling",
                      !.restart = IF x.restart \in {"", "unless-stopped", "on-failure"}
                                  THEN "always" ELSE x.restart],
             build |-> "none"]
  BY DEF M!FromCompose
<1>2. x.svc \in {"web", "db"}
  <2> DEFINE a == [svc |-> "web", image |-> "", restart |-> ""]
             b == [svc |-> "web", image |-> "nginx", restart |-> "no"]
             d == [svc |-> "web", image |-> "nginx", restart |-> "unless-stopped"]
             e == [svc |-> "db", image |-> "app", restart |-> ""]
  <2>1. a.svc = "web" /\ b.svc = "web" /\ d.svc = "web" /\ e.svc = "db"
    OBVIOUS
  <2>2. s \in {{}, {a}, {b}, {d, e}}
    BY Zenon DEF M!Compose
  <2> HIDE DEF a, b, d, e
  <2> QED
    BY <2>1, <2>2
<1> DEFINE name == M!FullName(n, x.svc)
           p == M!Plain(name)
           image == x.image
           restart == IF x.restart \in {"", "unless-stopped", "on-failure"}
                      THEN "always" ELSE x.restart
           m == [p EXCEPT !.image = image, !.strategy = "rolling", !.restart = restart]
<1>3. name \in M!AllNames
  BY <1>2, LongNames
<1>4. c = [m |-> m, build |-> "none"]
  BY <1>1
<1> HIDE DEF name
<1>5. IsDocument(p) /\ p.build = "none"
  BY <1>3, PlainDocument
<1> HIDE DEF p, image, restart
<1>6. IsDocument(m) /\ m.build = "none"
  <2>1. InStack(m, p, image, "rolling", restart)
    BY Zenon DEF InStack
  <2> HIDE DEF m
  <2> QED
    BY <1>5, <2>1, Composed
<1> HIDE DEF m
<1> QED
  BY <1>4, <1>6

LEMMA DockerfileResults ==
    ASSUME NEW n \in UserNames, NEW b, NEW c \in M!FromDockerfile(n, b)
    PROVE  IsDocument(c.m) /\ c.m.build = "none"
<1> DEFINE p == M!Plain(n)
           m == [p EXCEPT !.image = M!Tag]
<1>1. c = [m |-> m, build |-> b]
  BY Zenon DEF M!FromDockerfile
<1>2. IsDocument(p) /\ p.build = "none"
  BY PlainDocument, ShortNames
<1> HIDE DEF p
<1>3. IsDocument(m) /\ m.build = "none"
  BY <1>2, JustOne
<1> HIDE DEF m
<1> QED
  BY <1>1, <1>3

LEMMA ServiceResults ==
    ASSUME NEW d, IsDocument(d), NEW c \in M!FromService(d)
    PROVE  IsDocument(c.m) /\ c.m.build = "none"
<1>1. CASE d.build = "none"
  <2>1. c = [m |-> d, build |-> "none"]
    BY <1>1 DEF M!FromService
  <2> QED
    BY <1>1, <2>1
<1>2. CASE d.build # "none"
  <2> DEFINE m == [d EXCEPT !.image = M!Tag, !.build = "none"]
             how == IF d.build \in {"inline", "git"} THEN d.build ELSE "impossible"
  <2>1. c = [m |-> m, build |-> how]
    BY <1>2 DEF M!FromService
  <2>2. IsDocument(m) /\ m.build = "none"
    <3>1. Rebuilt(m, d, M!Tag, "none")
      BY Zenon DEF Rebuilt
    <3> HIDE DEF m
    <3> QED
      BY <3>1, ImageAndBuild
  <2> HIDE DEF m, how
  <2> QED
    BY <2>1, <2>2
<1> QED
  BY <1>1, <1>2

\* The manifests that a request may become.
LEMMA Converted ==
    ASSUME NEW r \in M!Requests, NEW c \in M!Convert(r)
    PROVE  IsDocument(c.m) /\ c.m.build = "none"
<1>r. RequestHolds(r)
  BY Requested
<1>1. CASE r.kind = "image"
  <2>1. c = [m |-> M!Plain(r.name), build |-> "none"]
    BY <1>1 DEF M!Convert, M!FromImage
  <2>2. r.name \in M!AllNames
    BY <1>r, <1>1, ShortNames DEF RequestHolds
  <2> QED
    BY <2>1, <2>2, PlainDocument
<1>2. CASE r.kind = "dockerfile"
  BY <1>2, <1>r, DockerfileResults DEF M!Convert, RequestHolds
<1>3. CASE r.kind \in {"compose", "stack"}
  BY <1>3, <1>r, ComposeResults DEF M!Convert, RequestHolds
<1>4. CASE r.kind = "git"
  <2>1. /\ c \in M!FromGit(r) /\ r.name \in UserNames /\ r.stack \in M!Compose
        /\ r.repo \in M!Repositories
    BY <1>4, <1>r DEF M!Convert, RequestHolds
  <2>2. CASE r.repo = "compose"
    BY <2>1, <2>2, ComposeResults DEF M!FromGit
  <2>3. CASE r.repo = "dockerfile"
    BY <2>1, <2>3, DockerfileResults DEF M!FromGit
  <2>4. CASE r.repo = "empty"
    BY <2>1, <2>4 DEF M!FromGit
  <2> QED
    BY <2>1, <2>2, <2>3, <2>4 DEF M!Repositories
<1>5. CASE r.kind \in {"manifest", "template"}
  <2>1. c \in M!FromService(r.doc) /\ IsDocument(r.doc)
    BY <1>5, <1>r DEF M!Convert, RequestHolds
  <2> QED
    BY <2>1, ServiceResults
<1> QED
  BY <1>r, <1>1, <1>2, <1>3, <1>4, <1>5 DEF RequestHolds

\* A stack of at most one service, and any other request, becomes at most one manifest.
LEMMA SameCountM == ASSUME NEW X PROVE M!Cardinality(X) = Cardinality(X)
  BY DEF M!Cardinality, Cardinality, M!IsFiniteSet, IsFiniteSet

LEMMA OneService ==
    ASSUME NEW s \in M!Compose, M!Cardinality(s) <= 1, NEW x \in s, NEW y \in s
    PROVE  x = y
<1> DEFINE a == [svc |-> "web", image |-> "nginx", restart |-> "unless-stopped"]
           b == [svc |-> "db", image |-> "app", restart |-> ""]
           d == [svc |-> "web", image |-> "", restart |-> ""]
           e == [svc |-> "web", image |-> "nginx", restart |-> "no"]
<1>1. a # b
  OBVIOUS
<1>2. s \in {{}, {d}, {e}, {a, b}}
  BY Zenon DEF M!Compose
<1> HIDE DEF a, b, d, e
<1>3. s # {a, b}
  <2>1. IsFiniteSet({b}) /\ Cardinality({b}) = 1
    BY FS_Singleton
  <2>2. Cardinality({b} \cup {a}) = 2
    BY <1>1, <2>1, FS_AddElement
  <2>3. {b} \cup {a} = {a, b}
    OBVIOUS
  <2>4. Cardinality({a, b}) = 2
    BY <2>2, <2>3
  <2>5. M!Cardinality({a, b}) = 2
    BY <2>4, SameCountM
  <2> QED
    BY <2>5
<1> QED
  BY <1>2, <1>3

LEMMA OneResult ==
    ASSUME NEW r \in M!Requests, M!Cardinality(r.stack) <= 1,
           NEW c \in M!Convert(r), NEW d \in M!Convert(r)
    PROVE  c = d
<1>r. RequestHolds(r)
  BY Requested
<1>s. \A x, y \in r.stack : x = y
  BY <1>r, OneService DEF RequestHolds
<1>1. CASE r.kind = "image"
  BY <1>1 DEF M!Convert, M!FromImage
<1>2. CASE r.kind = "dockerfile"
  BY <1>2 DEF M!Convert, M!FromDockerfile
<1>3. ASSUME c \in M!FromCompose(r.name, r.stack), d \in M!FromCompose(r.name, r.stack)
      PROVE  c = d
  BY <1>s, <1>3 DEF M!FromCompose
<1>4. CASE r.kind \in {"compose", "stack"}
  BY <1>3, <1>4 DEF M!Convert
<1>5. CASE r.kind = "git"
  <2>1. c \in M!FromGit(r) /\ d \in M!FromGit(r)
    BY <1>5 DEF M!Convert
  <2>2. CASE r.repo = "compose"
    BY <1>3, <2>1, <2>2 DEF M!FromGit
  <2>3. CASE r.repo = "dockerfile"
    BY <2>1, <2>3 DEF M!FromGit, M!FromDockerfile
  <2>4. CASE r.repo = "empty"
    BY <2>1, <2>4 DEF M!FromGit
  <2> QED
    BY <1>5, <1>r, <2>2, <2>3, <2>4 DEF M!Repositories, RequestHolds
<1>6. CASE r.kind \in {"manifest", "template"}
  <2>1. c \in M!FromService(r.doc) /\ d \in M!FromService(r.doc)
    BY <1>6 DEF M!Convert
  <2>2. \E x : M!FromService(r.doc) \subseteq {x}
    <3>1. CASE r.doc.name = ""
      BY <3>1 DEF M!FromService
    <3>2. CASE r.doc.name # "" /\ r.doc.build = "none"
      <4>1. M!FromService(r.doc) = {[m |-> r.doc, build |-> "none"]}
        BY <3>2 DEF M!FromService
      <4> QED
        BY <4>1, Zenon
    <3>3. CASE r.doc.name # "" /\ r.doc.build # "none"
      <4> DEFINE m == [r.doc EXCEPT !.image = M!Tag, !.build = "none"]
                 b == IF r.doc.build \in {"inline", "git"} THEN r.doc.build ELSE "impossible"
      <4>1. M!FromService(r.doc) = {[m |-> m, build |-> b]}
        BY <3>3 DEF M!FromService
      <4> HIDE DEF m, b
      <4> QED
        BY <4>1, Zenon
    <3> QED
      BY <3>1, <3>2, <3>3
  <2> QED
    BY <2>1, <2>2
<1> QED
  BY <1>r, <1>1, <1>2, <1>4, <1>5, <1>6 DEF RequestHolds

-----------------------------------------------------------------------------
(* Manifests: the invariant *)

\* A manifest that resolves and asks for no build.
Fits(m) == IsDocument(m) /\ M!Validates(m) /\ m.build = "none"

\* A row of a stack of one service at most, or of anything else.
Single(w) == M!Cardinality(w.stack) <= 1

Statuses == {"", "deploying", "running", "failed", "stopped"}

\* A stored manifest fits, and so does its name.
RowOk(w) ==
    /\ w = [phase |-> w.phase, name |-> w.name, status |-> w.status, stored |-> w.stored,
            m |-> w.m, stack |-> w.stack]
    /\ w.phase \in {"unborn", "live", "deleted"} /\ w.stored \in BOOLEAN
    /\ w.name \in M!AllNames \cup {""} /\ w.status \in Statuses
    /\ w.stored => w.phase = "live" /\ Fits(w.m) /\ (Single(w) => w.m.name = w.name)

\* The manifest that a deploy job has made of its request.
Deployed(b) ==
    b.at # "queued" =>
        /\ Fits(b.m) /\ b.name = b.m.name
        /\ \E c \in M!Convert(b.asked) : c.m = b.m

Changes(b) == b.kind \in {"redeploy", "update"} /\ b.at # "queued"

SlotShaped(b) ==
    b = [kind |-> b.kind, at |-> b.at, id |-> b.id, tries |-> b.tries, asked |-> b.asked,
         m |-> b.m, build |-> b.build, name |-> b.name, image |-> b.image,
         domain |-> b.domain]

Working(b) ==
    /\ SlotShaped(b)
    /\ b.id \in RowIds /\ b.tries \in 0 .. MaxTries - 1
    /\ b.kind \in {"deploy", "redeploy", "update", "delete"}
    /\ b.kind = "deploy" => b.asked \in M!Requests /\ Deployed(b)
    /\ Changes(b) => Fits(b.m)

SlotOk(b) == b = M!FreeSlot \/ Working(b)

\* What a manifest that is held must have in common with the row it was read from.
Agrees(m, w) == w.phase = "live" => w.stored /\ (Single(w) => m.name = w.name)

\* The names that a deploy job may give to its row when it is run again.
Renames(b, w) ==
    w.phase = "live" =>
        /\ b.asked.stack = w.stack
        /\ (w.stored /\ Single(w)) =>
             \A c \in M!Convert(b.asked) : M!Validates(c.m) => c.m.name = w.name

\* A job and its row.
Fitting(b, w) ==
    /\ w.phase # "unborn"
    /\ b.kind = "deploy" => Renames(b, w)
    /\ Changes(b) => Agrees(b.m, w)

RowsOk  == rows = [id \in RowIds |-> rows[id]] /\ \A id \in RowIds : RowOk(rows[id])
SlotsOk == job = [j \in Jobs |-> job[j]] /\ \A j \in Jobs : SlotOk(job[j])
JobsFit == \A j \in Jobs : Working(job[j]) => Fitting(job[j], rows[job[j].id])

OneDeploy ==
    \A j, k \in Jobs :
        (job[j].kind = "deploy" /\ job[k].kind = "deploy" /\ job[j].id = job[k].id) => j = k

PatchOk ==
    patch = M!NoPatch \/ /\ patch.at = "read" /\ patch.id \in RowIds /\ Fits(patch.m)
                         /\ rows[patch.id].phase # "unborn"
                         /\ Agrees(patch.m, rows[patch.id])

BoxesOk ==
    /\ boxes = [n \in M!AllNames |-> boxes[n]]
    /\ \A n \in M!AllNames : boxes[n] = M!NoBox \/ boxes[n].owner \in RowIds

CountsOk == edits \in 0 .. MaxEdits /\ faults \in 0 .. MaxFaults

ManifestsInv == RowsOk /\ SlotsOk /\ JobsFit /\ OneDeploy /\ PatchOk /\ BoxesOk /\ CountsOk

LEMMA FreeIsIdle == ~Working(M!FreeSlot) /\ M!FreeSlot.kind = "none"
  BY DEF Working, M!FreeSlot

LEMMA UnbornRow == RowOk(M!NoRow)
  BY DEF RowOk, M!NoRow, Statuses

LEMMA ManifestsInit == ASSUME M!Init, M!ManifestsAssumption PROVE ManifestsInv
<1>1. RowsOk
  BY UnbornRow DEF M!Init, RowsOk
<1>2. SlotsOk /\ JobsFit /\ OneDeploy
  BY FreeIsIdle DEF M!Init, SlotsOk, JobsFit, OneDeploy, SlotOk
<1>3. PatchOk /\ BoxesOk
  BY DEF M!Init, PatchOk, BoxesOk
<1>4. CountsOk
  BY DEF M!Init, CountsOk, M!ManifestsAssumption
<1> QED
  BY <1>1, <1>2, <1>3, <1>4 DEF ManifestsInv

LEMMA ManifestsMeans ==
    ASSUME ManifestsInv, M!ManifestsAssumption PROVE M!TypeOK /\ M!ManifestFitsItsRow
<1>1. \A id \in RowIds : /\ rows[id].phase \in {"unborn", "live", "deleted"}
                      /\ rows[id].name \in M!AllNames \cup {""}
                      /\ rows[id].status \in Statuses
  BY DEF ManifestsInv, RowsOk, RowOk
<1>2. \A n \in M!AllNames : boxes[n] = M!NoBox \/ boxes[n].owner \in RowIds
  BY DEF ManifestsInv, BoxesOk
<1>3. \A j \in Jobs : job[j] = M!FreeSlot \/ job[j].tries \in 0 .. MaxTries - 1
  BY DEF ManifestsInv, SlotsOk, SlotOk, Working
<1>4. patch.at \in {"idle", "read"}
  BY DEF ManifestsInv, PatchOk, M!NoPatch
<1>5. M!TypeOK
  BY <1>1, <1>2, <1>3, <1>4 DEF M!TypeOK, ManifestsInv, CountsOk, Statuses
<1>6. \A id \in RowIds : rows[id].stored =>
         /\ M!Validates(rows[id].m) /\ rows[id].m.build = "none"
         /\ M!Cardinality(rows[id].stack) <= 1 => rows[id].m.name = rows[id].name
  BY DEF ManifestsInv, RowsOk, RowOk, Fits, Single
<1> QED
  BY <1>5, <1>6 DEF M!ManifestFitsItsRow

-----------------------------------------------------------------------------
(* Manifests: what a change leaves of a manifest *)

LEMMA OverrideFits ==
    ASSUME NEW m, Fits(m), NEW i
    PROVE  Fits(M!Override(m, i)) /\ M!Override(m, i).name = m.name
<1>1. CASE i = ""
  BY <1>1 DEF M!Override
<1>2. CASE i # ""
  <2> DEFINE e == [name |-> m.name, schema |-> m.schema, image |-> i, build |-> "none",
                   clash |-> m.clash, restart |-> m.restart, strategy |-> m.strategy,
                   auto |-> m.auto, port |-> m.port, health |-> m.health,
                   domain |-> m.domain]
  <2>1. M!Override(m, i) = e
    BY <1>2 DEF M!Override, Fits, IsDocument, Shaped
  <2>2. IsDocument(e) /\ e.build = "none" /\ e.name = m.name
    BY DEF Fits, IsDocument, Shaped
  <2>3. M!Validates(e)
    BY <1>2 DEF Fits, M!Validates
  <2> HIDE DEF e
  <2> QED
    BY <2>1, <2>2, <2>3 DEF Fits
<1> QED
  BY <1>1, <1>2

\* e is m with another image, build and domain; or with another strategy and scaling.
Edited(e, m, i, b, d) == e = [m EXCEPT !.image = i, !.build = b, !.domain = d]

Replanned(e, m, s, a) == e = [m EXCEPT !.strategy = s, !.auto = a]

LEMMA EditedFields ==
    ASSUME NEW m, IsDocument(m), NEW i, NEW b, NEW d, NEW e, Edited(e, m, i, b, d)
    PROVE  e = [name |-> m.name, schema |-> m.schema, image |-> i, build |-> b,
                clash |-> m.clash, restart |-> m.restart, strategy |-> m.strategy,
                auto |-> m.auto, port |-> m.port, health |-> m.health, domain |-> d]
  BY DEF Edited, IsDocument, Shaped

LEMMA ReplannedFields ==
    ASSUME NEW m, IsDocument(m), NEW s, NEW a, NEW e, Replanned(e, m, s, a)
    PROVE  e = [name |-> m.name, schema |-> m.schema, image |-> m.image, build |-> m.build,
                clash |-> m.clash, restart |-> m.restart, strategy |-> s, auto |-> a,
                port |-> m.port, health |-> m.health, domain |-> m.domain]
  BY DEF Replanned, IsDocument, Shaped

LEMMA ChangedFits ==
    ASSUME NEW m, Fits(m), NEW i, NEW d
    PROVE  Fits(M!Changed(m, i, d)) /\ M!Changed(m, i, d).name = m.name
<1> DEFINE image == IF i # "" THEN i ELSE m.image
           domain == IF d # "" THEN d ELSE m.domain
           build == IF i # "" /\ i # m.image THEN "none" ELSE m.build
           e == [name |-> m.name, schema |-> m.schema, image |-> image, build |-> build,
                 clash |-> m.clash, restart |-> m.restart, strategy |-> m.strategy,
                 auto |-> m.auto, port |-> m.port, health |-> m.health, domain |-> domain]
<1>1. M!Changed(m, i, d) = e
  <2>1. Edited(M!Changed(m, i, d), m, image, build, domain)
    BY Zenon DEF Edited, M!Changed
  <2> HIDE DEF image, build, domain
  <2> QED
    BY <2>1, EditedFields DEF Fits
<1>b. build = "none"
  BY DEF Fits
<1>2. image # ""
  BY DEF Fits, M!Validates
<1> HIDE DEF image, domain, build
<1>3. IsDocument(e) /\ e.build = "none" /\ e.name = m.name
  BY <1>b DEF Fits, IsDocument, Shaped
<1>4. M!Validates(e)
  BY <1>2, <1>b DEF Fits, M!Validates
<1> HIDE DEF e
<1> QED
  BY <1>1, <1>3, <1>4 DEF Fits

\* What the PATCH makes of a manifest.
Rescaled(m, s) ==
    [m EXCEPT !.strategy = IF s.strategy # "" THEN s.strategy ELSE @,
              !.auto = IF s.auto # M!NoAuto THEN s.auto ELSE @]

LEMMA RescaledFits ==
    ASSUME NEW m, Fits(m), NEW s \in M!Scalings, M!Accepted(s)
    PROVE  Fits(Rescaled(m, s)) /\ Rescaled(m, s).name = m.name
<1> DEFINE strategy == IF s.strategy # "" THEN s.strategy ELSE m.strategy
           auto == IF s.auto # M!NoAuto THEN s.auto ELSE m.auto
           e == [name |-> m.name, schema |-> m.schema, image |-> m.image, build |-> m.build,
                 clash |-> m.clash, restart |-> m.restart, strategy |-> strategy,
                 auto |-> auto, port |-> m.port, health |-> m.health, domain |-> m.domain]
<1>1. Rescaled(m, s) = e
  <2>1. Replanned(Rescaled(m, s), m, strategy, auto)
    BY Zenon DEF Replanned, Rescaled
  <2> HIDE DEF strategy, auto
  <2> QED
    BY <2>1, ReplannedFields DEF Fits
<1>2. strategy \in {"", "rolling", "recreate", "blue-green"}
  BY DEF Fits, M!Validates, M!Scalings
<1>3. auto.on => auto.metric \in {"cpu", "memory", "requests"} /\ auto.min <= auto.max
  <2>1. CASE s.auto # M!NoAuto
    BY <2>1 DEF M!Scalings, M!Accepted
  <2>2. CASE s.auto = M!NoAuto
    BY <2>2 DEF Fits, M!Validates
  <2> QED
    BY <2>1, <2>2
<1> HIDE DEF strategy, auto
<1>4. IsDocument(e) /\ e.build = "none" /\ e.name = m.name
  BY DEF Fits, IsDocument, Shaped
<1>5. M!Validates(e)
  BY <1>2, <1>3 DEF Fits, M!Validates
<1> HIDE DEF e
<1> QED
  BY <1>1, <1>4, <1>5 DEF Fits

-----------------------------------------------------------------------------
(* Manifests: rows, jobs and boxes that stay as they were, or nearly so *)

\* v is w, but for the status.
Alike(w, v) ==
    /\ v.phase = w.phase /\ v.name = w.name /\ v.stored = w.stored /\ v.m = w.m
    /\ v.stack = w.stack

RowsKeep == RowsOk' /\ \A id \in RowIds : Alike(rows[id], rows'[id])

\* c is what becomes of the job b when no manifest is made, read or stored.
Continues(b, c) ==
    \/ c = M!FreeSlot
    \/ c = b
    \/ /\ Working(b) /\ Working(c)
       /\ c.kind = b.kind /\ c.id = b.id /\ c.asked = b.asked
       /\ Changes(c) => Changes(b) /\ c.m = b.m

JobsGoOn == SlotsOk' /\ \A j \in Jobs : Continues(job[j], job'[j])

LEMMA SlotIsIdle ==
    ASSUME NEW b, SlotOk(b) PROVE b = M!FreeSlot <=> ~Working(b)
  BY FreeIsIdle DEF SlotOk

LEMMA FitsOn ==
    ASSUME NEW b, NEW w, Fitting(b, w), NEW v, Alike(w, v) PROVE Fitting(b, v)
<1>1. Single(v) <=> Single(w)
  BY DEF Alike, Single
<1> QED
  BY <1>1 DEF Alike, Fitting, Renames, Agrees

LEMMA GoesOn ==
    ASSUME NEW b, NEW w, Working(b) => Fitting(b, w), NEW c, Continues(b, c), Working(c)
    PROVE  Fitting(c, w) /\ c.id = b.id /\ c.kind = b.kind /\ Working(b)
<1>1. CASE c = b
  BY <1>1
<1>2. CASE c # b
  <2>1. /\ Working(b) /\ c.kind = b.kind /\ c.id = b.id /\ c.asked = b.asked
        /\ Changes(c) => Changes(b) /\ c.m = b.m
    BY <1>2, FreeIsIdle DEF Continues
  <2>2. Fitting(b, w)
    BY <2>1
  <2>3. Renames(b, w) => Renames(c, w)
    BY <2>1 DEF Renames
  <2> QED
    BY <2>1, <2>2, <2>3 DEF Fitting
<1> QED
  BY <1>1, <1>2

LEMMA JobsStayFit ==
    ASSUME ManifestsInv, RowsKeep, JobsGoOn PROVE JobsFit' /\ OneDeploy'
<1>1. ASSUME NEW j \in Jobs, Working(job'[j])
      PROVE  Fitting(job'[j], rows'[job'[j].id])
  <2>1. Continues(job[j], job'[j])
    BY DEF JobsGoOn
  <2>2. Working(job[j]) => Fitting(job[j], rows[job[j].id])
    BY DEF ManifestsInv, JobsFit
  <2>3. Fitting(job'[j], rows[job[j].id]) /\ job'[j].id = job[j].id
    BY <1>1, <2>1, <2>2, GoesOn
  <2>4. job'[j].id \in RowIds
    BY <1>1 DEF Working
  <2>5. Alike(rows[job[j].id], rows'[job'[j].id])
    BY <2>3, <2>4 DEF RowsKeep
  <2> QED
    BY <2>3, <2>5, FitsOn
<1>2. ASSUME NEW j \in Jobs, job'[j].kind = "deploy"
      PROVE  job[j].kind = "deploy" /\ job[j].id = job'[j].id
  <2>1. Continues(job[j], job'[j])
    BY DEF JobsGoOn
  <2> QED
    BY <1>2, <2>1, FreeIsIdle DEF Continues
<1>3. OneDeploy'
  BY <1>2 DEF ManifestsInv, OneDeploy
<1> QED
  BY <1>1, <1>3 DEF JobsFit

LEMMA PatchStaysOk ==
    ASSUME ManifestsInv, RowsKeep, UNCHANGED patch PROVE PatchOk'
<1>1. CASE patch = M!NoPatch
  BY <1>1 DEF PatchOk
<1>2. CASE patch # M!NoPatch
  <2> DEFINE w == rows[patch.id]
             v == rows'[patch.id]
  <2>1. /\ patch.at = "read" /\ patch.id \in RowIds /\ Fits(patch.m)
        /\ w.phase # "unborn" /\ Agrees(patch.m, w)
    BY <1>2 DEF ManifestsInv, PatchOk
  <2>2. Alike(w, v)
    BY <2>1 DEF RowsKeep
  <2> HIDE DEF w, v
  <2>3. v.phase # "unborn" /\ Agrees(patch.m, v)
    BY <2>1, <2>2 DEF Alike, Agrees, Single
  <2> QED
    BY <2>1, <2>3 DEF PatchOk, v
<1> QED
  BY <1>1, <1>2

\* A step that changes no more than this keeps the invariant.
LEMMA Quietly ==
    ASSUME ManifestsInv, RowsKeep, JobsGoOn, UNCHANGED patch, BoxesOk', CountsOk'
    PROVE  ManifestsInv'
  BY JobsStayFit, PatchStaysOk DEF ManifestsInv, RowsKeep, JobsGoOn

LEMMA RowsSame == ASSUME ManifestsInv, UNCHANGED rows PROVE RowsKeep
<1>1. \A id \in RowIds : Alike(rows[id], rows'[id])
  BY DEF Alike
<1> QED
  BY <1>1 DEF ManifestsInv, RowsOk, RowsKeep

LEMMA JobsSame == ASSUME ManifestsInv, UNCHANGED job PROVE JobsGoOn
  BY DEF ManifestsInv, SlotsOk, JobsGoOn, Continues

\* A row with another status.
WithStatus(v, w, s) == v = [w EXCEPT !.status = s]

LEMMA OtherStatus ==
    ASSUME NEW w, RowOk(w), NEW s \in Statuses, NEW v, WithStatus(v, w, s)
    PROVE  RowOk(v) /\ Alike(w, v)
<1>1. v = [phase |-> w.phase, name |-> w.name, status |-> s, stored |-> w.stored,
           m |-> w.m, stack |-> w.stack]
  BY DEF RowOk, WithStatus
<1>2. Alike(w, v) /\ v.status = s
  BY <1>1 DEF Alike
<1>3. Single(v) <=> Single(w)
  BY <1>2 DEF Alike, Single
<1> QED
  BY <1>1, <1>2, <1>3 DEF RowOk, Alike

LEMMA StatusSet ==
    ASSUME ManifestsInv, NEW id \in RowIds, NEW s \in Statuses,
           rows' = IF M!Live(id) THEN [rows EXCEPT ![id].status = s] ELSE rows
    PROVE  RowsKeep
<1>1. CASE M!Live(id)
  <2>1. rows' = [rows EXCEPT ![id] = [@ EXCEPT !.status = s]]
    BY <1>1, Zenon
  <2>2. rows = [i \in RowIds |-> rows[i]] /\ \A i \in RowIds : RowOk(rows[i])
    BY DEF ManifestsInv, RowsOk
  <2>3. /\ rows' = [i \in RowIds |-> rows'[i]]
        /\ \A i \in RowIds : rows'[i] = IF i = id THEN [rows[id] EXCEPT !.status = s] ELSE rows[i]
    BY <2>1, <2>2
  <2>4. WithStatus(rows'[id], rows[id], s)
    BY <2>3 DEF WithStatus
  <2>5. RowOk(rows'[id]) /\ Alike(rows[id], rows'[id])
    BY <2>2, <2>4, OtherStatus
  <2>6. \A i \in RowIds : RowOk(rows'[i]) /\ Alike(rows[i], rows'[i])
    BY <2>2, <2>3, <2>5 DEF Alike
  <2> QED
    BY <2>3, <2>6 DEF RowsKeep, RowsOk
<1>2. CASE ~M!Live(id)
  BY <1>2, RowsSame
<1> QED
  BY <1>1, <1>2

\* The job b, given out again; the job b at another stage.
Again(c, b) == c = [b EXCEPT !.at = "queued", !.tries = @ + 1]

AtStage(c, b, s) == c = [b EXCEPT !.at = s]

LEMMA AgainGoesOn ==
    ASSUME NEW b, Working(b), b.tries + 1 < MaxTries, NEW c, Again(c, b),
           M!ManifestsAssumption
    PROVE  Working(c) /\ Continues(b, c)
<1>1. c = [kind |-> b.kind, at |-> "queued", id |-> b.id, tries |-> b.tries + 1,
           asked |-> b.asked, m |-> b.m, build |-> b.build, name |-> b.name,
           image |-> b.image, domain |-> b.domain]
  BY DEF Working, SlotShaped, Again
<1>2. SlotShaped(c) /\ c.at = "queued" /\ c.kind = b.kind /\ c.id = b.id
      /\ c.asked = b.asked /\ c.tries = b.tries + 1
  BY <1>1 DEF SlotShaped
<1>3. b.tries + 1 \in 0 .. MaxTries - 1
  BY DEF Working, M!ManifestsAssumption
<1>4. ~Changes(c) /\ Deployed(c)
  BY <1>2 DEF Changes, Deployed
<1> QED
  BY <1>2, <1>3, <1>4 DEF Working, Continues

LEMMA StageGoesOn ==
    ASSUME NEW b, Working(b), NEW s, s \notin {"queued", "free"},
           b.at # "queued" \/ b.kind = "delete", NEW c, AtStage(c, b, s)
    PROVE  Working(c) /\ Continues(b, c)
<1>1. c = [kind |-> b.kind, at |-> s, id |-> b.id, tries |-> b.tries,
           asked |-> b.asked, m |-> b.m, build |-> b.build, name |-> b.name,
           image |-> b.image, domain |-> b.domain]
  BY DEF Working, SlotShaped, AtStage
<1>2. SlotShaped(c) /\ c.at = s /\ c.kind = b.kind /\ c.id = b.id /\ c.m = b.m
      /\ c.asked = b.asked /\ c.tries = b.tries /\ c.name = b.name
  BY <1>1 DEF SlotShaped
<1>3. Changes(c) => Changes(b)
  BY <1>2 DEF Changes
<1>4. b.kind = "deploy" => Deployed(c)
  BY <1>2 DEF Deployed, Working
<1> QED
  BY <1>2, <1>3, <1>4 DEF Working, Continues

\* One job goes on, and the others stay as they are.
LEMMA OneGoesOn ==
    ASSUME ManifestsInv, NEW j \in Jobs, NEW c, job' = [job EXCEPT ![j] = c],
           SlotOk(c), Continues(job[j], c)
    PROVE  JobsGoOn
<1>1. job = [k \in Jobs |-> job[k]] /\ \A k \in Jobs : SlotOk(job[k])
  BY DEF ManifestsInv, SlotsOk
<1>2. /\ job' = [k \in Jobs |-> job'[k]]
      /\ \A k \in Jobs : job'[k] = IF k = j THEN c ELSE job[k]
  BY <1>1
<1>3. \A k \in Jobs : SlotOk(job'[k]) /\ Continues(job[k], job'[k])
  BY <1>1, <1>2 DEF Continues
<1> QED
  BY <1>2, <1>3 DEF JobsGoOn, SlotsOk

LEMMA Finished ==
    ASSUME ManifestsInv, NEW j \in Jobs, M!Finish(j) PROVE JobsGoOn
<1>1. SlotOk(M!FreeSlot) /\ Continues(job[j], M!FreeSlot)
  BY DEF SlotOk, Continues
<1> QED
  BY <1>1, OneGoesOn DEF M!Finish

LEMMA Retried ==
    ASSUME ManifestsInv, M!ManifestsAssumption, NEW j \in Jobs, Working(job[j]), M!Retry(j)
    PROVE  JobsGoOn
<1> DEFINE c == M!GivenOut(job[j])
<1>1. job' = [job EXCEPT ![j] = c]
  BY DEF M!Retry
<1>2. CASE job[j].tries + 1 < MaxTries
  <2>1. Again(c, job[j])
    BY <1>2, Zenon DEF Again, M!GivenOut
  <2> HIDE DEF c
  <2>2. Working(c) /\ Continues(job[j], c)
    BY <1>2, <2>1, AgainGoesOn
  <2> QED
    BY <1>1, <2>2, OneGoesOn DEF SlotOk
<1>3. CASE ~(job[j].tries + 1 < MaxTries)
  <2>1. c = M!FreeSlot
    BY <1>3, Zenon DEF M!GivenOut
  <2> QED
    BY <1>1, <2>1, Finished DEF M!Finish
<1> QED
  BY <1>2, <1>3

LEMMA Went ==
    ASSUME ManifestsInv, NEW j \in Jobs, Working(job[j]), NEW s,
           s \notin {"queued", "free"}, job[j].at # "queued" \/ job[j].kind = "delete",
           M!Goto(j, s)
    PROVE  JobsGoOn
<1>1. PICK c : c = [job[j] EXCEPT !.at = s]
  OBVIOUS
<1>2. job' = [job EXCEPT ![j] = c]
  BY <1>1, Zenon DEF M!Goto
<1>3. AtStage(c, job[j], s)
  BY <1>1, Zenon DEF AtStage
<1>4. Working(c) /\ Continues(job[j], c)
  BY <1>3, StageGoesOn
<1> QED
  BY <1>2, <1>4, OneGoesOn DEF SlotOk

\* A job that is at a stage is at work.
LEMMA AtWork ==
    ASSUME ManifestsInv, NEW j \in Jobs, NEW k, k # "none", NEW s, M!At(j, k, s)
    PROVE  Working(job[j]) /\ job[j].kind = k /\ job[j].at = s /\ job[j].id \in RowIds
<1>1. SlotOk(job[j]) /\ job[j].kind = k /\ job[j].at = s
  BY DEF ManifestsInv, SlotsOk, M!At
<1>2. Working(job[j])
  BY <1>1, FreeIsIdle DEF SlotOk
<1> QED
  BY <1>1, <1>2 DEF Working

LEMMA BoxesKept == ASSUME ManifestsInv, UNCHANGED boxes PROVE BoxesOk'
  BY DEF ManifestsInv, BoxesOk

LEMMA BoxCreated ==
    ASSUME ManifestsInv, NEW id \in RowIds, NEW m, M!CreateContainer(id, m) PROVE BoxesOk'
<1> DEFINE box == [owner |-> id, spec |-> M!ToContainerSpec(M!Resolve(m))]
<1>1. box.owner = id
  OBVIOUS
<1>2. boxes' = [boxes EXCEPT ![m.name] = box]
  BY Zenon DEF M!CreateContainer
<1> HIDE DEF box
<1> QED
  BY <1>1, <1>2 DEF ManifestsInv, BoxesOk

LEMMA BoxesRemoved ==
    ASSUME ManifestsInv, NEW n, M!RemoveContainers(n) PROVE BoxesOk'
  BY DEF ManifestsInv, BoxesOk, M!RemoveContainers

LEMMA BoxLost ==
    ASSUME ManifestsInv, NEW n, boxes' \in {boxes, [boxes EXCEPT ![n] = M!NoBox]}
    PROVE  BoxesOk'
  BY DEF ManifestsInv, BoxesOk

LEMMA CountsKept == ASSUME ManifestsInv, UNCHANGED <<edits, faults>> PROVE CountsOk'
  BY DEF ManifestsInv, CountsOk

LEMMA FaultsOk ==
    ASSUME ManifestsInv, M!ManifestsAssumption, M!Fault \/ UNCHANGED faults
    PROVE  faults' \in 0 .. MaxFaults
  BY DEF ManifestsInv, CountsOk, M!Fault, M!ManifestsAssumption

LEMMA EditsOk ==
    ASSUME ManifestsInv, M!ManifestsAssumption, NEW k, M!Ask(k) \/ UNCHANGED edits
    PROVE  edits' \in 0 .. MaxEdits
  BY DEF ManifestsInv, CountsOk, M!Ask, M!ManifestsAssumption

-----------------------------------------------------------------------------
(* Manifests: the steps that make no manifest *)

LEMMA MarkedFailed ==
    ASSUME ManifestsInv, NEW id \in RowIds, M!MarkFailed(id) PROVE RowsKeep
<1>1. rows' = IF M!Live(id) THEN [rows EXCEPT ![id].status = "failed"] ELSE rows
  BY Zenon DEF M!MarkFailed
<1> QED
  BY <1>1, StatusSet DEF Statuses

LEMMA StatusKept ==
    ASSUME ManifestsInv, NEW id \in RowIds, NEW s \in Statuses, M!SetStatus(id, s) PROVE RowsKeep
<1>1. rows' = IF M!Live(id) THEN [rows EXCEPT ![id].status = s] ELSE rows
  BY Zenon DEF M!SetStatus
<1> QED
  BY <1>1, StatusSet

LEMMA DeployFails ==
    ASSUME ManifestsInv, M!ManifestsAssumption, NEW j \in Jobs,
           M!At(j, "deploy", "queued"), M!Retry(j),
           M!MarkFailed(job[j].id) \/ UNCHANGED rows,
           M!Fault \/ UNCHANGED faults, UNCHANGED <<boxes, patch, edits>>
    PROVE  ManifestsInv'
<1>1. Working(job[j]) /\ job[j].id \in RowIds
  BY AtWork
<1>2. RowsKeep
  BY <1>1, MarkedFailed, RowsSame
<1>3. JobsGoOn
  BY <1>1, Retried
<1>4. BoxesOk' /\ CountsOk'
  BY BoxesKept, FaultsOk DEF CountsOk, ManifestsInv
<1> QED
  BY <1>2, <1>3, <1>4, Quietly

LEMMA DeployBuildStays ==
    ASSUME ManifestsInv, M!ManifestsAssumption, NEW j \in Jobs, M!DeployBuild(j)
    PROVE  ManifestsInv'
<1>1. Working(job[j]) /\ job[j].id \in RowIds /\ job[j].at = "resolved"
  BY AtWork DEF M!DeployBuild
<1>2. /\ \/ M!Goto(j, "built") /\ UNCHANGED <<rows, faults>>
         \/ (UNCHANGED faults \/ M!Fault) /\ M!MarkFailed(job[j].id) /\ M!Retry(j)
      /\ UNCHANGED <<boxes, patch, edits>>
  BY Zenon DEF M!DeployBuild
<1>3. RowsKeep
  BY <1>1, <1>2, MarkedFailed, RowsSame
<1>4. JobsGoOn
  BY <1>1, <1>2, Retried, Went
<1>5. BoxesOk' /\ CountsOk'
  BY <1>2, BoxesKept, FaultsOk DEF CountsOk, ManifestsInv
<1> QED
  BY <1>2, <1>3, <1>4, <1>5, Quietly

LEMMA DeployCreateStays ==
    ASSUME ManifestsInv, M!ManifestsAssumption, NEW j \in Jobs, M!DeployCreate(j)
    PROVE  ManifestsInv'
<1>1. Working(job[j]) /\ job[j].id \in RowIds /\ job[j].at = "built"
  BY AtWork DEF M!DeployCreate
<1>2. UNCHANGED <<patch, edits>>
  BY DEF M!DeployCreate
<1>3. CASE /\ M!CreateContainer(job[j].id, job[j].m) /\ M!Goto(j, "created")
           /\ UNCHANGED <<rows, faults>>
  <2>1. RowsKeep /\ JobsGoOn /\ BoxesOk'
    BY <1>1, <1>3, RowsSame, Went, BoxCreated
  <2>2. CountsOk'
    BY <1>2, <1>3, CountsKept
  <2> QED
    BY <1>2, <2>1, <2>2, Quietly
<1>4. CASE /\ M!Fault /\ M!MarkFailed(job[j].id) /\ M!Retry(j)
           /\ boxes' \in {boxes, [boxes EXCEPT ![job[j].m.name] = M!NoBox]}
  <2>1. RowsKeep /\ JobsGoOn /\ BoxesOk'
    BY <1>1, <1>4, MarkedFailed, Retried, BoxLost
  <2>2. CountsOk'
    BY <1>2, <1>4, FaultsOk DEF CountsOk, ManifestsInv
  <2> QED
    BY <1>2, <2>1, <2>2, Quietly
<1> QED
  BY <1>3, <1>4, Zenon DEF M!DeployCreate

LEMMA RedeployBlueGreenStays ==
    ASSUME ManifestsInv, M!ManifestsAssumption, NEW j \in Jobs, M!RedeployBlueGreen(j)
    PROVE  ManifestsInv'
<1>1. Working(job[j]) /\ job[j].id \in RowIds /\ job[j].at = "resolved"
  BY AtWork DEF M!RedeployBlueGreen
<1>2. UNCHANGED <<patch, edits>>
  BY DEF M!RedeployBlueGreen
<1>3. CASE /\ M!CreateContainer(job[j].id, job[j].m) /\ M!Goto(j, "created")
           /\ UNCHANGED <<rows, faults>>
  <2>1. RowsKeep /\ JobsGoOn /\ BoxesOk'
    BY <1>1, <1>3, RowsSame, Went, BoxCreated
  <2>2. CountsOk'
    BY <1>2, <1>3, CountsKept
  <2> QED
    BY <1>2, <2>1, <2>2, Quietly
<1>4. CASE M!Fault /\ M!MarkFailed(job[j].id) /\ M!Retry(j) /\ UNCHANGED boxes
  <2>1. RowsKeep /\ JobsGoOn /\ BoxesOk'
    BY <1>1, <1>4, MarkedFailed, Retried, BoxesKept
  <2>2. CountsOk'
    BY <1>2, <1>4, FaultsOk DEF CountsOk, ManifestsInv
  <2> QED
    BY <1>2, <2>1, <2>2, Quietly
<1> QED
  BY <1>3, <1>4, Zenon DEF M!RedeployBlueGreen

LEMMA RedeployRemoveStays ==
    ASSUME ManifestsInv, M!ManifestsAssumption, NEW j \in Jobs, M!RedeployRemove(j)
    PROVE  ManifestsInv'
<1>1. Working(job[j]) /\ job[j].id \in RowIds /\ job[j].at = "resolved"
  BY AtWork DEF M!RedeployRemove
<1>2. /\ (M!RemoveContainers(job[j].name) /\ UNCHANGED faults) \/ (M!Fault /\ UNCHANGED boxes)
      /\ M!Goto(j, "removed") /\ UNCHANGED <<rows, patch, edits>>
  BY DEF M!RedeployRemove
<1>3. RowsKeep /\ JobsGoOn
  BY <1>1, <1>2, RowsSame, Went
<1>4. BoxesOk'
  BY <1>2, BoxesRemoved, BoxesKept
<1>5. CountsOk'
  BY <1>2, FaultsOk DEF CountsOk, ManifestsInv
<1> QED
  BY <1>2, <1>3, <1>4, <1>5, Quietly

LEMMA RedeployCreateStays ==
    ASSUME ManifestsInv, M!ManifestsAssumption, NEW j \in Jobs, M!RedeployCreate(j)
    PROVE  ManifestsInv'
<1>1. Working(job[j]) /\ job[j].id \in RowIds /\ job[j].at = "removed"
  BY AtWork DEF M!RedeployCreate
<1>2. UNCHANGED <<patch, edits>>
  BY DEF M!RedeployCreate
<1>3. CASE /\ M!CreateContainer(job[j].id, job[j].m) /\ M!Goto(j, "created")
           /\ UNCHANGED <<rows, faults>>
  <2>1. RowsKeep /\ JobsGoOn /\ BoxesOk'
    BY <1>1, <1>3, RowsSame, Went, BoxCreated
  <2>2. CountsOk'
    BY <1>2, <1>3, CountsKept
  <2> QED
    BY <1>2, <2>1, <2>2, Quietly
<1>4. CASE /\ M!Fault /\ M!MarkFailed(job[j].id) /\ M!Retry(j)
           /\ boxes' \in {boxes, [boxes EXCEPT ![job[j].m.name] = M!NoBox]}
  <2>1. RowsKeep /\ JobsGoOn /\ BoxesOk'
    BY <1>1, <1>4, MarkedFailed, Retried, BoxLost
  <2>2. CountsOk'
    BY <1>2, <1>4, FaultsOk DEF CountsOk, ManifestsInv
  <2> QED
    BY <1>2, <2>1, <2>2, Quietly
<1> QED
  BY <1>3, <1>4, Zenon DEF M!RedeployCreate

LEMMA UpdateRemoveStays ==
    ASSUME ManifestsInv, M!ManifestsAssumption, NEW j \in Jobs, M!UpdateRemove(j)
    PROVE  ManifestsInv'
<1>1. Working(job[j]) /\ job[j].id \in RowIds /\ job[j].at = "loaded"
  BY AtWork DEF M!UpdateRemove
<1>2. /\ (M!RemoveContainers(job[j].name) /\ UNCHANGED faults) \/ (M!Fault /\ UNCHANGED boxes)
      /\ M!Goto(j, "removed") \/ M!Retry(j)
      /\ UNCHANGED <<rows, patch, edits>>
  BY DEF M!UpdateRemove
<1>3. RowsKeep /\ JobsGoOn
  BY <1>1, <1>2, RowsSame, Went, Retried
<1>4. BoxesOk'
  BY <1>2, BoxesRemoved, BoxesKept
<1>5. CountsOk'
  BY <1>2, FaultsOk DEF CountsOk, ManifestsInv
<1> QED
  BY <1>2, <1>3, <1>4, <1>5, Quietly

LEMMA UpdateCreateStays ==
    ASSUME ManifestsInv, M!ManifestsAssumption, NEW j \in Jobs, M!UpdateCreate(j)
    PROVE  ManifestsInv'
<1>1. Working(job[j]) /\ job[j].id \in RowIds /\ job[j].at = "removed"
  BY AtWork DEF M!UpdateCreate
<1>2. UNCHANGED <<rows, patch, edits>>
  BY DEF M!UpdateCreate
<1>3. CASE M!CreateContainer(job[j].id, job[j].m) /\ M!Goto(j, "created") /\ UNCHANGED faults
  <2>1. RowsKeep /\ JobsGoOn /\ BoxesOk'
    BY <1>1, <1>2, <1>3, RowsSame, Went, BoxCreated
  <2>2. CountsOk'
    BY <1>2, <1>3, CountsKept
  <2> QED
    BY <1>2, <2>1, <2>2, Quietly
<1>4. CASE /\ M!Fault /\ M!Retry(j)
           /\ boxes' \in {boxes, [boxes EXCEPT ![job[j].m.name] = M!NoBox]}
  <2>1. RowsKeep /\ JobsGoOn /\ BoxesOk'
    BY <1>1, <1>2, <1>4, RowsSame, Retried, BoxLost
  <2>2. CountsOk'
    BY <1>2, <1>4, FaultsOk DEF CountsOk, ManifestsInv
  <2> QED
    BY <1>2, <2>1, <2>2, Quietly
<1> QED
  BY <1>3, <1>4, Zenon DEF M!UpdateCreate

LEMMA JobEndStays ==
    ASSUME ManifestsInv, NEW j \in Jobs, M!JobEnd(j) PROVE ManifestsInv'
<1>1. RowsKeep /\ JobsGoOn
  BY RowsSame, Finished DEF M!JobEnd
<1>2. BoxesOk' /\ CountsOk'
  BY BoxesKept, CountsKept DEF M!JobEnd
<1> QED
  BY <1>1, <1>2, Quietly DEF M!JobEnd

LEMMA DeleteRemoveStays ==
    ASSUME ManifestsInv, M!ManifestsAssumption, NEW j \in Jobs, M!DeleteRemove(j)
    PROVE  ManifestsInv'
<1>1. Working(job[j]) /\ job[j].kind = "delete"
  BY AtWork DEF M!DeleteRemove
<1>2. /\ \/ M!RemoveContainers(rows[job[j].id].name) /\ M!Goto(j, "removed")
         \/ M!Retry(j) /\ UNCHANGED boxes
      /\ UNCHANGED <<rows, patch, edits, faults>>
  BY DEF M!DeleteRemove
<1>3. RowsKeep /\ JobsGoOn
  BY <1>1, <1>2, RowsSame, Went, Retried
<1>4. BoxesOk' /\ CountsOk'
  BY <1>2, BoxesRemoved, BoxesKept, CountsKept
<1> QED
  BY <1>2, <1>3, <1>4, Quietly

LEMMA CrashStays ==
    ASSUME ManifestsInv, M!ManifestsAssumption, NEW j \in Jobs, M!Crash(j)
    PROVE  ManifestsInv'
<1>1. Working(job[j])
  <2>1. M!FreeSlot.at = "free"
    BY DEF M!FreeSlot
  <2> QED
    BY <2>1 DEF ManifestsInv, SlotsOk, SlotOk, M!Crash
<1>2. RowsKeep /\ JobsGoOn
  BY <1>1, RowsSame, Retried DEF M!Crash
<1>3. BoxesOk'
  BY BoxesKept DEF M!Crash
<1>4. CountsOk'
  BY FaultsOk DEF M!Crash, CountsOk, ManifestsInv
<1> QED
  BY <1>2, <1>3, <1>4, Quietly DEF M!Crash

-----------------------------------------------------------------------------
(* Manifests: one job or one row that changes *)

\* Rows, patch and boxes as they were; one job takes a step or is queued.
LEMMA JobChanged ==
    ASSUME ManifestsInv, RowsKeep, NEW j \in Jobs, NEW c, Working(c),
           job' = [job EXCEPT ![j] = c],
           c.kind = "deploy" => job[j].kind = "deploy" /\ job[j].id = c.id,
           Fitting(c, rows[c.id]), UNCHANGED patch, BoxesOk', CountsOk'
    PROVE  ManifestsInv'
<1>1. /\ job = [k \in Jobs |-> job[k]]
      /\ \A k \in Jobs : SlotOk(job[k])
      /\ \A k \in Jobs : Working(job[k]) => Fitting(job[k], rows[job[k].id])
  BY DEF ManifestsInv, SlotsOk, JobsFit
<1>2. /\ job' = [k \in Jobs |-> job'[k]]
      /\ \A k \in Jobs : job'[k] = IF k = j THEN c ELSE job[k]
  BY <1>1
<1>3. SlotsOk'
  BY <1>1, <1>2 DEF SlotsOk, SlotOk
<1>4. ASSUME NEW k \in Jobs, Working(job'[k]) PROVE Fitting(job'[k], rows'[job'[k].id])
  <2>1. Fitting(job'[k], rows[job'[k].id])
    BY <1>1, <1>2, <1>4
  <2>2. job'[k].id \in RowIds
    BY <1>4 DEF Working
  <2>3. Alike(rows[job'[k].id], rows'[job'[k].id])
    BY <2>2 DEF RowsKeep
  <2> QED
    BY <2>1, <2>3, FitsOn
<1>5. OneDeploy'
  BY <1>2 DEF ManifestsInv, OneDeploy
<1>6. PatchOk'
  BY PatchStaysOk
<1> QED
  BY <1>3, <1>4, <1>5, <1>6 DEF ManifestsInv, JobsFit, RowsKeep

\* One row becomes v: the jobs of the row must fit it.
LEMMA RowChanged ==
    ASSUME ManifestsInv, NEW id \in RowIds, NEW v, RowOk(v), rows' = [rows EXCEPT ![id] = v],
           SlotsOk', OneDeploy', PatchOk', BoxesOk', CountsOk',
           \A j \in Jobs : Working(job'[j]) =>
              Fitting(job'[j], IF job'[j].id = id THEN v ELSE rows[job'[j].id])
    PROVE  ManifestsInv'
<1>1. /\ rows = [i \in RowIds |-> rows[i]]
      /\ \A i \in RowIds : RowOk(rows[i])
  BY DEF ManifestsInv, RowsOk
<1>2. /\ rows' = [i \in RowIds |-> rows'[i]]
      /\ \A i \in RowIds : rows'[i] = IF i = id THEN v ELSE rows[i]
  BY <1>1
<1>3. RowsOk'
  BY <1>1, <1>2 DEF RowsOk
<1>4. ASSUME NEW j \in Jobs, Working(job'[j]) PROVE Fitting(job'[j], rows'[job'[j].id])
  <2>1. job'[j].id \in RowIds
    BY <1>4 DEF Working
  <2> QED
    BY <1>2, <1>4, <2>1
<1> QED
  BY <1>3, <1>4 DEF ManifestsInv, JobsFit

\* The jobs other than j fit their rows as before, those of the row id by what is said of them.
LEMMA RowOfJobs ==
    ASSUME ManifestsInv, JobsGoOn, NEW id \in RowIds, NEW v, RowOk(v),
           rows' = [rows EXCEPT ![id] = v], PatchOk', BoxesOk', CountsOk',
           \A j \in Jobs : (Working(job[j]) /\ job[j].id = id) => Fitting(job[j], v)
    PROVE  ManifestsInv'
<1>1. ASSUME NEW j \in Jobs, Working(job'[j])
      PROVE  Fitting(job'[j], IF job'[j].id = id THEN v ELSE rows[job'[j].id])
  <2> DEFINE w == IF job[j].id = id THEN v ELSE rows[job[j].id]
  <2>1. Continues(job[j], job'[j])
    BY DEF JobsGoOn
  <2>2. Working(job[j]) => Fitting(job[j], w)
    BY DEF ManifestsInv, JobsFit
  <2> HIDE DEF w
  <2>3. Fitting(job'[j], w) /\ job'[j].id = job[j].id
    BY <1>1, <2>1, <2>2, GoesOn
  <2> QED
    BY <2>3 DEF w
<1>2. ASSUME NEW j \in Jobs, job'[j].kind = "deploy"
      PROVE  job[j].kind = "deploy" /\ job[j].id = job'[j].id
  <2>1. Continues(job[j], job'[j])
    BY DEF JobsGoOn
  <2> QED
    BY <1>2, <2>1, FreeIsIdle DEF Continues
<1>3. OneDeploy'
  BY <1>2 DEF ManifestsInv, OneDeploy
<1>4. SlotsOk'
  BY DEF JobsGoOn
<1> QED
  BY <1>1, <1>3, <1>4, RowChanged

-----------------------------------------------------------------------------
(* Manifests: what users ask for *)

\* A job that holds no more than what is asked, and that job in the queue.
Blank(f, i, d) ==
    f = [kind |-> "none", at |-> "free", id |-> 0, tries |-> 0, asked |-> M!Asked,
         m |-> M!Nothing, build |-> "none", name |-> "", image |-> i, domain |-> d]

InQueue(c, f, k, id) == c = [f EXCEPT !.kind = k, !.at = "queued", !.id = id]

Fresh(c, k, id) ==
    /\ SlotShaped(c)
    /\ c.kind = k /\ c.at = "queued" /\ c.id = id /\ c.tries = 0

LEMMA FreshSlot ==
    ASSUME NEW i, NEW d, NEW f, Blank(f, i, d), NEW k, NEW id, NEW c, InQueue(c, f, k, id)
    PROVE  Fresh(c, k, id)
<1>1. c = [kind |-> k, at |-> "queued", id |-> id, tries |-> f.tries, asked |-> f.asked,
           m |-> f.m, build |-> f.build, name |-> f.name, image |-> f.image,
           domain |-> f.domain]
  BY DEF Blank, InQueue
<1>2. f.tries = 0
  BY DEF Blank
<1> QED
  BY <1>1, <1>2 DEF Fresh, SlotShaped

\* Such a job with another image, or with another domain too.
ForImage(f, b, i) == f = [b EXCEPT !.image = i]

ForDomain(f, b, i, d) == f = [b EXCEPT !.image = i, !.domain = d]

LEMMA BlankSlots ==
    ASSUME NEW b, Blank(b, "", ""), NEW i, NEW d, NEW f
    PROVE  (ForImage(f, b, i) => Blank(f, i, "")) /\ (ForDomain(f, b, i, d) => Blank(f, i, d))
<1>1. ForImage(f, b, i) => Blank(f, i, "")
  BY DEF Blank, ForImage
<1>2. ForDomain(f, b, i, d) => Blank(f, i, d)
  BY DEF Blank, ForDomain
<1> QED
  BY <1>1, <1>2

LEMMA FreeSlotIsBlank == Blank(M!FreeSlot, "", "")
  BY DEF Blank, M!FreeSlot

LEMMA FirstTry == M!ManifestsAssumption => 0 \in 0 .. MaxTries - 1
  BY DEF M!ManifestsAssumption

LEMMA FreshIsWorking ==
    ASSUME M!ManifestsAssumption, NEW id \in RowIds, NEW k \in {"redeploy", "update", "delete"},
           NEW c, Fresh(c, k, id), NEW w, w.phase = "live"
    PROVE  Working(c) /\ c.kind = k /\ c.id = id /\ Fitting(c, w)
<1>1. SlotShaped(c) /\ c.kind = k /\ c.at = "queued" /\ c.id = id /\ c.tries = 0
  BY DEF Fresh
<1>2. ~Changes(c) /\ c.kind # "deploy"
  BY <1>1 DEF Changes
<1> QED
  BY <1>1, <1>2, FirstTry DEF Working, Fitting

LEMMA Queued ==
    ASSUME ManifestsInv, M!ManifestsAssumption, RowsKeep, NEW id \in RowIds, M!Live(id),
           NEW k \in {"redeploy", "update", "delete"}, NEW f, NEW i, NEW d, Blank(f, i, d),
           M!Enqueue(k, id, f), UNCHANGED patch, BoxesOk', CountsOk'
    PROVE  ManifestsInv'
<1> DEFINE c == [f EXCEPT !.kind = k, !.at = "queued", !.id = id]
<1>1. PICK j \in Jobs : job' = [job EXCEPT ![j] = c]
  BY Zenon DEF M!Enqueue
<1>2. InQueue(c, f, k, id)
  BY Zenon DEF InQueue
<1> HIDE DEF c
<1>3. Fresh(c, k, id)
  BY <1>2, FreshSlot
<1>4. rows[id].phase = "live"
  BY DEF M!Live
<1>5. Working(c) /\ c.kind = k /\ c.id = id /\ Fitting(c, rows[id])
  BY <1>3, <1>4, FreshIsWorking
<1> QED
  BY <1>1, <1>5, JobChanged

LEMMA RedeployStays ==
    ASSUME ManifestsInv, M!ManifestsAssumption, NEW id \in RowIds, NEW i, M!Redeploy(id, i)
    PROVE  ManifestsInv'
<1>1. RowsKeep
  <2>1. M!SetStatus(id, "deploying")
    BY DEF M!Redeploy
  <2> QED
    BY <2>1, StatusKept DEF Statuses
<1>2. BoxesOk'
  BY BoxesKept DEF M!Redeploy
<1>3. CountsOk'
  BY EditsOk, FaultsOk DEF M!Redeploy, CountsOk
<1>4. M!Live(id) /\ UNCHANGED patch
  BY DEF M!Redeploy
<1>5. CASE M!Enqueue("redeploy", id, [M!FreeSlot EXCEPT !.image = i])
  <2> DEFINE f == [M!FreeSlot EXCEPT !.image = i]
  <2>1. Blank(f, i, "")
    <3>1. ForImage(f, M!FreeSlot, i)
      BY Zenon DEF ForImage
    <3> HIDE DEF f
    <3> QED
      BY <3>1, BlankSlots, FreeSlotIsBlank
  <2> HIDE DEF f
  <2> QED
    BY <1>1, <1>2, <1>3, <1>4, <1>5, <2>1, Queued DEF f
<1>6. CASE UNCHANGED job
  BY <1>1, <1>2, <1>3, <1>4, <1>6, JobsSame, Quietly
<1> QED
  BY <1>5, <1>6, Zenon DEF M!Redeploy

LEMMA UpdateStays ==
    ASSUME ManifestsInv, M!ManifestsAssumption, NEW id \in RowIds, NEW i, NEW d, M!Update(id, i, d)
    PROVE  ManifestsInv'
<1>1. RowsKeep
  BY RowsSame DEF M!Update
<1>2. BoxesOk'
  BY BoxesKept DEF M!Update
<1>3. CountsOk'
  BY EditsOk, FaultsOk DEF M!Update, CountsOk
<1>4. M!Live(id) /\ UNCHANGED patch
  BY DEF M!Update
<1> DEFINE f == [M!FreeSlot EXCEPT !.image = i, !.domain = d]
<1>5. M!Enqueue("update", id, f)
  BY Zenon DEF M!Update
<1>6. Blank(f, i, d)
  <2>1. ForDomain(f, M!FreeSlot, i, d)
    BY Zenon DEF ForDomain
  <2> HIDE DEF f
  <2> QED
    BY <2>1, BlankSlots, FreeSlotIsBlank
<1> HIDE DEF f
<1> QED
  BY <1>1, <1>2, <1>3, <1>4, <1>5, <1>6, Queued

LEMMA DeleteStays ==
    ASSUME ManifestsInv, M!ManifestsAssumption, NEW id \in RowIds, M!Delete(id)
    PROVE  ManifestsInv'
<1>1. RowsKeep
  <2>1. M!SetStatus(id, "stopped")
    BY DEF M!Delete
  <2> QED
    BY <2>1, StatusKept DEF Statuses
<1>2. BoxesOk'
  BY BoxesKept DEF M!Delete
<1>3. CountsOk'
  BY EditsOk, FaultsOk DEF M!Delete, CountsOk
<1>4. M!Live(id) /\ UNCHANGED patch
  BY DEF M!Delete
<1>5. CASE M!Enqueue("delete", id, M!FreeSlot)
  BY <1>1, <1>2, <1>3, <1>4, <1>5, FreeSlotIsBlank, Queued
<1>6. CASE UNCHANGED job
  BY <1>1, <1>2, <1>3, <1>4, <1>6, JobsSame, Quietly
<1> QED
  BY <1>5, <1>6, Zenon DEF M!Delete

\* A row that a request makes, and its deploy job.
NewRow(v, w, n, s) ==
    v = [w EXCEPT !.phase = "live", !.name = n, !.status = "deploying", !.stack = s]

Asks(f, b, r) == f = [b EXCEPT !.asked = r]

LEMMA NewRowOk ==
    ASSUME NEW n \in M!AllNames \cup {""}, NEW s, NEW v, NewRow(v, M!NoRow, n, s)
    PROVE  RowOk(v) /\ v.phase = "live" /\ v.stack = s /\ ~v.stored
<1>1. v = [phase |-> "live", name |-> n, status |-> "deploying", stored |-> FALSE,
           m |-> M!Nothing, stack |-> s]
  BY DEF NewRow, M!NoRow
<1> QED
  BY <1>1 DEF RowOk, Statuses

LEMMA DeployQueued ==
    ASSUME M!ManifestsAssumption, NEW id \in RowIds, NEW r \in M!Requests,
           NEW f, Asks(f, M!FreeSlot, r), NEW c, InQueue(c, f, "deploy", id)
    PROVE  Working(c) /\ c.kind = "deploy" /\ c.id = id /\ c.asked = r /\ ~Changes(c)
<1>1. f = [kind |-> "none", at |-> "free", id |-> 0, tries |-> 0, asked |-> r,
           m |-> M!Nothing, build |-> "none", name |-> "", image |-> "", domain |-> ""]
  BY DEF Asks, M!FreeSlot
<1>2. c = [kind |-> "deploy", at |-> "queued", id |-> id, tries |-> f.tries,
           asked |-> f.asked, m |-> f.m, build |-> f.build, name |-> f.name,
           image |-> f.image, domain |-> f.domain]
  BY <1>1 DEF InQueue
<1>3. f.tries = 0 /\ f.asked = r
  BY <1>1
<1>4. /\ SlotShaped(c) /\ c.kind = "deploy" /\ c.at = "queued" /\ c.id = id /\ c.tries = 0
      /\ c.asked = r
  BY <1>2, <1>3 DEF SlotShaped
<1>5. ~Changes(c) /\ Deployed(c)
  BY <1>4 DEF Changes, Deployed
<1> QED
  BY <1>4, <1>5, FirstTry DEF Working

LEMMA CreateStays ==
    ASSUME ManifestsInv, M!ManifestsAssumption, NEW id \in RowIds, NEW r \in M!Requests,
           M!Create(id, r)
    PROVE  ManifestsInv'
<1> DEFINE v == [M!NoRow EXCEPT !.phase = "live", !.name = M!Given(r),
                                !.status = "deploying", !.stack = r.stack]
           f == [M!FreeSlot EXCEPT !.asked = r]
           c == [f EXCEPT !.kind = "deploy", !.at = "queued", !.id = id]
<1>1. rows' = [rows EXCEPT ![id] = v] /\ rows[id].phase = "unborn"
  BY Zenon DEF M!Create
<1>2. M!Enqueue("deploy", id, f) /\ UNCHANGED <<boxes, patch, edits, faults>>
  BY Zenon DEF M!Create
<1>3. PICK j \in Jobs : job' = [job EXCEPT ![j] = c]
  BY <1>2, Zenon DEF M!Enqueue
<1>4. M!Given(r) \in M!AllNames \cup {""}
  <2>1. r.name \in UserNames \cup {""}
    BY Requested DEF RequestHolds
  <2> QED
    BY <2>1, ShortNames DEF M!Given
<1>5. Asks(f, M!FreeSlot, r)
  BY Zenon DEF Asks
<1>6. InQueue(c, f, "deploy", id)
  BY Zenon DEF InQueue
<1>7. NewRow(v, M!NoRow, M!Given(r), r.stack)
  BY Zenon DEF NewRow
<1> HIDE DEF v, f, c
<1>8. RowOk(v) /\ v.phase = "live" /\ v.stack = r.stack /\ ~v.stored
  BY <1>4, <1>7, NewRowOk
<1>9. Working(c) /\ c.kind = "deploy" /\ c.id = id /\ c.asked = r /\ ~Changes(c)
  BY <1>5, <1>6, DeployQueued
<1>10. Fitting(c, v)
  BY <1>8, <1>9 DEF Fitting, Renames
<1>11. /\ job = [k \in Jobs |-> job[k]]
       /\ \A k \in Jobs : SlotOk(job[k])
       /\ \A k \in Jobs : Working(job[k]) => Fitting(job[k], rows[job[k].id])
  BY DEF ManifestsInv, SlotsOk, JobsFit
<1>12. /\ job' = [k \in Jobs |-> job'[k]]
       /\ \A k \in Jobs : job'[k] = IF k = j THEN c ELSE job[k]
  BY <1>3, <1>11
<1>13. \A k \in Jobs : Working(job[k]) => job[k].id # id
  BY <1>1, <1>11 DEF Fitting
<1>14. SlotsOk'
  BY <1>9, <1>11, <1>12 DEF SlotsOk, SlotOk
<1>15. OneDeploy'
  <2>1. \A k \in Jobs : job[k].kind = "deploy" => job[k].id # id
    BY <1>11, <1>13, FreeIsIdle DEF SlotOk
  <2> QED
    BY <1>9, <1>12, <2>1 DEF ManifestsInv, OneDeploy
<1>16. \A k \in Jobs : Working(job'[k]) =>
          Fitting(job'[k], IF job'[k].id = id THEN v ELSE rows[job'[k].id])
  BY <1>9, <1>10, <1>11, <1>12, <1>13
<1>17. PatchOk'
  <2>1. patch # M!NoPatch => patch.id # id
    BY <1>1 DEF ManifestsInv, PatchOk
  <2>2. \A i \in RowIds \ {id} : rows'[i] = rows[i]
    BY <1>1 DEF ManifestsInv, RowsOk
  <2> QED
    BY <1>2, <2>1, <2>2 DEF ManifestsInv, PatchOk
<1>18. BoxesOk' /\ CountsOk'
  BY <1>2, BoxesKept, CountsKept
<1> QED
  BY <1>1, <1>8, <1>14, <1>15, <1>16, <1>17, <1>18, RowChanged

\* The PATCH reads a row.
LEMMA PatchReadStays ==
    ASSUME ManifestsInv, M!ManifestsAssumption, NEW n, NEW s \in M!Scalings,
           M!PatchRead(n, s)
    PROVE  ManifestsInv'
<1>1. PICK id \in RowIds :
        /\ M!Known(id)
        /\ patch' = [at |-> "read", id |-> id, m |-> Rescaled(rows[id].m, s)]
  BY Zenon DEF M!PatchRead, Rescaled
<1>2. M!Accepted(s) /\ UNCHANGED <<rows, boxes, job, faults>>
  BY DEF M!PatchRead
<1> DEFINE w == rows[id]
           e == Rescaled(w.m, s)
<1>3. w.phase = "live" /\ w.stored /\ RowOk(w)
  BY <1>1 DEF M!Known, M!Live, ManifestsInv, RowsOk
<1>4. Fits(w.m) /\ (Single(w) => w.m.name = w.name)
  BY <1>3 DEF RowOk
<1>5. Fits(e) /\ e.name = w.m.name
  BY <1>2, <1>4, RescaledFits
<1>6. patch'.at = "read" /\ patch'.id = id /\ patch'.m = e
  BY <1>1
<1>7. Agrees(e, w)
  BY <1>3, <1>4, <1>5 DEF Agrees
<1>8. PatchOk'
  BY <1>2, <1>3, <1>5, <1>6, <1>7 DEF PatchOk
<1>9. BoxesOk' /\ CountsOk'
  BY <1>2, BoxesKept, EditsOk, FaultsOk DEF M!PatchRead, CountsOk
<1> QED
  BY <1>2, <1>8, <1>9 DEF ManifestsInv, RowsOk, SlotsOk, JobsFit, OneDeploy

\* A row with another manifest.
Patched(v, w, m) == v = [w EXCEPT !.m = m]

LEMMA PatchedRow ==
    ASSUME NEW w, RowOk(w), w.phase = "live", NEW m, Fits(m), Agrees(m, w),
           NEW v, Patched(v, w, m)
    PROVE  /\ RowOk(v)
           /\ \A b : Fitting(b, w) => Fitting(b, v)
<1>1. v = [phase |-> w.phase, name |-> w.name, status |-> w.status, stored |-> w.stored,
           m |-> m, stack |-> w.stack]
  BY DEF RowOk, Patched
<1>2. /\ v.phase = w.phase /\ v.name = w.name /\ v.status = w.status
      /\ v.stored = w.stored /\ v.m = m /\ v.stack = w.stack
  BY <1>1
<1>3. Single(v) <=> Single(w)
  BY <1>2 DEF Single
<1>4. RowOk(v)
  BY <1>1, <1>2, <1>3 DEF RowOk, Agrees
<1>5. ASSUME NEW b, Fitting(b, w) PROVE Fitting(b, v)
  BY <1>2, <1>3, <1>5 DEF Fitting, Renames, Agrees
<1> QED
  BY <1>4, <1>5

LEMMA PatchWriteStays ==
    ASSUME ManifestsInv, M!ManifestsAssumption, M!PatchWrite PROVE ManifestsInv'
<1>1. /\ rows' = IF M!Live(patch.id) THEN [rows EXCEPT ![patch.id].m = patch.m] ELSE rows
      /\ patch.at = "read" /\ patch' = M!NoPatch /\ UNCHANGED <<boxes, job, edits, faults>>
  BY Zenon DEF M!PatchWrite
<1>2. BoxesOk' /\ CountsOk' /\ PatchOk' /\ JobsGoOn
  BY <1>1, BoxesKept, CountsKept, JobsSame DEF PatchOk
<1>3. /\ patch.id \in RowIds /\ Fits(patch.m) /\ Agrees(patch.m, rows[patch.id])
  BY <1>1 DEF ManifestsInv, PatchOk, M!NoPatch
<1>4. CASE M!Live(patch.id)
  <2> DEFINE id == patch.id
             w == rows[id]
             v == [w EXCEPT !.m = patch.m]
  <2>1. rows' = [rows EXCEPT ![id] = v]
    BY <1>1, <1>4, Zenon
  <2>2. RowOk(w) /\ w.phase = "live"
    BY <1>3, <1>4 DEF M!Live, ManifestsInv, RowsOk
  <2>3. Patched(v, w, patch.m)
    BY Zenon DEF Patched
  <2> HIDE DEF v
  <2>4. RowOk(v) /\ \A b : Fitting(b, w) => Fitting(b, v)
    BY <1>3, <2>2, <2>3, PatchedRow
  <2>5. \A j \in Jobs : (Working(job[j]) /\ job[j].id = id) => Fitting(job[j], v)
    BY <2>4 DEF ManifestsInv, JobsFit
  <2> QED
    BY <1>2, <1>3, <2>1, <2>4, <2>5, RowOfJobs
<1>5. CASE ~M!Live(patch.id)
  <2>1. RowsKeep
    BY <1>1, <1>5, RowsSame
  <2>2. RowsOk' /\ SlotsOk' /\ JobsFit' /\ OneDeploy'
    BY <1>2, <2>1, JobsStayFit DEF RowsKeep, JobsGoOn
  <2> QED
    BY <1>2, <2>2 DEF ManifestsInv
<1> QED
  BY <1>4, <1>5

-----------------------------------------------------------------------------
(* Manifests: the steps that make a manifest, or store one *)

\* The job b, once it holds the manifest m.
Holds(c, b, m, build, n) ==
    c = [b EXCEPT !.at = "resolved", !.m = m, !.build = build, !.name = n]

Loads(c, b, at, m, n) == c = [b EXCEPT !.at = at, !.m = m, !.name = n]

\* What a deploy job holds is made of its request.
MadeOf(b, m, n) == b.kind = "deploy" => n = m.name /\ \E x \in M!Convert(b.asked) : x.m = m

LEMMA HoldsManifest ==
    ASSUME NEW b, Working(b), NEW m, Fits(m), NEW build, NEW n,
           MadeOf(b, m, n), NEW c, Holds(c, b, m, build, n)
    PROVE  Working(c) /\ c.kind = b.kind /\ c.id = b.id /\ c.asked = b.asked /\ c.m = m
<1>1. c = [kind |-> b.kind, at |-> "resolved", id |-> b.id, tries |-> b.tries,
           asked |-> b.asked, m |-> m, build |-> build, name |-> n,
           image |-> b.image, domain |-> b.domain]
  BY DEF Holds, Working, SlotShaped
<1>2. /\ SlotShaped(c) /\ c.kind = b.kind /\ c.at = "resolved" /\ c.id = b.id /\ c.tries = b.tries
      /\ c.asked = b.asked /\ c.m = m /\ c.name = n
  BY <1>1 DEF SlotShaped
<1>3. c.kind = "deploy" => Deployed(c)
  BY <1>2 DEF Deployed, MadeOf
<1> QED
  BY <1>2, <1>3 DEF Working

\* The job, once its request has become the manifest of x.
LEMMA DeployMakes ==
    ASSUME NEW b, Working(b), b.kind = "deploy", NEW x \in M!Convert(b.asked), Fits(x.m),
           NEW c, Holds(c, b, x.m, x.build, x.m.name)
    PROVE  Working(c) /\ c.kind = "deploy" /\ c.id = b.id /\ c.asked = b.asked /\ c.m = x.m
<1> DEFINE m == x.m
           build == x.build
           n == m.name
<1>1. \E y \in M!Convert(b.asked) : y.m = m
  OBVIOUS
<1>2. Fits(m) /\ Holds(c, b, m, build, n) /\ n = m.name
  OBVIOUS
<1> HIDE DEF m, build, n
<1>3. MadeOf(b, m, n)
  BY <1>1, <1>2 DEF MadeOf
<1>4. Working(c) /\ c.kind = b.kind /\ c.id = b.id /\ c.asked = b.asked /\ c.m = m
  BY <1>2, <1>3, HoldsManifest
<1> QED
  BY <1>4 DEF m

LEMMA LoadsManifest ==
    ASSUME NEW b, Working(b), b.kind # "deploy", NEW at, NEW m, Fits(m), NEW n,
           NEW c, Loads(c, b, at, m, n)
    PROVE  Working(c) /\ c.kind = b.kind /\ c.id = b.id /\ c.m = m
<1>1. c = [kind |-> b.kind, at |-> at, id |-> b.id, tries |-> b.tries, asked |-> b.asked,
           m |-> m, build |-> b.build, name |-> n, image |-> b.image, domain |-> b.domain]
  BY DEF Loads, Working, SlotShaped
<1>2. /\ SlotShaped(c) /\ c.kind = b.kind /\ c.id = b.id /\ c.tries = b.tries /\ c.m = m
  BY <1>1 DEF SlotShaped
<1> QED
  BY <1>2 DEF Working

\* A row with another name; the row once the manifest is stored.
Renamed(v, w, n) == v = [w EXCEPT !.name = n]

RowStored(v, w, n, m) == v = [w EXCEPT !.name = n, !.status = "running", !.stored = TRUE, !.m = m]

LEMMA RenamedRow ==
    ASSUME NEW w, RowOk(w), w.phase = "live", NEW n \in M!AllNames \cup {""},
           (w.stored /\ Single(w)) => n = w.name, NEW v, Renamed(v, w, n)
    PROVE  /\ RowOk(v)
           /\ \A b : Fitting(b, w) => Fitting(b, v)
           /\ \A m : Agrees(m, w) => Agrees(m, v)
<1>1. v = [phase |-> w.phase, name |-> n, status |-> w.status, stored |-> w.stored,
           m |-> w.m, stack |-> w.stack]
  BY DEF RowOk, Renamed
<1>2. /\ v.phase = w.phase /\ v.name = n /\ v.status = w.status
      /\ v.stored = w.stored /\ v.m = w.m /\ v.stack = w.stack
  BY <1>1
<1>3. Single(v) <=> Single(w)
  BY <1>2 DEF Single
<1>4. RowOk(v)
  BY <1>1, <1>2, <1>3 DEF RowOk
<1>5. ASSUME NEW m, Agrees(m, w) PROVE Agrees(m, v)
  BY <1>2, <1>3, <1>5 DEF Agrees
<1>6. ASSUME NEW b, Fitting(b, w) PROVE Fitting(b, v)
  <2>1. Renames(b, w) => Renames(b, v)
    BY <1>2, <1>3 DEF Renames
  <2> QED
    BY <1>2, <1>5, <1>6, <2>1 DEF Fitting
<1> QED
  BY <1>4, <1>5, <1>6

LEMMA DeployLoadStays ==
    ASSUME ManifestsInv, M!ManifestsAssumption, NEW j \in Jobs, M!DeployLoad(j)
    PROVE  ManifestsInv'
<1> DEFINE id == job[j].id
           w == rows[id]
<1>2. UNCHANGED <<boxes, patch, edits>> /\ M!At(j, "deploy", "queued")
  BY Zenon DEF M!DeployLoad
<1>1. Working(job[j]) /\ id \in RowIds /\ job[j].kind = "deploy" /\ job[j].at = "queued"
  BY <1>2, AtWork
<1>3. ASSUME M!Live(id), UNCHANGED faults, NEW x \in M!Convert(job[j].asked), M!Validates(x.m),
             job' = [job EXCEPT ![j] = [@ EXCEPT !.at = "resolved", !.m = x.m,
                                                 !.build = x.build, !.name = x.m.name]],
             rows' = IF M!Taken(x.m.name) THEN rows ELSE [rows EXCEPT ![id].name = x.m.name]
      PROVE  ManifestsInv'
  <2> DEFINE c == [job[j] EXCEPT !.at = "resolved", !.m = x.m, !.build = x.build,
                                 !.name = x.m.name]
  <2>1. job' = [job EXCEPT ![j] = c]
    BY <1>3, Zenon
  <2>2. Holds(c, job[j], x.m, x.build, x.m.name)
    BY Zenon DEF Holds
  <2> HIDE DEF c
  <2>3. job[j].asked \in M!Requests
    BY <1>1 DEF Working
  <2>4. Fits(x.m) /\ x.m.name \in M!AllNames \cup {""}
    <3>1. IsDocument(x.m) /\ x.m.build = "none"
      BY <2>3, Converted
    <3> QED
      BY <1>3, <3>1 DEF Fits, IsDocument
  <2>5. Working(c) /\ c.kind = "deploy" /\ c.id = id /\ c.asked = job[j].asked /\ c.m = x.m
    BY <1>1, <1>3, <2>2, <2>4, DeployMakes
  <2>6. w.phase = "live" /\ RowOk(w) /\ Fitting(job[j], w)
    BY <1>1, <1>3 DEF M!Live, ManifestsInv, RowsOk, JobsFit
  <2>7. Renames(job[j], w)
    BY <1>1, <2>6 DEF Fitting
  <2>8. Fitting(c, w)
    <3>1. Renames(c, w)
      BY <2>5, <2>7 DEF Renames
    <3>2. ~Changes(c)
      BY <2>5 DEF Changes
    <3> QED
      BY <2>6, <3>1, <3>2 DEF Fitting
  <2>9. (w.stored /\ Single(w)) => x.m.name = w.name
    BY <1>3, <2>6, <2>7 DEF Renames
  <2>10. BoxesOk' /\ CountsOk'
    BY <1>2, <1>3, BoxesKept, CountsKept
  <2>11. CASE M!Taken(x.m.name)
    <3>1. RowsKeep
      BY <1>3, <2>11, RowsSame
    <3> QED
      BY <1>1, <1>2, <2>1, <2>5, <2>8, <2>10, <3>1, JobChanged
  <2>12. CASE ~M!Taken(x.m.name)
    <3> DEFINE v == [w EXCEPT !.name = x.m.name]
    <3>1. rows' = [rows EXCEPT ![id] = v]
      BY <1>3, <2>12, Zenon
    <3>2. Renamed(v, w, x.m.name)
      BY Zenon DEF Renamed
    <3> HIDE DEF v
    <3>3. /\ RowOk(v)
          /\ \A b : Fitting(b, w) => Fitting(b, v)
          /\ \A m : Agrees(m, w) => Agrees(m, v)
      BY <2>4, <2>6, <2>9, <3>2, RenamedRow
    <3>4. /\ job = [k \in Jobs |-> job[k]]
          /\ \A k \in Jobs : SlotOk(job[k])
          /\ \A k \in Jobs : Working(job[k]) => Fitting(job[k], rows[job[k].id])
      BY DEF ManifestsInv, SlotsOk, JobsFit
    <3>5. /\ job' = [k \in Jobs |-> job'[k]]
          /\ \A k \in Jobs : job'[k] = IF k = j THEN c ELSE job[k]
      BY <2>1, <3>4
    <3>6. SlotsOk'
      BY <2>5, <3>4, <3>5 DEF SlotsOk, SlotOk
    <3>7. OneDeploy'
      BY <1>1, <2>5, <3>5 DEF ManifestsInv, OneDeploy
    <3>8. \A k \in Jobs : Working(job'[k]) =>
             Fitting(job'[k], IF job'[k].id = id THEN v ELSE rows[job'[k].id])
      BY <2>5, <2>8, <3>3, <3>4, <3>5
    <3>9. PatchOk'
      <4>1. /\ rows'[id] = v
            /\ \A i \in RowIds \ {id} : rows'[i] = rows[i]
        BY <1>1, <3>1 DEF ManifestsInv, RowsOk
      <4>2. v.phase # "unborn" \/ patch = M!NoPatch \/ patch.id # id
        BY <3>3, <2>8 DEF Fitting
      <4>3. CASE patch = M!NoPatch
        BY <1>2, <4>3 DEF PatchOk
      <4>4. CASE patch # M!NoPatch
        <5>1. /\ patch.at = "read" /\ patch.id \in RowIds /\ Fits(patch.m)
              /\ rows[patch.id].phase # "unborn" /\ Agrees(patch.m, rows[patch.id])
          BY <4>4 DEF ManifestsInv, PatchOk
        <5>2. rows'[patch.id].phase # "unborn" /\ Agrees(patch.m, rows'[patch.id])
          <6>1. CASE patch.id = id
            BY <3>3, <4>1, <4>2, <4>4, <5>1, <6>1
          <6>2. CASE patch.id # id
            BY <4>1, <5>1, <6>2
          <6> QED
            BY <6>1, <6>2
        <5> QED
          BY <1>2, <5>1, <5>2 DEF PatchOk
      <4> QED
        BY <4>3, <4>4
    <3> QED
      BY <1>1, <2>10, <3>1, <3>3, <3>6, <3>7, <3>8, <3>9, RowChanged
  <2> QED
    BY <2>11, <2>12
<1>4. ASSUME M!MarkFailed(id), M!Retry(j), UNCHANGED faults \/ M!Fault PROVE ManifestsInv'
  BY <1>2, <1>4, DeployFails
<1>5. ASSUME M!Retry(j), UNCHANGED <<rows, faults>> PROVE ManifestsInv'
  BY <1>2, <1>5, DeployFails
<1>6. \/ /\ M!Live(id)
         /\ \E x \in M!Convert(job[j].asked) :
               /\ M!Validates(x.m)
               /\ job' = [job EXCEPT ![j] = [@ EXCEPT !.at = "resolved", !.m = x.m,
                                                      !.build = x.build, !.name = x.m.name]]
               /\ rows' = IF M!Taken(x.m.name) THEN rows
                          ELSE [rows EXCEPT ![id].name = x.m.name]
         /\ UNCHANGED faults
      \/ M!MarkFailed(id) /\ M!Retry(j) /\ (UNCHANGED faults \/ M!Fault)
      \/ M!Retry(j) /\ UNCHANGED <<rows, faults>>
  BY Zenon DEF M!DeployLoad
<1> HIDE DEF id, w
<1> QED
  BY <1>3, <1>4, <1>5, <1>6

\* The row, once a job has stored its manifest.
GoodName(n) == n \in M!AllNames \cup {""}

NowStored(v, w, n) ==
    /\ v.phase = "live" /\ v.stored /\ v.name = n /\ v.stack = w.stack
    /\ (Single(v) <=> Single(w))

LEMMA StoredRow ==
    ASSUME NEW w, RowOk(w), w.phase = "live", NEW m, Fits(m), NEW n, GoodName(n),
           Single(w) => m.name = n, NEW v, RowStored(v, w, n, m)
    PROVE  RowOk(v) /\ NowStored(v, w, n)
<1>1. v = [phase |-> w.phase, name |-> n, status |-> "running", stored |-> TRUE,
           m |-> m, stack |-> w.stack]
  BY DEF RowOk, RowStored
<1>2. /\ v.phase = "live" /\ v.name = n /\ v.status = "running"
      /\ v.stored = TRUE /\ v.m = m /\ v.stack = w.stack
  BY <1>1
<1>3. Single(v) <=> Single(w)
  BY <1>2 DEF Single
<1> QED
  BY <1>1, <1>2, <1>3 DEF RowOk, Statuses, GoodName, NowStored

\* What a deploy has made is what the deploy of the row makes again.
LEMMA MadeAlone ==
    ASSUME NEW b, Working(b), b.kind = "deploy", b.at # "queued", NEW w, Single(w),
           b.asked.stack = w.stack, NEW x \in M!Convert(b.asked)
    PROVE  x.m = b.m
<1>1. PICK y \in M!Convert(b.asked) : y.m = b.m
  BY DEF Working, Deployed
<1>2. M!Cardinality(b.asked.stack) <= 1
  BY DEF Single
<1>3. x = y
  BY <1>1, <1>2, OneResult DEF Working
<1> QED
  BY <1>1, <1>3

LEMMA DeployStoreStays ==
    ASSUME ManifestsInv, M!ManifestsAssumption, NEW j \in Jobs, M!DeployStore(j)
    PROVE  ManifestsInv'
<1> DEFINE id == job[j].id
           w == rows[id]
           m == job[j].m
           n == job[j].name
           v == [w EXCEPT !.name = n, !.status = "running", !.stored = TRUE, !.m = m]
<1>1. /\ Working(job[j]) /\ id \in RowIds /\ job[j].kind = "deploy" /\ job[j].at = "created"
  BY AtWork DEF M!DeployStore
<1>2. /\ rows' = M!StoreDeployed(id, n, m)
      /\ M!Goto(j, "stored") /\ UNCHANGED <<boxes, patch, edits, faults>>
  BY Zenon DEF M!DeployStore
<1>3. JobsGoOn
  BY <1>1, <1>2, Went
<1>4. BoxesOk' /\ CountsOk'
  BY <1>2, BoxesKept, CountsKept
<1>5. CASE UNCHANGED rows
  BY <1>2, <1>3, <1>4, <1>5, RowsSame, Quietly
<1>6. CASE M!Live(id) /\ rows' = [rows EXCEPT ![id] = v]
  <2>1. RowOk(w) /\ w.phase = "live" /\ Fitting(job[j], w)
    BY <1>1, <1>6 DEF M!Live, ManifestsInv, RowsOk, JobsFit
  <2>2. Fits(m) /\ n = m.name /\ GoodName(n)
    BY <1>1 DEF Working, Deployed, Fits, IsDocument, GoodName
  <2>3. RowStored(v, w, n, m)
    BY Zenon DEF RowStored
  <2>4. w.phase # "unborn" /\ Renames(job[j], w)
    BY <1>1, <2>1 DEF Fitting
  <2>5. job[j].asked.stack = w.stack
    BY <2>1, <2>4 DEF Renames
  <2>6. (w.stored /\ Single(w)) => n = w.name
    <3>1. PICK x \in M!Convert(job[j].asked) : x.m = m
      BY <1>1 DEF Working, Deployed
    <3>2. M!Validates(m)
      BY <2>2 DEF Fits
    <3> QED
      BY <2>1, <2>2, <2>4, <3>1, <3>2 DEF Renames
  <2> HIDE DEF v
  <2>7. RowOk(v) /\ NowStored(v, w, n)
    BY <2>1, <2>2, <2>3, StoredRow
  <2>8. ASSUME NEW k \in Jobs, Working(job[k]), job[k].id = id PROVE Fitting(job[k], v)
    <3>1. Fitting(job[k], w)
      BY <2>8 DEF ManifestsInv, JobsFit
    <3>2. CASE job[k].kind = "deploy"
      <4>1. k = j
        BY <1>1, <2>8, <3>2 DEF ManifestsInv, OneDeploy
      <4>2. ~Changes(job[j])
        BY <1>1 DEF Changes
      <4>3. ASSUME Single(v), NEW x \in M!Convert(job[j].asked) PROVE x.m.name = n
        <5>1. Single(w)
          BY <2>7, <4>3 DEF NowStored
        <5>2. x.m = m
          BY <1>1, <2>5, <4>3, <5>1, MadeAlone
        <5> QED
          BY <2>2, <5>2
      <4>4. Renames(job[j], v)
        BY <2>5, <2>7, <4>3 DEF Renames, NowStored
      <4> QED
        BY <2>7, <4>1, <4>2, <4>4 DEF Fitting, NowStored
    <3>3. CASE job[k].kind # "deploy"
      <4>1. Changes(job[k]) => Agrees(job[k].m, v)
        BY <2>1, <2>6, <2>7, <3>1 DEF Fitting, Agrees, NowStored
      <4> QED
        BY <2>7, <3>3, <4>1 DEF Fitting, NowStored
    <3> QED
      BY <3>2, <3>3
  <2>9. PatchOk'
    <3>1. /\ rows'[id] = v
          /\ \A i \in RowIds \ {id} : rows'[i] = rows[i]
      BY <1>1, <1>6 DEF ManifestsInv, RowsOk
    <3>2. CASE patch = M!NoPatch
      BY <1>2, <3>2 DEF PatchOk
    <3>3. CASE patch # M!NoPatch
      <4>1. /\ patch.at = "read" /\ patch.id \in RowIds /\ Fits(patch.m)
            /\ rows[patch.id].phase # "unborn" /\ Agrees(patch.m, rows[patch.id])
        BY <3>3 DEF ManifestsInv, PatchOk
      <4>2. CASE patch.id = id
        <5>1. rows[patch.id] = w /\ rows'[patch.id] = v
          BY <3>1, <4>2
        <5>2. v.phase # "unborn" /\ Agrees(patch.m, v)
          BY <2>1, <2>6, <2>7, <4>1, <5>1 DEF Agrees, NowStored
        <5> QED
          BY <1>2, <4>1, <5>1, <5>2 DEF PatchOk
      <4>3. CASE patch.id # id
        <5>1. rows'[patch.id] = rows[patch.id]
          BY <3>1, <4>1, <4>3
        <5> QED
          BY <1>2, <4>1, <5>1 DEF PatchOk
      <4> QED
        BY <4>2, <4>3
    <3> QED
      BY <3>2, <3>3
  <2> QED
    BY <1>1, <1>3, <1>4, <1>6, <2>7, <2>8, <2>9, RowOfJobs
<1>7. UNCHANGED rows \/ (M!Live(id) /\ rows' = [rows EXCEPT ![id] = v])
  BY <1>2, Zenon DEF M!StoreDeployed
<1> QED
  BY <1>5, <1>6, <1>7

\* A job that edits and has loaded the manifest m of its row.
LEMMA EditLoaded ==
    ASSUME NEW b, Working(b), b.kind # "deploy", NEW at, NEW w, w.phase = "live", w.stored,
           RowOk(w), NEW m, Fits(m), m.name = w.m.name, NEW n, NEW c, Loads(c, b, at, m, n)
    PROVE  Working(c) /\ c.kind # "deploy" /\ c.id = b.id /\ Fitting(c, w)
<1>1. Working(c) /\ c.kind = b.kind /\ c.id = b.id /\ c.m = m
  BY LoadsManifest
<1>2. Agrees(m, w)
  BY DEF RowOk, Agrees
<1> QED
  BY <1>1, <1>2 DEF Fitting

LEMMA RedeployLoadStays ==
    ASSUME ManifestsInv, M!ManifestsAssumption, NEW j \in Jobs, M!RedeployLoad(j)
    PROVE  ManifestsInv'
<1> DEFINE id == job[j].id
           w == rows[id]
           m == M!Override(w.m, job[j].image)
           c == [job[j] EXCEPT !.at = "resolved", !.m = m, !.name = w.name]
<1>1. Working(job[j]) /\ id \in RowIds /\ job[j].kind = "redeploy" /\ job[j].at = "queued"
  BY AtWork DEF M!RedeployLoad
<1>2. /\ \/ M!Known(id) /\ M!SetStatus(id, "deploying") /\ job' = [job EXCEPT ![j] = c]
         \/ (M!MarkFailed(id) \/ UNCHANGED rows) /\ M!Retry(j)
      /\ UNCHANGED <<boxes, patch, edits, faults>>
  BY Zenon DEF M!RedeployLoad
<1>3. BoxesOk' /\ CountsOk'
  BY <1>2, BoxesKept, CountsKept
<1>4. CASE (M!MarkFailed(id) \/ UNCHANGED rows) /\ M!Retry(j)
  <2>1. RowsKeep
    BY <1>1, <1>4, MarkedFailed, RowsSame
  <2>2. JobsGoOn
    BY <1>1, <1>4, Retried
  <2> QED
    BY <1>2, <1>3, <2>1, <2>2, Quietly
<1>5. CASE M!Known(id) /\ M!SetStatus(id, "deploying") /\ job' = [job EXCEPT ![j] = c]
  <2>1. RowsKeep
    BY <1>1, <1>5, StatusKept DEF Statuses
  <2>2. w.phase = "live" /\ w.stored /\ RowOk(w)
    BY <1>1, <1>5 DEF M!Known, M!Live, ManifestsInv, RowsOk
  <2>3. Fits(m) /\ m.name = w.m.name
    BY <2>2, OverrideFits DEF RowOk
  <2>4. Loads(c, job[j], "resolved", m, w.name)
    BY Zenon DEF Loads
  <2>5. Working(c) /\ c.kind # "deploy" /\ c.id = id /\ Fitting(c, w)
    <3> HIDE DEF c, m
    <3> QED
      BY <1>1, <2>2, <2>3, <2>4, EditLoaded
  <2> QED
    <3> HIDE DEF c
    <3> QED
      BY <1>2, <1>3, <1>5, <2>1, <2>5, JobChanged
<1> QED
  BY <1>2, <1>4, <1>5

LEMMA UpdateLoadStays ==
    ASSUME ManifestsInv, M!ManifestsAssumption, NEW j \in Jobs, M!UpdateLoad(j)
    PROVE  ManifestsInv'
<1> DEFINE id == job[j].id
           w == rows[id]
           m == M!Changed(w.m, job[j].image, job[j].domain)
           at == IF job[j].image = "" THEN "created" ELSE "loaded"
           c == [job[j] EXCEPT !.at = at, !.m = m, !.name = w.name]
<1>1. Working(job[j]) /\ id \in RowIds /\ job[j].kind = "update" /\ job[j].at = "queued"
  BY AtWork DEF M!UpdateLoad
<1>2. /\ M!Finish(j) \/ M!Retry(j) \/ (M!Known(id) /\ job' = [job EXCEPT ![j] = c])
      /\ UNCHANGED <<rows, boxes, patch, edits, faults>>
  BY Zenon DEF M!UpdateLoad
<1>3. BoxesOk' /\ CountsOk' /\ RowsKeep
  BY <1>2, BoxesKept, CountsKept, RowsSame
<1>4. CASE M!Finish(j) \/ M!Retry(j)
  BY <1>1, <1>2, <1>3, <1>4, Finished, Retried, Quietly
<1>5. CASE M!Known(id) /\ job' = [job EXCEPT ![j] = c]
  <2>1. w.phase = "live" /\ w.stored /\ RowOk(w)
    BY <1>1, <1>5 DEF M!Known, M!Live, ManifestsInv, RowsOk
  <2>2. Fits(m) /\ m.name = w.m.name
    <3>1. Fits(w.m)
      BY <2>1 DEF RowOk
    <3> QED
      BY <3>1, ChangedFits, Zenon
  <2>3. Loads(c, job[j], at, m, w.name)
    BY Zenon DEF Loads
  <2>4. Working(c) /\ c.kind # "deploy" /\ c.id = id /\ Fitting(c, w)
    <3> HIDE DEF c, m, at
    <3> QED
      BY <1>1, <2>1, <2>2, <2>3, EditLoaded
  <2> QED
    <3> HIDE DEF c
    <3> QED
      BY <1>2, <1>3, <1>5, <2>4, JobChanged
<1> QED
  BY <1>2, <1>4, <1>5

\* The row, once a job that edits has stored the manifest.
Rewritten(v, w, m) == v = [w EXCEPT !.status = "running", !.stored = TRUE, !.m = m]

LEMMA RewrittenRow ==
    ASSUME NEW w, RowOk(w), w.phase = "live", w.stored, NEW m, Fits(m), Agrees(m, w),
           NEW v, Rewritten(v, w, m)
    PROVE  RowOk(v) /\ \A b : Fitting(b, w) => Fitting(b, v)
<1>1. v = [phase |-> w.phase, name |-> w.name, status |-> "running", stored |-> TRUE,
           m |-> m, stack |-> w.stack]
  BY DEF RowOk, Rewritten
<1>2. /\ v.phase = w.phase /\ v.name = w.name /\ v.status = "running"
      /\ v.stored = TRUE /\ v.m = m /\ v.stack = w.stack
  BY <1>1
<1>3. Single(v) <=> Single(w)
  BY <1>2 DEF Single
<1>4. RowOk(v)
  BY <1>1, <1>2, <1>3 DEF RowOk, Agrees, Statuses
<1>5. ASSUME NEW b, Fitting(b, w) PROVE Fitting(b, v)
  BY <1>2, <1>3, <1>5 DEF Fitting, Renames, Agrees
<1> QED
  BY <1>4, <1>5

LEMMA RewrittenAlike ==
    ASSUME NEW w, RowOk(w), w.stored, NEW m, NEW v, Rewritten(v, w, m), NEW k
    PROVE  v.phase = w.phase /\ (Agrees(k, w) => Agrees(k, v))
<1>1. v = [phase |-> w.phase, name |-> w.name, status |-> "running", stored |-> TRUE,
           m |-> m, stack |-> w.stack]
  BY DEF RowOk, Rewritten
<1>2. v.phase = w.phase /\ v.name = w.name /\ v.stored = TRUE /\ v.stack = w.stack
  BY <1>1
<1> QED
  BY <1>2 DEF Agrees, Single

LEMMA JobStoreStays ==
    ASSUME ManifestsInv, M!ManifestsAssumption, NEW j \in Jobs, M!JobStore(j)
    PROVE  ManifestsInv'
<1> DEFINE id == job[j].id
           w == rows[id]
           m == job[j].m
           v == [w EXCEPT !.status = "running", !.stored = TRUE, !.m = m]
<1>1. /\ Working(job[j]) /\ id \in RowIds /\ job[j].kind \in {"redeploy", "update"}
      /\ job[j].at = "created"
  BY AtWork DEF M!JobStore
<1>2. /\ \/ M!Live(id) /\ rows' = [rows EXCEPT ![id] = v]
         \/ ~M!Live(id) /\ UNCHANGED rows
      /\ M!Goto(j, "stored") /\ UNCHANGED <<boxes, patch, edits, faults>>
  BY Zenon DEF M!JobStore, M!StoreManifest
<1>3. JobsGoOn
  BY <1>1, <1>2, Went
<1>4. BoxesOk' /\ CountsOk'
  BY <1>2, BoxesKept, CountsKept
<1>5. CASE UNCHANGED rows
  BY <1>2, <1>3, <1>4, <1>5, RowsSame, Quietly
<1>6. CASE M!Live(id) /\ rows' = [rows EXCEPT ![id] = v]
  <2>1. RowOk(w) /\ w.phase = "live" /\ Fitting(job[j], w)
    BY <1>1, <1>6 DEF M!Live, ManifestsInv, RowsOk, JobsFit
  <2>2. Changes(job[j])
    BY <1>1 DEF Changes
  <2>3. Fits(m) /\ Agrees(m, w)
    BY <1>1, <2>1, <2>2 DEF Working, Fitting
  <2>4. w.stored
    BY <2>1, <2>3 DEF Agrees
  <2>5. Rewritten(v, w, m)
    BY Zenon DEF Rewritten
  <2> HIDE DEF v
  <2>6. RowOk(v) /\ \A b : Fitting(b, w) => Fitting(b, v)
    BY <2>1, <2>3, <2>4, <2>5, RewrittenRow
  <2>7. \A k \in Jobs : (Working(job[k]) /\ job[k].id = id) => Fitting(job[k], v)
    BY <2>6 DEF ManifestsInv, JobsFit
  <2>8. PatchOk'
    <3>1. /\ rows'[id] = v
          /\ \A i \in RowIds \ {id} : rows'[i] = rows[i]
      BY <1>1, <1>6 DEF ManifestsInv, RowsOk
    <3>2. CASE patch = M!NoPatch
      BY <1>2, <3>2 DEF PatchOk
    <3>3. CASE patch # M!NoPatch
      <4>1. /\ patch.at = "read" /\ patch.id \in RowIds /\ Fits(patch.m)
            /\ rows[patch.id].phase # "unborn" /\ Agrees(patch.m, rows[patch.id])
        BY <3>3 DEF ManifestsInv, PatchOk
      <4>2. CASE patch.id = id
        <5>1. rows[patch.id] = w /\ rows'[patch.id] = v
          BY <3>1, <4>2
        <5>2. v.phase = w.phase /\ (Agrees(patch.m, w) => Agrees(patch.m, v))
          BY <2>1, <2>4, <2>5, RewrittenAlike
        <5> QED
          BY <1>2, <4>1, <5>1, <5>2 DEF PatchOk
      <4>3. CASE patch.id # id
        <5>1. rows'[patch.id] = rows[patch.id]
          BY <3>1, <4>1, <4>3
        <5> QED
          BY <1>2, <4>1, <5>1 DEF PatchOk
      <4> QED
        BY <4>2, <4>3
    <3> QED
      BY <3>2, <3>3
  <2> QED
    BY <1>1, <1>3, <1>4, <1>6, <2>6, <2>7, <2>8, RowOfJobs
<1> QED
  BY <1>2, <1>5, <1>6

\* The row that a delete leaves.
Gone(v, s) == v = [M!NoRow EXCEPT !.phase = s]

LEMMA DeletedRow ==
    ASSUME NEW v, Gone(v, "deleted")
    PROVE  RowOk(v) /\ v.phase = "deleted"
<1>1. v = [phase |-> "deleted", name |-> "", status |-> "", stored |-> FALSE, m |-> M!Nothing,
           stack |-> {}]
  BY DEF M!NoRow, Gone
<1>2. "" \in M!AllNames \cup {""}
  OBVIOUS
<1>3. v.phase = "deleted" /\ v.name = "" /\ v.status = "" /\ v.stored = FALSE
  <2>1. v.phase = "deleted"
    BY <1>1
  <2>2. v.name = ""
    BY <1>1
  <2>3. v.status = ""
    BY <1>1
  <2>4. v.stored = FALSE
    BY <1>1
  <2> QED
    BY <2>1, <2>2, <2>3, <2>4
<1>4. v = [phase |-> v.phase, name |-> v.name, status |-> v.status, stored |-> v.stored,
           m |-> v.m, stack |-> v.stack]
  BY <1>1
<1>5. v.name \in M!AllNames \cup {""}
  BY <1>2, <1>3, Zenon
<1> QED
  BY <1>3, <1>4, <1>5 DEF RowOk, Statuses

\* Nothing is asked of what fits a row that is gone.
LEMMA NothingAsked ==
    ASSUME NEW v, v.phase = "deleted" PROVE \A b : Fitting(b, v) /\ \A m : Agrees(m, v)
  BY DEF Fitting, Renames, Agrees

LEMMA DeleteRowStays ==
    ASSUME ManifestsInv, M!ManifestsAssumption, NEW j \in Jobs, M!DeleteRow(j)
    PROVE  ManifestsInv'
<1> DEFINE id == job[j].id
           v == [M!NoRow EXCEPT !.phase = "deleted"]
<1>1. Working(job[j]) /\ id \in RowIds
  BY AtWork DEF M!DeleteRow
<1>2. /\ \/ rows' = [rows EXCEPT ![id] = v] /\ M!Finish(j) /\ UNCHANGED faults
         \/ M!Fault /\ M!Retry(j) /\ UNCHANGED rows
      /\ UNCHANGED <<boxes, patch, edits>>
  BY Zenon DEF M!DeleteRow
<1>3. BoxesOk' /\ CountsOk'
  BY <1>2, BoxesKept, FaultsOk DEF CountsOk, ManifestsInv
<1>4. JobsGoOn
  BY <1>1, <1>2, Finished, Retried
<1>5. CASE UNCHANGED rows
  BY <1>2, <1>3, <1>4, <1>5, RowsSame, Quietly
<1>6. CASE rows' = [rows EXCEPT ![id] = v]
  <2>1. RowOk(v) /\ v.phase = "deleted"
    <3>1. Gone(v, "deleted")
      BY Zenon DEF Gone
    <3> QED
      BY <3>1, DeletedRow
  <2> HIDE DEF v
  <2>2. \A b : Fitting(b, v) /\ \A m : Agrees(m, v)
    BY <2>1, NothingAsked
  <2>3. /\ rows'[id] = v
        /\ \A i \in RowIds \ {id} : rows'[i] = rows[i]
    BY <1>1, <1>6 DEF ManifestsInv, RowsOk
  <2>4. PatchOk'
    <3>1. CASE patch = M!NoPatch
      BY <1>2, <3>1 DEF PatchOk
    <3>2. CASE patch # M!NoPatch
      <4>1. /\ patch.at = "read" /\ patch.id \in RowIds /\ Fits(patch.m)
            /\ rows[patch.id].phase # "unborn" /\ Agrees(patch.m, rows[patch.id])
        BY <3>2 DEF ManifestsInv, PatchOk
      <4>2. rows'[patch.id].phase # "unborn" /\ Agrees(patch.m, rows'[patch.id])
        BY <2>1, <2>2, <2>3, <4>1
      <4> QED
        BY <1>2, <4>1, <4>2 DEF PatchOk
    <3> QED
      BY <3>1, <3>2
  <2> QED
    BY <1>1, <1>3, <1>4, <1>6, <2>1, <2>2, <2>4, RowOfJobs
<1> QED
  BY <1>2, <1>5, <1>6

LEMMA JobStepStays ==
    ASSUME ManifestsInv, M!ManifestsAssumption, NEW j \in Jobs, M!JobStep(j)
    PROVE  ManifestsInv'
  BY DeployLoadStays, DeployBuildStays, DeployCreateStays, DeployStoreStays,
     RedeployLoadStays, RedeployBlueGreenStays, RedeployRemoveStays, RedeployCreateStays,
     UpdateLoadStays, UpdateRemoveStays, UpdateCreateStays, JobStoreStays, JobEndStays,
     DeleteRemoveStays, DeleteRowStays, CrashStays DEF M!JobStep

LEMMA ManifestsRest ==
    ASSUME ManifestsInv, UNCHANGED <<rows, boxes, job, patch, edits, faults>>
    PROVE  ManifestsInv'
<1>1. RowsOk' /\ SlotsOk' /\ JobsFit'
  BY DEF ManifestsInv, RowsOk, SlotsOk, JobsFit
<1>2. OneDeploy' /\ PatchOk' /\ BoxesOk' /\ CountsOk'
  BY DEF ManifestsInv, OneDeploy, PatchOk, BoxesOk, CountsOk
<1> QED
  BY <1>1, <1>2 DEF ManifestsInv

LEMMA ManifestsStays ==
    ASSUME ManifestsInv, M!ManifestsAssumption, [M!Next]_(M!vars) PROVE ManifestsInv'
<1>1. ASSUME NEW id \in RowIds, NEW r \in M!Requests, M!Create(id, r) PROVE ManifestsInv'
  BY <1>1, CreateStays
<1>2. ASSUME NEW id \in RowIds, NEW i, M!Redeploy(id, i) PROVE ManifestsInv'
  BY <1>2, RedeployStays
<1>3. ASSUME NEW id \in RowIds, NEW i, NEW d, M!Update(id, i, d) PROVE ManifestsInv'
  BY <1>3, UpdateStays
<1>4. ASSUME NEW id \in RowIds, M!Delete(id) PROVE ManifestsInv'
  BY <1>4, DeleteStays
<1>5. ASSUME NEW n \in M!AllNames, NEW s \in M!Scalings, M!PatchRead(n, s) PROVE ManifestsInv'
  BY <1>5, PatchReadStays
<1>6. CASE M!PatchWrite
  BY <1>6, PatchWriteStays
<1>7. ASSUME NEW j \in Jobs, M!JobStep(j) PROVE ManifestsInv'
  BY <1>7, JobStepStays
<1>8. CASE UNCHANGED <<rows, boxes, job, patch, edits, faults>>
  BY <1>8, ManifestsRest
<1> QED
  BY <1>1, <1>2, <1>3, <1>4, <1>5, <1>6, <1>7, <1>8, Zenon DEF M!Next, M!vars

-----------------------------------------------------------------------------
(* The parts together *)

\* What holds in the states of a part.
WorkInv ==
    /\ part = "routes" => CaddyInv
    /\ part = "selfupdate" => SelfInv
    /\ part \in {"worker", "autoscale"} => WorkerInv
    /\ part = "backup" => BackupInv
    /\ part = "images" => ImagesInv
    /\ part \in {"runtime", "twocalls"} => RuntimeInv
    /\ part \in {"deploys", "names"} => ManifestsInv

LEMMA Assumptions ==
    /\ C!CaddyRoutesAssumption /\ U!SelfUpdateAssumption /\ R!RemoteAssumption
    /\ B!BackupAssumption /\ I!ImageAssumption /\ D!RuntimeAssumption /\ M!ManifestsAssumption
  BY WorkAssumption DEF WorkAssumption

\* Every part starts in its invariant.
LEMMA WorkInit == Init => WorkInv
<1> SUFFICES ASSUME Init PROVE WorkInv
  OBVIOUS
<1>i. \/ part = "routes" /\ C!Init
      \/ part = "selfupdate" /\ U!Init
      \/ part \in {"worker", "autoscale"} /\ R!Init
      \/ part = "backup" /\ B!Init
      \/ part = "images" /\ I!Init
      \/ part \in {"runtime", "twocalls"} /\ D!Init
      \/ part \in {"deploys", "names"} /\ M!Init
  BY Zenon DEF Init
<1>1. CASE part = "routes" /\ C!Init
  BY <1>1, Assumptions, CaddyInit DEF WorkInv
<1>2. CASE part = "selfupdate" /\ U!Init
  BY <1>2, Assumptions, SelfInit DEF WorkInv
<1>3. CASE part \in {"worker", "autoscale"} /\ R!Init
  BY <1>3, Assumptions, WorkerInit DEF WorkInv
<1>4. CASE part = "backup" /\ B!Init
  BY <1>4, Assumptions, BackupInit DEF WorkInv
<1>5. CASE part = "images" /\ I!Init
  BY <1>5, Assumptions, ImagesInit DEF WorkInv
<1>6. CASE part \in {"runtime", "twocalls"} /\ D!Init
  BY <1>6, Assumptions, RuntimeInit DEF WorkInv
<1>7. CASE part \in {"deploys", "names"} /\ M!Init
  BY <1>7, Assumptions, ManifestsInit DEF WorkInv
<1> QED
  BY <1>i, <1>1, <1>2, <1>3, <1>4, <1>5, <1>6, <1>7

\* A step of a part is a step of its module.
StepOf ==
    /\ part' = part
    /\ part = "routes" => [C!Next]_(C!vars)
    /\ part = "selfupdate" => [U!Next]_(U!vars)
    /\ part \in {"worker", "autoscale"} => [R!Next]_(R!vars)
    /\ part = "backup" => [B!Next]_(B!vars)
    /\ part = "images" => [I!Next]_(I!vars)
    /\ part \in {"runtime", "twocalls"} => [D!Next]_(D!vars)
    /\ part \in {"deploys", "names"} => [M!Next]_(M!vars)

\* Where nothing changes no module's variables change.
LEMMA NothingMoves == ASSUME UNCHANGED vars PROVE StepOf
<1>1. /\ UNCHANGED <<part, row, boxes, faults>>
      /\ UNCHANGED <<cVars, uVars, rVars, bVars, iVars, dVars, mVars>>
  BY DEF vars
<1>2. UNCHANGED C!vars
  BY <1>1 DEF cVars, C!vars
<1>3. UNCHANGED U!vars
  BY <1>1 DEF uVars, U!vars
<1>4. UNCHANGED R!vars
  BY <1>1 DEF rVars, R!vars
<1>5. UNCHANGED B!vars
  BY <1>1 DEF bVars, B!vars
<1>6. UNCHANGED I!vars
  BY <1>1 DEF iVars, I!vars
<1>7. UNCHANGED D!vars
  BY <1>1 DEF dVars, D!vars
<1>8. UNCHANGED M!vars
  BY <1>1 DEF mVars, M!vars
<1> QED
  BY <1>1, <1>2, <1>3, <1>4, <1>5, <1>6, <1>7, <1>8 DEF StepOf

\* A step is one of the part that runs, or changes nothing.
LEMMA WorkParts == ASSUME [Next]_vars PROVE StepOf
<1>0. CASE UNCHANGED vars
  BY <1>0, NothingMoves
<1>1. CASE RoutesStep
  BY <1>1 DEF RoutesStep, StepOf
<1>2. CASE SelfUpdateStep
  BY <1>2 DEF SelfUpdateStep, StepOf
<1>3. CASE WorkerStep \/ AutoscaleStep
  BY <1>3 DEF WorkerStep, AutoscaleStep, StepOf
<1>4. CASE BackupStep
  BY <1>4 DEF BackupStep, StepOf
<1>5. CASE ImagesStep
  BY <1>5 DEF ImagesStep, StepOf
<1>6. CASE RuntimeStep \/ TwoCallsStep
  BY <1>6 DEF RuntimeStep, TwoCallsStep, StepOf
<1>7. CASE DeploysStep \/ NamesStep
  BY <1>7 DEF DeploysStep, NamesStep, StepOf
<1> QED
  BY <1>0, <1>1, <1>2, <1>3, <1>4, <1>5, <1>6, <1>7 DEF Next

LEMMA WorkKeeps == WorkInv /\ [Next]_vars => WorkInv'
<1> SUFFICES ASSUME WorkInv, [Next]_vars PROVE WorkInv'
  OBVIOUS
<1>s. StepOf
  BY WorkParts
<1>1. part = "routes" => CaddyInv'
  BY <1>s, Assumptions, CaddyStays DEF WorkInv, StepOf
<1>2. part = "selfupdate" => SelfInv'
  BY <1>s, Assumptions, SelfStays DEF WorkInv, StepOf
<1>3. part \in {"worker", "autoscale"} => WorkerInv'
  BY <1>s, Assumptions, WorkerStays DEF WorkInv, StepOf
<1>4. part = "backup" => BackupInv'
  BY <1>s, Assumptions, BackupStays DEF WorkInv, StepOf
<1>5. part = "images" => ImagesInv'
  BY <1>s, Assumptions, ImagesStays DEF WorkInv, StepOf
<1>6. part \in {"runtime", "twocalls"} => RuntimeInv'
  BY <1>s, Assumptions, RuntimeStays DEF WorkInv, StepOf
<1>7. part \in {"deploys", "names"} => ManifestsInv'
  BY <1>s, Assumptions, ManifestsStays DEF WorkInv, StepOf
<1> QED
  BY <1>s, <1>1, <1>2, <1>3, <1>4, <1>5, <1>6, <1>7 DEF WorkInv, StepOf

\* WorkInv is the invariant behind the theorems that follow.
THEOREM WorkInvariant == Spec => []WorkInv
BY WorkInit, WorkKeeps, PTL DEF Spec

\* Every component keeps its variables in their types; on a worker (RemoteService) that means
\* no more copies of a service than the manifest allows.
THEOREM WorkTypes == Spec => []TypeOK
<1>1. WorkInv => TypeOK
  <2> SUFFICES ASSUME WorkInv PROVE TypeOK
    OBVIOUS
  <2>1. /\ part = "routes" => C!TypeOK
        /\ part = "selfupdate" => U!TypeOK
        /\ part \in {"worker", "autoscale"} => R!TypeOK
    BY Assumptions, CaddyMeans, SelfMeans, WorkerMeans DEF WorkInv
  <2>2. /\ part = "backup" => B!TypeOK
        /\ part = "images" => I!TypeOK
        /\ part \in {"runtime", "twocalls"} => D!TypeOK
        /\ part \in {"deploys", "names"} => M!TypeOK
    BY Assumptions, BackupMeans, ImagesMeans, RuntimeMeans, ManifestsMeans DEF WorkInv
  <2> QED
    BY <2>1, <2>2 DEF TypeOK
<1> QED
  BY <1>1, WorkInvariant, PTL

\* The dashboard keeps its routes, and the first route of a service leads where the last call
\* that succeeded wanted it, although infra/caddy/client.go reads, counts and writes the list
\* of routes in separate calls, unless an update or a count failed.
THEOREM RoutesLeadWhereAsked == Spec => []RequestsGoWhereAsked
<1>1. WorkInv => RequestsGoWhereAsked
  BY Assumptions, CaddyMeans DEF WorkInv, RequestsGoWhereAsked
<1> QED
  BY <1>1, WorkInvariant, PTL

\* A restore puts no service's data into the database of another, whatever is backed up,
\* deleted and reconfigured meanwhile.
THEOREM RestoresGoHome == Spec => []RestoresItsOwnService
<1>1. WorkInv => RestoresItsOwnService
  BY BackupMeans DEF WorkInv, RestoresItsOwnService
<1> QED
  BY <1>1, WorkInvariant, PTL

\* A rolling update leaves no fewer replicas running than it found, but for those that exited
\* on their own: for any number of replicas, digests and failures.
THEOREM UpdatesKeepServing == Spec => []UpdateKeepsServing
<1>1. WorkInv => UpdateKeepsServing
  BY ImagesMeans DEF WorkInv, UpdateKeepsServing
<1> QED
  BY <1>1, WorkInvariant, PTL

\* However an update of the plane and the calls it makes end, a healthy plane runs, as long as
\* one update runs at a time.
THEOREM ThePlaneStaysUp == ASSUME MaxRunning = 1 PROVE Spec => []PlaneStaysUp
<1>1. WorkInv => PlaneStaysUp
  BY SelfMeans DEF WorkInv, PlaneStaysUp
<1> QED
  BY <1>1, WorkInvariant, PTL

\* What a driver answers without an error, the engine has done, but for a rename by podman and a
\* limit that docker is to lift (Runtime!Gap): for any calls that overlap and any lost answers.
THEOREM AnswersAreTrue == Spec => []AnsweredOkIsDone
<1>1. WorkInv => AnsweredOkIsDone
  BY RuntimeMeans DEF WorkInv, AnsweredOkIsDone
<1> QED
  BY <1>1, WorkInvariant, PTL

\* The clean-up job removes no container that runs and no image that is used.
THEOREM CleanupIsHarmless == Spec => CleanupSparesWhatIsUsed
<1>1. WorkInv /\ [Next]_vars => [\/ part \notin {"runtime", "twocalls"} \/ D!CleanupSpares]_vars
  <2> SUFFICES ASSUME WorkInv, [Next]_vars, part \in {"runtime", "twocalls"}
               PROVE  D!CleanupSpares
    OBVIOUS
  <2>1. RuntimeInv /\ [D!Next]_(D!vars)
    BY WorkParts DEF WorkInv, StepOf
  <2> QED
    BY <2>1, Assumptions, RuntimeSpares
<1> QED
  BY <1>1, WorkInvariant, PTL DEF Spec, CleanupSparesWhatIsUsed

\* A stored manifest resolves, asks for no build and bears the name of its row: whatever is
\* posted, and however redeploys, updates, PATCHes, retries and crashes interleave.
THEOREM StoredManifestsFit == Spec => []ManifestFitsItsRow
<1>1. WorkInv => ManifestFitsItsRow
  BY Assumptions, ManifestsMeans DEF WorkInv, ManifestFitsItsRow
<1> QED
  BY <1>1, WorkInvariant, PTL
=============================================================================
