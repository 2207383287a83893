------------------------------- MODULE Backup -------------------------------
(***************************************************************************)
(* Backups of the databases of services: a request dumps a database,       *)
(* stores the dump in the bucket of the global configuration and keeps a   *)
(* record of it; a record can be restored, or downloaded by a link.        *)
(*                                                                         *)
(* The key of a dump is made of the service and of the time in seconds.    *)
(* The record does not say in which bucket the dump is: a restore looks in *)
(* the bucket that is configured then.                                     *)
(***************************************************************************)
EXTENDS Naturals, Sequences

CONSTANTS
    Services,       \* services that have a database
    Buckets,
    MaxRecords,     \* bound: backups
    MaxSeconds,     \* bound: seconds that pass
    MaxWrites,      \* bound: changes of each database by its service
    MaxFaults       \* bound: dumps, uploads and restores that fail

BackupAssumption ==
    /\ MaxRecords \in Nat /\ MaxSeconds \in Nat /\ MaxWrites \in Nat /\ MaxFaults \in Nat

VARIABLES
    config,     \* the bucket of the configuration, or "none"
    database,   \* the content of each service's database
    records,    \* BackupRecord, and what its dump read
    objects,    \* the objects of the buckets
    restore,    \* the restore that runs
    clock, faults

vars == <<config, database, records, objects, restore, clock, faults>>

\* What a database holds: the n-th state its service wrote, or what a restore left half done.
Contents == [service : Services, state : 0 .. MaxWrites, whole : BOOLEAN]

\* A key, and no key.
Keys == [service : Services, second : 0 .. MaxSeconds]
NoKey == "none"

\* The stage of a backup. Of one that is abandoned the row still says "running".
RecordStage == {"running", "dumped", "uploaded", "completed", "failed", "abandoned"}

Objects == [bucket : Buckets, key : Keys, content : Contents]

Idle == [record |-> 0, object |-> "none"]

TypeOK ==
    /\ config \in Buckets \cup {"none"}
    /\ database \in [Services -> Contents]
    /\ \A i \in DOMAIN records :
         records[i].service \in Services /\ records[i].at \in RecordStage
         /\ records[i].bucket \in Buckets
    /\ objects \subseteq Objects
    /\ restore.record \in 0 .. MaxRecords
    /\ clock \in 0 .. MaxSeconds /\ faults \in 0 .. MaxFaults

Init ==
    /\ config = "none"
    /\ database = [s \in Services |-> [service |-> s, state |-> 0, whole |-> TRUE]]
    /\ records = <<>> /\ objects = {}
    /\ restore = Idle
    /\ clock = 0 /\ faults = 0

Fault == faults < MaxFaults /\ faults' = faults + 1

-----------------------------------------------------------------------------
(* The configuration: one row, written as a whole. *)

SaveConfig ==
    /\ config' \in Buckets
    /\ UNCHANGED <<database, records, objects, restore, clock, faults>>

-----------------------------------------------------------------------------
(* BackupPostgres *)

\* The record of a backup that has begun. It holds the configuration it read, which it goes on
\* with however the configuration changes.
BackupPostgres(s) ==
    /\ config # "none" /\ Len(records) < MaxRecords
    /\ records' = Append(records, [service |-> s, at |-> "running", bucket |-> config,
                                   key |-> NoKey, content |-> database[s]])
    /\ UNCHANGED <<config, database, objects, restore, clock, faults>>

PgDump(i) ==
    /\ records[i].at = "running"
    /\ \/ /\ records' = [records EXCEPT ![i].at = "dumped",
                                        ![i].content = database[records[i].service]]
          /\ UNCHANGED faults
       \/ /\ Fault
          /\ records' = [records EXCEPT ![i].at = "failed"]
    /\ UNCHANGED <<config, database, objects, restore, clock>>

\* Mutant: the key is made of the time alone, as if every service had the same name.
Mut_Key(s) == [service |-> CHOOSE t \in Services : TRUE, second |-> clock]

Key(s) == [service |-> s, second |-> clock]

\* A dump that is stored under a key that exists takes the place of the older one.
Upload(i) ==
    LET r == records[i] IN
    /\ r.at = "dumped"
    /\ \/ /\ objects' = {o \in objects : o.bucket # r.bucket \/ o.key # Key(r.service)}
                        \cup {[bucket |-> r.bucket, key |-> Key(r.service), content |-> r.content]}
          /\ records' = [records EXCEPT ![i].at = "uploaded", ![i].key = Key(r.service)]
          /\ UNCHANGED faults
       \/ /\ Fault
          /\ records' = [records EXCEPT ![i].at = "failed"]
          /\ UNCHANGED objects
    /\ UNCHANGED <<config, database, restore, clock>>

\* Only now the row of the record gets the key; if that fails nobody learns of it.
Complete(i) ==
    /\ records[i].at = "uploaded"
    /\ \/ records' = [records EXCEPT ![i].at = "completed"] /\ UNCHANGED faults
       \/ Fault /\ records' = [records EXCEPT ![i].at = "abandoned"]
    /\ UNCHANGED <<config, database, objects, restore, clock>>

-----------------------------------------------------------------------------
(* RestorePostgres, DownloadURL: the row's key in the bucket of today. *)

Stored(i) ==
    {o \in objects : o.bucket = config /\ records[i].at = "completed" /\ o.key = records[i].key}

\* The object is read as a whole before the restore begins.
RestorePostgres(i) ==
    /\ restore = Idle
    /\ \E o \in Stored(i) : restore' = [record |-> i, object |-> o.content]
    /\ UNCHANGED <<config, database, records, objects, clock, faults>>

\* The caller names the database, here that of the record's service. A restore that fails, or
\* whose caller goes away, stops where it is.
PgRestore ==
    /\ restore # Idle
    /\ LET s == records[restore.record].service IN
       \/ database' = [database EXCEPT ![s] = restore.object] /\ UNCHANGED faults
       \/ Fault /\ database' = [database EXCEPT ![s].whole = FALSE]
    /\ restore' = Idle
    /\ UNCHANGED <<config, records, objects, clock>>

-----------------------------------------------------------------------------

\* The service writes to its database.
Write(s) ==
    /\ database[s].whole /\ database[s].state < MaxWrites
    /\ database' = [database EXCEPT ![s].state = @ + 1]
    /\ UNCHANGED <<config, records, objects, restore, clock, faults>>

Tick ==
    /\ clock < MaxSeconds /\ clock' = clock + 1
    /\ UNCHANGED <<config, database, records, objects, restore, faults>>

\* The process ends: nothing resumes a backup.
Crash ==
    /\ Fault
    /\ records' = [i \in DOMAIN records |->
                     IF records[i].at \in {"running", "dumped", "uploaded"}
                     THEN [records[i] EXCEPT !.at = "abandoned"] ELSE records[i]]
    /\ restore' = Idle
    /\ database' = IF restore = Idle THEN database
                   ELSE [database EXCEPT ![records[restore.record].service].whole = FALSE]
    /\ UNCHANGED <<config, objects, clock>>

Next ==
    \/ SaveConfig
    \/ \E s \in Services : BackupPostgres(s) \/ Write(s)
    \/ \E i \in DOMAIN records : PgDump(i) \/ Upload(i) \/ Complete(i) \/ RestorePostgres(i)
    \/ PgRestore \/ Tick \/ Crash

Spec == Init /\ [][Next]_vars

-----------------------------------------------------------------------------
(* Properties. *)

\* Whatever backups run in the same second and whatever the configuration became meanwhile, a
\* restore never puts the data of one service into the database of another.
RestoresItsOwnService ==
    \A s \in Services : database[s].service = s
=============================================================================
