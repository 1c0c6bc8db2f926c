----------------------------- MODULE Retention ------------------------------
(***************************************************************************)
(* The retention of the backups of one database: workers record artifacts, *)
(* enforceRetention, called by every trigger of every schedule of that     *)
(* database, lists the available ones, newest first, and deletes those     *)
(* beyond the schedule's retention, the object first and the row second,   *)
(* going on to the next when one of the two calls rejects.                 *)
(*                                                                         *)
(* Artifacts are numbered in the order of their createdAt.                 *)
(***************************************************************************)
EXTENDS Integers, FiniteSets

CONSTANTS MaxArtifacts,  \* bound on the artifacts ever recorded
          Schedules, Keep,  \* schedules of the database, their retention
          Sweeps,        \* runs of enforceRetention that may overlap
          MaxCrashes,    \* bound on the crashes of a scheduler
          Faults         \* "call": a call to storage or Postgres rejects

ASSUME MaxArtifactsAssumption == MaxArtifacts \in Nat
ASSUME KeepAssumption == Keep \in [Schedules -> Nat \ {0}]
ASSUME MaxCrashesAssumption == MaxCrashes \in Nat

VARIABLES
  made,     \* how many artifacts were recorded
  kind,     \* "backup", "sqlExport" or "tableExport" (csv and xlsx)
  row,      \* status of the Backup row
  object,   \* the artifacts whose object is in storage
  doomed,   \* what a sweep has still to delete
  halfway,  \* of these, the one whose object it has deleted
  crashes

vars == <<made, kind, row, object, doomed, halfway, crashes>>

Artifacts == 1..MaxArtifacts
Kind == {"backup", "sqlExport", "tableExport"}

TypeOK ==
  /\ made    \in 0..MaxArtifacts
  /\ kind    \in [Artifacts -> Kind]
  /\ row     \in [Artifacts -> {"absent", "available", "deleted"}]
  /\ object  \in SUBSET Artifacts
  /\ doomed  \in [Sweeps -> SUBSET Artifacts]
  /\ halfway \in [Sweeps -> SUBSET Artifacts]
  /\ crashes \in 0..MaxCrashes

Init ==
  /\ made    = 0
  /\ kind    = [b \in Artifacts |-> "backup"]
  /\ row     = [b \in Artifacts |-> "absent"]
  /\ object  = {}
  /\ doomed  = [r \in Sweeps |-> {}]
  /\ halfway = [r \in Sweeps |-> {}]
  /\ crashes = 0

\* backup.create of the backup and the export processors.
RecordArtifact(k) ==
  /\ made < MaxArtifacts
  /\ made' = made + 1
  /\ kind' = [kind EXCEPT ![made + 1] = k]
  /\ row' = [row EXCEPT ![made + 1] = "available"]
  /\ object' = object \cup {made + 1}
  /\ UNCHANGED <<doomed, halfway, crashes>>

\* The rows format 'sql', status 'available'.
Listed == {b \in 1..made : row[b] = "available" /\ kind[b] # "tableExport"}

\* Mutants: one backup less is kept, or one more.
BeyondGenerousMutant(n) == {b \in Listed : Cardinality({x \in Listed : x > b}) > n}
BeyondMutant(n) == {b \in Listed : Cardinality({x \in Listed : x > b}) >= n - 1}

\* backups.slice(retention), the newest first.
Beyond(n) == {b \in Listed : Cardinality({x \in Listed : x > b}) >= n}

StartSweep(r, s) ==
  /\ doomed[r] = {}
  /\ doomed' = [doomed EXCEPT ![r] = Beyond(Keep[s])]
  /\ UNCHANGED <<made, kind, row, object, halfway, crashes>>

\* The loop handles the newest of what is left.
Newest(S, b) == b \in S /\ \A x \in S : x <= b

\* Mutant: the sweep remembers a place that is no artifact.
SkipMutant(r, b) == /\ doomed' = [doomed EXCEPT ![r] = @ \ {b}]
                    /\ halfway' = [halfway EXCEPT ![r] = {0}]

Skip(r, b) == /\ doomed' = [doomed EXCEPT ![r] = @ \ {b}]
              /\ halfway' = [halfway EXCEPT ![r] = {}]

\* storage.delete; deleting what is not there is not an error.
DeleteObject(r, b) ==
  /\ Newest(doomed[r], b) /\ halfway[r] = {}
  /\ object' = object \ {b}
  /\ halfway' = [halfway EXCEPT ![r] = {b}]
  /\ UNCHANGED <<made, kind, row, doomed, crashes>>

DeleteRejects(r, b) ==
  /\ "call" \in Faults
  /\ Newest(doomed[r], b) /\ halfway[r] = {}
  /\ object' \in {object, object \ {b}}
  /\ Skip(r, b)
  /\ UNCHANGED <<made, kind, row, crashes>>

\* Mutant: the row goes first, and an error of the storage is forgotten.
MarkDeletedMutant(r, b) ==
  /\ Newest(doomed[r], b)
  /\ row' = [row EXCEPT ![b] = "deleted"]
  /\ Skip(r, b)
  /\ UNCHANGED <<made, kind, object, crashes>>

MarkDeleted(r, b) ==
  /\ halfway[r] = {b}
  /\ row' = [row EXCEPT ![b] = "deleted"]
  /\ Skip(r, b)
  /\ UNCHANGED <<made, kind, object, crashes>>

MarkRejects(r, b) ==
  /\ "call" \in Faults
  /\ halfway[r] = {b}
  /\ row' \in {row, [row EXCEPT ![b] = "deleted"]}
  /\ Skip(r, b)
  /\ UNCHANGED <<made, kind, object, crashes>>

\* The scheduler dies in the middle of a sweep.
Crash(r) ==
  /\ crashes < MaxCrashes
  /\ doomed[r] # {}
  /\ crashes' = crashes + 1
  /\ doomed' = [doomed EXCEPT ![r] = {}]
  /\ halfway' = [halfway EXCEPT ![r] = {}]
  /\ UNCHANGED <<made, kind, row, object>>

SweepStep(r) == \E b \in Artifacts : \/ DeleteObject(r, b) \/ DeleteRejects(r, b)
                                     \/ MarkDeleted(r, b) \/ MarkRejects(r, b)

Next == \/ \E k \in Kind : RecordArtifact(k)
        \/ \E r \in Sweeps : \/ \E s \in Schedules : StartSweep(r, s)
                             \/ SweepStep(r)
                             \/ Crash(r)

Spec == Init /\ [][Next]_vars

\* A sweep that has begun goes on, the cron of a schedule fires again, and no
\* call that is repeated again and again rejects every time.
FairSpec == /\ Spec
            /\ \A r \in Sweeps : WF_vars(SweepStep(r))
            /\ \A r \in Sweeps, s \in Schedules : WF_vars(StartSweep(r, s))
            /\ \A b \in Artifacts : /\ SF_vars(\E r \in Sweeps : DeleteObject(r, b))
                                    /\ SF_vars(\E r \in Sweeps : MarkDeleted(r, b))

----------------------------------------------------------------------------
(* Properties. *)

NewerSql(b) == {x \in 1..made : x > b /\ kind[x] # "tableExport"}

\* What no sweep may touch: exports to csv and xlsx, and the newest SQL artifacts,
\* as many as the least retention of the database's schedules.
Protected(b) == \/ kind[b] = "tableExport"
                \/ \A s \in Schedules : Cardinality(NewerSql(b)) < Keep[s]

\* However sweeps overlap, fail and die while new artifacts arrive, what they may
\* not touch is available and has its object.
NewestKept ==
  \A b \in 1..made : Protected(b) => row[b] = "available" /\ b \in object

\* A row says "deleted" only when the storage was really freed.
DeletedIsFreed == \A b \in Artifacts : row[b] = "deleted" => b \notin object

\* Retention gets there: in the end no schedule has more available artifacts
\* than it keeps, crashes and rejected calls in the middle of sweeps notwithstanding.
RetentionConverges ==
  \A s \in Schedules : <>[](Cardinality(Listed) <= Keep[s])
=============================================================================
