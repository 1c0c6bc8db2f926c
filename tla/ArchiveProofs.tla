--------------------------- MODULE ArchiveProofs ---------------------------
(***************************************************************************)
(* Proofs about what the system keeps: the artifacts under a retention     *)
(* policy (Retention) and the audit log (AuditChain).                      *)
(*                                                                         *)
(* Retention, for any number of artifacts, any schedules with any          *)
(* retentions, and any sweeps that overlap, fail and die.  The point of    *)
(* the invariant is that a sweep's list is harmless for ever: what it may  *)
(* not touch when it is drawn up is protected by fewer artifacts later,    *)
(* never by more.                                                          *)
(*                                                                         *)
(* AuditChain, for any writers, actions, metas and bounds.  What is        *)
(* assumed of the hash is stated by the theorem that needs it: no          *)
(* collisions, and no hash that is its own predecessor.                    *)
(***************************************************************************)
EXTENDS Retention, AuditChain, FiniteSetTheorems, SequenceTheorems, TLAPS

(* Retention. *)

\* Rows exist for what was recorded, objects for nothing else.
Recorded == \A b \in Artifacts : /\ row[b] = "absent" <=> b > made
                                 /\ b \in object => b <= made

\* What a sweep has still to delete is recorded and not protected.
DoomedAreOld == \A r \in Sweeps : \A b \in doomed[r] : b <= made /\ ~Protected(b)

\* Between the two calls of an iteration the object is gone.
HalfwayIsFreed ==
  \A r \in Sweeps : \A b \in halfway[r] : b \in doomed[r] /\ b \notin object

SweepInvariant == /\ TypeOK /\ Recorded /\ DoomedAreOld /\ HalfwayIsFreed
                  /\ NewestKept /\ DeletedIsFreed

----------------------------------------------------------------------------
\* Artifacts newer than b are finitely many.
LEMMA NewerIsFinite ==
  ASSUME TypeOK, NEW b
  PROVE  /\ IsFiniteSet(NewerSql(b))
         /\ Cardinality(NewerSql(b)) \in Nat
<1>1. made \in Int
  BY MaxArtifactsAssumption DEF TypeOK
<1>2. IsFiniteSet(1..made)
  BY <1>1, FS_Interval
<1>3. NewerSql(b) \in SUBSET (1..made)
  BY DEF NewerSql
<1>4. IsFiniteSet(NewerSql(b))
  BY <1>2, <1>3, FS_Subset
<1> QED
  BY <1>4, FS_CardinalityType

\* What the slice leaves over has, for its schedule, enough newer artifacts.
LEMMA BeyondIsUnprotected ==
  ASSUME TypeOK, NEW s \in Schedules, NEW b \in Beyond(Keep[s])
  PROVE  b \in 1..made /\ ~Protected(b)
<1> DEFINE Newer == {x \in Listed : x > b}
<1>1. b \in 1..made /\ kind[b] # "tableExport" /\ Cardinality(Newer) >= Keep[s]
  BY DEF Beyond, Listed
<1>2. Newer \in SUBSET NewerSql(b)
  BY DEF Listed, NewerSql
<1>3. Cardinality(Newer) <= Cardinality(NewerSql(b)) /\ IsFiniteSet(Newer)
  BY <1>2, NewerIsFinite, FS_Subset
<1>4. Cardinality(Newer) \in Nat /\ Cardinality(NewerSql(b)) \in Nat /\ Keep[s] \in Nat
  BY <1>3, NewerIsFinite, FS_CardinalityType, KeepAssumption
<1>5. ~(Cardinality(NewerSql(b)) < Keep[s])
  BY <1>1, <1>3, <1>4
<1> QED
  BY <1>1, <1>5 DEF Protected

\* A new artifact never protects an old one that was not protected.
LEMMA RecordingUnprotects ==
  ASSUME TypeOK, TypeOK', NEW k \in Kind, RecordArtifact(k), NEW b \in 1..made
  PROVE  Protected(b)' => Protected(b)
<1>1. made \in Nat /\ made' = made + 1 /\ made + 1 \in Artifacts
  BY MaxArtifactsAssumption DEF TypeOK, RecordArtifact, Artifacts
<1>2. \A x \in 1..made : kind'[x] = kind[x]
  BY <1>1 DEF TypeOK, RecordArtifact, Artifacts
<1>3. NewerSql(b) \in SUBSET (NewerSql(b)')
  BY <1>1, <1>2 DEF NewerSql
<1>4. IsFiniteSet(NewerSql(b)') /\ Cardinality(NewerSql(b)') \in Nat
  <2>1. IsFiniteSet(1..made')
    BY <1>1, FS_Interval
  <2>2. NewerSql(b)' \in SUBSET (1..made')
    BY DEF NewerSql
  <2>3. IsFiniteSet(NewerSql(b)')
    BY <2>1, <2>2, FS_Subset
  <2> QED
    BY <2>3, FS_CardinalityType
<1>5. Cardinality(NewerSql(b)) <= Cardinality(NewerSql(b)')
  BY <1>3, <1>4, FS_Subset
<1>6. \A s \in Schedules : Cardinality(NewerSql(b)') < Keep[s]
                              => Cardinality(NewerSql(b)) < Keep[s]
  BY <1>4, <1>5, NewerIsFinite, KeepAssumption
<1> QED
  BY <1>2, <1>6 DEF Protected

----------------------------------------------------------------------------
LEMMA SweepInvariantInit == Init => SweepInvariant
BY MaxArtifactsAssumption, MaxCrashesAssumption
DEF Init, SweepInvariant, TypeOK, Recorded, DoomedAreOld, HalfwayIsFreed, NewestKept,
    DeletedIsFreed, Artifacts, Kind

\* The types are kept.
LEMMA TypeStep == TypeOK /\ [Next]_vars => TypeOK'
<1> USE DEF TypeOK, Artifacts
<1> SUFFICES ASSUME TypeOK, [Next]_vars PROVE TypeOK'
  OBVIOUS
<1>1. ASSUME NEW k \in Kind, RecordArtifact(k) PROVE TypeOK'
  BY <1>1, MaxArtifactsAssumption DEF RecordArtifact
<1>2. ASSUME NEW r \in Sweeps, NEW s \in Schedules, StartSweep(r, s) PROVE TypeOK'
  <2>1. Beyond(Keep[s]) \in SUBSET (1..MaxArtifacts)
    BY MaxArtifactsAssumption DEF Beyond, Listed
  <2> QED
    BY <1>2, <2>1 DEF StartSweep
<1>3. ASSUME NEW r \in Sweeps, NEW b \in Artifacts, DeleteObject(r, b) PROVE TypeOK'
  BY <1>3 DEF DeleteObject
<1>4. ASSUME NEW r \in Sweeps, NEW b \in Artifacts, DeleteRejects(r, b) PROVE TypeOK'
  BY <1>4 DEF DeleteRejects, Skip
<1>5. ASSUME NEW r \in Sweeps, NEW b \in Artifacts, MarkDeleted(r, b) PROVE TypeOK'
  BY <1>5 DEF MarkDeleted, Skip
<1>6. ASSUME NEW r \in Sweeps, NEW b \in Artifacts, MarkRejects(r, b) PROVE TypeOK'
  BY <1>6 DEF MarkRejects, Skip
<1>7. ASSUME NEW r \in Sweeps, Crash(r) PROVE TypeOK'
  BY <1>7, MaxCrashesAssumption DEF Crash
<1>8. CASE UNCHANGED vars
  BY <1>8 DEF vars
<1> QED
  BY <1>1, <1>2, <1>3, <1>4, <1>5, <1>6, <1>7, <1>8 DEF Next, SweepStep

\* Who is protected depends on what was recorded alone.
LEMMA ProtectedUnchanged ==
  ASSUME UNCHANGED <<made, kind>>, NEW b
  PROVE  Protected(b)' <=> Protected(b)
BY DEF Protected, NewerSql

\* Recording an artifact.
LEMMA RecordStep ==
  ASSUME SweepInvariant, TypeOK', NEW k \in Kind, RecordArtifact(k)
  PROVE  SweepInvariant'
<1> USE DEF SweepInvariant, Artifacts
<1>1. made \in Nat /\ made' = made + 1 /\ made + 1 \in 1..MaxArtifacts
  BY MaxArtifactsAssumption DEF TypeOK, RecordArtifact
<1>2. /\ \A b \in 1..MaxArtifacts : b # made + 1 => row'[b] = row[b]
      /\ row'[made + 1] = "available"
      /\ object' = object \cup {made + 1} /\ doomed' = doomed /\ halfway' = halfway
  BY <1>1 DEF TypeOK, RecordArtifact
<1>3. Recorded'
  BY <1>1, <1>2 DEF Recorded, TypeOK
<1>4. DoomedAreOld'
  <2> SUFFICES ASSUME NEW r \in Sweeps, NEW b \in doomed[r]
               PROVE  b <= made' /\ ~Protected(b)'
    BY <1>2 DEF DoomedAreOld
  <2>1. b \in 1..made /\ ~Protected(b)
    BY <1>1 DEF DoomedAreOld, TypeOK
  <2> QED
    BY <1>1, <2>1, RecordingUnprotects
<1>5. HalfwayIsFreed'
  BY <1>1, <1>2 DEF HalfwayIsFreed, DoomedAreOld, TypeOK
<1>6. NewestKept'
  <2> SUFFICES ASSUME NEW b \in 1..made', Protected(b)'
               PROVE  row'[b] = "available" /\ b \in object'
    BY DEF NewestKept
  <2>1. CASE b = made + 1
    BY <1>2, <2>1
  <2>2. CASE b # made + 1
    <3>1. b \in 1..made /\ b \in 1..MaxArtifacts
      BY <1>1, <2>2, MaxArtifactsAssumption
    <3>2. Protected(b)
      BY <3>1, RecordingUnprotects
    <3> QED
      BY <1>2, <2>2, <3>1, <3>2 DEF NewestKept
  <2> QED
    BY <2>1, <2>2
<1>7. DeletedIsFreed'
  BY <1>1, <1>2 DEF DeletedIsFreed, TypeOK
<1> QED
  BY <1>3, <1>4, <1>5, <1>6, <1>7

\* Beginning a sweep.
LEMMA StartStep ==
  ASSUME SweepInvariant, TypeOK', NEW r \in Sweeps, NEW s \in Schedules, StartSweep(r, s)
  PROVE  SweepInvariant'
<1> USE DEF SweepInvariant, StartSweep
<1>1. \A b : Protected(b)' <=> Protected(b)
  BY ProtectedUnchanged
<1>2. /\ \A x \in Sweeps : x # r => doomed'[x] = doomed[x]
      /\ doomed'[r] = Beyond(Keep[s]) /\ doomed[r] = {}
  BY DEF TypeOK
<1>3. DoomedAreOld'
  <2> SUFFICES ASSUME NEW x \in Sweeps, NEW b \in doomed'[x]
               PROVE  b <= made /\ ~Protected(b)
    BY <1>1 DEF DoomedAreOld
  <2>1. CASE x = r
    BY <1>2, <2>1, BeyondIsUnprotected
  <2>2. CASE x # r
    BY <1>2, <2>2 DEF DoomedAreOld
  <2> QED
    BY <2>1, <2>2
<1>4. HalfwayIsFreed'
  BY <1>2 DEF HalfwayIsFreed
<1>5. Recorded' /\ DeletedIsFreed'
  BY DEF Recorded, DeletedIsFreed
<1>6. NewestKept'
  BY <1>1 DEF NewestKept
<1> QED
  BY <1>3, <1>4, <1>5, <1>6

\* A step of a sweep or its end: doomed artifacts become fewer, and of rows and
\* objects only those of a doomed artifact change, the row after the object.
LEMMA SweepStepKeeps ==
  ASSUME SweepInvariant, TypeOK', UNCHANGED <<made, kind>>,
         NEW r \in Sweeps, NEW b \in doomed[r],
         object' \in {object, object \ {b}},
         row' \in {row, [row EXCEPT ![b] = "deleted"]},
         row' = row \/ b \in halfway[r],
         \A x \in Sweeps : doomed'[x] \subseteq doomed[x],
         \A x \in Sweeps : \A a \in halfway'[x] :
            a \in doomed'[x] /\ (a \in halfway[x] \/ a \notin object')
  PROVE  SweepInvariant'
<1> USE DEF SweepInvariant, Artifacts
<1>1. \A a : Protected(a)' <=> Protected(a)
  BY ProtectedUnchanged
<1>2. b \in 1..MaxArtifacts /\ b <= made /\ ~Protected(b)
  BY DEF TypeOK, DoomedAreOld
<1>3. \A a \in 1..MaxArtifacts : a # b => /\ row'[a] = row[a]
                                        /\ a \in object' <=> a \in object
  BY DEF TypeOK
<1>4. row'[b] \in {row[b], "deleted"} /\ (row'[b] = row[b] \/ b \notin object)
  BY <1>2 DEF TypeOK, HalfwayIsFreed
<1>5. object' \subseteq object
  OBVIOUS
<1>6. Recorded'
  BY <1>2, <1>3, <1>4, <1>5, MaxArtifactsAssumption DEF Recorded, TypeOK
<1>7. DoomedAreOld'
  BY <1>1 DEF DoomedAreOld
<1>8. HalfwayIsFreed'
  BY <1>5 DEF HalfwayIsFreed
<1>9. NewestKept'
  <2> SUFFICES ASSUME NEW a \in 1..made, Protected(a)
               PROVE  row'[a] = "available" /\ a \in object'
    BY <1>1 DEF NewestKept
  <2>1. a \in 1..MaxArtifacts /\ a # b
    BY <1>2, MaxArtifactsAssumption DEF TypeOK
  <2> QED
    BY <1>3, <2>1 DEF NewestKept
<1>10. DeletedIsFreed'
  BY <1>3, <1>4, <1>5 DEF DeletedIsFreed
<1> QED
  BY <1>6, <1>7, <1>8, <1>9, <1>10

----------------------------------------------------------------------------
\* The invariant is inductive.
LEMMA SweepInvariantStep == SweepInvariant /\ [Next]_vars => SweepInvariant'
<1> SUFFICES ASSUME SweepInvariant, [Next]_vars PROVE SweepInvariant'
  OBVIOUS
<1>0. TypeOK /\ TypeOK'
  BY TypeStep DEF SweepInvariant
<1>1. ASSUME NEW k \in Kind, RecordArtifact(k) PROVE SweepInvariant'
  BY <1>0, <1>1, RecordStep
<1>2. ASSUME NEW r \in Sweeps, NEW s \in Schedules, StartSweep(r, s) PROVE SweepInvariant'
  BY <1>0, <1>2, StartStep
<1>3. ASSUME NEW r \in Sweeps, NEW b \in Artifacts, DeleteObject(r, b) PROVE SweepInvariant'
  <2>1. b \in doomed[r] /\ halfway[r] = {} /\ halfway' = [halfway EXCEPT ![r] = {b}]
    BY <1>3 DEF DeleteObject, Newest
  <2>2. \A x \in Sweeps : \A a \in halfway'[x] :
           a \in doomed[x] /\ (a \in halfway[x] \/ a \notin object')
    BY <1>0, <1>3, <2>1 DEF DeleteObject, SweepInvariant, HalfwayIsFreed, TypeOK
  <2> QED
    BY <1>0, <1>3, <2>1, <2>2, SweepStepKeeps DEF DeleteObject
<1>4. ASSUME NEW r \in Sweeps, NEW b \in Artifacts, DeleteRejects(r, b) PROVE SweepInvariant'
  <2>1. b \in doomed[r] /\ halfway[r] = {} /\ row' = row /\ UNCHANGED <<made, kind>>
        /\ object' \in {object, object \ {b}}
    BY <1>4 DEF DeleteRejects, Newest
  <2>2. /\ \A x \in Sweeps : doomed'[x] \subseteq doomed[x]
        /\ \A x \in Sweeps : \A a \in halfway'[x] : x # r /\ a \in halfway[x]
        /\ \A x \in Sweeps : x # r => doomed'[x] = doomed[x]
    BY <1>0, <1>4 DEF DeleteRejects, Skip, TypeOK
  <2>3. \A x \in Sweeps : \A a \in halfway'[x] :
           a \in doomed'[x] /\ (a \in halfway[x] \/ a \notin object')
    BY <2>2 DEF SweepInvariant, HalfwayIsFreed
  <2> QED
    BY <1>0, <2>1, <2>2, <2>3, SweepStepKeeps
<1>5. ASSUME NEW r \in Sweeps, NEW b \in Artifacts, MarkDeleted(r, b) \/ MarkRejects(r, b)
      PROVE  SweepInvariant'
  <2>1. /\ halfway[r] = {b} /\ object' = object /\ UNCHANGED <<made, kind>>
        /\ row' \in {row, [row EXCEPT ![b] = "deleted"]} /\ Skip(r, b)
    BY <1>5 DEF MarkDeleted, MarkRejects
  <2>2. b \in doomed[r]
    BY <2>1 DEF SweepInvariant, HalfwayIsFreed
  <2>3. /\ \A x \in Sweeps : doomed'[x] \subseteq doomed[x]
        /\ \A x \in Sweeps : \A a \in halfway'[x] : x # r /\ a \in halfway[x]
        /\ \A x \in Sweeps : x # r => doomed'[x] = doomed[x]
    BY <1>0, <2>1 DEF Skip, TypeOK
  <2>4. \A x \in Sweeps : \A a \in halfway'[x] :
           a \in doomed'[x] /\ (a \in halfway[x] \/ a \notin object')
    BY <2>3 DEF SweepInvariant, HalfwayIsFreed
  <2> QED
    BY <1>0, <2>1, <2>2, <2>3, <2>4, SweepStepKeeps
<1>6. ASSUME NEW r \in Sweeps, Crash(r) PROVE SweepInvariant'
  <2>1. /\ doomed[r] # {} /\ UNCHANGED <<made, kind, row, object>>
        /\ doomed' = [doomed EXCEPT ![r] = {}] /\ halfway' = [halfway EXCEPT ![r] = {}]
    BY <1>6 DEF Crash
  <2>2. PICK b \in doomed[r] : TRUE
    BY <2>1
  <2>3. \A x \in Sweeps : /\ doomed'[x] \subseteq doomed[x]
                          /\ \A a \in halfway'[x] : x # r /\ a \in halfway[x]
                          /\ x # r => doomed'[x] = doomed[x]
    BY <1>0, <2>1 DEF TypeOK
  <2>4. \A x \in Sweeps : \A a \in halfway'[x] :
           a \in doomed'[x] /\ (a \in halfway[x] \/ a \notin object')
    BY <2>3 DEF SweepInvariant, HalfwayIsFreed
  <2> QED
    BY <1>0, <2>1, <2>2, <2>3, <2>4, SweepStepKeeps
<1>7. CASE UNCHANGED vars
  <2>1. \A b : Protected(b)' <=> Protected(b)
    BY <1>7, ProtectedUnchanged DEF vars
  <2> QED
    BY <1>0, <1>7, <2>1 DEF vars, SweepInvariant, Recorded, DoomedAreOld, HalfwayIsFreed,
                       NewestKept, DeletedIsFreed
<1> QED
  BY <1>1, <1>2, <1>3, <1>4, <1>5, <1>6, <1>7 DEF Next, SweepStep

LEMMA SweepInvariantAlways == Spec => []SweepInvariant
BY SweepInvariantInit, SweepInvariantStep, PTL DEF Spec

\* Types are kept: a sweep deletes nothing but artifacts.
THEOREM TypeCorrect == Spec => []TypeOK
<1>1. SweepInvariant => TypeOK
  BY DEF SweepInvariant
<1> QED
  BY <1>1, SweepInvariantAlways, PTL

\* Sweeps, however they overlap and fail, leave alone what every schedule keeps:
\* exports to csv and xlsx, and the newest SQL artifacts with their objects.
THEOREM NewestAreKept == Spec => []NewestKept
<1>1. SweepInvariant => NewestKept
  BY DEF SweepInvariant
<1> QED
  BY <1>1, SweepInvariantAlways, PTL

\* No artifact is reported as deleted whose object is still in storage.
THEOREM DeletedAreFreed == Spec => []DeletedIsFreed
<1>1. SweepInvariant => DeletedIsFreed
  BY DEF SweepInvariant
<1> QED
  BY <1>1, SweepInvariantAlways, PTL

----------------------------------------------------------------------------
(* AuditChain. *)

Fields == {"action", "meta", "email", "at", "prevHash", "hash"}

\* A hash a writer may have read: of an entry that is in the log for ever.
Known(h) == h = Genesis \/ \E k \in DOMAIN log : h = log[k].hash

LogShape == /\ \E S : log \in Seq(S)
            /\ \A i \in DOMAIN log : DOMAIN log[i] = Fields

\* A draft is nothing, a hash that was read, or an entry that continues from one.
DraftShape ==
  /\ DOMAIN draft = Writers
  /\ \A w \in Writers : \/ draft[w] = NoDraft
                        \/ \E h : draft[w] = [read |-> h] /\ Known(h)
                        \/ DOMAIN draft[w] = Fields /\ Known(draft[w].prevHash)

ChainInvariant == LogShape /\ DraftShape /\ EveryEntryContinues

----------------------------------------------------------------------------
LEMMA ChainInvariantInit == ChainInit => ChainInvariant
<1> SUFFICES ASSUME ChainInit PROVE ChainInvariant
  OBVIOUS
<1>1. log \in Seq({}) /\ DOMAIN log = {}
  BY DEF ChainInit
<1>2. LogShape /\ EveryEntryContinues
  BY <1>1 DEF LogShape, EveryEntryContinues
<1>3. DraftShape
  BY DEF ChainInit, DraftShape
<1> QED
  BY <1>2, <1>3 DEF ChainInvariant

\* A step that leaves the log alone and gives one writer a well-formed draft.
LEMMA DraftStep ==
  ASSUME ChainInvariant, log' = log, NEW w \in Writers, NEW d, Take(w, d),
         \/ d = NoDraft
         \/ \E h : d = [read |-> h] /\ Known(h)
         \/ DOMAIN d = Fields /\ Known(d.prevHash)
  PROVE  ChainInvariant'
<1>1. LogShape' /\ EveryEntryContinues'
  BY DEF ChainInvariant, LogShape, EveryEntryContinues
<1>2. DOMAIN draft' = Writers /\ draft'[w] = d /\ \A x \in Writers : x # w => draft'[x] = draft[x]
  BY DEF ChainInvariant, DraftShape, Take
<1>3. \A h : Known(h)' <=> Known(h)
  BY DEF Known
<1>4. DraftShape'
  BY <1>2, <1>3 DEF ChainInvariant, DraftShape
<1> QED
  BY <1>1, <1>4 DEF ChainInvariant

\* The entry that is inserted continues from one that is there.
LEMMA InsertStep ==
  ASSUME ChainInvariant, NEW w \in Writers, Insert(w)
  PROVE  ChainInvariant'
<1> DEFINE e == [draft[w] EXCEPT !.meta = Stored(@), !.at = now]
<1>1. DOMAIN draft[w] = Fields /\ Known(draft[w].prevHash)
  BY DEF ChainInvariant, DraftShape, Insert
<1>2. DOMAIN e = Fields /\ e.prevHash = draft[w].prevHash
  BY <1>1 DEF Fields
<1>3. PICK S : log \in Seq(S)
  BY DEF ChainInvariant, LogShape
<1>4. log' = Append(log, e)
  BY DEF Insert
<1>5. log \in Seq(S \cup {e}) /\ e \in S \cup {e}
  BY <1>3, SeqMonotonic
<1> HIDE DEF e
<1>6. /\ log' \in Seq(S \cup {e})
      /\ Len(log) \in Nat /\ DOMAIN log = 1..Len(log) /\ DOMAIN log' = 1..(Len(log) + 1)
      /\ \A i \in 1..Len(log) : log'[i] = log[i]
      /\ log'[Len(log) + 1] = e
  BY <1>4, <1>5
<1>7. LogShape'
  BY <1>2, <1>6 DEF ChainInvariant, LogShape
<1>8. \A h : Known(h) => Known(h)'
  BY <1>6 DEF Known
<1>9. DraftShape'
  <2>1. DOMAIN draft' = Writers /\ draft'[w] = NoDraft
        /\ \A x \in Writers : x # w => draft'[x] = draft[x]
    BY DEF ChainInvariant, DraftShape, Insert, Take
  <2> QED
    BY <1>8, <2>1 DEF ChainInvariant, DraftShape
<1>10. EveryEntryContinues'
  <2> SUFFICES ASSUME NEW i \in DOMAIN log'
               PROVE  \/ log'[i].prevHash = Genesis
                      \/ \E k \in 1..(i - 1) : log'[i].prevHash = log'[k].hash
    BY DEF EveryEntryContinues
  <2>1. CASE i \in 1..Len(log)
    BY <1>6, <2>1 DEF ChainInvariant, EveryEntryContinues
  <2>2. CASE i = Len(log) + 1
    BY <1>1, <1>2, <1>6, <2>2 DEF Known
  <2> QED
    BY <1>6, <2>1, <2>2
<1> QED
  BY <1>7, <1>9, <1>10 DEF ChainInvariant

LEMMA ChainInvariantStep == ChainInvariant /\ [ChainNext]_chainVars => ChainInvariant'
<1> SUFFICES ASSUME ChainInvariant, [ChainNext]_chainVars PROVE ChainInvariant'
  OBVIOUS
<1>1. ASSUME UNCHANGED <<log, draft>> PROVE ChainInvariant'
  BY <1>1 DEF ChainInvariant, LogShape, DraftShape, EveryEntryContinues, Known
<1>2. ASSUME NEW w \in Writers, ReadHead(w) PROVE ChainInvariant'
  <2>1. PICK h \in (IF log = <<>> THEN {Genesis} ELSE Heads) : Take(w, [read |-> h])
    BY <1>2 DEF ReadHead
  <2>2. Known(h)
    BY <2>1 DEF Known, Heads
  <2> QED
    BY <1>2, <2>1, <2>2, DraftStep DEF ReadHead
<1>3. ASSUME NEW w \in Writers, Lose(w) PROVE ChainInvariant'
  BY <1>3, DraftStep DEF Lose
<1>4. ASSUME NEW w \in Writers, NEW a \in Actions, NEW m \in Metas, NEW email \in Emails,
             Prepare(w, a, m, email)
      PROVE  ChainInvariant'
  <2> DEFINE e == [action |-> a, meta |-> m, email |-> email, at |-> now]
             d == [action |-> a, meta |-> m, email |-> email, at |-> now,
                   prevHash |-> draft[w].read, hash |-> Hash(draft[w].read, Canonical(e))]
  <2>1. Take(w, d) /\ log' = log
    BY <1>4 DEF Prepare
  <2>2. Known(draft[w].read)
    BY <1>4 DEF Prepare, ChainInvariant, DraftShape, Fields
  <2>3. DOMAIN d = Fields /\ d.prevHash = draft[w].read
    BY DEF Fields
  <2> QED
    BY <2>1, <2>2, <2>3, DraftStep
<1> QED
  BY <1>1, <1>2, <1>3, <1>4, InsertStep DEF ChainNext, Tick, chainVars

\* However writers race and fail, every entry continues from one before it.
THEOREM EntriesContinue == ChainSpec => []EveryEntryContinues
<1>1. ChainInvariant => EveryEntryContinues
  BY DEF ChainInvariant
<1> QED
  BY <1>1, ChainInvariantInit, ChainInvariantStep, PTL DEF ChainSpec

----------------------------------------------------------------------------
\* An entry of a log that verifies, altered under its hash, hashes to another one.
LEMMA ReplacedIsDetected ==
  ASSUME LogShape, Verify(log), NEW i \in DOMAIN log, NEW a, NEW m, NEW t, NEW p,
         \A q, r, c, d : Hash(q, c) = Hash(r, d) => q = r /\ c = d,
         ~SameCanonical([log[i] EXCEPT !.action = a, !.meta = m, !.at = t, !.prevHash = p], log[i])
  PROVE  ~Verify(Replaced(log, i, [log[i] EXCEPT !.action = a, !.meta = m, !.at = t,
                                                 !.prevHash = p]))
<1> DEFINE e == [log[i] EXCEPT !.action = a, !.meta = m, !.at = t, !.prevHash = p]
           l == Replaced(log, i, e)
           before == IF i = 1 THEN Genesis ELSE log[i-1].hash
<1>1. e.hash = log[i].hash
  BY DEF LogShape, Fields
<1>2. i \in Nat
  BY LenProperties DEF LogShape
<1> HIDE DEF e
<1>3. DOMAIN l = DOMAIN log /\ l[i] = e /\ (i - 1 \in DOMAIN log => l[i-1] = log[i-1])
  BY <1>2 DEF Replaced
<1>4. log[i].hash = Hash(before, Canonical(log[i])) /\ log[i].prevHash = before
  BY DEF Verify
<1>5. i # 1 => i - 1 \in DOMAIN log
  BY LenProperties DEF LogShape
<1>6. SUFFICES ASSUME Verify(l) PROVE FALSE
  BY DEF e
<1>7. e.hash = Hash(before, Canonical(e)) /\ e.prevHash = before
  BY <1>3, <1>5, <1>6 DEF Verify
<1> QED
  BY <1>1, <1>4, <1>7 DEF SameCanonical, e

\* Without the i-th entry, the next one does not link to what is before it.
LEMMA RemovedIsDetected ==
  ASSUME LogShape, Verify(log), NEW i \in DOMAIN log, i < Len(log),
         \A q, c : Hash(q, c) # q
  PROVE  ~Verify(Without(log, i))
<1> DEFINE l == Without(log, i)
           before == IF i = 1 THEN Genesis ELSE log[i-1].hash
<1>1. PICK S : log \in Seq(S)
  BY DEF LogShape
<1>2. Len(log) \in Nat /\ DOMAIN log = 1..Len(log) /\ i \in 1..Len(log)
      /\ i \in Nat /\ i + 1 \in 1..Len(log) /\ (i # 1 => i - 1 \in 1..Len(log))
  BY <1>1, LenProperties
<1>3. \A k \in 1..Len(log) : log[k] \in S
  BY <1>1, ElementOfSeq
<1>4. /\ SubSeq(log, 1, i - 1) \in Seq(S) /\ Len(SubSeq(log, 1, i - 1)) = i - 1
      /\ \A k \in 1..(i - 1) : SubSeq(log, 1, i - 1)[k] = log[k]
  <2>1. \A k \in 1..(i - 1) : log[k] \in S
    BY <1>2, <1>3
  <2> QED
    BY <1>2, <2>1, SubSeqProperties
<1>5. /\ SubSeq(log, i + 1, Len(log)) \in Seq(S)
      /\ Len(SubSeq(log, i + 1, Len(log))) = Len(log) - i
      /\ SubSeq(log, i + 1, Len(log))[1] = log[i + 1]
  <2>1. \A k \in (i + 1)..Len(log) : log[k] \in S
    BY <1>2, <1>3
  <2> QED
    BY <1>2, <2>1, SubSeqProperties
<1>6. /\ i \in DOMAIN l /\ l[i] = log[i + 1]
      /\ i # 1 => l[i - 1] = log[i - 1]
  <2> DEFINE A == SubSeq(log, 1, i - 1)
             B == SubSeq(log, i + 1, Len(log))
  <2>1. l = A \o B
    BY DEF Without
  <2>2. /\ A \in Seq(S) /\ Len(A) = i - 1 /\ \A k \in 1..(i - 1) : A[k] = log[k]
        /\ B \in Seq(S) /\ Len(B) = Len(log) - i /\ B[1] = log[i + 1]
    BY <1>4, <1>5
  <2> HIDE DEF A, B, l
  <2>3. /\ l \in Seq(S) /\ Len(l) = Len(A) + Len(B)
        /\ \A k \in 1..(Len(A) + Len(B)) :
             l[k] = IF k <= Len(A) THEN A[k] ELSE B[k - Len(A)]
    BY <2>1, <2>2, ConcatProperties
  <2>4. DOMAIN l = 1..(Len(log) - 1) /\ i \in 1..(Len(log) - 1)
    BY <1>2, <2>2, <2>3, LenProperties
  <2>5. \A k \in 1..(Len(log) - 1) : l[k] = IF k <= i - 1 THEN A[k] ELSE B[k - (i - 1)]
    <3>1. Len(A) = i - 1 /\ Len(A) + Len(B) = Len(log) - 1
      BY <1>2, <2>2
    <3> QED
      BY <2>3, <3>1
  <2>6. l[i] = log[i + 1]
    BY <1>2, <2>2, <2>4, <2>5
  <2>7. i # 1 => l[i - 1] = log[i - 1]
    <3>1. i # 1 => i - 1 \in 1..(Len(log) - 1) /\ i - 1 \in 1..(i - 1)
      BY <1>2
    <3> QED
      BY <2>2, <2>5, <3>1
  <2> QED
    BY <2>4, <2>6, <2>7
<1>7. /\ log[i].hash = Hash(before, Canonical(log[i]))
      /\ log[i + 1].prevHash = log[i].hash
  BY <1>2 DEF Verify
<1>8. ASSUME Verify(l) PROVE log[i + 1].prevHash = before
  BY <1>6, <1>8 DEF Verify
<1> QED
  BY <1>7, <1>8

\* If the hash has no collisions and none is its own predecessor, then in every
\* reachable log that verifies, altering what canonical() covers, or removing an
\* entry before the last, makes the verification fail.
THEOREM TamperingShows ==
  ASSUME \A q, r, c, d : Hash(q, c) = Hash(r, d) => q = r /\ c = d,
         \A q, c : Hash(q, c) # q
  PROVE  ChainSpec => []TamperDetected
<1>1. ChainInvariant => TamperDetected
  BY ReplacedIsDetected, RemovedIsDetected DEF ChainInvariant, TamperDetected
<1> QED
  BY <1>1, ChainInvariantInit, ChainInvariantStep, PTL DEF ChainSpec
=============================================================================
