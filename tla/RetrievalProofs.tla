-------------------------- MODULE RetrievalProofs --------------------------
(***************************************************************************)
(* What retrieval reads: that the versions IndexVersions publishes are     *)
(* sound and stay readable, for every set of inputs and builders, and that *)
(* the indexes SearchGenerations makes of one version are sound, whoever   *)
(* builds them at the same time, and answers keep to their filters, for    *)
(* every set of searchers, documents and filters.                          *)
(***************************************************************************)
EXTENDS IndexVersions, SearchGenerations, TLAPS

\* Only a version that is being built has an owner.
OwnedIsPending == \A i \in Inputs : Status(i) \notin Pending => version[i].owner = None

\* The inductive invariant: LiveLeaseIsKept needs the owners, the rest is PublishedSoundly.
IndexInv == PublishedSoundly /\ OwnedIsPending

\* What a step leaves behind when it moves versions but publishes none: the published ones and
\* the pointer are as they were, one version at most is being built.
Undisturbed ==
    /\ UNCHANGED <<artifacts, pointer>>
    /\ version' \in [Inputs -> Versions]
    /\ \A i \in Inputs : Status(i) \in Readable => version'[i] = version[i]
    /\ \A i \in Inputs : version'[i].status \in Readable => Status(i) \in Readable
    /\ \A i, j \in Inputs : version'[i].status \in Pending /\ version'[j].status \in Pending => i = j
    /\ \A i \in Inputs : version'[i].status \notin Pending => version'[i].owner = None

----------------------------------------------------------------------------
\* The two ways to begin a build.
LEMMA InsertLeaves ==
    ASSUME IndexInv, NEW b \in Builders, NEW i \in Inputs, Insert(b, i), UNCHANGED <<artifacts, pointer>>
    PROVE  Undisturbed /\ build' = [build EXCEPT ![b] = [pc |-> "build", input |-> i]]
  <1> USE DEF IndexInv, PublishedSoundly, TypeOK, OwnedIsPending, Closed, Taken
  <1>1. /\ Status(i) = "absent"
        /\ version' = [j \in Inputs |->
              IF j = i THEN [status |-> "building", retries |-> 0, owner |-> b, live |-> TRUE]
              ELSE IF j \in Others(i) THEN Closed(version[j], "failed")
              ELSE version[j]]
    BY DEF Insert
  <1>2. version' \in [Inputs -> Versions]
    BY <1>1 DEF Versions, Statuses, Pending, Readable
  <1>3. \A j \in Inputs : Status(j) \in Readable => version'[j] = version[j]
    BY <1>1 DEF Others, Status, Readable, Pending
  <1>4. \A j \in Inputs : version'[j].status \in Readable => Status(j) \in Readable
    BY <1>1 DEF Others, Status, Readable, Pending, Versions
  <1>5. \A j \in Inputs : j # i => version'[j].status \notin Pending
    BY <1>1 DEF Others, Status, Readable, Pending, Versions
  <1>6. \A j \in Inputs : version'[j].status \notin Pending => version'[j].owner = None
    BY <1>1 DEF Others, Status, Readable, Pending, Versions
  <1> QED
    BY <1>2, <1>3, <1>4, <1>5, <1>6 DEF Undisturbed, Insert, Becomes

LEMMA ResumeLeaves ==
    ASSUME IndexInv, NEW b \in Builders, NEW i \in Inputs, Resume(b, i), UNCHANGED <<artifacts, pointer>>
    PROVE  Undisturbed /\ build' = [build EXCEPT ![b] = [pc |-> "build", input |-> i]]
  <1> USE DEF IndexInv, PublishedSoundly, TypeOK, OwnedIsPending, Closed, Taken
  <1>1. /\ Status(i) \notin Readable
        /\ Others(i) = {}
        /\ version' = [version EXCEPT ![i] = Taken(version[i], b)]
    BY DEF Resume, Readable, Pending
  <1>2. version' \in [Inputs -> Versions]
    <2>1. version[i] \in Versions
      OBVIOUS
    <2>2. Taken(version[i], b) \in Versions
      BY <2>1 DEF Versions, Statuses, Pending
    <2> QED
      BY <1>1, <2>2
  <1>3. \A j \in Inputs : j # i => version'[j] = version[j]
    BY <1>1
  <1>4. version'[i].status = "building"
    BY <1>1 DEF Versions
  <1>5. \A j \in Inputs : j # i => Status(j) \notin Pending
    BY <1>1 DEF Others
  <1> HIDE DEF IndexInv, PublishedSoundly, TypeOK, Closed, Taken
  <1>6. \A j \in Inputs : Status(j) \in Readable => version'[j] = version[j]
    BY <1>1, <1>3
  <1>7. \A j \in Inputs : version'[j].status \in Readable => Status(j) \in Readable
    BY <1>3, <1>4 DEF Status, Readable
  <1>8. \A j \in Inputs : version'[j].status \in Pending => j = i
    BY <1>3, <1>5 DEF Status
  <1>9. \A j \in Inputs : version'[j].status \notin Pending => version'[j].owner = None
    BY <1>3, <1>4 DEF IndexInv, Status, Pending
  <1> QED
    BY <1>2, <1>6, <1>7, <1>8, <1>9 DEF Undisturbed, Resume, Becomes

\* A version is published that is stored in full, or becomes so in the same transaction.
LEMMA PublishLeaves ==
    ASSUME IndexInv, NEW i \in Inputs, Publish(i),
           artifacts' \in SUBSET Inputs, artifacts \subseteq artifacts', i \in artifacts'
    PROVE  /\ version' \in [Inputs -> Versions]
           /\ pointer' = i
           /\ OneActive' /\ OneBuild' /\ ReadableIsWhole' /\ OwnedIsPending'
           /\ \A j \in Inputs : Status(j) \in Readable => version'[j].status \in Readable
           /\ \A j \in Inputs : j # i => version'[j].owner = version[j].owner
  <1> USE DEF IndexInv, PublishedSoundly, TypeOK, OwnedIsPending, Closed, Taken
  <1>1. /\ pointer' = i
        /\ version' = [j \in Inputs |->
              IF j = i THEN Closed(version[j], "active")
              ELSE IF Status(j) = "active" THEN [version[j] EXCEPT !.status = "superseded"]
              ELSE version[j]]
    BY DEF Publish
  <1>2. version' \in [Inputs -> Versions]
    <2>1. {"active", "superseded"} \subseteq Statuses
      BY DEF Statuses, Pending, Readable
    <2>2. \A j \in Inputs : version'[j] \in Versions
      BY <1>1, <2>1 DEF Versions
    <2> QED
      BY <1>1, <2>2
  <1>3. version'[i].status = "active" /\ version'[i].owner = None
    BY <1>1 DEF Versions
  <1>4. \A j \in Inputs : j # i =>
            /\ version'[j].owner = version[j].owner
            /\ version'[j].status = IF Status(j) = "active" THEN "superseded" ELSE Status(j)
    BY <1>1 DEF Versions, Status
  <1> HIDE DEF IndexInv, PublishedSoundly, TypeOK, Closed
  <1>5. OneActive'
    <2>1. \A j \in Inputs : j # i => version'[j].status # "active"
      BY <1>4
    <2> QED
      BY <1>1, <1>3, <2>1 DEF OneActive, Status
  <1>6. OneBuild'
    BY <1>3, <1>4 DEF IndexInv, PublishedSoundly, OneBuild, Status, Pending
  <1>7. ReadableIsWhole'
    BY <1>3, <1>4 DEF IndexInv, PublishedSoundly, ReadableIsWhole, Status, Readable
  <1>8. OwnedIsPending'
    BY <1>3, <1>4 DEF IndexInv, OwnedIsPending, Status, Readable, Pending
  <1> QED
    BY <1>1, <1>2, <1>3, <1>4, <1>5, <1>6, <1>7, <1>8 DEF Readable, Status

\* A step that leaves the published versions alone keeps the invariant.
LEMMA UndisturbedKeeps ==
    ASSUME IndexInv, Undisturbed, build' \in [Builders -> Builds], rollbacks' \in Nat
    PROVE  IndexInv'
  <1> USE DEF IndexInv, PublishedSoundly, TypeOK, OwnedIsPending, Undisturbed
  <1>1. TypeOK'
    OBVIOUS
  <1>2. OneActive'
    <2> SUFFICES ASSUME NEW i \in Inputs PROVE (Status(i) = "active" <=> pointer = i)'
      BY DEF OneActive
    <2>1. Status(i) = "active" <=> pointer = i
      BY DEF OneActive
    <2>2. version'[i].status = "active" <=> Status(i) = "active"
      BY DEF Readable, Status
    <2> QED
      BY <2>1, <2>2 DEF Status
  <1>3. OneBuild'
    BY DEF OneBuild, Status
  <1>4. ReadableIsWhole'
    BY DEF ReadableIsWhole, Status
  <1>5. OwnedIsPending'
    BY DEF Status
  <1> QED
    BY <1>1, <1>2, <1>3, <1>4, <1>5

----------------------------------------------------------------------------
\* Begin and the end of a wait: a build begins, or nothing moves but the builder.
LEMMA RefuseLeaves ==
    ASSUME IndexInv, NEW b \in Builders, NEW i \in Inputs, NEW waits \in BOOLEAN, Refuse(b, i, waits),
           UNCHANGED <<artifacts, pointer>>
    PROVE  Undisturbed /\ build' \in [Builders -> Builds]
  <1>1. UNCHANGED version
    BY DEF Refuse
  <1>2. Undisturbed
    BY <1>1 DEF Undisturbed, IndexInv, PublishedSoundly, TypeOK, OneBuild, OwnedIsPending, Status
  <1>3. build' \in [Builders -> Builds]
    BY DEF Refuse, Becomes, Ends, NoBuild, Builds, IndexInv, PublishedSoundly, TypeOK
  <1> QED
    BY <1>2, <1>3

LEMMA BeginKeeps ==
    ASSUME IndexInv, NEW b \in Builders, NEW i \in Inputs, Begin(b, i)
    PROVE  IndexInv'
  <1>1. UNCHANGED <<artifacts, pointer>> /\ rollbacks' \in Nat
    BY DEF Begin, IndexInv, PublishedSoundly, TypeOK
  <1>2. CASE Insert(b, i)
    <2>1. Undisturbed /\ build' = [build EXCEPT ![b] = [pc |-> "build", input |-> i]]
      BY <1>1, <1>2, InsertLeaves
    <2>2. build' \in [Builders -> Builds]
      BY <2>1 DEF Builds, NoBuild, IndexInv, PublishedSoundly, TypeOK
    <2> QED
      BY <1>1, <2>1, <2>2, UndisturbedKeeps
  <1>3. CASE Resume(b, i)
    <2>1. Undisturbed /\ build' = [build EXCEPT ![b] = [pc |-> "build", input |-> i]]
      BY <1>1, <1>3, ResumeLeaves
    <2>2. build' \in [Builders -> Builds]
      BY <2>1 DEF Builds, NoBuild, IndexInv, PublishedSoundly, TypeOK
    <2> QED
      BY <1>1, <2>1, <2>2, UndisturbedKeeps
  <1>4. CASE Refuse(b, i, TRUE)
    BY <1>1, <1>4, RefuseLeaves, UndisturbedKeeps
  <1> QED
    BY <1>2, <1>3, <1>4 DEF Begin

LEMMA EndWaitKeeps ==
    ASSUME IndexInv, NEW b \in Builders, EndWait(b)
    PROVE  IndexInv'
  <1>1. UNCHANGED <<artifacts, pointer>> /\ rollbacks' \in Nat
    BY DEF EndWait, IndexInv, PublishedSoundly, TypeOK
  <1>2. ASSUME Input(b) \in Inputs, Resume(b, Input(b)) PROVE IndexInv'
    <2>1. Undisturbed /\ build' = [build EXCEPT ![b] = [pc |-> "build", input |-> Input(b)]]
      BY <1>1, <1>2, ResumeLeaves
    <2>2. build' \in [Builders -> Builds]
      BY <1>2, <2>1 DEF Builds, NoBuild, IndexInv, PublishedSoundly, TypeOK
    <2> QED
      BY <1>1, <2>1, <2>2, UndisturbedKeeps
  <1>3. ASSUME Input(b) \in Inputs, Refuse(b, Input(b), FALSE) PROVE IndexInv'
    BY <1>1, <1>3, RefuseLeaves, UndisturbedKeeps
  <1>4. CASE Ends(b) /\ UNCHANGED version
    <2>1. Undisturbed
      BY <1>1, <1>4 DEF Undisturbed, IndexInv, PublishedSoundly, TypeOK, OneBuild, OwnedIsPending, Status
    <2>2. build' \in [Builders -> Builds]
      BY <1>4 DEF Ends, NoBuild, Builds, IndexInv, PublishedSoundly, TypeOK
    <2> QED
      BY <1>1, <2>1, <2>2, UndisturbedKeeps
  <1>5. Input(b) \in Inputs
    BY DEF EndWait, At, Input, NoBuild, Builds, IndexInv, PublishedSoundly, TypeOK
  <1> QED
    BY <1>2, <1>3, <1>4, <1>5 DEF EndWait

----------------------------------------------------------------------------
\* The builder at work owns the version it works on, if it still does; else it has failed.
LEMMA WorkerHasInput ==
    ASSUME IndexInv, NEW b \in Builders, build[b].pc # "idle"
    PROVE  Input(b) \in Inputs
  BY DEF Input, NoBuild, Builds, IndexInv, PublishedSoundly, TypeOK

LEMMA MarkReadyKeeps ==
    ASSUME IndexInv, NEW b \in Builders, MarkReady(b)
    PROVE  IndexInv'
  <1>1. Input(b) \in Inputs
    BY WorkerHasInput DEF MarkReady, At
  <1>2. build' \in [Builders -> Builds]
    BY <1>1 DEF MarkReady, Goes, Becomes, Builds, IndexInv, PublishedSoundly, TypeOK
  <1>3. Undisturbed
    <2>1. CASE UNCHANGED version
      BY <2>1 DEF MarkReady, Undisturbed, IndexInv, PublishedSoundly, TypeOK, OneBuild, OwnedIsPending, Status
    <2>2. CASE Mine(b, "building") /\ version' = [version EXCEPT ![Input(b)] =
                    [version[Input(b)] EXCEPT !.status = "ready", !.live = TRUE]]
      <3>1. \A j \in Inputs : j # Input(b) => version'[j] = version[j]
        BY <2>2 DEF IndexInv, PublishedSoundly, TypeOK
      <3>2. /\ version'[Input(b)].status = "ready"
            /\ Status(Input(b)) = "building"
        BY <1>1, <2>2 DEF Mine, Status, Versions, IndexInv, PublishedSoundly, TypeOK
      <3>3. version' \in [Inputs -> Versions]
        BY <1>1, <2>2 DEF Versions, Statuses, Pending, IndexInv, PublishedSoundly, TypeOK
      <3>4. \A j \in Inputs : version'[j].status \in Pending => j = Input(b)
        BY <1>1, <3>1, <3>2 DEF OneBuild, Status, Pending, IndexInv, PublishedSoundly
      <3> QED
        BY <3>1, <3>2, <3>3, <3>4 DEF MarkReady, Undisturbed, Status, Readable, Pending, OwnedIsPending, IndexInv
    <2> QED
      BY <2>1, <2>2 DEF MarkReady
  <1> QED
    BY <1>2, <1>3, UndisturbedKeeps DEF MarkReady, IndexInv, PublishedSoundly, TypeOK

LEMMA MarkFailedKeeps ==
    ASSUME IndexInv, NEW b \in Builders, MarkFailed(b)
    PROVE  IndexInv'
  <1>1. Input(b) \in Inputs
    BY WorkerHasInput DEF MarkFailed, At
  <1>2. build' \in [Builders -> Builds]
    BY DEF MarkFailed, Ends, Builds, NoBuild, IndexInv, PublishedSoundly, TypeOK
  <1>3. Undisturbed
    <2>1. CASE UNCHANGED version
      BY <2>1 DEF MarkFailed, Undisturbed, IndexInv, PublishedSoundly, TypeOK, OneBuild, OwnedIsPending, Status
    <2>2. CASE Fails(Input(b)) /\ version' = [version EXCEPT ![Input(b)] = Closed(version[Input(b)], "failed")]
      <3>1. \A j \in Inputs : j # Input(b) => version'[j] = version[j]
        BY <2>2 DEF IndexInv, PublishedSoundly, TypeOK
      <3>2. version'[Input(b)].status = "failed" /\ version'[Input(b)].owner = None
        BY <1>1, <2>2 DEF Closed, Versions, IndexInv, PublishedSoundly, TypeOK
      <3>3. Status(Input(b)) \in Pending
        BY <2>2 DEF Fails
      <3>4. version' \in [Inputs -> Versions]
        BY <1>1, <2>2 DEF Closed, Versions, Statuses, IndexInv, PublishedSoundly, TypeOK
      <3>5. \A i, j \in Inputs : version'[i].status \in Pending /\ version'[j].status \in Pending => i = j
        BY <3>1, <3>2 DEF OneBuild, Status, Pending, IndexInv, PublishedSoundly
      <3> QED
        BY <3>1, <3>2, <3>3, <3>4, <3>5 DEF MarkFailed, Undisturbed, Status, Readable, Pending, OwnedIsPending, IndexInv
    <2> QED
      BY <2>1, <2>2 DEF MarkFailed
  <1> QED
    BY <1>2, <1>3, UndisturbedKeeps DEF MarkFailed, IndexInv, PublishedSoundly, TypeOK

LEMMA ExpireKeeps ==
    ASSUME IndexInv, NEW i \in Inputs, Expire(i)
    PROVE  IndexInv' /\ \A j \in Inputs : version'[j].status = Status(j) /\ version'[j].owner = version[j].owner
  <1>1. version' = [version EXCEPT ![i].live = FALSE] /\ UNCHANGED <<artifacts, pointer, build, rollbacks>>
    BY DEF Expire
  <1>2. version' \in [Inputs -> Versions]
    BY <1>1 DEF Versions, IndexInv, PublishedSoundly, TypeOK
  <1>3. \A j \in Inputs : version'[j].status = Status(j) /\ version'[j].owner = version[j].owner
    BY <1>1 DEF Versions, Status, IndexInv, PublishedSoundly, TypeOK
  <1>4. TypeOK'
    BY <1>1, <1>2 DEF TypeOK, IndexInv, PublishedSoundly
  <1>5. OneActive' /\ OneBuild' /\ ReadableIsWhole' /\ OwnedIsPending'
    BY <1>1, <1>3 DEF OneActive, OneBuild, ReadableIsWhole, OwnedIsPending, Status, IndexInv, PublishedSoundly
  <1> QED
    BY <1>3, <1>4, <1>5 DEF IndexInv, PublishedSoundly

LEMMA ActivateKeeps ==
    ASSUME IndexInv, NEW b \in Builders, Activate(b)
    PROVE  IndexInv'
  <1>1. Input(b) \in Inputs /\ rollbacks' \in Nat
    BY WorkerHasInput DEF Activate, At, IndexInv, PublishedSoundly, TypeOK
  <1>2. build' \in [Builders -> Builds]
    BY <1>1 DEF Activate, Goes, Becomes, Ends, Builds, NoBuild, IndexInv, PublishedSoundly, TypeOK
  <1>3. CASE MayActivate(b)
    <2>1. Publish(Input(b)) /\ artifacts' = artifacts \cup {Input(b)}
      BY <1>3 DEF Activate
    <2>2. artifacts' \in SUBSET Inputs /\ artifacts \subseteq artifacts' /\ Input(b) \in artifacts'
      BY <1>1, <2>1 DEF IndexInv, PublishedSoundly, TypeOK
    <2>3. /\ version' \in [Inputs -> Versions] /\ pointer' = Input(b)
          /\ OneActive' /\ OneBuild' /\ ReadableIsWhole' /\ OwnedIsPending'
      BY <1>1, <2>1, <2>2, PublishLeaves
    <2> QED
      BY <1>1, <1>2, <2>2, <2>3 DEF IndexInv, PublishedSoundly, TypeOK
  <1>4. CASE ~MayActivate(b)
    <2>1. Undisturbed
      BY <1>4 DEF Activate, Undisturbed, IndexInv, PublishedSoundly, TypeOK, OneBuild, OwnedIsPending, Status
    <2> QED
      BY <1>1, <1>2, <2>1, UndisturbedKeeps
  <1> QED
    BY <1>3, <1>4

\* A rollback publishes what is stored already.
LEMMA RollbackKeeps ==
    ASSUME IndexInv, NEW i \in Inputs, Rollback(i)
    PROVE  IndexInv'
  <1>1. i \in artifacts /\ UNCHANGED <<artifacts, build>> /\ rollbacks' \in Nat /\ Publish(i)
    BY DEF Rollback, MayRollBack, ReadableIsWhole, IndexInv, PublishedSoundly, TypeOK
  <1>2. artifacts' \in SUBSET Inputs /\ artifacts \subseteq artifacts' /\ i \in artifacts'
    BY <1>1 DEF IndexInv, PublishedSoundly, TypeOK
  <1>3. /\ version' \in [Inputs -> Versions] /\ pointer' = i
        /\ OneActive' /\ OneBuild' /\ ReadableIsWhole' /\ OwnedIsPending'
    BY <1>1, <1>2, PublishLeaves
  <1> QED
    BY <1>1, <1>2, <1>3 DEF IndexInv, PublishedSoundly, TypeOK

\* A build raises, or its process dies.
LEMMA BuilderFaultKeeps ==
    ASSUME IndexInv, NEW b \in Builders, Raise(b) \/ Crash(b)
    PROVE  IndexInv'
  <1>1. Input(b) \in Inputs
    BY WorkerHasInput DEF Raise, Crash
  <1>2. build' \in [Builders -> Builds]
    BY <1>1 DEF Raise, Crash, Goes, Becomes, Ends, Builds, NoBuild, IndexInv, PublishedSoundly, TypeOK
  <1>3. UNCHANGED <<version, artifacts, pointer, rollbacks>>
    BY DEF Raise, Crash
  <1> QED
    BY <1>2, <1>3 DEF IndexInv, PublishedSoundly, TypeOK, OneActive, OneBuild, ReadableIsWhole, OwnedIsPending, Status

----------------------------------------------------------------------------
LEMMA InitEstablishes == Init => IndexInv
  BY IndexAssumption DEF Init, IndexInv, PublishedSoundly, TypeOK, OneActive, OneBuild, ReadableIsWhole, OwnedIsPending,
     Status, NoVersion, NoBuild, Versions, Builds, Statuses, Pending, Readable, None

LEMMA NextKeeps == IndexInv /\ [Next]_vars => IndexInv'
  <1> SUFFICES ASSUME IndexInv, [Next]_vars PROVE IndexInv'
    OBVIOUS
  <1>1. ASSUME NEW b \in Builders, NEW i \in Inputs, Begin(b, i) PROVE IndexInv'
    BY <1>1, BeginKeeps
  <1>2. ASSUME NEW b \in Builders, BuildStep(b) PROVE IndexInv'
    BY <1>2, EndWaitKeeps, MarkReadyKeeps, ActivateKeeps, MarkFailedKeeps DEF BuildStep
  <1>3. ASSUME NEW b \in Builders, Raise(b) \/ Crash(b) PROVE IndexInv'
    BY <1>3, BuilderFaultKeeps
  <1>4. ASSUME NEW i \in Inputs, Expire(i) PROVE IndexInv'
    BY <1>4, ExpireKeeps
  <1>5. ASSUME NEW i \in Inputs, Rollback(i) PROVE IndexInv'
    BY <1>5, RollbackKeeps
  <1>6. CASE UNCHANGED vars
    BY <1>6 DEF vars, IndexInv, PublishedSoundly, TypeOK, OneActive, OneBuild, ReadableIsWhole, OwnedIsPending, Status
  <1> QED
    BY <1>1, <1>2, <1>3, <1>4, <1>5, <1>6 DEF Next

\* The inductive invariant holds: index_store.py never leaves two versions being built, two
\* active ones, or a readable one without its rows.
THEOREM IndexInvariance == Spec => []IndexInv
  <1>1. Init => IndexInv
    BY InitEstablishes
  <1>2. IndexInv /\ [Next]_vars => IndexInv'
    BY NextKeeps
  <1> QED
    BY <1>1, <1>2, PTL DEF Spec

\* What retrieval reads is sound, for any number of builds, late, dead or concurrent.
THEOREM PublishedSoundlyTheorem == Spec => []PublishedSoundly
  <1>1. IndexInv => PublishedSoundly
    BY DEF IndexInv
  <1> QED
    BY <1>1, IndexInvariance, PTL

----------------------------------------------------------------------------
\* What a step may do to the published versions.
ReadableStays ==
    /\ \A i \in Inputs : Status(i) \in Readable => version'[i].status \in Readable
    /\ pointer # None => pointer' # None

LEMMA QuietStaysReadable ==
    ASSUME Undisturbed PROVE ReadableStays
  BY DEF Undisturbed, ReadableStays, Status

LEMMA SameStatusStaysReadable ==
    ASSUME UNCHANGED pointer, \A i \in Inputs : version'[i].status = Status(i)
    PROVE  ReadableStays
  BY DEF ReadableStays

LEMMA PublishStaysReadable ==
    ASSUME IndexInv, NEW i \in Inputs, Publish(i),
           artifacts' \in SUBSET Inputs, artifacts \subseteq artifacts', i \in artifacts'
    PROVE  ReadableStays
  <1>1. /\ pointer' = i
        /\ \A j \in Inputs : Status(j) \in Readable => version'[j].status \in Readable
    BY PublishLeaves
  <1> QED
    BY <1>1, IndexAssumption DEF ReadableStays, None

LEMMA BeginStaysReadable ==
    ASSUME IndexInv, NEW b \in Builders, NEW i \in Inputs, NEW waits \in BOOLEAN,
           Insert(b, i) \/ Resume(b, i) \/ Refuse(b, i, waits), UNCHANGED <<artifacts, pointer>>
    PROVE  ReadableStays
  <1>1. CASE Insert(b, i)
    BY <1>1, InsertLeaves, QuietStaysReadable
  <1>2. CASE Resume(b, i)
    BY <1>2, ResumeLeaves, QuietStaysReadable
  <1>3. CASE Refuse(b, i, waits)
    BY <1>3, RefuseLeaves, QuietStaysReadable
  <1> QED
    BY <1>1, <1>2, <1>3

LEMMA NextStaysReadable == IndexInv /\ [Next]_vars => ReadableStays
  <1> SUFFICES ASSUME IndexInv, [Next]_vars PROVE ReadableStays
    OBVIOUS
  <1>1. ASSUME NEW b \in Builders, NEW i \in Inputs, Begin(b, i) PROVE ReadableStays
    BY <1>1, BeginStaysReadable DEF Begin
  <1>2. ASSUME NEW b \in Builders, EndWait(b) PROVE ReadableStays
    <2>1. Input(b) \in Inputs
      BY <1>2, WorkerHasInput DEF EndWait, At
    <2>2. CASE UNCHANGED version
      BY <1>2, <2>2, SameStatusStaysReadable DEF EndWait, Status
    <2>3. CASE Resume(b, Input(b)) \/ Refuse(b, Input(b), FALSE)
      BY <1>2, <2>1, <2>3, BeginStaysReadable DEF EndWait
    <2> QED
      BY <1>2, <2>2, <2>3 DEF EndWait
  <1>3. ASSUME NEW b \in Builders, MarkReady(b) \/ MarkFailed(b) PROVE ReadableStays
    <2>1. Input(b) \in Inputs /\ UNCHANGED pointer
      BY <1>3, WorkerHasInput DEF MarkReady, MarkFailed, At
    <2> DEFINE Touches == /\ Status(Input(b)) \in Pending
                          /\ \A j \in Inputs : j # Input(b) => version'[j] = version[j]
    <2>2. CASE UNCHANGED version
      BY <2>1, <2>2, SameStatusStaysReadable DEF Status
    <2>3. CASE Touches
      BY <2>1, <2>3 DEF ReadableStays, Status, Pending, Readable
    <2>4. MarkReady(b) => UNCHANGED version \/ Touches
      BY <2>1 DEF MarkReady, Mine, Pending, IndexInv, PublishedSoundly, TypeOK
    <2>5. MarkFailed(b) => UNCHANGED version \/ Touches
      BY <2>1 DEF MarkFailed, Fails, IndexInv, PublishedSoundly, TypeOK
    <2> QED
      BY <1>3, <2>2, <2>3, <2>4, <2>5
  <1>4. ASSUME NEW b \in Builders, Activate(b) PROVE ReadableStays
    <2>1. Input(b) \in Inputs
      BY <1>4, WorkerHasInput DEF Activate, At
    <2>2. CASE MayActivate(b)
      <3>1. Publish(Input(b)) /\ artifacts' = artifacts \cup {Input(b)}
        BY <1>4, <2>2 DEF Activate
      <3>2. artifacts' \in SUBSET Inputs /\ artifacts \subseteq artifacts' /\ Input(b) \in artifacts'
        BY <2>1, <3>1 DEF IndexInv, PublishedSoundly, TypeOK
      <3> QED
        BY <2>1, <3>1, <3>2, PublishStaysReadable
    <2>3. CASE UNCHANGED <<version, pointer>>
      BY <2>3, SameStatusStaysReadable DEF Status
    <2> QED
      BY <1>4, <2>2, <2>3 DEF Activate
  <1>5. ASSUME NEW i \in Inputs, Rollback(i) PROVE ReadableStays
    BY <1>5, PublishStaysReadable DEF Rollback, MayRollBack, ReadableIsWhole, IndexInv, PublishedSoundly, TypeOK
  <1>6. ASSUME NEW i \in Inputs, Expire(i) PROVE ReadableStays
    BY <1>6, ExpireKeeps, SameStatusStaysReadable DEF Expire
  <1>7. CASE UNCHANGED <<version, pointer>>
    BY <1>7, SameStatusStaysReadable DEF Status
  <1> QED
    BY <1>1, <1>2, <1>3, <1>4, <1>5, <1>6, <1>7 DEF Next, BuildStep, Raise, Crash, vars

\* No late build, failure, takeover or rollback takes away what retrieval may be reading.
THEOREM PublishedStaysReadableTheorem == Spec => PublishedStaysReadable
  <1>1. IndexInv /\ [Next]_vars => [ReadableStays]_vars
    BY NextStaysReadable
  <1> QED
    BY <1>1, IndexInvariance, PTL DEF Spec, PublishedStaysReadable, ReadableStays

----------------------------------------------------------------------------
\* Whoever owns a version under a live lease, and does not after the step, has ended its build or
\* shares the version with a build that has failed.
LEMMA NextKeepsLease ==
    ASSUME IndexInv, [Next]_vars, NEW i \in Inputs, NEW b \in Builders,
           version[i].owner = b, version[i].live, version'[i].owner # b
    PROVE  \/ build[b].input = i /\ build'[b] = NoBuild
           \/ \E c \in Builders : At(c, "fail") /\ Input(c) = i
  <1>1. Status(i) \in Pending /\ Status(i) \notin Readable
    BY IndexAssumption DEF IndexInv, OwnedIsPending, None, Pending, Readable
  <1>2. version \in [Inputs -> Versions] /\ build \in [Builders -> Builds]
    BY DEF IndexInv, PublishedSoundly, TypeOK
  <1>3. ~(\E c \in Builders, k \in Inputs : Insert(c, k))
    <2> SUFFICES ASSUME NEW c \in Builders, NEW k \in Inputs, Insert(c, k) PROVE FALSE
      OBVIOUS
    <2>1. i # k
      BY <1>1 DEF Insert, Pending
    <2>2. i \in Others(k)
      BY <1>1, <2>1 DEF Others
    <2> QED
      BY <2>2 DEF Insert, Free
  <1>4. ~(\E c \in Builders, k \in Inputs : Resume(c, k))
    <2> SUFFICES ASSUME NEW c \in Builders, NEW k \in Inputs, Resume(c, k) PROVE FALSE
      OBVIOUS
    <2>1. i # k
      BY <1>1 DEF Resume, Free, Pending
    <2>2. version'[i] = version[i]
      BY <1>2, <2>1 DEF Resume
    <2> QED
      BY <2>2
  <1>5. UNCHANGED version => FALSE
    OBVIOUS
  <1>6. ASSUME NEW c \in Builders, MarkReady(c) PROVE FALSE
    <2>1. Input(c) \in Inputs
      BY <1>6, WorkerHasInput DEF MarkReady, At
    <2>2. version' = [version EXCEPT ![Input(c)] = [version[Input(c)] EXCEPT !.status = "ready", !.live = TRUE]]
      BY <1>5, <1>6 DEF MarkReady
    <2>3. i = Input(c)
      BY <1>2, <2>1, <2>2
    <2>4. version[i] \in Versions
      BY <1>2
    <2>5. [version[i] EXCEPT !.status = "ready", !.live = TRUE].owner = version[i].owner
      BY <2>4 DEF Versions
    <2>6. version'[i] = [version[i] EXCEPT !.status = "ready", !.live = TRUE]
      BY <1>2, <2>2, <2>3
    <2> QED
      BY <2>5, <2>6
  <1>7. ASSUME NEW c \in Builders, Activate(c) PROVE build[b].input = i /\ build'[b] = NoBuild
    <2>1. Input(c) \in Inputs
      BY <1>7, WorkerHasInput DEF Activate, At
    <2>2. MayActivate(c)
      BY <1>5, <1>7 DEF Activate
    <2>3. Publish(Input(c)) /\ artifacts' = artifacts \cup {Input(c)}
      BY <1>7, <2>2 DEF Activate
    <2>4. artifacts' \in SUBSET Inputs /\ artifacts \subseteq artifacts' /\ Input(c) \in artifacts'
      BY <2>1, <2>3 DEF IndexInv, PublishedSoundly, TypeOK
    <2>5. Input(c) = i
      BY <2>1, <2>3, <2>4, PublishLeaves
    <2>6. c = b
      BY <2>2, <2>5 DEF MayActivate, Mine
    <2> QED
      BY <1>2, <1>7, <2>2, <2>5, <2>6 DEF Activate, Ends, Input
  <1>8. ASSUME NEW c \in Builders, MarkFailed(c) PROVE At(c, "fail") /\ Input(c) = i
    BY <1>2, <1>5, <1>8 DEF MarkFailed
  <1>9. ASSUME NEW k \in Inputs, Expire(k) PROVE FALSE
    BY <1>9, ExpireKeeps
  <1>10. ASSUME NEW k \in Inputs, Rollback(k) PROVE FALSE
    <2>1. i # k
      BY <1>1, <1>10 DEF Rollback, MayRollBack
    <2>2. Publish(k) /\ artifacts' = artifacts /\ k \in artifacts /\ artifacts \in SUBSET Inputs
      BY <1>10 DEF Rollback, MayRollBack, ReadableIsWhole, IndexInv, PublishedSoundly, TypeOK
    <2>3. version'[i].owner = version[i].owner
      BY <2>1, <2>2, PublishLeaves
    <2> QED
      BY <2>3
  <1>11. ASSUME NEW c \in Builders, NEW k \in Inputs, Begin(c, k) PROVE FALSE
    BY <1>3, <1>4, <1>5, <1>11 DEF Begin, Refuse
  <1>12. ASSUME NEW c \in Builders, EndWait(c) PROVE FALSE
    <2>1. Input(c) \in Inputs
      BY <1>12, WorkerHasInput DEF EndWait, At
    <2> QED
      BY <1>4, <1>5, <1>12, <2>1 DEF EndWait, Refuse
  <1> QED
    BY <1>5, <1>6, <1>7, <1>8, <1>9, <1>10, <1>11, <1>12 DEF Next, BuildStep, Raise, Crash, vars

\* A build with a live lease is left alone: takeovers wait for the lease to run out, and the one
\* step that does not ask for the owner is mark_failed of an earlier build of the same version.
THEOREM LiveLeaseIsKeptTheorem == Spec => LiveLeaseIsKept
  <1>1. IndexInv /\ [Next]_vars =>
          [\A i \in Inputs, b \in Builders :
              version[i].owner = b /\ version[i].live /\ version'[i].owner # b =>
                 \/ build[b].input = i /\ build'[b] = NoBuild
                 \/ \E c \in Builders : At(c, "fail") /\ Input(c) = i]_vars
    BY NextKeepsLease
  <1> QED
    BY <1>1, IndexInvariance, PTL DEF Spec, LiveLeaseIsKept

----------------------------------------------------------------------------
(***************************************************************************)
(* The indexes of one version and the searches that build them.            *)
(***************************************************************************)

\* What a search knows of the points: those it has put there and counted, or was told of by a
\* ready manifest, are there until it answers.  Points never go.
Knows(s) ==
    /\ ~SearchAt(s, "idle") => Wanted(s) \in Filters
    /\ search[s].pc \in {"count", "accept"} => Wanted(s) \subseteq points
    /\ search[s].vectors => Wanted(s) \subseteq points
    /\ SearchAt(s, "read") => search[s].generation \in Filters
    /\ search[s].pc \in {"answer", "answered"} /\ search[s].vectors /\ ~search[s].full =>
           Wanted(s) \subseteq search[s].hits
    /\ SearchAt(s, "answered") => search[s].hits \subseteq Wanted(s)

\* The inductive invariant.
SearchInv == IndexesAreSound /\ \A s \in Searchers : Knows(s)

SearchRecords == [pc : PCs, wanted : SUBSET Documents, vectors : BOOLEAN,
                  generation : SUBSET Documents, hits : SUBSET Documents, full : BOOLEAN]

Generations == [status : {"absent", "building", "ready", "failed", "superseded"}, rows : SUBSET Documents]

Bounds == [searches : 0..MaxSearches, faults : 0..MaxFaults]

----------------------------------------------------------------------------
\* A step of one search that removes no points: if its own record fits, all do.
LEMMA OneSearch ==
    ASSUME SearchInv, NEW s \in Searchers, NEW new \in SearchRecords,
           search' = [search EXCEPT ![s] = new],
           points \subseteq points',
           new.pc # "idle" => new.wanted \in Filters,
           new.pc \in {"count", "accept"} => new.wanted \subseteq points',
           new.vectors => new.wanted \subseteq points',
           new.pc = "read" => new.generation \in Filters,
           new.pc \in {"answer", "answered"} /\ new.vectors /\ ~new.full => new.wanted \subseteq new.hits,
           new.pc = "answered" => new.hits \subseteq new.wanted
    PROVE  /\ search' \in [Searchers -> SearchRecords]
           /\ \A t \in Searchers : Knows(t)'
  <1>1. search \in [Searchers -> SearchRecords]
    BY DEF SearchInv, IndexesAreSound, SearchTypeOK, SearchRecords
  <1>2. search' \in [Searchers -> SearchRecords]
    BY <1>1
  <1>3. ASSUME NEW t \in Searchers
        PROVE  Knows(t)'
    <2>1. CASE t = s
      <3>1. search'[t] = new
        BY <1>1, <2>1
      <3> QED
        BY <3>1 DEF Knows, SearchAt, Wanted
    <2>2. CASE t # s
      <3>1. search'[t] = search[t]
        BY <1>1, <2>2
      <3>2. Knows(t)
        BY DEF SearchInv
      <3> QED
        BY <3>1, <3>2 DEF Knows, SearchAt, Wanted
    <2> QED
      BY <2>1, <2>2
  <1> QED
    BY <1>2, <1>3

\* A step of one search that touches no index.
LEMMA SearchAlone ==
    ASSUME SearchInv, NEW s \in Searchers, UNCHANGED indexes, counts' \in Bounds,
           search' \in [Searchers -> SearchRecords], \A t \in Searchers : Knows(t)'
    PROVE  SearchInv'
  <1>1. SearchTypeOK'
    BY DEF SearchInv, IndexesAreSound, SearchTypeOK, indexes, SearchRecords, Bounds
  <1>2. ReadyIsSound'
    BY DEF SearchInv, IndexesAreSound, ReadyIsSound, Ready, indexes
  <1> QED
    BY <1>1, <1>2 DEF SearchInv, IndexesAreSound

\* Counting a fault keeps the counters in their bounds.
LEMMA FaultCounts ==
    ASSUME counts \in Bounds, Fault
    PROVE  counts' \in Bounds
  BY SearchAssumption DEF Bounds, Fault

\* A new search begins.
LEMMA ListKeeps ==
    ASSUME SearchInv, NEW s \in Searchers, NEW f \in Filters, List(s, f)
    PROVE  SearchInv'
  <1> DEFINE new == [NoSearch EXCEPT !.pc = "manifest", !.wanted = f]
  <1>1. NoSearch \in SearchRecords
    BY DEF NoSearch, SearchRecords, PCs
  <1>2. f \subseteq Documents
    BY SearchAssumption
  <1>3. new \in SearchRecords
    BY <1>1, <1>2 DEF SearchRecords, PCs
  <1>4. search' = [search EXCEPT ![s] = new] /\ UNCHANGED indexes
    BY DEF List, SearchBecomes
  <1>5. counts' \in Bounds
    BY SearchAssumption DEF List, SearchInv, IndexesAreSound, SearchTypeOK, Bounds
  <1>6. points \subseteq points'
    BY <1>4 DEF indexes
  <1>7. new.pc = "manifest" /\ new.wanted = f /\ ~new.vectors
    BY DEF NoSearch
  <1> HIDE DEF new
  <1>8. search' \in [Searchers -> SearchRecords] /\ \A t \in Searchers : Knows(t)'
    BY <1>3, <1>4, <1>6, <1>7, OneSearch
  <1> QED
    BY <1>4, <1>5, <1>8, SearchAlone

\* A search goes to another step and keeps what it knows.
LEMMA GoesOn ==
    ASSUME SearchInv, NEW s \in Searchers, NEW pc \in PCs, SearchGoes(s, pc), ~SearchAt(s, "idle"),
           points \subseteq points',
           pc \in {"count", "accept"} => Wanted(s) \subseteq points',
           pc \notin {"read", "answer", "answered"}
    PROVE  /\ search' \in [Searchers -> SearchRecords]
           /\ \A t \in Searchers : Knows(t)'
  <1> DEFINE new == [search[s] EXCEPT !.pc = pc]
  <1>1. search[s] \in SearchRecords /\ Knows(s)
    BY DEF SearchInv, IndexesAreSound, SearchTypeOK, SearchRecords
  <1>2. new \in SearchRecords /\ new.pc = pc /\ new.wanted = Wanted(s) /\ new.vectors = search[s].vectors
    BY <1>1 DEF SearchRecords, Wanted
  <1>3. search' = [search EXCEPT ![s] = new]
    BY DEF SearchGoes, SearchBecomes
  <1>4. Wanted(s) \in Filters /\ (search[s].vectors => Wanted(s) \subseteq points)
    BY <1>1 DEF Knows
  <1> HIDE DEF new
  <1> QED
    BY <1>2, <1>3, <1>4, OneSearch

\* What raises; the counting, the two looks at the generations and the way past the text search.
LEMMA LooksKeep ==
    ASSUME SearchInv, NEW s \in Searchers,
           SyncRaises(s) \/ FillRaises(s) \/ Count(s) \/ FindReady(s) \/ CheckOwn(s) \/ SkipText(s)
    PROVE  SearchInv'
  <1>1. PICK pc \in {"reject", "clear", "accept", "check", "match", "reset", "generation", "dense"} :
            SearchGoes(s, pc) /\ (pc = "accept" => SearchAt(s, "count"))
    BY DEF SyncRaises, FillRaises, Count, FindReady, CheckOwn, SkipText
  <1>2. ~SearchAt(s, "idle") /\ UNCHANGED indexes
    BY DEF SyncRaises, FillRaises, Count, FindReady, CheckOwn, SkipText, SearchAt
  <1>3. counts' = counts \/ Fault
    BY DEF SyncRaises, FillRaises, Count, FindReady, CheckOwn, SkipText
  <1>4. counts' \in Bounds
    BY <1>3, FaultCounts DEF SearchInv, IndexesAreSound, SearchTypeOK, Bounds
  <1>5. pc = "accept" => Wanted(s) \subseteq points
    BY <1>1 DEF SearchInv, Knows, SearchAt
  <1>6. points' = points
    BY <1>2 DEF indexes
  <1>7. search' \in [Searchers -> SearchRecords] /\ \A t \in Searchers : Knows(t)'
    BY <1>1, <1>2, <1>5, <1>6, GoesOn DEF PCs
  <1> QED
    BY <1>2, <1>4, <1>7, SearchAlone

\* The process dies.
LEMMA CrashKeeps ==
    ASSUME SearchInv, SearchesDie
    PROVE  SearchInv'
  <1>1. UNCHANGED indexes /\ search' = [s \in Searchers |-> NoSearch]
    BY DEF SearchesDie
  <1>2. counts' \in Bounds
    BY FaultCounts DEF SearchesDie, SearchInv, IndexesAreSound, SearchTypeOK, Bounds
  <1>3. NoSearch \in SearchRecords
    BY DEF NoSearch, SearchRecords, PCs
  <1>4. search' \in [Searchers -> SearchRecords]
    BY <1>1, <1>3
  <1>5. \A t \in Searchers : Knows(t)'
    BY <1>1 DEF Knows, SearchAt, NoSearch
  <1>6. SearchTypeOK'
    BY <1>1, <1>2, <1>4 DEF SearchInv, IndexesAreSound, SearchTypeOK, indexes, SearchRecords, Bounds
  <1>7. ReadyIsSound'
    BY <1>1 DEF SearchInv, IndexesAreSound, ReadyIsSound, Ready, indexes
  <1> QED
    BY <1>1, <1>5, <1>6, <1>7 DEF SearchInv, IndexesAreSound

----------------------------------------------------------------------------
\* The vectors.  A manifest is made ready by who has counted its points.
LEMMA ManifestMoves ==
    ASSUME SearchInv, NEW s \in Searchers, ~SearchAt(s, "idle"), NEW m \in {"building", "ready", "failed"},
           manifest' = [manifest EXCEPT ![Wanted(s)] = m] \/ manifest' = manifest,
           m = "ready" => Wanted(s) \subseteq points,
           UNCHANGED <<fts, points, counts>>,
           search' \in [Searchers -> SearchRecords], \A t \in Searchers : Knows(t)'
    PROVE  SearchInv'
  <1>1. SearchTypeOK /\ ReadyIsSound /\ Wanted(s) \in Filters
    BY DEF SearchInv, IndexesAreSound, Knows
  <1>2. manifest' \in [Filters -> {"absent", "building", "ready", "failed"}]
    BY <1>1 DEF SearchTypeOK
  <1>3. SearchTypeOK'
    BY <1>1, <1>2 DEF SearchTypeOK, SearchRecords
  <1>4. \A g \in Filters : manifest'[g] = "ready" => g \subseteq points'
    BY <1>1 DEF SearchTypeOK, ReadyIsSound
  <1>5. ReadyIsSound'
    BY <1>1, <1>4 DEF ReadyIsSound, Ready
  <1> QED
    BY <1>3, <1>5 DEF SearchInv, IndexesAreSound

LEMMA ReadManifestKeeps ==
    ASSUME SearchInv, NEW s \in Searchers, ReadManifest(s)
    PROVE  SearchInv'
  <1> DEFINE new == IF ManifestReady(s) THEN [search[s] EXCEPT !.pc = "generation", !.vectors = TRUE]
                    ELSE [search[s] EXCEPT !.pc = "prepare"]
  <1>1. SearchAt(s, "manifest") /\ ~SearchAt(s, "idle") /\ UNCHANGED <<indexes, counts>>
    BY DEF ReadManifest, SearchAt
  <1>2. search[s] \in SearchRecords /\ Wanted(s) \in Filters /\ Knows(s)
    BY <1>1 DEF SearchInv, IndexesAreSound, SearchTypeOK, SearchRecords, Knows
  <1>3. ManifestReady(s) => Wanted(s) \subseteq points
    BY <1>2 DEF ManifestReady, SearchInv, IndexesAreSound, ReadyIsSound
  <1>4. points' = points /\ counts' \in Bounds
    BY <1>1 DEF indexes, SearchInv, IndexesAreSound, SearchTypeOK, Bounds
  <1>5. /\ new \in SearchRecords /\ new.pc \in {"generation", "prepare"} /\ new.wanted = Wanted(s)
        /\ new.vectors => ManifestReady(s) \/ search[s].vectors
    BY <1>2 DEF SearchRecords, PCs, Wanted
  <1>6. search' = [search EXCEPT ![s] = new]
    BY DEF ReadManifest, SearchBecomes
  <1> HIDE DEF new
  <1>7. search' \in [Searchers -> SearchRecords] /\ \A t \in Searchers : Knows(t)'
    BY <1>2, <1>3, <1>4, <1>5, <1>6, OneSearch DEF Knows
  <1> QED
    BY <1>1, <1>4, <1>7, SearchAlone

LEMMA WriteBuildingKeeps ==
    ASSUME SearchInv, NEW s \in Searchers, WriteBuilding(s)
    PROVE  SearchInv'
  <1>1. ~SearchAt(s, "idle") /\ SearchGoes(s, "upsert") /\ UNCHANGED <<fts, points, counts>>
    BY DEF WriteBuilding, SearchAt
  <1>2. manifest' = [manifest EXCEPT ![Wanted(s)] = "building"]
    BY DEF WriteBuilding
  <1>3. search' \in [Searchers -> SearchRecords] /\ \A t \in Searchers : Knows(t)'
    BY <1>1, GoesOn DEF PCs
  <1> QED
    BY <1>1, <1>2, <1>3, ManifestMoves

LEMMA WriteManifestKeeps ==
    ASSUME SearchInv, NEW s \in Searchers, WriteManifest(s)
    PROVE  SearchInv'
  <1> DEFINE new == [search[s] EXCEPT !.pc = "generation", !.vectors = SearchAt(s, "accept")]
  <1>1. ~SearchAt(s, "idle") /\ UNCHANGED <<fts, points, counts>>
    BY DEF WriteManifest, SearchAt
  <1>2. search[s] \in SearchRecords /\ Wanted(s) \in Filters /\ Knows(s)
    BY <1>1 DEF SearchInv, IndexesAreSound, SearchTypeOK, SearchRecords, Knows
  <1>3. SearchAt(s, "accept") => Wanted(s) \subseteq points
    BY <1>2 DEF Knows, SearchAt
  <1>4. new \in SearchRecords /\ new.pc = "generation" /\ new.wanted = Wanted(s)
    BY <1>2 DEF SearchRecords, PCs, Wanted, SearchAt
  <1>5. new.vectors => SearchAt(s, "accept")
    BY <1>2 DEF SearchRecords
  <1>6. search' = [search EXCEPT ![s] = new]
    BY DEF WriteManifest, SearchBecomes
  <1> HIDE DEF new
  <1>7. search' \in [Searchers -> SearchRecords] /\ \A t \in Searchers : Knows(t)'
    BY <1>1, <1>2, <1>3, <1>4, <1>5, <1>6, OneSearch
  <1>8. PICK m \in {"ready", "failed"} :
            manifest' = [manifest EXCEPT ![Wanted(s)] = m] /\ (m = "ready" => SearchAt(s, "accept"))
    BY DEF WriteManifest
  <1> QED
    BY <1>1, <1>3, <1>7, <1>8, ManifestMoves

LEMMA UpsertKeeps ==
    ASSUME SearchInv, NEW s \in Searchers, Upsert(s)
    PROVE  SearchInv'
  <1>1. ~SearchAt(s, "idle") /\ SearchGoes(s, "count") /\ UNCHANGED <<fts, manifest, counts>>
    BY DEF Upsert, SearchAt
  <1>2. points' = points \cup Wanted(s)
    BY DEF Upsert
  <1>3. search' \in [Searchers -> SearchRecords] /\ \A t \in Searchers : Knows(t)'
    BY <1>1, <1>2, GoesOn DEF PCs
  <1>4. Wanted(s) \subseteq Documents
    BY <1>1, SearchAssumption DEF SearchInv, Knows
  <1>5. SearchTypeOK'
    BY <1>1, <1>2, <1>3, <1>4 DEF SearchInv, IndexesAreSound, SearchTypeOK, SearchRecords
  <1>6. ReadyIsSound'
    BY <1>1, <1>2 DEF SearchInv, IndexesAreSound, ReadyIsSound, Ready
  <1> QED
    BY <1>1, <1>3, <1>5, <1>6 DEF SearchInv, IndexesAreSound

----------------------------------------------------------------------------
\* The full-text generations.  A step that leaves no more generations ready keeps one ready.
LEMMA GenerationsMove ==
    ASSUME SearchInv, UNCHANGED <<manifest, points, counts>>, fts' \in [Filters -> Generations],
           \A g, h \in Ready' : g = h,
           \A g \in Ready' : fts'[g].rows = g,
           search' \in [Searchers -> SearchRecords], \A t \in Searchers : Knows(t)'
    PROVE  SearchInv'
  <1>1. SearchTypeOK'
    BY DEF SearchInv, IndexesAreSound, SearchTypeOK, SearchRecords, Generations
  <1>2. ReadyIsSound'
    BY DEF SearchInv, IndexesAreSound, ReadyIsSound
  <1> QED
    BY <1>1, <1>2 DEF SearchInv, IndexesAreSound

\* A generation is emptied to be built, or because its build has failed.
LEMMA EmptyingKeeps ==
    ASSUME SearchInv, NEW s \in Searchers, ~SearchAt(s, "idle"), NEW state \in {"building", "failed"},
           fts' = [fts EXCEPT ![Wanted(s)] = [status |-> state, rows |-> {}]],
           UNCHANGED <<manifest, points, counts>>,
           search' \in [Searchers -> SearchRecords], \A t \in Searchers : Knows(t)'
    PROVE  SearchInv'
  <1>1. fts \in [Filters -> Generations] /\ Wanted(s) \in Filters
    BY DEF SearchInv, IndexesAreSound, SearchTypeOK, Generations, Knows
  <1>2. [status |-> state, rows |-> {}] \in Generations
    BY DEF Generations
  <1>3. fts' \in [Filters -> Generations]
    BY <1>1, <1>2
  <1>4. \A g \in Filters : g # Wanted(s) => fts'[g] = fts[g]
    BY <1>1
  <1>5. fts'[Wanted(s)].status # "ready"
    BY <1>1
  <1>6. Ready' \subseteq Ready /\ \A g \in Ready' : fts'[g] = fts[g]
    BY <1>4, <1>5 DEF Ready
  <1> QED
    BY <1>3, <1>6, GenerationsMove DEF SearchInv, IndexesAreSound, ReadyIsSound

LEMMA FillKeeps ==
    ASSUME SearchInv, NEW s \in Searchers, Fill(s)
    PROVE  SearchInv'
  <1>1. ~SearchAt(s, "idle") /\ UNCHANGED <<manifest, points, counts>>
    BY DEF Fill, SearchAt
  <1>2. PICK pc \in {"clear", "match"} : SearchGoes(s, pc)
    BY DEF Fill
  <1>3. search' \in [Searchers -> SearchRecords] /\ \A t \in Searchers : Knows(t)'
    BY <1>1, <1>2, GoesOn DEF PCs
  <1>4. fts \in [Filters -> Generations] /\ ReadyIsSound /\ Wanted(s) \in Filters
    BY <1>1 DEF SearchInv, IndexesAreSound, SearchTypeOK, Generations, Knows
  <1>5. CASE fts' = fts
    BY <1>1, <1>3, <1>4, <1>5, GenerationsMove DEF ReadyIsSound, Ready
  <1>6. CASE fts' # fts
    <2> DEFINE g == Wanted(s)
    <2>1. fts[g].rows \cap g = {} /\ fts' = Filled(g)
      BY <1>6 DEF Fill
    <2>2. g \subseteq Documents
      BY <1>4, SearchAssumption
    <2>4. fts' \in [Filters -> Generations]
      BY <1>4, <2>1, <2>2 DEF Filled, Generations, Ready
    <2>5. fts'[g].rows = g
      BY <1>4, <2>1 DEF Filled
    <2>6. \A h \in Filters : h # g => fts'[h].status # "ready"
      BY <1>4, <2>1 DEF Filled, Ready, Generations
    <2>7. \A h \in Ready' : h = g
      BY <2>6 DEF Ready
    <2> QED
      BY <1>1, <1>3, <2>4, <2>5, <2>7, GenerationsMove
  <1> QED
    BY <1>5, <1>6

LEMMA ResetKeeps ==
    ASSUME SearchInv, NEW s \in Searchers, Reset(s)
    PROVE  SearchInv'
  <1>1. ~SearchAt(s, "idle") /\ SearchGoes(s, "fill") /\ UNCHANGED <<manifest, points, counts>>
    BY DEF Reset, SearchAt
  <1>2. search' \in [Searchers -> SearchRecords] /\ \A t \in Searchers : Knows(t)'
    BY <1>1, GoesOn DEF PCs
  <1> QED
    BY <1>1, <1>2, EmptyingKeeps DEF Reset

\* The search is over, whatever it held.
LEMMA SearchEnds ==
    ASSUME SearchInv, NEW s \in Searchers, SearchBecomes(s, NoSearch), points \subseteq points'
    PROVE  /\ search' \in [Searchers -> SearchRecords]
           /\ \A t \in Searchers : Knows(t)'
  <1>1. NoSearch \in SearchRecords
    BY DEF NoSearch, SearchRecords, PCs
  <1>2. NoSearch.pc = "idle" /\ ~NoSearch.vectors
    BY DEF NoSearch
  <1>3. search' = [search EXCEPT ![s] = NoSearch]
    BY DEF SearchBecomes
  <1> HIDE DEF NoSearch
  <1> QED
    BY <1>1, <1>2, <1>3, OneSearch

LEMMA ClearKeeps ==
    ASSUME SearchInv, NEW s \in Searchers, Clear(s)
    PROVE  SearchInv'
  <1>1. ~SearchAt(s, "idle") /\ SearchBecomes(s, NoSearch) /\ UNCHANGED <<manifest, points, counts>>
    BY DEF Clear, SearchAt
  <1>2. search' \in [Searchers -> SearchRecords] /\ \A t \in Searchers : Knows(t)'
    BY <1>1, SearchEnds
  <1> QED
    BY <1>1, <1>2, EmptyingKeeps DEF Clear

----------------------------------------------------------------------------
\* The answer.
LEMMA MatchKeeps ==
    ASSUME SearchInv, NEW s \in Searchers, Match(s)
    PROVE  SearchInv'
  <1>1. SearchAt(s, "match") /\ ~SearchAt(s, "idle") /\ UNCHANGED <<indexes, counts>>
    BY DEF Match, SearchAt
  <1>2. points' = points /\ counts' \in Bounds
    BY <1>1 DEF indexes, SearchInv, IndexesAreSound, SearchTypeOK, Bounds
  <1>3. CASE SearchBecomes(s, NoSearch)
    BY <1>1, <1>2, <1>3, SearchEnds, SearchAlone
  <1>4. CASE \E g \in Ready : SearchBecomes(s, [search[s] EXCEPT !.pc = "read", !.generation = g])
    <2>1. PICK g \in Ready : SearchBecomes(s, [search[s] EXCEPT !.pc = "read", !.generation = g])
      BY <1>4
    <2> DEFINE new == [search[s] EXCEPT !.pc = "read", !.generation = g]
    <2>2. g \in Filters /\ g \in SUBSET Documents
      BY SearchAssumption DEF Ready
    <2>3. search[s] \in SearchRecords /\ Knows(s)
      BY DEF SearchInv, IndexesAreSound, SearchTypeOK, SearchRecords
    <2>4. /\ new \in SearchRecords /\ new.pc = "read" /\ new.generation = g
          /\ new.wanted = Wanted(s) /\ new.vectors = search[s].vectors
      BY <2>2, <2>3 DEF SearchRecords, PCs, Wanted
    <2>5. search' = [search EXCEPT ![s] = new]
      BY <2>1 DEF SearchBecomes
    <2> HIDE DEF new
    <2>6. search' \in [Searchers -> SearchRecords] /\ \A t \in Searchers : Knows(t)'
      BY <1>1, <1>2, <2>2, <2>3, <2>4, <2>5, OneSearch DEF Knows
    <2> QED
      BY <1>1, <1>2, <2>6, SearchAlone
  <1> QED
    BY <1>3, <1>4 DEF Match

\* A step of one search through the hits: what it has and how full it is changes, no index does.
LEMMA HitsMove ==
    ASSUME SearchInv, NEW s \in Searchers, ~SearchAt(s, "idle"), UNCHANGED <<indexes, counts>>,
           NEW new \in SearchRecords, SearchBecomes(s, new),
           new.pc \in {"dense", "answer", "answered"}, new.wanted = Wanted(s),
           new.vectors => search[s].vectors,
           new.pc \in {"answer", "answered"} /\ new.vectors /\ ~new.full => new.wanted \subseteq new.hits,
           new.pc = "answered" => new.hits \subseteq new.wanted
    PROVE  SearchInv'
  <1>1. points' = points /\ counts' \in Bounds
    BY DEF indexes, SearchInv, IndexesAreSound, SearchTypeOK, Bounds
  <1>2. Wanted(s) \in Filters /\ (search[s].vectors => Wanted(s) \subseteq points)
    BY DEF SearchInv, Knows
  <1>3. search' = [search EXCEPT ![s] = new]
    BY DEF SearchBecomes
  <1>4. search' \in [Searchers -> SearchRecords] /\ \A t \in Searchers : Knows(t)'
    BY <1>1, <1>2, <1>3, OneSearch
  <1> QED
    BY <1>1, <1>4, SearchAlone

LEMMA ReadKeeps ==
    ASSUME SearchInv, NEW s \in Searchers, Read(s)
    PROVE  SearchInv'
  <1> DEFINE found == (SUBSET (fts[search[s].generation].rows \cap Wanted(s)))
                         \cup (IF search[s].vectors THEN SUBSET points ELSE {})
             WithHits(hits) == [search[s] EXCEPT !.pc = "dense", !.generation = {}, !.hits = hits]
  <1>1. SearchAt(s, "read") /\ ~SearchAt(s, "idle") /\ UNCHANGED <<indexes, counts>>
    BY DEF Read, SearchAt
  <1>2. search[s] \in SearchRecords /\ points \subseteq Documents
    BY DEF SearchInv, IndexesAreSound, SearchTypeOK, SearchRecords
  <1>3. Wanted(s) \subseteq Documents
    BY <1>2 DEF SearchRecords, Wanted
  <1>4. PICK hits \in found : SearchBecomes(s, WithHits(hits))
    BY DEF Read
  <1>5. hits \in SUBSET Documents
    <2>1. CASE hits \in SUBSET (fts[search[s].generation].rows \cap Wanted(s))
      BY <2>1, <1>3
    <2>2. CASE hits \in (IF search[s].vectors THEN SUBSET points ELSE {})
      BY <2>2, <1>2
    <2> QED
      BY <1>4, <2>1, <2>2
  <1> DEFINE new == WithHits(hits)
  <1> HIDE DEF found
  <1>6. /\ new \in SearchRecords /\ new.pc = "dense" /\ new.wanted = Wanted(s)
        /\ new.vectors = search[s].vectors
    BY <1>2, <1>5 DEF SearchRecords, PCs, Wanted
  <1>7. SearchBecomes(s, new)
    BY <1>4
  <1> HIDE DEF new
  <1> QED
    BY <1>1, <1>6, <1>7, HitsMove

\* A list that has room for all is not cut.
LEMMA BestIsAll ==
    ASSUME NEW S, NEW n, NEW B \in Best(n, S)
    PROVE  B \subseteq S /\ (Cardinality(B) # n => B = S)
  BY DEF Best

LEMMA DenseSearchKeeps ==
    ASSUME SearchInv, NEW s \in Searchers, DenseSearch(s)
    PROVE  SearchInv'
  <1>1. SearchAt(s, "dense") /\ ~SearchAt(s, "idle") /\ UNCHANGED <<indexes, counts>> /\ search[s].vectors
    BY DEF DenseSearch, SearchAt
  <1>2. search[s] \in SearchRecords /\ points \subseteq Documents /\ Wanted(s) \subseteq points
    BY <1>1 DEF SearchInv, IndexesAreSound, SearchTypeOK, SearchRecords, Knows
  <1>3. PICK hits \in Best(DenseTopK, points) :
           SearchBecomes(s, [search[s] EXCEPT !.pc   = "answer",
                                              !.hits = search[s].hits \cup hits,
                                              !.full = Cardinality(hits) = DenseTopK])
    BY DEF DenseSearch
  <1> DEFINE new == [search[s] EXCEPT !.pc   = "answer",
                                      !.hits = search[s].hits \cup hits,
                                      !.full = Cardinality(hits) = DenseTopK]
  <1>4. hits \subseteq points /\ (Cardinality(hits) # DenseTopK => hits = points)
    BY BestIsAll
  <1>5. /\ new \in SearchRecords /\ new.pc = "answer" /\ new.wanted = Wanted(s)
        /\ new.vectors = search[s].vectors
    BY <1>2, <1>4 DEF SearchRecords, PCs, Wanted
  <1>6. ~new.full => Wanted(s) \subseteq new.hits
    BY <1>2, <1>4 DEF SearchRecords
  <1>7. SearchBecomes(s, new)
    BY <1>3
  <1> HIDE DEF new
  <1> QED
    BY <1>1, <1>5, <1>6, <1>7, HitsMove

LEMMA NoDenseSearchKeeps ==
    ASSUME SearchInv, NEW s \in Searchers, NoDenseSearch(s)
    PROVE  SearchInv'
  <1> DEFINE new == [search[s] EXCEPT !.pc = "answer", !.vectors = FALSE]
  <1>1. ~SearchAt(s, "idle") /\ UNCHANGED <<indexes, counts>> /\ SearchBecomes(s, new)
    BY DEF NoDenseSearch, SearchAt
  <1>2. search[s] \in SearchRecords
    BY DEF SearchInv, IndexesAreSound, SearchTypeOK, SearchRecords
  <1>3. new \in SearchRecords /\ new.pc = "answer" /\ new.wanted = Wanted(s) /\ ~new.vectors
    BY <1>2 DEF SearchRecords, PCs, Wanted
  <1> HIDE DEF new
  <1> QED
    BY <1>1, <1>3, HitsMove

LEMMA AnswerKeeps ==
    ASSUME SearchInv, NEW s \in Searchers, Answer(s)
    PROVE  SearchInv'
  <1>1. SearchAt(s, "answer") /\ ~SearchAt(s, "idle") /\ UNCHANGED <<indexes, counts>>
    BY DEF Answer, SearchAt
  <1>2. search[s] \in SearchRecords /\ Knows(s)
    BY DEF SearchInv, IndexesAreSound, SearchTypeOK, SearchRecords
  <1> DEFINE Answered(final) == [search[s] EXCEPT !.pc   = "answered",
                                                  !.hits = Allowed(s, final),
                                                  !.full = search[s].full \/ Cardinality(final) = FinalTopK]
  <1>3. PICK graph \in SUBSET Documents :
            \E final \in Best(FinalTopK, search[s].hits \cup graph) : SearchBecomes(s, Answered(final))
    BY DEF Answer
  <1>4. PICK final \in Best(FinalTopK, search[s].hits \cup graph) : SearchBecomes(s, Answered(final))
    BY <1>3
  <1> DEFINE new == Answered(final)
  <1>5. Cardinality(final) # FinalTopK => final = search[s].hits \cup graph
    BY BestIsAll
  <1>6. search[s].vectors /\ ~search[s].full => Wanted(s) \subseteq search[s].hits
    BY <1>1, <1>2 DEF Knows, SearchAt
  <1>7. Allowed(s, final) = final \cap Wanted(s) /\ Wanted(s) \subseteq Documents
    BY <1>2 DEF Allowed, SearchRecords, Wanted
  <1>8. /\ new \in SearchRecords /\ new.pc = "answered" /\ new.wanted = Wanted(s)
        /\ new.vectors = search[s].vectors /\ new.hits = final \cap Wanted(s)
    BY <1>2, <1>7 DEF SearchRecords, PCs, Wanted
  <1>9. ~new.full => ~search[s].full /\ Cardinality(final) # FinalTopK
    BY <1>2 DEF SearchRecords
  <1>10. SearchBecomes(s, new)
    BY <1>4
  <1> HIDE DEF new
  <1>11. new.vectors /\ ~new.full => new.wanted \subseteq new.hits
    BY <1>5, <1>6, <1>8, <1>9
  <1> QED
    BY <1>1, <1>8, <1>10, <1>11, HitsMove

----------------------------------------------------------------------------
\* Whatever searches, errors and deaths meet, what a search knows of the indexes stays true.
THEOREM SearchInvariance == SearchSpec => []SearchInv
  <1>1. SearchInit => SearchInv
    <2> SUFFICES ASSUME SearchInit PROVE SearchInv
      OBVIOUS
    <2>1. SearchTypeOK
      BY SearchAssumption DEF SearchInit, SearchTypeOK, NoGeneration, NoSearch, PCs
    <2>2. ReadyIsSound
      BY DEF SearchInit, ReadyIsSound, Ready, NoGeneration
    <2>3. \A s \in Searchers : Knows(s)
      BY DEF SearchInit, Knows, SearchAt, NoSearch
    <2> QED
      BY <2>1, <2>2, <2>3 DEF SearchInv, IndexesAreSound
  <1>2. SearchInv /\ [SearchNext]_searchVars => SearchInv'
    <2> SUFFICES ASSUME SearchInv, [SearchNext]_searchVars PROVE SearchInv'
      OBVIOUS
    <2>1. ASSUME NEW s \in Searchers, NEW f \in Filters, List(s, f) PROVE SearchInv'
      BY <2>1, ListKeeps
    <2>2. ASSUME NEW s \in Searchers, SearchStep(s) PROVE SearchInv'
      BY <2>2, ReadManifestKeeps, WriteBuildingKeeps, UpsertKeeps, WriteManifestKeeps, LooksKeep,
         ResetKeeps, FillKeeps, ClearKeeps, MatchKeeps, ReadKeeps, DenseSearchKeeps,
         NoDenseSearchKeeps, AnswerKeeps DEF SearchStep
    <2>3. ASSUME NEW s \in Searchers, SyncRaises(s) \/ FillRaises(s) PROVE SearchInv'
      BY <2>3, LooksKeep
    <2>4. CASE SearchesDie
      BY <2>4, CrashKeeps
    <2>5. CASE UNCHANGED searchVars
      BY <2>5 DEF searchVars, indexes, SearchInv, IndexesAreSound, SearchTypeOK, ReadyIsSound, Ready, Knows, SearchAt, Wanted
    <2> QED
      BY <2>1, <2>2, <2>3, <2>4, <2>5 DEF SearchNext
  <1> QED
    BY <1>1, <1>2, PTL DEF SearchSpec

\* One full-text generation at most is ready, with all of its documents and no others, and a
\* ready manifest has its points: FTSGenerationStore.sync and VectorSyncService.sync, by any
\* number of searches at the same time.
THEOREM IndexesAreSoundTheorem == SearchSpec => []IndexesAreSound
  <1>1. SearchInv => IndexesAreSound
    BY DEF SearchInv
  <1> QED
    BY <1>1, SearchInvariance, PTL

\* RetrievalService.search answers nothing its filter shuts out, and, when it had the vectors, all of
\* it that its lists have room for.
THEOREM AnswersAreRightTheorem == SearchSpec => []AnswersAreRight
  <1>1. SearchInv => AnswersAreRight
    BY DEF SearchInv, Knows, AnswersAreRight, SearchAt
  <1> QED
    BY <1>1, SearchInvariance, PTL
=============================================================================
