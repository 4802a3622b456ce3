---------------------------- MODULE IndexVersions ----------------------------
(***************************************************************************)
(* Structured index versions of one repository: the version rows, their    *)
(* leases and artifacts, and the builds that publish them                  *)
(* (backend/app/persistence/index_store.py, indexing/index_service.py).    *)
(*                                                                         *)
(* A version is identified by the hash of its input.  A build takes the    *)
(* lease of its version once and never renews it, so a slow build outlives *)
(* its lease as a crashed one does.  Every transaction is a step.  What a  *)
(* build computes is whole or raises: validation and counts are in         *)
(* activate's transaction.                                                 *)
(***************************************************************************)
EXTENDS Naturals, FiniteSets

CONSTANTS Inputs, Builders,
          MaxRetries,   \* max_retries: of a version
          MaxRollbacks  \* bound: rollbacks

ASSUME IndexAssumption ==
    /\ IsFiniteSet(Inputs) /\ IsFiniteSet(Builders)
    /\ MaxRetries \in Nat /\ MaxRollbacks \in Nat
    /\ "none" \notin Inputs \cup Builders

VARIABLES version,   \* index_versions
          artifacts, \* the versions whose rows are stored
          pointer,   \* repositories.active_version_id
          build,     \* of each builder
          rollbacks  \* so far

vars == <<version, artifacts, pointer, build, rollbacks>>

None == "none"
Pending == {"building", "ready"}
Readable == {"active", "superseded"}
Statuses == Pending \cup Readable \cup {"absent", "failed"}

NoVersion == [status |-> "absent", retries |-> 0, owner |-> None, live |-> FALSE]
NoBuild == [pc |-> "idle", input |-> None]

Init ==
    /\ version = [i \in Inputs |-> NoVersion]
    /\ artifacts = {}
    /\ pointer = None
    /\ build = [b \in Builders |-> NoBuild]
    /\ rollbacks = 0

Status(i) == version[i].status
At(b, pc) == build[b].pc = pc
Input(b) == build[b].input
Becomes(b, pc, i) == build' = [build EXCEPT ![b] = [pc |-> pc, input |-> i]]
Goes(b, pc) == Becomes(b, pc, Input(b))
Ends(b) == build' = [build EXCEPT ![b] = NoBuild]

\* Nobody's any more.
Closed(v, status) == [v EXCEPT !.status = status, !.owner = None, !.live = FALSE]

----------------------------------------------------------------------------
\* begin_version.

Others(i) == {j \in Inputs \ {i} : Status(j) \in Pending}

\* Mutant: a version that is being built is taken over while its lease lives.
FreeAlways(i) == Status(i) # "absent"

\* The version may be built by somebody else now.
Free(i) == ~version[i].live

\* A new input takes the place of a build whose lease has run out.
Insert(b, i) ==
    /\ Status(i) = "absent"
    /\ \A j \in Others(i) : Free(j)
    /\ version' = [j \in Inputs |->
          IF j = i THEN [status |-> "building", retries |-> 0, owner |-> b, live |-> TRUE]
          ELSE IF j \in Others(i) THEN Closed(version[j], "failed")
          ELSE version[j]]
    /\ Becomes(b, "build", i)

Taken(v, b) == [status |-> "building", retries |-> v.retries + 1, owner |-> b, live |-> TRUE]

\* A version that has failed, or whose lease has run out, is built again; a build of another
\* version is in the way even when its lease has run out.
Resume(b, i) ==
    /\ Status(i) = "failed" \/ (Status(i) \in Pending /\ Free(i))
    /\ version[i].retries < MaxRetries
    /\ Others(i) = {}
    /\ version' = [version EXCEPT ![i] = Taken(@, b)]
    /\ Becomes(b, "build", i)

MayInsert(i) == Status(i) = "absent" /\ \A j \in Others(i) : Free(j)
MayResume(i) ==
    /\ Status(i) = "failed" \/ (Status(i) \in Pending /\ Free(i))
    /\ version[i].retries < MaxRetries /\ Others(i) = {}

\* A request that is not served: reused, superseded, given up after its retries, or busy.  Only
\* who finds the same input being built waits for it, and once.
Refuse(b, i, waits) ==
    /\ ~MayInsert(i) /\ ~MayResume(i)
    /\ UNCHANGED version
    /\ IF waits /\ Status(i) \in Pending /\ (~Free(i) \/ version[i].retries < MaxRetries)
       THEN Becomes(b, "wait", i)
       ELSE Ends(b)

Begin(b, i) ==
    /\ At(b, "idle")
    /\ Insert(b, i) \/ Resume(b, i) \/ Refuse(b, i, TRUE)
    /\ UNCHANGED <<artifacts, pointer, rollbacks>>

\* Mutant: who waits, waits for the version to be active.
EndWaitForActive(b) ==
    /\ At(b, "wait") /\ Status(Input(b)) = "active"
    /\ Ends(b)
    /\ UNCHANGED <<version, artifacts, pointer, rollbacks>>

\* The version is active by now, has failed and is begun again, or the deadline has passed.
EndWait(b) ==
    /\ At(b, "wait")
    /\ \/ Status(Input(b)) = "failed" /\ (Resume(b, Input(b)) \/ Refuse(b, Input(b), FALSE))
       \/ Ends(b) /\ UNCHANGED version
    /\ UNCHANGED <<artifacts, pointer, rollbacks>>

----------------------------------------------------------------------------
\* The build.

\* Nobody renews a lease.
Expire(i) ==
    /\ version[i].live
    /\ version' = [version EXCEPT ![i].live = FALSE]
    /\ UNCHANGED <<artifacts, pointer, build, rollbacks>>

Mine(b, status) == Status(Input(b)) = status /\ version[Input(b)].owner = b

MarkReady(b) ==
    /\ At(b, "build")
    /\ IF Mine(b, "building")
       THEN version' = [version EXCEPT ![Input(b)] = [@ EXCEPT !.status = "ready", !.live = TRUE]] /\ Goes(b, "ready")
       ELSE UNCHANGED version /\ Goes(b, "fail")
    /\ UNCHANGED <<artifacts, pointer, rollbacks>>

\* The active version is superseded, the new one is active, and the repository says so.
Publish(i) ==
    /\ version' = [j \in Inputs |->
          IF j = i THEN Closed(version[j], "active")
          ELSE IF Status(j) = "active" THEN [version[j] EXCEPT !.status = "superseded"]
          ELSE version[j]]
    /\ pointer' = i

MayActivate(b) == Mine(b, "ready")

Activate(b) ==
    /\ At(b, "ready")
    /\ IF MayActivate(b)
       THEN Publish(Input(b)) /\ artifacts' = artifacts \cup {Input(b)} /\ Ends(b)
       ELSE UNCHANGED <<version, artifacts, pointer>> /\ Goes(b, "fail")
    /\ UNCHANGED rollbacks

\* The build raises, between any two of its transactions.
Raise(b) ==
    /\ build[b].pc \in {"build", "ready"}
    /\ Goes(b, "fail")
    /\ UNCHANGED <<version, artifacts, pointer, rollbacks>>

\* Mutant: a failure takes a published version down.
FailsAlways(i) == Status(i) # "absent"

Fails(i) == Status(i) \in Pending

\* Whoever owns the version by now.
MarkFailed(b) ==
    /\ At(b, "fail")
    /\ version' = IF Fails(Input(b))
                  THEN [version EXCEPT ![Input(b)] = Closed(@, "failed")]
                  ELSE version
    /\ Ends(b)
    /\ UNCHANGED <<artifacts, pointer, rollbacks>>

Crash(b) ==
    /\ build[b].pc \in {"build", "ready", "fail"}
    /\ Ends(b)
    /\ UNCHANGED <<version, artifacts, pointer, rollbacks>>

\* Mutant: any version is rolled back to.
MayRollBackAlways(i) == Status(i) # "absent"

MayRollBack(i) == Status(i) \in Readable

Rollback(i) ==
    /\ MayRollBack(i)
    /\ rollbacks < MaxRollbacks
    /\ Publish(i)
    /\ rollbacks' = rollbacks + 1
    /\ UNCHANGED <<artifacts, build>>

----------------------------------------------------------------------------
BuildStep(b) == EndWait(b) \/ MarkReady(b) \/ Activate(b) \/ MarkFailed(b)

Next ==
    \/ \E b \in Builders, i \in Inputs : Begin(b, i)
    \/ \E b \in Builders : BuildStep(b) \/ Raise(b) \/ Crash(b)
    \/ \E i \in Inputs : Expire(i) \/ Rollback(i)

Spec == Init /\ [][Next]_vars

\* A build goes on until it is over.
FairSpec == Spec /\ \A b \in Builders : WF_vars(BuildStep(b))

----------------------------------------------------------------------------
Versions == [status : Statuses, retries : Nat, owner : Builders \cup {None}, live : BOOLEAN]
Builds == {NoBuild} \cup [pc : {"wait", "build", "ready", "fail"}, input : Inputs]

TypeOK ==
    /\ version \in [Inputs -> Versions]
    /\ artifacts \in SUBSET Inputs
    /\ pointer \in Inputs \cup {None}
    /\ build \in [Builders -> Builds]
    /\ rollbacks \in Nat

\* The repository names its active version, the only one.
OneActive == \A i \in Inputs : Status(i) = "active" <=> pointer = i

\* One version is being built, under a lease or after it.
OneBuild == \A i, j \in Inputs : Status(i) \in Pending /\ Status(j) \in Pending => i = j

\* What can be read is stored in full and is nobody's any more.
ReadableIsWhole == \A i \in Inputs : Status(i) \in Readable => i \in artifacts /\ version[i].owner = None

\* The types, and what retrieval reads, whatever slow or dead builds are left: the active version is the one
\* the repository names, readable versions are whole, and builds are one at a time.
PublishedSoundly == TypeOK /\ OneActive /\ OneBuild /\ ReadableIsWhole

\* A published version stays readable: no late build, failure or rollback takes one away, and a
\* repository that has an active version always has one.
PublishedStaysReadable ==
    [][/\ \A i \in Inputs : Status(i) \in Readable => version'[i].status \in Readable
       /\ pointer # None => pointer' # None]_vars

\* A build with a live lease keeps its version until it is over.  One build alone can take it
\* away: an earlier one of the same version, which lost its lease and now notes that it failed.
LiveLeaseIsKept ==
    [][\A i \in Inputs, b \in Builders :
          version[i].owner = b /\ version[i].live /\ version'[i].owner # b =>
             \/ build[b].input = i /\ build'[b] = NoBuild
             \/ \E c \in Builders : At(c, "fail") /\ Input(c) = i]_vars

\* Whoever waits for a build or builds gets an end.
EveryBuildEnds == \A b \in Builders : build[b].pc # "idle" ~> build[b].pc = "idle"
=============================================================================
