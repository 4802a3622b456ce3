------------------------ MODULE AlignmentRunsProofs ------------------------
(***************************************************************************)
(* What AlignmentRuns keeps for all coordinators, stages, runs and bounds: *)
(* one run is active and one of an input is published; and as long as no   *)
(* executor has outlived its lease, what is published was built in full    *)
(* and stays as it was reviewed, nothing is built that could not be        *)
(* published, and what is decided stays so.                                *)
(***************************************************************************)
EXTENDS AlignmentRuns, SequenceTheorems, FiniteSetTheorems, TLAPS

\* The steps behind extraction.
K == Len(Extraction)
Deciding == K + 2
Verifying == K + 3
Activating == K + 4

\* What the steps before step n have left: their output, and the decisions as they are by then.
Behind(r, n) ==
    /\ \A m \in 1..(K + 1) : m < n => Steps[m] \in saved[r]
    /\ n > Deciding => decisions[r] # "none"
    /\ n > Verifying => decisions[r] = IF row[r].verify THEN "verified" ELSE "scored"

\* The status of a run whose thread is in step n.
StatusAt(r, n) ==
    IF n = Deciding THEN "scoring"
    ELSE IF n = Activating THEN IF row[r].verify THEN "verifying" ELSE "scoring"
    ELSE Steps[n]

\* A run that is built goes on behind all it has left, and one that is published has left all.
Whole(r) ==
    /\ Extracted \cup {"scoring"} \subseteq saved[r]
    /\ decisions[r] = IF row[r].verify THEN "verified" ELSE "scored"

RunFits(r) ==
    /\ Status(r) = "absent" => decisions[r] = "none"
    /\ Status(r) \in Claimable => Behind(r, Position(Status(r)))
    /\ Status(r) = "verifying" \/ decisions[r] = "verified" => row[r].verify
    /\ Published(r) => Whole(r)

\* Of the runs of an input, all but the last have ended without success.
RetriedFits ==
    /\ \A r \in Runs : Status(r) # "absent" =>
          /\ row[r].input \in 1..r
          /\ \A s \in Runs : s < r => Status(s) # "absent"
    /\ \A r, s \in Runs : r < s /\ Status(s) # "absent" /\ row[r].input = row[s].input =>
          Status(r) \in {"failed", "cancelled"}

\* A thread that works holds the lease of its run, alive, and knows how far the run is.
Working == {"enter", "guard", "look", "save", "verdicts"}

ThreadFits(c) ==
    LET t == thread[c]
        r == t.run
    IN  /\ t.beats /\ t.watched /\ lease[r] = [token |-> t.token, live |-> TRUE]
        /\ t.pc # "leave" => Status(r) \in Claimable
        /\ t.pc = "first" => t.step = Position(Status(r))
        /\ t.pc \in Working => Behind(r, t.step)
        /\ t.pc = "enter" /\ t.step > K + 1 =>
              Status(r) = StatusAt(r, t.step) \/ (t.step = Verifying /\ Status(r) = "scoring")
        /\ t.pc \in Working \ {"enter"} => Status(r) = StatusAt(r, t.step)
        /\ t.pc \in {"first", "enter", "save", "verdicts", "drop", "fail", "note"} => t.from = Status(r)
        /\ t.pc \in {"guard", "look"} /\ t.step = Activating => t.from = Status(r)
        /\ t.pc = "verdicts" => t.step = Verifying /\ decisions[r] = "verified"

\* What holds as long as no executor has outlived its lease.
Calm ==
    /\ \A r \in Runs : RunFits(r)
    /\ RetriedFits
    /\ \A c \in Coordinators : Active(c) => ThreadFits(c)
    /\ \A c, d \in Coordinators : c # d /\ Active(c) /\ Active(d) => Run(c) # Run(d)

\* A thread has a run that was made, and leaves nothing behind when it is over; verdicts come after
\* verifying.
Clean == \A c \in Coordinators :
    IF Active(c)
    THEN /\ Run(c) \in Runs /\ Status(Run(c)) # "absent"
         /\ thread[c].pc = "verdicts" => thread[c].step = Verifying
    ELSE thread[c] = NoThread

\* One run is active, and one of an input is published.
Unique == \A r, s \in Runs : r # s =>
    /\ ~(Status(r) = "active" /\ Status(s) = "active")
    /\ row[r].input = row[s].input => ~(Published(r) /\ Published(s))

\* The inductive invariant.
IInv == TypeOK /\ Clean /\ Unique /\ (events.lapses = 0 => Calm)

----------------------------------------------------------------------------
\* The types, by name.
Rows == [status : Statuses, input : 0..MaxRuns, cancel : BOOLEAN, verify : BOOLEAN]
Leases == [token : Tokens, live : BOOLEAN]
Threads == [pc : PCs, run : 0..MaxRuns, token : Tokens, beats : BOOLEAN,
            watched : BOOLEAN, step : 1..Len(Steps), from : Statuses]
EventCounts == [lapses : 0..MaxEvents, faults : 0..MaxEvents]
Decisions == {"none", "scored", "verified"}

Typed ==
    /\ row \in [Runs -> Rows] /\ lease \in [Runs -> Leases] /\ saved \in [Runs -> SUBSET Stages]
    /\ decisions \in [Runs -> Decisions] /\ reviews \in [Runs -> 0..MaxReviews]
    /\ thread \in [Coordinators -> Threads] /\ up \in [Coordinators -> BOOLEAN]
    /\ cancelling \in SUBSET Runs /\ events \in EventCounts

LEMMA TypesNamed == TypeOK <=> Typed
BY DEF TypeOK, Typed, Rows, Leases, Threads, EventCounts, Decisions

\* The steps: those of extraction, then four.
ExtractionStages == {"profiling", "recalling", "featurizing"}
AllSteps == ExtractionStages \cup {"scoring", "deciding", "verifying", "activating"}

LEMMA StepsAre ==
    /\ K \in Nat /\ K >= 1 /\ Len(Steps) = K + 4
    /\ \A n \in 1..K : Steps[n] = Extraction[n] /\ Extraction[n] \in ExtractionStages
    /\ Steps[K + 1] = "scoring" /\ Steps[Deciding] = "deciding"
    /\ Steps[Verifying] = "verifying" /\ Steps[Activating] = "activating"
<1>. DEFINE tail == <<"scoring", "deciding", "verifying", "activating">>
<1>1. Extraction \in Seq(AllSteps) /\ Extraction \in Seq(ExtractionStages) /\ Extraction # <<>>
  BY AlignmentAssumption DEF AllSteps, ExtractionStages
<1>2. /\ tail \in Seq(AllSteps) /\ Len(tail) = 4
      /\ tail[1] = "scoring" /\ tail[2] = "deciding" /\ tail[3] = "verifying" /\ tail[4] = "activating"
  BY DEF AllSteps
<1>3. K \in Nat /\ K >= 1
  BY <1>1 DEF K
<1>. HIDE DEF tail
<1>4. /\ Len(Extraction \o tail) = Len(Extraction) + Len(tail)
      /\ \A i \in 1..Len(Extraction) + Len(tail) :
            (Extraction \o tail)[i] = IF i <= Len(Extraction) THEN Extraction[i] ELSE tail[i - Len(Extraction)]
  BY <1>1, <1>2, ConcatProperties
<1>5. Steps = Extraction \o tail
  BY DEF Steps, tail
<1>6. /\ Len(Steps) = K + 4
      /\ \A i \in 1..(K + 4) : Steps[i] = IF i <= K THEN Extraction[i] ELSE tail[i - K]
  BY <1>2, <1>4, <1>5 DEF K
<1>7. \A n \in 1..K : Extraction[n] \in ExtractionStages
  BY <1>1 DEF K
<1>8. \A n \in 1..K : n \in 1..(K + 4) /\ n <= K
  BY <1>3
<1>9. \A n \in 1..K : Steps[n] = Extraction[n]
  BY <1>6, <1>8
<1>10. Steps[K + 1] = tail[1] /\ Steps[K + 2] = tail[2] /\ Steps[K + 3] = tail[3] /\ Steps[K + 4] = tail[4]
  <2>1. ASSUME NEW j \in 1..4 PROVE Steps[K + j] = tail[j]
    <3>1. K + j \in 1..(K + 4) /\ ~(K + j <= K) /\ K + j - K = j
      BY <1>3
    <3>2. Steps[K + j] = tail[K + j - K]
      BY <1>3, <1>6, <3>1
    <3>. QED BY <3>1, <3>2
  <2>. QED BY <2>1
<1>. QED BY <1>2, <1>3, <1>6, <1>7, <1>9, <1>10 DEF Deciding, Verifying, Activating

\* No step comes twice.
LEMMA StepsDiffer ==
    ASSUME NEW m \in 1..(K + 4), NEW n \in 1..(K + 4), Steps[m] = Steps[n]
    PROVE  m = n
<1>1. \A i \in 1..(K + 4) : i \in 1..K \/ i = K + 1 \/ i = K + 2 \/ i = K + 3 \/ i = K + 4
  BY StepsAre
<1>2. \A i, j \in 1..K : Extraction[i] = Extraction[j] => i = j
  BY AlignmentAssumption DEF K
<1>. QED BY <1>1, <1>2, StepsAre DEF Deciding, Verifying, Activating, ExtractionStages

LEMMA StagesAre ==
    /\ Stages = {Steps[n] : n \in (1..(K + 1)) \cup {Verifying}}
    /\ Stages \subseteq ExtractionStages \cup {"scoring", "verifying"}
    /\ Extracted \cup {"scoring"} = {Steps[n] : n \in 1..(K + 1)}
<1>1. 1..(K + 1) = (1..K) \cup {K + 1}
  BY StepsAre
<1>2. Extracted = {Steps[n] : n \in 1..K} /\ Extracted \subseteq ExtractionStages
  BY StepsAre DEF Extracted, K
<1>3. Extracted \cup {"scoring"} = {Steps[n] : n \in 1..(K + 1)}
  BY <1>1, <1>2, StepsAre
<1>4. {Steps[n] : n \in (1..(K + 1)) \cup {Verifying}} = {Steps[n] : n \in 1..(K + 1)} \cup {"verifying"}
  BY StepsAre
<1>5. Stages = (Extracted \cup {"scoring"}) \cup {"verifying"}
  BY DEF Stages
<1>. QED BY <1>2, <1>3, <1>4, <1>5

\* Where a run goes on.
LEMMA PositionIs ==
    /\ Position("queued") = 1
    /\ \A s \in Terminal : Position(s) = Verifying
    /\ \A n \in (1..(K + 1)) \cup {Verifying} : Position(Steps[n]) = n
    /\ \A s \in Claimable \cup Terminal : Position(s) \in (1..(K + 1)) \cup {Verifying}
<1>1. Position("queued") = 1
  BY DEF Position, Terminal
<1>2. \A s \in Terminal : Position(s) = Verifying
  <2>1. K + 4 - 1 = K + 3
    BY StepsAre
  <2>. QED BY <2>1, StepsAre DEF Position, Terminal, Verifying
<1>3. ASSUME NEW n \in (1..(K + 1)) \cup {Verifying} PROVE Position(Steps[n]) = n
  <2>1. Steps[n] \in ExtractionStages \cup {"scoring", "verifying"}
    BY StagesAre
  <2>2. Position(Steps[n]) = CHOOSE m \in 1..Len(Steps) : Steps[m] = Steps[n]
    BY <2>1 DEF Position, Terminal, ExtractionStages
  <2>3. n \in 1..(K + 4) /\ 1..Len(Steps) = 1..(K + 4)
    BY StepsAre DEF Verifying
  <2>. QED BY <2>2, <2>3, StepsDiffer
<1>4. 1 \in 1..(K + 1)
  BY StepsAre
<1>5. \A s \in Claimable \cup Terminal : Position(s) \in (1..(K + 1)) \cup {Verifying}
  BY <1>1, <1>2, <1>3, <1>4, StagesAre DEF Claimable
<1>. QED BY <1>1, <1>2, <1>3, <1>5

\* The kinds of status are apart.
LEMMA StatusKinds ==
    /\ \A s \in Claimable : s \notin Terminal /\ s # "absent" /\ s \notin {"active", "superseded", "failed", "cancelled"}
    /\ Claimable \cup Terminal \cup {"absent"} = Statuses
    /\ Stages \subseteq Claimable /\ {"scoring", "verifying", "queued"} \subseteq Claimable
    /\ {"active", "superseded", "failed", "cancelled"} = Terminal
    /\ \A s \in Terminal : s # "absent"
BY StagesAre DEF Claimable, Terminal, Statuses, Stages, ExtractionStages

----------------------------------------------------------------------------
\* A token is always left for a claim: the other coordinators have one each at most, and the lease one.
LEMMA FreshTokenExists ==
    ASSUME Typed, Clean, NEW c \in Coordinators, NEW r \in Runs, ~Active(c)
    PROVE  FreshToken(r) \in Tokens
<1>. DEFINE N == Cardinality(Coordinators)
            New1 == 1..(N + 1)
            Unused(t) == t # lease[r].token /\ \A d \in Coordinators : t # thread[d].token
            Holder(t) == CHOOSE d \in Coordinators : t = thread[d].token
            user == [t \in New1 |-> IF t = lease[r].token THEN c ELSE Holder(t)]
<1>1. IsFiniteSet(Coordinators) /\ N \in Nat
  BY AlignmentAssumption, FS_CardinalityType
<1>2. IsFiniteSet(New1) /\ Cardinality(New1) = N + 1
  BY <1>1, FS_Interval, N + 1 \in Int, ~(1 > N + 1), (N + 1) - 1 + 1 = N + 1
<1>3. New1 \subseteq Tokens /\ 0 \notin New1
  BY <1>1 DEF Tokens
<1>4. SUFFICES ASSUME \A t \in New1 : ~Unused(t)
               PROVE  FALSE
  BY <1>3 DEF FreshToken
<1>5. \A t \in New1 : t # lease[r].token =>
          Holder(t) \in Coordinators \ {c} /\ t = thread[Holder(t)].token
  <2>. SUFFICES ASSUME NEW t \in New1, t # lease[r].token
                PROVE  Holder(t) \in Coordinators \ {c} /\ t = thread[Holder(t)].token
    OBVIOUS
  <2>1. PICK d \in Coordinators : t = thread[d].token
    BY <1>4
  <2>2. Holder(t) \in Coordinators /\ t = thread[Holder(t)].token
    BY <2>1
  <2>3. thread[c].token = 0
    BY DEF Clean, NoThread
  <2>. QED BY <1>3, <2>2, <2>3
<1>6. user \in [New1 -> Coordinators]
  BY <1>5
<1>7. PICK x, y \in New1 : x # y /\ user[x] = user[y]
  <2>1. Cardinality(Coordinators) < Cardinality(New1)
    BY <1>1, <1>2
  <2>. HIDE DEF user, N
  <2>. QED BY <1>1, <1>2, <1>6, <2>1, FS_PigeonHole, Zenon
<1>8. user[x] = (IF x = lease[r].token THEN c ELSE Holder(x))
  OBVIOUS
<1>9. user[y] = (IF y = lease[r].token THEN c ELSE Holder(y))
  OBVIOUS
<1>. QED BY <1>5, <1>7, <1>8, <1>9

----------------------------------------------------------------------------
\* What a step of another run leaves of run s: all of it, but that it may be superseded.
Kept(s) ==
    /\ saved'[s] = saved[s] /\ decisions'[s] = decisions[s]
    /\ row'[s].input = row[s].input /\ row'[s].verify = row[s].verify
    /\ \/ row'[s].status = row[s].status
       \/ row[s].status = "active" /\ row'[s].status = "superseded"

LEMMA KeptRun ==
    ASSUME NEW s \in Runs, RunFits(s), Kept(s)
    PROVE  RunFits(s)'
BY StatusKinds DEF RunFits, Kept, Status, Published, Whole, Behind

LEMMA KeptThread ==
    ASSUME NEW d \in Coordinators, ThreadFits(d), Kept(Run(d)),
           thread'[d] = thread[d], lease'[Run(d)] = lease[Run(d)]
    PROVE  ThreadFits(d)'
<1>1. PICK r : r = Run(d)
  OBVIOUS
<1>2. thread[d].run = r /\ thread'[d].run = r
  BY <1>1 DEF Run
<1>3. \A n : /\ Behind(r, n) => Behind(r, n)'
             /\ StatusAt(r, n)' = StatusAt(r, n)
  BY <1>1 DEF Kept, Behind, StatusAt
<1>4. thread[d].pc # "leave" => Status(r)' = Status(r)
  BY <1>1, <1>2, StatusKinds DEF ThreadFits, Kept, Status
<1>. QED BY <1>1, <1>2, <1>3, <1>4 DEF ThreadFits, Kept, Working

\* Runs that have ended without success stay so, and all inputs are as they were.
LEMMA RetriedStays ==
    ASSUME Typed, RetriedFits,
           \A s \in Runs : /\ row'[s].input = row[s].input
                           /\ row'[s].status = "absent" <=> row[s].status = "absent"
                           /\ row[s].status \in {"failed", "cancelled"} => row'[s].status = row[s].status
    PROVE  RetriedFits'
BY DEF RetriedFits, Status

\* A step of one thread and its run, and of runs it supersedes.
LEMMA CalmStep ==
    ASSUME Typed, Clean, Calm, NEW c \in Coordinators, NEW r \in Runs,
           \A s \in Runs \ {r} : Kept(s) /\ lease'[s] = lease[s],
           \A d \in Coordinators \ {c} : thread'[d] = thread[d] /\ (Active(d) => Run(d) # r),
           Active(c)' => Run(c)' = r /\ ThreadFits(c)',
           RunFits(r)', row'[r].input = row[r].input,
           row[r].status # "absent", row'[r].status # "absent",
           row[r].status \in {"failed", "cancelled"} => row'[r].status = row[r].status
    PROVE  Calm'
<1>1. \A s \in Runs : RunFits(s)'
  BY KeptRun DEF Calm
<1>2. RetriedFits'
  <2>1. \A s \in Runs : /\ row'[s].input = row[s].input
                        /\ row'[s].status = "absent" <=> row[s].status = "absent"
                        /\ row[s].status \in {"failed", "cancelled"} => row'[s].status = row[s].status
    BY DEF Kept
  <2>. QED BY <2>1, RetriedStays DEF Calm
<1>3. ASSUME NEW d \in Coordinators, Active(d)' PROVE ThreadFits(d)'
  <2>1. CASE d = c
    BY <1>3, <2>1
  <2>2. CASE d # c
    <3>1. Active(d) /\ Run(d) \in Runs \ {r}
      BY <1>3, <2>2 DEF Active, Clean
    <3>. QED BY <2>2, <3>1, KeptThread DEF Calm
  <2>. QED BY <2>1, <2>2
<1>4. ASSUME NEW d \in Coordinators, NEW e \in Coordinators, d # e, Active(d)', Active(e)'
      PROVE  Run(d)' # Run(e)'
  BY <1>4 DEF Calm, Active, Run
<1>. QED BY <1>1, <1>2, <1>3, <1>4 DEF Calm

\* Threads and runs that stay as they are, but for flags of a cancellation.
LEMMA CalmStays ==
    ASSUME Typed, Clean, Calm, UNCHANGED <<lease, saved, decisions, thread>>,
           \A s \in Runs : Kept(s) /\ row'[s].status = row[s].status
    PROVE  Calm'
<1>1. \A s \in Runs : RunFits(s)'
  BY KeptRun DEF Calm
<1>2. RetriedFits'
  <2>1. \A s \in Runs : row'[s].input = row[s].input
    BY DEF Kept
  <2>. QED BY <2>1, RetriedStays DEF Calm
<1>3. ASSUME NEW d \in Coordinators, Active(d)' PROVE ThreadFits(d)'
  <2>1. Active(d) /\ Run(d) \in Runs
    BY <1>3 DEF Active, Clean
  <2>. QED BY <2>1, KeptThread DEF Calm
<1>. QED BY <1>1, <1>2, <1>3 DEF Calm, Active, Run

\* The parts of the invariant that hold in any case, after a step of one thread.
LEMMA CleanStep ==
    ASSUME Typed, Clean, NEW c \in Coordinators, NEW new \in Threads,
           thread' = [thread EXCEPT ![c] = new],
           new.pc = "verdicts" => new.step = Verifying,
           new = NoThread \/ (new.pc # "none" /\ new.run \in Runs /\ Status(new.run) # "absent"),
           \A s \in Runs : Status(s) # "absent" => row'[s].status # "absent"
    PROVE  /\ thread' \in [Coordinators -> Threads] /\ Clean'
           /\ thread'[c] = new /\ \A d \in Coordinators \ {c} : thread'[d] = thread[d]
<1>1. /\ thread' \in [Coordinators -> Threads]
      /\ thread'[c] = new /\ \A d \in Coordinators \ {c} : thread'[d] = thread[d]
  BY DEF Typed
<1>2. Clean'
  <2>. SUFFICES ASSUME NEW d \in Coordinators
                PROVE  IF Active(d)'
                       THEN /\ Run(d)' \in Runs /\ Status(Run(d))' # "absent"
                            /\ thread'[d].pc = "verdicts" => thread'[d].step = Verifying
                       ELSE thread'[d] = NoThread
    BY DEF Clean
  <2>1. CASE d = c
    BY <1>1, <2>1 DEF Active, Run, Status, NoThread
  <2>2. CASE d # c
    BY <1>1, <2>2 DEF Active, Run, Status, Clean
  <2>. QED BY <2>1, <2>2
<1>. QED BY <1>1, <1>2

LEMMA NoThreadTyped == NoThread \in Threads /\ NoThread.pc = "none" /\ NoThread.run = 0 /\ NoThread.token = 0
<1>1. 1 \in 1..Len(Steps) /\ 0 \in 0..MaxRuns /\ 0 \in Tokens
  BY StepsAre, AlignmentAssumption, FS_CardinalityType DEF Tokens
<1>. QED BY <1>1 DEF NoThread, Threads, PCs, Statuses

LEMMA EventsCount ==
    ASSUME Typed
    PROVE  /\ Fault => events' \in EventCounts /\ events'.lapses = events.lapses
           /\ Lapse => events' \in EventCounts /\ events'.lapses # 0
BY AlignmentAssumption DEF Typed, EventCounts, Fault, Lapse

LEMMA NothingPublished ==
    ASSUME Unique, \A s \in Runs : row'[s].status \in {"active", "superseded"} =>
                                       row'[s].status = row[s].status /\ row'[s].input = row[s].input
    PROVE  Unique'
BY DEF Unique, Published, Status

----------------------------------------------------------------------------
\* Any step of a thread.
LEMMA AnyStep ==
    ASSUME IInv, NEW c \in Coordinators, NEW r \in Runs, Active(c), Run(c) = r, NEW new \in Threads,
           thread' = [thread EXCEPT ![c] = new], new = NoThread \/ (new.pc # "none" /\ new.run = r),
           new.pc = "verdicts" => new.step = Verifying,
           row' \in [Runs -> Rows], lease' \in [Runs -> Leases], saved' \in [Runs -> SUBSET Stages],
           decisions' \in [Runs -> Decisions], reviews' \in [Runs -> 0..MaxReviews],
           UNCHANGED <<up, cancelling>>, events' \in EventCounts, events'.lapses = 0 => events.lapses = 0,
           \A s \in Runs \ {r} : Kept(s) /\ lease'[s] = lease[s],
           row'[r].input = row[r].input, row'[r].status # "absent", Unique',
           Calm => /\ new # NoThread => ThreadFits(c)'
                   /\ RunFits(r)'
                   /\ row[r].status \in {"failed", "cancelled"} => row'[r].status = row[r].status
    PROVE  IInv'
<1>1. Typed /\ Clean /\ row[r].status # "absent"
  BY TypesNamed DEF IInv, Clean, Status
<1>2. \A s \in Runs : Status(s) # "absent" => row'[s].status # "absent"
  BY DEF Kept, Status
<1>3. /\ thread' \in [Coordinators -> Threads] /\ Clean' /\ thread'[c] = new
      /\ \A d \in Coordinators \ {c} : thread'[d] = thread[d]
  BY <1>1, <1>2, CleanStep DEF Status
<1>4. Typed'
  BY <1>1, <1>3 DEF Typed
<1>5. ASSUME events'.lapses = 0 PROVE Calm'
  <2>1. Calm
    BY <1>5 DEF IInv
  <2>2. \A d \in Coordinators \ {c} : Active(d) => Run(d) # r
    BY <2>1 DEF Calm
  <2>3. Active(c)' => Run(c)' = r /\ ThreadFits(c)'
    BY <1>3, <2>1, NoThreadTyped DEF Active, Run
  <2>. QED BY <1>1, <1>3, <2>1, <2>2, <2>3, CalmStep
<1>6. TypeOK'
  BY <1>4 DEF Typed, TypeOK, Rows, Leases, Threads, EventCounts, Decisions
<1>. QED BY <1>3, <1>5, <1>6 DEF IInv

\* A step of a thread that writes no table.
LEMMA ThreadOnly ==
    ASSUME IInv, NEW c \in Coordinators, NEW r \in Runs, Active(c), Run(c) = r, NEW new \in Threads,
           thread' = [thread EXCEPT ![c] = new], new.pc # "none", new.run = r,
           new.pc = "verdicts" => new.step = Verifying,
           UNCHANGED <<tables, up, cancelling>>, events' = events \/ Fault,
           Calm => ThreadFits(c)'
    PROVE  IInv'
<1>1. Typed /\ row[r].status # "absent"
  BY TypesNamed DEF IInv, Clean, Status
<1>2. events' \in EventCounts /\ events'.lapses = events.lapses
  BY <1>1, EventsCount DEF Typed
<1>3. UNCHANGED <<row, lease, saved, decisions, reviews>>
  BY DEF tables
<1>4. /\ row' \in [Runs -> Rows] /\ lease' \in [Runs -> Leases] /\ saved' \in [Runs -> SUBSET Stages]
      /\ decisions' \in [Runs -> Decisions] /\ reviews' \in [Runs -> 0..MaxReviews]
  BY <1>1, <1>3 DEF Typed
<1>5. \A s \in Runs : Kept(s) /\ lease'[s] = lease[s] /\ row'[s] = row[s]
  BY <1>3 DEF Kept
<1>6. Unique'
  BY <1>5, NothingPublished DEF IInv
<1>7. Calm => RunFits(r)'
  BY <1>5, KeptRun DEF Calm
<1>. QED BY <1>1, <1>2, <1>3, <1>4, <1>5, <1>6, <1>7, AnyStep

\* A thread at work, and its run.
LEMMA AtWork ==
    ASSUME IInv, NEW c \in Coordinators, thread[c].pc # "none"
    PROVE  /\ Typed /\ Active(c) /\ Run(c) \in Runs /\ thread[c].run = Run(c)
           /\ thread[c] \in Threads /\ Status(Run(c)) # "absent" /\ Status(Run(c)) \in Statuses
           /\ row[Run(c)] \in Rows
           /\ Calm => ThreadFits(c) /\ RunFits(Run(c))
BY TypesNamed DEF IInv, Active, Run, Clean, Typed, Status, Rows, Calm

LEMMA OpenKeeps ==
    ASSUME IInv, NEW c \in Coordinators, Open(c)
    PROVE  IInv'
<1>1. PICK r \in Runs : r = Run(c)
  BY AtWork DEF Open
<1>2. PICK new : new = [thread[c] EXCEPT
              !.from = Status(r),
              !.pc   = IF row[r].cancel THEN "drop" ELSE "first",
              !.step = Position(Status(r))]
  OBVIOUS
<1>3. /\ thread' = [thread EXCEPT ![c] = new] /\ UNCHANGED <<tables, up, cancelling, events>>
      /\ thread[c].pc = "open"
  BY <1>1, <1>2 DEF Open, Becomes
<1>4. /\ Typed /\ Active(c) /\ Run(c) = r /\ thread[c].run = r /\ thread[c] \in Threads
      /\ Status(r) # "absent" /\ Status(r) \in Statuses /\ (Calm => ThreadFits(c) /\ RunFits(r))
  BY <1>1, <1>3, AtWork
<1>5. Position(Status(r)) \in 1..Len(Steps)
  BY <1>4, PositionIs, StatusKinds, StepsAre DEF Verifying
<1>6. /\ new \in Threads /\ new.from = Status(r) /\ new.step = Position(Status(r)) /\ new.pc \in {"drop", "first"}
      /\ new.run = r /\ new.token = thread[c].token /\ new.beats = thread[c].beats /\ new.watched = thread[c].watched
  BY <1>2, <1>4, <1>5 DEF Threads, PCs
<1>7. ASSUME Calm PROVE ThreadFits(c)'
  <2>1. thread'[c] = new /\ row' = row /\ lease' = lease /\ saved' = saved /\ decisions' = decisions
    BY <1>3, <1>4 DEF Typed, tables
  <2>2. ThreadFits(c)
    BY <1>4, <1>7
  <2>. QED BY <1>3, <1>4, <1>6, <2>1, <2>2 DEF ThreadFits, Working, Status
<1>. QED BY <1>3, <1>4, <1>6, <1>7, ThreadOnly

LEMMA GuardLeaseKeeps ==
    ASSUME IInv, NEW c \in Coordinators, GuardLease(c)
    PROVE  IInv'
<1>1. PICK r \in Runs : r = Run(c)
  BY AtWork DEF GuardLease
<1>2. PICK pc \in {"leave", "enter", "look"} :
          /\ thread' = [thread EXCEPT ![c] = [thread[c] EXCEPT !.pc = pc]]
          /\ pc = "enter" => thread[c].pc = "first"
          /\ pc = "look" => thread[c].pc = "guard"
  <2>1. PICK pc : pc = CASE ~KeepsLease(c)         -> "leave"
                         [] thread[c].pc = "first" -> "enter"
                         [] OTHER                  -> "look"
    OBVIOUS
  <2>2. thread' = [thread EXCEPT ![c] = [thread[c] EXCEPT !.pc = pc]] /\ thread[c].pc \in {"first", "guard"}
    BY <2>1 DEF GuardLease, Goes, Becomes
  <2>3. pc = "leave" \/ (pc = "enter" /\ thread[c].pc = "first") \/ (pc = "look" /\ thread[c].pc = "guard")
    BY <2>1, <2>2
  <2>. QED BY <2>2, <2>3
<1>3. PICK new : new = [thread[c] EXCEPT !.pc = pc]
  OBVIOUS
<1>4. UNCHANGED <<tables, up, cancelling, events>> /\ thread[c].pc \in {"first", "guard"}
  BY DEF GuardLease
<1>5. /\ Typed /\ Active(c) /\ Run(c) = r /\ thread[c].run = r /\ thread[c] \in Threads
      /\ (Calm => ThreadFits(c) /\ RunFits(r))
  BY <1>1, <1>4, AtWork
<1>6. /\ new \in Threads /\ new.pc = pc /\ new.from = thread[c].from /\ new.step = thread[c].step
      /\ new.run = r /\ new.token = thread[c].token /\ new.beats = thread[c].beats /\ new.watched = thread[c].watched
  BY <1>3, <1>5 DEF Threads, PCs
<1>7. ASSUME Calm PROVE ThreadFits(c)'
  <2>1. thread'[c] = new /\ row' = row /\ lease' = lease /\ saved' = saved /\ decisions' = decisions
    BY <1>2, <1>3, <1>4, <1>5 DEF Typed, tables
  <2>2. ThreadFits(c) /\ RunFits(r)
    BY <1>5, <1>7
  <2>3. /\ Behind(r, new.step)' = Behind(r, new.step) /\ StatusAt(r, new.step)' = StatusAt(r, new.step)
        /\ Status(r)' = Status(r)
    BY <2>1 DEF Behind, StatusAt, Status
  <2>4. pc = "enter" => Behind(r, new.step) /\ (new.step > K + 1 => Status(r) = StatusAt(r, new.step))
    <3>. SUFFICES ASSUME pc = "enter" PROVE Behind(r, new.step) /\ (new.step > K + 1 => Status(r) = StatusAt(r, new.step))
      OBVIOUS
    <3>1. Status(r) \in Claimable /\ new.step = Position(Status(r))
      BY <1>2, <1>5, <1>6, <2>2 DEF ThreadFits
    <3>2. new.step > K + 1 => Status(r) = "verifying" /\ new.step = Verifying
      BY <3>1, PositionIs, StepsAre, StagesAre DEF Claimable, Verifying
    <3>3. StatusAt(r, Verifying) = "verifying"
      BY StepsAre DEF StatusAt, Verifying, Deciding, Activating
    <3>. QED BY <2>2, <3>1, <3>2, <3>3 DEF RunFits
  <2>. QED BY <1>2, <1>4, <1>5, <1>6, <2>1, <2>2, <2>3, <2>4 DEF ThreadFits, Working
<1>. QED BY <1>2, <1>3, <1>4, <1>5, <1>6, <1>7, ThreadOnly

\* Which step is which.
LEMMA StepKinds ==
    ASSUME NEW n \in 1..Len(Steps)
    PROVE  /\ n \in 1..(K + 1) \/ n = Deciding \/ n = Verifying \/ n = Activating
           /\ Steps[n] = "deciding" <=> n = Deciding
           /\ Steps[n] = "verifying" <=> n = Verifying
           /\ Steps[n] = "activating" <=> n = Activating
           /\ n \in 1..(K + 1) => /\ Steps[n] \in Stages \ {"verifying"}
                                  /\ n # Deciding /\ n # Verifying /\ n # Activating
<1>1. n \in 1..K \/ n = K + 1 \/ n = Deciding \/ n = Verifying \/ n = Activating
  BY StepsAre DEF Deciding, Verifying, Activating
<1>2. n \in 1..K => Steps[n] \in ExtractionStages
  BY StepsAre
<1>3. n \in 1..(K + 1) => n # Deciding /\ n # Verifying /\ n # Activating /\ (n \in 1..K \/ n = K + 1)
  BY StepsAre DEF Deciding, Verifying, Activating
<1>4. n \in 1..(K + 1) => Steps[n] \in Stages
  BY StagesAre
<1>5. K + 1 \in 1..(K + 1) /\ 1..K \subseteq 1..(K + 1)
  BY StepsAre
<1>. QED BY <1>1, <1>2, <1>3, <1>4, <1>5, StepsAre DEF ExtractionStages

LEMMA GuardCancelKeeps ==
    ASSUME IInv, NEW c \in Coordinators, GuardCancel(c)
    PROVE  IInv'
<1>1. PICK r \in Runs : r = Run(c)
  BY AtWork DEF GuardCancel
<1>2. PICK from : from = StatusIn(c)
  OBVIOUS
<1>3. PICK new : new = [thread[c] EXCEPT !.pc = IF Flagged(r) THEN "drop" ELSE "save", !.from = from]
  OBVIOUS
<1>4. /\ thread' = [thread EXCEPT ![c] = new] /\ UNCHANGED <<tables, up, cancelling, events>>
      /\ thread[c].pc = "look"
  BY <1>1, <1>2, <1>3 DEF GuardCancel, Becomes
<1>5. /\ Typed /\ Active(c) /\ Run(c) = r /\ thread[c].run = r /\ thread[c] \in Threads /\ row[r] \in Rows
      /\ (Calm => ThreadFits(c) /\ RunFits(r))
  BY <1>1, <1>4, AtWork
<1>6. PICK n \in 1..Len(Steps) : n = thread[c].step
  BY <1>5 DEF Threads
<1>7. from = IF n = Deciding THEN "scoring"
             ELSE IF n = Activating THEN IF row[r].verify THEN "verifying" ELSE thread[c].from
             ELSE Steps[n]
  <2>1. Step(c) = Steps[n]
    BY <1>6 DEF Step
  <2>2. Deciding # Activating
    BY StepsAre DEF Deciding, Activating
  <2>. QED BY <1>1, <1>2, <2>1, <2>2, StepKinds DEF StatusIn
<1>8. from \in Statuses
  BY <1>5, <1>6, <1>7, StepKinds, StatusKinds, StagesAre DEF Threads, Statuses, Claimable, Stages
<1>9. /\ new \in Threads /\ new.pc \in {"drop", "save"} /\ new.from = from /\ new.step = n
      /\ new.run = r /\ new.token = thread[c].token /\ new.beats = thread[c].beats /\ new.watched = thread[c].watched
  BY <1>3, <1>5, <1>6, <1>8 DEF Threads, PCs
<1>10. ASSUME Calm PROVE ThreadFits(c)'
  <2>1. thread'[c] = new /\ row' = row /\ lease' = lease /\ saved' = saved /\ decisions' = decisions
    BY <1>4, <1>5 DEF Typed, tables
  <2>2. ThreadFits(c)
    BY <1>5, <1>10
  <2>3. Behind(r, n)' = Behind(r, n) /\ StatusAt(r, n)' = StatusAt(r, n) /\ Status(r)' = Status(r)
    BY <2>1 DEF Behind, StatusAt, Status
  <2>4. Behind(r, n) /\ Status(r) = StatusAt(r, n) /\ (n = Activating => thread[c].from = Status(r))
    BY <1>4, <1>5, <1>6, <2>2 DEF ThreadFits, Working
  <2>5. from = Status(r)
    BY <1>7, <2>4 DEF StatusAt
  <2>. QED BY <1>4, <1>5, <1>9, <2>1, <2>2, <2>3, <2>4, <2>5 DEF ThreadFits, Working
<1>. QED BY <1>4, <1>5, <1>9, <1>10, ThreadOnly

\* A thread that raises, or looks at what to note of it.
LEMMA RaisingKeeps ==
    ASSUME IInv, NEW c \in Coordinators, Raise(c) \/ ReadToFail(c)
    PROVE  IInv'
<1>1. thread[c].pc # "none" /\ thread[c].pc # "leave"
  BY DEF Raise, ReadToFail
<1>2. PICK r \in Runs : r = Run(c)
  BY <1>1, AtWork
<1>3. /\ Typed /\ Active(c) /\ Run(c) = r /\ thread[c].run = r /\ thread[c] \in Threads
      /\ Status(r) \in Statuses /\ (Calm => ThreadFits(c) /\ RunFits(r))
  BY <1>1, <1>2, AtWork
<1>4. PICK pc \in {"raised", "fail", "note", "leave"}, from \in Statuses :
          /\ thread' = [thread EXCEPT ![c] = [thread[c] EXCEPT !.pc = pc, !.from = from]]
          /\ pc \in {"fail", "note"} => from = Status(r)
  <2>1. CASE Raise(c)
    <3>1. thread' = [thread EXCEPT ![c] = [thread[c] EXCEPT !.pc = "raised"]]
      BY <2>1 DEF Raise, Goes, Becomes
    <3>2. [thread[c] EXCEPT !.pc = "raised"] = [thread[c] EXCEPT !.pc = "raised", !.from = thread[c].from]
      BY <1>3 DEF Threads
    <3>3. thread[c].from \in Statuses
      BY <1>3 DEF Threads
    <3>. QED BY <3>1, <3>2, <3>3
  <2>2. CASE ReadToFail(c)
    BY <1>2, <1>3, <2>2 DEF ReadToFail, Becomes
  <2>. QED BY <2>1, <2>2
<1>5. PICK new : new = [thread[c] EXCEPT !.pc = pc, !.from = from]
  OBVIOUS
<1>6. UNCHANGED <<tables, up, cancelling>> /\ (events' = events \/ Fault)
  BY DEF Raise, ReadToFail
<1>7. /\ new \in Threads /\ new.pc = pc /\ new.from = from
      /\ new.run = r /\ new.token = thread[c].token /\ new.beats = thread[c].beats /\ new.watched = thread[c].watched
  BY <1>3, <1>5 DEF Threads, PCs
<1>8. ASSUME Calm PROVE ThreadFits(c)'
  <2>1. thread'[c] = new /\ row' = row /\ lease' = lease /\ saved' = saved /\ decisions' = decisions
    BY <1>3, <1>4, <1>5, <1>6 DEF Typed, tables
  <2>2. ThreadFits(c)
    BY <1>3, <1>8
  <2>. QED BY <1>1, <1>3, <1>4, <1>7, <2>1, <2>2 DEF ThreadFits, Working, Status
<1>. QED BY <1>3, <1>4, <1>5, <1>6, <1>7, <1>8, ThreadOnly

----------------------------------------------------------------------------
\* A thread writes the status of its run, at most.
LEMMA StatusWrites ==
    ASSUME IInv, NEW c \in Coordinators, NEW r \in Runs, Active(c), Run(c) = r, NEW new \in Threads,
           thread' = [thread EXCEPT ![c] = new], new.pc # "none", new.run = r,
           new.pc = "verdicts" => new.step = Verifying,
           NEW to \in Claimable \cup {"failed", "cancelled"},
           row' = [row EXCEPT ![r].status = to] \/ row' = row,
           UNCHANGED <<lease, saved, decisions, reviews, up, cancelling, events>>,
           Calm => /\ ThreadFits(c)'
                   /\ RunFits(r)'
                   /\ row[r].status \in {"failed", "cancelled"} => row'[r].status = row[r].status
    PROVE  IInv'
<1>1. Typed /\ row[r].status # "absent" /\ Unique
  BY TypesNamed DEF IInv, Clean, Status
<1>2. to \in Statuses /\ to \notin {"active", "superseded", "absent"}
  BY StatusKinds
<1>3. /\ row' \in [Runs -> Rows]
      /\ \A s \in Runs \ {r} : row'[s] = row[s]
      /\ row'[r].input = row[r].input
      /\ row'[r].status = to \/ row'[r].status = row[r].status
  <2>1. CASE row' = row
    BY <1>1, <2>1 DEF Typed
  <2>2. CASE row' = [row EXCEPT ![r].status = to]
    <3>1. PICK new2 : new2 = [row[r] EXCEPT !.status = to]
      OBVIOUS
    <3>2. new2 \in Rows /\ new2.input = row[r].input /\ new2.status = to
      BY <1>1, <1>2, <3>1 DEF Typed, Rows
    <3>3. row' = [row EXCEPT ![r] = new2]
      BY <2>2, <3>1
    <3>. QED BY <1>1, <3>2, <3>3 DEF Typed
  <2>. QED BY <2>1, <2>2
<1>4. \A s \in Runs \ {r} : Kept(s) /\ lease'[s] = lease[s]
  BY <1>3 DEF Kept
<1>5. Unique'
  BY <1>1, <1>2, <1>3, NothingPublished
<1>6. /\ lease' \in [Runs -> Leases] /\ saved' \in [Runs -> SUBSET Stages]
      /\ decisions' \in [Runs -> Decisions] /\ reviews' \in [Runs -> 0..MaxReviews] /\ events' \in EventCounts
  BY <1>1 DEF Typed
<1>. QED BY <1>1, <1>2, <1>3, <1>4, <1>5, <1>6, AnyStep

\* A run that ends without success, as its thread leaves it or is refused.
LEMMA EndKeeps ==
    ASSUME IInv, NEW c \in Coordinators, Drop(c) \/ Fail(c)
    PROVE  IInv'
<1>1. thread[c].pc \in {"drop", "fail", "note"}
  BY DEF Drop, Fail
<1>2. PICK r \in Runs : r = Run(c)
  BY <1>1, AtWork
<1>3. /\ Typed /\ Active(c) /\ Run(c) = r /\ thread[c].run = r /\ thread[c] \in Threads
      /\ (Calm => ThreadFits(c) /\ RunFits(r))
  BY <1>1, <1>2, AtWork
<1>4. PICK to \in {"failed", "cancelled"}, pc \in {"leave", "refused"} :
          /\ thread' = [thread EXCEPT ![c] = [thread[c] EXCEPT !.pc = pc]]
          /\ \/ row' = [row EXCEPT ![r].status = to] /\ pc = "leave"
             \/ row' = row /\ Status(r) # thread[c].from
  BY <1>2 DEF Drop, Fail, Moves, Goes, Becomes
<1>5. PICK new : new = [thread[c] EXCEPT !.pc = pc]
  OBVIOUS
<1>6. UNCHANGED <<lease, saved, decisions, reviews, up, cancelling, events>>
  BY DEF Drop, Fail
<1>7. /\ new \in Threads /\ new.pc = pc /\ new.run = r /\ new.token = thread[c].token
      /\ new.beats = thread[c].beats /\ new.watched = thread[c].watched
  BY <1>3, <1>5 DEF Threads, PCs
<1>8. ASSUME Calm
      PROVE  /\ ThreadFits(c)' /\ RunFits(r)'
             /\ row[r].status \in {"failed", "cancelled"} => row'[r].status = row[r].status
  <2>1. ThreadFits(c) /\ RunFits(r)
    BY <1>3, <1>8
  <2>2. Status(r) = thread[c].from /\ Status(r) \in Claimable
    BY <1>1, <1>3, <2>1 DEF ThreadFits
  <2>3. thread'[c] = new /\ row'[r].status = to /\ row'[r].verify = row[r].verify
    BY <1>3, <1>4, <1>5, <2>2 DEF Typed, Rows
  <2>4. RunFits(r)'
    BY <1>6, <2>1, <2>3, StatusKinds DEF RunFits, Status, Published, Whole
  <2>5. pc = "leave"
    BY <1>4, <2>2
  <2>. QED BY <1>1, <1>3, <1>6, <1>7, <2>1, <2>2, <2>3, <2>4, <2>5, StatusKinds DEF ThreadFits, Working, Status
<1>9. /\ thread' = [thread EXCEPT ![c] = new] /\ new.pc # "none" /\ new.pc # "verdicts"
      /\ row' = [row EXCEPT ![r].status = to] \/ row' = row
      /\ to \in Claimable \cup {"failed", "cancelled"}
  BY <1>4, <1>5, <1>7
<1>10. Active(c) /\ Run(c) = r /\ new \in Threads /\ new.run = r
  BY <1>3, <1>7
<1>. QED BY <1>6, <1>8, <1>9, <1>10, StatusWrites

\* A stage begins; deciding and activating go on in the status there is.
LEMMA EnterOnly ==
    ASSUME IInv, NEW c \in Coordinators, Enter(c), UNCHANGED row,
           \/ Step(c) \in {"deciding", "activating"} /\ Goes(c, "guard")
           \/ /\ Step(c) = "verifying" /\ ~row[Run(c)].verify
              /\ Becomes(c, [thread[c] EXCEPT !.step = @ + 1])
    PROVE  IInv'
<1>1. PICK r \in Runs : r = Run(c)
  BY AtWork DEF Enter
<1>2. thread[c].pc = "enter" /\ UNCHANGED <<tables, up, cancelling, events>>
  BY DEF Enter, tables
<1>3. /\ Typed /\ Active(c) /\ Run(c) = r /\ thread[c].run = r /\ thread[c] \in Threads
      /\ (Calm => ThreadFits(c) /\ RunFits(r))
  BY <1>1, <1>2, AtWork
<1>4. PICK n \in 1..Len(Steps) : n = thread[c].step
  BY <1>3 DEF Threads
<1>5. PICK pc \in {"enter", "guard"}, m \in 1..Len(Steps) :
          /\ thread' = [thread EXCEPT ![c] = [thread[c] EXCEPT !.pc = pc, !.step = m]]
          /\ \/ pc = "guard" /\ m = n /\ n \in {Deciding, Activating}
             \/ pc = "enter" /\ m = Activating /\ n = Verifying /\ ~row[r].verify
  <2>1. Step(c) = Steps[n]
    BY <1>4 DEF Step
  <2>2. CASE Step(c) \in {"deciding", "activating"} /\ Goes(c, "guard")
    <3>1. n \in {Deciding, Activating}
      BY <2>1, <2>2, StepKinds
    <3>2. [thread[c] EXCEPT !.pc = "guard"] = [thread[c] EXCEPT !.pc = "guard", !.step = n]
      BY <1>3, <1>4 DEF Threads
    <3>. QED BY <2>2, <3>1, <3>2 DEF Goes, Becomes
  <2>3. CASE Step(c) = "verifying" /\ ~row[Run(c)].verify /\ Becomes(c, [thread[c] EXCEPT !.step = @ + 1])
    <3>0. K + 3 + 1 = K + 4 /\ K + 4 \in 1..(K + 4)
      BY StepsAre
    <3>1. n = Verifying /\ n + 1 = Activating /\ Activating \in 1..Len(Steps)
      BY <2>1, <2>3, <3>0, StepKinds, StepsAre DEF Verifying, Activating
    <3>2. [thread[c] EXCEPT !.step = n + 1] = [thread[c] EXCEPT !.pc = "enter", !.step = Activating]
      BY <1>2, <1>3, <3>1 DEF Threads
    <3>. QED BY <1>3, <1>4, <2>3, <3>1, <3>2 DEF Becomes
  <2>. QED BY <2>2, <2>3
<1>6. PICK new : new = [thread[c] EXCEPT !.pc = pc, !.step = m]
  OBVIOUS
<1>7. /\ new \in Threads /\ new.pc = pc /\ new.step = m /\ new.from = thread[c].from
      /\ new.run = r /\ new.token = thread[c].token /\ new.beats = thread[c].beats /\ new.watched = thread[c].watched
  BY <1>3, <1>6 DEF Threads, PCs
<1>8. ASSUME Calm PROVE ThreadFits(c)'
  <2>1. thread'[c] = new /\ row' = row /\ lease' = lease /\ saved' = saved /\ decisions' = decisions
    BY <1>2, <1>3, <1>5, <1>6 DEF Typed, tables
  <2>2. ThreadFits(c) /\ RunFits(r) /\ decisions[r] \in Decisions
    BY <1>3, <1>8 DEF Typed
  <2>3. Behind(r, m)' = Behind(r, m) /\ StatusAt(r, m)' = StatusAt(r, m) /\ Status(r)' = Status(r)
    BY <2>1 DEF Behind, StatusAt, Status
  <2>4. Behind(r, n) /\ thread[c].from = Status(r) /\ Status(r) \in Claimable
    BY <1>2, <1>3, <1>4, <2>2 DEF ThreadFits, Working
  <2>5. n > K + 1 => Status(r) = StatusAt(r, n) \/ (n = Verifying /\ Status(r) = "scoring")
    BY <1>2, <1>3, <1>4, <2>2 DEF ThreadFits
  <2>6. CASE pc = "guard" /\ m = n /\ n \in {Deciding, Activating}
    <3>1. Status(r) = StatusAt(r, n)
      BY <2>5, <2>6, StepsAre DEF Deciding, Verifying, Activating
    <3>2. thread[c].beats /\ thread[c].watched /\ lease[r] = [token |-> thread[c].token, live |-> TRUE]
      BY <1>3, <2>2 DEF ThreadFits
    <3>3. Behind(r, n)' /\ StatusAt(r, n)' = Status(r) /\ Status(r)' = Status(r)
      BY <2>3, <2>4, <2>6, <3>1
    <3>. QED BY <1>3, <1>7, <2>1, <2>4, <2>6, <3>2, <3>3 DEF ThreadFits, Working
  <2>7. CASE pc = "enter" /\ m = Activating /\ n = Verifying /\ ~row[r].verify
    <3>1. /\ Verifying > Deciding /\ Verifying > K + 1 /\ Activating > Deciding /\ Activating > Verifying
          /\ Activating # Deciding /\ \A i \in 1..(K + 1) : i < Verifying
      BY StepsAre DEF Deciding, Verifying, Activating
    <3>2. decisions[r] = "scored"
      BY <2>2, <2>4, <2>7, <3>1 DEF Behind, RunFits, Decisions
    <3>3. Status(r) = "scoring"
      BY <2>2, <2>5, <2>7, <3>1, StepsAre DEF StatusAt, RunFits
    <3>4. Behind(r, Activating)
      BY <2>4, <2>7, <3>1, <3>2 DEF Behind
    <3>5. StatusAt(r, Activating) = "scoring"
      BY <2>7, <3>1 DEF StatusAt
    <3>. QED BY <1>2, <1>3, <1>7, <2>1, <2>2, <2>3, <2>4, <2>7, <3>3, <3>4, <3>5 DEF ThreadFits, Working
  <2>. QED BY <1>5, <2>6, <2>7
<1>. QED BY <1>2, <1>3, <1>5, <1>6, <1>7, <1>8, ThreadOnly

\* A stage begins with its status.
LEMMA EnterStage ==
    ASSUME IInv, NEW c \in Coordinators, NEW n \in (1..(K + 1)) \cup {Verifying}, NEW done \in {"guard", "raised"},
           thread[c].pc = "enter", thread[c].step = n, Moves(c, Steps[n], done),
           n = Verifying => row[Run(c)].verify,
           done = "raised" => n = Verifying /\ decisions[Run(c)] = "none",
           UNCHANGED <<lease, saved, decisions, reviews, up, cancelling, events>>
    PROVE  IInv'
<1>1. PICK r \in Runs : r = Run(c)
  BY AtWork
<1>2. /\ Typed /\ Active(c) /\ Run(c) = r /\ thread[c].run = r /\ thread[c] \in Threads
      /\ (Calm => ThreadFits(c) /\ RunFits(r))
  BY <1>1, AtWork
<1>3. PICK to \in Stages, pc \in {"guard", "raised", "refused"} :
          /\ to = Steps[n]
          /\ thread' = [thread EXCEPT ![c] = [thread[c] EXCEPT !.pc = pc]]
          /\ \/ row' = [row EXCEPT ![r].status = to] /\ pc = done
             \/ row' = row /\ Status(r) # thread[c].from
  <2>1. Steps[n] \in Stages
    BY StagesAre
  <2>. QED BY <1>1, <2>1 DEF Moves, Goes, Becomes
<1>4. PICK new : new = [thread[c] EXCEPT !.pc = pc]
  OBVIOUS
<1>5. /\ new \in Threads /\ new.pc = pc /\ new.run = r /\ new.token = thread[c].token /\ new.step = n
      /\ new.beats = thread[c].beats /\ new.watched = thread[c].watched
  BY <1>2, <1>4 DEF Threads, PCs
<1>6. ASSUME Calm
      PROVE  /\ ThreadFits(c)' /\ RunFits(r)'
             /\ row[r].status \in {"failed", "cancelled"} => row'[r].status = row[r].status
  <2>1. ThreadFits(c) /\ RunFits(r)
    BY <1>2, <1>6
  <2>2. Status(r) = thread[c].from /\ Status(r) \in Claimable /\ Behind(r, n)
    BY <1>2, <2>1 DEF ThreadFits, Working
  <2>3. /\ thread'[c] = new /\ row'[r].status = to /\ row'[r].verify = row[r].verify /\ pc = done
        /\ lease' = lease /\ saved' = saved /\ decisions' = decisions
    BY <1>2, <1>3, <1>4, <2>2 DEF Typed, Rows
  <2>4. pc = "guard"
    <3>1. n = Verifying => n > Deciding
      BY StepsAre DEF Deciding, Verifying
    <3>. QED BY <1>1, <2>2, <2>3, <3>1 DEF Behind
  <2>5. Behind(r, n)' /\ Position(to) = n /\ to \in Claimable /\ StatusAt(r, n)' = to
    <3>1. n # Deciding /\ n # Activating
      BY StepsAre DEF Deciding, Verifying, Activating
    <3>. QED BY <1>3, <2>2, <2>3, <3>1, PositionIs, StatusKinds DEF Behind, StatusAt
  <2>6. to = "verifying" => row[r].verify
    <3>1. n \in 1..(K + 1) => Steps[n] # "verifying"
      BY StepKinds, StepsAre
    <3>. QED BY <1>1, <1>3, <3>1
  <2>7. RunFits(r)'
    BY <2>1, <2>3, <2>5, <2>6, StatusKinds DEF RunFits, Status, Published
  <2>8. n # Activating
    BY StepsAre DEF Verifying, Activating
  <2>. QED BY <1>1, <1>2, <1>5, <2>1, <2>2, <2>3, <2>4, <2>5, <2>7, <2>8, StatusKinds DEF ThreadFits, Working, Status
<1>7. to \in Claimable \cup {"failed", "cancelled"}
  BY StatusKinds
<1>8. /\ thread' = [thread EXCEPT ![c] = new] /\ new.pc # "none"
      /\ row' = [row EXCEPT ![r].status = to] \/ row' = row
  BY <1>3, <1>4, <1>5
<1>. QED BY <1>2, <1>5, <1>6, <1>7, <1>8, StatusWrites

LEMMA EnterKeeps ==
    ASSUME IInv, NEW c \in Coordinators, Enter(c)
    PROVE  IInv'
<1>1. thread[c].pc = "enter" /\ UNCHANGED <<lease, saved, decisions, reviews, up, cancelling, events>>
  BY DEF Enter
<1>2. PICK n \in 1..Len(Steps) : n = thread[c].step /\ Step(c) = Steps[n]
  BY <1>1, AtWork DEF Threads, Step
<1>3. CASE UNCHANGED row /\ \/ Step(c) \in {"deciding", "activating"} /\ Goes(c, "guard")
                            \/ /\ Step(c) = "verifying" /\ ~row[Run(c)].verify
                               /\ Becomes(c, [thread[c] EXCEPT !.step = @ + 1])
  BY <1>3, EnterOnly
<1>4. CASE Step(c) = "verifying" /\ row[Run(c)].verify
           /\ Moves(c, "verifying", IF decisions[Run(c)] = "none" /\ saved[Run(c)] # {} THEN "raised" ELSE "guard")
  <2>1. n = Verifying /\ Steps[n] = "verifying"
    BY <1>2, <1>4, StepKinds
  <2>. QED BY <1>1, <1>2, <1>4, <2>1, EnterStage
<1>5. CASE Step(c) \in Stages \ {"verifying"} /\ Moves(c, Step(c), "guard")
  <2>1. n \in 1..(K + 1)
    BY <1>2, <1>5, StepKinds, StagesAre DEF ExtractionStages
  <2>2. n # Verifying
    BY <2>1, StepKinds
  <2>. QED BY <1>1, <1>2, <1>5, <2>1, <2>2, EnterStage
<1>. QED BY <1>3, <1>4, <1>5 DEF Enter

----------------------------------------------------------------------------
\* A thread stores what a stage has made of its run.
LEMMA OutputWrites ==
    ASSUME IInv, NEW c \in Coordinators, NEW r \in Runs, Active(c), Run(c) = r, NEW new \in Threads,
           thread' = [thread EXCEPT ![c] = new], new.pc # "none", new.run = r,
           new.pc = "verdicts" => new.step = Verifying,
           NEW output \in SUBSET Stages, saved' = [saved EXCEPT ![r] = output],
           NEW made \in Decisions, decisions' = [decisions EXCEPT ![r] = made],
           NEW count \in 0..MaxReviews, reviews' = [reviews EXCEPT ![r] = count],
           UNCHANGED <<row, lease, up, cancelling, events>>,
           Calm => ThreadFits(c)' /\ RunFits(r)'
    PROVE  IInv'
<1>1. Typed /\ row[r].status # "absent"
  BY TypesNamed DEF IInv, Clean, Status
<1>2. /\ row' \in [Runs -> Rows] /\ lease' \in [Runs -> Leases] /\ events' \in EventCounts
      /\ saved' \in [Runs -> SUBSET Stages] /\ decisions' \in [Runs -> Decisions] /\ reviews' \in [Runs -> 0..MaxReviews]
  BY <1>1 DEF Typed
<1>3. \A s \in Runs \ {r} : Kept(s) /\ lease'[s] = lease[s]
  BY <1>1 DEF Kept, Typed
<1>4. Unique'
  BY NothingPublished DEF IInv
<1>. QED BY <1>1, <1>2, <1>3, <1>4, AnyStep

LEMMA SaveStageKeeps ==
    ASSUME IInv, NEW c \in Coordinators, SaveStage(c)
    PROVE  IInv'
<1>1. thread[c].pc = "save" /\ Step(c) \in Stages \ {"verifying"}
  BY DEF SaveStage
<1>2. PICK r \in Runs : r = Run(c)
  BY <1>1, AtWork
<1>3. /\ Typed /\ Active(c) /\ Run(c) = r /\ thread[c].run = r /\ thread[c] \in Threads
      /\ (Calm => ThreadFits(c) /\ RunFits(r))
  BY <1>1, <1>2, AtWork
<1>4. PICK n \in 1..(K + 1) : n = thread[c].step
  <2>1. PICK n \in 1..Len(Steps) : n = thread[c].step
    BY <1>3 DEF Threads
  <2>2. Steps[n] \in Stages \ {"verifying"}
    BY <1>1, <2>1 DEF Step
  <2>3. Steps[n] \notin {"deciding", "verifying", "activating"}
    BY <2>2, StagesAre DEF ExtractionStages
  <2>. QED BY <2>1, <2>3, StepKinds
<1>5. PICK new : new = [thread[c] EXCEPT !.pc = "enter", !.step = n + 1]
  OBVIOUS
<1>6. PICK output : output = Outlasting(c) \cup {Steps[n]}
  OBVIOUS
<1>7. PICK made \in Decisions, count \in 0..MaxReviews :
          /\ decisions' = [decisions EXCEPT ![r] = made] /\ reviews' = [reviews EXCEPT ![r] = count]
          /\ made = decisions[r] \/ made = "none"
  <2>1. decisions[r] \in Decisions /\ "none" \in Decisions /\ reviews[r] \in 0..MaxReviews /\ 0 \in 0..MaxReviews
    BY <1>3, AlignmentAssumption DEF Typed, Decisions
  <2>2. CASE Step(c) = "profiling"
    BY <1>2, <2>1, <2>2 DEF SaveStage
  <2>3. CASE Step(c) # "profiling"
    <3>1. UNCHANGED <<decisions, reviews>>
      BY <2>3 DEF SaveStage
    <3>2. decisions = [decisions EXCEPT ![r] = decisions[r]] /\ reviews = [reviews EXCEPT ![r] = reviews[r]]
      BY <1>3 DEF Typed
    <3>. QED BY <2>1, <3>1, <3>2
  <2>. QED BY <2>2, <2>3
<1>12. /\ thread' = [thread EXCEPT ![c] = new] /\ saved' = [saved EXCEPT ![r] = output]
       /\ UNCHANGED <<row, lease, up, cancelling, events>>
  BY <1>2, <1>4, <1>5, <1>6 DEF SaveStage, Becomes, Next1, Step
<1>8. n + 1 \in 1..Len(Steps) /\ n \in 1..Len(Steps)
  BY StepsAre
<1>9. /\ new \in Threads /\ new.pc = "enter" /\ new.run = r /\ new.token = thread[c].token /\ new.step = n + 1
      /\ new.beats = thread[c].beats /\ new.watched = thread[c].watched /\ new.from = thread[c].from
  BY <1>3, <1>5, <1>8 DEF Threads, PCs
<1>10. output \in SUBSET Stages
  <2>1. saved[r] \subseteq Stages /\ Steps[n] \in Stages
    BY <1>3, <1>8, StepKinds DEF Typed
  <2>2. Outlasting(c) \subseteq saved[r]
    BY <1>2 DEF Outlasting
  <2>. QED BY <1>6, <2>1, <2>2
<1>13. \A m \in 1..(K + 1) : m < n /\ Steps[m] \in saved[r] => Steps[m] \in output
  <2>. SUFFICES ASSUME NEW m \in 1..(K + 1), m < n, Steps[m] \in saved[r]
                PROVE  Steps[m] \in Outlasting(c)
    BY <1>6
  <2>1. m \in 1..(thread[c].step - 1)
    BY <1>4, StepsAre
  <2>2. Steps[m] \in Before(c)
    BY <2>1 DEF Before
  <2>. QED BY <1>2, <2>2 DEF Outlasting
<1>11. ASSUME Calm PROVE ThreadFits(c)' /\ RunFits(r)'
  <2>1. ThreadFits(c) /\ RunFits(r)
    BY <1>3, <1>11
  <2>2. /\ thread'[c] = new /\ row' = row /\ lease' = lease /\ decisions'[r] = made /\ saved'[r] = output
    BY <1>3, <1>7, <1>12 DEF Typed
  <2>4. Behind(r, n) /\ Status(r) = StatusAt(r, n) /\ thread[c].from = Status(r) /\ Status(r) \in Claimable
    BY <1>1, <1>3, <1>4, <2>1 DEF ThreadFits, Working
  <2>5. /\ \A m \in 1..(K + 1) : m < n + 1 => m < n \/ m = n
        /\ ~(n + 1 > Deciding) /\ ~(n + 1 > Verifying)
        /\ n + 1 > K + 1 => n = K + 1 /\ n + 1 = Deciding /\ n # Deciding /\ n # Activating
    BY StepsAre DEF Deciding, Verifying, Activating
  <2>6. Behind(r, n + 1)'
    <3>1. Steps[n] \in output
      BY <1>6
    <3>2. \A m \in 1..(K + 1) : m < n => Steps[m] \in output
      BY <1>13, <2>4 DEF Behind
    <3>. QED BY <2>2, <2>5, <3>1, <3>2 DEF Behind
  <2>7. n + 1 > K + 1 => Status(r) = StatusAt(r, n + 1)'
    BY <2>4, <2>5, StepsAre DEF StatusAt
  <2>3. RunFits(r)'
    <3>1. PICK p : p = Position(Status(r))
      OBVIOUS
    <3>2. n # Deciding /\ n # Activating
      BY StepsAre DEF Deciding, Activating
    <3>3. p = n
      BY <2>4, <3>1, <3>2, PositionIs DEF StatusAt
    <3>4. /\ \A m \in 1..(K + 1) : m < n => Steps[m] \in output
          /\ ~(n > Deciding) /\ ~(n > Verifying)
      BY <1>13, <2>4, StepsAre DEF Behind, Deciding, Verifying
    <3>5. Behind(r, p)'
      BY <2>2, <3>3, <3>4 DEF Behind
    <3>6. Position(Status(r))' = p
      BY <2>2, <3>1 DEF Status
    <3>7. made = "verified" => decisions[r] = "verified"
      BY <1>7
    <3>. QED BY <2>1, <2>2, <2>4, <3>5, <3>6, <3>7, StatusKinds DEF RunFits, Status, Published
  <2>. QED BY <1>1, <1>3, <1>9, <2>1, <2>2, <2>3, <2>4, <2>6, <2>7 DEF ThreadFits, Working, Status
<1>. QED BY <1>3, <1>7, <1>9, <1>10, <1>11, <1>12, OutputWrites

\* What refers to rows that are gone is refused by the database.
LEMMA SaveRaisesKeeps ==
    ASSUME IInv, NEW c \in Coordinators, SaveRaises(c)
    PROVE  IInv'
<1>1. thread[c].pc = "save"
  BY DEF SaveRaises
<1>2. PICK r \in Runs : r = Run(c)
  BY <1>1, AtWork
<1>3. /\ Typed /\ Active(c) /\ Run(c) = r /\ thread[c].run = r /\ thread[c] \in Threads
      /\ (Calm => ThreadFits(c))
  BY <1>1, <1>2, AtWork
<1>4. PICK new : new = [thread[c] EXCEPT !.pc = "raised"]
  OBVIOUS
<1>5. thread' = [thread EXCEPT ![c] = new] /\ UNCHANGED <<tables, up, cancelling, events>>
  BY <1>4 DEF SaveRaises, Goes, Becomes
<1>6. /\ new \in Threads /\ new.pc = "raised" /\ new.run = r /\ new.token = thread[c].token
      /\ new.beats = thread[c].beats /\ new.watched = thread[c].watched
  BY <1>3, <1>4 DEF Threads, PCs
<1>7. ASSUME Calm PROVE ThreadFits(c)'
  <2>1. thread'[c] = new /\ row' = row /\ lease' = lease
    BY <1>3, <1>5 DEF Typed, tables
  <2>2. ThreadFits(c)
    BY <1>3, <1>7
  <2>. QED BY <1>1, <1>3, <1>6, <2>1, <2>2 DEF ThreadFits, Working, Status
<1>. QED BY <1>3, <1>5, <1>6, <1>7, ThreadOnly

LEMMA SaveDecisionsKeeps ==
    ASSUME IInv, NEW c \in Coordinators, SaveDecisions(c)
    PROVE  IInv'
<1>1. thread[c].pc = "save" /\ Step(c) \in {"deciding", "verifying"}
  BY DEF SaveDecisions
<1>2. PICK r \in Runs : r = Run(c)
  BY <1>1, AtWork
<1>3. /\ Typed /\ Active(c) /\ Run(c) = r /\ thread[c].run = r /\ thread[c] \in Threads
      /\ (Calm => ThreadFits(c) /\ RunFits(r))
  BY <1>1, <1>2, AtWork
<1>4. PICK n \in {Deciding, Verifying} : n = thread[c].step /\ Step(c) = Steps[n]
  <2>1. PICK n \in 1..Len(Steps) : n = thread[c].step
    BY <1>3 DEF Threads
  <2>2. Step(c) = Steps[n]
    BY <2>1 DEF Step
  <2>. QED BY <1>1, <2>1, <2>2, StepKinds
<1>5. K + 2 \in Nat /\ K + 2 < K + 3 /\ K + 2 + 1 = K + 3 /\ K + 2 # K + 4 /\ K + 3 # K + 2 /\ K + 3 # K + 4
  BY StepsAre
<1>6. PICK new : new = IF n = Deciding THEN [thread[c] EXCEPT !.pc = "enter", !.step = Verifying]
                                       ELSE [thread[c] EXCEPT !.pc = "verdicts", !.step = Verifying]
  OBVIOUS
<1>7. PICK made \in Decisions : made = IF n = Deciding THEN "scored" ELSE "verified"
  BY DEF Decisions
<1>8. /\ thread' = [thread EXCEPT ![c] = new] /\ decisions' = [decisions EXCEPT ![r] = made]
      /\ reviews' = [reviews EXCEPT ![r] = 0]
      /\ UNCHANGED <<row, lease, saved, up, cancelling, events>>
  <2>1. n = Deciding <=> Step(c) = "deciding"
    BY <1>4, <1>5, StepsAre DEF Deciding, Verifying
  <2>2. n = Verifying => [thread[c] EXCEPT !.pc = "verdicts"] = [thread[c] EXCEPT !.pc = "verdicts", !.step = Verifying]
    BY <1>3, <1>4 DEF Threads
  <2>3. CASE n = Deciding
    <3>1. thread[c].step + 1 = Verifying
      BY <1>4, <1>5, <2>3 DEF Deciding, Verifying
    <3>2. new = Next1(c) /\ made = "scored"
      BY <1>6, <1>7, <2>3, <3>1 DEF Next1
    <3>. QED BY <1>2, <2>1, <2>3, <3>2 DEF SaveDecisions, Becomes
  <2>4. CASE n = Verifying
    BY <1>2, <1>5, <1>6, <1>7, <2>1, <2>2, <2>4 DEF SaveDecisions, Becomes, Goes, Deciding, Verifying
  <2>. QED BY <2>3, <2>4
<1>9. /\ new \in Threads /\ new.pc = (IF n = Deciding THEN "enter" ELSE "verdicts") /\ new.run = r
      /\ new.token = thread[c].token /\ new.step = Verifying
      /\ new.beats = thread[c].beats /\ new.watched = thread[c].watched /\ new.from = thread[c].from
  <2>1. Verifying \in 1..Len(Steps)
    BY StepsAre DEF Verifying
  <2>. QED BY <1>3, <1>6, <2>1 DEF Threads, PCs
<1>10. /\ saved[r] \in SUBSET Stages /\ saved' = [saved EXCEPT ![r] = saved[r]] /\ 0 \in 0..MaxReviews
  BY <1>3, <1>8, AlignmentAssumption DEF Typed
<1>11. ASSUME Calm PROVE ThreadFits(c)' /\ RunFits(r)'
  <2>1. ThreadFits(c) /\ RunFits(r)
    BY <1>3, <1>11
  <2>2. thread'[c] = new /\ row' = row /\ lease' = lease /\ saved' = saved /\ decisions'[r] = made
    BY <1>3, <1>8 DEF Typed
  <2>3. Behind(r, n) /\ Status(r) = StatusAt(r, n) /\ thread[c].from = Status(r) /\ Status(r) \in Claimable
    BY <1>1, <1>3, <1>4, <2>1 DEF ThreadFits, Working
  <2>4. Status(r) = IF n = Deciding THEN "scoring" ELSE "verifying"
    BY <1>4, <1>5, <2>3, StepsAre DEF StatusAt, Deciding, Verifying, Activating
  <2>5. made = "verified" => row[r].verify
    BY <1>7, <2>1, <2>4 DEF RunFits
  <2>6. Behind(r, Verifying)'
    <3>1. \A m \in 1..(K + 1) : m < n
      BY <1>4, StepsAre DEF Deciding, Verifying
    <3>2. ~(Verifying > Verifying)
      BY StepsAre DEF Verifying
    <3>. QED BY <1>7, <2>2, <2>3, <3>1, <3>2 DEF Behind
  <2>7. RunFits(r)'
    <3>1. Behind(r, Position(Status(r)))'
      <4>1. Position(Status(r)) \in (1..(K + 1)) \cup {Verifying}
        BY <2>3, PositionIs
      <4>2. \A m \in 1..(K + 1) : m < Verifying
        BY StepsAre DEF Verifying
      <4>3. \A i \in (1..(K + 1)) \cup {Verifying} : ~(i > Verifying)
        BY StepsAre DEF Verifying
      <4>. QED BY <1>7, <2>2, <2>6, <4>1, <4>2, <4>3 DEF Behind, Status
    <3>. QED BY <2>1, <2>2, <2>3, <2>5, <3>1, StatusKinds DEF RunFits, Status, Published
  <2>8. Verifying > K + 1 /\ StatusAt(r, Verifying)' = "verifying"
    BY StepsAre, <1>5 DEF StatusAt, Deciding, Verifying, Activating
  <2>9. thread[c].beats /\ thread[c].watched /\ lease[r] = [token |-> thread[c].token, live |-> TRUE]
    BY <1>3, <2>1 DEF ThreadFits
  <2>10. Status(r)' = Status(r) /\ (n # Deciding => Status(r) = "verifying" /\ made = "verified")
    BY <1>7, <2>2, <2>4 DEF Status
  <2>11. Verifying # Activating
    BY <1>5 DEF Verifying, Activating
  <2>12. ThreadFits(c)'
    BY <1>9, <2>2, <2>3, <2>4, <2>6, <2>8, <2>9, <2>10, <2>11 DEF ThreadFits, Working
  <2>. QED BY <2>7, <2>12
<1>. QED BY <1>3, <1>8, <1>9, <1>10, <1>11, OutputWrites

LEMMA SaveVerificationsKeeps ==
    ASSUME IInv, NEW c \in Coordinators, SaveVerifications(c)
    PROVE  IInv'
<1>1. thread[c].pc = "verdicts"
  BY DEF SaveVerifications
<1>2. PICK r \in Runs : r = Run(c)
  BY <1>1, AtWork
<1>3. /\ Typed /\ Active(c) /\ Run(c) = r /\ thread[c].run = r /\ thread[c] \in Threads
      /\ (Calm => ThreadFits(c) /\ RunFits(r)) /\ thread[c].step = Verifying
  BY <1>1, <1>2, AtWork DEF IInv, Clean
<1>4. PICK new : new = [thread[c] EXCEPT !.pc = "enter", !.step = Activating]
  OBVIOUS
<1>5. PICK output : output = saved[r] \cup {"verifying"}
  OBVIOUS
<1>6. Verifying + 1 = Activating /\ Activating \in 1..Len(Steps)
  <2>1. K + 3 + 1 = K + 4 /\ K + 4 \in 1..(K + 4)
    BY StepsAre
  <2>. QED BY <2>1, StepsAre DEF Verifying, Activating
<1>7. /\ thread' = [thread EXCEPT ![c] = new] /\ saved' = [saved EXCEPT ![r] = output]
      /\ UNCHANGED <<row, lease, decisions, reviews, up, cancelling, events>>
  BY <1>2, <1>3, <1>4, <1>5, <1>6 DEF SaveVerifications, Becomes, Next1
<1>8. /\ new \in Threads /\ new.pc = "enter" /\ new.run = r /\ new.token = thread[c].token /\ new.step = Activating
      /\ new.beats = thread[c].beats /\ new.watched = thread[c].watched /\ new.from = thread[c].from
  BY <1>3, <1>4, <1>6 DEF Threads, PCs
<1>9. /\ output \in SUBSET Stages
      /\ decisions[r] \in Decisions /\ decisions' = [decisions EXCEPT ![r] = decisions[r]]
      /\ reviews[r] \in 0..MaxReviews /\ reviews' = [reviews EXCEPT ![r] = reviews[r]]
  BY <1>3, <1>5, <1>7 DEF Typed, Stages
<1>10. ASSUME Calm PROVE ThreadFits(c)' /\ RunFits(r)'
  <2>1. ThreadFits(c) /\ RunFits(r)
    BY <1>3, <1>10
  <2>2. thread'[c] = new /\ row' = row /\ lease' = lease /\ decisions' = decisions /\ saved'[r] = output
    BY <1>3, <1>7 DEF Typed
  <2>3. RunFits(r)'
    BY <1>5, <2>1, <2>2 DEF RunFits, Status, Published, Whole, Behind
  <2>4. /\ Behind(r, Verifying) /\ Status(r) = StatusAt(r, Verifying) /\ thread[c].from = Status(r)
        /\ Status(r) \in Claimable /\ decisions[r] = "verified"
    BY <1>1, <1>3, <2>1 DEF ThreadFits, Working
  <2>5. /\ \A m \in 1..(K + 1) : m < Verifying
        /\ Activating > K + 1 /\ Activating # Deciding
    BY StepsAre DEF Deciding, Verifying, Activating
  <2>6. row[r].verify
    BY <2>1, <2>4 DEF RunFits
  <2>7. Status(r) = "verifying"
    BY <2>4, StepsAre DEF StatusAt, Deciding, Verifying, Activating
  <2>8. Behind(r, Activating)'
    BY <1>5, <2>2, <2>4, <2>5, <2>6 DEF Behind
  <2>9. Status(r) = StatusAt(r, Activating)'
    BY <2>2, <2>5, <2>6, <2>7 DEF StatusAt
  <2>. QED BY <1>1, <1>3, <1>8, <2>1, <2>2, <2>3, <2>4, <2>8, <2>9 DEF ThreadFits, Working, Status
<1>. QED BY <1>3, <1>7, <1>8, <1>9, <1>10, OutputWrites

\* The run is published, and the run published before it is superseded.
LEMMA ActivateKeeps ==
    ASSUME IInv, NEW c \in Coordinators, Activate(c)
    PROVE  IInv'
<1>1. thread[c].pc = "save" /\ Step(c) = "activating"
  BY DEF Activate
<1>2. PICK r \in Runs : r = Run(c)
  BY <1>1, AtWork
<1>3. /\ Typed /\ Active(c) /\ Run(c) = r /\ thread[c].run = r /\ thread[c] \in Threads
      /\ (Calm => ThreadFits(c) /\ RunFits(r)) /\ row[r].status # "absent" /\ Unique
  BY <1>1, <1>2, AtWork DEF IInv, Status
<1>4. PICK n \in 1..Len(Steps) : n = thread[c].step /\ n = Activating
  <2>1. PICK n \in 1..Len(Steps) : n = thread[c].step
    BY <1>3 DEF Threads
  <2>. QED BY <1>1, <2>1, StepKinds DEF Step
<1>5. PICK pc \in {"leave", "raised", "refused"} :
          /\ thread' = [thread EXCEPT ![c] = [thread[c] EXCEPT !.pc = pc]]
          /\ \/ /\ row' = [s \in Runs |-> CASE s = r                -> [row[s] EXCEPT !.status = "active"]
                                           [] Status(s) = "active" -> [row[s] EXCEPT !.status = "superseded"]
                                           [] OTHER                -> row[s]]
                /\ Ready(r) /\ Unpublished(r) /\ pc = "leave"
             \/ row' = row /\ ~(Ready(r) /\ Unpublished(r))
  BY <1>2 DEF Activate, Goes, Becomes
<1>6. PICK new : new = [thread[c] EXCEPT !.pc = pc]
  OBVIOUS
<1>7. UNCHANGED <<lease, saved, decisions, reviews, up, cancelling, events>>
  BY DEF Activate
<1>8. /\ new \in Threads /\ new.pc = pc /\ new.run = r /\ new.token = thread[c].token
      /\ new.beats = thread[c].beats /\ new.watched = thread[c].watched
  BY <1>3, <1>6 DEF Threads, PCs
<1>9. CASE row' = row /\ ~(Ready(r) /\ Unpublished(r))
  <2>1. ~Calm
    <3>. SUFFICES ASSUME Calm PROVE FALSE
      OBVIOUS
    <3>1. Behind(r, n) /\ Status(r) = StatusAt(r, n)
      BY <1>1, <1>3, <1>4 DEF ThreadFits, Working
    <3>2. /\ \A m \in 1..(K + 1) : m < Activating
          /\ Activating > Deciding /\ Activating # Deciding /\ 1 \in 1..(K + 1) /\ 1 \in 1..K
      BY StepsAre DEF Deciding, Activating
    <3>3. Status(r) \in {"scoring", "verifying"}
      BY <1>4, <3>1, <3>2 DEF StatusAt
    <3>4. Extraction[1] \in saved[r] /\ decisions[r] # "none"
      BY <1>4, <3>1, <3>2, StepsAre DEF Behind
    <3>5. Ready(r)
      BY <3>3, <3>4 DEF Ready
    <3>6. Status(r) \in Claimable
      BY <3>3, StatusKinds
    <3>7. Unpublished(r)
      <4>. SUFFICES ASSUME NEW s \in Runs \ {r}, row[s].input = row[r].input PROVE ~Published(s)
        BY DEF Unpublished
      <4>1. s < r \/ r < s
        BY DEF Runs
      <4>2. s < r => Status(s) \in {"failed", "cancelled"}
        BY <3>6, StatusKinds DEF Calm, RetriedFits
      <4>3. ~(r < s /\ Status(s) # "absent")
        BY <3>6, StatusKinds DEF Calm, RetriedFits
      <4>. QED BY <4>1, <4>2, <4>3 DEF Published
    <3>. QED BY <1>9, <3>5, <3>7
  <2>2. \A s \in Runs \ {r} : Kept(s) /\ lease'[s] = lease[s]
    BY <1>7, <1>9 DEF Kept
  <2>3. /\ row' \in [Runs -> Rows] /\ lease' \in [Runs -> Leases] /\ saved' \in [Runs -> SUBSET Stages]
        /\ decisions' \in [Runs -> Decisions] /\ reviews' \in [Runs -> 0..MaxReviews] /\ events' \in EventCounts
    BY <1>3, <1>7, <1>9 DEF Typed
  <2>4. Unique'
    BY <1>3, <1>9, NothingPublished
  <2>. QED BY <1>3, <1>5, <1>6, <1>7, <1>8, <1>9, <2>1, <2>2, <2>3, <2>4, AnyStep
<1>10. CASE /\ row' = [s \in Runs |-> CASE s = r                -> [row[s] EXCEPT !.status = "active"]
                                       [] Status(s) = "active" -> [row[s] EXCEPT !.status = "superseded"]
                                       [] OTHER                -> row[s]]
            /\ Ready(r) /\ Unpublished(r) /\ pc = "leave"
  <2>1. row'[r] = [row[r] EXCEPT !.status = "active"]
    <3>1. PICK s \in Runs : s = r
      OBVIOUS
    <3>2. row'[s] = CASE s = r                -> [row[s] EXCEPT !.status = "active"]
                      [] Status(s) = "active" -> [row[s] EXCEPT !.status = "superseded"]
                      [] OTHER                -> row[s]
      BY <1>10
    <3>3. Status(s) # "active"
      BY <1>10, <3>1 DEF Ready
    <3>. QED BY <3>1, <3>2, <3>3
  <2>2. ASSUME NEW s \in Runs \ {r}
        PROVE  row'[s] = IF Status(s) = "active" THEN [row[s] EXCEPT !.status = "superseded"] ELSE row[s]
    <3>1. row'[s] = CASE s = r                -> [row[s] EXCEPT !.status = "active"]
                      [] Status(s) = "active" -> [row[s] EXCEPT !.status = "superseded"]
                      [] OTHER                -> row[s]
      BY <1>10
    <3>2. CASE Status(s) = "active"
      BY <3>1, <3>2
    <3>3. CASE Status(s) # "active"
      BY <3>1, <3>3
    <3>. QED BY <3>2, <3>3
  <2>3. /\ row' \in [Runs -> Rows]
        /\ row'[r].status = "active" /\ row'[r].input = row[r].input /\ row'[r].verify = row[r].verify
    <3>1. \A s \in Runs : row[s] \in Rows /\ {"active", "superseded"} \subseteq Statuses
      BY <1>3, StatusKinds DEF Typed
    <3>2. \A s \in Runs : row'[s] \in Rows
      <4>. SUFFICES ASSUME NEW s \in Runs PROVE row'[s] \in Rows
        OBVIOUS
      <4>1. \E to \in {"active", "superseded"} : row'[s] \in {row[s], [row[s] EXCEPT !.status = to]}
        BY <2>1, <2>2
      <4>. QED BY <3>1, <4>1 DEF Rows
    <3>3. row' = [s \in Runs |-> row'[s]]
      BY <1>10
    <3>. QED BY <2>1, <3>1, <3>2, <3>3 DEF Rows
  <2>4. \A s \in Runs \ {r} : /\ Kept(s) /\ lease'[s] = lease[s]
                              /\ row'[s].status # "active"
    <3>. SUFFICES ASSUME NEW s \in Runs \ {r}
                  PROVE  Kept(s) /\ lease'[s] = lease[s] /\ row'[s].status # "active"
      OBVIOUS
    <3>1. row[s] \in Rows /\ UNCHANGED <<lease, saved, decisions>>
      BY <1>3, <1>7 DEF Typed
    <3>2. CASE row[s].status = "active"
      <4>1. row'[s] = [row[s] EXCEPT !.status = "superseded"]
        BY <2>2, <3>2 DEF Status
      <4>. QED BY <3>1, <3>2, <4>1 DEF Kept, Rows
    <3>3. CASE row[s].status # "active"
      <4>1. row'[s] = row[s]
        BY <2>2, <3>3 DEF Status
      <4>. QED BY <3>1, <3>3, <4>1 DEF Kept
    <3>. QED BY <3>2, <3>3
  <2>5. Unique'
    <3>1. /\ \A s \in Runs : row'[s].input = row[s].input
          /\ \A s \in Runs \ {r} : Published(s)' <=> Published(s)
      BY <2>3, <2>4 DEF Kept, Published, Status
    <3>2. \A s \in Runs \ {r} : row[s].input = row[r].input => ~Published(s)
      BY <1>10 DEF Unpublished
    <3>. QED BY <1>3, <2>3, <2>4, <3>1, <3>2 DEF Unique, Status
  <2>6. /\ lease' \in [Runs -> Leases] /\ saved' \in [Runs -> SUBSET Stages]
        /\ decisions' \in [Runs -> Decisions] /\ reviews' \in [Runs -> 0..MaxReviews] /\ events' \in EventCounts
    BY <1>3, <1>7 DEF Typed
  <2>7. ASSUME Calm
        PROVE  /\ ThreadFits(c)' /\ RunFits(r)'
               /\ row[r].status \notin {"failed", "cancelled"}
    <3>1. ThreadFits(c) /\ RunFits(r)
      BY <1>3, <2>7
    <3>2. /\ Behind(r, Activating) /\ Status(r) \in Claimable
      BY <1>1, <1>3, <1>4, <3>1 DEF ThreadFits, Working
    <3>3. (\A m \in 1..(K + 1) : m < Activating) /\ Activating > Verifying
      BY StepsAre DEF Verifying, Activating
    <3>4. Whole(r)
      BY <3>2, <3>3, StagesAre DEF Behind, Whole
    <3>5. RunFits(r)'
      BY <1>7, <2>3, <3>1, <3>4, StatusKinds DEF RunFits, Status, Published, Whole
    <3>6. thread'[c] = new
      BY <1>3, <1>5, <1>6 DEF Typed
    <3>. QED BY <1>3, <1>7, <1>8, <1>10, <3>1, <3>2, <3>5, <3>6, StatusKinds DEF ThreadFits, Working, Status
  <2>. QED BY <1>3, <1>5, <1>6, <1>7, <1>8, <2>3, <2>4, <2>5, <2>6, <2>7, AnyStep
<1>. QED BY <1>5, <1>9, <1>10

LEMMA LeaveKeeps ==
    ASSUME IInv, NEW c \in Coordinators, Leave(c)
    PROVE  IInv'
<1>1. thread[c].pc = "leave"
  BY DEF Leave
<1>2. PICK r \in Runs : r = Run(c)
  BY <1>1, AtWork
<1>3. /\ Typed /\ Active(c) /\ Run(c) = r /\ row[r].status # "absent"
  BY <1>1, <1>2, AtWork DEF Status
<1>4. /\ thread' = [thread EXCEPT ![c] = NoThread]
      /\ lease' = lease \/ lease' = [lease EXCEPT ![r] = NoLease]
      /\ UNCHANGED <<row, saved, decisions, reviews, up, cancelling, events>>
  BY <1>2 DEF Leave, Becomes, Released
<1>5. NoLease \in Leases
  BY AlignmentAssumption, FS_CardinalityType DEF NoLease, Leases, Tokens
<1>6. /\ row' \in [Runs -> Rows] /\ lease' \in [Runs -> Leases] /\ saved' \in [Runs -> SUBSET Stages]
      /\ decisions' \in [Runs -> Decisions] /\ reviews' \in [Runs -> 0..MaxReviews] /\ events' \in EventCounts
  BY <1>3, <1>4, <1>5 DEF Typed
<1>7. \A s \in Runs : Kept(s) /\ (s # r => lease'[s] = lease[s])
  BY <1>3, <1>4 DEF Kept, Typed
<1>8. Unique'
  BY <1>4, NothingPublished DEF IInv
<1>9. Calm => RunFits(r)'
  BY <1>7, KeptRun DEF Calm
<1>. QED BY <1>3, <1>4, <1>6, <1>7, <1>8, <1>9, NoThreadTyped, AnyStep

----------------------------------------------------------------------------
\* A step that leaves runs as they are: of leases, threads and processes.
LEMMA RowsStay ==
    ASSUME IInv, UNCHANGED <<row, saved, decisions, reviews, cancelling>>,
           lease' \in [Runs -> Leases], thread' \in [Coordinators -> Threads], up' \in [Coordinators -> BOOLEAN],
           events' \in EventCounts, Clean',
           events'.lapses = 0 =>
              /\ events.lapses = 0
              /\ \A c \in Coordinators : Active(c)' => ThreadFits(c)'
              /\ \A c, d \in Coordinators : c # d /\ Active(c)' /\ Active(d)' => Run(c)' # Run(d)'
    PROVE  IInv'
<1>1. Typed /\ Unique
  BY TypesNamed DEF IInv
<1>2. Typed'
  BY <1>1 DEF Typed
<1>3. TypeOK'
  BY <1>2 DEF Typed, TypeOK, Rows, Leases, Threads, EventCounts, Decisions
<1>4. Unique'
  BY <1>1, NothingPublished
<1>5. ASSUME events'.lapses = 0 PROVE Calm'
  <2>1. Calm
    BY <1>5 DEF IInv
  <2>2. \A s \in Runs : Kept(s)
    BY DEF Kept
  <2>3. \A s \in Runs : RunFits(s)'
    BY <2>1, <2>2, KeptRun DEF Calm
  <2>4. RetriedFits'
    BY <1>1, <2>1, RetriedStays DEF Calm
  <2>. QED BY <1>5, <2>3, <2>4 DEF Calm
<1>. QED BY <1>3, <1>4, <1>5 DEF IInv

\* A thread whose lease stays goes on as it was.
LEMMA ThreadStays ==
    ASSUME IInv, Calm, NEW d \in Coordinators, Active(d), UNCHANGED <<row, saved, decisions>>,
           thread'[d] = thread[d], lease'[Run(d)] = lease[Run(d)]
    PROVE  ThreadFits(d)' /\ Run(d)' = Run(d)
<1>1. Kept(Run(d)) /\ ThreadFits(d)
  BY DEF Kept, Calm
<1>2. Run(d)' = Run(d)
  BY DEF Run
<1>. QED BY <1>1, <1>2, KeptThread

LEMMA ClaimKeeps ==
    ASSUME IInv, NEW c \in Coordinators, NEW r \in Runs, Claim(c, r)
    PROVE  IInv'
<1>1. Typed /\ Clean /\ (events.lapses = 0 => Calm) /\ ~Active(c)
  BY TypesNamed DEF IInv, Claim
<1>2. PICK token \in Tokens : token = FreshToken(r)
  BY <1>1, FreshTokenExists
<1>3. PICK new : new = [NoThread EXCEPT !.pc = "open", !.run = r, !.token = token, !.beats = TRUE, !.watched = TRUE]
  OBVIOUS
<1>4. /\ thread' = [thread EXCEPT ![c] = new]
      /\ lease' = [lease EXCEPT ![r] = [token |-> token, live |-> TRUE]]
      /\ UNCHANGED <<row, saved, decisions, reviews, up, cancelling, events>>
      /\ ~lease[r].live /\ Status(r) \in Claimable
  BY <1>2, <1>3 DEF Claim, Free
<1>5. /\ new \in Threads /\ new.pc = "open" /\ new.run = r /\ new.token = token /\ new.beats /\ new.watched
  <2>1. r \in 0..MaxRuns
    BY AlignmentAssumption DEF Runs
  <2>. QED BY <1>2, <1>3, <2>1, NoThreadTyped DEF NoThread, Threads, PCs
<1>6. \A s \in Runs : Status(s) # "absent" => row'[s].status # "absent"
  BY <1>4 DEF Status
<1>7. /\ thread' \in [Coordinators -> Threads] /\ Clean' /\ thread'[c] = new
      /\ \A d \in Coordinators \ {c} : thread'[d] = thread[d]
  BY <1>1, <1>4, <1>5, <1>6, CleanStep, StatusKinds
<1>8. lease' \in [Runs -> Leases] /\ up' \in [Coordinators -> BOOLEAN] /\ events' \in EventCounts
  BY <1>1, <1>2, <1>4 DEF Typed, Leases
<1>9. ASSUME events'.lapses = 0
      PROVE  /\ events.lapses = 0
             /\ \A d \in Coordinators : Active(d)' => ThreadFits(d)'
             /\ \A d, e \in Coordinators : d # e /\ Active(d)' /\ Active(e)' => Run(d)' # Run(e)'
  <2>1. events.lapses = 0 /\ Calm
    BY <1>1, <1>4, <1>9
  <2>2. ASSUME NEW d \in Coordinators \ {c}, Active(d)'
        PROVE  Active(d) /\ Run(d) # r /\ ThreadFits(d)' /\ Run(d)' = Run(d)
    <3>1. Active(d) /\ thread'[d] = thread[d]
      BY <1>7, <2>2 DEF Active
    <3>2. lease[Run(d)].live
      <4>1. ThreadFits(d)
        BY <2>1, <3>1 DEF Calm
      <4>. QED BY <4>1 DEF ThreadFits, Run
    <3>3. Run(d) \in Runs \ {r}
      BY <1>1, <1>4, <3>1, <3>2 DEF Clean
    <3>4. lease'[Run(d)] = lease[Run(d)]
      BY <1>4, <3>3
    <3>. QED BY <1>4, <2>1, <3>1, <3>3, <3>4, ThreadStays
  <2>3. ThreadFits(c)' /\ Run(c)' = r
    <3>1. lease'[r] = [token |-> token, live |-> TRUE] /\ Status(r)' = Status(r)
      BY <1>1, <1>4 DEF Typed, Status
    <3>. QED BY <1>4, <1>5, <1>7, <3>1 DEF ThreadFits, Working, Run
  <2>4. ASSUME NEW d \in Coordinators, NEW e \in Coordinators, d # e, Active(d)', Active(e)'
        PROVE  Run(d)' # Run(e)'
    <3>1. CASE d = c
      BY <2>2, <2>3, <2>4, <3>1
    <3>2. CASE e = c
      BY <2>2, <2>3, <2>4, <3>2
    <3>3. CASE d # c /\ e # c
      <4>1. Active(d) /\ Active(e) /\ Run(d)' = Run(d) /\ Run(e)' = Run(e)
        BY <2>2, <2>4, <3>3
      <4>. QED BY <2>1, <2>4, <4>1 DEF Calm
    <3>. QED BY <3>1, <3>2, <3>3
  <2>. QED BY <2>1, <2>2, <2>3, <2>4
<1>. QED BY <1>4, <1>7, <1>8, <1>9, RowsStay

\* The rest of what may happen to a lease.
LEMMA ExpireKeeps ==
    ASSUME IInv, NEW r \in Runs, Expire(r)
    PROVE  IInv'
<1>1. Typed /\ Clean /\ (events.lapses = 0 => Calm)
  BY TypesNamed DEF IInv
<1>2. /\ lease' = [lease EXCEPT ![r].live = FALSE]
      /\ UNCHANGED <<row, saved, decisions, reviews, thread, up, cancelling>>
      /\ (Held(r) => Lapse) /\ (~Held(r) => events' = events)
  BY DEF Expire
<1>3. /\ lease' \in [Runs -> Leases] /\ thread' \in [Coordinators -> Threads]
      /\ up' \in [Coordinators -> BOOLEAN] /\ events' \in EventCounts
  BY <1>1, <1>2, EventsCount DEF Typed, Leases
<1>4. Clean'
  BY <1>1, <1>2 DEF Clean, Active, Run, Status
<1>5. ASSUME events'.lapses = 0
      PROVE  /\ events.lapses = 0
             /\ \A d \in Coordinators : Active(d)' => ThreadFits(d)'
             /\ \A d, e \in Coordinators : d # e /\ Active(d)' /\ Active(e)' => Run(d)' # Run(e)'
  <2>1. ~Held(r) /\ events' = events
    BY <1>1, <1>2, <1>5, EventsCount
  <2>2. events.lapses = 0 /\ Calm
    BY <1>1, <1>5, <2>1
  <2>3. ASSUME NEW d \in Coordinators, Active(d)'
        PROVE  Active(d) /\ ThreadFits(d)' /\ Run(d)' = Run(d)
    <3>1. Active(d) /\ Run(d) \in Runs
      BY <1>1, <1>2, <2>3 DEF Active, Clean
    <3>2. Run(d) # r
      <4>1. ThreadFits(d)
        BY <2>2, <3>1 DEF Calm
      <4>2. thread[d].beats /\ HoldsLease(d)
        BY <4>1 DEF ThreadFits, HoldsLease, Run
      <4>. QED BY <2>1, <3>1, <4>2 DEF Held
    <3>3. lease'[Run(d)] = lease[Run(d)]
      BY <1>1, <1>2, <3>1, <3>2 DEF Typed
    <3>. QED BY <1>2, <2>2, <3>1, <3>3, ThreadStays
  <2>. QED BY <2>2, <2>3 DEF Calm
<1>. QED BY <1>2, <1>3, <1>4, <1>5, RowsStay

LEMMA HeartbeatKeeps ==
    ASSUME IInv, NEW c \in Coordinators, Renew(c) \/ LoseHeartbeat(c)
    PROVE  IInv'
<1>1. thread[c].pc # "none" /\ Active(c)
  BY DEF Renew, LoseHeartbeat, Active
<1>2. PICK r \in Runs : r = Run(c)
  BY <1>1, AtWork
<1>3. /\ Typed /\ Clean /\ Run(c) = r /\ thread[c].run = r /\ thread[c] \in Threads /\ Status(r) # "absent"
      /\ (events.lapses = 0 => ThreadFits(c))
  BY <1>1, <1>2, AtWork DEF IInv
<1>4. PICK beats \in BOOLEAN : thread' = [thread EXCEPT ![c] = [thread[c] EXCEPT !.beats = beats]]
  <2>1. thread[c] = [thread[c] EXCEPT !.beats = thread[c].beats] /\ thread = [thread EXCEPT ![c] = thread[c]]
    BY <1>3 DEF Typed, Threads
  <2>2. thread[c].beats \in BOOLEAN
    BY <1>3 DEF Threads
  <2>3. thread' = thread \/ thread' = [thread EXCEPT ![c] = [thread[c] EXCEPT !.beats = FALSE]]
    BY DEF Renew, LoseHeartbeat
  <2>. QED BY <2>1, <2>2, <2>3
<1>5. PICK new : new = [thread[c] EXCEPT !.beats = beats]
  OBVIOUS
<1>6. /\ new \in Threads /\ new.pc = thread[c].pc /\ new.run = r /\ new.step = thread[c].step
  BY <1>3, <1>5 DEF Threads
<1>7. /\ UNCHANGED <<row, saved, decisions, reviews, up, cancelling>>
      /\ lease' = lease \/ lease' = [lease EXCEPT ![r].live = TRUE]
  BY <1>2 DEF Renew, LoseHeartbeat, tables
<1>8. \A s \in Runs : Status(s) # "absent" => row'[s].status # "absent"
  BY <1>7 DEF Status
<1>9. thread' \in [Coordinators -> Threads] /\ Clean'
  <2>1. new.pc = "verdicts" => new.step = Verifying
    BY <1>1, <1>3, <1>6 DEF Clean
  <2>. QED BY <1>1, <1>3, <1>4, <1>5, <1>6, <1>8, <2>1, CleanStep
<1>10. lease' \in [Runs -> Leases] /\ up' \in [Coordinators -> BOOLEAN]
  <2>1. [lease[r] EXCEPT !.live = TRUE] \in Leases
    BY <1>3 DEF Typed, Leases
  <2>. QED BY <1>3, <1>7, <2>1 DEF Typed
<1>11. events' \in EventCounts /\ events'.lapses # 0
  <2>1. CASE Renew(c)
    <3>1. ~(HoldsLease(c) /\ lease[r].live)
      BY <1>2, <2>1 DEF Renew
    <3>2. events.lapses # 0
      BY <1>3, <3>1 DEF ThreadFits, HoldsLease
    <3>. QED BY <1>3, <2>1, <3>2 DEF Renew, Typed
  <2>2. CASE LoseHeartbeat(c)
    BY <1>3, <2>2, EventsCount DEF LoseHeartbeat
  <2>. QED BY <2>1, <2>2
<1>. QED BY <1>7, <1>9, <1>10, <1>11, RowsStay

\* A process stops, dies or starts.
LEMMA ProcessKeeps ==
    ASSUME IInv, NEW c \in Coordinators, Stop(c) \/ Crash(c) \/ Start(c)
    PROVE  IInv'
<1>1. Typed /\ Clean /\ (events.lapses = 0 => Calm) /\ thread[c] \in Threads
  BY TypesNamed DEF IInv, Typed
<1>2. /\ UNCHANGED <<row, saved, decisions, reviews, cancelling>>
      /\ lease' \in [Runs -> Leases] /\ up' \in [Coordinators -> BOOLEAN]
  <2>1. NoLease \in Leases
    BY AlignmentAssumption, FS_CardinalityType DEF NoLease, Leases, Tokens
  <2>. QED BY <1>1, <2>1 DEF Typed, Stop, Crash, Start, tables, Released
<1>3. \A s \in Runs : Status(s) # "absent" => row'[s].status # "absent"
  BY <1>2 DEF Status
<1>4. CASE Active(c) /\ Stop(c)
  <2>1. PICK new : new = [thread[c] EXCEPT !.beats = FALSE, !.watched = FALSE]
    OBVIOUS
  <2>2. thread' = [thread EXCEPT ![c] = new]
    BY <1>4, <2>1 DEF Stop, Becomes
  <2>3. new \in Threads /\ new.pc = thread[c].pc /\ new.run = thread[c].run /\ new.step = thread[c].step
    BY <1>1, <2>1 DEF Threads
  <2>4. /\ new.pc # "none" /\ new.run \in Runs /\ Status(new.run) # "absent"
        /\ new.pc = "verdicts" => new.step = Verifying
    BY <1>1, <1>4, <2>3 DEF Clean, Active, Run
  <2>5. thread' \in [Coordinators -> Threads] /\ Clean'
    BY <1>1, <1>3, <2>2, <2>3, <2>4, CleanStep
  <2>6. events' \in EventCounts /\ events'.lapses # 0
    BY <1>1, <1>4, EventsCount DEF Stop
  <2>. QED BY <1>2, <2>5, <2>6, RowsStay
<1>5. CASE ~(Active(c) /\ Stop(c))
  <2>1. thread' = [thread EXCEPT ![c] = NoThread] \/ thread' = thread
    BY <1>5 DEF Stop, Crash, Start, Becomes
  <2>2. thread' \in [Coordinators -> Threads] /\ Clean'
    <3>1. CASE thread' = [thread EXCEPT ![c] = NoThread]
      BY <1>1, <1>3, <3>1, CleanStep, NoThreadTyped
    <3>2. CASE thread' = thread
      BY <1>1, <1>2, <3>2 DEF Clean, Active, Run, Status, Typed
    <3>. QED BY <2>1, <3>1, <3>2
  <2>3. events' \in EventCounts /\ (events'.lapses = 0 => events.lapses = 0) /\ lease' = lease
    <3>1. CASE Start(c)
      BY <1>1, <3>1 DEF Start, tables, Typed
    <3>2. CASE Stop(c) \/ Crash(c)
      BY <1>1, <1>5, <3>2, EventsCount DEF Stop, Crash, tables
    <3>. QED BY <3>1, <3>2
  <2>4. ASSUME events'.lapses = 0
        PROVE  /\ \A d \in Coordinators : Active(d)' => ThreadFits(d)'
               /\ \A d, e \in Coordinators : d # e /\ Active(d)' /\ Active(e)' => Run(d)' # Run(e)'
    <3>1. Calm
      BY <1>1, <2>3, <2>4
    <3>2. ASSUME NEW d \in Coordinators, Active(d)'
          PROVE  Active(d) /\ ThreadFits(d)' /\ Run(d)' = Run(d)
      <4>1. thread'[d] = thread[d]
        BY <1>1, <2>1, <3>2, NoThreadTyped DEF Typed, Active
      <4>2. Active(d)
        BY <3>2, <4>1 DEF Active
      <4>. QED BY <1>2, <2>3, <3>1, <4>1, <4>2, ThreadStays
    <3>. QED BY <3>1, <3>2 DEF Calm
  <2>. QED BY <1>2, <2>2, <2>3, <2>4, RowsStay
<1>. QED BY <1>4, <1>5

----------------------------------------------------------------------------
\* The clients: a run is made.
LEMMA NewKeeps ==
    ASSUME IInv, NEW r \in Runs, CreateRun(r) \/ Retry(r)
    PROVE  IInv'
<1>1. Typed /\ Clean /\ Unique /\ (events.lapses = 0 => Calm)
  BY TypesNamed DEF IInv
<1>2. PICK input \in 0..MaxRuns :
          /\ New(r, input)
          /\ \/ input = r
             \/ \E p \in Runs :
                   /\ p < r /\ Status(p) \in {"failed", "cancelled"} /\ input = row[p].input
                   /\ \A s \in Runs : row[s].input = row[p].input => s <= p
  <2>1. r \in 0..MaxRuns /\ \A p \in Runs : row[p].input \in 0..MaxRuns
    BY <1>1, AlignmentAssumption DEF Typed, Rows, Runs
  <2>. QED BY <2>1 DEF CreateRun, Retry
<1>3. PICK v \in BOOLEAN :
          row' = [row EXCEPT ![r] = [status |-> "queued", input |-> input, cancel |-> FALSE, verify |-> v]]
  BY <1>2 DEF New
<1>4. /\ Status(r) = "absent" /\ \A s \in Runs : s < r => Status(s) # "absent"
      /\ UNCHANGED <<lease, saved, decisions, reviews, thread, up, cancelling>>
      /\ events' \in EventCounts /\ events'.lapses = events.lapses
  BY <1>1, <1>2, EventsCount DEF New, CreateRun, Retry, Typed
<1>5. /\ row' \in [Runs -> Rows] /\ row'[r].status = "queued" /\ row'[r].input = input
      /\ \A s \in Runs \ {r} : row'[s] = row[s]
  <2>1. "queued" \in Statuses
    BY StatusKinds
  <2>. QED BY <1>1, <1>3, <2>1 DEF Typed, Rows
<1>6. Typed'
  BY <1>1, <1>4, <1>5 DEF Typed
<1>7. TypeOK'
  BY <1>6 DEF Typed, TypeOK, Rows, Leases, Threads, EventCounts, Decisions
<1>8. Unique'
  <2>1. \A s \in Runs : row'[s].status \in {"active", "superseded"} => row'[s] = row[s]
    BY <1>5
  <2>. QED BY <1>1, <2>1, NothingPublished
<1>9. Clean'
  BY <1>1, <1>4, <1>5 DEF Clean, Active, Run, Status
<1>10. ASSUME Calm PROVE Calm'
  <2>1. \A s \in Runs \ {r} : Kept(s) /\ Status(s)' = Status(s)
    BY <1>4, <1>5 DEF Kept, Status
  <2>2. RunFits(r)'
    <3>1. decisions'[r] = "none" /\ Status(r)' = "queued"
      BY <1>4, <1>5, <1>10 DEF Calm, RunFits, Status
    <3>2. /\ Position("queued") = 1 /\ \A m \in 1..(K + 1) : ~(m < 1)
          /\ ~(1 > Deciding) /\ ~(1 > Verifying)
      BY PositionIs, StepsAre DEF Deciding, Verifying
    <3>. QED BY <3>1, <3>2, StatusKinds DEF RunFits, Behind, Published
  <2>3. \A s \in Runs : RunFits(s)'
    BY <1>10, <2>1, <2>2, KeptRun DEF Calm
  <2>4. RetriedFits'
    <3>1. \A s \in Runs : s \in Nat
      BY DEF Runs
    <3>2. \A s \in Runs : r < s => Status(s) = "absent"
      BY <1>4, <1>10 DEF Calm, RetriedFits
    <3>3. \A s \in Runs : Status(s) # "absent" => row[s].input \in 1..s
      BY <1>10 DEF Calm, RetriedFits
    <3>4. input \in 1..r
      <4>1. CASE input = r
        <5>1. r \in Nat /\ r >= 1
          BY DEF Runs
        <5>. QED BY <4>1, <5>1
      <4>2. CASE input # r
        <5>1. PICK p \in Runs : p < r /\ Status(p) \in {"failed", "cancelled"} /\ input = row[p].input
          BY <1>2, <4>2
        <5>2. input \in 1..p
          BY <3>3, <5>1, StatusKinds
        <5>. QED BY <3>1, <5>1, <5>2
      <4>. QED BY <4>1, <4>2
    <3>5. ASSUME NEW s \in Runs, Status(s)' # "absent"
          PROVE  row'[s].input \in 1..s /\ \A q \in Runs : q < s => Status(q)' # "absent"
      <4>1. CASE s = r
        BY <1>4, <1>5, <3>4, <3>1, <4>1 DEF Status
      <4>2. CASE s # r
        <5>1. Status(s) # "absent" /\ row'[s] = row[s] /\ s < r
          BY <1>5, <3>1, <3>2, <3>5, <4>2 DEF Status
        <5>. QED BY <1>4, <1>5, <3>1, <3>3, <5>1 DEF Status
      <4>. QED BY <4>1, <4>2
    <3>6. ASSUME NEW q \in Runs, NEW s \in Runs, q < s, Status(s)' # "absent", row'[q].input = row'[s].input
          PROVE  Status(q)' \in {"failed", "cancelled"}
      <4>1. CASE s = r
        <5>1. q # r /\ Status(q) # "absent" /\ row[q].input = input /\ row[q].input \in 1..q
          BY <1>4, <1>5, <3>1, <3>3, <3>6, <4>1
        <5>2. input # r
          BY <3>1, <3>6, <4>1, <5>1
        <5>3. PICK p \in Runs : /\ Status(p) \in {"failed", "cancelled"} /\ input = row[p].input
                                /\ \A t \in Runs : row[t].input = row[p].input => t <= p
          BY <1>2, <5>2
        <5>4. q = p \/ q < p
          BY <3>1, <5>1, <5>3
        <5>5. Status(q) \in {"failed", "cancelled"}
          BY <1>10, <5>1, <5>3, <5>4, StatusKinds DEF Calm, RetriedFits
        <5>. QED BY <2>1, <5>1, <5>5
      <4>2. CASE s # r
        <5>1. Status(s) # "absent" /\ row'[s] = row[s] /\ s < r /\ q # r
          BY <1>5, <3>1, <3>2, <3>6, <4>2 DEF Status
        <5>2. row'[q] = row[q]
          BY <1>5, <5>1
        <5>3. Status(q) \in {"failed", "cancelled"}
          BY <1>10, <3>6, <5>1, <5>2 DEF Calm, RetriedFits
        <5>. QED BY <2>1, <5>1, <5>3
      <4>. QED BY <4>1, <4>2
    <3>. QED BY <3>5, <3>6 DEF RetriedFits
  <2>5. ASSUME NEW d \in Coordinators, Active(d)'
        PROVE  Active(d) /\ ThreadFits(d)' /\ Run(d)' = Run(d)
    <3>1. Active(d) /\ thread'[d] = thread[d]
      BY <1>4, <2>5 DEF Active
    <3>2. Run(d) \in Runs \ {r}
      BY <1>1, <1>4, <3>1 DEF Clean
    <3>3. lease'[Run(d)] = lease[Run(d)] /\ Kept(Run(d)) /\ ThreadFits(d)
      BY <1>4, <1>10, <2>1, <3>1, <3>2 DEF Calm
    <3>. QED BY <1>4, <3>1, <3>3, KeptThread DEF Run
  <2>. QED BY <1>10, <2>3, <2>4, <2>5 DEF Calm
<1>. QED BY <1>1, <1>4, <1>7, <1>8, <1>9, <1>10 DEF IInv

\* The clients: a run is cancelled or reviewed.
LEMMA ClientsKeep ==
    ASSUME IInv, NEW r \in Runs, ReadToCancel(r) \/ WriteCancel(r) \/ AddReview(r)
    PROVE  IInv'
<1>1. Typed /\ Clean /\ Unique /\ (events.lapses = 0 => Calm)
  BY TypesNamed DEF IInv
<1>2. /\ UNCHANGED <<lease, saved, decisions, thread, up, events>>
      /\ row' = row \/ row' = [row EXCEPT ![r].cancel = TRUE]
      /\ cancelling' \in SUBSET Runs
      /\ reviews' \in [Runs -> 0..MaxReviews]
  <2>1. AddReview(r) => reviews' \in [Runs -> 0..MaxReviews]
    BY <1>1, AlignmentAssumption DEF Typed, AddReview
  <2>. QED BY <1>1, <2>1 DEF Typed, ReadToCancel, WriteCancel, AddReview, tables
<1>3. row' \in [Runs -> Rows] /\ \A s \in Runs : Kept(s) /\ row'[s].status = row[s].status
  <2>1. CASE row' = row
    BY <1>1, <1>2, <2>1 DEF Typed, Kept
  <2>2. CASE row' = [row EXCEPT ![r].cancel = TRUE]
    <3>1. \A s \in Runs : /\ row'[s] \in Rows
                          /\ row'[s].status = row[s].status /\ row'[s].input = row[s].input
                          /\ row'[s].verify = row[s].verify
      BY <1>1, <2>2 DEF Typed, Rows
    <3>2. row' \in [Runs -> Rows]
      BY <1>1, <2>2, <3>1 DEF Typed
    <3>. QED BY <1>2, <3>1, <3>2 DEF Kept
  <2>. QED BY <1>2, <2>1, <2>2
<1>4. Typed'
  BY <1>1, <1>2, <1>3 DEF Typed
<1>5. TypeOK'
  BY <1>4 DEF Typed, TypeOK, Rows, Leases, Threads, EventCounts, Decisions
<1>6. Unique'
  BY <1>1, <1>3, NothingPublished DEF Kept
<1>7. Clean'
  BY <1>1, <1>2, <1>3 DEF Clean, Active, Run, Status
<1>8. Calm => Calm'
  BY <1>1, <1>2, <1>3, CalmStays
<1>. QED BY <1>1, <1>2, <1>5, <1>6, <1>7, <1>8 DEF IInv

----------------------------------------------------------------------------
LEMMA IInvInit == Init => IInv
<1>. SUFFICES ASSUME Init PROVE IInv
  OBVIOUS
<1>1. 0 \in 0..MaxRuns /\ 0 \in 0..MaxReviews /\ 0 \in 0..MaxEvents /\ 0 \in Tokens
  BY AlignmentAssumption, FS_CardinalityType DEF Tokens
<1>2. /\ row \in [Runs -> Rows] /\ lease \in [Runs -> Leases] /\ saved \in [Runs -> SUBSET Stages]
      /\ decisions \in [Runs -> Decisions] /\ reviews \in [Runs -> 0..MaxReviews]
      /\ up \in [Coordinators -> BOOLEAN] /\ cancelling \in SUBSET Runs /\ events \in EventCounts
  BY <1>1 DEF Init, Rows, Leases, NoLease, Decisions, EventCounts, Statuses
<1>3. thread \in [Coordinators -> Threads] /\ \A c \in Coordinators : thread[c] = NoThread /\ ~Active(c)
  BY NoThreadTyped DEF Init, Active
<1>4. TypeOK
  BY <1>2, <1>3 DEF TypeOK, Rows, Leases, Threads, EventCounts, Decisions
<1>5. \A r \in Runs : Status(r) = "absent" /\ decisions[r] = "none"
  BY DEF Init, Status
<1>6. Unique /\ RetriedFits
  BY <1>5 DEF Unique, Published, RetriedFits
<1>7. \A r \in Runs : RunFits(r)
  BY <1>5, StatusKinds DEF RunFits, Published
<1>. QED BY <1>3, <1>4, <1>6, <1>7 DEF IInv, Clean, Calm

LEMMA ThreadStepKeeps ==
    ASSUME IInv, NEW c \in Coordinators, ThreadStep(c)
    PROVE  IInv'
BY OpenKeeps, EndKeeps, GuardLeaseKeeps, EnterKeeps, GuardCancelKeeps, SaveStageKeeps, SaveRaisesKeeps,
   SaveDecisionsKeeps,
   SaveVerificationsKeeps, ActivateKeeps, RaisingKeeps, LeaveKeeps DEF ThreadStep

LEMMA IInvStep == IInv /\ [Next]_vars => IInv'
<1>. SUFFICES ASSUME IInv, [Next]_vars PROVE IInv'
  OBVIOUS
<1>1. CASE UNCHANGED vars
  <2>1. IInv' = IInv
    BY <1>1 DEF vars, tables, IInv, TypeOK, Clean, Unique, Calm, RunFits, RetriedFits, ThreadFits, Active, Run,
                Status, Published, Whole, Behind, StatusAt
  <2>. QED BY <2>1
<1>2. CASE \E r \in Runs : CreateRun(r) \/ Retry(r)
  BY <1>2, NewKeeps
<1>3. CASE \E r \in Runs : ReadToCancel(r) \/ WriteCancel(r) \/ AddReview(r) \/ Expire(r)
  BY <1>3, ClientsKeep, ExpireKeeps
<1>4. CASE \E c \in Coordinators, r \in Runs : Claim(c, r)
  BY <1>4, ClaimKeeps
<1>5. CASE \E c \in Coordinators :
              Renew(c) \/ LoseHeartbeat(c) \/ Raise(c) \/ ThreadStep(c) \/ Stop(c) \/ Crash(c) \/ Start(c)
  BY <1>5, HeartbeatKeeps, RaisingKeeps, ThreadStepKeeps, ProcessKeeps
<1>. QED BY <1>1, <1>2, <1>3, <1>4, <1>5 DEF Next

\* The inductive invariant, through everything the clients, the coordinators, their threads and
\* deaths of their processes do.
THEOREM Invariance == Spec => []IInv
BY IInvInit, IInvStep, PTL DEF Spec

\* The types; one run is active and one run of an input is published, whatever happens to leases; and
\* as long as no executor has outlived its lease, what activate_run publishes was built in full, and no
\* run of its input is left to be built (process_run, activate_run, create_run).
THEOREM RunsAreSoundTheorem == Spec => []RunsAreSound
<1>1. IInv => RunsAreSound
  <2>. SUFFICES ASSUME IInv PROVE PublishedIsWhole
    BY DEF IInv, RunsAreSound
  <2>1. Unique
    BY DEF IInv
  <2>2. ASSUME events.lapses = 0, NEW r \in Runs, Published(r)
        PROVE  Whole(r) /\ \A s \in Runs : row[s].input = row[r].input => Status(s) \notin Claimable
    <3>1. RetriedFits /\ RunFits(r)
      BY <2>2 DEF IInv, Calm
    <3>2. ASSUME NEW s \in Runs, row[s].input = row[r].input
          PROVE  Status(s) \notin Claimable
      <4>1. CASE s = r
        BY <2>2, <4>1, StatusKinds DEF Published
      <4>2. CASE s < r
        BY <2>2, <3>1, <3>2, <4>2, StatusKinds DEF RetriedFits, Published
      <4>3. CASE r < s
        BY <2>2, <3>1, <3>2, <4>3, StatusKinds DEF RetriedFits, Published
      <4>4. s = r \/ s < r \/ r < s
        BY DEF Runs
      <4>. QED BY <4>1, <4>2, <4>3, <4>4
    <3>. QED BY <2>2, <3>1, <3>2 DEF RunFits
  <2>. QED BY <2>1, <2>2 DEF PublishedIsWhole, Unique, Whole
<1>. QED BY <1>1, Invariance, PTL

----------------------------------------------------------------------------
\* A run that is over, and the step that finds it.
OverStays(r) ==
    Decided(r) =>
       /\ row'[r].status \in {Status(r)} \cup (IF Status(r) = "active" THEN {"superseded"} ELSE {})
       /\ decisions'[r] = decisions[r] /\ reviews'[r] >= reviews[r]

LEMMA OverSame ==
    ASSUME Typed, NEW r \in Runs, UNCHANGED <<decisions, reviews>>, row'[r].status = row[r].status
    PROVE  OverStays(r)
BY DEF Typed, OverStays, Status

\* The thread of a run whose lease is kept works on one that is not over.
LEMMA OverByThread ==
    ASSUME IInv, events.lapses = 0, NEW c \in Coordinators, ThreadStep(c), NEW r \in Runs
    PROVE  OverStays(r)
<1>1. thread[c].pc # "none"
  BY DEF ThreadStep, Open, Drop, GuardLease, Enter, GuardCancel, SaveStage, SaveRaises, SaveDecisions, SaveVerifications,
         Activate, ReadToFail, Fail, Leave
<1>2. PICK s \in Runs : s = Run(c)
  BY <1>1, AtWork
<1>3. Typed /\ Run(c) = s /\ ThreadFits(c)
  BY <1>1, <1>2, AtWork DEF IInv
<1>4. thread[c].pc # "leave" => Status(s) \in Claimable /\ ~Decided(s)
  BY <1>2, <1>3, StatusKinds DEF ThreadFits, Run, Decided
<1>5. /\ row \in [Runs -> Rows] /\ decisions \in [Runs -> Decisions] /\ reviews \in [Runs -> 0..MaxReviews]
  BY <1>3 DEF Typed
<1>6. CASE Open(c) \/ GuardLease(c) \/ GuardCancel(c) \/ ReadToFail(c) \/ SaveRaises(c) \/ SaveVerifications(c) \/ Leave(c)
  BY <1>3, <1>6, OverSame DEF Open, GuardLease, GuardCancel, ReadToFail, SaveRaises, SaveVerifications, Leave, tables
<1>7. CASE Drop(c) \/ Enter(c) \/ Fail(c)
  <2>1. /\ UNCHANGED <<decisions, reviews>> /\ thread[c].pc # "leave"
        /\ row' = row \/ \E to : row' = [row EXCEPT ![s].status = to]
    BY <1>2, <1>7 DEF Drop, Enter, Fail, Moves
  <2>2. CASE r = s
    BY <1>4, <2>1, <2>2 DEF OverStays
  <2>3. CASE r # s
    BY <1>3, <1>5, <2>1, <2>3, OverSame
  <2>. QED BY <2>2, <2>3
<1>8. CASE SaveStage(c) \/ SaveDecisions(c)
  <2>1. /\ thread[c].pc # "leave" /\ UNCHANGED row
        /\ r # s => decisions'[r] = decisions[r] /\ reviews'[r] = reviews[r]
    BY <1>2, <1>5, <1>8 DEF SaveStage, SaveDecisions
  <2>2. CASE r = s
    BY <1>4, <2>1, <2>2 DEF OverStays
  <2>3. CASE r # s
    BY <1>5, <2>1, <2>3 DEF OverStays, Status
  <2>. QED BY <2>2, <2>3
<1>9. CASE Activate(c)
  <2>1. /\ thread[c].pc # "leave" /\ UNCHANGED <<decisions, reviews>>
        /\ \/ row' = row
           \/ row' = [t \in Runs |-> CASE t = s                -> [row[t] EXCEPT !.status = "active"]
                                       [] Status(t) = "active" -> [row[t] EXCEPT !.status = "superseded"]
                                       [] OTHER                -> row[t]]
    BY <1>2, <1>9 DEF Activate
  <2>2. CASE r = s
    BY <1>4, <2>1, <2>2 DEF OverStays
  <2>3. CASE r # s /\ row' = row
    BY <1>3, <2>1, <2>3, OverSame
  <2>4. CASE r # s /\ row' # row
    <3>1. row'[r] = CASE r = s                -> [row[r] EXCEPT !.status = "active"]
                      [] Status(r) = "active" -> [row[r] EXCEPT !.status = "superseded"]
                      [] OTHER                -> row[r]
      BY <2>1, <2>4
    <3>2. CASE Status(r) = "active"
      <4>1. row'[r].status = "superseded"
        BY <1>5, <2>4, <3>1, <3>2 DEF Rows
      <4>. QED BY <1>5, <2>1, <3>2, <4>1 DEF OverStays
    <3>3. CASE Status(r) # "active"
      <4>1. row'[r] = row[r]
        BY <2>4, <3>1, <3>3
      <4>. QED BY <1>3, <2>1, <4>1, OverSame
    <3>. QED BY <3>2, <3>3
  <2>. QED BY <2>2, <2>3, <2>4
<1>. QED BY <1>6, <1>7, <1>8, <1>9 DEF ThreadStep

LEMMA OverStep ==
    ASSUME IInv, [Next]_vars, events.lapses = 0, NEW r \in Runs
    PROVE  OverStays(r)
<1>1. Typed
  BY TypesNamed DEF IInv
<1>2. CASE \E s \in Runs : CreateRun(s) \/ Retry(s)
  <2>1. PICK s \in Runs : CreateRun(s) \/ Retry(s)
    BY <1>2
  <2>2. /\ Status(s) = "absent" /\ UNCHANGED <<decisions, reviews>>
        /\ \E new : row' = [row EXCEPT ![s] = new]
    BY <2>1 DEF CreateRun, Retry, New
  <2>3. CASE r = s
    BY <2>2, <2>3, StatusKinds DEF OverStays, Decided
  <2>4. CASE r # s
    BY <1>1, <2>2, <2>4, OverSame DEF Typed
  <2>. QED BY <2>3, <2>4
<1>3. CASE \E s \in Runs : WriteCancel(s)
  <2>1. PICK s \in Runs : WriteCancel(s)
    BY <1>3
  <2>2. row'[r].status = row[r].status
    BY <1>1, <2>1 DEF WriteCancel, Typed, Rows
  <2>. QED BY <1>1, <2>1, <2>2, OverSame DEF WriteCancel
<1>4. CASE \E s \in Runs : AddReview(s)
  <2>1. PICK s \in Runs : AddReview(s)
    BY <1>4
  <2>2. reviews'[r] >= reviews[r] /\ UNCHANGED <<row, decisions>>
    BY <1>1, <2>1, AlignmentAssumption DEF AddReview, Typed
  <2>. QED BY <2>2 DEF OverStays, Status
<1>5. CASE \E c \in Coordinators : ThreadStep(c)
  BY <1>5, OverByThread
<1>6. CASE UNCHANGED <<row, decisions, reviews>>
  BY <1>1, <1>6, OverSame
<1>7. CASE \/ UNCHANGED vars
           \/ \E s \in Runs : ReadToCancel(s) \/ Expire(s)
           \/ \E c \in Coordinators, s \in Runs : Claim(c, s)
           \/ \E c \in Coordinators : Renew(c) \/ LoseHeartbeat(c) \/ Raise(c) \/ Stop(c) \/ Crash(c) \/ Start(c)
  <2>1. UNCHANGED <<row, decisions, reviews>>
    BY <1>7 DEF vars, tables, ReadToCancel, Expire, Claim, Renew, LoseHeartbeat, Raise, Stop, Crash, Start
  <2>. QED BY <1>6, <2>1
<1>. QED BY <1>2, <1>3, <1>4, <1>5, <1>7 DEF Next

\* A run is over once, as long as no executor has outlived its lease (update_status, activate_run).
THEOREM VerdictIsFinalTheorem == Spec => VerdictIsFinal
<1>1. IInv /\ [Next]_vars =>
         [events.lapses = 0 => \A r \in Runs : Decided(r) =>
             row'[r].status \in {Status(r)} \cup (IF Status(r) = "active" THEN {"superseded"} ELSE {})]_vars
  BY OverStep DEF OverStays
<1>. QED BY <1>1, Invariance, PTL DEF Spec, VerdictIsFinal

\* Decisions of a published run and their reviews stay, as long as no executor has outlived its
\* lease (save_decisions, add_review).
THEOREM PublishedIsStableTheorem == Spec => PublishedIsStable
<1>1. IInv /\ [Next]_vars =>
         [events.lapses = 0 => \A r \in Runs : Published(r) =>
             decisions'[r] = decisions[r] /\ reviews'[r] >= reviews[r]]_vars
  <2>1. \A r : Published(r) => Decided(r)
    BY StatusKinds DEF Published, Decided
  <2>. QED BY <2>1, OverStep DEF OverStays
<1>. QED BY <1>1, Invariance, PTL DEF Spec, PublishedIsStable
=============================================================================
