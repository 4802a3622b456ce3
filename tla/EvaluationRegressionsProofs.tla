-------------------- MODULE EvaluationRegressionsProofs --------------------
(***************************************************************************)
(* What EvaluationRegressions keeps for every set of actors, results and   *)
(* baseline candidates: no status changes without its event, recurrences   *)
(* are counted, verified faults have their case, a scope one baseline.     *)
(***************************************************************************)
EXTENDS EvaluationRegressions, FiniteSetTheorems, TLAPS

\* The revision a save has to carry.
NextRevision == IF bad = NoBad THEN 0 ELSE bad.revision + 1

\* The event of what an actor is about to save.
EventOf(a) == [from |-> actor[a].from, to |-> actor[a].copy.status, by |-> actor[a].by]

InFlight(a) == actor[a].pc \in {"reopen", "recur", "event", "save"}

\* A copy is never ahead of the row, and one that can be saved was made from the row as it is.
CopyFits(a) ==
    /\ actor[a].copy.status \in BadStatuses
    /\ actor[a].copy.revision <= NextRevision
    /\ bad # NoBad /\ Saves(actor[a].copy) => actor[a].from = bad.status
    /\ actor[a].copy.verification => promoted

Fits(a) ==
    /\ InFlight(a) => CopyFits(a)
    /\ actor[a].pc \in {"reopen", "recur"} =>
          /\ actor[a].by \in Results /\ actor[a].copy.last = actor[a].by
          /\ Saves(actor[a].copy) => actor[a].copy.count = bad.count + 1
    /\ actor[a].pc \in {"event", "save"} =>
          /\ actor[a].by = "client" /\ actor[a].copy.last = "client"
          /\ Saves(actor[a].copy) => actor[a].copy.count = bad.count
    /\ actor[a].pc \in {"reopen", "event", "save"} =>
          actor[a].from \in BadStatuses /\ actor[a].copy.revision > 0
    /\ At(a, "recur") /\ actor[a].copy.revision > 0 =>
          actor[a].copy.status = actor[a].from \/ events[actor[a].copy.revision] = EventOf(a)
    /\ At(a, "save") => events[actor[a].copy.revision] = EventOf(a)
    /\ actor[a].pc \in {"find", "occur"} => actor[a].by \in Results
    /\ At(a, "promotion") => Case \in version.cases
    /\ lapses = 0 /\ actor[a].by \in Results => actor[a].by \notin occurrences

\* A result is analysed by one actor at a time, until a lease has lapsed.
Distinct ==
    lapses = 0 =>
        \A a, b \in Actors : actor[a].by \in Results /\ actor[a].by = actor[b].by => a = b

\* The results whose analysis has counted, whether it has said so or not.
Counted == occurrences \cup {actor[a].by : a \in {b \in Actors : At(b, "occur")}}

\* The result the row was saved for last is paid for, though its occurrence may never come.
Last == {bad.last} \cap Results

CountFits ==
    /\ Cardinality(Counted \cup Last) <= bad.count
    /\ crashes = 0 => Last \subseteq Counted
    /\ crashes = 0 /\ lapses = 0 => bad.count = Cardinality(Counted)

BadFits ==
    /\ bad # NoBad => bad.status \in BadStatuses
    /\ bad.verification => promoted
    /\ promoted => Case \in version.cases

\* The inductive invariant.
IInv ==
    /\ TypeOK /\ OneActiveBaseline
    /\ BadFits /\ CountFits /\ Distinct
    /\ \A a \in Actors : Fits(a)

ActorRecords == [pc : PCs, copy : BadCases, from : BadStatuses \cup {"absent", "none"}, by : By,
                 seen : SUBSET {Case, Other}]

----------------------------------------------------------------------------
LEMMA NoBadFits ==
    /\ NoBad \in BadCases
    /\ NoBad.status = "absent" /\ NoBad.revision = 0 /\ NoBad.count = 0 /\ ~NoBad.verification
    /\ NoBad.last = "none"
  BY RegressionAssumption DEF NoBad, BadCases, By

LEMMA FirstSeenFits ==
    ASSUME NEW q \in Results
    PROVE  /\ FirstSeen(q) \in BadCases /\ FirstSeen(q).status \in BadStatuses
           /\ FirstSeen(q).revision = 0 /\ FirstSeen(q).count = 1 /\ ~FirstSeen(q).verification
           /\ FirstSeen(q).last = q
  BY RegressionAssumption DEF FirstSeen, BadCases, BadStatuses, By

LEMMA IdleFits ==
    /\ Idle \in ActorRecords
    /\ Idle.pc = "idle" /\ Idle.by = "none" /\ Idle.copy = NoBad /\ Idle.from = "none" /\ Idle.seen = {}
  <1>1. Idle.pc = "idle" /\ Idle.by = "none" /\ Idle.copy = NoBad /\ Idle.from = "none" /\ Idle.seen = {}
    BY DEF Idle
  <1>2. Idle \in ActorRecords
    BY NoBadFits DEF Idle, ActorRecords, PCs, By
  <1> QED
    BY <1>1, <1>2

\* An actor whose record stays fits, while rows grow as they do.
LEMMA OthersFit ==
    ASSUME TypeOK, NEW b \in Actors, Fits(b), actor'[b] = actor[b],
           bad' = bad \/ (bad' # NoBad /\ bad'.revision = NextRevision),
           \A n \in 1..MaxRevision : events[n] # NoEvent => events'[n] = events[n],
           promoted => promoted',
           Case \in version.cases => Case \in version'.cases,
           lapses' = 0 /\ actor[b].by \in Results => actor[b].by \notin occurrences'
    PROVE  Fits(b)'
  <1>1. actor[b] \in ActorRecords /\ bad \in BadCases
    BY DEF TypeOK, ActorRecords
  <1>2. actor[b].copy.revision \in Int /\ bad.revision \in Int /\ NextRevision \in Int
    BY <1>1 DEF ActorRecords, BadCases, NextRevision
  <1> DEFINE r == actor[b].copy.revision
  <1>3. ASSUME InFlight(b), Saves(actor[b].copy)'
        PROVE  bad' = bad /\ Saves(actor[b].copy)
    <2>1. r <= NextRevision
      BY <1>3 DEF Fits, CopyFits
    <2>2. CASE bad' = bad
      BY <1>3, <2>2 DEF Saves
    <2>3. CASE bad' # NoBad /\ bad'.revision = NextRevision
      <3>1. r = NextRevision + 1
        BY <1>3, <2>3 DEF Saves
      <3> QED
        BY <1>2, <2>1, <3>1
    <2> QED
      BY <2>2, <2>3
  <1>4. InFlight(b) => r <= NextRevision'
    <2>1. NextRevision <= NextRevision'
      BY <1>2 DEF NextRevision
    <2>2. NextRevision' \in Int
      BY <1>2 DEF NextRevision
    <2> QED
      BY <1>2, <2>1, <2>2 DEF Fits, CopyFits
  <1>5. EventOf(b)' = EventOf(b)
    BY DEF EventOf
  <1>6. actor[b].by # "none" => EventOf(b) # NoEvent
    BY DEF EventOf, NoEvent
  <1>7. r > 0 => r \in 1..MaxRevision
    BY <1>1 DEF ActorRecords, BadCases
  <1>8. r > 0 /\ actor[b].by # "none" /\ events[r] = EventOf(b) => events'[r] = EventOf(b)'
    BY <1>5, <1>6, <1>7
  <1>9. InFlight(b) => CopyFits(b)'
    BY <1>3, <1>4 DEF Fits, CopyFits
  <1>10. "none" \notin Results
    BY RegressionAssumption
  <1>11. InFlight(b)' <=> InFlight(b)
    BY DEF InFlight
  <1> QED
    BY <1>3, <1>8, <1>9, <1>10, <1>11 DEF Fits, InFlight, At
\* A step of one actor keeps the invariant when its own part holds and rows grow as they do.
LEMMA Assembled ==
    ASSUME IInv, NEW a \in Actors, TypeOK', OneActiveBaseline', BadFits', CountFits', Fits(a)',
           \A b \in Actors \ {a} : actor'[b] = actor[b],
           bad' = bad \/ (bad' # NoBad /\ bad'.revision = NextRevision),
           \A n \in 1..MaxRevision : events[n] # NoEvent => events'[n] = events[n],
           promoted => promoted',
           Case \in version.cases => Case \in version'.cases,
           lapses' = 0 => lapses = 0,
           lapses' = 0 /\ actor'[a].by \in Results =>
              actor'[a].by = actor[a].by \/ \A b \in Actors : actor[b].by # actor'[a].by,
           \A b \in Actors \ {a} : lapses' = 0 /\ actor[b].by \in Results => actor[b].by \notin occurrences'
    PROVE  IInv'
  <1>1. ASSUME NEW b \in Actors \ {a} PROVE Fits(b)'
    BY OthersFit DEF IInv
  <1>2. Distinct'
    <2> SUFFICES ASSUME NEW b \in Actors, NEW d \in Actors,
                        lapses' = 0, actor'[b].by \in Results, actor'[b].by = actor'[d].by
                 PROVE  b = d
      BY DEF Distinct
    <2>1. CASE b # a /\ d # a
      BY <2>1 DEF IInv, Distinct
    <2>2. CASE b = a /\ d # a
      BY <2>2 DEF IInv, Distinct
    <2>3. CASE b # a /\ d = a
      BY <2>3 DEF IInv, Distinct
    <2> QED
      BY <2>1, <2>2, <2>3
  <1> QED
    BY <1>1, <1>2 DEF IInv

\* What Goes and Ends do to the actors.
LEMMA GoesTo ==
    ASSUME TypeOK, NEW a \in Actors, NEW pc \in PCs, Goes(a, pc)
    PROVE  /\ actor' \in [Actors -> ActorRecords]
           /\ actor'[a].pc = pc /\ actor'[a].copy = actor[a].copy /\ actor'[a].from = actor[a].from
           /\ actor'[a].by = actor[a].by /\ actor'[a].seen = actor[a].seen
           /\ \A b \in Actors \ {a} : actor'[b] = actor[b]
  <1>1. actor \in [Actors -> ActorRecords]
    BY DEF TypeOK, ActorRecords
  <1>2. actor' = [actor EXCEPT ![a] = [actor[a] EXCEPT !.pc = pc]]
    BY <1>1 DEF Goes
  <1>3. actor[a] \in ActorRecords
    BY <1>1
  <1> DEFINE rec == [actor[a] EXCEPT !.pc = pc]
  <1>4. /\ rec \in ActorRecords /\ rec.pc = pc /\ rec.copy = actor[a].copy /\ rec.from = actor[a].from
        /\ rec.by = actor[a].by /\ rec.seen = actor[a].seen
    BY <1>3 DEF ActorRecords
  <1> HIDE DEF rec
  <1>5. actor' = [actor EXCEPT ![a] = rec]
    BY <1>2 DEF rec
  <1> QED
    BY <1>1, <1>4, <1>5

LEMMA EndsTo ==
    ASSUME TypeOK, NEW a \in Actors, Ends(a)
    PROVE  /\ actor' \in [Actors -> ActorRecords] /\ actor'[a] = Idle
           /\ \A b \in Actors \ {a} : actor'[b] = actor[b]
           /\ Fits(a)' /\ actor'[a].by \notin Results /\ ~At(a, "occur")'
  <1>1. actor \in [Actors -> ActorRecords]
    BY DEF TypeOK, ActorRecords
  <1>2. /\ actor' \in [Actors -> ActorRecords] /\ actor'[a] = Idle
        /\ \A b \in Actors \ {a} : actor'[b] = actor[b]
    BY <1>1, IdleFits DEF Ends
  <1>3. actor'[a].pc = "idle" /\ actor'[a].by = "none"
    BY <1>2, IdleFits
  <1>4. "none" \notin Results
    BY RegressionAssumption
  <1> QED
    BY <1>2, <1>3, <1>4 DEF Fits, InFlight, At

\* There are finitely many of them, however many are added or left out.
LEMMA CountedFits ==
    ASSUME IInv
    PROVE  /\ Counted \subseteq Results /\ IsFiniteSet(Counted) /\ bad.count \in Nat
           /\ Cardinality(Counted) \in Nat /\ Cardinality(Counted \cup Last) \in Nat
           /\ Cardinality(Counted) <= Cardinality(Counted \cup Last)
  <1>1. Counted \subseteq Results
    BY DEF IInv, TypeOK, Fits, At, Counted
  <1>2. Counted \cup Last \subseteq Results
    BY <1>1 DEF Last
  <1>3. IsFiniteSet(Counted) /\ IsFiniteSet(Counted \cup Last)
    BY <1>1, <1>2, RegressionAssumption, FS_Subset
  <1>4. Cardinality(Counted) <= Cardinality(Counted \cup Last)
    BY <1>3, FS_Subset
  <1>5. bad.count \in Nat
    BY DEF IInv, TypeOK, BadCases
  <1> QED
    BY <1>1, <1>3, <1>4, <1>5, FS_CardinalityType

\* The count stays right while neither it nor the counted results change.
LEMMA CountStays ==
    ASSUME IInv, NEW a \in Actors, occurrences' = occurrences, bad'.count = bad.count, crashes' = crashes,
           lapses' = 0 => lapses = 0, bad' = bad \/ bad'.last = "client",
           \A b \in Actors \ {a} : actor'[b] = actor[b],
           ~At(a, "occur"), ~At(a, "occur")'
    PROVE  CountFits'
  <1>1. \A b \in Actors : At(b, "occur")' <=> At(b, "occur")
    BY DEF At
  <1>2. \A b \in Actors : At(b, "occur") => actor'[b].by = actor[b].by
    OBVIOUS
  <1>3. Counted' = Counted
    BY <1>1, <1>2 DEF Counted
  <1>4. Last' = Last \/ Last' = {}
    BY RegressionAssumption DEF Last
  <1>5. Cardinality(Counted \cup Last') <= Cardinality(Counted \cup Last)
    BY <1>4, CountedFits
  <1>6. CountFits
    BY DEF IInv
  <1>7. Cardinality(Counted \cup Last') <= bad.count
    <2>1. Cardinality(Counted \cup Last') \in Nat
      BY <1>4, CountedFits
    <2> QED
      BY <1>5, <1>6, <2>1, CountedFits DEF CountFits
  <1> QED
    BY <1>3, <1>4, <1>6, <1>7 DEF CountFits

LEMMA TypesOf ==
    ASSUME TypeOK, NEW a \in Actors
    PROVE  /\ actor[a] \in ActorRecords /\ actor[a].copy \in BadCases /\ bad \in BadCases
           /\ actor[a].pc \in PCs /\ actor[a].by \in By
           /\ actor[a].from \in BadStatuses \cup {"absent", "none"}
           /\ bad.revision \in Nat /\ bad.count \in Nat /\ MaxRevision \in Nat
           /\ actor[a].copy.revision \in 0..MaxRevision
  BY RegressionAssumption DEF TypeOK, ActorRecords, BadCases

----------------------------------------------------------------------------
\* Analyses.

LEMMA RecurrenceFits ==
    ASSUME TypeOK, bad # NoBad, BadFits, bad.revision < MaxRevision, NEW q \in Results
    PROVE  /\ Recurrence(bad, q) \in BadCases
           /\ Recurrence(bad, q).status = IF bad.status = "closed" THEN "open" ELSE bad.status
           /\ Recurrence(bad, q).revision = bad.revision + 1
           /\ Recurrence(bad, q).count = bad.count + 1
           /\ Recurrence(bad, q).verification = bad.verification
           /\ Recurrence(bad, q).last = q
           /\ Recurrence(bad, q).status \in BadStatuses
  <1>1. bad \in BadCases /\ bad.revision \in Nat /\ MaxRevision \in Nat /\ bad.status \in BadStatuses
    BY RegressionAssumption DEF TypeOK, BadCases, BadFits
  <1>2. "open" \in BadStatuses
    BY DEF BadStatuses
  <1> DEFINE status == IF bad.status = "closed" THEN "open" ELSE bad.status
  <1>4. Recurrence(bad, q) = [status |-> status, revision |-> bad.revision + 1, count |-> bad.count + 1,
                              verification |-> bad.verification, last |-> q]
    BY DEF Recurrence
  <1>5. status \in BadStatuses
    BY <1>1, <1>2
  <1> HIDE DEF status
  <1>6. bad.revision + 1 \in 0..MaxRevision /\ bad.count + 1 \in Nat /\ bad.verification \in BOOLEAN
    BY <1>1 DEF BadCases
  <1>7. Recurrence(bad, q) \in BadCases
    BY <1>4, <1>5, <1>6 DEF BadCases, By
  <1> QED
    BY <1>4, <1>5, <1>7 DEF status

\* A second look for the same result is a lapse; without one nobody else has the result.
LEMMA FindOccurrenceKeeps ==
    ASSUME IInv, NEW a \in Actors, NEW q \in Results, FindOccurrence(a, q)
    PROVE  IInv'
  <1> DEFINE rec == [Idle EXCEPT !.pc = "find", !.by = q]
  <1>1. /\ UNCHANGED <<bad, events, occurrences, promoted, version, bindings, crashes>>
        /\ At(a, "idle") /\ q \notin occurrences
    BY DEF FindOccurrence, tables
  <1>2. TypeOK /\ lapses \in 0..MaxLapses
    BY DEF IInv, TypeOK
  <1>3. /\ lapses' \in 0..MaxLapses
        /\ lapses' = 0 => lapses = 0 /\ \A d \in Actors : actor[d].by # q
    <2>1. CASE (\A d \in Actors : actor[d].by # q) /\ lapses' = lapses
      BY <1>2, <2>1
    <2>2. CASE lapses < MaxLapses /\ lapses' = lapses + 1
      BY <1>2, <2>2, RegressionAssumption
    <2> QED
      BY <2>1, <2>2 DEF FindOccurrence
  <1>4. rec.pc = "find" /\ rec.by = q
    BY DEF Idle
  <1>5. rec \in ActorRecords
    BY IdleFits DEF ActorRecords, PCs, By
  <1>6. actor' = [actor EXCEPT ![a] = rec]
    BY DEF FindOccurrence
  <1> HIDE DEF rec
  <1>7. actor \in [Actors -> ActorRecords]
    BY <1>2 DEF TypeOK, ActorRecords
  <1>8. actor'[a] = rec /\ actor' \in [Actors -> ActorRecords] /\ \A b \in Actors \ {a} : actor'[b] = actor[b]
    BY <1>5, <1>6, <1>7
  <1>9. TypeOK'
    BY <1>1, <1>2, <1>3, <1>8 DEF TypeOK, ActorRecords
  <1>10. ~At(a, "occur") /\ ~At(a, "occur")'
    BY <1>1, <1>4, <1>8 DEF At
  <1>11. CountFits'
    BY <1>1, <1>3, <1>8, <1>10, CountStays
  <1>12. Fits(a)'
    BY <1>1, <1>4, <1>8 DEF Fits, At, InFlight
  <1>13. OneActiveBaseline' /\ BadFits'
    BY <1>1 DEF IInv, OneActiveBaseline, BadFits
  <1>14. \A b \in Actors \ {a} : lapses' = 0 /\ actor[b].by \in Results => actor[b].by \notin occurrences'
    BY <1>1, <1>3 DEF IInv, Fits
  <1> QED
    BY <1>1, <1>3, <1>4, <1>8, <1>9, <1>11, <1>12, <1>13, <1>14, Assembled

LEMMA FindBadCaseKeeps ==
    ASSUME IInv, NEW a \in Actors, FindBadCase(a)
    PROVE  IInv'
  <1> DEFINE q == actor[a].by
             copy == IF bad = NoBad THEN FirstSeen(q) ELSE Recurrence(bad, q)
             pc == IF bad.status = "closed" THEN "reopen" ELSE "recur"
             rec == [Idle EXCEPT !.pc = pc, !.from = bad.status, !.by = q, !.copy = copy]
  <1>1. UNCHANGED <<bad, events, occurrences, promoted, version, bindings, crashes, lapses>>
    BY DEF FindBadCase, tables, counters
  <1>0. q \in Results /\ At(a, "find") /\ (lapses = 0 => q \notin occurrences)
    BY DEF FindBadCase, IInv, Fits, At
  <1>2. TypeOK /\ BadFits /\ bad \in BadCases /\ bad.revision \in Nat /\ bad.count \in Nat
    BY TypesOf DEF IInv
  <1>3. /\ copy \in BadCases /\ copy.status \in BadStatuses
        /\ copy.revision = NextRevision /\ copy.count = bad.count + 1 /\ copy.last = q
        /\ copy.verification => promoted
        /\ copy.revision > 0 => bad # NoBad /\ (copy.status = bad.status \/ bad.status = "closed")
    <2>1. CASE bad = NoBad
      <3>1. copy = FirstSeen(q)
        BY <2>1
      <3> QED
        BY <1>0, <2>1, <3>1, FirstSeenFits, NoBadFits DEF NextRevision
    <2>2. CASE bad # NoBad
      <3>1. copy = Recurrence(bad, q)
        BY <2>2
      <3>2. bad.revision < MaxRevision
        BY DEF FindBadCase
      <3> QED
        BY <1>0, <1>2, <2>2, <3>1, <3>2, RecurrenceFits DEF BadFits, NextRevision
    <2> QED
      BY <2>1, <2>2
  <1> HIDE DEF copy
  <1>4. pc \in {"reopen", "recur"} /\ (pc = "reopen" <=> bad.status = "closed")
    OBVIOUS
  <1> HIDE DEF pc
  <1>5. rec.pc = pc /\ rec.from = bad.status /\ rec.by = q /\ rec.copy = copy
    BY DEF Idle
  <1>6. rec \in ActorRecords
    <2>1. bad.status \in BadStatuses \cup {"absent", "none"}
      BY <1>2 DEF BadCases
    <2> QED
      BY <1>0, <1>3, <1>4, <2>1 DEF Idle, ActorRecords, PCs, By
  <1>7. actor' = [actor EXCEPT ![a] = rec]
    BY DEF FindBadCase, copy, pc
  <1> HIDE DEF rec
  <1>8. actor \in [Actors -> ActorRecords]
    BY <1>2 DEF TypeOK, ActorRecords
  <1>9. actor'[a] = rec /\ actor' \in [Actors -> ActorRecords] /\ \A b \in Actors \ {a} : actor'[b] = actor[b]
    BY <1>6, <1>7, <1>8
  <1>10. TypeOK'
    BY <1>1, <1>2, <1>9 DEF TypeOK, ActorRecords
  <1>11. ~At(a, "occur") /\ ~At(a, "occur")'
    BY <1>0, <1>4, <1>5, <1>9 DEF At
  <1>12. CountFits'
    BY <1>1, <1>9, <1>11, CountStays
  <1>14. NextRevision \in Nat /\ "client" \notin Results
    BY <1>2, RegressionAssumption DEF NextRevision
  <1>15. bad.status = "closed" => bad # NoBad
    BY NoBadFits
  <1>16. "closed" \in BadStatuses
    BY DEF BadStatuses
  <1>17. Fits(a)'
    <2>1. CopyFits(a)'
      BY <1>1, <1>3, <1>5, <1>9, <1>14 DEF CopyFits, NextRevision
    <2>2. actor'[a].pc \in {"reopen", "recur"}
      BY <1>4, <1>5, <1>9
    <2>3. pc = "reopen" => copy.revision > 0
      BY <1>2, <1>3, <1>4, <1>15 DEF NextRevision
    <2>4. At(a, "recur")' /\ copy.revision > 0 => copy.status = bad.status
      BY <1>3, <1>4, <1>5, <1>9 DEF At
    <2> QED
      BY <1>0, <1>1, <1>3, <1>4, <1>5, <1>9, <1>14, <1>16, <2>1, <2>2, <2>3, <2>4 DEF Fits, At, InFlight
  <1>18. OneActiveBaseline' /\ BadFits'
    BY <1>1 DEF IInv, OneActiveBaseline, BadFits
  <1> QED
    BY <1>1, <1>5, <1>9, <1>10, <1>12, <1>17, <1>18, Assembled DEF IInv, Fits

\* An event that is appended, and one that is refused.
LEMMA AppendEffect ==
    ASSUME TypeOK, NEW a \in Actors, NEW pc \in PCs, Append(a, pc),
           actor[a].copy.status \in BadStatuses, actor[a].from \in BadStatuses,
           actor[a].copy.revision > 0
    PROVE  \/ /\ events' = events /\ Ends(a)
           \/ /\ events' \in [1..MaxRevision -> Events]
              /\ events'[actor[a].copy.revision] = EventOf(a)
              /\ \A n \in 1..MaxRevision : events[n] # NoEvent => events'[n] = events[n]
              /\ Goes(a, pc)
  <1> DEFINE n == actor[a].copy.revision
  <1>1. n \in 1..MaxRevision /\ actor[a].by \in By
    BY TypesOf
  <1>2. events \in [1..MaxRevision -> Events]
    BY DEF TypeOK
  <1>3. EventOf(a) \in Events
    BY <1>1 DEF EventOf, Events
  <1>4. CASE events[n] = NoEvent \/ (events[n] = EventOf(a) /\ EventOf(a).by # "client")
    <2>1. events' = [events EXCEPT ![n] = EventOf(a)] /\ Goes(a, pc)
      BY <1>4 DEF Append, EventOf
    <2>2. \A m \in 1..MaxRevision : events[m] # NoEvent => events'[m] = events[m]
      BY <1>1, <1>2, <1>4, <2>1
    <2> QED
      BY <1>1, <1>2, <1>3, <2>1, <2>2
  <1>5. CASE ~(events[n] = NoEvent \/ (events[n] = EventOf(a) /\ EventOf(a).by # "client"))
    BY <1>5 DEF Append, EventOf
  <1> QED
    BY <1>4, <1>5

\* Steps that leave all rows but the events, and at most append one.
LEMMA EventStepKeeps ==
    ASSUME IInv, NEW a \in Actors, NEW pc \in {"recur", "save"}, Append(a, pc),
           At(a, IF pc = "recur" THEN "reopen" ELSE "event"),
           UNCHANGED <<bad, occurrences, promoted, version, bindings, crashes, lapses>>
    PROVE  IInv'
  <1>1. TypeOK /\ Fits(a) /\ BadFits
    BY DEF IInv
  <1>2. actor[a].pc = IF pc = "recur" THEN "reopen" ELSE "event"
    BY DEF At
  <1>3. /\ actor[a].copy.status \in BadStatuses /\ actor[a].from \in BadStatuses
        /\ actor[a].copy.revision > 0 /\ CopyFits(a)
    BY <1>1, <1>2 DEF Fits, CopyFits, InFlight
  <1>4. pc \in PCs
    BY DEF PCs
  <1>5. OneActiveBaseline' /\ BadFits'
    BY DEF IInv, OneActiveBaseline, BadFits
  <1>6. \A b \in Actors \ {a} : lapses' = 0 /\ actor[b].by \in Results => actor[b].by \notin occurrences'
    BY DEF IInv, Fits
  <1>7. ~At(a, "occur")
    BY <1>2 DEF At
  <1>8. CASE events' = events /\ Ends(a)
    <2>1. TypeOK'
      BY <1>1, <1>8, EndsTo DEF TypeOK, ActorRecords
    <2>2. CountFits'
      BY <1>1, <1>7, <1>8, EndsTo, CountStays
    <2> QED
      BY <1>1, <1>5, <1>6, <1>8, <2>1, <2>2, EndsTo, Assembled
  <1>9. CASE /\ events' \in [1..MaxRevision -> Events]
             /\ events'[actor[a].copy.revision] = EventOf(a)
             /\ \A n \in 1..MaxRevision : events[n] # NoEvent => events'[n] = events[n]
             /\ Goes(a, pc)
    <2>1. /\ actor' \in [Actors -> ActorRecords]
          /\ actor'[a].pc = pc /\ actor'[a].copy = actor[a].copy /\ actor'[a].from = actor[a].from
          /\ actor'[a].by = actor[a].by
          /\ \A b \in Actors \ {a} : actor'[b] = actor[b]
      BY <1>1, <1>4, <1>9, GoesTo
    <2>2. TypeOK'
      BY <1>1, <1>9, <2>1 DEF TypeOK, ActorRecords
    <2>3. CountFits'
      <3>1. ~At(a, "occur")'
        BY <2>1 DEF At
      <3> QED
        BY <1>7, <2>1, <3>1, CountStays
    <2>4. EventOf(a)' = EventOf(a)
      BY <2>1 DEF EventOf
    <2>5. CopyFits(a)'
      BY <1>3, <2>1 DEF CopyFits, Saves, NextRevision
    <2>6. Fits(a)'
      BY <1>1, <1>2, <1>3, <1>9, <2>1, <2>4, <2>5 DEF Fits, At, InFlight, Saves
    <2> QED
      BY <1>5, <1>6, <1>9, <2>1, <2>2, <2>3, <2>6, Assembled
  <1> QED
    BY <1>1, <1>3, <1>4, <1>8, <1>9, AppendEffect

LEMMA ReopenKeeps ==
    ASSUME IInv, NEW a \in Actors, Reopen(a)
    PROVE  IInv'
  BY EventStepKeeps DEF Reopen, counters

LEMMA AppendEventKeeps ==
    ASSUME IInv, NEW a \in Actors, AppendEvent(a)
    PROVE  IInv'
  BY EventStepKeeps DEF AppendEvent, counters

\* A save that is refused.
LEMMA RefusedKeeps ==
    ASSUME IInv, NEW a \in Actors, Ends(a), ~At(a, "occur"),
           UNCHANGED <<bad, events, occurrences, promoted, version, bindings, crashes, lapses>>
    PROVE  IInv'
  <1>1. TypeOK
    BY DEF IInv
  <1>2. TypeOK'
    BY <1>1, EndsTo DEF TypeOK, ActorRecords
  <1>3. CountFits'
    BY <1>1, EndsTo, CountStays
  <1>4. OneActiveBaseline' /\ BadFits'
    BY DEF IInv, OneActiveBaseline, BadFits
  <1>5. \A b \in Actors \ {a} : lapses' = 0 /\ actor[b].by \in Results => actor[b].by \notin occurrences'
    BY DEF IInv, Fits
  <1> QED
    BY <1>1, <1>2, <1>3, <1>4, <1>5, EndsTo, Assembled

\* A save that is made: the row it leaves.
LEMMA SavedFits ==
    ASSUME IInv, NEW a \in Actors, InFlight(a), Saves(actor[a].copy), bad' = actor[a].copy,
           UNCHANGED <<promoted, version>>
    PROVE  /\ bad' # NoBad /\ bad' \in BadCases /\ bad'.revision = NextRevision
           /\ BadFits'
  <1>1. CopyFits(a) /\ TypeOK
    BY DEF IInv, Fits
  <1>2. bad' \in BadCases
    BY <1>1, TypesOf
  <1>3. bad'.status \in BadStatuses
    BY <1>1 DEF CopyFits
  <1>4. bad' # NoBad
    BY <1>3, NoBadFits DEF BadStatuses
  <1>5. BadFits'
    BY <1>1, <1>3 DEF IInv, BadFits, CopyFits
  <1> QED
    BY <1>2, <1>4, <1>5 DEF Saves, NextRevision

\* A row that is the same already was saved for the same result, and is paid for.
LEMMA SameRowKeeps ==
    ASSUME IInv, NEW a \in Actors, At(a, "recur"), bad = actor[a].copy, Goes(a, "occur"),
           UNCHANGED <<bad, events, occurrences, promoted, version, bindings, crashes, lapses>>
    PROVE  IInv'
  <1>1. TypeOK /\ Fits(a) /\ UNCHANGED <<crashes, lapses>>
    BY DEF IInv, counters
  <1>2. /\ actor' \in [Actors -> ActorRecords]
        /\ actor'[a].pc = "occur" /\ actor'[a].by = actor[a].by
        /\ \A b \in Actors \ {a} : actor'[b] = actor[b]
    BY <1>1, GoesTo DEF PCs
  <1>3. TypeOK'
    BY <1>1, <1>2 DEF TypeOK, ActorRecords
  <1>4. actor[a].by \in Results /\ bad.last = actor[a].by
    BY <1>1 DEF Fits, At
  <1>5. Fits(a)'
    BY <1>1, <1>2, <1>4 DEF Fits, At, InFlight
  <1>6. CountFits'
    <2>1. Counted' = Counted \cup Last /\ Last' = Last
      <3>1. \A b \in Actors : At(b, "occur")' <=> At(b, "occur") \/ b = a
        BY <1>2 DEF At
      <3>2. \A b \in Actors : actor'[b].by = actor[b].by
        BY <1>2
      <3> QED
        BY <1>4, <3>1, <3>2 DEF Counted, Last
    <2>2. Counted' \cup Last' = Counted \cup Last
      BY <2>1
    <2>3. crashes = 0 => Counted \cup Last = Counted
      BY DEF IInv, CountFits
    <2> QED
      BY <1>1, <2>1, <2>2, <2>3 DEF IInv, CountFits
  <1>7. OneActiveBaseline' /\ BadFits'
    BY DEF IInv, OneActiveBaseline, BadFits
  <1>8. \A b \in Actors \ {a} : lapses' = 0 /\ actor[b].by \in Results => actor[b].by \notin occurrences'
    BY <1>1 DEF IInv, Fits
  <1> QED
    BY <1>1, <1>2, <1>3, <1>5, <1>6, <1>7, <1>8, Assembled

LEMMA SaveRecurrenceKeeps ==
    ASSUME IInv, NEW a \in Actors, SaveRecurrence(a)
    PROVE  IInv'
  <1>1. At(a, "recur") /\ UNCHANGED <<events, occurrences, promoted, version, bindings, crashes, lapses>>
    BY DEF SaveRecurrence, counters
  <1>2. TypeOK /\ Fits(a)
    BY DEF IInv
  <1>3. CASE bad = actor[a].copy
    BY <1>1, <1>3, SameRowKeeps DEF SaveRecurrence
  <1>4. CASE bad # actor[a].copy /\ ~Saves(actor[a].copy)
    BY <1>1, <1>4, RefusedKeeps DEF SaveRecurrence, Save, At
  <1>5. CASE bad # actor[a].copy /\ Saves(actor[a].copy)
    <2>1. bad' = actor[a].copy /\ Goes(a, "occur")
      BY <1>5 DEF SaveRecurrence, Save
    <2>2. InFlight(a)
      BY <1>1 DEF At, InFlight
    <2>3. bad' # NoBad /\ bad' \in BadCases /\ bad'.revision = NextRevision /\ BadFits'
      BY <1>1, <1>5, <2>1, <2>2, SavedFits
    <2>4. /\ actor' \in [Actors -> ActorRecords]
          /\ actor'[a].pc = "occur" /\ actor'[a].by = actor[a].by
          /\ \A b \in Actors \ {a} : actor'[b] = actor[b]
      BY <1>2, <2>1, GoesTo DEF PCs
    <2>5. TypeOK'
      BY <1>1, <1>2, <2>3, <2>4 DEF TypeOK, ActorRecords
    <2>6. /\ actor[a].by \in Results /\ bad'.last = actor[a].by /\ bad'.count = bad.count + 1
          /\ lapses = 0 => actor[a].by \notin occurrences
      BY <1>1, <1>2, <1>5, <2>1 DEF Fits, At
    <2>7. Fits(a)'
      BY <1>1, <1>2, <2>4, <2>6 DEF Fits, At, InFlight
    <2>8. CountFits'
      <3>1. Counted' = Counted \cup {actor[a].by} /\ Last' = {actor[a].by}
        <4>1. \A b \in Actors : At(b, "occur")' <=> At(b, "occur") \/ b = a
          BY <2>4 DEF At
        <4>2. \A b \in Actors : actor'[b].by = actor[b].by
          BY <2>4
        <4> QED
          BY <1>1, <2>6, <4>1, <4>2 DEF Counted, Last
      <3>2. lapses = 0 => actor[a].by \notin Counted
        <4>1. lapses = 0 => \A b \in Actors : At(b, "occur") => actor[b].by # actor[a].by
          BY <1>1, <2>6 DEF IInv, Distinct, At
        <4> QED
          BY <2>6, <4>1 DEF Counted
      <3>3. /\ IsFiniteSet(Counted) /\ Cardinality(Counted) \in Nat /\ bad.count \in Nat
            /\ Cardinality(Counted) <= Cardinality(Counted \cup Last) /\ Cardinality(Counted \cup Last) \in Nat
        BY CountedFits
      <3>4. /\ actor[a].by \notin Counted => Cardinality(Counted \cup {actor[a].by}) = Cardinality(Counted) + 1
            /\ actor[a].by \in Counted => Counted \cup {actor[a].by} = Counted
        BY <3>3, FS_AddElement
      <3>5. Cardinality(Counted) <= bad.count
        BY <3>3 DEF IInv, CountFits
      <3>6. Cardinality(Counted \cup {actor[a].by}) <= bad.count + 1
        BY <3>3, <3>4, <3>5
      <3>7. Counted' \cup Last' = Counted \cup {actor[a].by} /\ Last' \subseteq Counted'
        BY <3>1
      <3>8. crashes = 0 /\ lapses = 0 => bad'.count = Cardinality(Counted')
        BY <2>6, <3>1, <3>2, <3>4 DEF IInv, CountFits
      <3> QED
        BY <1>1, <2>6, <3>6, <3>7, <3>8 DEF CountFits
    <2>9. OneActiveBaseline'
      BY <1>1 DEF IInv, OneActiveBaseline
    <2>10. \A b \in Actors \ {a} : lapses' = 0 /\ actor[b].by \in Results => actor[b].by \notin occurrences'
      BY <1>1 DEF IInv, Fits
    <2> QED
      BY <1>1, <2>3, <2>4, <2>5, <2>7, <2>8, <2>9, <2>10, Assembled
  <1> QED
    BY <1>3, <1>4, <1>5

LEMMA AppendOccurrenceKeeps ==
    ASSUME IInv, NEW a \in Actors, AppendOccurrence(a)
    PROVE  IInv'
  <1>1. /\ At(a, "occur") /\ occurrences' = occurrences \cup {actor[a].by} /\ Ends(a)
        /\ UNCHANGED <<bad, events, promoted, version, bindings, crashes, lapses>>
    BY DEF AppendOccurrence, counters
  <1>2. TypeOK /\ actor[a].by \in Results
    BY <1>1 DEF IInv, Fits, At
  <1>3. /\ actor' \in [Actors -> ActorRecords] /\ \A b \in Actors \ {a} : actor'[b] = actor[b]
        /\ Fits(a)' /\ actor'[a].by \notin Results /\ ~At(a, "occur")'
    BY <1>1, <1>2, EndsTo
  <1>4. TypeOK'
    BY <1>1, <1>2, <1>3 DEF TypeOK, ActorRecords
  <1>5. Counted' = Counted
    <2>1. \A b \in Actors : At(b, "occur")' <=> At(b, "occur") /\ b # a
      BY <1>3 DEF At
    <2>2. \A b \in Actors \ {a} : actor'[b].by = actor[b].by
      BY <1>3
    <2> QED
      BY <1>1, <2>1, <2>2 DEF Counted
  <1>6. CountFits'
    BY <1>1, <1>5 DEF IInv, CountFits, Last
  <1>7. \A b \in Actors \ {a} : lapses' = 0 /\ actor[b].by \in Results => actor[b].by \notin occurrences'
    BY <1>1, <1>2 DEF IInv, Fits, Distinct
  <1>8. OneActiveBaseline' /\ BadFits'
    BY <1>1 DEF IInv, OneActiveBaseline, BadFits
  <1> QED
    BY <1>1, <1>3, <1>4, <1>6, <1>7, <1>8, Assembled

----------------------------------------------------------------------------
\* Transitions.

LEMMA TransitionFits ==
    ASSUME TypeOK, bad.revision < MaxRevision, NEW target \in BadStatuses
    PROVE  /\ Transition(bad, target) \in BadCases
           /\ Transition(bad, target).status = target
           /\ Transition(bad, target).revision = bad.revision + 1
           /\ Transition(bad, target).count = bad.count
           /\ Transition(bad, target).verification => bad.verification \/ target = "verified"
           /\ Transition(bad, target).last = "client"
  <1>1. bad \in BadCases /\ bad.revision \in Nat /\ MaxRevision \in Nat
    BY RegressionAssumption DEF TypeOK, BadCases
  <1>2. bad.revision + 1 \in 0..MaxRevision /\ bad.count \in Nat /\ bad.verification \in BOOLEAN
    BY <1>1 DEF BadCases
  <1> DEFINE verification == bad.verification \/ target = "verified"
  <1>3. verification \in BOOLEAN
    OBVIOUS
  <1>4. Transition(bad, target) = [status |-> target, revision |-> bad.revision + 1, count |-> bad.count,
                                   verification |-> verification, last |-> "client"]
    BY DEF Transition
  <1> HIDE DEF verification
  <1>5. Transition(bad, target) \in BadCases
    BY <1>2, <1>3, <1>4 DEF BadCases, By
  <1>6. /\ Transition(bad, target).status = target
        /\ Transition(bad, target).revision = bad.revision + 1
        /\ Transition(bad, target).count = bad.count
        /\ Transition(bad, target).verification = verification
        /\ Transition(bad, target).last = "client"
    BY <1>4
  <1>7. verification => bad.verification \/ target = "verified"
    BY DEF verification
  <1>8. Transition(bad, target).verification => bad.verification \/ target = "verified"
    BY <1>6, <1>7, Zenon
  <1> QED
    BY <1>5, <1>6, <1>8

LEMMA BeginTransitionKeeps ==
    ASSUME IInv, NEW a \in Actors, NEW target \in BadStatuses, BeginTransition(a, target)
    PROVE  IInv'
  <1> DEFINE copy == Transition(bad, target)
             rec == [Idle EXCEPT !.pc = "event", !.from = bad.status, !.by = "client", !.copy = copy]
  <1>1. /\ UNCHANGED <<bad, events, occurrences, promoted, version, bindings, crashes, lapses>>
        /\ bad # NoBad /\ bad.revision < MaxRevision /\ At(a, "idle")
        /\ target = "verified" => promoted
    BY DEF BeginTransition, tables, Verifiable, counters
  <1>2. TypeOK /\ BadFits /\ bad \in BadCases /\ bad.revision \in Nat /\ bad.count \in Nat
    BY TypesOf DEF IInv
  <1>3. /\ copy \in BadCases /\ copy.status = target /\ copy.revision = bad.revision + 1
        /\ copy.count = bad.count /\ (copy.verification => promoted) /\ copy.last = "client"
    BY <1>1, <1>2, TransitionFits DEF BadFits
  <1>4. actor' = [actor EXCEPT ![a] = rec]
    BY DEF BeginTransition
  <1> HIDE DEF copy
  <1>5. rec.pc = "event" /\ rec.from = bad.status /\ rec.by = "client" /\ rec.copy = copy
    BY DEF Idle
  <1>6. bad.status \in BadStatuses
    BY <1>1, <1>2 DEF BadFits
  <1>7. rec \in ActorRecords
    BY <1>3, <1>6 DEF Idle, ActorRecords, PCs, By
  <1> HIDE DEF rec
  <1>8. actor \in [Actors -> ActorRecords]
    BY <1>2 DEF TypeOK, ActorRecords
  <1>9. actor'[a] = rec /\ actor' \in [Actors -> ActorRecords] /\ \A b \in Actors \ {a} : actor'[b] = actor[b]
    BY <1>4, <1>7, <1>8
  <1>10. TypeOK'
    BY <1>1, <1>2, <1>9 DEF TypeOK, ActorRecords
  <1>11. ~At(a, "occur") /\ ~At(a, "occur")'
    BY <1>1, <1>5, <1>9 DEF At
  <1>12. CountFits'
    BY <1>1, <1>9, <1>11, CountStays
  <1>13. "client" \notin Results
    BY RegressionAssumption
  <1>14. Fits(a)'
    <2>1. CopyFits(a)'
      BY <1>1, <1>2, <1>3, <1>5, <1>9 DEF CopyFits, NextRevision, BadFits
    <2> QED
      BY <1>1, <1>2, <1>3, <1>5, <1>6, <1>9, <1>13, <2>1 DEF Fits, At, InFlight
  <1>15. OneActiveBaseline' /\ BadFits'
    BY <1>1 DEF IInv, OneActiveBaseline, BadFits
  <1>16. \A b \in Actors \ {a} : lapses' = 0 /\ actor[b].by \in Results => actor[b].by \notin occurrences'
    BY <1>1 DEF IInv, Fits
  <1> QED
    BY <1>1, <1>5, <1>9, <1>10, <1>12, <1>13, <1>14, <1>15, <1>16, Assembled

LEMMA SaveTransitionKeeps ==
    ASSUME IInv, NEW a \in Actors, SaveTransition(a)
    PROVE  IInv'
  <1>1. At(a, "save") /\ UNCHANGED <<events, occurrences, promoted, version, bindings, crashes, lapses>>
    BY DEF SaveTransition, counters
  <1>2. TypeOK /\ Fits(a) /\ ~At(a, "occur") /\ Ends(a)
    BY <1>1 DEF IInv, At, SaveTransition, Save
  <1>3. CASE ~Saves(actor[a].copy)
    BY <1>1, <1>2, <1>3, RefusedKeeps DEF SaveTransition, Save
  <1>4. CASE Saves(actor[a].copy)
    <2>1. bad' = actor[a].copy
      BY <1>4 DEF SaveTransition, Save
    <2>2. InFlight(a)
      BY <1>1 DEF At, InFlight
    <2>3. bad' # NoBad /\ bad' \in BadCases /\ bad'.revision = NextRevision /\ BadFits'
      BY <1>1, <1>4, <2>1, <2>2, SavedFits
    <2>4. /\ actor' \in [Actors -> ActorRecords] /\ \A b \in Actors \ {a} : actor'[b] = actor[b]
          /\ Fits(a)' /\ actor'[a].by \notin Results /\ ~At(a, "occur")'
      BY <1>2, EndsTo
    <2>5. TypeOK'
      BY <1>1, <1>2, <2>3, <2>4 DEF TypeOK, ActorRecords
    <2>6. bad'.count = bad.count /\ bad'.last = "client"
      BY <1>1, <1>2, <1>4, <2>1 DEF Fits, At
    <2>7. CountFits'
      BY <1>1, <1>2, <2>4, <2>6, CountStays
    <2>8. OneActiveBaseline'
      BY <1>1 DEF IInv, OneActiveBaseline
    <2>9. \A b \in Actors \ {a} : lapses' = 0 /\ actor[b].by \in Results => actor[b].by \notin occurrences'
      BY <1>1 DEF IInv, Fits
    <2> QED
      BY <1>1, <2>3, <2>4, <2>5, <2>7, <2>8, <2>9, Assembled
  <1> QED
    BY <1>3, <1>4

----------------------------------------------------------------------------
\* Promotions, freezing and baselines.

\* A step that leaves the bad case, its events and its occurrences, and whose actor goes on
\* with nothing but the name of its next transaction, or ends.
LEMMA CaseStepKeeps ==
    ASSUME IInv, NEW a \in Actors, NEW pc \in {"idle", "case", "promotion"},
           Goes(a, pc) \/ Ends(a), actor[a].pc \in {"idle", "case", "promotion", "freeze"},
           UNCHANGED <<bad, events, occurrences, bindings, crashes, lapses>>,
           promoted' \in BOOLEAN, promoted => promoted',
           version' \in [status : {"draft", "frozen"}, cases : SUBSET {Case, Other}, frozen : SUBSET {Case, Other}],
           Case \in version.cases => Case \in version'.cases,
           promoted' => Case \in version'.cases,
           pc = "promotion" => Case \in version'.cases
    PROVE  IInv'
  <1>1. TypeOK /\ Fits(a) /\ ~At(a, "occur") /\ pc \in PCs
    BY DEF IInv, At, PCs
  <1>2. /\ actor' \in [Actors -> ActorRecords] /\ \A b \in Actors \ {a} : actor'[b] = actor[b]
        /\ Fits(a)' /\ ~At(a, "occur")' /\ (actor'[a].by \in Results => actor'[a].by = actor[a].by)
    <2>1. CASE Ends(a)
      BY <1>1, <2>1, EndsTo
    <2>2. CASE Goes(a, pc)
      <3>1. /\ actor' \in [Actors -> ActorRecords] /\ actor'[a].pc = pc /\ actor'[a].by = actor[a].by
            /\ \A b \in Actors \ {a} : actor'[b] = actor[b]
        BY <1>1, <2>2, GoesTo
      <3> QED
        BY <1>1, <3>1 DEF Fits, At, InFlight
    <2> QED
      BY <2>1, <2>2
  <1>3. TypeOK'
    BY <1>1, <1>2 DEF TypeOK, ActorRecords
  <1>4. CountFits'
    BY <1>1, <1>2, CountStays
  <1>5. OneActiveBaseline'
    BY DEF IInv, OneActiveBaseline
  <1>6. BadFits'
    BY DEF IInv, BadFits
  <1>7. \A b \in Actors \ {a} : lapses' = 0 /\ actor[b].by \in Results => actor[b].by \notin occurrences'
    BY DEF IInv, Fits
  <1> QED
    BY <1>2, <1>3, <1>4, <1>5, <1>6, <1>7, Assembled

LEMMA BeginPromotionKeeps ==
    ASSUME IInv, NEW a \in Actors, BeginPromotion(a)
    PROVE  IInv'
  <1> DEFINE pc == IF version.status = "frozen" /\ Case \notin version.cases THEN "idle" ELSE "case"
  <1>1. Goes(a, pc) /\ actor[a].pc = "idle"
    BY DEF BeginPromotion, Goes, At
  <1>2. pc \in {"idle", "case"}
    OBVIOUS
  <1> HIDE DEF pc
  <1>3. UNCHANGED <<bad, events, occurrences, bindings, crashes, lapses, promoted, version>>
    BY DEF BeginPromotion, tables, counters
  <1> QED
    BY <1>1, <1>2, <1>3, CaseStepKeeps DEF IInv, TypeOK, BadFits

LEMMA SaveCaseKeeps ==
    ASSUME IInv, NEW a \in Actors, SaveCase(a)
    PROVE  IInv'
  <1> DEFINE Versions == [status : {"draft", "frozen"}, cases : SUBSET {Case, Other}, frozen : SUBSET {Case, Other}]
  <1>1. version \in Versions
    BY DEF IInv, TypeOK
  <1>2. version' \in Versions /\ Case \in version'.cases
    BY <1>1 DEF SaveCase
  <1>3. Goes(a, "promotion") /\ actor[a].pc = "case" /\ promoted' = promoted
    BY DEF SaveCase, At
  <1>4. UNCHANGED <<bad, events, occurrences, bindings, crashes, lapses>>
    BY DEF SaveCase, counters
  <1> QED
    BY <1>2, <1>3, <1>4, CaseStepKeeps DEF IInv, TypeOK

LEMMA SavePromotionKeeps ==
    ASSUME IInv, NEW a \in Actors, SavePromotion(a)
    PROVE  IInv'
  <1>1. Ends(a) /\ actor[a].pc = "promotion" /\ promoted' = TRUE /\ version' = version
    BY DEF SavePromotion, At
  <1>2. Case \in version.cases
    BY <1>1 DEF IInv, Fits, At
  <1>3. UNCHANGED <<bad, events, occurrences, bindings, crashes, lapses>>
    BY DEF SavePromotion, counters
  <1> QED
    BY <1>1, <1>2, <1>3, CaseStepKeeps DEF IInv, TypeOK

LEMMA FreezeKeeps ==
    ASSUME IInv, NEW a \in Actors, Freeze(a)
    PROVE  IInv'
  <1> DEFINE Versions == [status : {"draft", "frozen"}, cases : SUBSET {Case, Other}, frozen : SUBSET {Case, Other}]
  <1>1. version \in Versions /\ actor[a].seen \in SUBSET {Case, Other}
    BY TypesOf DEF IInv, TypeOK, ActorRecords
  <1>2. version' \in Versions /\ version'.cases = version.cases
    <2>1. CASE version.status = "frozen"
      BY <1>1, <2>1 DEF Freeze
    <2>2. CASE version.status # "frozen"
      <3>1. version' = [version EXCEPT !.status = "frozen", !.frozen = actor[a].seen]
        BY <2>2 DEF Freeze
      <3> QED
        BY <1>1, <3>1
    <2> QED
      BY <2>1, <2>2
  <1>3. Ends(a) /\ actor[a].pc = "freeze" /\ promoted' = promoted
    BY DEF Freeze, At
  <1>4. UNCHANGED <<bad, events, occurrences, bindings, crashes, lapses>>
    BY DEF Freeze, counters
  <1> QED
    BY <1>2, <1>3, <1>4, CaseStepKeeps DEF IInv, TypeOK, BadFits

LEMMA ListToFreezeKeeps ==
    ASSUME IInv, NEW a \in Actors, ListToFreeze(a)
    PROVE  IInv'
  <1> DEFINE rec == [Idle EXCEPT !.pc = "freeze", !.seen = version.cases]
  <1>1. UNCHANGED <<bad, events, occurrences, promoted, version, bindings, crashes, lapses>>
    BY DEF ListToFreeze, tables, counters
  <1>2. TypeOK /\ version.cases \in SUBSET {Case, Other} /\ ~At(a, "occur")
    BY DEF IInv, TypeOK, ListToFreeze, At
  <1>3. rec.pc = "freeze" /\ rec.by = "none"
    BY DEF Idle
  <1>4. rec \in ActorRecords
    BY <1>2, IdleFits DEF Idle, ActorRecords, PCs
  <1>5. actor' = [actor EXCEPT ![a] = rec]
    BY DEF ListToFreeze
  <1> HIDE DEF rec
  <1>6. actor \in [Actors -> ActorRecords]
    BY <1>2 DEF TypeOK, ActorRecords
  <1>7. actor'[a] = rec /\ actor' \in [Actors -> ActorRecords] /\ \A b \in Actors \ {a} : actor'[b] = actor[b]
    BY <1>4, <1>5, <1>6
  <1>8. "none" \notin Results
    BY RegressionAssumption
  <1>9. TypeOK'
    BY <1>1, <1>2, <1>7 DEF TypeOK, ActorRecords
  <1>10. Fits(a)' /\ ~At(a, "occur")'
    BY <1>3, <1>7, <1>8 DEF Fits, At, InFlight
  <1>11. CountFits'
    BY <1>1, <1>2, <1>7, <1>10, CountStays
  <1>12. OneActiveBaseline' /\ BadFits'
    BY <1>1 DEF IInv, OneActiveBaseline, BadFits
  <1>13. \A b \in Actors \ {a} : lapses' = 0 /\ actor[b].by \in Results => actor[b].by \notin occurrences'
    BY <1>1 DEF IInv, Fits
  <1> QED
    BY <1>1, <1>3, <1>7, <1>8, <1>9, <1>10, <1>11, <1>12, <1>13, Assembled

LEMMA PromoteBaselineKeeps ==
    ASSUME IInv, NEW c \in BaselineRuns, PromoteBaseline(c)
    PROVE  IInv'
  <1>1. UNCHANGED <<bad, events, occurrences, promoted, version, actor, crashes, lapses>>
    BY DEF PromoteBaseline, counters
  <1>2. bindings' = [Superseded EXCEPT ![c] = "active"]
    BY DEF PromoteBaseline
  <1>3. TypeOK /\ bindings \in [BaselineRuns -> {"absent", "active", "superseded"}]
    BY DEF IInv, TypeOK
  <1>4. Superseded \in [BaselineRuns -> {"absent", "superseded"}]
    BY <1>3 DEF Superseded
  <1>5. /\ bindings' \in [BaselineRuns -> {"absent", "active", "superseded"}]
        /\ \A b \in BaselineRuns : bindings'[b] = "active" <=> b = c
    BY <1>2, <1>4
  <1>6. OneActiveBaseline'
    <2>1. {b \in BaselineRuns : bindings'[b] = "active"} = {c}
      BY <1>5
    <2> QED
      BY <2>1, FS_Singleton DEF OneActiveBaseline
  <1>7. TypeOK'
    BY <1>1, <1>3, <1>5 DEF TypeOK
  <1>8. BadFits' /\ CountFits' /\ Distinct'
    BY <1>1 DEF IInv, BadFits, CountFits, Counted, Last, Distinct, At, counters
  <1>9. \A a \in Actors : Fits(a)'
    BY <1>1 DEF IInv, Fits, CopyFits, InFlight, At, Saves, NextRevision, EventOf
  <1> QED
    BY <1>6, <1>7, <1>8, <1>9 DEF IInv

LEMMA CrashKeeps ==
    ASSUME IInv, NEW a \in Actors, Crash(a)
    PROVE  IInv'
  <1>1. /\ UNCHANGED <<bad, events, occurrences, promoted, version, bindings>>
        /\ Ends(a) /\ crashes' = crashes + 1 /\ crashes < MaxCrashes /\ lapses' = lapses
    BY DEF Crash, tables
  <1>2. TypeOK /\ crashes \in Nat
    BY RegressionAssumption DEF IInv, TypeOK
  <1>3. crashes' \in 0..MaxCrashes /\ crashes' # 0
    BY <1>1, <1>2, RegressionAssumption
  <1>4. TypeOK'
    BY <1>1, <1>2, <1>3, EndsTo DEF TypeOK, ActorRecords
  <1>5. CountFits'
    <2>1. Counted' \subseteq Counted /\ Last' = Last
      BY <1>1, <1>2, EndsTo DEF Counted, At, Last
    <2>2. Counted' \cup Last' \subseteq Counted \cup Last /\ Counted \cup Last \subseteq Results
      BY <2>1, CountedFits DEF Last
    <2>3. IsFiniteSet(Counted \cup Last)
      BY <2>2, RegressionAssumption, FS_Subset
    <2>4. /\ Cardinality(Counted' \cup Last') <= Cardinality(Counted \cup Last)
          /\ IsFiniteSet(Counted' \cup Last')
      BY <2>2, <2>3, FS_Subset
    <2>5. Cardinality(Counted' \cup Last') \in Nat
      BY <2>4, FS_CardinalityType
    <2>6. Cardinality(Counted' \cup Last') <= bad.count
      BY <2>4, <2>5, CountedFits DEF IInv, CountFits
    <2> QED
      BY <1>1, <1>3, <2>6 DEF CountFits
  <1>6. OneActiveBaseline' /\ BadFits'
    BY <1>1 DEF IInv, OneActiveBaseline, BadFits
  <1>7. \A b \in Actors \ {a} : lapses' = 0 /\ actor[b].by \in Results => actor[b].by \notin occurrences'
    BY <1>1 DEF IInv, Fits
  <1> QED
    BY <1>1, <1>2, <1>4, <1>5, <1>6, <1>7, EndsTo, Assembled

----------------------------------------------------------------------------
LEMMA Start == Init => IInv
  <1> SUFFICES ASSUME Init PROVE IInv
    OBVIOUS
  <1>1. actor = [a \in Actors |-> Idle]
    BY DEF Init
  <1>2. \A a \in Actors : actor[a].pc = "idle" /\ actor[a].by = "none"
    BY <1>1, IdleFits
  <1>3. "none" \notin Results
    BY RegressionAssumption
  <1>4. NoEvent \in Events
    BY DEF NoEvent, Events, By
  <1>5. TypeOK
    <2>1. actor \in [Actors -> ActorRecords]
      BY <1>1, IdleFits
    <2>2. bad \in BadCases /\ events \in [1..MaxRevision -> Events]
      BY <1>4, NoBadFits DEF Init
    <2>3. version \in [status : {"draft", "frozen"}, cases : SUBSET {Case, Other}, frozen : SUBSET {Case, Other}]
      BY DEF Init
    <2>4. crashes \in 0..MaxCrashes /\ lapses \in 0..MaxLapses
      BY RegressionAssumption DEF Init
    <2> QED
      BY <2>1, <2>2, <2>3, <2>4 DEF Init, TypeOK, ActorRecords
  <1>6. OneActiveBaseline
    BY DEF Init, OneActiveBaseline
  <1>7. Counted = {} /\ Last = {}
    BY <1>2, <1>3, NoBadFits DEF Counted, Last, At, Init
  <1>8. BadFits /\ CountFits
    BY <1>7, NoBadFits, FS_EmptySet DEF Init, BadFits, CountFits
  <1>9. Distinct /\ \A a \in Actors : Fits(a)
    BY <1>2, <1>3 DEF Distinct, Fits, InFlight, At
  <1> QED
    BY <1>5, <1>6, <1>8, <1>9 DEF IInv

\* No step of a request, an analysis, a crash or a promotion breaks the invariant.
LEMMA Step == IInv /\ [Next]_vars => IInv'
  <1> SUFFICES ASSUME IInv, [Next]_vars PROVE IInv'
    OBVIOUS
  <1> USE DEF Next
  <1>1. ASSUME NEW a \in Actors, NEW q \in Results, FindOccurrence(a, q) PROVE IInv'
    BY <1>1, FindOccurrenceKeeps
  <1>2. ASSUME NEW a \in Actors, NEW s \in BadStatuses, BeginTransition(a, s) PROVE IInv'
    BY <1>2, BeginTransitionKeeps
  <1>3. ASSUME NEW a \in Actors, FindBadCase(a) \/ Reopen(a) \/ SaveRecurrence(a) \/ AppendOccurrence(a)
        PROVE  IInv'
    BY <1>3, FindBadCaseKeeps, ReopenKeeps, SaveRecurrenceKeeps, AppendOccurrenceKeeps
  <1>4. ASSUME NEW a \in Actors, AppendEvent(a) \/ SaveTransition(a) PROVE IInv'
    BY <1>4, AppendEventKeeps, SaveTransitionKeeps
  <1>5. ASSUME NEW a \in Actors, BeginPromotion(a) \/ SaveCase(a) \/ SavePromotion(a) PROVE IInv'
    BY <1>5, BeginPromotionKeeps, SaveCaseKeeps, SavePromotionKeeps
  <1>6. ASSUME NEW a \in Actors, ListToFreeze(a) \/ Freeze(a) \/ Crash(a) PROVE IInv'
    BY <1>6, ListToFreezeKeeps, FreezeKeeps, CrashKeeps
  <1>7. ASSUME NEW b \in BaselineRuns, PromoteBaseline(b) PROVE IInv'
    BY <1>7, PromoteBaselineKeeps
  <1>8. CASE UNCHANGED vars
    <2>1. UNCHANGED <<bad, events, occurrences, promoted, version, bindings, actor, crashes, lapses>>
      BY <1>8 DEF vars, tables, counters
    <2>2. TypeOK' /\ OneActiveBaseline'
      BY <2>1 DEF IInv, TypeOK, OneActiveBaseline
    <2>3. BadFits' /\ CountFits' /\ Distinct'
      BY <2>1 DEF IInv, BadFits, CountFits, Counted, Last, Distinct, At, counters
    <2>4. \A a \in Actors : Fits(a)'
      BY <2>1 DEF IInv, Fits, CopyFits, InFlight, At, Saves, NextRevision, EventOf
    <2> QED
      BY <2>2, <2>3, <2>4 DEF IInv
  <1> QED
    BY <1>1, <1>2, <1>3, <1>4, <1>5, <1>6, <1>7, <1>8

\* The invariant of the records holds in every state.
THEOREM Invariance == Spec => []IInv
  BY Start, Step, PTL DEF Spec

\* A verified fault has its regression case in the dataset version, and a scope that has a
\* baseline has one, for every number of actors, results, candidates and crashes.
THEOREM RecordsAreSoundTheorem == Spec => []RecordsAreSound
  <1>1. IInv => RecordsAreSound
    BY DEF IInv, BadFits, RecordsAreSound, VerifiedHasCase
  <1> QED
    BY <1>1, Invariance, PTL

\* Every occurrence is counted; and once, while nothing has crashed, no lease has lapsed and no
\* analysis is under way.
THEOREM OccurrencesCountedTheorem == Spec => []OccurrencesCounted
  <1>1. IInv => OccurrencesCounted
    <2> SUFFICES ASSUME IInv PROVE OccurrencesCounted
      OBVIOUS
    <2>1. occurrences \subseteq Counted /\ ((\A a \in Actors : ~At(a, "occur")) => Counted = occurrences)
      BY DEF Counted
    <2>2. /\ IsFiniteSet(Counted) /\ Cardinality(Counted) \in Nat
          /\ Cardinality(Counted) <= Cardinality(Counted \cup Last) /\ Cardinality(Counted \cup Last) \in Nat
          /\ bad.count \in Nat
      BY CountedFits
    <2>3. Cardinality(occurrences) <= Cardinality(Counted) /\ Cardinality(occurrences) \in Nat
      BY <2>1, <2>2, FS_Subset, FS_CardinalityType
    <2>4. Cardinality(occurrences) <= bad.count
      BY <2>2, <2>3 DEF IInv, CountFits
    <2> QED
      BY <2>1, <2>4 DEF OccurrencesCounted, IInv, CountFits
  <1> QED
    BY <1>1, Invariance, PTL

\* A status never changes without the event of the change being there already.
THEOREM NoSilentChangeTheorem == Spec => NoSilentChange
  <1> DEFINE Told == bad # NoBad /\ bad'.status # bad.status =>
                       LET event == events'[bad'.revision]
                       IN  event.from = bad.status /\ event.to = bad'.status
  <1>1. IInv /\ [Next]_vars => [Told]_vars
    <2> SUFFICES ASSUME IInv, Next, bad # NoBad, bad'.status # bad.status
                 PROVE  /\ events'[bad'.revision].from = bad.status
                        /\ events'[bad'.revision].to = bad'.status
      OBVIOUS
    <2>1. PICK a \in Actors : SaveRecurrence(a) \/ SaveTransition(a)
      BY DEF Next, tables, FindOccurrence, FindBadCase, BeginTransition, Reopen, AppendOccurrence, AppendEvent,
             BeginPromotion, SaveCase, SavePromotion, ListToFreeze, Freeze, Crash, PromoteBaseline
    <2>2. bad' = actor[a].copy /\ Saves(actor[a].copy) /\ events' = events
      BY <2>1 DEF SaveRecurrence, SaveTransition, Save
    <2>3. actor[a].pc \in {"recur", "save"} /\ InFlight(a)
      BY <2>1 DEF SaveRecurrence, SaveTransition, At, InFlight
    <2>4. Fits(a) /\ bad.revision \in Nat
      BY TypesOf DEF IInv
    <2>5. actor[a].from = bad.status /\ actor[a].copy.revision > 0
      BY <2>2, <2>3, <2>4 DEF Fits, CopyFits, Saves
    <2>6. events[actor[a].copy.revision] = EventOf(a)
      BY <2>2, <2>3, <2>4, <2>5 DEF Fits, At
    <2> QED
      BY <2>2, <2>5, <2>6 DEF EventOf
  <1> QED
    BY <1>1, Invariance, PTL DEF Spec, NoSilentChange
=============================================================================
