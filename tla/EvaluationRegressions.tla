----------------------- MODULE EvaluationRegressions -----------------------
(***************************************************************************)
(* Bad cases, regression cases and baselines of the evaluation subsystem   *)
(* (backend/app/evaluation/bad_case_analyzer.py, bad_case_service.py,      *)
(* promotion_service.py, dataset_catalog.py, baseline_service.py and their *)
(* tables in backend/app/persistence/evaluation_store.py).                 *)
(*                                                                         *)
(* One bad case (one fingerprint), one dataset version that takes its      *)
(* regression case, one scope of baselines.  Requests and the coordinators *)
(* of evaluation runs are actors; every transaction of theirs is a step,   *)
(* and each may die between two.  actor[a].pc names the next transaction.  *)
(* Nothing here keeps two tasks from analysing one result: the lease of    *)
(* their run does, until it lapses.  lapses counts such pairs.             *)
(***************************************************************************)
EXTENDS Naturals, FiniteSets

CONSTANTS Actors,
          Results,       \* case results that show the fault
          BaselineRuns,  \* completed runs that may become the baseline
          MaxRevision,   \* bound
          MaxCrashes,    \* bound
          MaxLapses      \* bound

ASSUME RegressionAssumption ==
    /\ IsFiniteSet(Results) /\ "none" \notin Results /\ "client" \notin Results
    /\ MaxRevision \in Nat /\ MaxCrashes \in Nat /\ MaxLapses \in Nat

VARIABLES bad,          \* bad_cases
          events,       \* bad_case_events, by sequence
          occurrences,  \* bad_case_occurrences
          promoted,     \* regression_case_promotions: reproduced
          version,      \* the dataset version and its cases
          bindings,     \* evaluation_baseline_bindings
          actor, crashes, lapses

tables == <<bad, events, occurrences, promoted, version, bindings>>
counters == <<crashes, lapses>>
vars == <<tables, actor, counters>>

Allowed(s) ==
    CASE s = "open"      -> {"triaged", "rejected"}
      [] s = "triaged"   -> {"confirmed", "rejected"}
      [] s = "confirmed" -> {"fixing", "rejected"}
      [] s = "fixing"    -> {"fixed", "rejected"}
      [] s = "fixed"     -> {"verified"}
      [] s = "verified"  -> {"closed"}
      [] s = "closed"    -> {"open"}
      [] OTHER           -> {}

BadStatuses == {"open", "triaged", "confirmed", "fixing", "fixed", "verified", "closed", "rejected"}
\* last is the result that was seen last, or a client's transition: with it two copies of one
\* revision are the same only if they are of one analysis.
NoBad == [status |-> "absent", revision |-> 0, count |-> 0, verification |-> FALSE, last |-> "none"]
NoEvent == [from |-> "none", to |-> "none", by |-> "none"]
Idle == [pc |-> "idle", copy |-> NoBad, from |-> "none", by |-> "none", seen |-> {}]
Case == "case"
Other == "other"

Init ==
    /\ bad = NoBad
    /\ events = [n \in 1..MaxRevision |-> NoEvent]
    /\ occurrences = {}
    /\ promoted = FALSE
    /\ version = [status |-> "draft", cases |-> {Other}, frozen |-> {}]
    /\ bindings = [b \in BaselineRuns |-> "absent"]
    /\ actor = [a \in Actors |-> Idle]
    /\ crashes = 0 /\ lapses = 0

At(a, pc) == actor[a].pc = pc
Goes(a, pc) == actor' = [actor EXCEPT ![a].pc = pc]
Ends(a) == actor' = [actor EXCEPT ![a] = Idle]

----------------------------------------------------------------------------
\* save_bad_case and append_bad_case_event.

\* Mutant: the update of a bad case does not ask for the revision it was made from.
SavesAlways(copy) == copy.revision >= 0

\* An insert is of revision 0; an update is of the next revision.
Saves(copy) == copy.revision = IF bad = NoBad THEN 0 ELSE bad.revision + 1

Save(a, pc) ==
    IF Saves(actor[a].copy)
    THEN bad' = actor[a].copy /\ (IF pc = "idle" THEN Ends(a) ELSE Goes(a, pc))
    ELSE UNCHANGED bad /\ Ends(a)

\* The id of an event is a hash of the bad case and the revision.  An event that is there
\* stays; only an analysis of the same result makes the same event again.
Append(a, pc) ==
    LET n     == actor[a].copy.revision
        event == [from |-> actor[a].from, to |-> actor[a].copy.status, by |-> actor[a].by]
    IN  IF events[n] = NoEvent \/ (events[n] = event /\ event.by # "client")
        THEN events' = [events EXCEPT ![n] = event] /\ Goes(a, pc)
        ELSE UNCHANGED events /\ Ends(a)

----------------------------------------------------------------------------
\* BadCaseAnalyzer.analyze, called by process_run for each result that did not pass.

FirstSeen(q) == [status |-> "open", revision |-> 0, count |-> 1, verification |-> FALSE, last |-> q]

Recurrence(b, q) ==
    [status |-> IF b.status = "closed" THEN "open" ELSE b.status,
     revision |-> b.revision + 1, count |-> b.count + 1, verification |-> b.verification, last |-> q]

\* A result with an occurrence is not analysed again.
FindOccurrence(a, q) ==
    /\ At(a, "idle")
    /\ q \notin occurrences
    /\ \/ (\A d \in Actors : actor[d].by # q) /\ UNCHANGED lapses
       \/ (\E d \in Actors : actor[d].by = q) /\ lapses < MaxLapses /\ lapses' = lapses + 1
    /\ actor' = [actor EXCEPT ![a] = [Idle EXCEPT !.pc = "find", !.by = q]]
    /\ UNCHANGED <<tables, crashes>>

FindBadCase(a) ==
    /\ At(a, "find")
    /\ bad.revision < MaxRevision
    /\ actor' = [actor EXCEPT ![a] = [Idle EXCEPT
          !.pc = IF bad.status = "closed" THEN "reopen" ELSE "recur",
          !.from = bad.status, !.by = actor[a].by,
          !.copy = IF bad = NoBad THEN FirstSeen(actor[a].by) ELSE Recurrence(bad, actor[a].by)]]
    /\ UNCHANGED <<tables, counters>>

Reopen(a) ==
    /\ At(a, "reopen")
    /\ Append(a, "recur")
    /\ UNCHANGED <<bad, occurrences, promoted, version, bindings, counters>>

\* A row that is the same already is left as it is.
SaveRecurrence(a) ==
    /\ At(a, "recur")
    /\ IF bad = actor[a].copy THEN UNCHANGED bad /\ Goes(a, "occur") ELSE Save(a, "occur")
    /\ UNCHANGED <<events, occurrences, promoted, version, bindings, counters>>

AppendOccurrence(a) ==
    /\ At(a, "occur")
    /\ occurrences' = occurrences \cup {actor[a].by}
    /\ Ends(a)
    /\ UNCHANGED <<bad, events, promoted, version, bindings, counters>>

----------------------------------------------------------------------------
\* BadCaseService.transition, for a client that has seen the present revision.  Root cause
\* and fix are kept once given.

\* A verification names a passed result of a reproduced regression case.
Verifiable(target) == target = "verified" => promoted

Transition(b, target) ==
    [status |-> target, revision |-> b.revision + 1, count |-> b.count,
     verification |-> b.verification \/ target = "verified", last |-> "client"]

BeginTransition(a, target) ==
    /\ At(a, "idle")
    /\ bad # NoBad /\ bad.revision < MaxRevision
    /\ target \in Allowed(bad.status)
    /\ Verifiable(target)
    /\ target = "closed" => bad.verification
    /\ actor' = [actor EXCEPT ![a] = [Idle EXCEPT !.pc = "event", !.from = bad.status, !.by = "client",
          !.copy = Transition(bad, target)]]
    /\ UNCHANGED <<tables, counters>>

\* Mutant: the new status is saved first, and its event when that is done.
SaveBeforeEvent(a) ==
    /\ At(a, "event")
    /\ Save(a, "idle")
    /\ UNCHANGED <<events, occurrences, promoted, version, bindings, counters>>

AppendEvent(a) ==
    /\ At(a, "event")
    /\ Append(a, "save")
    /\ UNCHANGED <<bad, occurrences, promoted, version, bindings, counters>>

SaveTransition(a) ==
    /\ At(a, "save")
    /\ Save(a, "idle")
    /\ UNCHANGED <<events, occurrences, promoted, version, bindings, counters>>

----------------------------------------------------------------------------
\* PromotionService.promote and DatasetCatalog.validate_and_freeze.

Promotable == bad.status \in {"confirmed", "fixing", "fixed", "verified"}

\* save_case reads the version in a transaction of its own.
BeginPromotion(a) ==
    /\ At(a, "idle")
    /\ Promotable /\ ~promoted
    /\ actor' = [actor EXCEPT ![a].pc = IF version.status = "frozen" /\ Case \notin version.cases
                                        THEN "idle" ELSE "case"]
    /\ UNCHANGED <<tables, counters>>

\* Mutant: the promotion is recorded before its case.
PromoteFirst(a) ==
    /\ At(a, "case")
    /\ promoted' = TRUE
    /\ Goes(a, "promotion")
    /\ UNCHANGED <<bad, events, occurrences, version, bindings, counters>>

SaveCase(a) ==
    /\ At(a, "case")
    /\ version' = [version EXCEPT !.cases = @ \cup {Case}]
    /\ Goes(a, "promotion")
    /\ UNCHANGED <<bad, events, occurrences, promoted, bindings, counters>>

SavePromotion(a) ==
    /\ At(a, "promotion")
    /\ promoted' = TRUE
    /\ Ends(a)
    /\ UNCHANGED <<bad, events, occurrences, version, bindings, counters>>

ListToFreeze(a) ==
    /\ At(a, "idle")
    /\ version.status = "draft"
    /\ actor' = [actor EXCEPT ![a] = [Idle EXCEPT !.pc = "freeze", !.seen = version.cases]]
    /\ UNCHANGED <<tables, counters>>

Freeze(a) ==
    /\ At(a, "freeze")
    /\ version' = IF version.status = "frozen" THEN version
                  ELSE [version EXCEPT !.status = "frozen", !.frozen = actor[a].seen]
    /\ Ends(a)
    /\ UNCHANGED <<bad, events, occurrences, promoted, bindings, counters>>

----------------------------------------------------------------------------
\* promote_baseline: supersede and insert are one transaction, which a binding that was
\* made before rolls back.

Superseded == [b \in BaselineRuns |-> IF bindings[b] = "active" THEN "superseded" ELSE bindings[b]]

PromoteBaseline(b) ==
    /\ version.status = "frozen"
    /\ bindings[b] = "absent"
    /\ bindings' = [Superseded EXCEPT ![b] = "active"]
    /\ UNCHANGED <<bad, events, occurrences, promoted, version, actor, counters>>

----------------------------------------------------------------------------
Crash(a) ==
    /\ ~At(a, "idle")
    /\ crashes < MaxCrashes
    /\ crashes' = crashes + 1
    /\ Ends(a)
    /\ UNCHANGED <<tables, lapses>>

Next ==
    \/ \E a \in Actors :
          \/ \E q \in Results : FindOccurrence(a, q)
          \/ \E s \in BadStatuses : BeginTransition(a, s)
          \/ FindBadCase(a) \/ Reopen(a) \/ SaveRecurrence(a) \/ AppendOccurrence(a)
          \/ AppendEvent(a) \/ SaveTransition(a)
          \/ BeginPromotion(a) \/ SaveCase(a) \/ SavePromotion(a)
          \/ ListToFreeze(a) \/ Freeze(a) \/ Crash(a)
    \/ \E b \in BaselineRuns : PromoteBaseline(b)

Spec == Init /\ [][Next]_vars

----------------------------------------------------------------------------
By == Results \cup {"none", "client"}
BadCases == [status : BadStatuses \cup {"absent"}, revision : 0..MaxRevision,
             count : Nat, verification : BOOLEAN, last : By]
Events == [from : BadStatuses \cup {"none"}, to : BadStatuses \cup {"none"}, by : By]
PCs == {"idle", "find", "reopen", "recur", "occur", "event", "save", "case", "promotion", "freeze"}

TypeOK ==
    /\ bad \in BadCases
    /\ events \in [1..MaxRevision -> Events]
    /\ occurrences \subseteq Results
    /\ promoted \in BOOLEAN
    /\ version \in [status : {"draft", "frozen"}, cases : SUBSET {Case, Other}, frozen : SUBSET {Case, Other}]
    /\ bindings \in [BaselineRuns -> {"absent", "active", "superseded"}]
    /\ actor \in [Actors -> [pc : PCs, copy : BadCases, from : BadStatuses \cup {"absent", "none"}, by : By,
                             seen : SUBSET {Case, Other}]]
    /\ crashes \in 0..MaxCrashes /\ lapses \in 0..MaxLapses

\* Whatever requests, recurrences and crashes come between, no bad case changes its status
\* without the event of that change, under the revision the change has made.
NoSilentChange ==
    [][bad # NoBad /\ bad'.status # bad.status =>
          LET event == events'[bad'.revision]
          IN  event.from = bad.status /\ event.to = bad'.status]_vars

\* Every occurrence is counted, whatever is saved over what, dies or is analysed twice.  One that
\* is counted twice takes a death between the save and the occurrence, or two tasks that analyse one
\* result, of which one has saved between the other's two reads.
OccurrencesCounted ==
    /\ Cardinality(occurrences) <= bad.count
    /\ crashes = 0 /\ lapses = 0 /\ (\A a \in Actors : ~At(a, "occur")) =>
          bad.count = Cardinality(occurrences)

\* A bad case that was verified has a regression case that the dataset version holds.
VerifiedHasCase == bad.verification => promoted /\ Case \in version.cases

\* Once a scope has a baseline it has exactly one, through every promotion that fails.
OneActiveBaseline ==
    LET active == {b \in BaselineRuns : bindings[b] = "active"}
    IN  (\A b \in BaselineRuns : bindings[b] = "absent") \/ Cardinality(active) = 1

\* The types, the baseline of a scope and the cases of verified faults.
RecordsAreSound == TypeOK /\ OneActiveBaseline /\ VerifiedHasCase
=============================================================================
