----------------------------- MODULE JobContract -----------------------------
(***************************************************************************)
(* What the job backend of either profile promises about each job,         *)
(* whatever happens to its processes: the job is tried a bounded number of *)
(* times (once in the Team profile), each try is handed to a worker at     *)
(* most once, and the job is decided once.  Several jobs may move in one   *)
(* step, because a recovery is one transaction over all.                   *)
(***************************************************************************)
EXTENDS Naturals

CONSTANTS Jobs, MaxAttempts

VARIABLES tries,     \* tries[j]: attempts created so far
          turn,      \* turn[j]: the last of them is "fresh", "taken" by a worker or "spent"
          verdict    \* verdict[j]: "none", "open", or the terminal status

contract == <<tries, turn, verdict>>

Verdicts == {"completed", "failed", "cancelled", "dead"}

Init ==
    /\ tries = [j \in Jobs |-> 0]
    /\ turn = [j \in Jobs |-> "spent"]
    /\ verdict = [j \in Jobs |-> "none"]

Same(j) == tries'[j] = tries[j] /\ turn'[j] = turn[j] /\ verdict'[j] = verdict[j]

StaysOpen(j) == verdict[j] = "open" /\ verdict'[j] = "open"

Accept(j) ==
    /\ verdict[j] = "none" /\ verdict'[j] = "open"
    /\ tries'[j] = 1
    /\ turn'[j] = "fresh"

Take(j) ==
    /\ StaysOpen(j)
    /\ tries'[j] = tries[j]
    /\ turn[j] = "fresh" /\ turn'[j] = "taken"

\* The try ends without a verdict.
Spend(j) ==
    /\ StaysOpen(j)
    /\ tries'[j] = tries[j]
    /\ turn'[j] = "spent"

TryAgain(j) ==
    /\ StaysOpen(j)
    /\ tries[j] < MaxAttempts
    /\ tries'[j] = tries[j] + 1
    /\ turn'[j] = "fresh"

\* Only a worker's try completes a job; a job dies only when all its tries are made.
Decide(j) ==
    /\ verdict[j] = "open" /\ verdict'[j] \in Verdicts
    /\ tries'[j] = tries[j]
    /\ turn'[j] = "spent"
    /\ verdict'[j] = "completed" => turn[j] = "taken"
    /\ verdict'[j] = "dead" => tries[j] = MaxAttempts

JobStep(j) == Accept(j) \/ Take(j) \/ Spend(j) \/ TryAgain(j) \/ Decide(j)

Next == \A j \in Jobs : JobStep(j) \/ Same(j)

Spec == Init /\ [][Next]_contract
=============================================================================
