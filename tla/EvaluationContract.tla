-------------------------- MODULE EvaluationContract --------------------------
(***************************************************************************)
(* What an evaluation promises about the attempts at one fingerprint,      *)
(* whoever executes them and however often: an attempt follows one that    *)
(* ended without completing, a result and the metrics are written once,    *)
(* and an attempt is decided once, as completed only when every case has   *)
(* been judged and the metrics are those of all the results.               *)
(***************************************************************************)
EXTENDS Naturals

CONSTANTS Attempts, Cases

VARIABLES verdict,  \* verdict[a]: "none", "open", or the terminal status
          results,  \* results[a][k]: "none", or what the case came to
          metrics   \* metrics[a]: the results they were computed from

contract == <<verdict, results, metrics>>

Ended == {"partial", "failed", "cancelled"}
Outcomes == {"passed", "failed", "error"}
Nothing == [k \in Cases |-> "none"]

Init ==
    /\ verdict = [a \in 1..Attempts |-> "none"]
    /\ results = [a \in 1..Attempts |-> Nothing]
    /\ metrics = [a \in 1..Attempts |-> Nothing]

Attempt(a) ==
    /\ verdict[a] = "none"
    /\ a > 1 => verdict[a - 1] \in Ended
    /\ verdict' = [verdict EXCEPT ![a] = "open"]
    /\ UNCHANGED <<results, metrics>>

\* Also for an attempt that has been decided: a case may outlive its task.
Record(a, k) ==
    /\ verdict[a] # "none"
    /\ results[a][k] = "none"
    /\ \E o \in Outcomes : results' = [results EXCEPT ![a][k] = o]
    /\ UNCHANGED <<verdict, metrics>>

\* From what was known of the results, which may have been less than there were.
Measure(a) ==
    /\ verdict[a] # "none"
    /\ metrics[a] = Nothing
    /\ \E known \in {[k \in Cases |-> IF k \in K THEN results[a][k] ELSE "none"] : K \in SUBSET Cases} :
          metrics' = [metrics EXCEPT ![a] = known]
    /\ UNCHANGED <<verdict, results>>

Complete(a) ==
    /\ verdict[a] = "open"
    /\ \A k \in Cases : results[a][k] \in {"passed", "failed"}
    /\ metrics[a] = results[a]
    /\ verdict' = [verdict EXCEPT ![a] = "completed"]
    /\ UNCHANGED <<results, metrics>>

End(a) ==
    /\ verdict[a] = "open"
    /\ \E v \in Ended : verdict' = [verdict EXCEPT ![a] = v]
    /\ UNCHANGED <<results, metrics>>

Next ==
    \E a \in 1..Attempts :
        \/ Attempt(a) \/ Measure(a) \/ Complete(a) \/ End(a)
        \/ \E k \in Cases : Record(a, k)

Spec == Init /\ [][Next]_contract
=============================================================================
