---------------------------- MODULE MCIXProfiles ----------------------------
(* IXProfiles with one lane and up to two requests handled at a time. *)
EXTENDS IXProfiles, FiniteSets, TLC
CONSTANTS q1, q2, r1, line

Tasks == 1 .. 4
Outcomes == {"succeeded", "failed"}
Requests == Permutations({q1, q2})
(* Bounds.  What comes after a late result is of no interest to the        *)
(* properties, which speak of runs without one; each task is run to one    *)
(* outcome only (a run cut short leaves the host as one that fails may,    *)
(* and a retry overwrites what the run before it did); and refresh_code    *)
(* tasks, which touch neither the line nor its rules, are not followed.    *)
Orderly ==
  /\ inOrder
  /\ \A t \in Task : /\ "killed" \notin outcomes[t] /\ Cardinality(outcomes[t]) <= 1
                     /\ action[t] # "refresh_code"

(* After a pause or resume only what happens without rules is followed, as *)
(* it does not touch them.                                                 *)
Apart ==
  /\ Orderly
  /\ \/ rules = NoRules /\ hostRules = NoRules
     \/ (\A q \in Request : call[q] \notin Switch) /\ (\A t \in Task : action[t] \notin Switch)
=============================================================================
