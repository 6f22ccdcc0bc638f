--------------------------- MODULE BulkOperation ---------------------------
(***************************************************************************)
(* What a bulk command promises: the operation runs once on every selected *)
(* repository, every outcome reaches the caller once, through the handler  *)
(* that fits it, whatever happens to the other repositories, and the       *)
(* command fails exactly when some repository did.                         *)
(***************************************************************************)
EXTENDS Naturals

CONSTANT Jobs    \* the selected repositories, one job each

VARIABLES
  outcome,   \* what the operation returned for each repository
  report,    \* which handler was given each repository
  calls,     \* handler invocations so far
  done,      \* the command has returned
  hasError   \* ctx.HasError

vars == <<outcome, report, calls, done, hasError>>

Init ==
  /\ outcome = [j \in Jobs |-> "pending"]
  /\ report = [j \in Jobs |-> "none"]
  /\ calls = 0
  /\ done = FALSE
  /\ hasError = FALSE

Perform(j) ==
  /\ outcome[j] = "pending"
  /\ \E r \in {"ok", "error"} : outcome' = [outcome EXCEPT ![j] = r]
  /\ UNCHANGED <<report, calls, done, hasError>>

Report(j) ==
  /\ outcome[j] # "pending"
  /\ report[j] = "none"
  /\ report' = [report EXCEPT ![j] = outcome[j]]
  /\ calls' = calls + 1
  /\ UNCHANGED <<outcome, done, hasError>>

Finish ==
  /\ ~done
  /\ \A j \in Jobs : report[j] # "none"
  /\ done' = TRUE
  /\ hasError' = (\E j \in Jobs : outcome[j] = "error")
  /\ UNCHANGED <<outcome, report, calls>>

Next ==
  \/ \E j \in Jobs : Perform(j) \/ Report(j)
  \/ Finish

Spec == Init /\ [][Next]_vars
=============================================================================
