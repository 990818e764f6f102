-------------------------- MODULE ServiceLifecycle --------------------------
(***************************************************************************)
(* What a Windows service promises the service control manager: the life   *)
(* cycle of its state, which the manager shows.  ServiceControl is shown   *)
(* to implement it.                                                        *)
(***************************************************************************)
VARIABLES
    state,   \* the service's own state
    shown    \* the state the manager shows

Completed == [START_PENDING |-> "RUNNING", PAUSE_PENDING |-> "PAUSED",
              CONTINUE_PENDING |-> "RUNNING", STOP_PENDING |-> "STOPPED"]

Init == state = "STOPPED" /\ shown = "STOPPED"

Report(s) == state' = s /\ shown' = s

\* The manager launches the process before the service reports anything.
Launch == state = "STOPPED" /\ shown = "STOPPED" /\ shown' = "START_PENDING" /\ UNCHANGED state
Begin == state = "STOPPED" /\ Report("START_PENDING")
Request ==
    /\ state \in {"RUNNING", "PAUSED"}
    /\ \E s \in {"PAUSE_PENDING", "CONTINUE_PENDING", "STOP_PENDING"} : Report(s)
Complete == state \in DOMAIN Completed /\ Report(Completed[state])

\* The process ends, before the service has reported anything or after it stopped.
End == state = "STOPPED" /\ Report("STOPPED")

Next == Launch \/ Begin \/ Request \/ Complete \/ End

Spec == Init /\ [][Next]_<<state, shown>>

\* Every pending state is left again, for the state asked for or for STOPPED.
Settles ==
    \A s \in DOMAIN Completed : shown = s ~> shown \in {Completed[s], "STOPPED"}
=============================================================================
