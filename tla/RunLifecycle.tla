----------------------------- MODULE RunLifecycle -----------------------------
(***************************************************************************)
(* The run state machine as app/agent/state.py and state_machine.py        *)
(* declare it.  The stores do not call transition_run; whether what they   *)
(* do agrees with the table is checked in DurableRuns.                     *)
(***************************************************************************)

RunStatus == {"queued", "running", "waiting_approval", "retry_scheduled",
              "completed", "failed", "canceled"}

Terminal == {"completed", "failed", "canceled"}

\* ALLOWED_TRANSITIONS
AllowedTransitions ==
  [queued           |-> {"running", "canceled"},
   running          |-> {"waiting_approval", "retry_scheduled", "completed",
                         "failed", "canceled"},
   waiting_approval |-> {"queued", "canceled"},
   retry_scheduled  |-> {"queued", "canceled"},
   completed        |-> {},
   failed           |-> {},
   canceled         |-> {}]
=============================================================================
