---------------------------- MODULE MeetingTables ----------------------------
(***************************************************************************)
(* The statuses, phases and approval decisions of a meeting, and the two   *)
(* transition tables every status or phase change of the runtime is        *)
(* checked against.  A constant module: it has no state of its own.        *)
(***************************************************************************)

\* A task the log has not proposed yet has no entry in MeetingState.tasks.
Absent == "absent"

TaskStatus ==
    {"proposed", "assigned", "accepted", "running", "blocked",
     "ready_for_report", "in_review", "integrated", "merged",
     "rejected", "failed", "cancelled"}

MeetingPhase ==
    {"preparing", "discussing", "executing", "reporting", "deciding",
     "paused", "budget_exhausted", "completed", "failed"}

ApprovalDecision == {"pending", "approved", "rejected"}

\* _TASK_TRANSITIONS: the statuses a task may move to.
TaskTransitions ==
    [ proposed         |-> {"assigned", "cancelled"},
      assigned         |-> {"accepted", "cancelled"},
      accepted         |-> {"running", "cancelled"},
      running          |-> {"blocked", "ready_for_report", "failed", "cancelled"},
      blocked          |-> {"accepted", "running", "cancelled", "failed"},
      ready_for_report |-> {"in_review", "integrated", "rejected", "cancelled"},
      in_review        |-> {"ready_for_report", "integrated", "rejected", "cancelled"},
      integrated       |-> {"merged", "rejected"},
      merged           |-> {},
      rejected         |-> {"accepted", "cancelled"},
      failed           |-> {"accepted", "cancelled"},
      cancelled        |-> {} ]

\* _PHASE_TRANSITIONS: the phases a meeting may move to.
PhaseTransitions ==
    [ preparing        |-> {"discussing", "executing", "paused", "failed"},
      discussing       |-> {"executing", "reporting", "deciding", "paused",
                            "completed", "failed", "budget_exhausted"},
      executing        |-> {"discussing", "reporting", "deciding", "paused",
                            "failed", "budget_exhausted"},
      reporting        |-> {"discussing", "executing", "deciding", "paused",
                            "failed", "budget_exhausted"},
      deciding         |-> {"discussing", "executing", "completed", "paused",
                            "failed", "budget_exhausted"},
      paused           |-> {"discussing", "executing", "reporting", "deciding",
                            "completed", "failed", "budget_exhausted"},
      budget_exhausted |-> {"paused", "completed", "failed"},
      completed        |-> {},
      failed           |-> {} ]

=============================================================================
