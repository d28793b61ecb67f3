------------------------------ MODULE Workflow ------------------------------
(* The statuses of a task and the server's table of status changes.          *)

Statuses == {"TODO", "IN_PROGRESS", "IN_REVIEW", "DONE"}

\* The pairs <<from, to>> a status change may make; DONE has no successor.
VALID_TRANSITIONS ==
    { <<"TODO", "IN_PROGRESS">>,
      <<"IN_PROGRESS", "IN_REVIEW">>, <<"IN_PROGRESS", "TODO">>,
      <<"IN_REVIEW", "DONE">>, <<"IN_REVIEW", "IN_PROGRESS">> }
=============================================================================
