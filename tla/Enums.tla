-------------------------------- MODULE Enums --------------------------------
(***************************************************************************)
(* The numeric status codes of src/server/src/shared/Enums.ts.  The code   *)
(* compares statuses by their order ("status >= COMPLETED", "$lt CANCELING"),*)
(* so the numbers are kept.  Job and task statuses use the same number for *)
(* the same name; COMPLETED (jobs) and SUCCEEDED (tasks) share 20.         *)
(***************************************************************************)
EXTENDS Integers

NULL              == -1   \* a document field that is null: never launched
NOT_STARTED       == 0
WAITING_FOR_AGENT == 3
PUBLISHED         == 5
RUNNING           == 10
INTERRUPTING      == 14
INTERRUPTED       == 15
CANCELING         == 17
SUCCEEDED         == 20
COMPLETED         == 20
CANCELLED         == 21
FAILED            == 22
SKIPPED           == 23

\* A job definition is RUNNING (10) or PAUSED.
PAUSED            == 15

TaskStatus == {NULL, NOT_STARTED, WAITING_FOR_AGENT, PUBLISHED, RUNNING,
               INTERRUPTING, INTERRUPTED, CANCELING, SUCCEEDED, CANCELLED,
               FAILED, SKIPPED}

JobStatus == {NOT_STARTED, RUNNING, INTERRUPTING, INTERRUPTED, CANCELING,
              COMPLETED, FAILED, SKIPPED}

JobDefStatus == {RUNNING, PAUSED}
=============================================================================
