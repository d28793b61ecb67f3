--------------------------- MODULE MCTaskService ---------------------------
(* Small instances of TaskService.                                          *)
EXTENDS TaskService, TLC

CONSTANTS pm, dev, other, p1, t1, r1, r2, s1, s2

\* The project's PM, a developer, and a PM with no project; an admin may do what
\* the project's PM may.
MCUsers == {pm, dev, other}
MCRoleOf == (pm :> "PM") @@ (dev :> "DEVELOPER") @@ (other :> "PM")

\* Only the two users whose moves can race on a developer's task.
MCTwoUsers == {pm, dev}
MCTwoRoleOf == (pm :> "PM") @@ (dev :> "DEVELOPER")

MCPmOf == (p1 :> pm)

\* Slots of requests and of sweeps are interchangeable.
MCSymmetry == Permutations(Requests) \cup Permutations(Sweeps)
=============================================================================
