----------------------------- MODULE MCSockets -----------------------------
(* Small instances of Sockets and, with it, of Access.                      *)
EXTENDS Sockets, TLC

CONSTANTS admin, pm, dev, p1, p2, t1, t2, s1, s2, s3, j1

MCUsers == {admin, pm, dev}
MCRoleOf == (admin :> "ADMIN") @@ (pm :> "PM") @@ (dev :> "DEVELOPER")

\* Without the admin, whose joins wait for no query.
MCMembers == {pm, dev}
MCMemberRoleOf == (pm :> "PM") @@ (dev :> "DEVELOPER")

\* Connections, projects and tasks are interchangeable.
MCSymmetry ==
    Permutations(Sockets) \cup Permutations(Projects) \cup Permutations(Tasks)
=============================================================================
