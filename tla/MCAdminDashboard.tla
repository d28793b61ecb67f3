-------------------------- MODULE MCAdminDashboard --------------------------
(* A small instance of AdminDashboard, and with it of Sockets and Access.    *)
EXTENDS AdminDashboard, MCSockets
=============================================================================
