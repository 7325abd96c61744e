----------------------------- MODULE Management -----------------------------
(***************************************************************************)
(* The two ways to ask a running gonner something: the management socket   *)
(* (ControlServer) and the status queries (Status).  They share no state,  *)
(* so a behaviour is one of either.                                        *)
(***************************************************************************)
EXTENDS ControlServer, Status

VARIABLE side   \* the one that is looked at: "socket" or "status"

managementVars == <<serverVars, connVars, statusVars, side>>

ManagementInit ==
    /\ ServerInit
    /\ StatusInit
    /\ side \in {"socket", "status"}

ManagementNext ==
    /\ \/ side = "socket" /\ ServerNext /\ UNCHANGED statusVars
       \/ side = "status" /\ StatusNext /\ UNCHANGED <<serverVars, connVars>>
    /\ UNCHANGED side

ManagementSpec == ManagementInit /\ [][ManagementNext]_managementVars
=============================================================================
