------------------------------- MODULE Platform --------------------------------
(***************************************************************************)
(* What goes on beside the pipeline: the API process (ApiServer), the      *)
(* tasks that follow an alert in the workers (AttackChains), the desk      *)
(* where analysts and the sweeps of the workers meet (AlertDesk), the row  *)
(* of an agent, where heartbeats, sweeps and orders meet (Fleet), and the  *)
(* assignments of an investigation (Assignments).                          *)
(***************************************************************************)
EXTENDS ApiServer, AttackChains, AlertDesk, Fleet, Assignments

PlInit == ApiInit /\ ChInit /\ DkInit /\ FlInit /\ AsInit

pvars == <<avars, chvars, dvars, fvars, asvars>>

ApiMoves ==
    /\ EnrollmentMoves \/ SessionsMove \/ WorkspaceMoves
    /\ UNCHANGED <<chvars, dvars, fvars, asvars>>

ChainsMove == ChNext /\ UNCHANGED <<avars, dvars, fvars, asvars>>

DeskMoves == DkNext /\ UNCHANGED <<avars, chvars, fvars, asvars>>

FleetMoves == FlNext /\ UNCHANGED <<avars, chvars, dvars, asvars>>

AssignmentsMove == AsNext /\ UNCHANGED <<avars, chvars, dvars, fvars>>

\* With the API process go the requests of agents and analysts.
ApiProcessDies ==
    /\ ApiDies /\ DeskDies /\ FleetDies /\ AssignmentsDie
    /\ UNCHANGED chvars

PlNext ==
    \/ ApiMoves \/ ChainsMove \/ DeskMoves \/ FleetMoves \/ AssignmentsMove
    \/ ApiProcessDies

PlSpec == PlInit /\ [][PlNext]_pvars

\* Every variable has its type.
PlatformTypeOK == ApiTypeOK /\ ChTypeOK /\ DkTypeOK /\ FlTypeOK /\ AsTypeOK
===============================================================================
