------------------------------- MODULE ApiServer -------------------------------
(***************************************************************************)
(* The API process: its REST transactions (Enrollment, Sessions) and the   *)
(* handlers of its WebSockets (Workspace) share a process and nothing      *)
(* else.  When it dies, PostgreSQL rolls every open transaction back, the  *)
(* keys in Redis stay as they are, and no finally clause is run.           *)
(***************************************************************************)
EXTENDS Enrollment, Sessions, Workspace

ApiInit == EnInit /\ SeInit /\ WsInit

avars == <<evars, svars, wvars>>

EnrollmentMoves == EnNext /\ UNCHANGED <<svars, wvars>>

SessionsMove == SeNext /\ UNCHANGED <<evars, wvars>>

WorkspaceMoves == WsNext /\ UNCHANGED <<evars, svars>>

ApiDies == EnrollmentDies /\ SessionsDie /\ WorkspaceDies

ApiNext == EnrollmentMoves \/ SessionsMove \/ WorkspaceMoves \/ ApiDies

ApiSpec == ApiInit /\ [][ApiNext]_avars

\* Every variable has its type.
ApiTypeOK == EnTypeOK /\ SeTypeOK /\ WsTypeOK
=============================================================================
