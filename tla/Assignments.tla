------------------------------ MODULE Assignments -------------------------------
(***************************************************************************)
(* Who works on one investigation: the rows of investigation_assignments   *)
(* and the column investigations.assigned_to.  assign loads the            *)
(* investigation, marks the active rows inactive with an UPDATE, inserts   *)
(* its own row, and writes the column; nothing locks the investigation,    *)
(* and no constraint limits the active rows.                               *)
(***************************************************************************)
EXTENDS FiniteSets

CONSTANTS
    Handover,   \* requests of assign, each made at most once
    Assignee

VARIABLES
    column,     \* assigned_to: {} or one analyst
    active,     \* rows with is_active, named by their requests
    task,       \* the next step of each request
    assignee,   \* the analyst it names
    read,       \* the column as it loaded it
    snapshot,   \* the active rows when its UPDATE began
    locked,     \* the rows its UPDATE has marked inactive
    alone,      \* no other request was in flight together with it
    settled     \* the last commit was of a request alone

handover_vars == <<task, assignee, read, snapshot, locked>>
asvars == <<column, active, handover_vars, alone, settled>>

Busy(h) == task[h] \notin {"new", "done"}

Proceed(h, step) == task' = [task EXCEPT ![h] = step]

-----------------------------------------------------------------------------
\* _require_investigation.
Load(h, a) ==
    /\ task[h] = "new"
    /\ Proceed(h, "update")
    /\ assignee' = [assignee EXCEPT ![h] = {a}]
    /\ read' = [read EXCEPT ![h] = column]
    /\ alone' = IF \E g \in Handover : Busy(g) THEN {} ELSE {h}
    /\ UNCHANGED <<column, active, snapshot, locked, settled>>

\* The UPDATE of _deactivate_current sees what is committed when it begins,
DeactivateCurrent(h) ==
    /\ task[h] = "update"
    /\ Proceed(h, "wait")
    /\ snapshot' = [snapshot EXCEPT ![h] = active]
    /\ UNCHANGED <<column, active, assignee, read, locked, alone, settled>>

\* Mutant of RowsMet: one row is looked up and marked, the current one.
OneRowMet(h) ==
    LET rows == snapshot[h] \cap active
    IN  {r \in rows : r = CHOOSE s \in rows : TRUE}

\* waits for the transactions that hold these rows, and looks at them again.
RowsMet(h) == snapshot[h] \cap active

LockRows(h) ==
    /\ task[h] = "wait"
    /\ \A g \in Handover : snapshot[h] \cap locked[g] = {}
    /\ locked' = [locked EXCEPT ![h] = RowsMet(h)]
    /\ Proceed(h, "insert")
    /\ UNCHANGED <<column, active, assignee, read, snapshot, alone, settled>>

\* The flush writes the column if the analyst is not the one it loaded.
Assign(h) ==
    /\ task[h] = "insert"
    /\ active' = (active \ locked[h]) \cup {h}
    /\ column' = IF assignee[h] = read[h] THEN column ELSE assignee[h]
    /\ settled' = (h \in alone)
    /\ locked' = [locked EXCEPT ![h] = {}]
    /\ Proceed(h, "done")
    /\ UNCHANGED <<assignee, read, snapshot, alone>>

\* An error, a deadlock of two UPDATEs included.
AssignFails(h) ==
    /\ Busy(h)
    /\ locked' = [locked EXCEPT ![h] = {}]
    /\ Proceed(h, "done")
    /\ UNCHANGED <<column, active, assignee, read, snapshot, alone, settled>>

\* The API process dies: its transactions are rolled back.
AssignmentsDie ==
    /\ task' = [h \in Handover |-> IF Busy(h) THEN "done" ELSE task[h]]
    /\ locked' = [h \in Handover |-> {}]
    /\ UNCHANGED <<column, active, assignee, read, snapshot, alone, settled>>

-----------------------------------------------------------------------------
\* An investigation that was opened by hand may name an analyst and have no row.
AsInit ==
    /\ column \in {{}} \cup {{a} : a \in Assignee}
    /\ active = {}
    /\ task = [h \in Handover |-> "new"]
    /\ assignee = [h \in Handover |-> {}]
    /\ read = [h \in Handover |-> {}]
    /\ snapshot = [h \in Handover |-> {}]
    /\ locked = [h \in Handover |-> {}]
    /\ alone = {}
    /\ settled = FALSE

AsNext ==
    \E h \in Handover :
        \/ \E a \in Assignee : Load(h, a)
        \/ DeactivateCurrent(h) \/ LockRows(h) \/ Assign(h) \/ AssignFails(h)

AsSpec == AsInit /\ [][AsNext \/ AssignmentsDie]_asvars

-----------------------------------------------------------------------------
(***************************************************************************)
(* Properties                                                              *)
(***************************************************************************)

\* Every variable has its type.
AsTypeOK ==
    /\ column \subseteq Assignee
    /\ active \subseteq Handover /\ alone \subseteq Handover
    /\ task \in [Handover -> {"new", "update", "wait", "insert", "done"}]
    /\ assignee \in [Handover -> SUBSET Assignee]
    /\ read \in [Handover -> SUBSET Assignee]
    /\ snapshot \in [Handover -> SUBSET Handover]
    /\ locked \in [Handover -> SUBSET Handover]
    /\ settled \in BOOLEAN

\* "The current assignment is the row where is_active=True", and assigned_to "is kept in
\* sync": two requests that overlap may leave two active rows, or a column that names
\* another analyst; a request that nobody overlapped leaves one row, and agreement,
\* whatever it finds.
OneAssignee ==
    settled => \E h \in Handover : active = {h} /\ column = assignee[h]
===============================================================================
