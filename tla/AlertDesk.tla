------------------------------ MODULE AlertDesk -------------------------------
(***************************************************************************)
(* Alerts of severity high or critical on the desk: analysts change them   *)
(* with PATCH, and the escalation sweep of each worker process writes into *)
(* the same notes.  Both read a row, build the new notes in Python, and    *)
(* write them later, without a lock in between; an UPDATE takes effect at  *)
(* the commit.  Notes are sequences of paragraphs.                         *)
(***************************************************************************)
EXTENDS Sequences, FiniteSets

CONSTANTS
    Ticket,     \* the alerts, all of them open at first
    Sweeper,    \* worker processes, each with its AlertEscalationWorker
    Editor      \* requests of analysts, each made at most once

ASSUME EditorAssumption == "escalated" \notin Editor

VARIABLES
    progress,   \* status of each alert
    acked,      \* alerts whose acknowledged_at is set
    notes,
    removed,    \* deleted_at is set
    overdue,    \* alerts older than ALERT_ESCALATION_WINDOW_SECS
    picked,     \* for each sweep: the rows it has selected, with the notes it read
    asked,      \* requests made
    edit        \* what each request is going to write, while it is in flight

row_vars == <<progress, acked, notes, removed, overdue>>
desk_vars == <<asked, edit>>
dvars == <<row_vars, picked, desk_vars>>

Progress == {"open", "acknowledged", "closed", "false_positive"}

-----------------------------------------------------------------------------
(* The sweep                                                               *)

\* "Only escalate once": rows whose notes hold the escalation already are skipped.
Candidates ==
    {t \in Ticket \ removed :
        /\ progress[t] = "open"
        /\ t \notin acked
        /\ t \in overdue
        /\ \A i \in DOMAIN notes[t] : notes[t][i] # "escalated"}

SweepSelect(w) ==
    /\ picked[w] = {}
    /\ picked' = [picked EXCEPT ![w] = {[ticket |-> t, notes |-> notes[t]] : t \in Candidates}]
    /\ UNCHANGED <<row_vars, desk_vars>>

\* Mutant of Escalated: the note is appended by the database, to what is there by then.
EscalatedInPlace(p) == Append(notes[p.ticket], "escalated")

Escalated(p) == Append(p.notes, "escalated")

\* The updates look at nothing but the id.
SweepCommit(w) ==
    /\ picked[w] # {}
    /\ notes' = [t \in Ticket |->
                    IF \E p \in picked[w] : p.ticket = t
                    THEN Escalated(CHOOSE p \in picked[w] : p.ticket = t)
                    ELSE notes[t]]
    /\ picked' = [picked EXCEPT ![w] = {}]
    /\ UNCHANGED <<progress, acked, removed, overdue, desk_vars>>

\* An error, or the death of the process.
SweepFails(w) ==
    /\ picked[w] # {}
    /\ picked' = [picked EXCEPT ![w] = {}]
    /\ UNCHANGED <<row_vars, desk_vars>>

-----------------------------------------------------------------------------
(* Analysts                                                                *)

\* The notes in a request: none, a text of its own, or the shown text continued.
Drafts(u, t) == {{}, {<<u>>}, {Append(notes[t], u)}}

\* update_alert reads the row; status and notes are optional. acknowledged_at is set
\* once, and never taken back.
UpdateAlert(u, t) ==
    /\ u \notin asked
    /\ t \notin removed
    /\ asked' = asked \cup {u}
    /\ \E s \in {{}} \cup {{p} : p \in Progress}, d \in Drafts(u, t) :
          edit' = [edit EXCEPT ![u] =
                      {[ticket |-> t,
                        progress |-> s \ {progress[t]},
                        acks |-> "acknowledged" \in s /\ t \notin acked,
                        notes |-> d]}]
    /\ UNCHANGED <<row_vars, picked>>

\* The commit writes the columns that were changed, and these only.
SaveAlert(u) ==
    \E e \in edit[u] :
        /\ progress' = [progress EXCEPT ![e.ticket] =
                           IF e.progress = {} THEN @ ELSE CHOOSE p \in e.progress : TRUE]
        /\ acked' = IF e.acks THEN acked \cup {e.ticket} ELSE acked
        /\ notes' = [notes EXCEPT ![e.ticket] =
                        IF e.notes = {} THEN @ ELSE CHOOSE n \in e.notes : TRUE]
        /\ edit' = [edit EXCEPT ![u] = {}]
        /\ UNCHANGED <<removed, overdue, picked, asked>>

SaveFails(u) ==
    /\ edit[u] # {}
    /\ edit' = [edit EXCEPT ![u] = {}]
    /\ UNCHANGED <<row_vars, picked, asked>>

RemoveAlert(t) ==
    /\ t \notin removed
    /\ removed' = removed \cup {t}
    /\ UNCHANGED <<progress, acked, notes, overdue, picked, desk_vars>>

FallsDue(t) ==
    /\ t \notin overdue
    /\ overdue' = overdue \cup {t}
    /\ UNCHANGED <<progress, acked, notes, removed, picked, desk_vars>>

\* The API process dies: its transactions are rolled back.
DeskDies ==
    /\ edit' = [u \in Editor |-> {}]
    /\ UNCHANGED <<row_vars, picked, asked>>

-----------------------------------------------------------------------------
DkInit ==
    /\ progress = [t \in Ticket |-> "open"]
    /\ acked = {}
    /\ notes = [t \in Ticket |-> <<>>]
    /\ removed = {} /\ overdue = {}
    /\ picked = [w \in Sweeper |-> {}]
    /\ asked = {}
    /\ edit = [u \in Editor |-> {}]

DkNext ==
    \/ \E w \in Sweeper : SweepSelect(w) \/ SweepCommit(w) \/ SweepFails(w)
    \/ \E u \in Editor : (\E t \in Ticket : UpdateAlert(u, t)) \/ SaveAlert(u) \/ SaveFails(u)
    \/ \E t \in Ticket : RemoveAlert(t) \/ FallsDue(t)

DkSpec == DkInit /\ [][DkNext \/ DeskDies]_dvars

-----------------------------------------------------------------------------
(***************************************************************************)
(* Properties                                                              *)
(***************************************************************************)

\* Every variable has its type.
DkTypeOK ==
    /\ progress \in [Ticket -> Progress]
    /\ \A t \in Ticket : notes[t] \in Seq({"escalated"} \cup Editor)
    /\ acked \subseteq Ticket /\ removed \subseteq Ticket /\ overdue \subseteq Ticket
    /\ \A w \in Sweeper : \A p \in picked[w] : p.ticket \in Ticket
    /\ asked \subseteq Editor
    /\ \A u \in Editor : \A e \in edit[u] : u \in asked /\ e.ticket \in Ticket

\* "Only escalate once": the notes of an alert hold the escalation at most once, although
\* every worker process sweeps, two sweeps select a row before either commits, and
\* analysts send notes back that they were shown earlier.
EscalatedOnce ==
    \A t \in Ticket :
        \A i, j \in DOMAIN notes[t] :
            notes[t][i] = "escalated" /\ notes[t][j] = "escalated" => i = j
===============================================================================
