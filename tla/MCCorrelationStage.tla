--------------------------- MODULE MCCorrelationStage ---------------------------
(***************************************************************************)
(* Small instances of CorrelationStage for TLC.                            *)
(***************************************************************************)
EXTENDS CorrelationStage, TLC

CONSTANTS host, other,  \* correlation ids of two logon sessions
          tree          \* a process tree id

Workers == Permutations(Consumer)

\* Events of two sessions, in one process tree.
Keyed == [m \in 1 .. MaxEntries |-> IF m = 1 THEN <<host, tree>> ELSE <<other, tree>>]

\* Events of one session.
OneSession == [m \in 1 .. MaxEntries |-> <<host>>]

\* Bound: a failure or an expired key, not both.
OneMishap == faults + expiries <= 1
===============================================================================
