-------------------------- MODULE MCInvestigationStage --------------------------
(***************************************************************************)
(* Small instances of InvestigationStage for TLC.                          *)
(***************************************************************************)
EXTENDS InvestigationStage, TLC

CONSTANTS i1

Workers == Permutations(Consumer)

\* Every entry belongs to one investigation ...
OneGroup == [m \in 1 .. MaxEntries |-> i1]

\* ... and is about an event of its own.
OwnEvent == [m \in 1 .. MaxEntries |-> m]

\* Bound: one thing happens besides the handlers and their tasks: an error or a
\* death, an expired snapshot, a stored alert or an analyst's change.
OneOccurrence == Occurrences <= MaxOccurrences
===============================================================================
