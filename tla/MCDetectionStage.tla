--------------------------- MODULE MCDetectionStage ---------------------------
(***************************************************************************)
(* Small instances of DetectionStage for TLC.                              *)
(***************************************************************************)
EXTENDS DetectionStage, TLC

CONSTANTS burst, login,     \* a threshold rule and two pattern rules
          shell

Workers == Permutations(Consumer)

\* Rules of one tactic compete for the alert of an event.
Ranks == [r \in Rule |-> IF r = login THEN 2 ELSE 1]
OneTactic == [r \in Rule |-> "t1"]

\* Each entry is an event of its own.
Distinct == [m \in 1 .. MaxEntries |-> m]

MatchAll == {}
ShellNever == {<<shell, m>> : m \in 1 .. MaxEntries}

\* Bound: the rule that never matches comes first.
ShellFirst ==
    \A c \in Consumer : phase[c] = "match" /\ current[c][1] = burst => shell \notin todo[c]

\* Bound: one suppression key expires once, or there is one fault.
OneMishap ==
    /\ \A k, j \in Key : expiries[k] > 0 /\ expiries[j] > 0 => k = j
    /\ faults > 0 => \A k \in Key : expiries[k] = 0

MCDSpec == DInit /\ [][DNext /\ ShellFirst' /\ OneMishap']_dvars
===============================================================================
