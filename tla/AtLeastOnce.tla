------------------------------ MODULE AtLeastOnce ------------------------------
(***************************************************************************)
(* What a consumer group promises its producers and its handlers, with the *)
(* PEL, the claims, the batches and the crashes left out: an entry is      *)
(* completed any number of times and settled at most once, and never       *)
(* before some handler completed it, unless it is exempt from handling.    *)
(***************************************************************************)
EXTENDS Naturals

CONSTANTS Item,     \* entries that may ever be offered
          Exempt    \* entries settled without being handled

VARIABLES offered,    \* entries added since the group exists
          completed,  \* entries some handler completed
          settled     \* entries the group is done with

avars == <<offered, completed, settled>>

AInit ==
    /\ offered = {}
    /\ completed = {}
    /\ settled = {}

Offer(m) ==
    /\ m \notin offered
    /\ offered' = offered \cup {m}
    /\ UNCHANGED <<completed, settled>>

\* Handlers may run again for an entry already settled: that is a stutter.
Complete(m) ==
    /\ m \in offered
    /\ completed' = completed \cup {m}
    /\ UNCHANGED <<offered, settled>>

Settle(m) ==
    /\ m \in (offered \cap (completed \cup Exempt)) \ settled
    /\ settled' = settled \cup {m}
    /\ UNCHANGED <<offered, completed>>

ANext == \E m \in Item : Offer(m) \/ Complete(m) \/ Settle(m)

ASpec == AInit /\ [][ANext]_avars
================================================================================
