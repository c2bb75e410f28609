-------------------------- MODULE DetectionStageProofs --------------------------
(***************************************************************************)
(* The invariants of the detection stage, proved for any number of         *)
(* workers, entries, rules, faults and expiries.                           *)
(***************************************************************************)
EXTENDS DetectionStage, StreamConsumerProofs, FiniteSetTheorems

-----------------------------------------------------------------------------
(* The inductive invariant                                                 *)

\* A handler runs on the head of its batch, which it keeps; it has a rule in hand where
\* it needs one, with a count that events account for; its session is empty outside.
OnDuty(c) ==
    /\ phase[c] # "idle" => \E m \in batch[c] : Handling(c, m)
    /\ phase[c] \in {"match", "suppress"} => current[c] \in Key
    /\ phase[c] = "suppress" /\ current[c][1] \in ThresholdRule =>
          Threshold <= current[c][2] /\ current[c][2] <= Cardinality(DeliveredEvents)
    /\ phase[c] \in {"idle", "notify"} => drafts[c] = {}

\* The alert of the current period of a key is there only while the key is.
AlertsHaveKeys ==
    \A a \in Alerts :
        /\ a.period <= expiries[KeyOf(a)]
        /\ a.period = expiries[KeyOf(a)] => KeyOf(a) \in quiet

\* A suppression key lets one alert through in each of its periods.
OneAlertPerKeyAndPeriod ==
    \A a, b \in Alerts : KeyOf(a) = KeyOf(b) /\ a.period = b.period => a = b

DIInv ==
    /\ \A c \in Consumer : OnDuty(c)
    /\ \A r \in Rule : window[r] \subseteq DeliveredEvents
    /\ AlertsHaveKeys
    /\ OneAlertPerKeyAndPeriod
    /\ CountsDifferentEvents
    /\ QuietKeysHaveAlerts
    /\ AnnouncedIsStored

-----------------------------------------------------------------------------
(* The stream below                                                        *)

\* A rule or a publication that fails only counts.
MerelyFails ==
    /\ Fault
    /\ UNCHANGED <<stream_vars, group_vars, pending, stale, loop_vars, handled, acked>>

\* Any other step of the stage is a step of its consumer group or stutters there.
LEMMA StepOfStream == [DNext]_dvars => [Next]_vars \/ MerelyFails
  BY DEF DNext, dvars, LoopOnly, KeyExpires, Begin, CheckRate, Match, Suppress, RuleFails,
         Deduplicate, Publish, PublishAlertFails, Commit, InHandler, Notify, HandlerBreaks,
         DHalt, Next, Work, Misfortune, MerelyFails

\* The invariants of the consumer group hold in the stage.
LEMMA StreamKept ==
    ASSUME TypeOK, IInv, [DNext]_dvars
    PROVE  TypeOK' /\ IInv' /\ Delivered \subseteq Delivered'
  <1>1. CASE [Next]_vars
    <2>1. TypeOK' /\ IInv'
      BY <1>1, NextTypeOK, NextIInv
    <2>2. CASE group
      BY <1>1, <2>1, <2>2, DeliveredGrows
    <2>3. CASE ~group
      BY <2>1, <2>3 DEF IInv, Untouched
    <2>4. QED
      BY <2>1, <2>2, <2>3
  <1>2. CASE MerelyFails
    BY <1>2 DEF MerelyFails, Fault, stream_vars, group_vars, loop_vars, TypeOK, IInv, Untouched,
        Delivered, Entry, IsHead, AckedWasHandled, DeliveredIsTracked
  <1>3. QED
    BY <1>1, <1>2, StepOfStream

\* There are no more events than entries, of which there are finitely many.
LEMMA EventsOfEntries ==
    ASSUME NEW lo \in Nat, NEW hi \in 0 .. MaxEntries,
           NEW S \in SUBSET {EventOf[m] : m \in (lo + 1) .. hi}
    PROVE  /\ IsFiniteSet(S)
           /\ Cardinality(S) \in 0 .. MaxEntries
  <1> DEFINE I == (lo + 1) .. hi
             E == {EventOf[m] : m \in I}
             f == [m \in I |-> EventOf[m]]
  <1>0. S \in SUBSET E
    OBVIOUS
  <1>1. IsFiniteSet(I) /\ Cardinality(I) <= MaxEntries
    <2>1. /\ lo + 1 \in Int /\ hi \in Int /\ MaxEntries \in Nat
          /\ hi - (lo + 1) + 1 <= MaxEntries
      BY ConsumerAssumption
    <2>2. IsFiniteSet(I) /\ Cardinality(I) = IF lo + 1 > hi THEN 0 ELSE hi - (lo + 1) + 1
      BY <2>1, FS_Interval
    <2>3. QED
      BY <2>1, <2>2
  <1>2. Cardinality(I) \in Nat
    BY <1>1, FS_CardinalityType
  <1>3. f \in Surjection(I, E)
    BY DEF Surjection
  <1>4. IsFiniteSet(E) /\ Cardinality(E) <= Cardinality(I)
    <2> HIDE DEF I, E, f
    <2>1. QED
      BY <1>1, <1>3, FS_Surjection
  <1>5. IsFiniteSet(S) /\ Cardinality(S) <= Cardinality(E)
    <2> HIDE DEF I, f
    <2>1. QED
      BY <1>0, <1>4, FS_Subset
  <1>6. Cardinality(S) \in Nat /\ Cardinality(E) \in Nat
    BY <1>4, <1>5, FS_CardinalityType
  <1> HIDE DEF I, E, f
  <1>7. QED
    BY <1>1, <1>2, <1>4, <1>5, <1>6, ConsumerAssumption

\* A set of delivered events has no more members than there are of them.
LEMMA SomeEvents ==
    ASSUME TypeOK, IInv, NEW S \in SUBSET DeliveredEvents
    PROVE  Cardinality(S) \in 0 .. MaxEntries /\ Cardinality(S) <= Cardinality(DeliveredEvents)
  <1>1. groupStart \in Nat /\ lastDelivered \in 0 .. MaxEntries
    BY ConsumerAssumption DEF TypeOK, IInv
  <1>2. Cardinality(S) \in 0 .. MaxEntries
    BY <1>1, EventsOfEntries DEF DeliveredEvents, Delivered
  <1>3. IsFiniteSet(DeliveredEvents)
    BY <1>1, EventsOfEntries DEF DeliveredEvents, Delivered
  <1>4. QED
    BY <1>2, <1>3, FS_Subset

\* What was counted stays accounted for.
LEMMA CountsGrow ==
    ASSUME TypeOK, IInv, [DNext]_dvars
    PROVE  /\ DeliveredEvents \subseteq DeliveredEvents'
           /\ Cardinality(DeliveredEvents) \in Nat
           /\ Cardinality(DeliveredEvents') \in Nat
           /\ Cardinality(DeliveredEvents) <= Cardinality(DeliveredEvents')
  <1>1. TypeOK' /\ IInv' /\ Delivered \subseteq Delivered'
    BY StreamKept
  <1>2. DeliveredEvents \subseteq DeliveredEvents'
    BY <1>1 DEF DeliveredEvents
  <1>3. groupStart' \in Nat /\ lastDelivered' \in 0 .. MaxEntries
    BY <1>1, ConsumerAssumption DEF TypeOK, IInv
  <1>4. IsFiniteSet(DeliveredEvents')
    BY <1>3, EventsOfEntries DEF DeliveredEvents, Delivered
  <1>5. QED
    BY <1>2, <1>4, FS_Subset, FS_CardinalityType

-----------------------------------------------------------------------------
(* Parts of a step                                                         *)

\* No step takes a fault back.
LEMMA FaultsGrow ==
    ASSUME TypeOK, [DNext]_dvars
    PROVE  faults' = 0 => faults = 0
  <1>1. CASE [Next]_vars
    BY <1>1 DEF Next, Work, Misfortune, XAdd, Start, Poll, PollFails, Reclaim, ReclaimFails,
        HandlerOk, PoisonRaises, HandlerFails, HandlerRaises, Ack, AckFails, Halt, GoIdle, Fault,
        vars, TypeOK
  <1>2. CASE MerelyFails
    BY <1>2 DEF MerelyFails, Fault, TypeOK
  <1>3. QED
    BY <1>1, <1>2, StepOfStream

\* An alert is stored or in a session.
LEMMA WhereAlertsAre ==
    /\ \A a : a \in Alerts <=> a \in stored \/ \E c \in Consumer : a \in drafts[c]
    /\ \A a : a \in Alerts' <=> a \in stored' \/ \E c \in Consumer : a \in drafts'[c]
  BY DEF Alerts

\* Alerts that are there have the types of their fields.
LEMMA AlertTypes ==
    ASSUME DTypeOK, NEW a \in Alerts
    PROVE  a \in Alert /\ KeyOf(a) \in Key
  <1>1. a \in Alert
    BY WhereAlertsAre DEF DTypeOK
  <1>2. QED
    BY <1>1 DEF Alert, KeyOf, Key

\* A step that neither adds nor loses an alert, and touches no suppression key.
LEMMA SameAlerts ==
    ASSUME DTypeOK, IInv, DIInv, [DNext]_dvars, Alerts' = Alerts, UNCHANGED <<quiet, expiries>>,
           announced' \subseteq announced \cup Alerts
    PROVE  /\ AlertsHaveKeys' /\ OneAlertPerKeyAndPeriod' /\ CountsDifferentEvents'
           /\ QuietKeysHaveAlerts' /\ AnnouncedIsStored'
  <1>1. faults' = 0 => faults = 0
    BY FaultsGrow DEF DTypeOK
  <1>2. AlertsHaveKeys' /\ OneAlertPerKeyAndPeriod'
    BY DEF DIInv, AlertsHaveKeys, OneAlertPerKeyAndPeriod, KeyOf
  <1>3. CountsDifferentEvents'
    <2>1. \A a \in Alerts : a.count \in Int
      BY AlertTypes, ConsumerAssumption DEF Alert, NoCount
    <2>2. QED
      BY <2>1, CountsGrow DEF DIInv, CountsDifferentEvents, DTypeOK
  <1>4. QuietKeysHaveAlerts'
    BY <1>1 DEF DIInv, QuietKeysHaveAlerts, KeyOf
  <1>5. AnnouncedIsStored'
    BY <1>1 DEF DIInv, AnnouncedIsStored
  <1>6. QED
    BY <1>2, <1>3, <1>4, <1>5

\* A fault may lose alerts and leave keys.
LEMMA FewerAlerts ==
    ASSUME DTypeOK, IInv, DIInv, [DNext]_dvars, Alerts' \subseteq Alerts,
           quiet \subseteq quiet', UNCHANGED expiries, faults' # 0
    PROVE  /\ AlertsHaveKeys' /\ OneAlertPerKeyAndPeriod' /\ CountsDifferentEvents'
           /\ QuietKeysHaveAlerts' /\ AnnouncedIsStored'
  <1>1. AlertsHaveKeys' /\ OneAlertPerKeyAndPeriod'
    BY DEF DIInv, AlertsHaveKeys, OneAlertPerKeyAndPeriod, KeyOf
  <1>2. CountsDifferentEvents'
    <2>1. \A a \in Alerts : a.count \in Int
      BY AlertTypes, ConsumerAssumption DEF Alert, NoCount
    <2>2. QED
      BY <2>1, CountsGrow DEF DIInv, CountsDifferentEvents, DTypeOK
  <1>3. QuietKeysHaveAlerts' /\ AnnouncedIsStored'
    BY DEF QuietKeysHaveAlerts, AnnouncedIsStored
  <1>4. QED
    BY <1>1, <1>2, <1>3

\* The handlers a step does not concern.
LEMMA OthersOnDuty ==
    ASSUME DTypeOK, IInv, [DNext]_dvars, NEW d \in Consumer, OnDuty(d),
           phase'[d] = phase[d], current'[d] = current[d], drafts'[d] = drafts[d],
           phase[d] # "idle" => batch'[d] = batch[d] /\ returned'[d] = returned[d]
    PROVE  OnDuty(d)'
  <1>1. phase'[d] # "idle" => \E m \in batch'[d] : Handling(d, m)'
    BY DEF OnDuty, Handling, IsHead
  <1>2. ASSUME phase[d] = "suppress", current[d][1] \in ThresholdRule
        PROVE  Threshold <= current[d][2] /\ current[d][2] <= Cardinality(DeliveredEvents')
    <2>1. current[d][2] \in Int
      BY <1>2, ConsumerAssumption DEF OnDuty, Key, NoCount
    <2>2. QED
      BY <1>2, <2>1, CountsGrow DEF OnDuty, DTypeOK
  <1>3. QED
    BY <1>1, <1>2 DEF OnDuty

\* A handler that ends.
LEMMA LeaveTypes ==
    ASSUME DTypeOK, NEW c \in Consumer, LeaveHandler(c)
    PROVE  /\ phase' \in [Consumer -> {"idle", "rules", "match", "suppress", "publish", "notify"}]
           /\ todo' \in [Consumer -> SUBSET Rule]
           /\ current' \in [Consumer -> Key \cup {NoRule}]
           /\ phase'[c] = "idle" /\ drafts'[c] = {} /\ outbox'[c] = {}
           /\ \A d \in Consumer \ {c} :
                 /\ phase'[d] = phase[d] /\ current'[d] = current[d]
                 /\ drafts'[d] = drafts[d] /\ outbox'[d] = outbox[d]
  BY DEF DTypeOK, LeaveHandler

\* The invariant holds initially.
LEMMA InitD == DInit => DTypeOK /\ IInv /\ DIInv
  <1> SUFFICES ASSUME DInit PROVE DTypeOK /\ IInv /\ DIInv
    OBVIOUS
  <1>1. TypeOK /\ IInv
    BY InitTypeOK, InitIInv DEF DInit
  <1>2. DTypeOK
    BY <1>1, DetectionAssumption DEF DInit, DTypeOK, NoRule
  <1>3. Alerts = {}
    BY DEF DInit, Alerts
  <1>4. DIInv
    BY <1>3 DEF DInit, DIInv, OnDuty, AlertsHaveKeys, OneAlertPerKeyAndPeriod,
        CountsDifferentEvents, QuietKeysHaveAlerts, AnnouncedIsStored
  <1>5. QED
    BY <1>1, <1>2, <1>4

\* A step of the handler of c that leaves the loop where it is, and the alerts too.
LEMMA OneHandlerSteps ==
    ASSUME DTypeOK, IInv, DIInv, [DNext]_dvars, NEW c \in Consumer,
           UNCHANGED <<batch, returned>>, OnDuty(c)',
           \A d \in Consumer \ {c} :
              phase'[d] = phase[d] /\ current'[d] = current[d] /\ drafts'[d] = drafts[d]
    PROVE  \A d \in Consumer : OnDuty(d)'
  <1>1. ASSUME NEW d \in Consumer, d # c
        PROVE  OnDuty(d)'
    BY <1>1, OthersOnDuty DEF DIInv
  <1>2. QED
    BY <1>1

\* Windows a step leaves alone hold events delivered before.
LEMMA SameWindows ==
    ASSUME DTypeOK, IInv, DIInv, [DNext]_dvars, \A r \in Rule : window'[r] \subseteq window[r]
    PROVE  \A r \in Rule : window'[r] \subseteq DeliveredEvents'
  BY CountsGrow DEF DIInv, DTypeOK

-----------------------------------------------------------------------------
(* One lemma for each kind of step                                         *)

LEMMA LoopOnlyKeeps ==
    ASSUME DTypeOK, IInv, DIInv, LoopOnly
    PROVE  DTypeOK' /\ DIInv'
  <1>0. [DNext]_dvars
    BY DEF DNext
  <1>1. UNCHANGED <<redis_vars, announced, stored, engine_vars>>
    BY DEF LoopOnly
  <1>2. ASSUME NEW d \in Consumer
        PROVE  OnDuty(d)' /\ (phase'[d] # "idle" => batch'[d] # {})
    <2>1. phase[d] # "idle" => batch'[d] = batch[d] /\ returned'[d] = returned[d]
      BY HandlerKeepsBatch DEF DIInv, OnDuty, Handling, LoopOnly, DTypeOK
    <2>2. OnDuty(d)'
      BY <1>0, <1>1, <2>1, OthersOnDuty DEF DIInv, engine_vars
    <2>3. QED
      BY <2>2 DEF OnDuty
  <1>3. DTypeOK'
    <2>1. TypeOK'
      BY <1>0, StreamKept DEF DTypeOK
    <2>2. window' \in [Rule -> SUBSET {EventOf[m] : m \in Entry'}]
      <3>1. Entry \subseteq Entry'
        BY DEF DTypeOK, TypeOK, Entry, LoopOnly, XAdd, GoIdle, Start, Poll, Reclaim, PoisonRaises,
            HandlerRaises, Ack, PollFails, ReclaimFails, AckFails, stream_vars
      <3>2. QED
        BY <1>1, <3>1 DEF DTypeOK, redis_vars
    <2>3. QED
      BY <1>1, <1>2, <2>1, <2>2 DEF DTypeOK, redis_vars, engine_vars
  <1>4. Alerts' = Alerts
    BY <1>1 DEF Alerts, engine_vars
  <1>5. DIInv'
    BY <1>0, <1>1, <1>2, <1>4, SameAlerts, SameWindows DEF DIInv, redis_vars
  <1>6. QED
    BY <1>3, <1>5

\* Keys that expire take the alerts of the period with them; only QuietEnds starts a new one.
LEMMA KeyExpiresKeeps ==
    ASSUME DTypeOK, IInv, DIInv, KeyExpires
    PROVE  DTypeOK' /\ DIInv'
  <1>0. [DNext]_dvars /\ UNCHANGED vars /\ UNCHANGED <<announced, stored, engine_vars>>
    BY DEF DNext, KeyExpires, InHandler
  <1>1. TypeOK'
    BY <1>0, StreamKept DEF DTypeOK
  <1>2. /\ rate' \in [Rule -> 0 .. RateLimit + 1]
        /\ window' \in [Rule -> SUBSET {EventOf[m] : m \in Entry'}]
        /\ quiet' \subseteq Key
        /\ expiries' \in [Key -> 0 .. MaxExpiries]
        /\ \A r \in Rule : window'[r] \subseteq window[r]
    <2>1. Entry' = Entry
      BY <1>0 DEF Entry, vars
    <2>2. CASE \E r \in Rule : RateExpires(r)
      BY <2>1, <2>2, DetectionAssumption DEF RateExpires, DTypeOK
    <2>3. CASE \E r \in Rule : WindowSlides(r)
      BY <2>1, <2>3 DEF WindowSlides, DTypeOK
    <2>4. ASSUME NEW k \in quiet, QuietEnds(k)
          PROVE  expiries' \in [Key -> 0 .. MaxExpiries]
      <3>1. expiries[k] \in Nat /\ expiries[k] + 1 \in 0 .. MaxExpiries
        BY <2>4, DetectionAssumption DEF QuietEnds, DTypeOK
      <3>2. QED
        BY <2>4, <3>1 DEF QuietEnds, DTypeOK
    <2>5. CASE \E k \in quiet : QuietEnds(k)
      BY <2>1, <2>4, <2>5 DEF QuietEnds, DTypeOK
    <2>6. QED
      BY <2>2, <2>3, <2>5 DEF KeyExpires
  <1>3. DTypeOK'
    BY <1>0, <1>1, <1>2 DEF DTypeOK, engine_vars, vars
  <1>4. \A d \in Consumer : OnDuty(d)'
    BY <1>0, OthersOnDuty DEF DIInv, engine_vars, vars
  <1>5. \A r \in Rule : window'[r] \subseteq DeliveredEvents'
    BY <1>0, <1>2, SameWindows
  <1>6. Alerts' = Alerts
    BY <1>0 DEF Alerts, engine_vars
  <1>7. CASE UNCHANGED <<quiet, expiries>>
    BY <1>0, <1>3, <1>4, <1>5, <1>6, <1>7, SameAlerts DEF DIInv
  <1>8. ASSUME NEW k \in quiet, QuietEnds(k)
        PROVE  DIInv'
    <2>1. /\ quiet' = quiet \ {k}
          /\ k \in Key
          /\ expiries'[k] = expiries[k] + 1
          /\ \A j \in Key \ {k} : expiries'[j] = expiries[j]
      BY <1>8 DEF QuietEnds, DTypeOK
    <2>2. \A j \in Key : expiries[j] \in Nat
      BY DetectionAssumption DEF DTypeOK
    <2>3. ASSUME NEW a \in Alerts
          PROVE  KeyOf(a) \in Key /\ a.period \in Nat
      BY AlertTypes, DetectionAssumption DEF Alert
    <2>4. ASSUME NEW a \in Alerts
          PROVE  /\ a.period <= expiries'[KeyOf(a)]
                 /\ a.period = expiries'[KeyOf(a)] => KeyOf(a) \in quiet'
      <3>1. a.period <= expiries[KeyOf(a)] /\ (a.period = expiries[KeyOf(a)] => KeyOf(a) \in quiet)
        BY DEF DIInv, AlertsHaveKeys
      <3>2. CASE KeyOf(a) = k
        BY <2>1, <2>2, <2>3, <3>1, <3>2
      <3>3. CASE KeyOf(a) # k
        BY <2>1, <2>2, <2>3, <3>1, <3>3
      <3>4. QED
        BY <3>2, <3>3
    <2>5. AlertsHaveKeys'
      BY <1>6, <2>4 DEF AlertsHaveKeys, KeyOf
    <2>6. OneAlertPerKeyAndPeriod' /\ CountsDifferentEvents'
      BY <1>0, <1>6 DEF DIInv, OneAlertPerKeyAndPeriod, CountsDifferentEvents, KeyOf,
          DeliveredEvents, Delivered, vars
    <2>7. QuietKeysHaveAlerts'
      BY <1>0, <1>6, <2>1 DEF DIInv, QuietKeysHaveAlerts, KeyOf, vars, DTypeOK
    <2>8. AnnouncedIsStored'
      BY <1>0, <1>6 DEF DIInv, AnnouncedIsStored, vars
    <2>9. QED
      BY <1>4, <1>5, <2>5, <2>6, <2>7, <2>8 DEF DIInv
  <1>9. QED
    BY <1>3, <1>7, <1>8 DEF KeyExpires, RateExpires, WindowSlides

LEMMA BeginKeeps ==
    ASSUME DTypeOK, IInv, DIInv, NEW c \in Consumer, Begin(c)
    PROVE  DTypeOK' /\ DIInv'
  <1>0. [DNext]_dvars /\ UNCHANGED vars /\ Alerts' = Alerts
    BY DEF DNext, Begin, InHandler, Alerts
  <1>1. DTypeOK'
    <2>1. TypeOK' /\ Entry' = Entry
      BY <1>0, StreamKept DEF DTypeOK, Entry, vars
    <2>2. QED
      BY <2>1 DEF DTypeOK, Begin, InHandler, Handling, redis_vars, vars
  <1>2. OnDuty(c)'
    <2>1. \E m \in batch[c] : Handling(c, m)'
      BY <1>0 DEF Begin, Handling, IsHead, vars
    <2>2. phase'[c] = "rules"
      BY DEF Begin, DTypeOK
    <2>3. QED
      BY <1>0, <2>1, <2>2 DEF OnDuty, vars
  <1>3. \A d \in Consumer : OnDuty(d)'
    BY <1>0, <1>2, OneHandlerSteps DEF Begin, DTypeOK, vars
  <1>4. DIInv'
    BY <1>0, <1>3, SameAlerts, SameWindows DEF DIInv, Begin, redis_vars
  <1>5. QED
    BY <1>1, <1>4

LEMMA CheckRateKeeps ==
    ASSUME DTypeOK, IInv, DIInv, NEW c \in Consumer, CheckRate(c)
    PROVE  DTypeOK' /\ DIInv'
  <1>0. [DNext]_dvars /\ UNCHANGED vars /\ Alerts' = Alerts
    BY DEF DNext, CheckRate, InHandler, Alerts
  <1>1. PICK r \in todo[c] :
          /\ todo' = [todo EXCEPT ![c] = @ \ {r}]
          /\ rate' = [rate EXCEPT ![r] = Smaller(@ + 1, RateLimit + 1)]
          /\ \/ UNCHANGED <<phase, current>>
             \/ /\ phase' = [phase EXCEPT ![c] = "match"]
                /\ current' = [current EXCEPT ![c] = <<r, NoCount>>]
    BY DEF CheckRate
  <1>2. r \in Rule /\ <<r, NoCount>> \in Key
    BY <1>1, ConsumerAssumption DEF DTypeOK, Key, NoCount
  <1>3. DTypeOK'
    <2>1. TypeOK' /\ Entry' = Entry
      BY <1>0, StreamKept DEF DTypeOK, Entry, vars
    <2>2. rate' \in [Rule -> 0 .. RateLimit + 1]
      BY <1>1, <1>2, DetectionAssumption DEF DTypeOK, Smaller
    <2>3. /\ phase' \in [Consumer -> {"idle", "rules", "match", "suppress", "publish", "notify"}]
          /\ current' \in [Consumer -> Key \cup {NoRule}]
          /\ todo' \in [Consumer -> SUBSET Rule]
          /\ phase[c] # "idle"
          /\ \A d \in Consumer : phase'[d] # "idle" => phase[d] # "idle"
      BY <1>1, <1>2 DEF DTypeOK, CheckRate
    <2>4. /\ UNCHANGED <<window, quiet, expiries, announced, stored, drafts, outbox>>
          /\ UNCHANGED batch
      BY <1>0 DEF CheckRate, vars
    <2>5. QED
      BY <2>1, <2>2, <2>3, <2>4 DEF DTypeOK
  <1>4. OnDuty(c)'
    <2>1. \E m \in batch'[c] : Handling(c, m)'
      BY <1>0 DEF CheckRate, DIInv, OnDuty, Handling, IsHead, vars
    <2>2. phase'[c] = "rules" \/ (phase'[c] = "match" /\ current'[c] \in Key)
      BY <1>1, <1>2 DEF CheckRate, DTypeOK
    <2>3. QED
      BY <2>1, <2>2 DEF OnDuty
  <1>5. \A d \in Consumer : OnDuty(d)'
    BY <1>0, <1>1, <1>4, OneHandlerSteps DEF CheckRate, DTypeOK, vars
  <1>6. DIInv'
    BY <1>0, <1>5, SameAlerts, SameWindows DEF DIInv, CheckRate
  <1>7. QED
    BY <1>3, <1>6

LEMMA MatchKeeps ==
    ASSUME DTypeOK, IInv, DIInv, NEW c \in Consumer, Match(c)
    PROVE  DTypeOK' /\ DIInv'
  <1>0. [DNext]_dvars /\ UNCHANGED vars /\ Alerts' = Alerts
    BY DEF DNext, Match, InHandler, Alerts
  <1>1. PICK m \in batch[c], r \in Rule :
          /\ r = current[c][1]
          /\ \/ UNCHANGED window /\ NextRule(c)
             \/ /\ r \notin ThresholdRule
                /\ phase' = [phase EXCEPT ![c] = "suppress"]
                /\ UNCHANGED <<window, current>>
             \/ /\ CountEvent(r, m)
                /\ \/ NextRule(c)
                   \/ /\ Cardinality(window'[r]) >= Threshold
                      /\ phase' = [phase EXCEPT ![c] = "suppress"]
                      /\ current' = [current EXCEPT ![c] = <<r, Cardinality(window'[r])>>]
    BY DEF Match
  <1>2. DeliveredEvents' = DeliveredEvents /\ Entry' = Entry
    BY <1>0 DEF DeliveredEvents, Delivered, Entry, vars
  <1>3. EventOf[m] \in DeliveredEvents /\ EventOf[m] \in {EventOf[k] : k \in Entry}
    BY DEF IInv, DeliveredEvents, DTypeOK, TypeOK
  <1>4. /\ window' \in [Rule -> SUBSET {EventOf[k] : k \in Entry}]
        /\ \A s \in Rule : window'[s] \subseteq DeliveredEvents
    BY <1>1, <1>3 DEF CountEvent, DTypeOK, DIInv
  <1>5. Cardinality(window'[r]) \in 0 .. MaxEntries
        /\ Cardinality(window'[r]) <= Cardinality(DeliveredEvents)
    BY <1>4, SomeEvents DEF DTypeOK
  <1>6. <<r, Cardinality(window'[r])>> \in Key
    BY <1>5 DEF Key, NoCount
  <1>7. /\ phase' \in [Consumer -> {"idle", "rules", "match", "suppress", "publish", "notify"}]
        /\ current' \in [Consumer -> Key \cup {NoRule}]
        /\ phase[c] # "idle"
        /\ \A d \in Consumer : phase'[d] # "idle" => phase[d] # "idle"
        /\ \A d \in Consumer \ {c} : phase'[d] = phase[d] /\ current'[d] = current[d]
    BY <1>1, <1>6 DEF DTypeOK, NextRule, Match
  <1>8. DTypeOK'
    <2>1. TypeOK'
      BY <1>0, StreamKept DEF DTypeOK
    <2>2. QED
      BY <1>0, <1>2, <1>4, <1>7, <2>1 DEF DTypeOK, Match, vars
  <1>9. OnDuty(c)'
    <2>1. \E k \in batch'[c] : Handling(c, k)'
      BY <1>0, <1>7 DEF DIInv, OnDuty, Handling, IsHead, vars
    <2>2. CASE NextRule(c)
      BY <2>1, <2>2 DEF OnDuty, NextRule, DTypeOK
    <2>3. CASE r \notin ThresholdRule /\ phase' = [phase EXCEPT ![c] = "suppress"]
               /\ UNCHANGED current
      <3>1. current'[c] \in Key /\ current'[c][1] = r /\ phase'[c] = "suppress"
        BY <1>1, <2>3 DEF DIInv, OnDuty, Match, DTypeOK
      <3>2. QED
        BY <2>1, <2>3, <3>1 DEF OnDuty
    <2>4. CASE /\ Cardinality(window'[r]) >= Threshold
               /\ phase' = [phase EXCEPT ![c] = "suppress"]
               /\ current' = [current EXCEPT ![c] = <<r, Cardinality(window'[r])>>]
      <3>1. /\ phase'[c] = "suppress"
            /\ current'[c] = <<r, Cardinality(window'[r])>>
        BY <2>4 DEF DTypeOK
      <3>2. /\ Threshold <= current'[c][2]
            /\ current'[c][2] <= Cardinality(DeliveredEvents')
        BY <1>2, <1>5, <2>4, <3>1, DetectionAssumption
      <3>3. QED
        BY <1>6, <2>1, <3>1, <3>2 DEF OnDuty
    <2>5. QED
      BY <1>1, <2>2, <2>3, <2>4
  <1>10. \A d \in Consumer : OnDuty(d)'
    BY <1>0, <1>7, <1>9, OneHandlerSteps DEF Match, vars
  <1>11. DIInv'
    BY <1>0, <1>2, <1>4, <1>10, SameAlerts DEF DIInv, Match
  <1>12. QED
    BY <1>8, <1>11

\* The key decides: the alert that is let through is the first of its period.
LEMMA SuppressKeeps ==
    ASSUME DTypeOK, IInv, DIInv, NEW c \in Consumer, Suppress(c)
    PROVE  DTypeOK' /\ DIInv'
  <1>0. [DNext]_dvars /\ UNCHANGED vars
    BY DEF DNext, Suppress, InHandler
  <1> DEFINE k == current[c]
  <1>1. PICK m \in batch[c] :
          LET a == [entry |-> m, rule |-> k[1], count |-> k[2], period |-> expiries[k]]
          IN  \/ /\ k \notin quiet /\ quiet' = quiet \cup {k}
                 /\ drafts' = [drafts EXCEPT ![c] = IF k[1] \in Ignored THEN @ ELSE @ \cup {a}]
              \/ /\ k \in quiet
                 /\ UNCHANGED <<quiet, drafts>>
    BY DEF Suppress, SetIfAbsent
  <1> DEFINE a == [entry |-> m, rule |-> k[1], count |-> k[2], period |-> expiries[k]]
  <1>2. k \in Key /\ (k[1] \in ThresholdRule =>
                        Threshold <= k[2] /\ k[2] <= Cardinality(DeliveredEvents))
    BY DEF Suppress, DIInv, OnDuty
  <1>3. k = <<k[1], k[2]>> /\ k[1] \in Rule /\ k[2] \in NoCount .. MaxEntries
    BY <1>2 DEF Key
  <1>4. a \in Alert /\ KeyOf(a) = k
    <2>1. m \in 1 .. MaxEntries
      BY ConsumerAssumption DEF DTypeOK, TypeOK, IInv, Entry
    <2>2. expiries[k] \in 0 .. MaxExpiries
      BY <1>2 DEF DTypeOK
    <2>3. QED
      BY <1>3, <2>1, <2>2 DEF Alert, KeyOf
  <1>5. DeliveredEvents' = DeliveredEvents /\ Entry' = Entry /\ faults' = faults
    BY <1>0 DEF DeliveredEvents, Delivered, Entry, vars
  <1>6. /\ phase' \in [Consumer -> {"idle", "rules", "match", "suppress", "publish", "notify"}]
        /\ current' \in [Consumer -> Key \cup {NoRule}]
        /\ drafts' \in [Consumer -> SUBSET Alert]
        /\ quiet' \subseteq Key
        /\ phase[c] # "idle" /\ phase'[c] = "rules"
        /\ \A d \in Consumer \ {c} : /\ phase'[d] = phase[d] /\ current'[d] = current[d]
                                     /\ drafts'[d] = drafts[d]
        /\ \A d \in Consumer : drafts[d] \subseteq drafts'[d]
    <2>1. /\ phase' = [phase EXCEPT ![c] = "rules"] /\ current' = [current EXCEPT ![c] = NoRule]
          /\ phase[c] = "suppress"
      BY DEF Suppress, NextRule
    <2>2. /\ drafts' \in [Consumer -> SUBSET Alert]
          /\ quiet' \subseteq Key
          /\ \A d \in Consumer \ {c} : drafts'[d] = drafts[d]
          /\ \A d \in Consumer : drafts[d] \subseteq drafts'[d]
      <3> HIDE DEF k, a
      <3>1. CASE UNCHANGED <<quiet, drafts>>
        BY <3>1 DEF DTypeOK
      <3>2. CASE quiet' = quiet \cup {k}
                 /\ drafts' = [drafts EXCEPT ![c] = IF k[1] \in Ignored THEN @ ELSE @ \cup {a}]
        BY <1>2, <1>4, <3>2 DEF DTypeOK
      <3>3. QED
        BY <1>1, <3>1, <3>2 DEF k, a
    <2>3. QED
      BY <2>1, <2>2 DEF DTypeOK
  <1>7. DTypeOK'
    <2>1. TypeOK'
      BY <1>0, StreamKept DEF DTypeOK
    <2>2. \A d \in Consumer : outbox'[d] \subseteq drafts'[d]
      BY <1>6 DEF DTypeOK, Suppress
    <2>3. \A d \in Consumer : phase'[d] # "idle" => batch'[d] # {}
      BY <1>0, <1>6 DEF DTypeOK, vars
    <2>4. UNCHANGED <<rate, window, expiries, announced, stored, todo, outbox>>
      BY DEF Suppress
    <2>5. QED
      BY <1>5, <1>6, <2>1, <2>2, <2>3, <2>4 DEF DTypeOK
  <1>8. OnDuty(c)'
    <2>1. \E n \in batch'[c] : Handling(c, n)'
      BY <1>0, <1>6 DEF DIInv, OnDuty, Handling, IsHead, vars
    <2>2. QED
      BY <1>6, <2>1 DEF OnDuty
  <1>9. \A d \in Consumer : OnDuty(d)'
    BY <1>0, <1>6, <1>8, OneHandlerSteps DEF vars
  <1>10. \A r \in Rule : window'[r] \subseteq DeliveredEvents'
    BY <1>0, SameWindows DEF Suppress
  <1>11. CASE UNCHANGED <<quiet, drafts>>
    <2>1. Alerts' = Alerts
      BY <1>11 DEF Alerts, Suppress
    <2>2. QED
      BY <1>0, <1>7, <1>9, <1>10, <1>11, <2>1, SameAlerts DEF DIInv, Suppress
  <1>12. CASE /\ k \notin quiet /\ quiet' = quiet \cup {k}
              /\ drafts' = [drafts EXCEPT ![c] = IF k[1] \in Ignored THEN @ ELSE @ \cup {a}]
    <2>0. UNCHANGED <<stored, expiries, announced>>
      BY DEF Suppress
    <2>1. /\ Alerts' \subseteq Alerts \cup {a}
          /\ Alerts \subseteq Alerts'
          /\ k[1] \notin Ignored => a \in Alerts'
      <3> HIDE DEF k, a
      <3>1. /\ \A d \in Consumer : drafts'[d] \subseteq drafts[d] \cup {a}
            /\ k[1] \notin Ignored => a \in drafts'[c]
        BY <1>12 DEF DTypeOK
      <3>2. QED
        BY <1>6, <2>0, <3>1, WhereAlertsAre
    <2>2. \A b \in Alerts : /\ KeyOf(b) = k => b.period < expiries[k]
                            /\ KeyOf(b) \in Key /\ b.period \in Nat
      <3>1. ASSUME NEW b \in Alerts
            PROVE  /\ KeyOf(b) = k => b.period < expiries[k]
                   /\ KeyOf(b) \in Key /\ b.period \in Nat
        <4>1. b.period \in Nat /\ expiries[k] \in Nat /\ KeyOf(b) \in Key
          BY <1>2, AlertTypes, DetectionAssumption DEF Alert, DTypeOK
        <4>2. /\ b.period <= expiries[KeyOf(b)]
              /\ b.period = expiries[KeyOf(b)] => KeyOf(b) \in quiet
          BY DEF DIInv, AlertsHaveKeys
        <4> HIDE DEF k
        <4>3. QED
          BY <1>12, <4>1, <4>2
      <3>2. QED
        BY <3>1
    <2>3. a.period = expiries[k] /\ a.rule = k[1] /\ a.count = k[2] /\ expiries[k] \in Nat
      BY <1>2, DetectionAssumption DEF DTypeOK
    <2> HIDE DEF k, a
    <2>4. AlertsHaveKeys'
      <3>1. ASSUME NEW b \in Alerts'
            PROVE  /\ b.period <= expiries[KeyOf(b)]
                   /\ b.period = expiries[KeyOf(b)] => KeyOf(b) \in quiet'
        <4>1. CASE b = a
          BY <1>4, <1>12, <2>3, <4>1
        <4>2. CASE b \in Alerts
          BY <1>12, <4>2 DEF DIInv, AlertsHaveKeys
        <4>3. QED
          BY <2>1, <4>1, <4>2
      <3>2. QED
        BY <2>0, <3>1 DEF AlertsHaveKeys, KeyOf
    <2>5. OneAlertPerKeyAndPeriod'
      <3>1. ASSUME NEW x \in Alerts', NEW y \in Alerts', KeyOf(x) = KeyOf(y), x.period = y.period
            PROVE  x = y
        <4>1. CASE x \in Alerts /\ y \in Alerts
          BY <3>1, <4>1 DEF DIInv, OneAlertPerKeyAndPeriod
        <4>2. CASE x = a /\ y \in Alerts
          BY <1>4, <2>2, <2>3, <3>1, <4>2
        <4>3. CASE y = a /\ x \in Alerts
          BY <1>4, <2>2, <2>3, <3>1, <4>3
        <4>4. CASE x = a /\ y = a
          BY <4>4
        <4>5. QED
          BY <2>1, <4>1, <4>2, <4>3, <4>4
      <3>2. QED
        BY <3>1 DEF OneAlertPerKeyAndPeriod, KeyOf
    <2>6. CountsDifferentEvents'
      <3>1. ASSUME NEW b \in Alerts', b.rule \in ThresholdRule
            PROVE  Threshold <= b.count /\ b.count <= Cardinality(DeliveredEvents)
        <4>1. CASE b = a
          BY <1>2, <2>3, <3>1, <4>1 DEF k
        <4>2. CASE b \in Alerts
          BY <3>1, <4>2 DEF DIInv, CountsDifferentEvents
        <4>3. QED
          BY <2>1, <4>1, <4>2
      <3>2. QED
        BY <1>5, <3>1 DEF CountsDifferentEvents
    <2>7. QuietKeysHaveAlerts'
      <3>1. ASSUME faults = 0, NEW j \in quiet', j[1] \notin Ignored
            PROVE  \E b \in Alerts' : KeyOf(b) = j /\ b.period = expiries[j]
        <4>1. CASE j = k
          BY <1>4, <2>1, <2>3, <3>1, <4>1
        <4>2. CASE j \in quiet
          BY <2>1, <3>1, <4>2 DEF DIInv, QuietKeysHaveAlerts
        <4>3. QED
          BY <1>12, <4>1, <4>2
      <3>2. QED
        BY <1>5, <2>0, <3>1 DEF QuietKeysHaveAlerts, KeyOf
    <2>8. AnnouncedIsStored'
      BY <1>5, <2>0, <2>1 DEF DIInv, AnnouncedIsStored
    <2>9. QED
      BY <1>7, <1>9, <1>10, <2>4, <2>5, <2>6, <2>7, <2>8 DEF DIInv
  <1>13. QED
    BY <1>1, <1>11, <1>12

\* A rule that fails may have set its key without an alert: that counts as a fault.
LEMMA RuleFailsKeeps ==
    ASSUME DTypeOK, IInv, DIInv, NEW c \in Consumer, RuleFails(c)
    PROVE  DTypeOK' /\ DIInv'
  <1>0. [DNext]_dvars
    BY DEF DNext
  <1>1. /\ UNCHANGED <<expiries, announced, stored, drafts, outbox>>
        /\ UNCHANGED <<stream_vars, group_vars, loop_vars>>
        /\ faults' = faults + 1
        /\ phase' = [phase EXCEPT ![c] = "rules"]
        /\ current' = [current EXCEPT ![c] = NoRule]
        /\ phase[c] # "idle"
    BY DEF RuleFails, NextRule, Fault
  <1>2. TypeOK' /\ Entry' = Entry /\ DeliveredEvents' = DeliveredEvents /\ Alerts' = Alerts
    BY <1>0, <1>1, StreamKept DEF DTypeOK, Entry, stream_vars, group_vars, DeliveredEvents,
       Delivered, Alerts
  <1>3. \A m \in batch[c] : /\ EventOf[m] \in DeliveredEvents
                            /\ EventOf[m] \in {EventOf[j] : j \in Entry}
    BY DEF IInv, DeliveredEvents, DTypeOK, TypeOK
  <1>4. /\ rate' \in [Rule -> 0 .. RateLimit + 1]
        /\ todo' \in [Consumer -> SUBSET Rule]
        /\ window' \in [Rule -> SUBSET {EventOf[j] : j \in Entry}]
        /\ \A r \in Rule : window'[r] \subseteq DeliveredEvents
        /\ quiet' \subseteq Key
        /\ quiet \subseteq quiet'
    <2>1. CASE phase[c] = "rules"
      BY <2>1, DetectionAssumption DEF RuleFails, DTypeOK, DIInv, Smaller
    <2>2. CASE phase[c] = "match"
      <3>1. UNCHANGED <<todo, rate, quiet>>
        BY <2>2 DEF RuleFails
      <3>2. \/ UNCHANGED window
            \/ \E m \in batch[c] : window' = [window EXCEPT ![current[c][1]] = @ \cup {EventOf[m]}]
        BY <2>2 DEF RuleFails, CountEvent
      <3>3. QED
        BY <1>3, <3>1, <3>2 DEF DTypeOK, DIInv
    <2>3. CASE phase[c] = "suppress"
      <3>1. current[c] \in Key
        BY <2>3 DEF DIInv, OnDuty
      <3>2. UNCHANGED <<todo, rate, window>> /\ quiet' \in {quiet, quiet \cup {current[c]}}
        BY <2>3 DEF RuleFails, SetIfAbsent
      <3>3. QED
        BY <3>1, <3>2 DEF DTypeOK, DIInv
    <2>4. QED
      BY <2>1, <2>2, <2>3 DEF RuleFails
  <1>5. DTypeOK'
    BY <1>1, <1>2, <1>4 DEF DTypeOK, loop_vars
  <1>6. OnDuty(c)'
    <2>1. \E n \in batch'[c] : Handling(c, n)'
      BY <1>1 DEF DIInv, OnDuty, Handling, IsHead, loop_vars
    <2>2. phase'[c] = "rules"
      BY <1>1 DEF DTypeOK
    <2>3. QED
      BY <2>1, <2>2 DEF OnDuty
  <1>7. \A d \in Consumer : OnDuty(d)'
    BY <1>0, <1>1, <1>6, OneHandlerSteps DEF loop_vars, DTypeOK
  <1>8. faults' # 0
    BY <1>1 DEF DTypeOK, TypeOK
  <1>9. DIInv'
    BY <1>0, <1>1, <1>2, <1>4, <1>7, <1>8, FewerAlerts DEF DIInv
  <1>10. QED
    BY <1>5, <1>9

LEMMA DeduplicateKeeps ==
    ASSUME DTypeOK, IInv, DIInv, NEW c \in Consumer, Deduplicate(c)
    PROVE  DTypeOK' /\ DIInv'
  <1>0. [DNext]_dvars /\ UNCHANGED vars /\ Alerts' = Alerts
    BY DEF DNext, Deduplicate, InHandler, Alerts
  <1>1. /\ UNCHANGED <<redis_vars, announced, stored, todo, current, drafts>>
        /\ phase[c] = "rules" /\ phase' = [phase EXCEPT ![c] = "publish"]
    BY DEF Deduplicate
  <1>2. /\ outbox' \in [Consumer -> SUBSET Alert]
        /\ \A d \in Consumer : outbox'[d] \subseteq drafts[d]
    <2>1. PICK T \in SUBSET drafts[c] : outbox' = [outbox EXCEPT ![c] = T]
      BY DEF Deduplicate
    <2>2. QED
      BY <2>1 DEF DTypeOK
  <1>3. DTypeOK'
    <2>1. TypeOK' /\ Entry' = Entry
      BY <1>0, StreamKept DEF DTypeOK, Entry, vars
    <2>2. QED
      BY <1>0, <1>1, <1>2, <2>1 DEF DTypeOK, redis_vars, vars
  <1>4. OnDuty(c)'
    <2>1. \E m \in batch'[c] : Handling(c, m)'
      BY <1>0, <1>1 DEF DIInv, OnDuty, Handling, IsHead, vars
    <2>2. phase'[c] = "publish"
      BY <1>1 DEF DTypeOK
    <2>3. QED
      BY <2>1, <2>2 DEF OnDuty
  <1>5. \A d \in Consumer : OnDuty(d)'
    BY <1>0, <1>1, <1>4, OneHandlerSteps DEF DTypeOK, vars
  <1>6. DIInv'
    BY <1>0, <1>1, <1>5, SameAlerts, SameWindows DEF DIInv, redis_vars
  <1>7. QED
    BY <1>3, <1>6

\* What is published is in the session.
LEMMA PublishKeeps ==
    ASSUME DTypeOK, IInv, DIInv, NEW c \in Consumer, Publish(c) \/ PublishAlertFails(c)
    PROVE  DTypeOK' /\ DIInv'
  <1>0. [DNext]_dvars
    BY DEF DNext
  <1>1. /\ UNCHANGED <<redis_vars, stored, phase, todo, current, drafts>>
        /\ UNCHANGED <<stream_vars, group_vars, loop_vars>>
        /\ Alerts' = Alerts
    BY DEF Publish, PublishAlertFails, InHandler, vars, stream_vars, group_vars, loop_vars, Alerts
  <1>2. PICK a \in outbox[c] : /\ outbox' = [outbox EXCEPT ![c] = @ \ {a}]
                               /\ announced' \in {announced, announced \cup {a}}
    BY DEF Publish, PublishAlertFails
  <1>3. a \in Alerts /\ a \in Alert
    BY WhereAlertsAre DEF DTypeOK
  <1>4. DTypeOK'
    <2>1. TypeOK' /\ Entry' = Entry
      BY <1>0, <1>1, StreamKept DEF DTypeOK, Entry, stream_vars
    <2>2. /\ outbox' \in [Consumer -> SUBSET Alert]
          /\ \A d \in Consumer : outbox'[d] \subseteq drafts[d]
      BY <1>2 DEF DTypeOK
    <2>3. announced' \subseteq Alert
      BY <1>2, <1>3 DEF DTypeOK
    <2>4. QED
      BY <1>1, <2>1, <2>2, <2>3 DEF DTypeOK, redis_vars, loop_vars
  <1>5. \A d \in Consumer : OnDuty(d)'
    BY <1>0, <1>1, OthersOnDuty DEF DIInv, loop_vars
  <1>6. DIInv'
    BY <1>0, <1>1, <1>2, <1>3, <1>5, SameAlerts, SameWindows DEF DIInv, redis_vars
  <1>7. QED
    BY <1>4, <1>6

\* The session becomes the database's.
LEMMA CommitKeeps ==
    ASSUME DTypeOK, IInv, DIInv, NEW c \in Consumer, Commit(c)
    PROVE  DTypeOK' /\ DIInv'
  <1>0. [DNext]_dvars /\ UNCHANGED vars
    BY DEF DNext, Commit, InHandler
  <1>1. /\ UNCHANGED <<redis_vars, announced, todo, current, outbox>>
        /\ phase[c] = "publish" /\ phase' = [phase EXCEPT ![c] = "notify"]
        /\ drafts' = [drafts EXCEPT ![c] = {}]
        /\ stored' = stored \cup drafts[c]
        /\ outbox[c] = {}
    BY DEF Commit
  <1>2. /\ drafts'[c] = {} /\ phase'[c] = "notify"
        /\ \A d \in Consumer \ {c} : drafts'[d] = drafts[d] /\ phase'[d] = phase[d]
    BY <1>1 DEF DTypeOK
  <1>3. Alerts' = Alerts
    BY <1>1, <1>2, WhereAlertsAre
  <1>4. DTypeOK'
    <2>1. TypeOK' /\ Entry' = Entry
      BY <1>0, StreamKept DEF DTypeOK, Entry, vars
    <2>2. stored' \subseteq Alert /\ drafts' \in [Consumer -> SUBSET Alert]
      BY <1>1 DEF DTypeOK
    <2>3. \A d \in Consumer : outbox'[d] \subseteq drafts'[d]
      BY <1>1, <1>2 DEF DTypeOK
    <2>4. QED
      BY <1>0, <1>1, <2>1, <2>2, <2>3 DEF DTypeOK, redis_vars, vars
  <1>5. OnDuty(c)'
    <2>1. \E m \in batch'[c] : Handling(c, m)'
      BY <1>0, <1>1 DEF DIInv, OnDuty, Handling, IsHead, vars
    <2>2. QED
      BY <1>2, <2>1 DEF OnDuty
  <1>6. \A d \in Consumer : OnDuty(d)'
    BY <1>0, <1>1, <1>2, <1>5, OneHandlerSteps DEF vars
  <1>7. DIInv'
    BY <1>0, <1>1, <1>3, <1>6, SameAlerts, SameWindows DEF DIInv, redis_vars
  <1>8. QED
    BY <1>4, <1>7

\* The handler returns with its session empty, or its entry goes with what is lost.
LEMMA LeaveKeeps ==
    ASSUME DTypeOK, IInv, DIInv, NEW c \in Consumer, Notify(c) \/ HandlerBreaks(c) \/ DHalt(c)
    PROVE  DTypeOK' /\ DIInv'
  <1>0. [DNext]_dvars
    BY DEF DNext
  <1>1. LeaveHandler(c) /\ UNCHANGED <<redis_vars, announced>>
    BY DEF Notify, HandlerBreaks, DHalt
  <1>2. /\ phase' \in [Consumer -> {"idle", "rules", "match", "suppress", "publish", "notify"}]
        /\ todo' \in [Consumer -> SUBSET Rule]
        /\ current' \in [Consumer -> Key \cup {NoRule}]
        /\ phase'[c] = "idle" /\ drafts'[c] = {} /\ outbox'[c] = {}
        /\ \A d \in Consumer \ {c} :
              /\ phase'[d] = phase[d] /\ current'[d] = current[d]
              /\ drafts'[d] = drafts[d] /\ outbox'[d] = outbox[d]
    BY <1>1, LeaveTypes
  <1>3. ASSUME NEW d \in Consumer \ {c}
        PROVE  phase[d] # "idle" => batch'[d] = batch[d] /\ returned'[d] = returned[d]
    BY HandlerKeepsBatch DEF DIInv, OnDuty, Handling, DTypeOK, Notify, HandlerBreaks, DHalt
  <1>4. stored \subseteq stored' /\ stored' \subseteq stored \cup drafts[c]
    BY DEF Notify, HandlerBreaks, DHalt
  <1>5. Alerts' \subseteq Alerts
    BY <1>2, <1>4, WhereAlertsAre
  <1>6. ASSUME NEW d \in Consumer
        PROVE  OnDuty(d)'
    <2>1. CASE d = c
      BY <1>2, <2>1 DEF OnDuty
    <2>2. CASE d # c
      BY <1>0, <1>2, <1>3, <2>2, OthersOnDuty DEF DIInv
    <2>3. QED
      BY <2>1, <2>2
  <1>7. DTypeOK'
    <2>1. TypeOK'
      BY <1>0, StreamKept DEF DTypeOK
    <2>2. Entry' = Entry
      BY DEF Notify, HandlerBreaks, DHalt, HandlerOk, HandlerFails, HandlerRaises, Halt, Entry,
          stream_vars
    <2>3. /\ drafts' \in [Consumer -> SUBSET Alert]
          /\ outbox' \in [Consumer -> SUBSET Alert]
          /\ stored' \subseteq Alert
      BY <1>1, <1>4 DEF LeaveHandler, DTypeOK
    <2>4. \A d \in Consumer : outbox'[d] \subseteq drafts'[d]
      BY <1>2 DEF DTypeOK
    <2>5. \A d \in Consumer : phase'[d] # "idle" => batch'[d] # {}
      BY <1>6 DEF OnDuty
    <2>6. QED
      BY <1>1, <1>2, <2>1, <2>2, <2>3, <2>4, <2>5 DEF DTypeOK, redis_vars
  <1>8. CASE Notify(c)
    <2>1. Alerts' = Alerts
      <3>1. drafts[c] = {} /\ stored' = stored
        BY <1>8 DEF Notify, DIInv, OnDuty
      <3>2. QED
        BY <1>2, <3>1, WhereAlertsAre
    <2>2. QED
      BY <1>0, <1>1, <1>6, <1>7, <2>1, SameAlerts, SameWindows DEF DIInv, redis_vars
  <1>9. CASE HandlerBreaks(c) \/ DHalt(c)
    <2>1. faults' # 0
      BY <1>9 DEF HandlerBreaks, DHalt, HandlerFails, Halt, Fault, DTypeOK, TypeOK
    <2>2. QED
      BY <1>0, <1>1, <1>5, <1>6, <1>7, <2>1, FewerAlerts, SameWindows DEF DIInv, redis_vars
  <1>10. QED
    BY <1>8, <1>9

-----------------------------------------------------------------------------
(* The theorems                                                            *)

\* Every step keeps the invariant.
LEMMA NextD == DTypeOK /\ IInv /\ DIInv /\ [DNext]_dvars => (DTypeOK /\ IInv /\ DIInv)'
  <1> SUFFICES ASSUME DTypeOK, IInv, DIInv, [DNext]_dvars
               PROVE  (DTypeOK /\ IInv /\ DIInv)'
    OBVIOUS
  <1>1. IInv'
    BY StreamKept DEF DTypeOK
  <1>2. CASE UNCHANGED dvars
    <2>1. /\ UNCHANGED vars
          /\ UNCHANGED <<redis_vars, announced, stored, engine_vars>>
          /\ Alerts' = Alerts
      BY <1>2 DEF dvars, Alerts, engine_vars
    <2>2. DTypeOK'
      BY <2>1, StreamKept DEF DTypeOK, Entry, vars, redis_vars, engine_vars
    <2>3. \A c \in Consumer : OnDuty(c)'
      BY <2>1, OthersOnDuty DEF DIInv, vars, engine_vars
    <2>4. DIInv'
      BY <2>1, <2>3, SameAlerts, SameWindows DEF DIInv, redis_vars
    <2>5. QED
      BY <1>1, <2>2, <2>4
  <1>3. CASE DNext
    <2>1. CASE LoopOnly \/ KeyExpires
      BY <1>1, <2>1, LoopOnlyKeeps, KeyExpiresKeeps
    <2>2. ASSUME NEW c \in Consumer,
                 \/ Begin(c) \/ CheckRate(c) \/ Match(c) \/ Suppress(c) \/ RuleFails(c)
                 \/ Deduplicate(c) \/ Publish(c) \/ PublishAlertFails(c) \/ Commit(c)
                 \/ Notify(c) \/ HandlerBreaks(c) \/ DHalt(c)
          PROVE  DTypeOK' /\ DIInv'
      BY <2>2, BeginKeeps, CheckRateKeeps, MatchKeeps, SuppressKeeps, RuleFailsKeeps,
         DeduplicateKeeps, PublishKeeps, CommitKeeps, LeaveKeeps
    <2>3. QED
      BY <1>1, <1>3, <2>1, <2>2 DEF DNext
  <1>4. QED
    BY <1>2, <1>3

\* The invariant holds in every behaviour.
THEOREM DInvariance == DSpec => [](DTypeOK /\ IInv /\ DIInv)
  BY InitD, NextD, PTL DEF DSpec

\* A pattern rule fires without a count, and so do the alerts it leaves.
PatternsHaveNoCount ==
    /\ \A a \in Alerts : a.rule \notin ThresholdRule => a.count = NoCount
    /\ \A c \in Consumer :
          \/ phase[c] = "match"
          \/ phase[c] = "suppress" /\ current[c][1] \notin ThresholdRule
          => current[c][2] = NoCount

\* Only CheckRate gives a rule to match, only Match one to suppress, and only Suppress
\* drafts an alert.
LEMMA NoCountKept ==
    ASSUME DTypeOK, DIInv, PatternsHaveNoCount, [DNext]_dvars
    PROVE  PatternsHaveNoCount'
  <1>1. CASE UNCHANGED dvars
    BY <1>1 DEF dvars, engine_vars, PatternsHaveNoCount, Alerts
  <1>2. CASE LoopOnly \/ KeyExpires
    BY <1>2 DEF LoopOnly, KeyExpires, engine_vars, PatternsHaveNoCount, Alerts
  <1>3. ASSUME NEW c \in Consumer, Alerts' \subseteq Alerts,
               phase'[c] \notin {"match", "suppress"},
               \A d \in Consumer \ {c} : phase'[d] = phase[d] /\ current'[d] = current[d]
        PROVE  PatternsHaveNoCount'
    BY <1>3 DEF PatternsHaveNoCount
  <1>4. ASSUME NEW c \in Consumer,
               \/ Begin(c) \/ RuleFails(c) \/ Deduplicate(c) \/ Commit(c)
        PROVE  PatternsHaveNoCount'
    <2>1. /\ phase'[c] \notin {"match", "suppress"}
          /\ \A d \in Consumer \ {c} : phase'[d] = phase[d] /\ current'[d] = current[d]
      BY <1>4 DEF Begin, RuleFails, Deduplicate, Commit, NextRule, DTypeOK
    <2>2. CASE Commit(c)
      <3>1. Alerts' \subseteq Alerts
        BY <2>2, WhereAlertsAre DEF Commit, DTypeOK
      <3>2. QED
        BY <1>3, <2>1, <3>1
    <2>3. CASE Begin(c) \/ RuleFails(c) \/ Deduplicate(c)
      <3>1. Alerts' \subseteq Alerts
        BY <2>3 DEF Begin, RuleFails, Deduplicate, Alerts
      <3>2. QED
        BY <1>3, <2>1, <3>1
    <2>4. QED
      BY <1>4, <2>2, <2>3
  <1>5. ASSUME NEW c \in Consumer, Notify(c) \/ HandlerBreaks(c) \/ DHalt(c)
        PROVE  PatternsHaveNoCount'
    <2>1. /\ phase'[c] = "idle" /\ drafts'[c] = {}
          /\ \A d \in Consumer \ {c} : /\ phase'[d] = phase[d] /\ current'[d] = current[d]
                                        /\ drafts'[d] = drafts[d]
      BY <1>5, LeaveTypes DEF Notify, HandlerBreaks, DHalt
    <2>2. stored' \subseteq stored \cup drafts[c]
      BY <1>5 DEF Notify, HandlerBreaks, DHalt
    <2>3. Alerts' \subseteq Alerts
      BY <2>1, <2>2, WhereAlertsAre
    <2>4. QED
      BY <1>3, <2>1, <2>3
  <1>6. ASSUME NEW c \in Consumer, Publish(c) \/ PublishAlertFails(c)
        PROVE  PatternsHaveNoCount'
    BY <1>6 DEF Publish, PublishAlertFails, PatternsHaveNoCount, Alerts
  <1>7. ASSUME NEW c \in Consumer, CheckRate(c)
        PROVE  PatternsHaveNoCount'
    <2>1. Alerts' = Alerts
      BY <1>7 DEF CheckRate, Alerts
    <2>2. \/ UNCHANGED <<phase, current>>
          \/ \E r \in todo[c] : /\ phase' = [phase EXCEPT ![c] = "match"]
                                /\ current' = [current EXCEPT ![c] = <<r, NoCount>>]
      BY <1>7 DEF CheckRate
    <2>3. QED
      BY <2>1, <2>2 DEF PatternsHaveNoCount, DTypeOK
  <1>8. ASSUME NEW c \in Consumer, Match(c)
        PROVE  PatternsHaveNoCount'
    <2>1. Alerts' = Alerts /\ current[c][2] = NoCount
      BY <1>8 DEF Match, Alerts, PatternsHaveNoCount
    <2>2. \/ NextRule(c)
          \/ phase' = [phase EXCEPT ![c] = "suppress"] /\ UNCHANGED current
          \/ \E r \in ThresholdRule : \E n :
                /\ phase' = [phase EXCEPT ![c] = "suppress"]
                /\ current' = [current EXCEPT ![c] = <<r, n>>]
      BY <1>8 DEF Match
    <2>3. QED
      BY <2>1, <2>2 DEF PatternsHaveNoCount, NextRule, DTypeOK
  <1>9. ASSUME NEW c \in Consumer, Suppress(c)
        PROVE  PatternsHaveNoCount'
    <2>1. /\ phase'[c] = "rules"
          /\ \A d \in Consumer \ {c} : phase'[d] = phase[d] /\ current'[d] = current[d]
      BY <1>9 DEF Suppress, NextRule, DTypeOK
    <2>2. current[c][1] \notin ThresholdRule => current[c][2] = NoCount
      BY <1>9 DEF Suppress, PatternsHaveNoCount
    <2>3. PICK m \in batch[c] :
             LET k == current[c]
                 a == [entry |-> m, rule |-> k[1], count |-> k[2], period |-> expiries[k]]
             IN  \/ drafts' = [drafts EXCEPT ![c] = IF k[1] \in Ignored THEN @ ELSE @ \cup {a}]
                 \/ UNCHANGED drafts
      BY <1>9 DEF Suppress
    <2> DEFINE a == [entry |-> m, rule |-> current[c][1], count |-> current[c][2],
                     period |-> expiries[current[c]]]
    <2>4. Alerts' \subseteq Alerts \cup {a}
      <3>1. \A d \in Consumer : drafts'[d] \subseteq drafts[d] \cup {a}
        BY <2>3 DEF DTypeOK
      <3>2. stored' = stored
        BY <1>9 DEF Suppress
      <3>3. QED
        BY <3>1, <3>2, WhereAlertsAre
    <2>5. a.rule \notin ThresholdRule => a.count = NoCount
      BY <2>2
    <2>6. QED
      BY <2>1, <2>4, <2>5 DEF PatternsHaveNoCount
  <1>10. QED
    BY <1>1, <1>2, <1>4, <1>5, <1>6, <1>7, <1>8, <1>9 DEF DNext

LEMMA NoCountInvariance == DSpec => []PatternsHaveNoCount
  <1>1. DInit => PatternsHaveNoCount
    BY DEF DInit, PatternsHaveNoCount, Alerts
  <1>2. QED
    BY <1>1, NoCountKept, DInvariance, PTL DEF DSpec

\* Every variable keeps its type.
THEOREM DetectionTypeCorrect == DSpec => []DTypeOK
  BY DInvariance, PTL

\* check_and_suppress: whoever of the workers evaluates a rule, and however often an event is
\* delivered again, SET NX lets one alert of it through until its key expires; except that
\* a threshold rule has a key for each count.
THEOREM OneAlertPerRule == DSpec => []OneAlertPerRuleCountAndPeriod
  <1>1. DTypeOK /\ DIInv /\ PatternsHaveNoCount => OneAlertPerRuleCountAndPeriod
    BY AlertTypes DEF DIInv, PatternsHaveNoCount, OneAlertPerKeyAndPeriod,
        OneAlertPerRuleCountAndPeriod, KeyOf
  <1>2. QED
    BY <1>1, DInvariance, NoCountInvariance, PTL

\* ThresholdEvaluator: the count an alert carries reached the threshold and is not above the
\* number of different events delivered, although entries repeat and are handled again.
THEOREM CountsAreOfEvents == DSpec => []CountsDifferentEvents
  <1>1. DIInv => CountsDifferentEvents
    BY DEF DIInv
  <1>2. QED
    BY <1>1, DInvariance, PTL

\* Without an error, a suppression key has the alert it was set for.
THEOREM SuppressedForAnAlert == DSpec => []QuietKeysHaveAlerts
  <1>1. DIInv => QuietKeysHaveAlerts
    BY DEF DIInv
  <1>2. QED
    BY <1>1, DInvariance, PTL

\* Without an error, what publish_alerts sent to the next stage is committed or about to be.
THEOREM AnnouncedAlertsExist == DSpec => []AnnouncedIsStored
  <1>1. DIInv => AnnouncedIsStored
    BY DEF DIInv
  <1>2. QED
    BY <1>1, DInvariance, PTL

\* ... and once every handler is done, that alert is stored: "First alert for a (rule, host)
\* pair fires" holds of every key whose alert is no duplicate, for any number of workers and
\* expiries, until an error or a death falls between the key and the commit.
THEOREM FirstAlertsFire == DSpec => [](faults = 0 /\ Ignored = {} => FirstAlertFires)
  <1>1. DIInv => (faults = 0 /\ Ignored = {} => FirstAlertFires)
    <2> SUFFICES ASSUME DIInv, faults = 0, Ignored = {}, \A c \in Consumer : phase[c] = "idle",
                        NEW k \in quiet
                 PROVE  \E a \in stored : KeyOf(a) = k
      BY DEF FirstAlertFires
    <2>1. PICK a \in Alerts : KeyOf(a) = k
      BY DEF DIInv, QuietKeysHaveAlerts
    <2>2. \A c \in Consumer : drafts[c] = {}
      BY DEF DIInv, OnDuty
    <2>3. QED
      BY <2>1, <2>2 DEF Alerts
  <1>2. QED
    BY <1>1, DInvariance, PTL

\* Forgetting windows, keys and alerts, the detection stage promises at-least-once handling:
\* a rule that raises inside evaluate() costs its entry neither the group nor the others.
THEOREM DetectionRefines == DSpec => ImplementsAtLeastOnce
  <1>1. DInit => Delivery!AInit
    BY DEF DInit, Init, Delivery!AInit, OfferedEntries
  <1>2. ASSUME TypeOK, IInv, TypeOK', IInv', [DNext]_dvars
        PROVE  [Delivery!ANext]_(Delivery!avars)
    <2>1. CASE [Next]_vars
      BY <1>2, <2>1, StepRefines
    <2>2. CASE MerelyFails
      BY <2>2 DEF MerelyFails, Delivery!avars, OfferedEntries, stream_vars, group_vars
    <2>3. QED
      BY <1>2, <2>1, <2>2, StepOfStream
  <1>3. DTypeOK => TypeOK
    BY DEF DTypeOK
  <1>4. QED
    BY <1>1, <1>2, <1>3, DInvariance, PTL DEF DSpec, ImplementsAtLeastOnce, Delivery!ASpec
===============================================================================
