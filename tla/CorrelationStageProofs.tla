------------------------- MODULE CorrelationStageProofs -------------------------
(***************************************************************************)
(* The safety invariants of the correlation stage: those that hold         *)
(* whatever fails and however handlers overlap, and that of behaviours in  *)
(* which nothing fails or overlaps; proved for any number of consumers,    *)
(* entries, keys, faults and expiries.                                     *)
(***************************************************************************)
EXTENDS CorrelationStage, StreamConsumerProofs

\* A step of the stage is a step of its consumer group or stutters there.
LEMMA StepOfStream == [CNext]_cvars => [Next]_vars
  BY DEF CNext, cvars, LoopOnly, MappingExpires, Match, Insignificant, Resolve, WriteMapping,
         InitGroup, ReadGroup, WriteGroup, AddEvent, StoreSnapshot, PublishCorrelated,
         CommandFails, CHalt, Working, Next, Work, Misfortune

\* Entries of a batch are entries of the bounded stream.
LEMMA BatchEntries ==
    ASSUME TypeOK, IInv, NEW c \in Consumer, NEW m \in batch[c]
    PROVE  m \in 1 .. MaxEntries
  BY ConsumerAssumption DEF TypeOK, IInv, Entry

\* What the handler's entry gives to index the constants.
LEMMA KeysAreKeys ==
    ASSUME NEW m \in 1 .. MaxEntries
    PROVE  /\ MakeId(m) \in Key
           /\ Len(KeysOf[m]) \in Nat \ {0}
           /\ \A i \in 1 .. Len(KeysOf[m]) : KeysOf[m][i] \in Key
  <1>1. KeysOf[m] \in Seq(Key) /\ KeysOf[m] # <<>>
    BY CorrelationAssumption
  <1>2. QED
    BY <1>1 DEF MakeId

\* Merging keeps the type of a group's metadata.
LEMMA MergeType ==
    ASSUME NEW g \in Group, NEW m \in 1 .. MaxEntries, NEW s \in 0 .. 100
    PROVE  MergeInto(g, m, s) \in Group
  BY DEF MergeInto, Group, Larger, Smaller

\* A handler resets its variables when it ends.
LEMMA LeaveTypes ==
    ASSUME HandlerTypeOK, NEW c \in Consumer, LeaveHandler(c)
    PROVE  /\ HandlerTypeOK'
           /\ at'[c] = "idle" /\ pos'[c] = 1
           /\ \A d \in Consumer \ {c} :
                 at'[d] = at[d] /\ pos'[d] = pos[d] /\ inv'[d] = inv[d]
  BY DEF HandlerTypeOK, LeaveHandler, NoGroup, Group

\* The invariant holds initially.
LEMMA InitC == CInit => CTypeOK /\ CIInv
  <1> SUFFICES ASSUME CInit PROVE CTypeOK /\ CIInv
    OBVIOUS
  <1>1. TypeOK
    BY InitTypeOK DEF CInit
  <1>2. HandlerTypeOK
    BY DEF CInit, HandlerTypeOK, NoGroup, Group
  <1>3. RedisTypeOK
    BY DEF CInit, RedisTypeOK, NoGroup, Group
  <1>4. CIInv
    BY DEF CInit, Init, CIInv, OnTrack, PublishedIsReadable
  <1>5. QED
    BY <1>1, <1>2, <1>3, <1>4 DEF CInit, CTypeOK

\* A handler stays on track while others step and the sets it relies on grow.
LEMMA OthersOnTrack ==
    ASSUME NEW d \in Consumer, OnTrack(d),
           at'[d] = at[d], pos'[d] = pos[d], inv'[d] = inv[d],
           batch'[d] = batch[d], returned'[d] = returned[d],
           members \subseteq members', snapshots \subseteq snapshots'
    PROVE  OnTrack(d)'
  BY DEF OnTrack, Handling, IsHead

\* The entry a running handler works on.
LEMMA HandlersEntry ==
    ASSUME TypeOK, NEW c \in Consumer, OnTrack(c), at[c] # "idle",
           NEW m \in batch[c], Handling(c, m)
    PROVE  /\ at[c] \in {"resolve", "map"} => pos[c] \in 1 .. Len(KeysOf[m])
           /\ at[c] # "resolve" => inv[c] \in Key
           /\ at[c] \in {"snap", "publish"} => <<inv[c], m>> \in members
           /\ at[c] = "publish" => <<inv[c], m>> \in snapshots
  BY OneHead DEF OnTrack, Handling

\* The commands that only the handler of c does: the stream stays.
Command(c) ==
    \/ Match(c) \/ Resolve(c) \/ WriteMapping(c) \/ InitGroup(c) \/ ReadGroup(c)
    \/ WriteGroup(c) \/ AddEvent(c) \/ StoreSnapshot(c)

\* A command keeps the types and leaves the handlers on track.
LEMMA CommandKeeps ==
    ASSUME CTypeOK, IInv, CIInv, NEW c \in Consumer, Command(c)
    PROVE  HandlerTypeOK' /\ RedisTypeOK' /\ \A d \in Consumer : OnTrack(d)'
  <1>1. PICK m \in batch[c] :
          /\ Handling(c, m)
          /\ \/ Match(c) /\ Doing(c, m, "idle")
             \/ Resolve(c) /\ Doing(c, m, "resolve")
             \/ WriteMapping(c) /\ Doing(c, m, "map")
             \/ InitGroup(c) /\ Doing(c, m, "init")
             \/ ReadGroup(c) /\ Doing(c, m, "read")
             \/ WriteGroup(c) /\ Doing(c, m, "write")
             \/ AddEvent(c) /\ Doing(c, m, "index")
             \/ StoreSnapshot(c) /\ Doing(c, m, "snap")
    BY DEF Command, Match, Resolve, WriteMapping, InitGroup, ReadGroup, WriteGroup, AddEvent,
           StoreSnapshot, Doing
  <1>2. m \in 1 .. MaxEntries
    BY BatchEntries DEF CTypeOK
  <1>3. \A k \in batch[c] : Handling(c, k) => k = m
    BY <1>1, OneHead DEF Handling, CTypeOK
  <1>4. /\ at[c] # "idle" /\ at[c] \in {"resolve", "map"} => pos[c] \in 1 .. Len(KeysOf[m])
        /\ at[c] \notin {"idle", "resolve"} => inv[c] \in Key
        /\ at[c] \in {"snap", "publish"} => <<inv[c], m>> \in members
        /\ at[c] = "publish" => <<inv[c], m>> \in snapshots
        /\ at[c] = "idle" => pos[c] = 1
    BY <1>1, HandlersEntry DEF CIInv, OnTrack, CTypeOK
  <1>5. UNCHANGED vars
    BY DEF Command, Match, Resolve, WriteMapping, InitGroup, ReadGroup, WriteGroup, AddEvent,
           StoreSnapshot, Working
  <1>6. batch' = batch /\ returned' = returned /\ Handling(c, m)'
    BY <1>1, <1>5 DEF vars, Handling, IsHead
  <1>7. /\ members \subseteq members' /\ snapshots \subseteq snapshots'
        /\ \A d \in Consumer \ {c} : at'[d] = at[d] /\ pos'[d] = pos[d] /\ inv'[d] = inv[d]
    BY DEF Command, Match, Resolve, WriteMapping, InitGroup, ReadGroup, WriteGroup, AddEvent,
           StoreSnapshot, GoTo, redis_vars, CTypeOK, HandlerTypeOK
  <1>8. \A d \in Consumer \ {c} : OnTrack(d)'
    BY <1>6, <1>7, OthersOnTrack DEF CIInv
  <1> USE DEF CTypeOK, HandlerTypeOK, RedisTypeOK, GoTo
  <1>9. CASE Match(c) /\ Doing(c, m, "idle")
    <2>1. PICK s \in Scores : score' = [score EXCEPT ![c] = s]
      BY <1>9 DEF Match
    <2>2. s \in 0 .. 100
      BY CorrelationAssumption
    <2>3. /\ at[c] = "idle" /\ at' = [at EXCEPT ![c] = "resolve"]
          /\ UNCHANGED <<redis_vars, correlated, pos, inv, copy>>
      BY <1>9 DEF Match, Doing
    <2>4. /\ at'[c] = "resolve" /\ pos'[c] = 1 /\ m \in batch'[c]
          /\ 1 \in 1 .. Len(KeysOf[m])
      BY <1>2, <1>4, <1>6, <2>3, KeysAreKeys
    <2>5. OnTrack(c)'
      BY <1>6, <2>4 DEF OnTrack
    <2>6. QED
      BY <1>8, <2>1, <2>2, <2>3, <2>5 DEF redis_vars
  <1>10. CASE Resolve(c) /\ Doing(c, m, "resolve")
    <2>1. at[c] = "resolve" /\ pos[c] \in 1 .. Len(KeysOf[m])
      BY <1>4, <1>10 DEF Doing
    <2>2. KeysOf[m][pos[c]] \in Key /\ mapping[KeysOf[m][pos[c]]] \in Key \cup {NoId}
      BY <1>2, <2>1, KeysAreKeys
    <2>3. /\ UNCHANGED <<redis_vars, correlated, score, copy>>
          /\ \/ /\ inv' = [inv EXCEPT ![c] = mapping[KeysOf[m][pos[c]]]]
                /\ mapping[KeysOf[m][pos[c]]] # NoId
                /\ at' = [at EXCEPT ![c] = "read"]
                /\ pos' = pos
             \/ /\ pos[c] < Len(KeysOf[m])
                /\ pos' = [pos EXCEPT ![c] = pos[c] + 1]
                /\ at' = at /\ inv' = inv
             \/ /\ inv' = [inv EXCEPT ![c] = MakeId(m)]
                /\ pos' = [pos EXCEPT ![c] = 1]
                /\ at' = [at EXCEPT ![c] = "map"]
      BY <1>3, <1>10 DEF Resolve, Doing
    <2>4. m \in batch'[c] /\ MakeId(m) \in Key /\ Len(KeysOf[m]) \in Nat \ {0}
      BY <1>2, <1>6, KeysAreKeys
    <2>5. CASE inv' = [inv EXCEPT ![c] = mapping[KeysOf[m][pos[c]]]]
               /\ mapping[KeysOf[m][pos[c]]] # NoId
               /\ at' = [at EXCEPT ![c] = "read"]
               /\ pos' = pos
      <3>1. at'[c] = "read" /\ inv'[c] \in Key
        BY <2>2, <2>5
      <3>2. OnTrack(c)'
        BY <1>6, <2>4, <3>1 DEF OnTrack
      <3>3. QED
        BY <1>8, <2>2, <2>3, <2>5, <3>2 DEF redis_vars
    <2>6. CASE /\ pos[c] < Len(KeysOf[m])
               /\ pos' = [pos EXCEPT ![c] = pos[c] + 1]
               /\ at' = at /\ inv' = inv
      <3>1. at'[c] = "resolve" /\ pos'[c] \in 1 .. Len(KeysOf[m]) /\ pos'[c] \in Nat \ {0}
        BY <2>1, <2>4, <2>6
      <3>2. OnTrack(c)'
        BY <1>6, <2>4, <3>1 DEF OnTrack
      <3>3. QED
        BY <1>8, <2>3, <2>6, <3>1, <3>2 DEF redis_vars
    <2>7. CASE /\ inv' = [inv EXCEPT ![c] = MakeId(m)]
               /\ pos' = [pos EXCEPT ![c] = 1]
               /\ at' = [at EXCEPT ![c] = "map"]
      <3>1. /\ at'[c] = "map" /\ inv'[c] \in Key /\ pos'[c] = 1
            /\ 1 \in 1 .. Len(KeysOf[m])
        BY <2>4, <2>7
      <3>2. OnTrack(c)'
        BY <1>6, <2>4, <3>1 DEF OnTrack
      <3>3. QED
        BY <1>8, <2>3, <2>4, <2>7, <3>2 DEF redis_vars
    <2>8. QED
      BY <2>3, <2>5, <2>6, <2>7
  <1>11. CASE WriteMapping(c) /\ Doing(c, m, "map")
    <2>1. at[c] = "map" /\ pos[c] \in 1 .. Len(KeysOf[m]) /\ inv[c] \in Key
      BY <1>4, <1>11 DEF Doing
    <2>2. KeysOf[m][pos[c]] \in Key
      BY <1>2, <2>1, KeysAreKeys
    <2>3. /\ UNCHANGED <<groups, members, snapshots, correlated, inv, score, copy>>
          /\ mapping' = [mapping EXCEPT ![KeysOf[m][pos[c]]] = inv[c]]
          /\ \/ /\ pos[c] < Len(KeysOf[m])
                /\ pos' = [pos EXCEPT ![c] = pos[c] + 1] /\ at' = at
             \/ at' = [at EXCEPT ![c] = "init"] /\ pos' = pos
      BY <1>3, <1>11 DEF WriteMapping, Doing, MapKey
    <2>4. m \in batch'[c] /\ Len(KeysOf[m]) \in Nat \ {0}
      BY <1>2, <1>6, KeysAreKeys
    <2>5. /\ inv'[c] \in Key /\ pos'[c] \in Nat \ {0}
          /\ \/ at'[c] = "map" /\ pos'[c] \in 1 .. Len(KeysOf[m])
             \/ at'[c] = "init"
      BY <2>1, <2>3, <2>4
    <2>6. OnTrack(c)'
      BY <1>6, <2>4, <2>5 DEF OnTrack
    <2>7. HandlerTypeOK' /\ RedisTypeOK'
      BY <2>1, <2>2, <2>3, <2>5
    <2>8. QED
      BY <1>8, <2>6, <2>7
  <1>12. CASE InitGroup(c) /\ Doing(c, m, "init")
    <2>1. /\ at[c] = "init" /\ inv[c] \in Key
          /\ groups' = [groups EXCEPT ![inv[c]] = EmptyGroup]
          /\ at' = [at EXCEPT ![c] = "read"]
          /\ UNCHANGED <<mapping, members, snapshots, correlated, pos, inv, score, copy>>
      BY <1>4, <1>12 DEF InitGroup, Doing
    <2>2. EmptyGroup \in Group
      BY DEF EmptyGroup, Group
    <2>3. OnTrack(c)'
      BY <1>6, <2>1 DEF OnTrack
    <2>4. QED
      BY <1>8, <2>1, <2>2, <2>3
  <1>13. CASE ReadGroup(c) /\ Doing(c, m, "read")
    <2>1. /\ at[c] = "read" /\ inv[c] \in Key
          /\ copy' = [copy EXCEPT ![c] = groups[inv[c]]]
          /\ \E p \in {"index", "write"} : at' = [at EXCEPT ![c] = p]
          /\ UNCHANGED <<redis_vars, correlated, pos, inv, score>>
      BY <1>4, <1>13 DEF ReadGroup, Doing
    <2>2. OnTrack(c)'
      BY <1>6, <2>1 DEF OnTrack
    <2>3. QED
      BY <1>8, <2>1, <2>2 DEF redis_vars
  <1>14. CASE WriteGroup(c) /\ Doing(c, m, "write")
    <2>1. /\ at[c] = "write" /\ inv[c] \in Key
          /\ groups' = [groups EXCEPT ![inv[c]] = MergeInto(copy[c], m, score[c])]
          /\ at' = [at EXCEPT ![c] = "index"]
          /\ UNCHANGED <<mapping, members, snapshots, correlated, pos, inv, score, copy>>
      BY <1>3, <1>4, <1>14 DEF WriteGroup, Doing
    <2>2. MergeInto(copy[c], m, score[c]) \in Group
      BY <1>2, MergeType
    <2>3. OnTrack(c)'
      BY <1>6, <2>1 DEF OnTrack
    <2>4. QED
      BY <1>8, <2>1, <2>2, <2>3
  <1>15. CASE AddEvent(c) /\ Doing(c, m, "index")
    <2>1. /\ at[c] = "index" /\ inv[c] \in Key
          /\ members' = members \cup {<<inv[c], m>>}
          /\ at' = [at EXCEPT ![c] = "snap"]
          /\ UNCHANGED <<mapping, groups, snapshots, correlated, pos, inv, score, copy>>
      BY <1>3, <1>4, <1>15 DEF AddEvent, Doing
    <2>2. OnTrack(c)'
      BY <1>6, <2>1 DEF OnTrack
    <2>3. QED
      BY <1>2, <1>8, <2>1, <2>2
  <1>16. CASE StoreSnapshot(c) /\ Doing(c, m, "snap")
    <2>1. /\ at[c] = "snap" /\ inv[c] \in Key
          /\ snapshots' = snapshots \cup {<<inv[c], m>>}
          /\ at' = [at EXCEPT ![c] = "publish"]
          /\ UNCHANGED <<mapping, groups, members, correlated, pos, inv, score, copy>>
      BY <1>3, <1>4, <1>16 DEF StoreSnapshot, Doing
    <2>2. OnTrack(c)'
      BY <1>4, <1>6, <2>1 DEF OnTrack
    <2>3. QED
      BY <1>2, <1>8, <2>1, <2>2
  <1>17. QED
    BY <1>1, <1>9, <1>10, <1>11, <1>12, <1>13, <1>14, <1>15, <1>16

-----------------------------------------------------------------------------
\* An error leaves the command's effect or none; either keeps the types and only
\* adds to the sets.
LEMMA DoneTypes ==
    ASSUME CTypeOK, IInv, CIInv, NEW c \in Consumer, NEW m \in batch[c], Handling(c, m),
           CommandDone(c, m)
    PROVE  /\ RedisTypeOK' /\ PublishedIsReadable'
           /\ members \subseteq members' /\ snapshots \subseteq snapshots'
           /\ correlated \subseteq correlated'
  <1>1. m \in 1 .. MaxEntries
    BY BatchEntries DEF CTypeOK
  <1>2. /\ at[c] # "idle"
        /\ at[c] \in {"resolve", "map"} => pos[c] \in 1 .. Len(KeysOf[m])
        /\ at[c] # "resolve" => inv[c] \in Key
        /\ at[c] \in {"snap", "publish"} => <<inv[c], m>> \in members
        /\ at[c] = "publish" => <<inv[c], m>> \in snapshots
    <2>1. at[c] # "idle"
      BY DEF CommandDone
    <2>2. QED
      BY <2>1, HandlersEntry DEF CIInv, CTypeOK
  <1> USE DEF CTypeOK, HandlerTypeOK, RedisTypeOK
  <1>3. CASE at[c] = "map" /\ MapKey(c, m) /\ UNCHANGED <<groups, members, snapshots, correlated>>
    <2>1. KeysOf[m][pos[c]] \in Key
      BY <1>1, <1>2, <1>3, KeysAreKeys
    <2>2. QED
      BY <1>2, <1>3, <2>1 DEF MapKey, CIInv, PublishedIsReadable
  <1>4. CASE /\ at[c] \in {"init", "write"}
             /\ UNCHANGED <<mapping, members, snapshots, correlated>>
             /\ groups' \in { [groups EXCEPT ![inv[c]] = EmptyGroup],
                              [groups EXCEPT ![inv[c]] = MergeInto(copy[c], m, score[c])] }
    <2>1. EmptyGroup \in Group
      BY DEF EmptyGroup, Group
    <2>2. MergeInto(copy[c], m, score[c]) \in Group
      BY <1>1, MergeType
    <2>3. QED
      BY <1>2, <1>4, <2>1, <2>2 DEF CIInv, PublishedIsReadable
  <1>5. CASE /\ at[c] = "index" /\ members' = members \cup {<<inv[c], m>>}
             /\ UNCHANGED <<mapping, groups, snapshots, correlated>>
    BY <1>1, <1>2, <1>5 DEF CIInv, PublishedIsReadable
  <1>6. CASE /\ at[c] = "snap" /\ snapshots' = snapshots \cup {<<inv[c], m>>}
             /\ UNCHANGED <<mapping, groups, members, correlated>>
    BY <1>1, <1>2, <1>6 DEF CIInv, PublishedIsReadable
  <1>7. CASE /\ at[c] = "publish" /\ correlated' = correlated \cup {Message(c, m)}
             /\ UNCHANGED redis_vars
    <2>1. Message(c, m) \in [inv : Key, event : 1 .. MaxEntries, score : 0 .. 100]
      BY <1>1, <1>2, <1>7 DEF Message
    <2>2. Message(c, m).inv = inv[c] /\ Message(c, m).event = m
      BY DEF Message
    <2>3. QED
      BY <1>2, <1>7, <2>1, <2>2 DEF redis_vars, CIInv, PublishedIsReadable
  <1>8. QED
    BY <1>3, <1>4, <1>5, <1>6, <1>7 DEF CommandDone

\* Every step keeps the types and the invariant.
LEMMA NextC == CTypeOK /\ IInv /\ CIInv /\ [CNext]_cvars => CTypeOK' /\ CIInv'
  <1> SUFFICES ASSUME CTypeOK, IInv, CIInv, [CNext]_cvars PROVE CTypeOK' /\ CIInv'
    OBVIOUS
  <1>1. [Next]_vars /\ TypeOK'
    BY StepOfStream, NextTypeOK DEF CTypeOK
  <1>2. CASE UNCHANGED cvars
    BY <1>1, <1>2 DEF cvars, redis_vars, handler_vars, vars, CTypeOK, HandlerTypeOK, RedisTypeOK,
          CIInv, PublishedIsReadable, OnTrack, Handling, IsHead
  <1>3. CASE LoopOnly
    <2>1. /\ UNCHANGED <<redis_vars, correlated, handler_vars, ignored, overlapped, expiries>>
          /\ handled' = handled
      BY <1>3 DEF LoopOnly, XAdd, GoIdle, Start, Poll, Reclaim, PoisonRaises, HandlerRaises,
                  Ack, PollFails, ReclaimFails, AckFails
    <2>2. ASSUME NEW d \in Consumer PROVE OnTrack(d)'
      <3>1. CASE at[d] = "idle"
        BY <2>1, <3>1 DEF handler_vars, CIInv, OnTrack
      <3>2. CASE at[d] # "idle"
        <4>1. PICK m \in batch[d] : Handling(d, m)
          BY <3>2 DEF CIInv, OnTrack
        <4>2. batch'[d] = batch[d] /\ returned'[d] = returned[d]
          BY <1>3, <4>1, HandlerKeepsBatch DEF Handling, LoopOnly, CTypeOK
        <4>3. QED
          BY <2>1, <4>2, OthersOnTrack DEF handler_vars, redis_vars, CIInv
      <3>3. QED
        BY <3>1, <3>2
    <2>3. CTypeOK'
      BY <1>1, <2>1 DEF CTypeOK, HandlerTypeOK, RedisTypeOK, handler_vars, redis_vars
    <2>4. QED
      BY <2>1, <2>2, <2>3 DEF CIInv, PublishedIsReadable, redis_vars
  <1>4. CASE MappingExpires
    <2>1. /\ UNCHANGED <<vars, groups, members, snapshots, correlated, handler_vars, ignored,
                         overlapped>>
          /\ expiries' = expiries + 1
          /\ \E k \in Key : mapping' = [mapping EXCEPT ![k] = NoId]
      BY <1>4 DEF MappingExpires
    <2>2. \A d \in Consumer : OnTrack(d)'
      BY <2>1, OthersOnTrack DEF handler_vars, vars, CIInv
    <2>3. QED
      BY <1>1, <2>1, <2>2 DEF CTypeOK, HandlerTypeOK, RedisTypeOK, handler_vars, CIInv,
                              PublishedIsReadable, vars
  <1>5. ASSUME NEW c \in Consumer, Command(c)
        PROVE  CTypeOK' /\ CIInv'
    <2>1. /\ UNCHANGED <<vars, correlated, ignored, expiries>>
          /\ overlapped' \in BOOLEAN
          /\ members \subseteq members' /\ snapshots \subseteq snapshots'
      BY <1>5 DEF Command, Match, Resolve, WriteMapping, InitGroup, ReadGroup, WriteGroup,
           AddEvent, StoreSnapshot, Working, redis_vars, CTypeOK
    <2>2. HandlerTypeOK' /\ RedisTypeOK' /\ \A d \in Consumer : OnTrack(d)'
      BY <1>5, CommandKeeps
    <2>3. QED
      BY <1>1, <2>1, <2>2 DEF CTypeOK, CIInv, PublishedIsReadable, vars
  <1>6. ASSUME NEW c \in Consumer, Insignificant(c)
        PROVE  CTypeOK' /\ CIInv'
    <2>1. PICK m \in batch[c] :
            /\ at[c] = "idle" /\ ignored' = ignored \cup {m} /\ Handling(c, m)
            /\ HandlerOk(c)
            /\ UNCHANGED <<redis_vars, correlated, handler_vars, overlapped, expiries>>
      BY <1>6 DEF Insignificant, Doing
    <2>2. /\ handled' = handled \cup {m} /\ batch' = batch
          /\ returned' = [returned EXCEPT ![c] = TRUE]
      BY <2>1, OneHead DEF HandlerOk, CTypeOK, Handling
    <2>3. m \in 1 .. MaxEntries
      BY BatchEntries DEF CTypeOK
    <2>4. ASSUME NEW d \in Consumer PROVE OnTrack(d)'
      <3>1. CASE d = c
        BY <2>1, <3>1 DEF CIInv, OnTrack, handler_vars
      <3>2. CASE d # c
        BY <2>1, <2>2, <3>2, OthersOnTrack DEF CIInv, handler_vars, redis_vars, CTypeOK, TypeOK
      <3>3. QED
        BY <3>1, <3>2
    <2>5. QED
      BY <1>1, <2>1, <2>2, <2>3, <2>4 DEF CTypeOK, HandlerTypeOK, RedisTypeOK, redis_vars,
             handler_vars, CIInv, PublishedIsReadable
  <1>7. ASSUME NEW c \in Consumer, PublishCorrelated(c)
        PROVE  CTypeOK' /\ CIInv'
    <2>1. PICK m \in batch[c] :
            /\ at[c] = "publish" /\ Handling(c, m)
            /\ correlated' = correlated \cup {Message(c, m)}
            /\ HandlerOk(c) /\ LeaveHandler(c)
            /\ UNCHANGED <<redis_vars, ignored, overlapped, expiries>>
      BY <1>7 DEF PublishCorrelated, Doing
    <2>2. /\ handled' = handled \cup {m} /\ batch' = batch
          /\ returned' = [returned EXCEPT ![c] = TRUE]
      BY <2>1, OneHead DEF HandlerOk, CTypeOK, Handling
    <2>3. CommandDone(c, m)
      BY <2>1 DEF CommandDone
    <2>4. /\ RedisTypeOK' /\ PublishedIsReadable' /\ correlated \subseteq correlated'
          /\ Message(c, m) \in correlated' /\ Message(c, m).event = m
      BY <2>1, <2>3, DoneTypes DEF Message
    <2>5. /\ HandlerTypeOK' /\ at'[c] = "idle" /\ pos'[c] = 1
          /\ \A d \in Consumer \ {c} : at'[d] = at[d] /\ pos'[d] = pos[d] /\ inv'[d] = inv[d]
      BY <2>1, LeaveTypes DEF CTypeOK
    <2>6. ASSUME NEW d \in Consumer PROVE OnTrack(d)'
      <3>1. CASE d = c
        BY <2>5, <3>1 DEF OnTrack
      <3>2. CASE d # c
        BY <2>1, <2>2, <2>5, <3>2, OthersOnTrack DEF CIInv, redis_vars, CTypeOK, TypeOK
      <3>3. QED
        BY <3>1, <3>2
    <2>7. \A k \in handled' : k \in ignored' \/ \E x \in correlated' : x.event = k
      BY <2>1, <2>2, <2>4 DEF CIInv
    <2>8. QED
      BY <1>1, <2>1, <2>4, <2>5, <2>6, <2>7 DEF CTypeOK, CIInv
  <1>8. ASSUME NEW c \in Consumer, CommandFails(c) \/ CHalt(c)
        PROVE  CTypeOK' /\ CIInv'
    <2>1. /\ LeaveHandler(c)
          /\ UNCHANGED <<handled, ignored, overlapped, expiries>>
          /\ \A d \in Consumer \ {c} : batch'[d] = batch[d] /\ returned'[d] = returned[d]
      BY <1>8 DEF CommandFails, CHalt, HandlerFails, HandlerRaises, Halt, Advance, CTypeOK, TypeOK
    <2>2. /\ RedisTypeOK' /\ PublishedIsReadable'
          /\ members \subseteq members' /\ snapshots \subseteq snapshots'
          /\ correlated \subseteq correlated'
      <3>1. CASE UNCHANGED <<redis_vars, correlated>>
        BY <3>1 DEF redis_vars, CTypeOK, RedisTypeOK, CIInv, PublishedIsReadable
      <3>2. CASE \E m \in batch[c] : Handling(c, m) /\ CommandDone(c, m)
        BY <3>2, DoneTypes
      <3>3. QED
        BY <1>8, <3>1, <3>2 DEF CommandFails, CHalt
    <2>3. /\ HandlerTypeOK' /\ at'[c] = "idle" /\ pos'[c] = 1
          /\ \A d \in Consumer \ {c} : at'[d] = at[d] /\ pos'[d] = pos[d] /\ inv'[d] = inv[d]
      BY <2>1, LeaveTypes DEF CTypeOK
    <2>4. ASSUME NEW d \in Consumer PROVE OnTrack(d)'
      <3>1. CASE d = c
        BY <2>3, <3>1 DEF OnTrack
      <3>2. CASE d # c
        BY <2>1, <2>2, <2>3, <3>2, OthersOnTrack DEF CIInv
      <3>3. QED
        BY <3>1, <3>2
    <2>5. QED
      BY <1>1, <2>1, <2>2, <2>3, <2>4 DEF CTypeOK, CIInv
  <1>9. QED
    BY <1>2, <1>3, <1>4, <1>5, <1>6, <1>7, <1>8 DEF CNext, Command

\* Types, and the invariant that carries the rest, with that of the stream.
THEOREM CInvariance == CSpec => [](CTypeOK /\ IInv /\ CIInv)
  <1>1. CInit => CTypeOK /\ IInv /\ CIInv
    BY InitC, InitIInv DEF CInit
  <1>2. CTypeOK /\ IInv /\ CIInv /\ [CNext]_cvars => (CTypeOK /\ IInv /\ CIInv)'
    BY NextC, NextIInv, StepOfStream DEF CTypeOK
  <1>3. QED
    BY <1>1, <1>2, PTL DEF CSpec

\* Whoever reads a correlated entry finds the event in the group it names.
THEOREM CorrelatedReadable == CSpec => []PublishedIsReadable
  <1>1. CIInv => PublishedIsReadable
    BY DEF CIInv
  <1>2. QED
    BY <1>1, CInvariance, PTL

\* No significant event is acknowledged before it was published with a group.
THEOREM AcknowledgedIsCorrelated == CSpec => []AckedIsCorrelated
  <1>1. IInv /\ CIInv => AckedIsCorrelated
    BY DEF IInv, CIInv, AckedWasHandled, AckedIsCorrelated
  <1>2. QED
    BY <1>1, CInvariance, PTL

-----------------------------------------------------------------------------
(* While all is calm: one handler at work, nothing failed or expired       *)

\* Two handlers are not at work at the same time.
AloneAtWork == \A c, d \in Consumer : at[c] # "idle" /\ at[d] # "idle" => c = d

\* The key a group is named after was written before its hash.
FoundersMapped == \A i \in Key : groups[i] # NoGroup => mapping[i] # NoId

\* A key leads to a hash, which the handler that wrote the key may still have to write.
MappedFounded ==
    \A k \in Key : mapping[k] # NoId =>
        \/ groups[mapping[k]] # NoGroup
        \/ \E c \in Consumer : at[c] \in {"map", "init"} /\ inv[c] = mapping[k]

\* How far the handler at work is: it founds a group only where there is none, what it
\* read is what the hash holds, and what it publishes was merged.
CalmWork(c) ==
    \A m \in batch[c] : Handling(c, m) =>
        /\ at[c] = "resolve" => \A j \in 1 .. (pos[c] - 1) : mapping[KeysOf[m][j]] = NoId
        /\ at[c] \in {"map", "init"} => inv[c] = MakeId(m) /\ groups[inv[c]] = NoGroup
        /\ at[c] = "map" => pos[c] = 1 \/ mapping[inv[c]] # NoId
        /\ at[c] = "init" => mapping[inv[c]] # NoId
        /\ at[c] = "read" => groups[inv[c]] # NoGroup
        /\ at[c] = "write" => copy[c] = groups[inv[c]] /\ copy[c] # NoGroup
        /\ at[c] \in {"index", "snap", "publish"} =>
              m \in groups[inv[c]].merged /\ score[c] <= groups[inv[c]].score

Whole ==
    \A x \in correlated :
        x.event \in groups[x.inv].merged /\ x.score <= groups[x.inv].score

CalmInv ==
    Calm => /\ AloneAtWork
            /\ FoundersMapped
            /\ MappedFounded
            /\ \A c \in Consumer : CalmWork(c)
            /\ Whole

\* Calm ends for good.
LEMMA CalmBefore ==
    ASSUME CTypeOK, [CNext]_cvars, Calm'
    PROVE  /\ Calm
           /\ ~MappingExpires
           /\ \A c \in Consumer : ~CommandFails(c) /\ ~CHalt(c)
  <1>1. CASE UNCHANGED cvars
    <2>1. Calm
      BY <1>1 DEF cvars, vars, Calm
    <2>2. ~MappingExpires /\ \A c \in Consumer : ~CommandFails(c) /\ ~CHalt(c)
      BY <1>1 DEF cvars, vars, MappingExpires, CommandFails, CHalt, HandlerFails, Halt, Fault,
          CTypeOK, TypeOK
    <2>3. QED
      BY <2>1, <2>2
  <1>2. CASE CNext
    <2>1. /\ overlapped => overlapped'
          /\ expiries <= expiries'
      BY <1>2 DEF CNext, LoopOnly, MappingExpires, Match, Insignificant, Resolve, WriteMapping,
          InitGroup, ReadGroup, WriteGroup, AddEvent, StoreSnapshot, PublishCorrelated,
          CommandFails, CHalt, Working, CTypeOK
    <2>2. faults <= faults'
      <3>1. CASE UNCHANGED vars
        BY <3>1 DEF vars, CTypeOK, TypeOK
      <3>2. CASE Next
        BY <3>2 DEF Next, Work, Misfortune, XAdd, Start, Poll, PollFails, Reclaim, ReclaimFails,
            HandlerOk, PoisonRaises, HandlerFails, HandlerRaises, Ack, AckFails, Halt, GoIdle,
            Fault, CTypeOK, TypeOK
      <3>3. QED
        BY <1>2, <3>1, <3>2, StepOfStream
    <2>3. ~MappingExpires /\ \A c \in Consumer : ~CommandFails(c) /\ ~CHalt(c)
      BY DEF MappingExpires, CommandFails, CHalt, HandlerFails, Halt, Fault, CTypeOK, TypeOK, Calm
    <2>4. QED
      BY <2>1, <2>2, <2>3 DEF Calm, CTypeOK, TypeOK
  <1>3. QED
    BY <1>1, <1>2

\* Merging an event keeps what a group has and counts the event in.
LEMMA MergeGrows ==
    ASSUME NEW g \in Group, NEW m \in 1 .. MaxEntries, NEW s \in 0 .. 100
    PROVE  /\ g.merged \subseteq MergeInto(g, m, s).merged
           /\ m \in MergeInto(g, m, s).merged
           /\ g.score <= MergeInto(g, m, s).score
           /\ s <= MergeInto(g, m, s).score
           /\ MergeInto(g, m, s) # NoGroup
  <1>1. /\ MergeInto(g, m, s).merged = g.merged \cup {m}
        /\ MergeInto(g, m, s).score = Smaller(Larger(g.score, s), 100)
    BY DEF MergeInto
  <1>2. NoGroup.merged = {}
    BY DEF NoGroup
  <1>3. g.score \in -1 .. 100
    BY DEF Group
  <1>4. QED
    BY <1>1, <1>2, <1>3 DEF Smaller, Larger

\* The command of the only handler at work.
LEMMA CalmCommand ==
    ASSUME CTypeOK, IInv, CIInv, CalmInv, Calm, Calm', NEW c \in Consumer, Command(c)
    PROVE  CalmInv'
  <1>1. PICK m \in batch[c] :
          /\ Handling(c, m)
          /\ \/ Match(c) /\ Doing(c, m, "idle")
             \/ Resolve(c) /\ Doing(c, m, "resolve")
             \/ WriteMapping(c) /\ Doing(c, m, "map")
             \/ InitGroup(c) /\ Doing(c, m, "init")
             \/ ReadGroup(c) /\ Doing(c, m, "read")
             \/ WriteGroup(c) /\ Doing(c, m, "write")
             \/ AddEvent(c) /\ Doing(c, m, "index")
             \/ StoreSnapshot(c) /\ Doing(c, m, "snap")
    BY DEF Command, Match, Resolve, WriteMapping, InitGroup, ReadGroup, WriteGroup, AddEvent,
           StoreSnapshot, Doing
  <1>2. m \in 1 .. MaxEntries
    BY BatchEntries DEF CTypeOK
  <1>3. \A k \in batch[c] : Handling(c, k) => k = m
    BY <1>1, OneHead DEF Handling, CTypeOK
  <1>4. /\ at[c] \in {"resolve", "map"} => pos[c] \in 1 .. Len(KeysOf[m])
        /\ at[c] \notin {"idle", "resolve"} => inv[c] \in Key
        /\ at[c] = "idle" => pos[c] = 1
    BY <1>1, HandlersEntry DEF CIInv, OnTrack, CTypeOK
  <1>5. UNCHANGED vars /\ correlated' = correlated
    BY DEF Command, Match, Resolve, WriteMapping, InitGroup, ReadGroup, WriteGroup, AddEvent,
           StoreSnapshot, Working
  <1>6. /\ AloneAtWork /\ FoundersMapped /\ MappedFounded /\ Whole
        /\ CalmWork(c)
    BY DEF CalmInv
  <1>7. \A d \in Consumer \ {c} : at[d] = "idle" /\ at'[d] = "idle"
    <2>1. ASSUME NEW d \in Consumer \ {c}
          PROVE  at[d] = "idle"
      <3>1. CASE at[c] = "idle"
        BY <1>1, <3>1 DEF Doing, Match, Calm
      <3>2. CASE at[c] # "idle"
        BY <1>6, <3>2 DEF AloneAtWork
      <3>3. QED
        BY <3>1, <3>2
    <2>2. \A d \in Consumer \ {c} : at'[d] = at[d]
      BY DEF Command, Match, Resolve, WriteMapping, InitGroup, ReadGroup, WriteGroup, AddEvent,
             StoreSnapshot, GoTo, CTypeOK, HandlerTypeOK
    <2>3. QED
      BY <2>1, <2>2
  <1>8. AloneAtWork'
    BY <1>7 DEF AloneAtWork
  <1>9. \A k \in Key : mapping[k] # NoId =>
          \/ groups[mapping[k]] # NoGroup
          \/ at[c] \in {"map", "init"} /\ inv[c] = mapping[k]
    BY <1>6, <1>7 DEF MappedFounded
  <1>10. /\ at[c] = "resolve" => \A j \in 1 .. (pos[c] - 1) : mapping[KeysOf[m][j]] = NoId
         /\ at[c] \in {"map", "init"} => inv[c] = MakeId(m) /\ groups[inv[c]] = NoGroup
         /\ at[c] = "map" => pos[c] = 1 \/ mapping[inv[c]] # NoId
         /\ at[c] = "init" => mapping[inv[c]] # NoId
         /\ at[c] = "read" => groups[inv[c]] # NoGroup
         /\ at[c] = "write" => copy[c] = groups[inv[c]] /\ copy[c] # NoGroup
         /\ at[c] \in {"index", "snap", "publish"} =>
               m \in groups[inv[c]].merged /\ score[c] <= groups[inv[c]].score
    BY <1>1, <1>6 DEF CalmWork
  \* What is left to show of each command.
  <1>11. ASSUME FoundersMapped', Whole',
                \A k \in Key : mapping'[k] # NoId =>
                    \/ groups'[mapping'[k]] # NoGroup
                    \/ at'[c] \in {"map", "init"} /\ inv'[c] = mapping'[k],
                /\ at'[c] = "resolve" => \A j \in 1 .. (pos'[c] - 1) : mapping'[KeysOf[m][j]] = NoId
                /\ at'[c] \in {"map", "init"} => inv'[c] = MakeId(m) /\ groups'[inv'[c]] = NoGroup
                /\ at'[c] = "map" => pos'[c] = 1 \/ mapping'[inv'[c]] # NoId
                /\ at'[c] = "init" => mapping'[inv'[c]] # NoId
                /\ at'[c] = "read" => groups'[inv'[c]] # NoGroup
                /\ at'[c] = "write" => copy'[c] = groups'[inv'[c]] /\ copy'[c] # NoGroup
                /\ at'[c] \in {"index", "snap", "publish"} =>
                      m \in groups'[inv'[c]].merged /\ score'[c] <= groups'[inv'[c]].score
         PROVE  CalmInv'
    <2>1. MappedFounded'
      BY <1>11 DEF MappedFounded
    <2>2. ASSUME NEW d \in Consumer
          PROVE  CalmWork(d)'
      <3>1. CASE d # c
        BY <1>7, <3>1 DEF CalmWork
      <3>2. CASE d = c
        <4>1. \A k \in batch'[c] : Handling(c, k)' => k = m
          BY <1>3, <1>5 DEF Handling, IsHead, vars
        <4>2. QED
          BY <1>11, <3>2, <4>1 DEF CalmWork, MakeId
      <3>3. QED
        BY <3>1, <3>2
    <2>3. QED
      BY <1>8, <1>11, <2>1, <2>2 DEF CalmInv
  <1> USE DEF CTypeOK, HandlerTypeOK, RedisTypeOK, GoTo
  <1>12. CASE Match(c) /\ Doing(c, m, "idle")
    <2>1. /\ at[c] = "idle" /\ at' = [at EXCEPT ![c] = "resolve"]
          /\ UNCHANGED <<redis_vars, pos, inv, copy>>
      BY <1>12 DEF Match, Doing
    <2>2. UNCHANGED <<mapping, groups>> /\ at'[c] = "resolve" /\ pos'[c] = 1
      BY <1>4, <2>1 DEF redis_vars
    <2>3. FoundersMapped' /\ Whole'
      BY <1>5, <1>6, <2>2 DEF FoundersMapped, Whole
    <2>4. QED
      BY <1>9, <1>11, <2>1, <2>2, <2>3
  <1>13. CASE Resolve(c) /\ Doing(c, m, "resolve")
    <2>1. at[c] = "resolve" /\ pos[c] \in 1 .. Len(KeysOf[m]) /\ Len(KeysOf[m]) \in Nat \ {0}
      BY <1>2, <1>4, <1>13, KeysAreKeys DEF Doing
    <2>2. KeysOf[m][pos[c]] \in Key
      BY <1>2, <2>1, KeysAreKeys
    <2>3. /\ UNCHANGED <<mapping, groups>>
          /\ \/ /\ inv' = [inv EXCEPT ![c] = mapping[KeysOf[m][pos[c]]]]
                /\ mapping[KeysOf[m][pos[c]]] # NoId
                /\ at' = [at EXCEPT ![c] = "read"]
             \/ /\ mapping[KeysOf[m][pos[c]]] = NoId
                /\ pos' = [pos EXCEPT ![c] = pos[c] + 1]
                /\ at' = at
             \/ /\ mapping[KeysOf[m][pos[c]]] = NoId
                /\ inv' = [inv EXCEPT ![c] = MakeId(m)]
                /\ pos' = [pos EXCEPT ![c] = 1]
                /\ at' = [at EXCEPT ![c] = "map"]
      BY <1>3, <1>13 DEF Resolve, Doing, redis_vars
    <2>4. FoundersMapped' /\ Whole'
      BY <1>5, <1>6, <2>3 DEF FoundersMapped, Whole
    <2>5. \A k \in Key : mapping'[k] # NoId => groups'[mapping'[k]] # NoGroup
      BY <1>9, <2>1, <2>3
    <2>6. CASE /\ inv' = [inv EXCEPT ![c] = mapping[KeysOf[m][pos[c]]]]
               /\ mapping[KeysOf[m][pos[c]]] # NoId
               /\ at' = [at EXCEPT ![c] = "read"]
      <3>1. at'[c] = "read" /\ groups'[inv'[c]] # NoGroup
        BY <2>2, <2>3, <2>5, <2>6
      <3>2. QED
        BY <1>11, <2>4, <2>5, <3>1
    <2>7. CASE /\ mapping[KeysOf[m][pos[c]]] = NoId
               /\ pos' = [pos EXCEPT ![c] = pos[c] + 1]
               /\ at' = at
      <3>1. at'[c] = "resolve" /\ pos'[c] = pos[c] + 1
        BY <2>1, <2>7
      <3>2. \A j \in 1 .. (pos'[c] - 1) : mapping'[KeysOf[m][j]] = NoId
        BY <1>10, <2>1, <2>3, <2>7, <3>1
      <3>3. QED
        BY <1>11, <2>4, <2>5, <3>1, <3>2
    <2>8. CASE /\ mapping[KeysOf[m][pos[c]]] = NoId
               /\ inv' = [inv EXCEPT ![c] = MakeId(m)]
               /\ pos' = [pos EXCEPT ![c] = 1]
               /\ at' = [at EXCEPT ![c] = "map"]
      <3>1. at'[c] = "map" /\ pos'[c] = 1 /\ inv'[c] = MakeId(m)
        BY <2>8
      <3>2. MakeId(m) = KeysOf[m][1] /\ MakeId(m) \in Key
        BY <1>2, KeysAreKeys, CorrelationAssumption DEF MakeId
      <3>3. mapping[MakeId(m)] = NoId
        BY <1>10, <2>1, <2>8, <3>2
      <3>4. groups'[inv'[c]] = NoGroup
        BY <1>6, <2>3, <3>1, <3>2, <3>3 DEF FoundersMapped
      <3>5. QED
        BY <1>11, <2>4, <2>5, <3>1, <3>4
    <2>9. QED
      BY <2>3, <2>6, <2>7, <2>8
  <1>14. CASE WriteMapping(c) /\ Doing(c, m, "map")
    <2>1. /\ at[c] = "map" /\ pos[c] \in 1 .. Len(KeysOf[m]) /\ inv[c] \in Key
          /\ inv[c] = MakeId(m) /\ groups[inv[c]] = NoGroup
          /\ pos[c] = 1 \/ mapping[inv[c]] # NoId
      BY <1>4, <1>10, <1>14 DEF Doing
    <2>2. KeysOf[m][pos[c]] \in Key /\ MakeId(m) = KeysOf[m][1]
      BY <1>2, <2>1, KeysAreKeys, CorrelationAssumption DEF MakeId
    <2>3. /\ UNCHANGED <<groups, inv, score, copy>>
          /\ mapping' = [mapping EXCEPT ![KeysOf[m][pos[c]]] = inv[c]]
          /\ at'[c] \in {"map", "init"}
      BY <1>3, <1>14, <2>1 DEF WriteMapping, Doing, MapKey
    <2>4. inv[c] # NoId
      BY <2>1, CorrelationAssumption
    <2>5. mapping'[inv[c]] # NoId
      BY <2>1, <2>2, <2>3, <2>4
    <2>6. FoundersMapped' /\ Whole'
      BY <1>5, <1>6, <2>2, <2>3, <2>4 DEF FoundersMapped, Whole
    <2>7. \A k \in Key : mapping'[k] # NoId =>
            \/ groups'[mapping'[k]] # NoGroup
            \/ at'[c] \in {"map", "init"} /\ inv'[c] = mapping'[k]
      BY <1>9, <2>2, <2>3
    <2>8. QED
      BY <1>11, <2>1, <2>3, <2>5, <2>6, <2>7
  <1>15. CASE InitGroup(c) /\ Doing(c, m, "init")
    <2>1. /\ at[c] = "init" /\ inv[c] \in Key
          /\ inv[c] = MakeId(m) /\ groups[inv[c]] = NoGroup /\ mapping[inv[c]] # NoId
      BY <1>4, <1>10, <1>15 DEF Doing
    <2>2. /\ groups' = [groups EXCEPT ![inv[c]] = EmptyGroup]
          /\ at' = [at EXCEPT ![c] = "read"]
          /\ UNCHANGED <<mapping, inv>>
      BY <1>15 DEF InitGroup
    <2>3. EmptyGroup # NoGroup
      <3>1. EmptyGroup.score = 0 /\ NoGroup.score = -1
        BY DEF EmptyGroup, NoGroup
      <3>2. QED
        BY <3>1
    <2>4. /\ groups'[inv[c]] # NoGroup
          /\ \A i \in Key \ {inv[c]} : groups'[i] = groups[i]
          /\ at'[c] = "read"
      BY <2>1, <2>2, <2>3
    <2>5. FoundersMapped'
      BY <1>6, <2>1, <2>2, <2>4 DEF FoundersMapped
    <2>6. Whole'
      <3>1. ASSUME NEW x \in correlated
            PROVE  x.inv \in Key \ {inv[c]}
        BY <1>6, <2>1 DEF Whole, NoGroup
      <3>2. QED
        BY <1>5, <1>6, <2>4, <3>1 DEF Whole
    <2>7. \A k \in Key : mapping'[k] # NoId => groups'[mapping'[k]] # NoGroup
      BY <1>9, <2>2, <2>4
    <2>8. QED
      BY <1>11, <2>2, <2>4, <2>5, <2>6, <2>7
  <1>16. CASE ReadGroup(c) /\ Doing(c, m, "read")
    <2>1. at[c] = "read" /\ inv[c] \in Key /\ groups[inv[c]] # NoGroup
      BY <1>4, <1>10, <1>16 DEF Doing
    <2>2. /\ copy' = [copy EXCEPT ![c] = groups[inv[c]]]
          /\ at' = [at EXCEPT ![c] = "write"]
          /\ UNCHANGED <<mapping, groups, inv>>
      BY <1>16, <2>1 DEF ReadGroup, redis_vars
    <2>3. FoundersMapped' /\ Whole'
      BY <1>5, <1>6, <2>2 DEF FoundersMapped, Whole
    <2>4. QED
      BY <1>9, <1>11, <2>1, <2>2, <2>3
  <1>17. CASE WriteGroup(c) /\ Doing(c, m, "write")
    <2>1. at[c] = "write" /\ inv[c] \in Key /\ copy[c] = groups[inv[c]] /\ copy[c] # NoGroup
      BY <1>4, <1>10, <1>17 DEF Doing
    <2>2. /\ groups' = [groups EXCEPT ![inv[c]] = MergeInto(copy[c], m, score[c])]
          /\ at' = [at EXCEPT ![c] = "index"]
          /\ UNCHANGED <<mapping, inv, score>>
      BY <1>3, <1>17 DEF WriteGroup, Doing
    <2>3. /\ groups[inv[c]].merged \subseteq groups'[inv[c]].merged
          /\ m \in groups'[inv[c]].merged
          /\ groups[inv[c]].score <= groups'[inv[c]].score
          /\ score[c] <= groups'[inv[c]].score
          /\ groups'[inv[c]] # NoGroup
          /\ \A i \in Key \ {inv[c]} : groups'[i] = groups[i]
          /\ at'[c] = "index"
      <3>1. groups'[inv[c]] = MergeInto(groups[inv[c]], m, score[c])
        BY <2>1, <2>2
      <3>2. groups[inv[c]] \in Group /\ score[c] \in 0 .. 100
        BY <2>1
      <3>3. QED
        BY <1>2, <2>2, <3>1, <3>2, MergeGrows
    <2>4. MappedFounded /\ at[c] = "write" /\
          \A i \in Key : groups[i] # NoGroup => groups'[i] # NoGroup
      BY <1>6, <2>1, <2>3
    <2>5. FoundersMapped'
      BY <1>6, <2>1, <2>2, <2>3 DEF FoundersMapped
    <2>6. Whole'
      <3>1. ASSUME NEW x \in correlated
            PROVE  x.event \in groups'[x.inv].merged /\ x.score <= groups'[x.inv].score
        <4>1. /\ x.event \in groups[x.inv].merged /\ x.score <= groups[x.inv].score
              /\ x.inv \in Key /\ x.score \in 0 .. 100
          BY <1>6 DEF Whole
        <4>2. CASE x.inv # inv[c]
          BY <2>3, <4>1, <4>2
        <4>3. CASE x.inv = inv[c]
          <5>1. groups[inv[c]] \in Group /\ groups'[inv[c]] \in Group
            BY <1>2, <2>1, <2>2, MergeType
          <5>2. groups[inv[c]].score \in -1 .. 100 /\ groups'[inv[c]].score \in -1 .. 100
            BY <5>1 DEF Group
          <5>3. x.event \in groups'[inv[c]].merged
            BY <2>3, <4>1, <4>3
          <5>4. x.score <= groups[inv[c]].score /\ x.score \in Int
            BY <4>1, <4>3
          <5>5. x.score <= groups'[inv[c]].score
            <6>1. \A i, j, k \in Int : i <= j /\ j <= k => i <= k
              OBVIOUS
            <6>2. groups[inv[c]].score \in Int /\ groups'[inv[c]].score \in Int
              BY <5>2
            <6>3. groups[inv[c]].score <= groups'[inv[c]].score
              BY <2>3
            <6>4. QED
              BY <5>4, <6>1, <6>2, <6>3
          <5>6. QED
            BY <4>3, <5>3, <5>5
        <4>4. QED
          BY <4>2, <4>3
      <3>2. QED
        BY <1>5, <3>1 DEF Whole
    <2>7. \A k \in Key : mapping'[k] # NoId => groups'[mapping'[k]] # NoGroup
      BY <1>9, <2>2, <2>4
    <2>8. QED
      BY <1>11, <2>2, <2>3, <2>5, <2>6, <2>7
  <1>18. CASE (AddEvent(c) /\ Doing(c, m, "index")) \/ (StoreSnapshot(c) /\ Doing(c, m, "snap"))
    <2>1. /\ at[c] \in {"index", "snap"} /\ at'[c] \in {"snap", "publish"}
          /\ UNCHANGED <<mapping, groups, inv, score>>
      BY <1>18 DEF AddEvent, StoreSnapshot, Doing
    <2>2. FoundersMapped' /\ Whole'
      BY <1>5, <1>6, <2>1 DEF FoundersMapped, Whole
    <2>3. \A k \in Key : mapping'[k] # NoId => groups'[mapping'[k]] # NoGroup
      BY <1>9, <2>1
    <2>4. QED
      BY <1>10, <1>11, <2>1, <2>2, <2>3
  <1>19. QED
    BY <1>1, <1>12, <1>13, <1>14, <1>15, <1>16, <1>17, <1>18

\* Every step leaves the invariant of calm.
LEMMA NextCalm ==
    ASSUME CTypeOK, IInv, CIInv, CalmInv, [CNext]_cvars
    PROVE  CalmInv'
  <1> SUFFICES ASSUME Calm' PROVE CalmInv'
    BY DEF CalmInv
  <1>0. /\ Calm /\ ~MappingExpires
        /\ \A c \in Consumer : ~CommandFails(c) /\ ~CHalt(c)
    BY CalmBefore
  <1>1. AloneAtWork /\ FoundersMapped /\ MappedFounded /\ Whole /\ \A c \in Consumer : CalmWork(c)
    BY <1>0 DEF CalmInv
  \* The stage's own data stays, and so do the batches of handlers at work.
  <1>2. ASSUME UNCHANGED <<redis_vars, correlated, handler_vars>>,
               \A d \in Consumer : at[d] # "idle" =>
                  batch'[d] = batch[d] /\ returned'[d] = returned[d]
        PROVE  CalmInv'
    <2>1. AloneAtWork' /\ FoundersMapped' /\ MappedFounded' /\ Whole'
      BY <1>1, <1>2 DEF AloneAtWork, FoundersMapped, MappedFounded, Whole, redis_vars, handler_vars
    <2>2. ASSUME NEW d \in Consumer
          PROVE  CalmWork(d)'
      <3>1. CASE at[d] = "idle"
        BY <1>2, <3>1 DEF CalmWork, handler_vars
      <3>2. CASE at[d] # "idle"
        BY <1>1, <1>2, <3>2 DEF CalmWork, Handling, IsHead, redis_vars, handler_vars
      <3>3. QED
        BY <3>1, <3>2
    <2>3. QED
      BY <2>1, <2>2 DEF CalmInv
  <1>3. CASE UNCHANGED cvars
    BY <1>2, <1>3 DEF cvars, vars
  <1>4. CASE LoopOnly
    <2>1. ASSUME NEW d \in Consumer, at[d] # "idle"
          PROVE  batch'[d] = batch[d] /\ returned'[d] = returned[d]
      <3>1. PICK m \in batch[d] : Handling(d, m)
        BY <2>1 DEF CIInv, OnTrack
      <3>2. QED
        BY <1>4, <3>1, HandlerKeepsBatch DEF Handling, LoopOnly, CTypeOK
    <2>2. QED
      BY <1>2, <1>4, <2>1 DEF LoopOnly
  <1>5. ASSUME NEW c \in Consumer, Insignificant(c)
        PROVE  CalmInv'
    <2>1. /\ at[c] = "idle" /\ HandlerOk(c)
          /\ UNCHANGED <<redis_vars, correlated, handler_vars>>
      BY <1>5 DEF Insignificant, Doing
    <2>2. batch' = batch /\ returned' = [returned EXCEPT ![c] = TRUE]
      BY <2>1 DEF HandlerOk
    <2>3. QED
      BY <1>2, <2>1, <2>2 DEF CTypeOK, TypeOK
  <1>6. ASSUME NEW c \in Consumer, PublishCorrelated(c)
        PROVE  CalmInv'
    <2>1. PICK m \in batch[c] :
            /\ at[c] = "publish" /\ Handling(c, m)
            /\ correlated' = correlated \cup {Message(c, m)}
            /\ LeaveHandler(c)
            /\ UNCHANGED redis_vars
      BY <1>6 DEF PublishCorrelated, Doing
    <2>2. at'[c] = "idle" /\ \A d \in Consumer \ {c} : at[d] = "idle" /\ at'[d] = "idle"
      <3>1. at'[c] = "idle" /\ \A d \in Consumer \ {c} : at'[d] = at[d]
        BY <2>1, LeaveTypes DEF CTypeOK
      <3>2. \A d \in Consumer \ {c} : at[d] = "idle"
        BY <1>1, <2>1 DEF AloneAtWork
      <3>3. QED
        BY <3>1, <3>2
    <2>3. AloneAtWork' /\ \A d \in Consumer : CalmWork(d)'
      BY <2>2 DEF AloneAtWork, CalmWork
    <2>4. FoundersMapped' /\ MappedFounded'
      <3>1. UNCHANGED <<mapping, groups>>
        BY <2>1 DEF redis_vars
      <3>2. \A d \in Consumer : at[d] \notin {"map", "init"}
        BY <2>1, <2>2
      <3>3. QED
        BY <1>1, <3>1, <3>2 DEF FoundersMapped, MappedFounded
    <2>5. Whole'
      <3>1. m \in groups[inv[c]].merged /\ score[c] <= groups[inv[c]].score
        BY <1>1, <2>1 DEF CalmWork
      <3>2. Message(c, m).inv = inv[c] /\ Message(c, m).event = m /\ Message(c, m).score = score[c]
        BY DEF Message
      <3>3. QED
        BY <1>1, <2>1, <3>1, <3>2 DEF Whole, redis_vars
    <2>6. QED
      BY <2>3, <2>4, <2>5 DEF CalmInv
  <1>7. QED
    BY <1>0, <1>3, <1>4, <1>5, <1>6, CalmCommand DEF CNext, Command

\* What holds while handlers take turns, in every behaviour.
THEOREM CalmInvariance == CSpec => []CalmInv
  <1>1. CInit => CalmInv
    BY DEF CInit, CalmInv, AloneAtWork, FoundersMapped, MappedFounded, CalmWork, Whole
  <1>2. (CTypeOK /\ IInv /\ CIInv) /\ CalmInv /\ [CNext]_cvars => CalmInv'
    BY NextCalm
  <1>3. QED
    BY <1>1, <1>2, CInvariance, PTL DEF CSpec

\* While no two handlers have overlapped and nothing failed or expired, a group's metadata
\* holds what was published with it, although it is read and written back in two commands.
THEOREM CalmGroupsWhole == CSpec => []CalmGroupsAreWhole
  <1>1. CalmInv => CalmGroupsAreWhole
    BY DEF CalmInv, CalmGroupsAreWhole, Whole
  <1>2. QED
    BY <1>1, CalmInvariance, PTL

\* ... and no step takes an event out of the metadata of a group: what the comment of
\* _GROUP_TTL_SECONDS promises, until a key expires, a command fails or handlers overlap.
THEOREM CalmHistoryKept ==
    CSpec => [][Calm' => \A i \in Key : groups[i].merged \subseteq groups'[i].merged]_cvars
  <1>1. ASSUME CTypeOK, IInv, CIInv, CalmInv, [CNext]_cvars, Calm', NEW i \in Key
        PROVE  groups[i].merged \subseteq groups'[i].merged
    <2>1. Calm /\ ~MappingExpires /\ \A c \in Consumer : ~CommandFails(c) /\ ~CHalt(c)
      BY <1>1, CalmBefore
    <2>2. CASE groups' = groups
      BY <2>2
    <2>3. ASSUME NEW c \in Consumer, InitGroup(c)
          PROVE  groups[i].merged \subseteq groups'[i].merged
      <3>1. PICK m \in batch[c] : Doing(c, m, "init")
        BY <2>3 DEF InitGroup
      <3>2. groups[inv[c]] = NoGroup
        BY <1>1, <2>1, <3>1 DEF CalmInv, CalmWork, Doing
      <3>3. groups' = [groups EXCEPT ![inv[c]] = EmptyGroup]
        BY <2>3 DEF InitGroup
      <3>4. groups[i].merged = {} \/ groups'[i] = groups[i]
        BY <1>1, <3>2, <3>3 DEF CTypeOK, RedisTypeOK, NoGroup
      <3>5. QED
        BY <3>4
    <2>4. ASSUME NEW c \in Consumer, WriteGroup(c)
          PROVE  groups[i].merged \subseteq groups'[i].merged
      <3>1. PICK m \in batch[c] :
              /\ Doing(c, m, "write")
              /\ groups' = [groups EXCEPT ![inv[c]] = MergeInto(copy[c], m, score[c])]
        BY <2>4 DEF WriteGroup
      <3>2. copy[c] = groups[inv[c]]
        BY <1>1, <2>1, <3>1 DEF CalmInv, CalmWork, Doing
      <3>3. MergeInto(copy[c], m, score[c]).merged = copy[c].merged \cup {m}
        BY DEF MergeInto
      <3>4. \/ groups'[i] = groups[i]
            \/ i = inv[c] /\ groups'[i] = MergeInto(copy[c], m, score[c])
        BY <1>1, <3>1 DEF CTypeOK, RedisTypeOK
      <3>5. QED
        BY <3>2, <3>3, <3>4
    <2>5. QED
      <3>1. CASE UNCHANGED cvars
        BY <2>2, <3>1 DEF cvars, redis_vars
      <3>2. CASE CNext
        BY <2>1, <2>2, <2>3, <2>4, <3>2 DEF CNext, LoopOnly, Match, Insignificant, Resolve,
           WriteMapping, ReadGroup, AddEvent, StoreSnapshot, PublishCorrelated, redis_vars
      <3>3. QED
        BY <1>1, <3>1, <3>2
  <1>2. (CTypeOK /\ IInv /\ CIInv) /\ CalmInv /\ [CNext]_cvars
        => [Calm' => \A i \in Key : groups[i].merged \subseteq groups'[i].merged]_cvars
    BY <1>1
  <1>3. QED
    BY <1>2, CInvariance, CalmInvariance, PTL DEF CSpec

\* Forgetting Redis' groups and the handlers' commands, the correlation stage promises
\* at-least-once handling: no step of handle() acknowledges, drops or skips an entry.
THEOREM CorrelationRefines == CSpec => ImplementsAtLeastOnce
  <1>1. CInit => Init
    BY DEF CInit
  <1>2. CSpec => Spec
    BY <1>1, StepOfStream, PTL DEF CSpec, Spec
  <1>3. QED
    BY <1>2, Refinement
===============================================================================
