---------------------- MODULE PendingMessagesQueueProofs ----------------------
(***************************************************************************)
(* Theorems about PendingMessagesQueue, for any messages, callers, shards  *)
(* and times.                                                              *)
(***************************************************************************)
EXTENDS PendingMessagesQueue, TLAPS, FiniteSetTheorems, WellFoundedInduction

LessThan == {p \in Nat \X Nat : p[1] < p[2]}

\* A set of naturals that is not empty has a least element, and Least names it.
LEMMA LeastProperty ==
  ASSUME NEW S \in SUBSET Nat, S # {}
  PROVE  Least(S) \in S /\ \A y \in S : Least(S) <= y
<1>1. OpToRel(<, Nat) = LessThan
  BY Zenon DEF OpToRel, LessThan
<1>2. PICK x \in S : \A y \in S : ~(<<y, x>> \in LessThan)
  BY <1>1, NatLessThanWellFounded, WFMin
<1>3. ASSUME NEW y \in S PROVE x <= y
  <2>1. x \in Nat /\ y \in Nat
    OBVIOUS
  <2>2. ~(y < x)
    BY <1>2, <2>1 DEF LessThan
  <2> QED
    BY <2>1, <2>2
<1> QED
  BY <1>3 DEF Least

\* The scans of the map in deliver_message and update compute a bound of the
\* deadlines they look at, and u32::MAX or one of these deadlines.
LEMMA LeastExpiryProperty ==
  ASSUME expireAt \in [Messages -> Time], NEW S \in SUBSET Messages
  PROVE  /\ LeastExpiry(S) \in 0 .. U32Max
         /\ \A m \in S : LeastExpiry(S) <= expireAt[m]
         /\ LeastExpiry(S) = U32Max \/ \E m \in S : LeastExpiry(S) = expireAt[m]
<1> DEFINE D == {expireAt[m] : m \in S} \cup {U32Max}
<1>1. D \in SUBSET (0 .. U32Max) /\ D \in SUBSET Nat /\ D # {}
  BY QueueAssumption DEF Time
<1>2. Least(D) \in D /\ \A y \in D : Least(D) <= y
  BY <1>1, LeastProperty
<1>3. LeastExpiry(S) = Least(D)
  BY DEF LeastExpiry
<1> QED
  BY <1>1, <1>2, <1>3

-----------------------------------------------------------------------------

\* The inductive invariant.  entryCount stays a natural because it counts the
\* entries; NoneOverdue rests on MinIsLeast.
IInv == TypeOK /\ MinIsLeast /\ CountIsSize /\ WaiterHasEntry /\ NoneOverdue

LEMMA InitIInv == Init => IInv
<1> SUFFICES ASSUME Init PROVE IInv
  OBVIOUS
<1>1. TypeOK
  BY QueueAssumption DEF Init, TypeOK, Time, Statuses
<1>2. CountIsSize
  BY FS_EmptySet DEF Init, CountIsSize
<1> QED
  BY <1>1, <1>2 DEF Init, IInv, MinIsLeast, WaiterHasEntry, NoneOverdue

\* Every set of entries is finite.
LEMMA EntriesFinite ==
  ASSUME NEW S \in SUBSET Messages
  PROVE  IsFiniteSet(S) /\ Cardinality(S) \in Nat
BY QueueAssumption, FS_Subset, FS_CardinalityType

LEMMA AddMessageIInv ==
  ASSUME IInv, NEW c \in Callers, NEW m \in Messages, NEW x \in Time,
         AddMessage(c, m, x)
  PROVE  IInv'
<1>1. CASE m \in entries
  <2> USE <1>1 DEF AddMessage, Refused, IInv
  <2>1. TypeOK'
    BY DEF TypeOK, Statuses
  <2>2. MinIsLeast' /\ CountIsSize' /\ NoneOverdue'
    BY DEF MinIsLeast, CountIsSize, NoneOverdue
  <2>3. WaiterHasEntry'
    BY DEF WaiterHasEntry, TypeOK
  <2> QED
    BY <2>1, <2>2, <2>3
<1>2. CASE m \notin entries
  <2> USE <1>2 DEF AddMessage, Refused, IInv
  <2>1. TypeOK'
    BY QueueAssumption DEF TypeOK, Statuses, MinAfterAdd, Lower, Time
  <2>2. MinIsLeast'
    BY QueueAssumption DEF MinIsLeast, TypeOK, MinAfterAdd, Lower, Time
  <2>3. CountIsSize'
    <3>1. Cardinality(entries \cup {m}) = Cardinality(entries) + 1
      BY EntriesFinite, FS_AddElement DEF TypeOK
    <3> QED
      BY <3>1 DEF CountIsSize
  <2>4. WaiterHasEntry'
    BY QueueAssumption DEF WaiterHasEntry, TypeOK
  <2>5. NoneOverdue'
    BY QueueAssumption DEF NoneOverdue, TypeOK, Time
  <2> QED
    BY <2>1, <2>2, <2>3, <2>4, <2>5
<1> QED
  BY <1>1, <1>2

LEMMA CancelWaitIInv ==
  ASSUME IInv, NEW c \in Callers, CancelWait(c)
  PROVE  IInv'
<1> USE DEF CancelWait, IInv
<1>1. TypeOK'
  BY DEF TypeOK, Statuses
<1>2. MinIsLeast' /\ CountIsSize' /\ NoneOverdue'
  BY DEF MinIsLeast, CountIsSize, NoneOverdue
<1>3. WaiterHasEntry'
  BY QueueAssumption DEF WaiterHasEntry, TypeOK
<1> QED
  BY <1>1, <1>2, <1>3

LEMMA BlockArrivesIInv ==
  ASSUME IInv, NEW s \in Shards, NEW u \in Time, BlockArrives(s, u)
  PROVE  IInv'
<1> USE DEF BlockArrives, IInv
<1>1. TypeOK'
  BY DEF TypeOK
<1>2. MinIsLeast' /\ CountIsSize' /\ WaiterHasEntry'
  BY DEF MinIsLeast, CountIsSize, WaiterHasEntry
<1>3. NoneOverdue'
  BY QueueAssumption DEF NoneOverdue, TypeOK
<1> QED
  BY <1>1, <1>2, <1>3

LEMMA DeliverMessageIInv ==
  ASSUME IInv, NEW s \in Shards, NEW m \in Messages, DeliverMessage(s, m)
  PROVE  IInv'
<1> USE DEF DeliverMessage, Drop, Tell, Answered, IInv
<1>1. /\ MinAfterDelivery(m) \in 0 .. U32Max
      /\ \A n \in entries \ {m} : MinAfterDelivery(m) <= expireAt[n]
      /\ \/ MinAfterDelivery(m) = U32Max
         \/ \E n \in entries \ {m} : MinAfterDelivery(m) = expireAt[n]
  <2>1. CASE minExpireAt # expireAt[m]
    BY <2>1 DEF MinAfterDelivery, MinIsLeast, TypeOK
  <2>2. CASE minExpireAt = expireAt[m]
    BY <2>2, LeastExpiryProperty DEF MinAfterDelivery, TypeOK
  <2> QED
    BY <2>1, <2>2
<1>2. Cardinality(entries \ {m}) = Cardinality(entries) - 1
  BY EntriesFinite, FS_RemoveElement DEF TypeOK
<1>3. CountIsSize'
  BY <1>2 DEF CountIsSize
<1>4. TypeOK'
  <2>1. entryCount' \in Nat
    BY <1>3, EntriesFinite DEF CountIsSize, TypeOK
  <2> QED
    BY <1>1, <2>1, QueueAssumption DEF TypeOK, Statuses, Time
<1>5. MinIsLeast'
  BY <1>1 DEF MinIsLeast, TypeOK
<1>6. WaiterHasEntry'
  BY QueueAssumption DEF WaiterHasEntry, TypeOK
<1>7. NoneOverdue'
  BY DEF NoneOverdue, TypeOK
<1> QED
  BY <1>3, <1>4, <1>5, <1>6, <1>7

LEMMA UpdateCheckIInv ==
  ASSUME IInv, NEW s \in Shards, UpdateCheck(s)
  PROVE  IInv'
<1> USE DEF UpdateCheck, IInv
<1>1. TypeOK'
  BY DEF TypeOK
<1>2. MinIsLeast' /\ CountIsSize' /\ WaiterHasEntry'
  BY DEF MinIsLeast, CountIsSize, WaiterHasEntry
<1>3. NoneOverdue'
  BY QueueAssumption DEF NoneOverdue, MinIsLeast, TypeOK, Time
<1> QED
  BY <1>1, <1>2, <1>3

LEMMA UpdateSweepIInv ==
  ASSUME IInv, NEW s \in Shards, UpdateSweep(s)
  PROVE  IInv'
<1> USE DEF UpdateSweep, Drop, Tell, Answered, IInv
<1>1. Lapsed(s) \subseteq entries /\ entries \ Lapsed(s) \in SUBSET Messages
  BY DEF Lapsed, TypeOK
<1>2. TypeOK'
  BY <1>1, LeastExpiryProperty, EntriesFinite, QueueAssumption DEF TypeOK, Statuses, Time
<1>3. MinIsLeast'
  BY <1>1, LeastExpiryProperty DEF MinIsLeast, TypeOK
<1>4. CountIsSize'
  BY DEF CountIsSize
<1>5. WaiterHasEntry'
  BY <1>1, QueueAssumption DEF WaiterHasEntry, TypeOK
<1>6. NoneOverdue'
  BY QueueAssumption DEF NoneOverdue, Lapsed, TypeOK, Time
<1> QED
  BY <1>2, <1>3, <1>4, <1>5, <1>6

LEMMA StepIInv == IInv /\ [Next]_vars => IInv'
<1> SUFFICES ASSUME IInv, [Next]_vars PROVE IInv'
  OBVIOUS
<1>1. ASSUME NEW c \in Callers, NEW m \in Messages, NEW x \in Time, AddMessage(c, m, x)
      PROVE  IInv'
  BY <1>1, AddMessageIInv
<1>2. ASSUME NEW c \in Callers, CancelWait(c) PROVE IInv'
  BY <1>2, CancelWaitIInv
<1>3. ASSUME NEW s \in Shards, NEW u \in Time, BlockArrives(s, u) PROVE IInv'
  BY <1>3, BlockArrivesIInv
<1>4. ASSUME NEW s \in Shards, NEW m \in Messages, DeliverMessage(s, m) PROVE IInv'
  BY <1>4, DeliverMessageIInv
<1>5. ASSUME NEW s \in Shards, UpdateCheck(s) PROVE IInv'
  BY <1>5, UpdateCheckIInv
<1>6. ASSUME NEW s \in Shards, UpdateSweep(s) PROVE IInv'
  BY <1>6, UpdateSweepIInv
<1>7. CASE UNCHANGED vars
  BY <1>7 DEF vars, IInv, TypeOK, MinIsLeast, CountIsSize, WaiterHasEntry, NoneOverdue
<1> QED
  BY <1>1, <1>2, <1>3, <1>4, <1>5, <1>6, <1>7 DEF Next

LEMMA Invariance == Spec => []IInv
BY InitIInv, StepIInv, PTL DEF Spec

\* Every variable of the queue keeps its type; in particular entry_count never
\* wraps below zero.
THEOREM TypeCorrect == Spec => []TypeOK
<1>1. IInv => TypeOK
  BY DEF IInv
<1> QED
  BY <1>1, Invariance, PTL

\* min_expire_at is the least expire_at of the entries.
THEOREM MinCorrect == Spec => []MinIsLeast
<1>1. IInv => MinIsLeast
  BY DEF IInv
<1> QED
  BY <1>1, Invariance, PTL

\* entry_count is the number of entries.
THEOREM CountCorrect == Spec => []CountIsSize
<1>1. IInv => CountIsSize
  BY DEF IInv
<1> QED
  BY <1>1, Invariance, PTL

\* Who waits has exactly one entry that will answer it.
THEOREM NoWaiterLost == Spec => []WaiterHasEntry
<1>1. IInv => WaiterHasEntry
  BY DEF IInv
<1> QED
  BY <1>1, Invariance, PTL

\* No expired message outlives the handling of a block of its shard.
THEOREM SweepIsComplete == Spec => []NoneOverdue
<1>1. IInv => NoneOverdue
  BY DEF IInv
<1> QED
  BY <1>1, Invariance, PTL
-----------------------------------------------------------------------------
(* The queue implements MessageStatus.  A sweep maps to Expire, an addition  *)
(* to Submit or Refuse; the check of min_expire_at, and the delivery or      *)
(* expiry of a message whose caller is gone, change nothing that a caller    *)
(* sees.                                                                     *)

\* What a caller waits for, when the entry m is its own.
LEMMA SentOfHolder ==
  ASSUME IInv, NEW c \in Callers, NEW m \in entries, rx[m] = c
  PROVE  SentOf(c) = {[msg |-> m, expire |-> expireAt[m]]}
<1>1. \A n \in entries : rx[n] = c <=> n = m
  BY QueueAssumption DEF IInv, WaiterHasEntry
<1> QED
  BY <1>1 DEF SentOf

\* Its message is due when its shard is past the deadline of its entry.
LEMMA DueOfHolder ==
  ASSUME IInv, NEW c \in Callers, NEW m \in entries, rx[m] = c
  PROVE  Promise!Due(c) <=> utime[ShardOf[m]] > expireAt[m]
<1> DEFINE r == [msg |-> m, expire |-> expireAt[m]]
<1>1. [d \in Callers |-> SentOf(d)][c] = {r}
  BY SentOfHolder
<1>2. r.msg = m /\ r.expire = expireAt[m]
  OBVIOUS
<1> HIDE DEF r
<1> QED
  BY <1>1, <1>2 DEF Promise!Due

\* Who does not wait has sent nothing.
LEMMA SentOfIdle ==
  ASSUME IInv, NEW c \in Callers
  PROVE  status[c] # "waiting" <=> SentOf(c) = {}
<1>1. SentOf(c) = {} <=> ~\E m \in entries : rx[m] = c
  BY DEF SentOf
<1> QED
  BY <1>1 DEF IInv, WaiterHasEntry

LEMMA AddMessageMaps ==
  ASSUME IInv, IInv', NEW c \in Callers, NEW m \in Messages, NEW x \in Time,
         AddMessage(c, m, x)
  PROVE  Promise!Submit(c) \/ Promise!Refuse(c)
<1>1. SentOf(c) = {}
  BY SentOfIdle DEF AddMessage
<1>2. CASE m \in entries
  <2>1. \A d \in Callers : SentOf(d)' = SentOf(d)
    BY <1>2 DEF AddMessage, Refused, SentOf
  <2>2. \A d \in Callers : AnswerOf(d)' = IF d = c THEN "AlreadyExists" ELSE AnswerOf(d)
    BY <1>2 DEF AddMessage, Refused, AnswerOf, IInv, TypeOK
  <2>3. utime' = utime
    BY DEF AddMessage
  <2> QED
    BY <1>1, <2>1, <2>2, <2>3 DEF Promise!Refuse
<1>3. CASE m \notin entries
  <2>1. m \in entries' /\ rx'[m] = c /\ expireAt'[m] = x
    BY <1>3 DEF AddMessage, Refused, IInv, TypeOK
  <2>2. SentOf(c)' = {[msg |-> m, expire |-> x]}
    <3>1. \A n \in entries' : rx'[n] = c <=> n = m
      BY <2>1, QueueAssumption DEF IInv, WaiterHasEntry
    <3> QED
      BY <2>1, <3>1 DEF SentOf
  <2>3. ASSUME NEW d \in Callers, d # c PROVE SentOf(d)' = SentOf(d)
    <3>1. \A n \in Messages :
            (n \in entries' /\ rx'[n] = d) <=> (n \in entries /\ rx[n] = d)
      BY <1>3, <2>3 DEF AddMessage, Refused, IInv, TypeOK
    <3>2. \A n \in entries : expireAt'[n] = expireAt[n]
      BY <1>3 DEF AddMessage, Refused, IInv, TypeOK
    <3>3. entries \subseteq Messages /\ entries' \subseteq Messages
      BY DEF IInv, TypeOK
    <3> QED
      BY <3>1, <3>2, <3>3 DEF SentOf
  <2>4. \A d \in Callers : AnswerOf(d)' = IF d = c THEN "none" ELSE AnswerOf(d)
    BY <1>3 DEF AddMessage, Refused, AnswerOf, IInv, TypeOK
  <2>5. utime' = utime /\ utime[ShardOf[m]] <= x
    BY DEF AddMessage
  <2> QED
    BY <1>1, <2>2, <2>3, <2>4, <2>5 DEF Promise!Submit
<1> QED
  BY <1>2, <1>3

LEMMA CancelWaitMaps ==
  ASSUME IInv, NEW c \in Callers, CancelWait(c)
  PROVE  Promise!Cancel(c)
<1>1. SentOf(c) # {}
  BY SentOfIdle DEF CancelWait
<1>2. SentOf(c)' = {}
  <2>1. \A n \in entries' : rx'[n] # c
    BY QueueAssumption DEF CancelWait, IInv, TypeOK
  <2> QED
    BY <2>1 DEF SentOf
<1>3. ASSUME NEW d \in Callers, d # c PROVE SentOf(d)' = SentOf(d)
  <2>1. \A n \in entries : rx'[n] = d <=> rx[n] = d
    BY <1>3, QueueAssumption DEF CancelWait, IInv, TypeOK
  <2> QED
    BY <2>1 DEF CancelWait, SentOf
<1>4. \A d \in Callers : AnswerOf(d)' = AnswerOf(d)
  BY DEF CancelWait, AnswerOf, IInv, TypeOK
<1> QED
  BY <1>1, <1>2, <1>3, <1>4 DEF CancelWait, Promise!Cancel

LEMMA BlockArrivesMaps ==
  ASSUME IInv, NEW s \in Shards, NEW u \in Time, BlockArrives(s, u)
  PROVE  Promise!NewBlock(s)
<1>1. \A c \in Callers : SentOf(c)' = SentOf(c) /\ AnswerOf(c)' = AnswerOf(c)
  BY DEF BlockArrives, SentOf, AnswerOf
<1>2. u > utime[s]
  BY DEF BlockArrives, IInv, TypeOK, Time
<1> QED
  BY <1>1, <1>2 DEF BlockArrives, Promise!NewBlock

\* Entries that leave the map leave alone what other callers wait for.
LEMMA DropMaps ==
  ASSUME IInv, NEW S \in SUBSET entries, Drop(S), NEW c \in Callers
  PROVE  SentOf(c)' = IF c \in Answered(S) THEN {} ELSE SentOf(c)
<1>1. entries' = entries \ S /\ entries \subseteq Messages
  BY DEF Drop, IInv, TypeOK
<1>2. \A n \in entries' : rx'[n] = rx[n] /\ expireAt'[n] = expireAt[n]
  BY <1>1 DEF Drop
<1>3. CASE c \in Answered(S)
  <2>1. \A n \in entries' : rx'[n] # c
    BY <1>1, <1>2, <1>3, QueueAssumption DEF Answered, IInv, WaiterHasEntry
  <2> QED
    BY <1>3, <2>1 DEF SentOf
<1>4. CASE c \notin Answered(S)
  <2>1. \A n \in Messages : (n \in entries' /\ rx'[n] = c) <=> (n \in entries /\ rx[n] = c)
    BY <1>1, <1>2, <1>4 DEF Answered
  <2> QED
    BY <1>1, <1>2, <1>4, <2>1 DEF SentOf
<1> QED
  BY <1>3, <1>4

\* Callers told something are answered, and no one else.
LEMMA TellMaps ==
  ASSUME IInv, NEW S \in SUBSET entries, NEW what \in {"Delivered", "Expired"},
         Tell(S, what), NEW c \in Callers
  PROVE  AnswerOf(c)' = IF c \in Answered(S) THEN what ELSE AnswerOf(c)
BY DEF Tell, AnswerOf

LEMMA DeliverMessageMaps ==
  ASSUME IInv, NEW s \in Shards, NEW m \in Messages, DeliverMessage(s, m)
  PROVE  (\E c \in Callers : Promise!Deliver(c)) \/ UNCHANGED Promise!absVars
<1>1. /\ m \in entries /\ utime[ShardOf[m]] <= expireAt[m] /\ utime' = utime
      /\ Drop({m}) /\ Tell({m}, "Delivered")
  BY DEF DeliverMessage
<1>2. \A c \in Callers : c \in Answered({m}) <=> rx[m] = c
  BY DEF Answered
<1>3. \A c \in Callers : /\ SentOf(c)' = IF rx[m] = c THEN {} ELSE SentOf(c)
                         /\ AnswerOf(c)' = IF rx[m] = c THEN "Delivered" ELSE AnswerOf(c)
  BY <1>1, <1>2, DropMaps, TellMaps
<1>4. CASE rx[m] \in Callers
  <2>1. SentOf(rx[m]) = {[msg |-> m, expire |-> expireAt[m]]}
    BY <1>1, <1>4, SentOfHolder
  <2>2. ~Promise!Due(rx[m])
    <3>1. ~(utime[ShardOf[m]] > expireAt[m])
      BY <1>1, QueueAssumption DEF IInv, TypeOK, Time
    <3> QED
      BY <1>1, <1>4, <3>1, DueOfHolder
  <2>3. Promise!Deliver(rx[m])
    BY <1>1, <1>3, <1>4, <2>1, <2>2 DEF Promise!Deliver
  <2> QED
    BY <1>4, <2>3
<1>5. CASE rx[m] \notin Callers
  BY <1>1, <1>3, <1>5 DEF Promise!absVars
<1> QED
  BY <1>4, <1>5

LEMMA UpdateSweepMaps ==
  ASSUME IInv, NEW s \in Shards, UpdateSweep(s)
  PROVE  \E C \in SUBSET Callers : Promise!Expire(C)
<1> DEFINE C == Answered(Lapsed(s))
<1>1. /\ Lapsed(s) \in SUBSET entries /\ C \in SUBSET Callers /\ utime' = utime
      /\ Drop(Lapsed(s)) /\ Tell(Lapsed(s), "Expired")
  BY DEF UpdateSweep, Lapsed, Answered
<1>2. \A c \in Callers : /\ SentOf(c)' = IF c \in C THEN {} ELSE SentOf(c)
                         /\ AnswerOf(c)' = IF c \in C THEN "Expired" ELSE AnswerOf(c)
  BY <1>1, DropMaps, TellMaps
<1>3. ASSUME NEW c \in C PROVE Promise!Due(c)
  <2>1. PICK m \in Lapsed(s) : rx[m] = c
    BY DEF Answered
  <2>2. utime[ShardOf[m]] > expireAt[m]
    BY <2>1 DEF Lapsed
  <2> QED
    BY <1>1, <2>1, <2>2, DueOfHolder
<1>4. Promise!Expire(C)
  BY <1>1, <1>2, <1>3 DEF Promise!Expire
<1> QED
  BY <1>1, <1>4

\* The queue keeps the promise: a caller is answered once, is told Delivered
\* only while the chain takes its message, and Expired only when it does not.
THEOREM Refinement == Spec => PromiseSpec
<1>1. Init => Promise!AbsInit
  BY DEF Init, Promise!AbsInit, SentOf, AnswerOf
<1>2. IInv /\ IInv' /\ [Next]_vars => [Promise!AbsNext]_Promise!absVars
  <2> SUFFICES ASSUME IInv, IInv', [Next]_vars
               PROVE  Promise!AbsNext \/ UNCHANGED Promise!absVars
    OBVIOUS
  <2>1. ASSUME NEW c \in Callers, NEW m \in Messages, NEW x \in Time, AddMessage(c, m, x)
        PROVE  Promise!AbsNext
    BY <2>1, AddMessageMaps DEF Promise!AbsNext
  <2>2. ASSUME NEW c \in Callers, CancelWait(c) PROVE Promise!AbsNext
    BY <2>2, CancelWaitMaps DEF Promise!AbsNext
  <2>3. ASSUME NEW s \in Shards, NEW u \in Time, BlockArrives(s, u) PROVE Promise!AbsNext
    BY <2>3, BlockArrivesMaps DEF Promise!AbsNext
  <2>4. ASSUME NEW s \in Shards, NEW m \in Messages, DeliverMessage(s, m)
        PROVE  Promise!AbsNext \/ UNCHANGED Promise!absVars
    BY <2>4, DeliverMessageMaps DEF Promise!AbsNext
  <2>5. ASSUME NEW s \in Shards, UpdateCheck(s) PROVE UNCHANGED Promise!absVars
    BY <2>5 DEF UpdateCheck, Promise!absVars, SentOf, AnswerOf
  <2>6. ASSUME NEW s \in Shards, UpdateSweep(s) PROVE Promise!AbsNext
    BY <2>6, UpdateSweepMaps DEF Promise!AbsNext
  <2>7. CASE UNCHANGED vars
    BY <2>7 DEF vars, Promise!absVars, SentOf, AnswerOf
  <2> QED
    BY <2>1, <2>2, <2>3, <2>4, <2>5, <2>6, <2>7 DEF Next
<1> QED
  BY <1>1, <1>2, Invariance, PTL DEF Spec, PromiseSpec, Promise!AbsSpec
===============================================================================
