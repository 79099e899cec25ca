------------------------- MODULE PendingMessagesQueue -------------------------
(***************************************************************************)
(* src/src/utils/pending_messages_queue.rs, with its callers:              *)
(* send_ton_message (engine/mod.rs) adds a message and waits for its       *)
(* status; handle_shard_block (engine/ton_subscriber/mod.rs) delivers the  *)
(* messages found in a block and then calls `update` with its time.        *)
(* Every operation runs under the lock of `entries`, except the first read *)
(* of min_expire_at in `update`, which is a step of its own.               *)
(***************************************************************************)
EXTENDS Naturals, FiniteSets

CONSTANTS
  Messages,  \* message ids: account and hash
  Callers,   \* callers of send_ton_message
  Nobody,    \* the receiver of a message whose caller is gone
  Shards,    \* shards, whose blocks are handled concurrently
  ShardOf,   \* ShardOf[m]: the shard that contains the account of m
  U32Max,    \* u32::MAX, the value of min_expire_at for no entries
  MaxTime    \* bound: time of the last block

ASSUME QueueAssumption ==
  /\ Nobody \notin Callers
  /\ IsFiniteSet(Messages)
  /\ ShardOf \in [Messages -> Shards]
  /\ MaxTime \in Nat /\ U32Max \in Nat /\ MaxTime <= U32Max

VARIABLES
  entries,      \* ids in the map
  expireAt,     \* expireAt[m]: PendingMessage::expire_at of an entry (else 0)
  rx,           \* rx[m]: the caller that holds the other end of the entry's tx
  minExpireAt,  \* min_expire_at
  entryCount,   \* entry_count
  status,       \* status[c]: whether c waits, and what it was told
  utime,        \* utime[s]: gen_utime of the last block of s
  pc            \* pc[s]: where the handler of a block of s is

vars == <<entries, expireAt, rx, minExpireAt, entryCount, status, utime, pc>>

Statuses == {"none", "waiting", "Delivered", "Expired", "AlreadyExists"}
Time == 0 .. MaxTime

-----------------------------------------------------------------------------

Least(S) == CHOOSE x \in S : \A y \in S : x <= y

\* The least expire_at of the entries in S, or u32::MAX (mutant: the
\* entries that stay are not scanned).
LeastExpiry_Reset(S) == U32Max
LeastExpiry(S) == Least({expireAt[m] : m \in S} \cup {U32Max})

Lower(x, y) == IF x < y THEN x ELSE y

\* fetch_min on an insertion (mutant: min_expire_at is left alone).
MinAfterAdd_Stale(x) == minExpireAt
MinAfterAdd(x) == Lower(minExpireAt, x)

\* Callers that receive an answer when the entries in S are dropped.
Answered(S) == {c \in Callers : \E m \in S : rx[m] = c}
Tell(S, what) == status' = [c \in Callers |-> IF c \in Answered(S) THEN what ELSE status[c]]

\* Entries leave the map.
Drop(S) ==
  /\ entries' = entries \ S
  /\ expireAt' = [m \in Messages |-> IF m \in S THEN 0 ELSE expireAt[m]]
  /\ rx' = [m \in Messages |-> IF m \in S THEN Nobody ELSE rx[m]]

\* An id that is in the map is refused (mutant: its entry is replaced).
Refused_Never(m) == FALSE
Refused(m) == m \in entries

\* add_message, called with the expire_at of a message just signed: a lifetime
\* past the current time, so not before the last block of the shard.
AddMessage(c, m, x) ==
  /\ status[c] # "waiting"
  /\ utime[ShardOf[m]] <= x /\ x < MaxTime
  /\ IF Refused(m)
     THEN /\ status' = [status EXCEPT ![c] = "AlreadyExists"]
          /\ UNCHANGED <<entries, expireAt, rx, minExpireAt, entryCount>>
     ELSE /\ entries' = entries \cup {m}
          /\ expireAt' = [expireAt EXCEPT ![m] = x]
          /\ rx' = [rx EXCEPT ![m] = c]
          /\ minExpireAt' = MinAfterAdd(x)
          /\ entryCount' = entryCount + 1
          /\ status' = [status EXCEPT ![c] = "waiting"]
  /\ UNCHANGED <<utime, pc>>

\* The future of a caller is dropped while it waits: the entry stays.
CancelWait(c) ==
  /\ status[c] = "waiting"
  /\ status' = [status EXCEPT ![c] = "none"]
  /\ rx' = [m \in Messages |-> IF rx[m] = c THEN Nobody ELSE rx[m]]
  /\ UNCHANGED <<entries, expireAt, minExpireAt, entryCount, utime, pc>>

\* handle_shard_block is called with the next block of s.
BlockArrives(s, u) ==
  /\ pc[s] = "idle" /\ utime[s] < u
  /\ utime' = [utime EXCEPT ![s] = u]
  /\ pc' = [pc EXCEPT ![s] = "deliver"]
  /\ UNCHANGED <<entries, expireAt, rx, minExpireAt, entryCount, status>>

\* min_expire_at after message m was removed.
MinAfterDelivery(m) ==
  IF minExpireAt # expireAt[m] THEN minExpireAt ELSE LeastExpiry(entries \ {m})

\* deliver_message, for an external message of the block.  The chain takes no
\* message past its expire_at.
DeliverMessage(s, m) ==
  /\ pc[s] = "deliver" /\ ShardOf[m] = s
  /\ m \in entries /\ utime[s] <= expireAt[m]
  /\ Drop({m})
  /\ entryCount' = entryCount - 1
  /\ Tell({m}, "Delivered")
  /\ minExpireAt' = MinAfterDelivery(m)
  /\ UNCHANGED <<utime, pc>>

\* update, before the lock is taken.
UpdateCheck(s) ==
  /\ pc[s] = "deliver"
  /\ pc' = [pc EXCEPT ![s] = IF utime[s] <= minExpireAt THEN "idle" ELSE "sweep"]
  /\ UNCHANGED <<entries, expireAt, rx, minExpireAt, entryCount, status, utime>>

\* Entries that `retain` drops (mutant: the shard is not compared).
Lapsed_AnyShard(s) == {m \in entries : utime[s] > expireAt[m]}
Lapsed(s) == {m \in entries : ShardOf[m] = s /\ utime[s] > expireAt[m]}

\* update, under the lock.
UpdateSweep(s) ==
  /\ pc[s] = "sweep"
  /\ Drop(Lapsed(s))
  /\ Tell(Lapsed(s), "Expired")
  /\ minExpireAt' = LeastExpiry(entries \ Lapsed(s))
  /\ entryCount' = Cardinality(entries \ Lapsed(s))
  /\ pc' = [pc EXCEPT ![s] = "idle"]
  /\ UNCHANGED utime

-----------------------------------------------------------------------------

Init ==
  /\ entries = {}
  /\ expireAt = [m \in Messages |-> 0]
  /\ rx = [m \in Messages |-> Nobody]
  /\ minExpireAt = U32Max
  /\ entryCount = 0
  /\ status = [c \in Callers |-> "none"]
  /\ utime = [s \in Shards |-> 0]
  /\ pc = [s \in Shards |-> "idle"]

Next ==
  \/ \E c \in Callers, m \in Messages, x \in Time : AddMessage(c, m, x)
  \/ \E c \in Callers : CancelWait(c)
  \/ \E s \in Shards, u \in Time : BlockArrives(s, u)
  \/ \E s \in Shards, m \in Messages : DeliverMessage(s, m)
  \/ \E s \in Shards : UpdateCheck(s) \/ UpdateSweep(s)

Spec == Init /\ [][Next]_vars

\* A shard keeps producing blocks and each is handled to its end.
Fairness ==
  \A s \in Shards :
    /\ WF_vars(\E u \in Time : BlockArrives(s, u))
    /\ WF_vars(UpdateCheck(s)) /\ WF_vars(UpdateSweep(s))

FairSpec == Spec /\ Fairness

-----------------------------------------------------------------------------

TypeOK ==
  /\ entries \subseteq Messages
  /\ expireAt \in [Messages -> Time]
  /\ rx \in [Messages -> Callers \cup {Nobody}]
  /\ minExpireAt \in 0 .. U32Max
  /\ entryCount \in Nat
  /\ status \in [Callers -> Statuses]
  /\ utime \in [Shards -> Time]
  /\ pc \in [Shards -> {"idle", "deliver", "sweep"}]

\* min_expire_at, which `update` trusts without the lock, is the least
\* expire_at of the entries at every step of every thread.
MinIsLeast ==
  /\ \A m \in entries : minExpireAt <= expireAt[m]
  /\ minExpireAt = U32Max \/ \E m \in entries : minExpireAt = expireAt[m]

\* entry_count, updated in three different ways, is the number of entries.
CountIsSize == entryCount = Cardinality(entries)

\* Who waits has an entry, and one only, that will answer it; no entry
\* answers a caller that does not wait.  A sender dropped without an answer
\* would end the caller's vote with an error.
WaiterHasEntry ==
  /\ \A c \in Callers : status[c] = "waiting" <=> \E m \in entries : rx[m] = c
  /\ \A m, n \in entries : rx[m] = rx[n] /\ rx[m] # Nobody => m = n
  /\ \A m \in Messages \ entries : rx[m] = Nobody

\* When the handling of a block is over, no message of its shard that the
\* chain can no longer accept is left: the read of min_expire_at without the
\* lock never lets an expired message through to a later block.
NoneOverdue ==
  \A m \in entries :
    pc[ShardOf[m]] = "idle" => utime[ShardOf[m]] <= expireAt[m]

\* Every caller that goes on waiting is answered.
EveryCallerIsAnswered ==
  \A c \in Callers : status[c] = "waiting" ~> status[c] # "waiting"

\* The queue implements what MessageStatus promises to a caller, who is told
\* Expired only when the message can not land any more, so that a retry never
\* lands beside it: sent[c] is the entry whose receiver c holds.
SentOf(c) == {[msg |-> m, expire |-> expireAt[m]] : m \in {n \in entries : rx[n] = c}}
AnswerOf(c) == IF status[c] = "waiting" THEN "none" ELSE status[c]

Promise == INSTANCE MessageStatus WITH
             clock <- utime,
             sent <- [c \in Callers |-> SentOf(c)],
             answer <- [c \in Callers |-> AnswerOf(c)]
PromiseSpec == Promise!AbsSpec
===============================================================================
