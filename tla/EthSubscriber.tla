----------------------------- MODULE EthSubscriber -----------------------------
(***************************************************************************)
(* src/src/engine/eth_subscriber/mod.rs: the verification of ETH->TON      *)
(* events against the logs of one EVM network.                             *)
(*                                                                         *)
(* A log is named by its EventId (transaction hash and log index).  Where  *)
(* it is on the chain is a place: a block number and a block hash; the     *)
(* vote data of an event claims a place.  Address, topic, index and data,  *)
(* which `check` compares as well, are part of what the hash stands for.   *)
(***************************************************************************)
EXTENDS Naturals, FiniteSets

CONSTANTS
  Logs,        \* EventIds
  NoLog,       \* the claim of a caller that made none
  Callers,     \* calls of verify
  Nobody,      \* owner of a log that is not in pending_confirmations
  Configs,     \* event configurations
  Address,     \* Address[k]: the emitter that configuration k subscribes to
  Topic,       \* Topic[k]: the event that configuration k subscribes to
  ConfigOf,    \* ConfigOf[l]: the configuration whose address and topic log l has
  Confirm,     \* event_blocks_to_confirm
  MaxRange,    \* max_block_range
  Finality,    \* environment: blocks this deep are never reorganised
  Ahead,       \* environment: a claim may name a block our node has yet to see
  MaxHead,     \* bound: height of the chain
  MaxReorgs,   \* bound: reorganisations
  MaxFailures  \* bound: requests that fail

ASSUME EthAssumption ==
  /\ NoLog \notin Logs /\ Nobody \notin Callers
  /\ Address \in [Configs -> Configs] /\ Topic \in [Configs -> Configs]
  /\ ConfigOf \in [Logs -> Configs]
  /\ {Confirm, MaxRange, Finality, MaxHead, MaxReorgs, MaxFailures} \subseteq Nat
  /\ MaxRange > 0 /\ Confirm >= Finality
  /\ Ahead \in BOOLEAN

VARIABLES
  (* the EVM network, as our node sees it *)
  head,      \* number of the last block
  epoch,     \* reorganisations so far; hashes of new blocks carry it
  at,        \* at[l]: the place of log l, or Absent
  (* the callers of verify *)
  claim,     \* claim[c]: the log and place of c's vote data
  answer,    \* answer[c]: what c was told, or that it waits
  (* the subscriber *)
  last,      \* last_processed_block
  owner,     \* pending_confirmations: whose confirmation of log l is pending
  verdict,   \* verdict[l]: PendingConfirmation::status
  entries,   \* TopicsMap::entries
  filter,    \* TopicsMap::unique_addresses and unique_topics
  (* its update loop *)
  pc,        \* "idle", "query", "apply", "check"
  to,        \* current_block of this round
  found,     \* found[l]: the place that process_blocks reported for l, if any
  checking,  \* events_to_check
  receipt,   \* receipt[l]: the place that find_event reported for l, if any
  (* bounds *)
  failures

chainVars == <<head, epoch, at>>
callVars == <<claim, answer>>
topicVars == <<entries, filter>>
pendingVars == <<owner, verdict>>
roundVars == <<pc, to, found, checking, receipt>>
vars == <<chainVars, callVars, last, pendingVars, topicVars, roundVars, failures>>

Place == [block : Nat, hash : Nat]
Absent == [block |-> 0, hash |-> 0]
Forged == MaxReorgs + 1      \* a hash that no block has

NoClaim == [log |-> NoLog, place |-> Absent]
The(S) == CHOOSE x \in S : TRUE
NoneOf(S) == [l \in Logs |-> S]

Pending == {l \in Logs : owner[l] # Nobody}
Target(l) == claim[owner[l]].place.block + Confirm

-----------------------------------------------------------------------------
(* The network                                                               *)

\* The next block: logs that were absent may be in it.
NewBlock ==
  /\ head < MaxHead
  /\ head' = head + 1
  /\ \E S \in SUBSET {l \in Logs : at[l] = Absent} :
       at' = [l \in Logs |-> IF l \in S THEN [block |-> head + 1, hash |-> epoch]
                                        ELSE at[l]]
  /\ UNCHANGED <<epoch, callVars, last, pendingVars, topicVars, roundVars, failures>>

\* The blocks from n on are replaced: their logs move, vanish or appear.
Reorg(n) ==
  /\ epoch < MaxReorgs
  /\ n <= head /\ n + Finality > head
  /\ epoch' = epoch + 1
  /\ LET fresh == {Absent} \cup {[block |-> b, hash |-> epoch + 1] : b \in n .. head}
     IN  \E new \in [{l \in Logs : at[l] = Absent \/ at[l].block >= n} -> fresh] :
           at' = [l \in Logs |-> IF l \in DOMAIN new THEN new[l] ELSE at[l]]
  /\ UNCHANGED <<head, callVars, last, pendingVars, topicVars, roundVars, failures>>

-----------------------------------------------------------------------------
(* Topics                                                                    *)

Match(S) == [addresses |-> {Address[k] : k \in S}, topics |-> {Topic[k] : k \in S}]

\* TopicsMap::update (mutant: removals do not rebuild the filter).
FilterAfter_OnlyGrows(S) == IF entries \subseteq S THEN Match(S) ELSE filter
FilterAfter(S) == Match(S)

Subscribe(k) ==
  /\ entries' = entries \cup {k}
  /\ filter' = FilterAfter(entries')
  /\ UNCHANGED <<chainVars, callVars, last, pendingVars, roundVars, failures>>

Unsubscribe(S) ==
  /\ S \cap entries # {}
  /\ entries' = entries \ S
  /\ filter' = FilterAfter(entries')
  /\ UNCHANGED <<chainVars, callVars, last, pendingVars, roundVars, failures>>

Watched(l) ==
  /\ Address[ConfigOf[l]] \in filter.addresses
  /\ Topic[ConfigOf[l]] \in filter.topics

-----------------------------------------------------------------------------
(* verify                                                                    *)

\* Vote data of an event for log l: where l is, where it will be if our node
\* lags behind, or a place it never has.
Claimable(l) ==
  ({at[l]} \ {Absent})
  \cup [block : 1 .. MaxHead, hash : {Forged}]
  \cup (IF Ahead THEN [block : head + 1 .. MaxHead, hash : epoch .. MaxReorgs] ELSE {})

\* The caller whose confirmation of the same log is replaced: its sender is
\* dropped, and its verify fails (mutant: it is forgotten).
Replaced_Forgotten(l) == {}
Replaced(l) == {owner[l]} \ {Nobody}

\* verify takes the lock of pending_confirmations, which `update` holds from
\* the time it has the logs of a range to the end of the round.  (Bound: the
\* chain still has a block to come, and reaches the target block.)
Verify(c, l, p) ==
  /\ answer[c] = "none" /\ pc # "check"
  /\ head < MaxHead /\ p.block + Confirm <= MaxHead
  /\ claim' = [claim EXCEPT ![c] = [log |-> l, place |-> p]]
  /\ answer' = [d \in Callers |-> IF d = c THEN "waiting"
                                  ELSE IF d \in Replaced(l) THEN "Failed" ELSE answer[d]]
  /\ owner' = [owner EXCEPT ![l] = c]
  /\ verdict' = [verdict EXCEPT ![l] = "none"]
  /\ UNCHANGED <<chainVars, last, topicVars, roundVars, failures>>

\* preliminary_checks_succeeded is false.
VerifyUnchecked(c) ==
  /\ answer[c] = "none"
  /\ answer' = [answer EXCEPT ![c] = "NotExists"]
  /\ UNCHANGED <<chainVars, claim, last, pendingVars, topicVars, roundVars, failures>>

-----------------------------------------------------------------------------
(* update                                                                    *)

\* The end of the range to process.
RangeEnd == IF last + MaxRange < head THEN last + MaxRange ELSE head

\* The height is new.  (Waiting for the poll interval or for new_events_notify
\* when nothing is pending only delays this step.)
GetHeight ==
  /\ pc = "idle" /\ last < head
  /\ to' = RangeEnd
  /\ pc' = "query"
  /\ UNCHANGED <<chainVars, callVars, last, pendingVars, topicVars, found, checking,
                 receipt, failures>>

\* process_blocks: the logs from `last` to `to` that the filter matches.  After
\* a reorganisation a log may be reported as removed.
ProcessBlocks(removed) ==
  /\ pc = "query"
  /\ removed \subseteq {l \in Logs : epoch > 0 /\ Watched(l) /\ at[l] = Absent}
  /\ found' = [l \in Logs |->
                 IF l \in removed THEN {Absent}
                 ELSE IF Watched(l) /\ at[l] # Absent /\ at[l].block \in last .. to
                      THEN {at[l]} ELSE {}]
  /\ pc' = "apply"
  /\ UNCHANGED <<chainVars, callVars, last, pendingVars, topicVars, to, checking,
                 receipt, failures>>

\* The request failed or timed out: the round ends where it began.
QueryFails ==
  /\ pc = "query" /\ failures < MaxFailures
  /\ failures' = failures + 1
  /\ pc' = "idle"
  /\ UNCHANGED <<chainVars, callVars, last, pendingVars, topicVars, to, found,
                 checking, receipt>>

\* PendingConfirmation::check
Check(l, place) == IF place = claim[owner[l]].place THEN "Exists" ELSE "NotExists"

\* The status of l after the logs of the range (mutant: a log that is not among
\* them is refuted).
Recorded_Missing(l) ==
  IF found[l] = {} THEN "NotExists" ELSE Check(l, The(found[l]))
Recorded(l) ==
  IF found[l] = {} THEN verdict[l] ELSE Check(l, The(found[l]))

\* Confirmations whose target block is reached.
Due == {l \in Pending : Target(l) <= to}

\* Those of them that are checked once more (mutant: only when no log was seen).
ToCheck_Unseen == {l \in Due : Recorded(l) = "none"}
ToCheck == {l \in Due : Recorded(l) # "NotExists"}

\* Answer the owners of the confirmations in S, and remove them.
Resolve(S, status) ==
  /\ answer' = [c \in Callers |-> IF \E l \in S : owner[l] = c
                                  THEN status[claim[c].log] ELSE answer[c]]
  /\ owner' = [l \in Logs |-> IF l \in S THEN Nobody ELSE owner[l]]

\* The statuses are recorded, and due confirmations answered if their log was
\* refuted, or put aside to be checked.
Apply ==
  /\ pc = "apply"
  /\ LET now == [l \in Logs |-> IF l \in Pending THEN Recorded(l) ELSE "none"]
         sure == Due \ ToCheck
     IN  /\ Resolve(sure, now)
         /\ verdict' = [l \in Logs |-> IF l \in sure THEN "none" ELSE now[l]]
  /\ checking' = ToCheck
  /\ found' = NoneOf({})
  /\ pc' = "check"
  /\ UNCHANGED <<chainVars, claim, last, topicVars, to, receipt, failures>>

\* find_event: one receipt.
FindEvent(l) ==
  /\ pc = "check" /\ l \in checking /\ receipt[l] = {}
  /\ receipt' = [receipt EXCEPT ![l] = {at[l]}]
  /\ UNCHANGED <<chainVars, callVars, last, pendingVars, topicVars, pc, to, found,
                 checking, failures>>

\* find_event fails: the confirmation is left to a later block.
FindFails(l) ==
  /\ pc = "check" /\ l \in checking /\ receipt[l] = {}
  /\ failures < MaxFailures /\ to < MaxHead
  /\ failures' = failures + 1
  /\ checking' = checking \ {l}
  /\ UNCHANGED <<chainVars, callVars, last, pendingVars, topicVars, pc, to, found,
                 receipt>>

\* All receipts are there: answer, and go on to the next range.
EndRound ==
  /\ pc = "check" /\ \A l \in checking : receipt[l] # {}
  /\ Resolve(checking, [l \in Logs |->
       IF receipt[l] = {} THEN "none" ELSE Check(l, The(receipt[l]))])
  /\ verdict' = [l \in Logs |-> IF l \in checking THEN "none" ELSE verdict[l]]
  /\ last' = to
  /\ checking' = {}
  /\ receipt' = NoneOf({})
  /\ pc' = "idle"
  /\ UNCHANGED <<chainVars, claim, topicVars, to, found, failures>>

Init ==
  /\ head = 1 /\ epoch = 0 /\ last = 1
  /\ at \in [Logs -> {Absent, [block |-> 1, hash |-> 0]}]
  /\ claim = [c \in Callers |-> NoClaim]
  /\ answer = [c \in Callers |-> "none"]
  /\ owner = [l \in Logs |-> Nobody]
  /\ verdict = NoneOf("none")
  /\ entries = {} /\ filter = Match({})
  /\ pc = "idle" /\ to = 1 /\ checking = {}
  /\ found = NoneOf({}) /\ receipt = NoneOf({})
  /\ failures = 0

UpdateStep ==
  \/ GetHeight \/ (\E S \in SUBSET Logs : ProcessBlocks(S)) \/ Apply
  \/ (\E l \in Logs : FindEvent(l)) \/ EndRound

Next ==
  \/ NewBlock \/ \E n \in 1 .. head : Reorg(n)
  \/ \E k \in Configs : Subscribe(k)
  \/ \E S \in SUBSET Configs : Unsubscribe(S)
  \/ \E c \in Callers, l \in Logs : \E p \in Claimable(l) : Verify(c, l, p)
  \/ \E c \in Callers : VerifyUnchecked(c)
  \/ UpdateStep \/ QueryFails \/ \E l \in Logs : FindFails(l)

Spec == Init /\ [][Next]_vars

\* The chain grows, and the loop goes on; requests fail a bounded number of times.
FairSpec == Spec /\ WF_vars(NewBlock) /\ WF_vars(UpdateStep)

-----------------------------------------------------------------------------
(* Properties                                                                *)

Answers == {"none", "waiting", "Exists", "NotExists", "Failed"}

TypeOK ==
  /\ head \in Nat /\ epoch \in Nat
  /\ at \in [Logs -> Place]
  /\ claim \in [Callers -> [log : Logs \cup {NoLog}, place : Place]]
  /\ answer \in [Callers -> Answers]
  /\ last \in Nat
  /\ owner \in [Logs -> Callers \cup {Nobody}]
  /\ verdict \in [Logs -> {"none", "Exists", "NotExists"}]
  /\ entries \subseteq Configs
  /\ filter \in [addresses : SUBSET Configs, topics : SUBSET Configs]
  /\ pc \in {"idle", "query", "apply", "check"}
  /\ to \in Nat
  /\ pc # "idle" => to \in last + 1 .. last + MaxRange
  /\ found \in [Logs -> SUBSET Place]
  /\ checking \subseteq Logs
  /\ receipt \in [Logs -> SUBSET Place]
  /\ failures \in Nat

\* What the vote data of c claims is what the chain has.
Holds(c) == claim[c].log \in Logs /\ at[claim[c].log] = claim[c].place

\* An event is confirmed only if its log is where the vote data says, and stays
\* there: a log that a reorganisation took away after it was seen, with or
\* without a notice, is never confirmed.
ExistsIsTrue == \A c \in Callers : answer[c] = "Exists" => Holds(c)

\* Until a block is reorganised, an event is rejected only if its log is not
\* where the vote data says, whether the log's block was processed before or
\* after the event was pending, subscribed to or not.
NotExistsIsTrue ==
  \A c \in Callers : epoch = 0 /\ answer[c] = "NotExists" => ~Holds(c)

\* Who waits has the pending confirmation of its log, and only who waits has
\* one: a verdict is never given twice, or to another caller.
WaiterHasConfirmation ==
  \A c \in Callers : answer[c] = "waiting" <=> \E l \in Logs : owner[l] = c

\* Every call of verify returns.
VerifyReturns == \A c \in Callers : answer[c] = "waiting" ~> answer[c] # "waiting"

\* Every log of a subscribed configuration is in the query, also after other
\* configurations with the same address or topic are gone, and the query asks
\* for nothing that no configuration subscribes to.
FilterIsFresh ==
  /\ \A k \in entries : Address[k] \in filter.addresses /\ Topic[k] \in filter.topics
  /\ \A a \in filter.addresses : \E k \in entries : Address[k] = a
  /\ \A t \in filter.topics : \E k \in entries : Topic[k] = t
================================================================================
