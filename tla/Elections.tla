------------------------------- MODULE Elections -------------------------------
(***************************************************************************)
(* The relay's part in the elections of relays: Staking in                 *)
(* src/src/engine/staking/mod.rs, from the startup over the handlers of    *)
(* the events of the two contracts, the loop that starts and ends          *)
(* elections and the tasks that ask for a seat, to the collection of       *)
(* rewards.                                                                *)
(*                                                                         *)
(* The five Notify are modelled by what they do: notify_waiters wakes who  *)
(* holds a Notified future, from the moment that the future was created.   *)
(* Futures are created, and waiters notified, under one lock.              *)
(***************************************************************************)
EXTENDS Naturals, Sequences, FiniteSets

CONSTANTS
  First,        \* round in which the model begins
  MaxRound,     \* bound: last round
  Seated,       \* sets of rounds before the model's that the staker was a relay of
  Amounts,      \* amounts of tokens
  Ignore,       \* settings.ignore_elections
  Quiet,        \* environment: nothing happens between the startup's read of the
                \* contracts and its subscription to them
  Prompt,       \* environment: elections do not start, end and seat relays faster than
                \* the relay handles events and polls a task
  MaxUpdates,   \* bound: updates of the relay config
  MaxDeposits,  \* bound: changes of the balance
  MaxRestarts,  \* bound: restarts of the relay
  MaxTxs        \* bound: transactions of the staking contract in a block

ASSUME ElectionsAssumption ==
  /\ {First, MaxRound, MaxUpdates, MaxDeposits, MaxRestarts, MaxTxs} \subseteq Nat
  /\ First \in 0 .. MaxRound
  /\ Seated \subseteq SUBSET (0 .. First)
  /\ Amounts \subseteq Nat
  /\ {Ignore, Quiet, Prompt} \subseteq BOOLEAN

VARIABLES
  (* the contracts *)
  round,      \* the current relay round
  est,        \* elections of the next one
  member,     \* the staker has asked for a seat in it
  seated,     \* rounds that the staker is a relay of
  claimed,    \* rounds whose reward was claimed
  balance,    \* tokens in the user data contract
  need,       \* min_relay_deposit in the relay config
  updates,    \* updates of the relay config; each changes the timings
  deposits,   \* changes of the balance
  block,      \* events of the staking contract in the block that is being built
  (* the relay *)
  phase,      \* how far Staking::new is
  restarts,   \* restarts of the relay
  oldest,     \* the oldest round whose reward the startup looked for
  state,      \* CurrentRelayRound::state
  deposit,    \* CurrentRelayRound::user_data_balance
  elected, participates,  \* the flags, Tristate
  stakingQ, userQ,        \* channels of the two observers
  loop,       \* the loop of start_managing_elections
  ask,        \* become_relay_next_round, spawned in a round or inline at the startup
  checks,     \* update_participates_in_round_status that are under way
  rewards     \* rounds for whose end get_reward_for_relay_round waits

contractVars == <<round, est, member, seated, balance, need, updates, deposits>>
copyVars == <<state, deposit>>
flagVars == <<elected, participates>>
startVars == <<phase, restarts, oldest>>
vars == <<contractVars, claimed, block, startVars, copyVars, flagVars, stakingQ, userQ,
          loop, ask, checks, rewards>>

Rounds == 0 .. MaxRound
Ests == {"NotStarted", "Started", "Finished"}
Events == {"ElectionStarted", "ElectionEnded", "RelayRoundInitialized",
           "RelayConfigUpdated"}
Tristate == {"none", "true", "false"}
Flag(b) == IF b THEN "true" ELSE "false"
StoreIfEmpty(flag, b) == IF flag = "none" THEN Flag(b) ELSE flag

\* Accounts that staker_addrs may be asked for.
Staker == "staker"
StakingContract == "staking"
StakerAddrs == IF round \in seated THEN {Staker} ELSE {}

\* get_round_state: what the account of the staking contract says after a block.
RoundState == [round |-> round, est |-> est, need |-> need, timings |-> updates]
RoundStates == [round : Rounds, est : Ests, need : Amounts, timings : Nat]

\* Who asks for a seat: the task spawned at the start of the elections in a
\* round, or Staking::new itself.
Inline == MaxRound + 1
Tids == Rounds \cup {Inline}
Asking == {"idle", "spawned", "check", "waiting", "asking"}
NoAsk == [t \in Tids |-> "idle"]

\* on: the elections state whose notification the loop waits for.
Off == [on |-> "none", timings |-> 0, woken |-> FALSE]
Woken(l) == [l EXCEPT !.woken = TRUE]

Phases == {"snapshot", "subscribe", "voting", "rewards", "running"}
Subscribed == phase \in {"voting", "rewards", "running"}
Undisturbed == Quiet => phase # "subscribe"

-----------------------------------------------------------------------------
(* The contracts                                                             *)

\* A transaction of the staking contract.  Elections start and end at times
\* apart from the start of the round and from each other.
Emit(e) ==
  /\ Len(block) < MaxTxs /\ Undisturbed
  /\ block' = Append(block, e)
  /\ UNCHANGED <<claimed, startVars, copyVars, flagVars, stakingQ, userQ, loop, ask,
                 checks, rewards, balance, deposits>>

In(e) == \E i \in 1 .. Len(block) : block[i] = e

\* News of elections are not handled yet.
Behind == \E i \in 1 .. Len(stakingQ) : stakingQ[i].event # "RelayConfigUpdated"

StartElection ==
  /\ est = "NotStarted" /\ ~In("RelayRoundInitialized")
  /\ Prompt => ~Behind
  /\ est' = "Started"
  /\ Emit("ElectionStarted")
  /\ UNCHANGED <<round, member, seated, need, updates>>

EndElection ==
  /\ est = "Started" /\ ~In("ElectionStarted")
  /\ Prompt => ~Behind /\ \A t \in Tids : ask[t] # "spawned"
  /\ est' = "Finished"
  /\ Emit("ElectionEnded")
  /\ UNCHANGED <<round, member, seated, need, updates>>

\* The candidates are seated.
InitializeRound ==
  /\ est = "Finished" /\ round < MaxRound
  /\ Prompt => userQ = <<>>
  /\ round' = round + 1 /\ est' = "NotStarted" /\ member' = FALSE
  /\ seated' = IF member THEN seated \cup {round + 1} ELSE seated
  /\ Emit("RelayRoundInitialized")
  /\ UNCHANGED <<need, updates>>

UpdateConfig(a) ==
  /\ updates < MaxUpdates
  /\ need' = a /\ updates' = updates + 1
  /\ Emit("RelayConfigUpdated")
  /\ UNCHANGED <<round, est, member, seated>>

\* The block is applied: each of its transactions is read together with the
\* state of the account after the block.
Publish ==
  /\ block # <<>>
  /\ block' = <<>>
  /\ stakingQ' = IF Subscribed
                 THEN stakingQ \o [i \in 1 .. Len(block) |-> [event |-> block[i],
                                                             state |-> RoundState]]
                 ELSE stakingQ
  /\ UNCHANGED <<contractVars, claimed, startVars, copyVars, flagVars, userQ, loop, ask,
                 checks, rewards>>

ToUser(e) == userQ' = IF Subscribed THEN Append(userQ, e) ELSE userQ

\* Tokens come in, or are withdrawn.
Deposit(a) ==
  /\ deposits < MaxDeposits /\ a # balance /\ Undisturbed
  /\ balance' = a /\ deposits' = deposits + 1
  /\ ToUser([event |-> "DepositProcessed", balance |-> a])
  /\ UNCHANGED <<round, est, member, seated, need, updates, claimed, block, startVars,
                 copyVars, flagVars, stakingQ, loop, ask, checks, rewards>>

\* becomeRelayNextRound is executed; until then deliver_message repeats it.
BecomeRelay(t) ==
  /\ ask[t] = "asking" /\ est = "Started" /\ ~member /\ balance >= need
  /\ member' = TRUE
  /\ ask' = [ask EXCEPT ![t] = "idle"]
  /\ ToUser([event |-> "RelayMembershipRequested", balance |-> balance])
  /\ UNCHANGED <<round, est, seated, balance, need, updates, deposits, claimed, block,
                 startVars, copyVars, flagVars, stakingQ, loop, checks, rewards>>

\* getRewardForRelayRound is executed, after the end of the round.
GetReward(r) ==
  /\ r \in rewards /\ r < round
  /\ claimed' = claimed \cup {r}
  /\ rewards' = rewards \ {r}
  /\ UNCHANGED <<contractVars, block, startVars, copyVars, flagVars, stakingQ, userQ,
                 loop, ask, checks>>

-----------------------------------------------------------------------------
(* The startup: Staking::new                                                 *)

\* The contracts are read as of one block.
ReadState ==
  /\ phase = "snapshot" /\ block = <<>>
  /\ phase' = "subscribe"
  /\ state' = RoundState /\ deposit' = balance
  /\ participates' = Flag(Staker \in StakerAddrs)
  /\ elected' = IF est = "NotStarted" THEN "none" ELSE Flag(member)
  /\ UNCHANGED <<contractVars, claimed, block, restarts, oldest, stakingQ, userQ, loop,
                 ask, checks, rewards>>

\* should_vote (mutant: also if the staker has asked already).
ShouldVote_Again == state.est = "Started" /\ ~Ignore
ShouldVote == state.est = "Started" /\ ~Ignore /\ elected = "false"

\* The observers are subscribed, and the end of the elections is listened to.
Subscribe ==
  /\ phase = "subscribe"
  /\ phase' = "voting"
  /\ ask' = [ask EXCEPT ![Inline] = IF ShouldVote THEN "check" ELSE "idle"]
  /\ UNCHANGED <<contractVars, claimed, block, restarts, oldest, copyVars, flagVars,
                 stakingQ, userQ, loop, checks, rewards>>

StartManaging ==
  /\ phase = "voting" /\ ask[Inline] = "idle"
  /\ phase' = "rewards"
  /\ loop' = Woken(loop)
  /\ UNCHANGED <<contractVars, claimed, block, restarts, oldest, copyVars, flagVars,
                 stakingQ, userQ, ask, checks, rewards>>

\* current_round.saturating_sub(2)
Oldest == IF round < 2 THEN 0 ELSE round - 2

\* Rounds that the startup looks at (mutant: up to, but not, the current one).
Recent_Past == Oldest .. round - 1
Recent == Oldest .. round

\* collect_all_unclaimed_reward
CollectRewards ==
  /\ phase = "rewards" /\ block = <<>>
  /\ phase' = "running"
  /\ oldest' = Oldest
  /\ rewards' = rewards \cup (Recent \cap (seated \ claimed))
  /\ UNCHANGED <<contractVars, claimed, block, restarts, copyVars, flagVars, stakingQ,
                 userQ, loop, ask, checks>>

\* The process ends and is started again; what it sent is executed or expired.
Restart ==
  /\ restarts < MaxRestarts
  /\ restarts' = restarts + 1
  /\ phase' = "snapshot"
  /\ stakingQ' = <<>> /\ userQ' = <<>>
  /\ loop' = Off /\ ask' = NoAsk
  /\ checks' = {} /\ rewards' = {}
  /\ UNCHANGED <<contractVars, claimed, block, oldest, copyVars, flagVars>>

-----------------------------------------------------------------------------
(* The events                                                                *)

\* `elected` is reset until elections start, and false from then on until the
\* staker asks (mutant: it is not reset).
ElectedAfter_Kept(n) ==
  IF n.event = "ElectionStarted" THEN StoreIfEmpty(elected, FALSE) ELSE elected
ElectedAfter(n) ==
  LET reset == IF n.state.est = "NotStarted" THEN "none" ELSE elected
  IN  IF n.event = "ElectionStarted" THEN StoreIfEmpty(reset, FALSE) ELSE reset

\* Who waits for tokens looks again at a new balance or config (mutant: sleeps on).
Compare_Asleep == ask
Compare == [t \in Tids |-> IF ask[t] = "waiting" THEN "check" ELSE ask[t]]

\* Who listens to the end of elections stops; a task that was never polled does
\* not listen (mutant: nobody stops).
Stop_Nobody == ask
Stop == [t \in Tids |-> IF ask[t] = "spawned" THEN "spawned" ELSE "idle"]

AskAfter(n) ==
  CASE n.event = "ElectionStarted" /\ ~Ignore -> [ask EXCEPT ![n.state.round] = "spawned"]
    [] n.event = "ElectionEnded" -> Stop
    [] n.event = "RelayConfigUpdated" -> Compare
    [] OTHER -> ask

\* The elections states whose loop an event wakes (mutant: of the timings, the
\* loop is told only before the elections).
Wakes_NotEnding(e) ==
  CASE e = "ElectionStarted" -> {"NotStarted"}
    [] e = "ElectionEnded" -> {"Started"}
    [] e = "RelayRoundInitialized" -> {"Finished"}
    [] e = "RelayConfigUpdated" -> {"NotStarted"}
Wakes(e) ==
  CASE e = "ElectionStarted" -> {"NotStarted"}
    [] e = "ElectionEnded" -> {"Started"}
    [] e = "RelayRoundInitialized" -> {"Finished"}
    [] e = "RelayConfigUpdated" -> {"NotStarted", "Started"}

\* process_staking_event
HandleStaking ==
  /\ stakingQ # <<>>
  /\ LET n == Head(stakingQ)
         starts == n.event = "RelayRoundInitialized"
     IN  /\ state' = n.state
         /\ elected' = ElectedAfter(n)
         /\ ask' = AskAfter(n)
         /\ loop' = IF loop.on \in Wakes(n.event) THEN Woken(loop) ELSE loop
         /\ participates' = IF starts THEN "none" ELSE participates
         /\ checks' = IF starts THEN checks \cup {n.state.round} ELSE checks
         /\ rewards' = IF starts THEN rewards \cup {n.state.round} ELSE rewards
  /\ stakingQ' = Tail(stakingQ)
  /\ UNCHANGED <<contractVars, claimed, block, startVars, deposit, userQ>>

\* process_user_data_event; other keys, which shut the relay down, are left out.
HandleUser ==
  /\ userQ # <<>>
  /\ LET n == Head(userQ)
     IN  \/ /\ n.event = "RelayMembershipRequested"
            /\ elected' = "true"
            /\ UNCHANGED <<deposit, ask>>
         \/ /\ n.event = "DepositProcessed"
            /\ deposit' = n.balance
            /\ ask' = Compare
            /\ UNCHANGED elected
  /\ userQ' = Tail(userQ)
  /\ UNCHANGED <<contractVars, claimed, block, startVars, state, participates, stakingQ,
                 loop, checks, rewards>>

-----------------------------------------------------------------------------
(* The tasks                                                                 *)

\* The loop takes the lock and creates the futures for the state it finds.
Manage ==
  /\ loop.woken
  /\ loop' = [on |-> state.est, timings |-> state.timings, woken |-> FALSE]
  /\ UNCHANGED <<contractVars, claimed, block, startVars, copyVars, flagVars, stakingQ,
                 userQ, ask, checks, rewards>>

\* become_relay_next_round takes the lock, compares, and waits or sends.
CompareDeposit(t) ==
  /\ ask[t] \in {"spawned", "check"}
  /\ ask' = [ask EXCEPT ![t] = IF deposit >= state.need THEN "asking" ELSE "waiting"]
  /\ UNCHANGED <<contractVars, claimed, block, startVars, copyVars, flagVars, stakingQ,
                 userQ, loop, checks, rewards>>

\* update_participates_in_round_status, which waits for a block.
CheckParticipation(r) ==
  /\ r \in checks /\ block = <<>>
  /\ checks' = checks \ {r}
  /\ participates' = StoreIfEmpty(participates, StakingContract \in StakerAddrs)
  /\ UNCHANGED <<contractVars, claimed, block, startVars, copyVars, elected, stakingQ,
                 userQ, loop, ask, rewards>>

-----------------------------------------------------------------------------

Init ==
  /\ round = First /\ est = "NotStarted" /\ member = FALSE
  /\ seated \in Seated /\ claimed = {}
  /\ balance \in Amounts /\ need \in Amounts
  /\ updates = 0 /\ deposits = 0
  /\ block = <<>>
  /\ phase = "snapshot" /\ restarts = 0 /\ oldest = 0
  /\ state = RoundState /\ deposit = balance
  /\ elected = "none" /\ participates = "none"
  /\ stakingQ = <<>> /\ userQ = <<>>
  /\ loop = Off /\ ask = NoAsk
  /\ checks = {} /\ rewards = {}

\* Time has come, by the timings the loop holds, and its message is executed.
LoopStarts == loop.on = "NotStarted" /\ ~loop.woken /\ StartElection
LoopEnds == loop.on = "Started" /\ ~loop.woken /\ EndElection

Startup == ReadState \/ Subscribe \/ StartManaging \/ CollectRewards

Next ==
  \/ StartElection \/ EndElection \/ InitializeRound
  \/ \E a \in Amounts : UpdateConfig(a) \/ Deposit(a)
  \/ Publish
  \/ Startup \/ Restart
  \/ HandleStaking \/ HandleUser
  \/ Manage
  \/ \E t \in Tids : CompareDeposit(t) \/ BecomeRelay(t)
  \/ \E r \in Rounds : CheckParticipation(r) \/ GetReward(r)

Spec == Init /\ [][Next]_vars

\* Listeners and tasks are polled and blocks applied; a message of the loop is
\* executed in the end, and the contracts initialize a round after its elections.
\* No other relay is relied upon to start or end them.
FairSpec ==
  /\ Spec
  /\ WF_vars(Publish) /\ WF_vars(InitializeRound)
  /\ WF_vars(LoopStarts) /\ WF_vars(LoopEnds)
  /\ SF_vars(Startup) /\ WF_vars(HandleStaking) /\ WF_vars(HandleUser) /\ WF_vars(Manage)
  /\ \A t \in Tids : WF_vars(CompareDeposit(t)) /\ WF_vars(BecomeRelay(t))

-----------------------------------------------------------------------------
(* Properties                                                                *)

TypeOK ==
  /\ round \in Rounds /\ est \in Ests /\ member \in BOOLEAN
  /\ seated \subseteq Rounds /\ claimed \subseteq Rounds
  /\ {balance, need, deposit} \subseteq Amounts
  /\ {updates, deposits, restarts} \subseteq Nat
  /\ block \in Seq(Events)
  /\ phase \in Phases
  /\ oldest \in Rounds
  /\ state \in RoundStates
  /\ {elected, participates} \subseteq Tristate
  /\ stakingQ \in Seq([event : Events, state : RoundStates])
  /\ userQ \in Seq([event : {"DepositProcessed", "RelayMembershipRequested"},
                    balance : Amounts])
  /\ loop \in [on : Ests \cup {"none"}, timings : Nat, woken : BOOLEAN]
  /\ ask \in [Tids -> Asking]
  /\ checks \subseteq Rounds /\ rewards \subseteq Rounds

\* The relay has handled all that the contracts told.
Drained == Subscribed /\ block = <<>> /\ stakingQ = <<>> /\ userQ = <<>>

\* The loop misses no notification: it is about to look at the state again, or it
\* waits for the next event of the elections as they are, by the timings of now.
LoopListens ==
  Drained /\ phase # "voting" /\ ~loop.woken =>
    loop.on = est /\ (est # "Finished" => loop.timings = updates)

\* The flag `elected` says whether the staker has asked for a seat.
ElectedIsTrue == Drained => elected = IF est = "NotStarted" THEN "none" ELSE Flag(member)

\* During elections that the staker has not asked for a seat in, somebody asks for
\* it, or waits for tokens that are really missing.
Candidacy ==
  Drained /\ est = "Started" /\ ~member /\ ~Ignore =>
    \E t \in Tids : \/ ask[t] \in {"spawned", "check", "asking"}
                    \/ ask[t] = "waiting" /\ balance < need

\* Nobody asks for a seat when there is no election.
StopsAtEnd == Drained /\ est # "Started" => ask = NoAsk

\* The reward of no round that the startup looked at, or that began since, is
\* forgotten.
RewardsCovered ==
  Drained /\ phase = "running" => \A r \in seated \ claimed : r >= oldest => r \in rewards

\* participates_in_round: "Whether relay participates in current round".
ParticipationIsTrue ==
  Drained /\ checks = {} => participates = Flag(round \in seated)

\* Staking::new waits for tokens.
WaitsForTokens == phase = "voting" /\ balance < need

\* Rounds follow each other with this relay alone to start and end elections,
\* unless its startup waits for tokens.
ElectionsGoOn ==
  (<>[]~WaitsForTokens) => \A r \in First .. MaxRound - 1 : (round = r) ~> (round > r)
================================================================================
