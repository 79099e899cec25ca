# A formal model of the Octus bridge relay

The relay (`octusbridge-relay`, Rust) runs beside a light TON node. It watches
the bridge's contracts on TON, verifies cross-chain events on EVM networks, on
Solana or on TON itself, and votes for each event on the event's own contract
(and, for TON->SOL, on a Solana program first). Nothing but key material, the
code hash index and a small verification file survives a restart.

This directory holds TLA+ modules translated from that code, configurations
that model-check them, and proofs of their main safety properties. Paths below
are relative to the repository, in `src/src/`.

## 1. Inventory

| Component (source) | State | Operations | Talks to |
|---|---|---|---|
| **Bridge: event voting** (`engine/bridge/mod.rs`) | per family: `EventsState { pending, count, events_tx }`, per event `processing_started` and an observer; background tasks | deployment message, startup scan, event transaction handlers, `preprocess_event`, `update_*_event`, `start_processing`, removal | TON subscriber (watch, observers), EVM/Solana subscribers (verify), engine (`deliver_message`) |
| **Bridge: configurations and connectors** (same file) | `BridgeState` under one async RwLock: connectors, four maps of active configurations with end timestamps, the code hash registry | connector and configuration discovery, `SetEndTimestamp`, initial iteration, garbage collection | TON subscriber (`wait_shards`), EVM subscriber (subscribe, unsubscribe), storage (snapshot) |
| **Bridge: Solana voting** (same file, 1257-1640) | none of its own | `is_already_voted`, vote, execute proposal, then the TON confirmation | Solana subscriber, engine |
| **Pending messages queue** (`utils/pending_messages_queue.rs`) | `entries`, cached `min_expire_at`, `entry_count`, a oneshot sender per entry | `add_message`, `deliver_message`, `update` | `send_ton_message` (adds, waits), TON subscriber (delivers, sweeps) |
| **TON subscriber** (`engine/ton_subscriber/mod.rs`) | `state_subscriptions` (weak observers, watch of the contract state), `mc_block_awaiters`, `ready`, signature id, time metrics | block handling, subscriptions, `wait_contract_state`, `wait_shards`, `wait_sync` | node (blocks), everybody who observes an account |
| **EVM subscriber** (`engine/eth_subscriber/mod.rs`) | `pending_confirmations`, `last_processed_block`, the topics map | `verify`, `update` (poll), `process_blocks`, `find_event`, subscribe, unsubscribe | EVM RPC, bridge |
| **Address verification** (same file, `staking`, `config/verification_state.rs`) | the saved state file with the transaction hash | `verify_relay_staker_address` | EVM RPC, user data contract, disk |
| **Solana subscriber** (`engine/sol_subscriber/mod.rs`) | `pending_events` with polling delays, subscribed programs | `verify_*`, `update` (poll), `send_message`, `is_already_voted` | Solana RPC, bridge |
| **Staking** (`engine/staking/mod.rs`) | round and election timings, five `Notify`, flags `participates_in_round`, `elected` | elections loop, becomeRelayNextRound, round and election event handlers, reward collection | TON subscriber, engine |
| **Storage** (`storage/mod.rs`, `tables.rs`) | two RocksDB indices (code hash -> account, account -> code hash), snapshot; the cache of shard accounts | `reset_accounts`, `update`, `update_snapshot`, shard cache with splits and merges | TON subscriber, bridge startup scan |
| **Shard and prefix arithmetic** (`utils/shard_utils.rs`, `storage`) | - | `contains_account`, key ranges | storage, queue |
| **Memory cache, tristate, retry** (`utils/`) | cache with expiry | get, update, retry loops | Solana voting, staking |
| **Engine** (`engine/mod.rs`) | the context shared by all | start order, `send_ton_message`, `deliver_message`, metrics | all |
| **Keystore** (`engine/keystore/mod.rs`) | keys | sign with `expire_at = now + 60 s` | engine |
| **Contract interfaces** (`engine/ton_contracts/*`) | - | ABI getters and messages | bridge, staking |
| **Config, CLI, metrics, token metadata** | - | I/O | - |

### How they interact

The node delivers blocks to `TonSubscriber::process_block`, shards
concurrently. For each subscribed account a block does, in this order: read the
state after the block, pass every transaction to the live observers (which turn
it into an event in a channel), publish the state in the account's `watch`,
answer the messages it found, and finally expire the queue's old messages.
Listener tasks read the channels one event at a time; they start background
tasks and never wait for them. A background task alternates reads of the shared
maps with awaits; everything it read may be stale afterwards.

### What is hard, and what makes each component correct

- *Event voting.* Three sources start updates of the same event (preprocessing,
  the relay keys' transaction, the startup scan), in any order, and
  `processing_started` must let exactly one vote. Every event that waits for our
  vote must be processed by someone; it must not be dropped too early nor stay
  for ever; after a restart the scan must rediscover it; a vote that expires is
  sent again but not once it was recorded.
- *Pending messages queue.* `min_expire_at` is a cache read without the lock;
  every waiter must get one answer and `Expired` must mean "can not land".
- *TON subscriber.* Subscriptions live as long as someone holds them; a readiness
  notification must not be lost; block awaiters must see one consistent set of shards.
- *EVM subscriber.* Each verification is answered exactly once, after the target
  block, with the log checked again; no block is skipped; a log removed by a
  reorganisation counts as absent.
- *Solana subscriber.* Every proposal is answered or expires; one bad account must
  not disturb others.
- *Solana voting.* The Solana vote is sent before the TON confirmation and is not
  repeated after a restart.
- *Configurations.* A configuration is dropped only after its end timestamp with a
  margin, and never while events of it are expected; the async lock is held over awaits.
- *Staking.* The elections loop follows every order of round and election events; no
  notification is lost between reading the state and waiting.
- *Address verification.* One transaction per address pair across restarts.
- *Storage.* The two indices agree with each other and with the chain; the shard
  cache finds the latest state of any account across splits and merges.

`PROJECT.json` lists each hazard at its line with the properties that cover it and, where
the code does not survive it, what it does instead.

## 2. Modules

| Module | Models | Runs |
|---|---|---|
| `EventVoting` | life of the event contracts of one family in one relay | `voting`, `voting_startup`, `voting_tonsol` |
| `PendingMessagesQueue` | the queue, its callers and the block handlers | `messages` |
| `MessageStatus` | abstract specification: what a caller is promised | as `PromiseSpec` |
| `EthSubscriber` | verification of ETH->TON events on one EVM network | `eth_verdicts` |
| `SolSubscriber` | verification of TON->SOL events: the pending proposals and the loop that looks them up | in `SolanaVote` |
| `SolanaVote` | a relay's two votes for a TON->SOL event, and the execution in between | `solana` |
| `Configurations` | connectors, event configurations, their expiry, and the state's lock | `configurations*` |
| `Elections` | rounds, elections and rewards: the relay as a candidate | `elections*` |
| `AddressVerification` | the confirmation of the relay's keys before it may be one | `address` |
| `Storage` | the code hash indices, their snapshot, the cache of shard accounts, prefixes | in `TonNode` |
| `TonSubscriber` | subscriptions to accounts, their waiters and observers, block awaiters | in `TonNode` |
| `TonNode` | both under the node that feeds them, and the start of the engine | `ton_node` |
| `MC...` | the TLC instance of each of these | |
| `EventVotingProofs` | type correctness, `OneVoter`, `NoEarlyDrop`, `ScanKeepsVotable`, `NoRevote` | (tlapm) |
| `PendingMessagesQueueProofs` | all invariants and the refinement | (tlapm) |
| `EthSubscriberProofs` | verdicts are true, waiters, filter | (tlapm) |
| `SolanaVoteProofs` | type correctness, verdicts are true, votes agree, proposals are looked up in time | (tlapm) |
| `ConfigurationsProofs` | all its safety properties | (tlapm) |
| `ElectionsProofs` | all its invariants | (tlapm) |
| `AddressVerificationProofs` | type correctness, `UpIsConfirmed`, `OneInPool` | (tlapm) |
| `TonNodeProofs` | prefixes, and all the safety properties of `TonNode` | (tlapm) |

How they compose. `SolanaVote` EXTENDS `SolSubscriber`, and `TonNode` EXTENDS
`TonSubscriber`, which EXTENDS `Storage`: each lower module defines the operations of its
component over its own variables, the upper one says who calls them when. Between the
others the interface is a promise: `EventVoting` assumes of the queue what
`MessageStatus` says, which `PendingMessagesQueue` is proved to implement; it assumes
of verification that it returns a verdict or gives the event up, which `EthSubscriber`
and `SolanaVote` are checked for (`VerifyReturns`, `EveryAskAnswered`); and it assumes
of the scan and of observers what is proved of `TonNode` (`ScanIsFresh`,
`ObserverHearsAll`). (The cache may be one block behind the observers; `EventVoting` reads
the current state. The update that the scan starts reads the state again, from a later block.)

### EventVoting

State. `acc` is the account of each event contract (status, whether our vote is
recorded, whether it is still funded); the relay's state is `pending`, `started`
(`processing_started`), `gen` (which observer the entry holds: each
`add_pending_event` makes a new one), `unseen` (the watch has a value that new
receivers have not marked as seen), the two channels `cfgQ` (deployed accounts)
and `evQ` (transactions of event contracts) and `task`, the background tasks
with a program counter at each await:

| `pc` | in the code |
|---|---|
| `preWait`, `preReady` | `preprocess_event` in `wait_contract_state`, and past it |
| `start` | `update_*_event` before `start_processing` |
| `wait`, `ready` | `update_*_event` in `wait_contract_state`, and past it |
| `verify` | the configuration lookup and the family's verification |
| `observe` | before `pending.get(&account)` |
| `loop`, `sent`, `delivered` | `deliver_message`: condition, awaiting the status, leaving |

Actions. `Order` is the configuration's `NewEventContract` message, `HandleDeploy`
and `HandleEvent` are the two listeners (`process_*_event_configuration_event`,
`process_*_event`), `Subscribe`, `LoadSnapshot` and `ScanEvent` the start
(`get_all_configurations`, `get_all_events`, `iterate_events`), `Block` is
`handle_shard_block` for one event account: up to two transactions, their notices
(each with the status read *after* the block, as `EventStatus::read_from_transaction`
does), the watch, the delivery of our message and the expiry of others.
`Preprocess` ... `StopDelivering` are the steps of a task, `Fail` is a `?`,
`Crash` loses everything but the chain and leaves our last message as an `orphan`
that may still land.

Families. They share this control; all events of a behaviour are of one family, which
`Init` picks from `Families`. TON->ETH and TON->SOL collect all signatures
(`CollectsAll`), ETH->TON and SOL->TON do not; of the two that do, the scan knows only
TON->ETH (`ScanAction`). `Init` also picks for each event whether our key belongs to
its round and whether its API version is supported. What distinguishes verification is
abstracted to `Verify`: a verdict (confirm or reject, both votes), or the event is
given up. The Solana leg of TON->SOL is part of that step; `SolanaVote` takes it apart.

Abstractions. A block is atomic per account. A vote is a flag, whichever verdict it
carries. The outcome of other relays is free. The queue is reduced to "a block may carry a live message, and may
expire it only if it can not carry it any more", which is what `MessageStatus`
promises and `PendingMessagesQueue` is proved to keep. Metrics are left out.

### PendingMessagesQueue and MessageStatus

`entries`, `expireAt`, `rx`, `minExpireAt`, `entryCount` are the structure's
fields; `status` is what each caller of `send_ton_message` was told; `utime` and
`pc` are the handlers of blocks, one per shard, concurrent across shards. Each
operation is one step under the lock, except that `update` reads `min_expire_at`
without it (`UpdateCheck`, then `UpdateSweep`). `CancelWait` is a caller whose
future is dropped. Assumptions about the environment: a message just signed does
not expire before the last block of its shard (the keystore adds 60 s to the
current time), the chain takes no message after `expire_at`, blocks of one shard
are handled in order. Splits and merges of shards are not modelled here.

`MessageStatus` is the promise: a caller waits for one message, is answered once,
with `Expired` only after a block of the message's own shard is past its deadline.
`PromiseSpec` maps `clock` to `utime`, `sent[c]` to the entry whose receiver `c`
holds and `answer` to `status`.

### EthSubscriber

A log is an `EventId`; its place is a block number and hash, with which address,
topic, index and data are lumped together (`check` compares them all). The network,
as the relay's node sees it, is `head` and `at`; `NewBlock` and `Reorg` change it, the
latter at most `Finality` blocks deep, where `Confirm >= Finality`
(`event_blocks_to_confirm`). `claim` and `answer` belong to the callers of `verify`;
`owner` and `verdict` are `pending_confirmations`; `entries` and `filter` are the
`TopicsMap`; `pc`, `to`, `found`, `checking` and `receipt` are the locals of one round
of `update`, whose steps are the awaits: `GetHeight`, `ProcessBlocks`, `Apply` (under
the lock from here on, so that `Verify` is shut out), one `FindEvent` per receipt, and
`EndRound`. `QueryFails` ends a round where it began; `FindFails` leaves one
confirmation to a later round. Requests and their retries are one step. The wait for
`new_events_notify` or the poll interval is not a step: it only delays.

What the code does and the model shows: a status `NotExists` is never looked at again
(only `None` and `Exists` are rechecked by receipt). A node that saw the log at another
place first, on a branch it then left, may therefore refute a true claim.
`NotExistsIsTrue` is therefore stated up to the first reorganisation; it also holds
for claims of blocks the node has yet to see; `ExistsIsTrue` holds in any case. And two
events with the same `EventId` replace each other's confirmation: the first caller's
`verify` returns an error (`Failed`), upon which the bridge skips its event.

### SolSubscriber and SolanaVote

A proposal is an account on Solana that goes from `none` to `made` to `ready`
(`is_initialized`) and holds the event's data, other data, bytes that can not be decoded,
or a round without an account; `world` fixes which, and what else may happen. `pending`
and `entry` are `pending_events`; `answer[p]` is the oneshot its task waits on. `Ask` is
`verify_ton_sol_event`; a round of `update` is `BeginRound` (expired events are answered,
those that are due are listed and scheduled anew, under the lock, which `checking` says is
held), one `CheckAccount` per account, and `EndRound`. Time is counted in rounds of the
loop: `Soon`, `Later` and `Expired` are the code's 5 minutes, 1 hour and 14 days, and
`Minus` is the u64 difference as built for release, which wraps when the chain's clock is
ahead of ours.

`SolanaVote` is `update_ton_sol_event`, one program counter per event:

| `pc` | in the code |
|---|---|
| `verify` | waits for the answer |
| `check` | before `is_already_voted` |
| `send` | `send_message` of the vote |
| `status` | before `get_signature_status` |
| `execute` | before the execution of the proposal and of its payload |
| `deliver` | before `pending.get` and `deliver_message` |
| `ended` | done, or ended by an error |

`flight` holds votes of which it is unknown what became of them: an answer that was lost, a
process that died while it sent. They may land at any later time (`Land`), or never. The
program of the proposals is external: it keeps one vote per relay; whether it refuses a
second one or ignores it can not be told from this code, so it may do either. A request
with all its retries is one step that succeeds or fails. The message to TON is one step:
`EventVoting` is about its delivery. A task that is due is taken before time goes on
(`NextTick`): no step of a task reads the clock.

What the code does and the model shows: a task that ends by an error after the vote on
Solana leaves the TON vote to the next start of the relay, so `VotesComplete` speaks of
events without a task; and a relay that died between its two votes and comes back when the
event is expired rejects on TON what it confirmed on Solana, which `VotesAgree` excepts.
One proposal that can not be decoded ends a round of checks for all the others, each of
which then waits for its next turn; `SoonChecked` counts such rounds among the `Losses` and
says that each of them costs one wait and no more.

### AddressVerification

`staker` and `registered` are the configuration, `confirmed` and `tonConfirmed` the two
flags of each staker's `UserData`; `tx[i]` is the i-th transaction signed, from the
signature over the node's pool to its block and to the vote of the other relays; `file` is
the state file: it is missing, names a transaction, or is `Torn`. `pc` follows
`ensure_user_data_confirmed`, `ensure_verified` and `verify_relay_staker_address` through
their awaits. `Crash` may tear the file if the process dies while it writes it; `Send` may
fail although the node took the transaction; the node may forget one (`Lose`), which may
nevertheless be mined; and while the relay is down its operator may change staker or key
(`Switch`). `budget` bounds all of these together.

What the code does and the model shows, with what `UpInTheEnd` says about it. A file that
is not whole ends every start (`verification_state.rs:23`), so it excepts `Torn`. The file
names the relay's address but not its staker, so after a change of the staker a mined
transaction of the past passes for the one that is needed; the startup then waits for a
confirmation that does not come, with the file gone, and the next start works: it excepts
`Stale`. And a confirmation between the reading of `UserData` and the subscription to it is
heard by nobody: it assumes `NoGap`.

### Storage, TonSubscriber and TonNode

A shard is its u64 prefix with the tag bit, between 1 and `2 * Full - 1`, where `Full` is the
whole workchain (2^63 in the code, 2 in the run, any power of two in the proofs); `Contains`, `InRange`, `Masked`
and `Split` are the code's arithmetic on it. `primary` and `secondary` are the two column
families, `snapshot` the frozen `primary`, `cache` the newest state of each shard. A
`reset_accounts` is the code's three separate writes: `BeginReset` (the range of the
secondary index), one `DeleteKey` per key of the primary, `WriteState`; a block's
`UpdateIndex` is one batch; a crash keeps both families as they are at that moment.
`UpdateCache` removes the shards that a split or a merge replaced.

`subs[a]` is the account's `StateSubscription`: the value of its watch channel, whether the
receiver it keeps has seen it, and the observers, which it holds weakly; `waiter[w]` is the
clone of that receiver in a task that waits. `HandleShardBlock` does for each subscription
what `handle_shard_block` does: it drops a stopped one, publishes the state only for
waiters, tells observers each transaction.

`TonNode` lets the chain go round by round, a round being the blocks between two edges of
the masterchain, one per shard; a round may split or merge a shard and hold up to two
transactions of an account, of which `path[a]` lists the bodies and `ver[a]` the number.
The node is external: it hands over full states at its first start, then blocks, shards in
any order and interleaved; within one shard, `process_block` runs through `stage`: the
subscriptions, the index, the cache. A node that comes up again hands over the blocks of the
round again. The startup task goes through `wait_sync`, `wait_shards`, the snapshot and the
scan of its accounts. `world` says what a behaviour may hold.

What the code does and the model shows: `wait_sync` tests `ready` and creates its `Notified`
after that; a node that gets ready in between wakes nobody, and the start hangs.
`EventuallyStarted` assumes that it does not (`NoGap`). An account that is destroyed after
the snapshot was taken makes the scan, and with it the start, fail: `FailsOnlyOnRemoval`
says that nothing else does.

### Configurations

The contracts are `conn` (a connector is announced by the bridge before its account
exists, and is then disabled or enabled), `exists` and `end` (configurations and their
end timestamps); `world` holds what never changes. `connectors`, `active` with `known`
(the end timestamp in the details), and `codes` are `BridgeState`; `active` stands for
the keys of its four maps. The three channels hold what the observers saw; one channel
stands for those of the four families. `task` has one `check_connector_contract` per
connector, spawned by `HandleDeployed`, and the one that the listener of connector events
runs itself, one connector at a time. `phase` is `Bridge::new`: `MayWrite` says when the
startup holds the lock. A step of `Discover` reads the snapshot, observes the connector
and adds its configuration; `AddConfiguration` is shared by the startup and the checks.
The collection sleeps, tests (`GcCheck`), waits for a block (`McBlock`) and takes the
lock only then (`GcCollect`), or gives up (`GcFails`).

`Quiet` is an assumption about the environment: between the block that the startup reads
and its subscriptions nothing happens to what it read, connectors it finds without an
account have been announced to it, enabled connectors name deployed configurations, and
an end timestamp is not moved between being read, or told, and being stored. The code
needs all of it. Without it, run `configurations_startup` loses a connector (finding 3).

What the code does and the model shows: a connector that is enabled before its
configuration is deployed keeps the listener, and with it every other connector that is
enabled later, waiting (`EnabledIsFollowed` assumes that it is deployed in the end). A
configuration whose end is put off after it was dropped is not taken up again, and ETH->TON
configurations are never dropped.

### Elections

The contracts are `round`, `est` (elections of the next round), `member` (the staker has
asked for a seat), `seated`, `claimed`, `balance` and `need`; `updates` counts updates of
the relay config and stands for the timings it sets. Transactions of the staking contract
gather in `block`; `Publish` applies it and puts a notice for each into `stakingQ`, all
with the state *after* the block (`get_account_state`). `state` and `deposit` are
`CurrentRelayRound`. The lock under which the handlers store it, and the tasks compare it
and create their futures, makes each of these one step.

A `Notify` is modelled by who is woken. `loop.on` is the elections state that the loop of
`start_managing_elections` holds futures for, `loop.timings` the config it computed its
sleep from; `Wakes` says which states an event wakes, and `Manage` is the next look.
The messages of the loop are `LoopStarts` and `LoopEnds`, which FairSpec alone uses: what
they do, any relay may do. `ask[t]` is a `become_relay_next_round`: spawned in
round `t`, or run by `Staking::new` itself (`Inline`); a `spawned` task has not created
its `elections_end_notify` future yet. `phase` is `Staking::new`. `checks` are the
`update_participates_in_round_status` under way, and `rewards` the rounds for which some
`get_reward_for_relay_round` waits; two of one round are one. `Restart` loses all this.

Assumptions. `Quiet`: nothing happens between the block that the startup reads and its
subscription. `Prompt`: elections, which last days, do not start or end while the relay
has not handled news of them or polled the task it spawned, nor is a round initialized
before the relay has read that the staker asked for a seat. Rounds and elections do not
begin, and elections do not begin and end, in one block. A request for a seat is executed
if elections are on, the staker has not asked yet and has the tokens, and is repeated by
`deliver_message` until then; every candidate is seated.

What the code does and the model shows: a relay that starts during elections without the
tokens stays in `Staking::new` (`WaitsForTokens`) until the staker sends some or others end
the elections; meanwhile the loop does not run and `Engine::start` does not come to start
the EVM and Solana subscribers.

## 3. Runs

| Run | Question | Bounds |
|---|---|---|
| `voting` | can repeated deployments, repeated updates or a restart at any moment make two tasks vote, repeat a vote, lose or drop an event? is a due vote cast in the end, a settled event dropped? | fair, 1 event of either kind of family, 3 tasks, 1 failure, a second deployment or a crash |
| `voting_startup` | finding 1 | violation of `NoneForgotten` |
| `voting_tonsol` | finding 2 | violation of `ScanKeepsVotable` |
| `messages` | waiters, overdue messages, refinement; is every caller answered? | fair, 3 messages, 2 shards, 2 callers, times 0..3 |
| `eth_verdicts` | are confirmed events where they claim to be, are true claims rejected, does every `verify` return, do subscriptions that come and go leave the right filter? | fair, 1 log, 2 callers, 2 configurations, 2 blocks to confirm, 4 blocks, claims ahead of the node, 1 reorganisation of depth 2, 1 failure |
| `solana` | is the verdict true while it is held, do the votes on the two chains agree, is a ready proposal looked up in time, is every task answered, is a vote completed after a crash? | fair, 7 worlds: one event with the same or other data, 0 or 1 failures, 1 crash and other relays; one beside a proposal of each kind that can not be used, also with a crash; clock to 6, `Soon` 0, `Later` 1, `Expired` 3 |
| `configurations` | is a connector overlooked, a configuration dropped too early, too late or never, a code registered twice? | fair, 2 connectors, 2 configurations that share a connector or an event code, times 1..2, 1 enabling or disabling, 2 moves of an end |
| `configurations_startup` | finding 3 | violation of `Tracked` |
| `elections` | does the loop miss a notification, is a seat asked for when and only when it should be, is a reward forgotten, do rounds go on? | fair, 2 elections, 1 update of the config, 1 deposit or withdrawal, 1 restart, 2 events per block |
| `elections_participation` | finding 4 | violation of `ParticipationIsTrue` |
| `address` | is a second verification paid for, is a relay up that is not confirmed, does it come up in the end? | fair, 2 stakers, 2 addresses, 4 transactions, 3 faults among crashes, failures and switches |
| `ton_node` | do the indices stay true and agree across crashes, splits and redeployments, does the scan find every account fresh, do tasks and observers get what they wait for, does the start end? | fair, prefixes of 2 bits, the last account of the last shard, 7 worlds: a split or merge, or two transactions; a crash; an account that fails to load; 1 or 2 waiters, 1 observer |

Type invariants are not repeated by the runs: they are theorems.

Why the bounds are enough. One event suffices for races among tasks of an event,
since tasks of different events share only the channels, which delay, and the task
slots, which the code does not limit; what is proved holds for any number of events.
`TonSol` is left out of `Families` in `voting` because of finding 2: ETH->TON and TON->ETH
are the two kinds, one vote or all signatures. Three slots hold the preprocessing, the
update of the scan and that of the activation together. `MaxQueue` only delays votes of
others that change nothing. Two transactions per
block are the least that make the status after the block differ from the status
after the transaction. In the queue, two messages of one shard and one of another
are the least that separate "the minimum is another entry's" and "another shard's
block"; four time values give equal, earlier and later deadlines. In `EthSubscriber`
two callers of one log give the replaced confirmation, `MaxRange = 2` below the number
of blocks gives truncated ranges, one failure may hit either request, and two
configurations that share their address are the least for which dropping one must
not drop the other's filter. A caller starts while the chain still has a block to come that
reaches its target, since a bounded chain would otherwise strand it. In `SolanaVote` the
clock passes the expiry of an event created at any time, and with it every kind of interval
between checks; entries meet only in a round of checks that one of them ends, for which two
events suffice. In `Configurations` two connectors
make the listener wait, two moves put an end off after it was set, and the time step
separates the check for expired configurations from their collection. In `Elections` two
elections show what the first leaves behind, and two events are the least for which a
notice shows a later one's effect. In `AddressVerification` two faults put a process on the
remains of one that itself started on remains, the third may then lose its
transaction. In `TonNode` accounts do not interact: one, at the end of a range, where the
masks could be off by one, is in every shard of its branch down to one of its own; a `world`
keeps apart what is orthogonal, a split and the subscriptions of two waiters, say, and
together what is not, a split or a redeployment and a crash. Deadlock is not checked because
all bounds may be used up.

`QuietStart` says that no event is between its deployment message and its
activation while a relay starts; `voting` needs it because of finding 1, which
`voting_startup` shows without it.
`NoRevote` excepts an event that is deployed again and meets a crash: a vote of the dead
process lands, its notice removes the entry, the repeated deployment message adds it again
while the first task still tries to deliver, and that task sends one more vote, which the
contract refuses. `Crash` and `Order` share the bound `MaxDeploys`, so that `voting` meets
either but not both; the theorem covers every number of both.
`VotedInTheEnd` and `SettledIsDropped` are claimed until a task fails: a task that ends by
`?` leaves the entry with `processing_started` set, which the code accepts (it logs the
error).

Fairness. The runtime polls each task and listener (WF on `TaskStep`,
`HandleDeploy`, `HandleEvent`, `ScanEvent`, `Subscribe`, `LoadSnapshot`); shards
keep producing blocks (WF on the empty `Block`); a message that is not included
expires (WF on `Block(.., {t})`). Two assumptions concern the network, not the code:
a vote that is broadcast again and again is once spread (SF on `Send(t, TRUE)`) and
once included (SF on a block with it). Without them the relay retries for ever,
as it should. No fairness is assumed of other relays, of deployments or of crashes.
For the queue: blocks arrive and are handled to the end. For `EthSubscriber`: the chain
grows and the loop, which is spawned once and never returns, takes its next step. For
`SolanaVote`: the loop and the tasks are polled, time goes on, and an event that is due is
brought by its deployment or by the scan (WF on `Start`); that anybody creates a proposal
or that a vote in flight lands is not assumed. For
`Configurations`: tasks and listeners are polled, blocks and announced contracts arrive,
and the node does not fail for ever to give a shard state (SF on `GcCollect`). For
`Elections`: blocks are applied, tasks polled, the loop's own message is executed in the
end and a round follows its elections; no other relay is relied upon. The startup needs
strong fairness because it reads at a block's end. For `AddressVerification`: the process
runs and is started again, what is in the node's pool is mined and the other relays vote for
it. For `TonNode`: the node boots, hands over every state and block, gets synchronised, and
the runtime polls the startup task and the waiters.

### Findings

1. `voting_startup`: `iterate_events` treats `Nop` like `Vote` (`bridge/mod.rs:2243`)
   and starts an update for an event that is still `Initializing`. The update sets
   `processing_started` and returns at `Nop`; the update started by the activation
   then finds the flag set and ends. The event stays pending, never voted for. The
   comments at 664-665 and 2761 say that processing is postponed to the activation,
   which is what `preprocess_event` does.
2. `voting_tonsol`: the scan passes `event_type == EventType::TonEth` as "require all
   signatures" (2241), so that after a restart a `Confirmed` TON->SOL event that still
   collects signatures is skipped, although `TonSolEvent::REQUIRE_ALL_SIGNATURES` is
   true (2675) and everything else in the family acts on it.
3. `configurations_startup`: `get_all_configurations` reads the connectors from the block
   it waited for (1659) and observes each of them only at 1715. A connector enabled by a
   later block, executed before that, is heard of by nobody and stays without its
   configuration until the next start. The comment at 1655-1656 says that the lock makes
   sure "that all events will be queued in their handlers".
4. `elections_participation`: `update_participates_in_round_status` looks for the staking
   contract's address among the stakers of a new round (`staking/mod.rs:692`), where
   `Staking::new` looks for the staker's (111-113). After the first new round the flag,
   "Whether relay participates in current round" (37), is false for every relay.

## 4. Proofs

All theorems hold for every value of the constants under the named assumptions
`EventVotingAssumption`, `QueueAssumption`, `EthAssumption`, `SolSubscriberAssumption` with
`SolanaVoteAssumption`, `ConfigurationsAssumption`, `ElectionsAssumption`,
`VerificationAssumption` and (`TonNode`) `StorageAssumption`, `SubscriberAssumption` and
`TonNodeAssumption`, which say of what sort the constants are and little more, and what each
theorem states besides.

*EventVotingProofs.* `OneVoter` is not inductive: a second task may pass
`start_processing` if the flag is cleared, which happens when the event is removed
and added again while its first voter still runs. `IInv` adds `OneHolder` and
`VotersAreOne`, which tie the tasks past `start_processing` to the flag and to the
generation of the entry, and `NoticesHold`, which says what each notice in the
channel implies about the contract (a notice of our vote means that it is recorded,
a `Confirmed` status that the contract is confirmed, ...). Contract states only
advance, so `NoticesHold` is stable, and with it every arm of `HandleEvent` that
removes an entry finds a contract that takes no vote of ours: `NoEarlyDrop`
(theorem `DropsAreDue`). `ScanKeepsVotable` (theorem `ScanCorrect`) needs that `TonSol` is not
among the families, which is finding 2 turned round: for the others `ScanAction` is
`Action`, and an account is left to scan only while the relay is running. `NoRevote`
(theorem `VotesOnce`) is proved for any number of crashes. In the first life of a relay no
message of an earlier one is under way, so the block that records the vote delivers the
message of a task, and by `OneVoter` that task was the only one that sends: nobody is left
to. In a later life the vote may be that of the process that crashed, and then the task goes
on; `SentOnce` says that the entry it depends on is gone, or that the channel holds the
notice that removes it (`Closing`), and that nothing can add it again: the scan passes over
a contract that has our vote (which is active then, `Timely`), and no deployment message of
the event is in the channel, because the crash emptied it. `RunsRecord` and `NoticesTell`
supply the notice: the block holds the transaction that recorded the vote, and an entry has
an observer, which is told of all of them.

*PendingMessagesQueueProofs.* The inductive invariant is the conjunction of
`TypeOK`, `MinIsLeast`, `CountIsSize`, `WaiterHasEntry` and `NoneOverdue`: the early
return of `update` is right because `min_expire_at` is exact at every step, so the
check implies that nothing is due, and what other threads add between the check and
the next block is not due either. `Refinement` shows that every step is a step or a
stutter of `MessageStatus`; `NoneOverdue` is what makes `Deliver` legal.

*EthSubscriberProofs.* For `ExistsIsTrue` (theorem `Soundness`) the invariant ties three
things: owners of confirmations wait for the log they own, confirmations being looked
up are due (`Target <= to <= head`), and a receipt that equals a due claim stays true,
because a reorganisation can not reach it. For `NotExistsIsTrue` (`Completeness`) a
second invariant, of the states before any reorganisation, says that whatever was reported of a log is
where it is, and that a refuted claim can not become true: its block exists already.

*SolanaVoteProofs.* The invariant is a conjunction per event. `VerdictIsTrue` (theorem
`VerdictsCorrect`) follows from what was true when the loop answered (`AnswerIsTrue`), since
proposals are never closed and time does not go back: for `NotExists` this is subtle, as the
answer may be about an event listed before it expired (`QuestionFits`). For `VotesAgree`
(theorem `VotesCorrect`) one has to say what votes may still be in flight: `FirstLife`, a
relay that has not died knows one verdict; `VotesAreTrue`, once a later life rejected an
event whose proposal has its data, the event is expired and no life confirms it again; and
`StepFits`, a task that delivers without a vote on Solana found no proposal, and there is
none in flight. For `SoonChecked` (theorem `ChecksCorrect`) `EntryFits` says that a doubled
delay is no longer than the event is old, whence the last one is at most twice `Later`
(which the code's constants give: the first delay is not longer than the hour), that no
check that was due was left out, and that the unsigned difference of times wraps only before
the first check of an event. `WaitFits` counts the waits: of what was lost (`Lost`) each
failed request and each proposal that ended a round counts once, and whoever is listed for a
check has its next wait ahead already.

*AddressVerificationProofs.* `OneInPool` needs that what is in the pool is what the file
names (`PoolIsSaved`), from the save to the poll and through every crash in between, and that
a new transaction is signed only without a file (`FileFits`); a torn file ends the process
before it comes to sign. `UpIsConfirmed` follows from `HeardIsTrue`: what was read or heard of
the staker's confirmations stays true while the process lives, because only an operator who
stops it may undo them.

*ConfigurationsProofs.* `RegistryCovers` is inductive. The others are proved for a
`Quiet` environment, as explained above. `EndsAreCurrent` says that whatever end
timestamp was told, read or put into the snapshot is the current one; with it
`KnownIsCurrent` is inductive, and `NoEarlyRemoval` (theorem `RemovalCorrect`) follows
because the collection's time is not past the last block. `Tracked` follows from four
facts: a connector is known, announced or about to be visited (`AllHeardOf`); the
snapshot is still true of what is to be visited (`SnapshotHolds`); a known connector
that was announced has its check waiting for it, and one that is enabled has its
configuration added, an `Enable` in the channel, or a check under way
(`KnownAreChecked`); and an end that was never set is 0 wherever it is kept
(`UnsetIsZero`), so that a check in flight adds what it read.

*ElectionsProofs.* `LoopListens` is about a relay that has handled everything; the
invariant says it of every state. `Told(s, t, k, ...)` means that who looked at the state
`s` with timings `t` either has seen elections as they are, or will be woken by an event
that is in the channel from position `k` on or in the block. It holds of the loop, of
the relay's copy, and of the state in each notice, from the notice's own position on: the
events that a contract emits on leaving `s` are those that wake `s` (`ToldAfterEmit`), so
it survives every transaction, the application of a block and the handling of a notice.
It needs `Quiet` (theorem `LoopCorrect`). `RewardsCovered` (theorem `RewardsCorrect`) needs
no assumption: a seated round is collected for, or announced by a notice to come, and a
block begins one round at most (`OneRound`).

`StopsAtEnd`, `ElectedIsTrue` and `Candidacy` (theorems `StopsCorrect`, `ElectedCorrect`,
`CandidacyCorrect`) are about a relay that has handled everything, too, and need `Quiet` and
`Prompt`: a relay that lags behind a whole election may ask in vain. Their invariants say of every
state what holds but for news on their way (`Comes`, `UserComes`): which events can be in the
channel and the block together (`NewsShape`), that nobody asks once the end was handled
(`AskShape`), that the flag is the contract's (`FlagShape`), that who has no seat is about to
ask (`CandidateShape`), and that the need and the balance the relay knows are the contract's,
also in every notice from its own position on (`NeedShape`, `BalanceShape`), so that who waits
for tokens lacks them or will look again (`WaitShape`).

*TonNodeProofs.* Nothing is assumed here of the environment (`NoGap` is for liveness alone), and
accounts, splits, merges, transactions and crashes are as many as one likes. The prefixes come
first. A power of two is what only even numbers (and 1) divide, from which a least-element argument
gives that one of two powers divides the other (`PowersDivide`), hence that a prefix has one tag
(`OneTag`), that `contains_account`, the range of keys and the mask of the scan pick the same
accounts (`ContainsIs`), and that the halves of a split share out the accounts of the whole
(`SplitShape`). With that, every round's shards cover each address once (`ChainShape`) and the
round before is one split or merge away, which is all that the rest knows of shards.

`IndexIsTrue` (theorem `IndexCorrect`) needs to say what a `reset_accounts` has left to do
(`IndexShape`): the secondary index has nothing of its shard any more and what the primary
still has is among the keys to delete, so that a crash between the two leaves the primary
the larger one; from the last full state on, the two are equal. A block's batch is judged by
its first and last special transaction; that the others can not matter is an induction over
the block. `ScanIsFresh` (`ScanCorrect`) rests on `CacheShape`: the cache holds the shards
that are done, and of the round before exactly those which a shard not yet done still
follows; and on `StartShape`: an edge lies between the two waits of the start, so there is a
snapshot when it reads. `FailsOnlyOnRemoval` (`FailuresCorrect`) follows. `StatesAreCurrent`
and `ObserverHearsAll` (`StatesCorrect`, `ObserversCorrect`) follow from `SubShape`: a
receiver and an observer keep the entry they belong to, and a channel with an unseen value
holds the state of the last block, or an account failed to load.

Every inductive invariant was first checked with TLC, as an invariant of the component's run.

Only model-checked: liveness (`VotedInTheEnd`, `SettledIsDropped`, `EveryCallerIsAnswered`,
`VerifyReturns`, `EveryAskAnswered`, `VotesComplete`, `EndedIsDropped`, `EnabledIsFollowed`,
`ElectionsGoOn`, `UpInTheEnd`, `EventuallyStarted`, `WaiterReturns`), which is out of the
prover's reach.

## 5. Plan

In order of what matters to the correctness of votes. Done: `EventVoting`,
`PendingMessagesQueue` with `MessageStatus`, `EthSubscriber`, `Configurations`, `SolSubscriber`
with `SolanaVote`, `Elections`, `Storage` and `TonSubscriber` under `TonNode`,
`AddressVerification`, and the proofs of section 4. Left:

1. The verification of SOL->TON deposits beside `SolanaVote`: two requests and a poll.
2. The pure helpers against reference definitions: `MemoryCache`, the retry policies.

### Not modelled

Of the modelled components: the verification of SOL->TON deposits, which keeps no state;
several awaiters of a masterchain block at once (the configurations, the collection and the
startup await one each, and share nothing but the block); the signature id, which a message
carries and no property depends on; getters that fail in `Elections`; the shutdown of a relay
whose staker sends other keys.

Not to be modelled: the keystore and signatures, ABI encoding, RPC transports and their pools
of endpoints, metrics, the command line, configuration parsing and token metadata with its
`MemoryCache`. They keep no state that the properties depend on; the retry policies only
lengthen a request, which is one step here.
