------------------------------ MODULE EventVoting ------------------------------
(***************************************************************************)
(* The life of the event contracts of ONE event family inside one relay:   *)
(* src/src/engine/bridge/mod.rs, with the parts of engine/mod.rs and       *)
(* engine/ton_subscriber/mod.rs it runs on.                                *)
(*                                                                         *)
(* The four families (ETH->TON, TON->ETH, SOL->TON, TON->SOL) share this   *)
(* control; they differ in whether they collect all signatures, in whether *)
(* the startup scan knows that they do, and in how an event is verified,   *)
(* which is abstracted to its outcome.                                     *)
(*                                                                         *)
(* A relay learns of an event from the configuration's deployment message  *)
(* (cfgQ), or from the scan at startup; it keeps it in `pending` with an   *)
(* observer of the contract's transactions (which feed evQ), runs the      *)
(* tasks that read the contract, verify the event and deliver the vote,    *)
(* and drops it when the vote is no longer due.                            *)
(***************************************************************************)
EXTENDS Naturals, Sequences, FiniteSets

CONSTANTS
  Events,          \* accounts of the event contracts of the family
  NoEvent,         \* the `ev` of a task slot that holds no task
  Families,        \* families to consider; all events are of one of them
  QuietStart,      \* environment: no event is being deployed while a relay starts
  NumTasks,        \* bound: background tasks alive at once
  MaxDeploys,      \* bound: deployment messages of an event, and crashes, taken together
  MaxQueue,        \* bound: votes of others that decide nothing wait for a queue shorter than this
  MaxCrashes,      \* bound: crashes
  MaxFailures      \* bound: tasks ended by `?`

ASSUME EventVotingAssumption ==
  /\ NoEvent \notin Events
  /\ Families \subseteq {"EthTon", "TonEth", "SolTon", "TonSol"}
  /\ QuietStart \in BOOLEAN
  /\ {NumTasks, MaxDeploys, MaxQueue, MaxCrashes, MaxFailures} \subseteq Nat

VARIABLES
  (* the event contracts, and the network *)
  acc,        \* acc[e]: see Account
  deploys,    \* deploys[e]: NewEventContract messages emitted for e so far
  orphan,     \* orphan[e]: a vote broadcast by a process that crashed may still land
  (* the relay *)
  phase,      \* "down", "subscribed" (get_all_configurations done), "running"
  toScan,     \* accounts of the startup snapshot that iterate_events has yet to visit
  pending,    \* keys of EventsState::pending
  started,    \* PendingEventState::processing_started of a pending event
  gen,        \* gen[e]: which observer of e the map holds (one per add_pending_event)
  unseen,     \* unseen[e]: state_rx of e's subscription holds a value not yet marked seen
  cfgQ, evQ,  \* channels: new event accounts; transactions of event contracts
  task,       \* task[t]: the background task in slot t
  (* bounds *)
  crashes, failures

chainVars == <<acc, deploys, orphan>>
relayVars == <<phase, toScan, pending, started, gen, unseen, cfgQ, evQ, task>>
vars == <<chainVars, relayVars, crashes, failures>>

Statuses == {"none", "Initializing", "Pending", "Confirmed", "Rejected"}
Kinds == {"activate", "ours", "foreign", "rejected", "closed"}

\* An event contract: its status, whether our vote is recorded and whether it
\* still holds its initial balance; and what never changes: its family, whether
\* our key is among the relays of its round, and whether its API version is
\* SUPPORTED_API_VERSION.
Account ==
  [status : Statuses, voted : BOOLEAN, funded : BOOLEAN,
   family : Families, relay : BOOLEAN, supported : BOOLEAN]

\* EventExt::REQUIRE_ALL_SIGNATURES of an account's family.
CollectsAll(a) == a.family \in {"TonEth", "TonSol"}
Notice == [ev : Events, kind : Kinds, status : Statuses]

Tid == 1..NumTasks

\* Where a task is between two awaits. preWait/preReady: preprocess_event in
\* wait_contract_state; start: update_*_event before start_processing;
\* wait/ready: update_*_event in wait_contract_state; verify: configuration
\* lookup and verification; observe: before pending.get; loop: head of
\* deliver_message's loop; sent: awaiting the message status; delivered: about
\* to leave the loop and drop the observer.
Waiting == {"preWait", "preReady", "wait", "ready"}
Delivering == {"loop", "sent", "delivered"}
Pcs == {"idle", "start", "verify", "observe"} \cup Waiting \cup Delivering

Task == [pc : Pcs, ev : Events \cup {NoEvent}, gen : Nat, live : BOOLEAN]
Idle == [pc |-> "idle", ev |-> NoEvent, gen |-> 0, live |-> FALSE]

-----------------------------------------------------------------------------
(* Event contracts: what `process` makes of a state, and which transactions *)
(* a contract can execute (external: from how the relay reads them).        *)

\* EventBaseContract::process with our key.
Process(a, requireAll) ==
  CASE a.status = "Initializing" -> "Nop"
    [] /\ ~a.voted /\ a.relay /\ a.supported
       /\ \/ a.status = "Pending"
          \/ a.status = "Confirmed" /\ requireAll /\ a.funded -> "Vote"
    [] OTHER -> "Remove"

Action(e) == Process(acc[e], CollectsAll(acc[e]))
Votable(e) == Action(e) = "Vote"

Tx(kind, vote, to) == [kind |-> kind, vote |-> vote, to |-> to]
When(guard, S) == IF guard THEN S ELSE {}
TakesVotes(a) == a.status = "Pending" \/ (a.status = "Confirmed" /\ CollectsAll(a))
ConfirmedOr(a) == {a, [a EXCEPT !.status = "Confirmed"]}

\* Transactions of e's contract from state a: its deployment (which is no
\* event), receiveRoundRelays, other relays' votes, the last of which decides,
\* our vote if a message of ours is in the network, and close.
Transactions(e, a, ours) ==
  UNION {
    When(a.status = "none" /\ deploys[e] > 0,
         {Tx("created", FALSE, [a EXCEPT !.status = "Initializing"])}),
    When(a.status = "Initializing",
         {Tx("activate", FALSE, [a EXCEPT !.status = "Pending"])}),
    When(TakesVotes(a), {Tx("foreign", FALSE, b) : b \in ConfirmedOr(a)}),
    When(a.status = "Pending",
         {Tx("rejected", FALSE, [a EXCEPT !.status = "Rejected"])}),
    When(TakesVotes(a) /\ ours /\ ~a.voted /\ a.relay,
         {Tx("ours", TRUE, [b EXCEPT !.voted = TRUE]) : b \in ConfirmedOr(a)}
         \cup When(a.status = "Pending",
                   {Tx("rejected", TRUE,
                       [a EXCEPT !.status = "Rejected", !.voted = TRUE])})),
    When(CollectsAll(a) /\ a.status = "Confirmed" /\ a.funded,
         {Tx("closed", FALSE, [a EXCEPT !.funded = FALSE])}) }

\* What one block may hold of e: no, one or two transactions.
Runs(e, ours) ==
  LET first == Transactions(e, acc[e], ours)
  IN  {<<>>} \cup {<<x>> : x \in first}
      \cup UNION {{<<x, y>> : y \in Transactions(e, x.to, ours)} : x \in first}

-----------------------------------------------------------------------------
(* The relay's own data.                                                     *)

TasksOf(e) == {t \in Tid : task[t].ev = e}

\* Observers of e that are alive: the one in the map and those cloned by tasks
\* that deliver a vote.  The subscription holds them weakly.
LiveObservers(e) ==
  {gen[x] : x \in {e} \cap pending}
  \cup {task[t].gen : t \in {u \in TasksOf(e) : task[u].pc \in Delivering}}

AwaitingStatus(e) == {t \in TasksOf(e) : task[t].pc = "sent"}

\* Votes for e that a block may include; 0 stands for an orphaned one.
Carriers(e) == {t \in AwaitingStatus(e) : task[t].live} \cup When(orphan[e], {0})

HasFreeTask == \E t \in Tid : task[t].pc = "idle"
Spawn(pc, e) ==
  [task EXCEPT ![CHOOSE t \in Tid : task[t].pc = "idle"] =
                 [Idle EXCEPT !.pc = pc, !.ev = e]]

\* add_pending_event: the entry and its observer.
AddPending(e) ==
  /\ pending' = pending \cup {e}
  /\ started' = [started EXCEPT ![e] = FALSE]
  /\ gen' = [gen EXCEPT ![e] = @ + 1]

Remove(e) == pending' = pending \ {e}

\* deliver_message retries when its message expired (mutant: it leaves the loop
\* as it does when the message was delivered).
AfterExpiry_GivesUp == "delivered"
AfterExpiry == "loop"

\* Where a task goes that asks for the contract state: it clones state_rx.
AskState(e, waiting, ready) == IF unseen[e] THEN ready ELSE waiting

-----------------------------------------------------------------------------
(* The chain                                                                 *)

Init ==
  /\ \E family \in Families, relay, supported \in [Events -> BOOLEAN] :
       acc = [e \in Events |->
                [status |-> "none", voted |-> FALSE, funded |-> TRUE,
                 family |-> family, relay |-> relay[e], supported |-> supported[e]]]
  /\ deploys = [e \in Events |-> 0]
  /\ orphan = [e \in Events |-> FALSE]
  /\ phase = "down" /\ toScan = {} /\ pending = {}
  /\ started = [e \in Events |-> FALSE]
  /\ gen = [e \in Events |-> 0]
  /\ unseen = [e \in Events |-> FALSE]
  /\ cfgQ = <<>> /\ evQ = <<>>
  /\ task = [t \in Tid |-> Idle]
  /\ crashes = 0 /\ failures = 0

\* The configuration contract emits NewEventContract for e; its observer, once
\* subscribed, passes the account on.
Order(e) ==
  /\ deploys[e] + crashes < MaxDeploys
  /\ QuietStart => phase = "running" /\ toScan = {}
  /\ deploys' = [deploys EXCEPT ![e] = @ + 1]
  /\ cfgQ' = IF phase = "down" THEN cfgQ ELSE Append(cfgQ, e)
  /\ UNCHANGED <<acc, orphan, phase, toScan, pending, started, gen, unseen,
                 evQ, task, crashes, failures>>

\* The transactions a live observer reads an event from, all but a deployment,
\* each with the status of the account after the block (mutant: the handler returns after the first).
Observed(e, txs, status) ==
  LET read == IF Head(txs).kind = "created" THEN Tail(txs) ELSE txs
      n    == Cardinality(LiveObservers(e))
  IN  [i \in 1 .. n * Len(read) |->
         [ev |-> e, kind |-> read[((i - 1) \div n) + 1].kind, status |-> status]]

Notices_FirstOnly(e, run) ==
  IF run = <<>> THEN <<>> ELSE Observed(e, <<Head(run)>>, run[Len(run)].to.status)
Notices(e, run) ==
  IF run = <<>> THEN <<>> ELSE Observed(e, run, run[Len(run)].to.status)

\* handle_shard_block for a block with the transactions `run` of e, in which
\* our vote, if any, is message `by`, and after which the messages `lapsed`
\* are past their expire_at (messages_queue.update).
Block(e, run, by, lapsed) ==
  /\ run # <<>> /\ run[Len(run)].to = acc[e] => Len(evQ) < MaxQueue
  /\ LET receivers == {t \in TasksOf(e) : task[t].pc \in Waiting}
         voted == run # <<>> /\ run[Len(run)].to.voted # acc[e].voted
     IN
     /\ IF voted THEN by \in Carriers(e) ELSE by = 0
     /\ lapsed \subseteq AwaitingStatus(e) \ {by}
     /\ acc' = IF run = <<>> THEN acc ELSE [acc EXCEPT ![e] = run[Len(run)].to]
     /\ orphan' = [orphan EXCEPT ![e] = @ /\ ~(voted /\ by = 0)]
     /\ evQ' = evQ \o Notices(e, run)
     /\ unseen' = [unseen EXCEPT ![e] = receivers # {}]
     /\ task' = [t \in Tid |->
          CASE t \in receivers ->
                 [task[t] EXCEPT !.pc = IF @ \in {"preWait", "preReady"}
                                        THEN "preReady" ELSE "ready"]
            [] voted /\ t = by /\ LiveObservers(e) # {} ->
                 [task[t] EXCEPT !.pc = "delivered", !.live = FALSE]
            [] t \in lapsed -> [task[t] EXCEPT !.pc = AfterExpiry, !.live = FALSE]
            [] OTHER -> task[t]]
  /\ UNCHANGED <<deploys, phase, toScan, pending, started, gen, cfgQ,
                 crashes, failures>>

AnyBlock(e) ==
  \E run \in Runs(e, Carriers(e) # {}), by \in Tid \cup {0} :
    \E lapsed \in SUBSET AwaitingStatus(e) : Block(e, run, by, lapsed)

\* The vote of a process that crashed expires without having landed.
OrphanExpires(e) ==
  /\ orphan[e]
  /\ orphan' = [orphan EXCEPT ![e] = FALSE]
  /\ UNCHANGED <<acc, deploys, relayVars, crashes, failures>>

-----------------------------------------------------------------------------
(* Startup, and the listeners of the two channels                            *)

\* Bridge::new up to get_all_configurations: every configuration is observed.
Subscribe ==
  /\ phase = "down"
  /\ QuietStart => \A e \in Events :
       deploys[e] > 0 => acc[e].status \notin {"none", "Initializing"}
  /\ phase' = "subscribed"
  /\ UNCHANGED <<chainVars, toScan, pending, started, gen, unseen, cfgQ, evQ,
                 task, crashes, failures>>

\* get_all_events: take the snapshot of the code hash index.
LoadSnapshot ==
  /\ phase = "subscribed"
  /\ phase' = "running"
  /\ toScan' = {e \in Events : acc[e].status # "none"}
  /\ UNCHANGED <<chainVars, pending, started, gen, unseen, cfgQ, evQ, task,
                 crashes, failures>>

\* iterate_events: what `process` says of an account of the snapshot (mutant:
\* the signatures of a confirmed event are not collected).
ScanAction_NeverAll(e) == Process(acc[e], FALSE)
ScanAction(e) == Process(acc[e], acc[e].family = "TonEth")

\* iterate_events: one account of the snapshot.
ScanEvent(e) ==
  /\ e \in toScan
  /\ toScan' = toScan \ {e}
  /\ IF ScanAction(e) # "Remove" /\ e \notin pending
     THEN /\ HasFreeTask
          /\ AddPending(e)
          /\ task' = Spawn("start", e)
     ELSE UNCHANGED <<pending, started, gen, task>>
  /\ UNCHANGED <<chainVars, phase, unseen, cfgQ, evQ, crashes, failures>>

\* process_*_event_configuration_event: a deployed event.
HandleDeploy ==
  /\ cfgQ # <<>>
  /\ cfgQ' = Tail(cfgQ)
  /\ LET e == Head(cfgQ)
     IN  IF e \notin pending
         THEN /\ HasFreeTask
              /\ AddPending(e)
              /\ task' = Spawn(AskState(e, "preWait", "preReady"), e)
         ELSE UNCHANGED <<pending, started, gen, task>>
  /\ UNCHANGED <<chainVars, phase, toScan, unseen, evQ, crashes, failures>>

\* The arms of process_*_event that remove the entry (mutant: the vote of any
\* relay is taken for ours).
Ends_AnyVote(n) == n.kind \in {"ours", "foreign"}
Ends(n) ==
  \/ n.kind = "rejected" \/ n.status = "Rejected"
  \/ IF CollectsAll(acc[n.ev]) THEN n.kind = "closed" /\ n.status = "Confirmed"
                   ELSE n.status = "Confirmed"
  \/ n.kind = "activate" /\ ~acc[n.ev].relay
  \/ n.kind = "ours"

\* process_*_event.
HandleEvent ==
  /\ evQ # <<>>
  /\ evQ' = Tail(evQ)
  /\ LET n == Head(evQ)
     IN  \/ n.ev \in pending /\ Ends(n) /\ Remove(n.ev) /\ UNCHANGED task
         \/ /\ n.ev \in pending /\ ~Ends(n) /\ n.kind = "activate"
            /\ HasFreeTask
            /\ task' = Spawn("start", n.ev)
            /\ UNCHANGED pending
         \/ /\ n.ev \notin pending \/ (~Ends(n) /\ n.kind # "activate")
            /\ UNCHANGED <<pending, task>>
  /\ UNCHANGED <<chainVars, phase, toScan, started, gen, unseen, cfgQ,
                 crashes, failures>>

-----------------------------------------------------------------------------
(* Tasks                                                                     *)

Goto(t, pc) == task' = [task EXCEPT ![t].pc = pc]

\* The slot of a finished task is released.
Finish(t) == task' = [task EXCEPT ![t] = Idle]

\* A task that has read an active contract leaves it for later, drops the event,
\* or goes on with it.
ActOn(t, action, next) ==
  \/ action = "Nop" /\ Finish(t) /\ UNCHANGED pending
  \/ action = "Remove" /\ Finish(t) /\ Remove(task[t].ev)
  \/ action = "Vote" /\ Goto(t, next) /\ UNCHANGED pending

\* What preprocess_event makes of the state.
PreprocessAction(e) == Action(e)

\* preprocess_event, once the watch has a new value.
Preprocess(t) ==
  /\ task[t].pc = "preReady"
  /\ LET e == task[t].ev
     IN  \/ acc[e].status = "none" /\ Goto(t, "preWait") /\ UNCHANGED pending
         \/ acc[e].status # "none" /\ ActOn(t, PreprocessAction(e), "start")
  /\ UNCHANGED <<chainVars, phase, toScan, started, gen, unseen, cfgQ, evQ,
                 crashes, failures>>

\* start_processing (mutant: the flag is set but not looked at).
MayStart_Always(e) == e \in pending
MayStart(e) == e \in pending /\ ~started[e]

\* update_*_event: start_processing, then the contract state is asked for.
StartProcessing(t) ==
  /\ task[t].pc = "start"
  /\ LET e == task[t].ev
     IN  \/ /\ MayStart(e)
            /\ started' = [started EXCEPT ![e] = TRUE]
            /\ Goto(t, AskState(e, "wait", "ready"))
         \/ /\ ~MayStart(e)
            /\ Finish(t)
            /\ UNCHANGED started
  /\ UNCHANGED <<chainVars, phase, toScan, pending, gen, unseen, cfgQ, evQ,
                 crashes, failures>>

\* update_*_event, once the watch has a new value.
Decide(t) ==
  /\ task[t].pc = "ready"
  /\ LET e == task[t].ev
     IN  \/ acc[e].status = "none" /\ Goto(t, "wait") /\ UNCHANGED pending
         \/ /\ acc[e].status # "none"
            /\ ActOn(t, Action(e), "verify")
  /\ UNCHANGED <<chainVars, phase, toScan, started, gen, unseen, cfgQ, evQ,
                 crashes, failures>>

\* The verification gave a verdict, or the event is skipped: its configuration
\* or subscriber is unknown, or verify returned an error.
Verify(t) ==
  /\ task[t].pc = "verify"
  /\ \/ Goto(t, "observe") /\ UNCHANGED pending
     \/ Finish(t) /\ Remove(task[t].ev)
  /\ UNCHANGED <<chainVars, phase, toScan, started, gen, unseen, cfgQ, evQ,
                 crashes, failures>>

\* Clone the observer of the entry, if it is still there.
TakeObserver(t) ==
  /\ task[t].pc = "observe"
  /\ LET e == task[t].ev
     IN  IF e \in pending
         THEN task' = [task EXCEPT ![t].pc = "loop", ![t].gen = gen[e]]
         ELSE Finish(t)
  /\ UNCHANGED <<chainVars, phase, toScan, pending, started, gen, unseen, cfgQ,
                 evQ, crashes, failures>>

\* The condition of deliver_message (mutant: it is not asked).
StillDue_Always(t) == TRUE
StillDue(t) == task[t].ev \in pending

\* One iteration of deliver_message: the condition, then send_ton_message.
\* The broadcast may fail, which is only logged.
Send(t, broadcast) ==
  /\ task[t].pc = "loop" /\ StillDue(t)
  /\ task' = [task EXCEPT ![t].pc = "sent", ![t].live = broadcast]
  /\ UNCHANGED <<chainVars, phase, toScan, pending, started, gen, unseen, cfgQ,
                 evQ, crashes, failures>>

\* The end of deliver_message: the condition is false or the message was
\* delivered; the observer is dropped.
StopDelivering(t) ==
  /\ \/ task[t].pc = "loop" /\ ~StillDue(t)
     \/ task[t].pc = "delivered"
  /\ Finish(t)
  /\ UNCHANGED <<chainVars, phase, toScan, pending, started, gen, unseen, cfgQ,
                 evQ, crashes, failures>>

\* A task ends by `?`: a getter failed, an account is frozen, a message could
\* not be queued.  spawn_background_task logs it; the entry stays.
Fail(t) ==
  /\ task[t].pc \in {"preReady", "ready", "verify", "loop"}
  /\ failures < MaxFailures
  /\ failures' = failures + 1
  /\ Finish(t)
  /\ UNCHANGED <<chainVars, phase, toScan, pending, started, gen, unseen, cfgQ,
                 evQ, crashes>>

\* The process dies.  Nothing of this state is persisted; its messages may
\* still land.
Crash ==
  /\ phase # "down" /\ crashes < MaxCrashes
  /\ \A e \in Events : deploys[e] + crashes < MaxDeploys
  /\ crashes' = crashes + 1
  /\ orphan' = [e \in Events |-> orphan[e] \/ \E t \in AwaitingStatus(e) : task[t].live]
  /\ phase' = "down" /\ toScan' = {} /\ pending' = {}
  /\ started' = [e \in Events |-> FALSE]
  /\ gen' = [e \in Events |-> 0]
  /\ unseen' = [e \in Events |-> FALSE]
  /\ cfgQ' = <<>> /\ evQ' = <<>>
  /\ task' = [t \in Tid |-> Idle]
  /\ UNCHANGED <<acc, deploys, failures>>

TaskStep(t) ==
  \/ Preprocess(t) \/ StartProcessing(t) \/ Decide(t) \/ Verify(t)
  \/ TakeObserver(t) \/ (\E b \in BOOLEAN : Send(t, b)) \/ StopDelivering(t)

Next ==
  \/ \E e \in Events : Order(e) \/ AnyBlock(e) \/ OrphanExpires(e) \/ ScanEvent(e)
  \/ Subscribe \/ LoadSnapshot \/ HandleDeploy \/ HandleEvent
  \/ \E t \in Tid : TaskStep(t) \/ Fail(t)
  \/ Crash

Spec == Init /\ [][Next]_vars

\* The runtime polls every task and listener; a shard keeps producing blocks; a
\* message that is not included expires; and a vote that is broadcast over and
\* over is in the end both spread by the network and included.
Fairness ==
  /\ WF_vars(Subscribe) /\ WF_vars(LoadSnapshot)
  /\ WF_vars(HandleDeploy) /\ WF_vars(HandleEvent)
  /\ \A e \in Events :
       /\ WF_vars(ScanEvent(e))
       /\ WF_vars(Block(e, <<>>, 0, {}))
       /\ SF_vars(\E run \in Runs(e, Carriers(e) # {}), by \in Tid \cup {0} :
                     /\ \E i \in DOMAIN run : run[i].vote
                     /\ Block(e, run, by, {}))
  /\ \A t \in Tid :
       /\ WF_vars(TaskStep(t))
       /\ SF_vars(Send(t, TRUE))
       /\ \A e \in Events : WF_vars(Block(e, <<>>, 0, {t}))

FairSpec == Spec /\ Fairness

-----------------------------------------------------------------------------
(* Properties                                                                *)

TypeOK ==
  /\ acc \in [Events -> Account]
  /\ deploys \in [Events -> Nat]
  /\ orphan \in [Events -> BOOLEAN]
  /\ phase \in {"down", "subscribed", "running"}
  /\ toScan \subseteq Events
  /\ pending \subseteq Events
  /\ started \in [Events -> BOOLEAN]
  /\ gen \in [Events -> Nat]
  /\ unseen \in [Events -> BOOLEAN]
  /\ cfgQ \in Seq(Events)
  /\ evQ \in Seq(Notice)
  /\ task \in [Tid -> Task]
  /\ \A t \in Tid : /\ task[t].pc = "idle" <=> task[t].ev = NoEvent
                    /\ task[t].live => task[t].pc = "sent"
  /\ crashes \in Nat /\ failures \in Nat

\* "It is ok to update_ton_event twice because in fact it will do anything only
\* once": the preprocessing, the relay keys' transaction and the startup scan
\* may each start an update, and a repeated deployment message may bring back
\* an event whose update still runs, yet no two tasks ever vote for one event.
OneVoter ==
  \A e \in Events :
    Cardinality({t \in TasksOf(e) :
                   task[t].pc \in {"verify", "observe"} \cup Delivering}) <= 1

\* An event that still waits for our vote is never left in `pending` with
\* nothing that would go on to process it: there is a task of it, or the
\* relay keys' transaction is in the channel.  (A task that ends by an error
\* does leave its event: the code logs it and goes on.)
NoneForgotten ==
  \A e \in pending :
    failures = 0 /\ Votable(e) => \/ TasksOf(e) # {}
                  \/ \E i \in DOMAIN evQ : evQ[i].ev = e /\ evQ[i].kind = "activate"

\* The relay drops a pending event only when its contract no longer takes our
\* vote, or when the verification could not be carried out.
NoEarlyDrop ==
  [][\A e \in Events :
       e \in pending /\ e \notin pending' /\ phase' # "down" =>
         \/ ~Votable(e)
         \/ \E t \in TasksOf(e) : task[t].pc = "verify" /\ task'[t].pc = "idle"]_vars

\* A vote is never sent again to a contract that has recorded it, once the
\* relay has processed the transaction that did: while it has not, the
\* transaction is in the channel.  The exception is an event that is deployed
\* again and meets a crash: the notice of a vote of the dead process removes the
\* entry, and the second message adds it again while the task still delivers.
NoRevote ==
  [][\A t \in Tid :
       LET e == task[t].ev
       IN  task[t].pc # "sent" /\ task'[t].pc = "sent" =>
             \/ ~acc[e].voted
             \/ \E i \in DOMAIN evQ : /\ evQ[i].ev = e
                                      /\ evQ[i].kind = "ours" \/ evQ[i].status = "Rejected"
             \/ crashes > 0 /\ deploys[e] > 1]_vars

\* The startup scan takes up every event that still waits for our vote, so that
\* a restart does not change which events the relay votes for.
ScanKeepsVotable ==
  [][\A e \in Events :
       e \in toScan /\ e \notin toScan' /\ phase' # "down" /\ Votable(e)
         => e \in pending']_vars

\* An event whose vote is due, and that the relay has in `pending`, is in the
\* end voted for, decided without us, or dropped as unverifiable; unless a task
\* ended by an error, which leaves the event where it is.
VotedInTheEnd ==
  \A e \in Events :
    (e \in pending /\ Votable(e)) ~> (~Votable(e) \/ e \notin pending \/ failures > 0)

\* A pending event whose contract takes no more votes of ours leaves `pending`,
\* with the same exception.
Settled(e) == acc[e].status # "none" /\ Action(e) = "Remove"
SettledIsDropped ==
  \A e \in Events :
    (e \in pending /\ Settled(e)) ~> (e \notin pending \/ failures > 0)
================================================================================
