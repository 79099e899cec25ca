------------------------------ MODULE SolanaVote -------------------------------
(***************************************************************************)
(* src/src/engine/bridge/mod.rs, update_ton_sol_event: a relay votes for a *)
(* TON->SOL event twice, on Solana and then in the event's contract, and   *)
(* executes the proposal in between.  One event per proposal; how a task   *)
(* gets from the contract to its configuration and how a vote gets to TON  *)
(* is EventVoting's.                                                       *)
(*                                                                         *)
(* The program of the proposals is external.  It records one vote per      *)
(* relay; whether it refuses a second one or lets it pass without effect   *)
(* can not be told from the code here, so it may do either.  Proposals are *)
(* never closed, as the code supposes (sol_subscriber/mod.rs:255).         *)
(***************************************************************************)
EXTENDS SolSubscriber

CONSTANT
  ExecuteNeeded  \* environment: events with execute_needed

ASSUME SolanaVoteAssumption == ExecuteNeeded \subseteq Proposals

VARIABLES
  created,   \* created[p]: created_at of the event, 0 while there is none
  decided,   \* decided[p]: others have rejected or closed the event
  tonVote,   \* tonVote[p]: our vote in the event's contract
  vote,      \* vote[p]: our vote among the proposal's signers
  flight,    \* flight[p]: votes that were sent and may land without being awaited
  executed,  \* events whose proposal we executed
  known,     \* ton_sol_events_state.pending
  pc,        \* pc[p]: where the event's task is, see Pcs
  verdict,   \* verdict[p]: what the task makes of its answer
  crashes

eventVars == <<created, decided, tonVote, vote, flight, executed>>
taskVars == <<known, pc, verdict>>
vars == <<solVars, eventVars, taskVars, crashes>>

Votes == {"none", "confirm", "reject"}

\* No task yet; in verify_ton_sol_event; before is_already_voted; sending the
\* vote; before get_signature_status; before the execution; before pending.get
\* and deliver_message; done.
Pcs == {"idle", "verify", "check", "send", "status", "execute", "deliver", "ended"}

Init ==
  /\ SolInit
  /\ created = [p \in Proposals |-> 0]
  /\ decided = [p \in Proposals |-> FALSE]
  /\ tonVote = [p \in Proposals |-> "none"]
  /\ vote = [p \in Proposals |-> "none"]
  /\ flight = [p \in Proposals |-> {}]
  /\ executed = {}
  /\ known = {}
  /\ pc = [p \in Proposals |-> "idle"]
  /\ verdict = [p \in Proposals |-> "none"]
  /\ crashes = 0

-----------------------------------------------------------------------------
(* TON and Solana (external)                                                 *)

\* An event is created on TON, whose clock may be ahead of ours, in time to
\* expire within the bound.
Create(p, time) ==
  /\ created[p] = 0 /\ Data(p) # "absent" /\ time + Expired < MaxClock
  /\ created' = [created EXCEPT ![p] = time]
  /\ UNCHANGED <<solVars, decided, tonVote, vote, flight, executed, taskVars, crashes>>

\* Other relays reject or close the event, whose transaction removes the entry.
Decide(p) ==
  /\ world.others /\ created[p] > 0 /\ ~decided[p]
  /\ decided' = [decided EXCEPT ![p] = TRUE]
  /\ known' = known \ {p}
  /\ UNCHANGED <<solVars, created, tonVote, vote, flight, executed, pc, verdict, crashes>>

\* The program records the first vote of a relay for a proposal.
Recorded(p, v) == [vote EXCEPT ![p] = IF @ = "none" THEN v ELSE @]
Accepts(p) == account[p] = "ready"

\* A vote nobody waits for lands, or its block hash gets too old.
Land(p, v) ==
  /\ v \in flight[p]
  /\ flight' = [flight EXCEPT ![p] = @ \ {v}]
  /\ \/ vote' = IF Accepts(p) THEN Recorded(p, v) ELSE vote
     \/ UNCHANGED vote
  /\ UNCHANGED <<solVars, created, decided, tonVote, executed, taskVars, crashes>>

-----------------------------------------------------------------------------
(* update_ton_sol_event                                                      *)

GoTo(p, label) == pc' = [pc EXCEPT ![p] = label]

\* The deployment or the startup scan spawns the event's task, which finds that
\* our vote is due and asks for the proposal's status.
Start(p) ==
  /\ created[p] > 0 /\ pc[p] = "idle"
  /\ ~decided[p] /\ tonVote[p] = "none"
  /\ Ask(p, created[p])
  /\ known' = known \cup {p}
  /\ GoTo(p, "verify")
  /\ UNCHANGED <<eventVars, verdict, crashes>>

\* What Solana and then TON are told.
VoteOf(status) == IF status = "Exists" THEN "confirm" ELSE "reject"

\* The answer comes; without one the event is dropped.
Verified(p) ==
  /\ pc[p] = "verify" /\ answer[p] # "waiting"
  /\ answer' = [answer EXCEPT ![p] = "none"]
  /\ IF answer[p] = "Dropped"
     THEN known' = known \ {p} /\ GoTo(p, "ended") /\ UNCHANGED verdict
     ELSE /\ verdict' = [verdict EXCEPT ![p] = VoteOf(answer[p])]
          /\ GoTo(p, "check") /\ UNCHANGED known
  /\ UNCHANGED <<chainVars, pending, entry, checking, toCheck, ran, failures,
                 eventVars, crashes>>

\* What is_already_voted finds: no round; no proposal, as if we had voted; what it
\* can not decode; our vote, or none (mutant: the task is done once we voted).
AfterCheck_Done(p) ==
  IF Data(p) = "roundless" THEN "ended"
  ELSE IF account[p] = "none" THEN "deliver"
  ELSE IF Data(p) = "broken" THEN "ended"
  ELSE IF vote[p] # "none" THEN "ended" ELSE "send"
AfterCheck(p) ==
  IF Data(p) = "roundless" THEN "ended"
  ELSE IF account[p] = "none" THEN "deliver"
  ELSE IF Data(p) = "broken" THEN "ended"
  ELSE IF vote[p] # "none" THEN "deliver" ELSE "send"

\* A request that fails ends the task (mutant: it counts as a vote).
AfterFailure_Voted == "deliver"
AfterFailure == "ended"

\* is_already_voted.
CheckVoted(p) ==
  /\ pc[p] = "check"
  /\ \/ Fails /\ GoTo(p, AfterFailure)
     \/ UNCHANGED failures /\ GoTo(p, AfterCheck(p))
  /\ UNCHANGED <<chainVars, pending, entry, answer, checking, toCheck, ran,
                 eventVars, known, verdict, crashes>>

\* send_message of the vote: it is confirmed; or it stays unknown what became of
\* it, and the vote is signed and sent again or the task gives up; or the program
\* refuses it.
SendVote(p) ==
  /\ pc[p] = "send"
  /\ \/ /\ Accepts(p)
        /\ vote' = Recorded(p, verdict[p])
        /\ GoTo(p, "status")
        /\ UNCHANGED <<flight, failures>>
     \/ /\ Fails
        /\ flight' = [flight EXCEPT ![p] = @ \cup {verdict[p]}]
        /\ GoTo(p, "send") \/ GoTo(p, "ended")
        /\ UNCHANGED vote
     \/ /\ ~Accepts(p) \/ vote[p] # "none"
        /\ GoTo(p, "ended")
        /\ UNCHANGED <<vote, flight, failures>>
  /\ UNCHANGED <<chainVars, pending, entry, answer, checking, toCheck, ran,
                 created, decided, tonVote, executed, known, verdict, crashes>>

\* Only a confirmation has an execution.
Executes(p) == p \in ExecuteNeeded /\ verdict[p] = "confirm"

\* get_signature_status.
ReadStatus(p) ==
  /\ pc[p] = "status"
  /\ \/ Fails /\ GoTo(p, AfterFailure)
     \/ UNCHANGED failures /\ GoTo(p, IF Executes(p) THEN "execute" ELSE "deliver")
  /\ UNCHANGED <<chainVars, pending, entry, answer, checking, toCheck, ran,
                 eventVars, known, verdict, crashes>>

\* The execution of the proposal and of its payload; a failure is logged.
Execute(p) ==
  /\ pc[p] = "execute"
  /\ executed' \in {executed, executed \cup {p}}
  /\ GoTo(p, "deliver")
  /\ UNCHANGED <<solVars, created, decided, tonVote, vote, flight, known, verdict, crashes>>

\* The message for the event's contract.
TonMessage(p) == verdict[p]

\* The vote in the event's contract, unless the event is pending no more.
Deliver(p) ==
  /\ pc[p] = "deliver"
  /\ tonVote' = IF p \in known THEN [tonVote EXCEPT ![p] = TonMessage(p)] ELSE tonVote
  /\ known' = known \ {p}
  /\ GoTo(p, "ended")
  /\ UNCHANGED <<solVars, created, decided, vote, flight, executed, verdict, crashes>>

\* The process dies; a vote it was sending may still land.
Crash ==
  /\ crashes < world.crashes
  /\ crashes' = crashes + 1
  /\ SolCrash
  /\ flight' = [p \in Proposals |->
                  IF pc[p] = "send" THEN flight[p] \cup {verdict[p]} ELSE flight[p]]
  /\ known' = {}
  /\ pc' = [p \in Proposals |-> "idle"]
  /\ verdict' = [p \in Proposals |-> "none"]
  /\ UNCHANGED <<created, decided, tonVote, vote, executed>>

-----------------------------------------------------------------------------

\* What the relay and time do of themselves.
TaskStep(p) == Verified(p) \/ CheckVoted(p) \/ SendVote(p) \/ ReadStatus(p) \/ Execute(p) \/ Deliver(p)
LoopStep == BeginRound \/ EndRound \/ \E p \in Proposals : CheckAccount(p)
Aside == UNCHANGED <<eventVars, taskVars, crashes>>

\* No task step reads the clock: those that are due are taken first.
NextTick ==
  /\ \A p \in Proposals :
       pc[p] \in {"idle", "ended"} \/ (pc[p] = "verify" /\ answer[p] = "waiting")
  /\ Tick /\ Aside

Next ==
  \/ \E p \in Proposals :
       \/ \E time \in {clock, clock + 1} : Create(p, time)
       \/ Decide(p) \/ (\E v \in Votes : Land(p, v))
       \/ (Make(p) /\ Aside)
       \/ Start(p) \/ TaskStep(p)
  \/ (LoopStep /\ Aside)
  \/ NextTick
  \/ Crash

Spec == Init /\ [][Next]_vars

\* Tokio schedules the loop and the tasks, the snapshot or the deployment brings
\* every event, and time goes on.
FairSpec ==
  /\ Spec
  /\ WF_vars(NextTick) /\ WF_vars(LoopStep /\ Aside)
  /\ \A p \in Proposals : WF_vars(Start(p)) /\ WF_vars(TaskStep(p))

-----------------------------------------------------------------------------
(* Properties                                                                *)

\* The types of the variables.
TypeOK ==
  /\ SolTypeOK
  /\ created \in [Proposals -> Nat]
  /\ decided \in [Proposals -> BOOLEAN]
  /\ tonVote \in [Proposals -> Votes] /\ vote \in [Proposals -> Votes]
  /\ flight \in [Proposals -> SUBSET (Votes \ {"none"})]
  /\ executed \subseteq Proposals /\ known \subseteq Proposals
  /\ pc \in [Proposals -> Pcs]
  /\ verdict \in [Proposals -> Votes]
  /\ crashes \in Nat

Overdue(p) == clock > created[p] + Expired

\* A task confirms only a proposal that is initialised with the event's data and
\* rejects one only for other data or because the event is expired; it is one or
\* the other for as long as the task holds it, however long the task takes.
VerdictIsTrue ==
  \A p \in Proposals :
    /\ verdict[p] = "confirm" => account[p] = "ready" /\ Data(p) = "same"
    /\ verdict[p] = "reject" =>
         Overdue(p) \/ (account[p] = "ready" /\ Data(p) = "other")

\* A relay that is alive confirms on TON only what it has confirmed on Solana, and
\* rejects there without a vote on Solana only what had no proposal in time; the
\* two votes agree, unless it died between the one and the other and came back
\* when the event was expired: then it rejects on TON what it has confirmed on
\* Solana.  Nothing is executed but what has our confirmation, even when our vote
\* landed long after we gave up on it.
SameVote(p) ==
  tonVote[p] = vote[p] \/ (crashes > 0 /\ Overdue(p) /\ tonVote[p] = "reject")
NoneInTime(p) ==
  tonVote[p] = "reject" /\ (account[p] = "ready" => readyAt[p] > created[p] + Expired)
VotesAgree ==
  \A p \in Proposals :
    /\ tonVote[p] # "none" => IF vote[p] = "none" THEN NoneInTime(p) ELSE SameVote(p)
    /\ p \in executed => vote[p] = "confirm"

\* The longest wait between two checks of a proposal: the interval, or the last
\* of the doubled delays; and the round that is due by then.
Patience == 1 + (IF Interval > 2 * Later THEN Interval ELSE 2 * Later)

\* What a proposal loses: a failed request, or a proposal that can not be used
\* and ends the round of checks.
Losses ==
  failures + (1 + crashes) * Cardinality({q \in Proposals : ~Usable(q) /\ Data(q) # "absent"})

\* A proposal that is ready is looked up before long, also when its event's clock
\* is ahead of ours: every loss costs it one wait and no more.
SoonChecked ==
  \A p \in pending \ toCheck : account[p] = "ready" /\ Usable(p) =>
    LET since == IF readyAt[p] > entry[p].asked THEN readyAt[p] ELSE entry[p].asked
    IN  /\ entry[p].time <= since + (1 + Losses) * Patience
        /\ ~checking /\ ran = clock => clock <= entry[p].time \/ entry[p].asked = clock

\* Every task that asks gets an answer, or its channel is dropped.
EveryAskAnswered ==
  \A p \in Proposals : pc[p] = "verify" ~> pc[p] # "verify"

\* Once requests fail no more, a vote that is recorded on Solana is completed on
\* TON, also by a relay that died in between.
VotesComplete ==
  \A p \in Proposals :
    vote[p] # "none" /\ pc[p] = "idle" /\ failures = world.failures
      ~> tonVote[p] # "none" \/ decided[p]
=================================================================================
