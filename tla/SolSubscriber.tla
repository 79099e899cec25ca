----------------------------- MODULE SolSubscriber -----------------------------
(***************************************************************************)
(* src/src/engine/sol_subscriber/mod.rs: the verification of TON->SOL      *)
(* events.  A task asks for the status of a proposal account on Solana and *)
(* waits; the subscriber's loop looks the pending accounts up, at growing  *)
(* intervals, and answers, or gives up when the event is expired.          *)
(*                                                                         *)
(* Time is counted in units in which the loop runs at least once; the      *)
(* code's bounds of 5 minutes, 1 hour and 14 days are Soon, Later and      *)
(* Expired.                                                                *)
(***************************************************************************)
EXTENDS Naturals, FiniteSets

CONSTANTS
  Proposals,     \* proposal accounts, one per event
  Worlds,        \* environment and bounds: what may happen, see World
  Soon, Later, Expired,
  FirstDelay,    \* INIT_INTERVAL_DELAY_SEC
  Interval,      \* poll_proposals_interval_sec
  Wrap,          \* modulus of u64
  MaxClock       \* bound: time

\* A proposal holds the event's data, or other data, or can not be decoded, or
\* belongs to a round without an account; or there is no such event.
Contents == {"same", "other", "broken", "roundless", "absent"}

\* The proposals, and bounds: requests to Solana that fail for good, crashes, and
\* whether other relays decide events.
World ==
  [data : [Proposals -> Contents], failures : Nat, crashes : Nat, others : BOOLEAN]

ASSUME SolSubscriberAssumption ==
  /\ {Soon, Later, Expired, FirstDelay, Interval, MaxClock} \subseteq Nat
  /\ Wrap \in Nat /\ Wrap > MaxClock
  /\ FirstDelay <= Later
  /\ IsFiniteSet(Proposals)
  /\ Worlds \subseteq World

VARIABLES
  clock,     \* our time
  world,     \* the one of Worlds we are in
  account,   \* account[p] on Solana: "none", "made", or "ready" (is_initialized)
  readyAt,   \* readyAt[p]: when it got ready (history)
  pending,   \* keys of pending_events
  entry,     \* entry[p]: PendingEvent
  answer,    \* answer[p]: the oneshot a task waits on, see Answers
  checking,  \* `update` checks accounts, holding the lock of pending_events
  toCheck,   \* accounts_to_check that are left
  ran,       \* when `update` last read the clock
  failures

chainVars == <<clock, world, account, readyAt>>
subscriberVars == <<pending, entry, answer, checking, toCheck, ran, failures>>
solVars == <<chainVars, subscriberVars>>

\* No channel; no answer yet; VerificationStatus; its sender was dropped.
Answers == {"none", "waiting", "Exists", "NotExists", "Dropped"}
\* PendingEvent, with the time it was asked for (history).
Entry == [created : Nat, delay : Nat, time : Nat, asked : Nat]
Data(p) == world.data[p]
Usable(p) == Data(p) \in {"same", "other"}

NoEntry == [created |-> 0, delay |-> 0, time |-> 0, asked |-> 0]

SolInit ==
  /\ clock = 1
  /\ world \in Worlds
  /\ account = [p \in Proposals |-> "none"]
  /\ readyAt = [p \in Proposals |-> 0]
  /\ pending = {}
  /\ entry = [p \in Proposals |-> NoEntry]
  /\ answer = [p \in Proposals |-> "none"]
  /\ checking = FALSE /\ toCheck = {} /\ ran = 0
  /\ failures = 0

-----------------------------------------------------------------------------
(* Solana (external)                                                         *)

\* Somebody creates, then initialises, a proposal; one that can not be used need
\* not get that far.
Make(p) ==
  /\ Data(p) # "absent"
  /\ \/ account[p] = "none" /\ account' = [account EXCEPT ![p] = "made"] /\ UNCHANGED readyAt
     \/ /\ account[p] = "made" /\ Usable(p)
        /\ account' = [account EXCEPT ![p] = "ready"]
        /\ readyAt' = [readyAt EXCEPT ![p] = clock]
  /\ UNCHANGED <<clock, world, subscriberVars>>

\* Time goes on once the loop has run at this time.
Tick ==
  /\ clock < MaxClock /\ ~checking /\ ran = clock
  /\ clock' = clock + 1
  /\ UNCHANGED <<world, account, readyAt, subscriberVars>>

Fails ==
  /\ failures < world.failures
  /\ failures' = failures + 1

-----------------------------------------------------------------------------
(* The subscriber                                                            *)

\* verify_ton_sol_event up to the wait for the answer; the insertion drops the
\* sender of an earlier question.
Ask(p, created) ==
  /\ ~checking
  /\ pending' = pending \cup {p}
  /\ entry' = [entry EXCEPT ![p] = [created |-> created, delay |-> FirstDelay, time |-> 0, asked |-> clock]]
  /\ answer' = [answer EXCEPT ![p] = "waiting"]
  /\ UNCHANGED <<chainVars, checking, toCheck, ran, failures>>

\* u64 subtraction as built for release: an event of a chain whose clock is ahead
\* of ours counts as a very old one.
Minus(a, b) == (a + Wrap - b) % Wrap

\* The time of an event's next check (mutant: what is no longer young waits for
\* ever).
Rescheduled_Never(n) ==
  IF Minus(clock, n.created) <= Soon THEN [n EXCEPT !.time = clock]
  ELSE [n EXCEPT !.time = clock + MaxClock]
Rescheduled(n) ==
  LET age == Minus(clock, n.created)
  IN  CASE age <= Soon -> [n EXCEPT !.time = clock]
        [] age \in Soon + 1 .. Later ->
             [n EXCEPT !.time = clock + n.delay, !.delay = 2 * @]
        [] OTHER -> [n EXCEPT !.time = clock + Interval]

IsExpired(p) == clock > entry[p].created + Expired

\* What the expired are told (mutant: nothing).
Told_Nothing(gone) == answer
Told(gone) == [p \in Proposals |-> IF p \in gone THEN "NotExists" ELSE answer[p]]

\* update up to its checks: expired events are answered, the others that are due
\* are listed and scheduled anew.
BeginRound ==
  LET gone == {p \in pending : IsExpired(p)}
      due  == {p \in pending \ gone : clock > entry[p].time}
  IN  /\ ~checking
      /\ ran # clock \/ gone # {} \/ due # {}
      /\ ran' = clock /\ checking' = TRUE /\ toCheck' = due
      /\ pending' = pending \ gone
      /\ answer' = Told(gone)
      /\ entry' = [p \in Proposals |->
                     CASE p \in gone -> NoEntry
                       [] p \in due -> Rescheduled(entry[p])
                       [] OTHER -> entry[p]]
      /\ UNCHANGED <<chainVars, failures>>

Close(p, status) ==
  /\ pending' = pending \ {p}
  /\ entry' = [entry EXCEPT ![p] = NoEntry]
  /\ answer' = [answer EXCEPT ![p] = status]

Keep == UNCHANGED <<pending, entry, answer>>
Passed(p) == toCheck' = toCheck \ {p} /\ UNCHANGED checking

\* PendingEvent::check (mutant: the data is not compared).
Status_Unchecked(p) == "Exists"
Status(p) == IF Data(p) = "same" THEN "Exists" ELSE "NotExists"

\* What can not be decoded, or has no round, loses its entry and ends the round
\* of checks.
Unusable(p) ==
  /\ account[p] # "none" /\ ~Usable(p)
  /\ Close(p, "Dropped")
  /\ checking' = FALSE /\ toCheck' = {}

\* The requests of one account, and of its round.
CheckAccount(p) ==
  /\ p \in toCheck
  /\ \/ Fails /\ Keep /\ Passed(p)
     \/ /\ UNCHANGED failures
        /\ \/ Unusable(p)
           \/ /\ account[p] = "none" \/ (account[p] = "made" /\ Usable(p))
              /\ Keep /\ Passed(p)
           \/ /\ account[p] = "ready" /\ Usable(p)
              /\ Close(p, Status(p)) /\ Passed(p)
  /\ UNCHANGED <<chainVars, ran>>

EndRound ==
  /\ checking /\ toCheck = {}
  /\ checking' = FALSE
  /\ UNCHANGED <<chainVars, toCheck, pending, entry, answer, ran, failures>>

SolCrash ==
  /\ pending' = {}
  /\ entry' = [p \in Proposals |-> NoEntry]
  /\ answer' = [p \in Proposals |-> "none"]
  /\ checking' = FALSE /\ toCheck' = {} /\ ran' = 0
  /\ UNCHANGED <<chainVars, failures>>

SolTypeOK ==
  /\ clock \in Nat /\ ran \in Nat /\ failures \in Nat
  /\ world \in World
  /\ account \in [Proposals -> {"none", "made", "ready"}]
  /\ readyAt \in [Proposals -> Nat]
  /\ pending \subseteq Proposals
  /\ entry \in [Proposals -> Entry]
  /\ answer \in [Proposals -> Answers]
  /\ checking \in BOOLEAN /\ toCheck \subseteq Proposals
=================================================================================
