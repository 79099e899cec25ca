----------------------------- MODULE TonSubscriber -----------------------------
(***************************************************************************)
(* src/src/engine/ton_subscriber/mod.rs: the subscriptions by which the    *)
(* tasks of the relay wait for an account's state (a watch channel whose   *)
(* receiver is cloned) and observe its transactions, and the awaiter of    *)
(* masterchain blocks.                                                     *)
(***************************************************************************)
EXTENDS Storage

CONSTANTS
  Waiters,    \* tasks that ask for the state of an account
  Observers,  \* AccountObservers
  Target      \* Target[x]: the account a waiter or an observer is for

ASSUME SubscriberAssumption ==
  /\ Waiters \cap Observers = {}
  /\ Target \in [Waiters \cup Observers -> Accounts]

VARIABLES
  ready,      \* TonSubscriber::ready
  awaiter,    \* of the startup task: "none", for a "later" block, for "any"
  subs,       \* state_subscriptions: see Subscription
  waiter,     \* waiter[w]: "idle", or the receiver it holds "seen" or "unseen"
  mode,       \* mode[w]: it runs "wait_contract_state" or "get_contract_state"
  alive,      \* observers that are not dropped
  heard       \* heard[o]: ver of the last transaction o was told of

subscriberVars == <<ready, awaiter, subs, waiter, mode, alive, heard>>

Nothing == [body |-> "none", ver |-> 0]

\* An entry of the map: the value of the channel, whether state_rx has yet to
\* see it, and the observers of the account's transactions.
Subscription ==
  [kept : BOOLEAN, value : State, unseen : BOOLEAN, observers : SUBSET Observers]
NoSub == [kept |-> FALSE, value |-> Nothing, unseen |-> FALSE, observers |-> {}]
NewSub == [NoSub EXCEPT !.kept = TRUE]

Modes == {"wait_contract_state", "get_contract_state"}

SubscriberInit ==
  /\ ready = FALSE /\ awaiter = "none"
  /\ subs = [a \in Accounts |-> NoSub]
  /\ waiter = [w \in Waiters |-> "idle"]
  /\ mode = [w \in Waiters |-> "wait_contract_state"]
  /\ alive = {} /\ heard = [o \in Observers |-> 0]

Receivers(a) == {w \in Waiters : waiter[w] # "idle" /\ Target[w] = a}

\* The entry of a, which the caller adds if there is none.
Opened(a) == IF subs[a].kept THEN subs[a] ELSE NewSub

\* get_contract_state and wait_contract_state clone state_rx.
AskState(w, m) ==
  LET a == Target[w]
  IN  /\ waiter[w] = "idle"
      /\ subs' = [subs EXCEPT ![a] = Opened(a)]
      /\ waiter' = [waiter EXCEPT ![w] = IF Opened(a).unseen THEN "unseen" ELSE "seen"]
      /\ mode' = [mode EXCEPT ![w] = m]
      /\ UNCHANGED <<ready, awaiter, alive, heard>>

\* `changed` returned: an active account is the answer, and a frozen one an
\* error; wait_contract_state goes on waiting otherwise (mutant: for a frozen
\* account, too).
Answers_NotFrozen(w, body) == mode[w] = "get_contract_state" \/ Active(body)
Answers(w, body) ==
  mode[w] = "get_contract_state" \/ Active(body) \/ body = "frozen"

TakeState(w) ==
  /\ waiter[w] = "unseen"
  /\ IF Answers(w, subs[Target[w]].value.body)
     THEN /\ waiter' = [waiter EXCEPT ![w] = "idle"]
          /\ mode' = [mode EXCEPT ![w] = "wait_contract_state"]
     ELSE /\ waiter' = [waiter EXCEPT ![w] = "seen"]
          /\ UNCHANGED mode
  /\ UNCHANGED <<ready, awaiter, subs, alive, heard>>

\* add_transactions_subscription, when the account has had ver transactions.
Observe(o, ver) ==
  LET a == Target[o]
  IN  /\ o \notin alive
      /\ alive' = alive \cup {o}
      /\ subs' = [subs EXCEPT ![a] = [Opened(a) EXCEPT !.observers = @ \cup {o}]]
      /\ heard' = [heard EXCEPT ![o] = ver]
      /\ UNCHANGED <<ready, awaiter, waiter, mode>>

\* The last Arc of an observer is dropped; the map holds it weakly.
DropObserver(o) ==
  /\ o \in alive
  /\ alive' = alive \ {o}
  /\ heard' = [heard EXCEPT ![o] = 0]
  /\ UNCHANGED <<ready, awaiter, subs, waiter, mode>>

\* StateSubscription::update_status: "Alive", "PartlyAlive" or "Stopped"
\* (mutant: an observer alone does not keep the entry).
Status_ReceiversOnly(a) == IF Receivers(a) # {} THEN "Alive" ELSE "Stopped"
Status(a) ==
  IF Receivers(a) # {} THEN "Alive"
  ELSE IF subs[a].observers \cap alive # {} THEN "PartlyAlive" ELSE "Stopped"

\* What handle_shard_block does to the entry of a that is not stopped, in a
\* block of a's shard: to waiters the state is sent, unless it could not be
\* loaded, and without any a value sent before counts as seen (mutant: it does
\* not).
Refreshed_KeepsUnseen(a, state, loaded) ==
  [subs[a] EXCEPT !.observers = @ \cap alive,
                  !.value = IF Receivers(a) # {} /\ loaded THEN state ELSE @,
                  !.unseen = (Receivers(a) # {} /\ loaded) \/ @]
Refreshed(a, state, loaded) ==
  [subs[a] EXCEPT !.observers = @ \cap alive,
                  !.value = IF Receivers(a) # {} /\ loaded THEN state ELSE @,
                  !.unseen = Receivers(a) # {} /\ (loaded \/ @)]

\* handle_shard_block: a block of shard s, after which its accounts are
\* `state`, with n[a] transactions of a; the accounts `broken` fail to load.
HandleShardBlock(s, state, n, broken) ==
  LET In(a) == Contains(s, a)
  IN  /\ subs' = [a \in Accounts |->
            IF ~subs[a].kept \/ Status(a) = "Stopped" THEN NoSub
            ELSE IF In(a) THEN Refreshed(a, state[a], a \notin broken)
            ELSE [subs[a] EXCEPT !.observers = @ \cap alive]]
      /\ waiter' = [w \in Waiters |->
            IF waiter[w] # "idle" /\ In(Target[w]) /\ Target[w] \notin broken
            THEN "unseen" ELSE waiter[w]]
      /\ heard' = [o \in Observers |->
            IF In(Target[o]) /\ o \in alive \cap subs'[Target[o]].observers
            THEN heard[o] + n[Target[o]] ELSE heard[o]]
      /\ UNCHANGED <<ready, awaiter, mode, alive>>

\* handle_masterchain_block: a later block passes an awaiter by that waits for
\* one of its time; nothing is handled before the node is ready.
Fires(aw) == aw = "any"
HandleMasterchainBlock ==
  /\ awaiter' = IF ready /\ Fires(awaiter) THEN "none" ELSE awaiter
  /\ UNCHANGED <<ready, subs, waiter, mode, alive, heard>>

SubscriberCrash ==
  /\ ready' = FALSE /\ awaiter' = "none"
  /\ subs' = [a \in Accounts |-> NoSub]
  /\ waiter' = [w \in Waiters |-> "idle"]
  /\ mode' = [w \in Waiters |-> "wait_contract_state"]
  /\ alive' = {} /\ heard' = [o \in Observers |-> 0]

SubscriberTypeOK ==
  /\ ready \in BOOLEAN /\ awaiter \in {"none", "later", "any"}
  /\ subs \in [Accounts -> Subscription]
  /\ waiter \in [Waiters -> {"idle", "seen", "unseen"}]
  /\ mode \in [Waiters -> Modes]
  /\ alive \subseteq Observers /\ heard \in [Observers -> Nat]
=================================================================================
