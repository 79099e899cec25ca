-------------------------- MODULE AddressVerification --------------------------
(***************************************************************************)
(* What a relay does at startup before it takes part in staking: it makes  *)
(* sure that its TON key and its EVM address are confirmed in its staker's *)
(* UserData (src/src/engine/staking/mod.rs), for the latter with a         *)
(* transaction whose hash it keeps in a file over restarts                 *)
(* (src/src/engine/eth_subscriber/mod.rs, src/src/config/                  *)
(* verification_state.rs).                                                 *)
(*                                                                         *)
(* The transaction names the staker; once it is mined, the other relays    *)
(* vote for its event and UserData learns the address: external.           *)
(***************************************************************************)
EXTENDS Naturals, FiniteSets

CONSTANTS
  Stakers, Addresses,
  NoGap,      \* environment: no confirmation comes between the reading of
              \* UserData and the subscription to it
  MaxTx,      \* bound: transactions signed
  Budgets     \* bounds: what may go wrong, see Budget

Budget == [crashes : Nat, switches : Nat, failures : Nat]

ASSUME VerificationAssumption ==
  /\ NoGap \in BOOLEAN /\ MaxTx \in Nat
  /\ Budgets \subseteq Budget

VARIABLES
  staker,       \* the configured staker
  registered,   \* registered[s]: the address in s's UserData, the key of a relay run for s
  confirmed,    \* stakers whose registered address is confirmed
  tonConfirmed, \* stakers whose TON key is confirmed
  tx,           \* tx[i]: the i-th transaction signed, see Tx
  file,         \* the transaction named in the state file, NoFile, or Torn
  pc,           \* the process, see Pcs
  details,      \* what UserData said of the confirmations: a subset of Keys
  heard,        \* the notifications received: a subset of Keys
  moved,        \* the relay's address has been changed (history)
  budget        \* what may still go wrong

chainVars == <<registered, confirmed, tonConfirmed>>
vars == <<staker, chainVars, tx, file, pc, details, heard, moved, budget>>

Keys == {"ton", "eth"}
TxId == 1..MaxTx
NoFile == 0
Torn == MaxTx + 1

\* Not signed; signed; in the node's pool; forgotten by the node; in a block;
\* and its event dealt with by the other relays.
States == {"none", "signed", "pool", "lost", "mined", "counted"}
Tx == [state : States, staker : Stakers, address : Addresses]

\* Not running; UserData is read; subscribed to it, the TON key next; the EVM
\* address next; before try_load; polls the saved transaction; before the
\* signature; before the save; before the send; waits for both notifications; up.
Pcs == {"down", "read", "ton", "eth", "load", "poll", "sign", "save", "send", "join", "up"}

Address == registered[staker]
Last == Cardinality({i \in TxId : tx[i].state # "none"})

Init ==
  /\ staker \in Stakers
  /\ registered \in [Stakers -> Addresses]
  /\ confirmed = {} /\ tonConfirmed = {}
  /\ tx = [i \in TxId |-> [state |-> "none", staker |-> staker, address |-> Address]]
  /\ file = NoFile
  /\ pc = "down" /\ details = {} /\ heard = {}
  /\ moved = FALSE
  /\ budget \in Budgets

Spend(fault) == budget[fault] > 0 /\ budget' = [budget EXCEPT ![fault] = @ - 1]

-----------------------------------------------------------------------------
(* The networks (external)                                                   *)

\* A transaction gets into a block, also one the node has forgotten.
Mine(i) ==
  /\ tx[i].state \in {"pool", "lost"}
  /\ tx' = [tx EXCEPT ![i].state = "mined"]
  /\ UNCHANGED <<staker, chainVars, file, pc, details, heard, moved, budget>>

Lose(i) ==
  /\ tx[i].state = "pool" /\ Spend("failures")
  /\ tx' = [tx EXCEPT ![i].state = "lost"]
  /\ UNCHANGED <<staker, chainVars, file, pc, details, heard, moved>>

Subscribed == pc \notin {"down", "read"}

\* The other relays confirm the transaction's event: UserData takes the address if
\* it is still the registered one, and tells its observer.
Count(i) ==
  /\ tx[i].state = "mined"
  /\ NoGap => pc # "read"
  /\ tx' = [tx EXCEPT ![i].state = "counted"]
  /\ LET s == tx[i].staker
         taken == registered[s] = tx[i].address
     IN  /\ confirmed' = IF taken THEN confirmed \cup {s} ELSE confirmed
         /\ heard' = IF taken /\ Subscribed /\ s = staker THEN heard \cup {"eth"} ELSE heard
  /\ UNCHANGED <<staker, registered, tonConfirmed, file, pc, details, moved, budget>>

\* The operator configures another staker or, with another key, another address.
Switch(s, a) ==
  /\ pc = "down" /\ <<s, a>> # <<staker, Address>>
  /\ Spend("switches")
  /\ staker' = s
  /\ registered' = [registered EXCEPT ![s] = a]
  /\ confirmed' = IF a = registered[s] THEN confirmed ELSE confirmed \ {s}
  /\ moved' = (moved \/ a # Address)
  /\ UNCHANGED <<tonConfirmed, tx, file, pc, details, heard>>

-----------------------------------------------------------------------------
(* ensure_user_data_confirmed, ensure_verified                               *)

Step(from, to) == pc = from /\ pc' = to

\* The details are those of the shard states loaded before.
ReadDetails ==
  /\ Step("down", "read")
  /\ details' = (IF staker \in tonConfirmed THEN {"ton"} ELSE {})
                \cup (IF staker \in confirmed THEN {"eth"} ELSE {})
  /\ heard' = {}
  /\ UNCHANGED <<staker, chainVars, tx, file, moved, budget>>

Subscribe ==
  /\ Step("read", "ton")
  /\ UNCHANGED <<staker, chainVars, tx, file, details, heard, moved, budget>>

\* The key is confirmed already, or by a message that the contract always accepts
\* and that is delivered now.
ConfirmTon ==
  /\ Step("ton", "eth")
  /\ tonConfirmed' = tonConfirmed \cup {staker}
  /\ heard' = heard \cup {"ton"}
  /\ UNCHANGED <<staker, registered, confirmed, tx, file, details, moved, budget>>

ConfirmEth ==
  /\ IF "eth" \in details
     THEN Step("eth", "join") /\ heard' = heard \cup {"eth"}
     ELSE Step("eth", "load") /\ UNCHANGED heard
  /\ UNCHANGED <<staker, chainVars, tx, file, details, moved, budget>>

\* join (mutant: it waits for either).
Joined_Either == heard # {}
Joined == heard = Keys

Join ==
  /\ Joined /\ Step("join", "up")
  /\ UNCHANGED <<staker, chainVars, tx, file, details, heard, moved, budget>>

-----------------------------------------------------------------------------
(* verify_relay_staker_address                                               *)

\* try_load: what can not be parsed ends the process; a state of another address
\* is removed.
Load ==
  /\ LET ours == tx[file].address = Address
     IN  CASE file = Torn -> Step("load", "down") /\ UNCHANGED file
           [] file = NoFile -> Step("load", "sign") /\ UNCHANGED file
           [] OTHER -> IF ours THEN Step("load", "poll") /\ UNCHANGED file
                               ELSE Step("load", "sign") /\ file' = NoFile
  /\ UNCHANGED <<staker, chainVars, tx, details, heard, moved, budget>>

\* What the node says of the saved transaction (mutant: one without a block is as
\* good as none; mutant: one that is not found is as good as mined).
Found_Mined(i) == IF tx[i].state \in {"mined", "counted"} THEN "block" ELSE "nothing"
Found_Always(i) == IF tx[i].state = "pool" THEN "pending" ELSE "block"
Found(i) ==
  CASE tx[i].state \in {"mined", "counted"} -> "block"
    [] tx[i].state = "pool" -> "pending"
    [] OTHER -> "nothing"

\* Poll the saved transaction until it is in a block or is not found; either way
\* the file is removed.
Poll ==
  /\ pc = "poll"
  /\ \/ /\ Found(file) # "pending"
        /\ pc' = (IF Found(file) = "block" THEN "join" ELSE "sign")
        /\ file' = NoFile
        /\ UNCHANGED budget
     \/ Spend("failures") /\ pc' = "down" /\ UNCHANGED file
  /\ UNCHANGED <<staker, chainVars, tx, details, heard, moved>>

\* The balance suffices; the transaction is signed.
Sign ==
  /\ Last < MaxTx
  /\ Step("sign", "save")
  /\ tx' = [tx EXCEPT ![Last + 1] = [state |-> "signed", staker |-> staker, address |-> Address]]
  /\ UNCHANGED <<staker, chainVars, file, details, heard, moved, budget>>

Save ==
  /\ Step("save", "send")
  /\ file' = Last
  /\ UNCHANGED <<staker, chainVars, tx, details, heard, moved, budget>>

\* An answer that does not come, or an error, ends the process; the node may have
\* got the transaction.
Send ==
  /\ \/ /\ Step("send", "join")
        /\ tx' = [tx EXCEPT ![Last].state = "pool"]
        /\ UNCHANGED budget
     \/ /\ Step("send", "down")
        /\ Spend("failures")
        /\ tx' \in {tx, [tx EXCEPT ![Last].state = "pool"]}
  /\ UNCHANGED <<staker, chainVars, file, details, heard, moved>>

\* A process that dies while it saves leaves the file as it was, empty or whole;
\* one that dies while it sends may have sent.
Crash ==
  /\ pc # "down" /\ Spend("crashes")
  /\ pc' = "down"
  /\ file' \in IF pc = "save" THEN {file, Torn, Last} ELSE {file}
  /\ tx' \in {tx} \cup (IF pc = "send" THEN {[tx EXCEPT ![Last].state = "pool"]} ELSE {})
  /\ UNCHANGED <<staker, chainVars, details, heard, moved>>

-----------------------------------------------------------------------------

Run == ReadDetails \/ Subscribe \/ ConfirmTon \/ ConfirmEth \/ Join \/ Load \/ Poll \/ Sign \/ Save \/ Send

Next ==
  \/ Run
  \/ \E i \in TxId : Mine(i) \/ Lose(i) \/ Count(i)
  \/ \E s \in Stakers, a \in Addresses : Switch(s, a)
  \/ Crash

Spec == Init /\ [][Next]_vars

\* What is in the pool is mined, and the other relays do their work.
Network == \E i \in TxId : Count(i) \/ (tx[i].state = "pool" /\ Mine(i))

\* The process runs, and is started again.
FairSpec == Spec /\ WF_vars(Run) /\ WF_vars(Network)

-----------------------------------------------------------------------------
(* Properties                                                                *)

\* The types of the variables.
TypeOK ==
  /\ staker \in Stakers
  /\ registered \in [Stakers -> Addresses]
  /\ confirmed \subseteq Stakers /\ tonConfirmed \subseteq Stakers
  /\ tx \in [TxId -> Tx]
  /\ file \in 0..Torn
  /\ pc \in Pcs
  /\ details \subseteq Keys /\ heard \subseteq Keys
  /\ moved \in BOOLEAN
  /\ budget \in Budget

\* A relay whose address stays the same has at most one verification in the
\* node's pool: it pays for no second one while the first may still be mined,
\* wherever it died and whatever answer was lost.
OneInPool ==
  ~moved => \A i, j \in TxId : tx[i].state = "pool" /\ tx[j].state = "pool" =>
              i = j \/ tx[i].address # tx[j].address

\* A relay that is up has both keys confirmed in its staker's UserData.
UpIsConfirmed == pc = "up" => staker \in confirmed \cap tonConfirmed

Quiet == \A fault \in DOMAIN budget : budget[fault] = 0

\* The saved transaction does not get our staker confirmed any more: it was for
\* another staker, or its confirmation was undone.
Stale ==
  /\ file \in TxId /\ staker \notin confirmed /\ tx[file].address = Address
  /\ tx[file].staker # staker \/ tx[file].state = "counted"

\* Once nothing goes wrong any more, a relay that is started comes up, whatever
\* its previous lives left in the pool and in the file; except for a file that was
\* torn in a crash, which no start survives, and a stale one, which costs one more
\* restart.
UpInTheEnd == pc = "down" /\ Quiet /\ file # Torn /\ ~Stale ~> pc = "up"
=================================================================================
