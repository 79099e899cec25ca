----------------------- MODULE AddressVerificationProofs -----------------------
(***************************************************************************)
(* Type correctness of AddressVerification; that a relay that is up is     *)
(* confirmed; that it has one verification in the node's pool at most.     *)
(***************************************************************************)
EXTENDS AddressVerification, FiniteSetTheorems, TLAPS

(* The transactions signed; the next one takes the next number. *)
Signed == {i \in TxId : tx[i].state # "none"}

(* What UserData said before, and says in a notification, is still true. *)
HeardIsTrue ==
  pc # "down" =>
    /\ "ton" \in heard => staker \in tonConfirmed
    /\ "eth" \in heard \cup details => staker \in confirmed
    /\ pc = "up" => heard = Keys

(* The file holds a transaction wherever it is needed, and none while another *)
(* one is being made.                                                         *)
FileFits ==
  /\ pc = "poll" => file \in TxId
  /\ pc \in {"sign", "save"} => file = NoFile
  /\ pc = "send" => file = Last

(* While the address stays the same, what is in the pool is in the file. *)
PoolIsSaved ==
  ~moved => \A i \in TxId :
    tx[i].address = Address /\ (tx[i].state = "pool" => file = i)

IInv == TypeOK /\ HeardIsTrue /\ FileFits /\ PoolIsSaved

LEMMA LastRange == Last \in 0..MaxTx
<1>1. IsFiniteSet(TxId) /\ Cardinality(TxId) = MaxTx
  BY FS_Interval, VerificationAssumption DEF TxId
<1>2. Signed \subseteq TxId
  BY DEF Signed
<1>3. Cardinality(Signed) \in Nat /\ Cardinality(Signed) <= MaxTx
  BY <1>1, <1>2, FS_Subset, FS_CardinalityType
<1> QED BY <1>3, VerificationAssumption DEF Last, Signed

(* Last depends on which transactions are signed only. *)
LEMMA LastStays ==
  ASSUME \A i \in TxId : tx'[i].state # "none" <=> tx[i].state # "none"
  PROVE  Last' = Last
<1>1. {i \in TxId : tx'[i].state # "none"} = {i \in TxId : tx[i].state # "none"}
  OBVIOUS
<1> QED BY <1>1 DEF Last

LEMMA InitIInv == Init => IInv
<1> SUFFICES ASSUME Init PROVE IInv
  OBVIOUS
<1> USE DEF Init
<1>1. TypeOK
  <2>1. Address \in Addresses /\ file \in 0..Torn /\ budget \in Budget
    BY VerificationAssumption DEF Address, NoFile, Torn
  <2>2. tx \in [TxId -> Tx]
    BY <2>1 DEF Tx, States
  <2>3. registered \in [Stakers -> Addresses] /\ pc \in Pcs /\ moved \in BOOLEAN
    BY DEF Pcs
  <2> QED BY <2>1, <2>2, <2>3 DEF TypeOK
<1>2. HeardIsTrue /\ FileFits
  BY DEF HeardIsTrue, FileFits
<1>3. PoolIsSaved
  BY DEF PoolIsSaved, Address
<1> QED BY <1>1, <1>2, <1>3 DEF IInv

LEMMA SpendType ==
  ASSUME budget \in Budget, NEW fault \in {"crashes", "switches", "failures"}, Spend(fault)
  PROVE  budget' \in Budget
BY DEF Spend, Budget

LEMMA MineIInv == ASSUME IInv, NEW i \in TxId, Mine(i) PROVE IInv'
<1> USE DEF IInv, Mine
<1>1. /\ tx' \in [TxId -> Tx]
      /\ \A j \in TxId : /\ tx'[j].address = tx[j].address
                         /\ tx'[j].state # "none" <=> tx[j].state # "none"
                         /\ tx'[j].state = "pool" => tx[j].state = "pool"
  BY DEF TypeOK, Tx, States
<1>2. Last' = Last
  BY <1>1, LastStays
<1>3. TypeOK'
  BY <1>1 DEF TypeOK, chainVars
<1>4. HeardIsTrue' /\ FileFits' /\ PoolIsSaved'
  BY <1>1, <1>2 DEF HeardIsTrue, FileFits, PoolIsSaved, Address, chainVars
<1> QED BY <1>3, <1>4

LEMMA LoseIInv == ASSUME IInv, NEW i \in TxId, Lose(i) PROVE IInv'
<1> USE DEF IInv, Lose
<1>1. /\ tx' \in [TxId -> Tx]
      /\ \A j \in TxId : /\ tx'[j].address = tx[j].address
                         /\ tx'[j].state # "none" <=> tx[j].state # "none"
                         /\ tx'[j].state = "pool" => tx[j].state = "pool"
  BY DEF TypeOK, Tx, States
<1>2. Last' = Last
  BY <1>1, LastStays
<1>3. TypeOK'
  BY <1>1, SpendType DEF TypeOK, chainVars
<1>4. HeardIsTrue' /\ FileFits' /\ PoolIsSaved'
  BY <1>1, <1>2 DEF HeardIsTrue, FileFits, PoolIsSaved, Address, chainVars
<1> QED BY <1>3, <1>4

LEMMA CountIInv == ASSUME IInv, NEW i \in TxId, Count(i) PROVE IInv'
<1> USE DEF IInv, Count
<1>1. /\ tx' \in [TxId -> Tx]
      /\ \A j \in TxId : /\ tx'[j].address = tx[j].address
                         /\ tx'[j].state # "none" <=> tx[j].state # "none"
                         /\ tx'[j].state = "pool" => tx[j].state = "pool"
  BY DEF TypeOK, Tx, States
<1>2. Last' = Last
  BY <1>1, LastStays
<1>3. /\ confirmed \subseteq confirmed' /\ confirmed' \subseteq Stakers
      /\ heard \subseteq heard' /\ heard' \subseteq Keys
      /\ heard' # heard => staker \in confirmed' /\ heard' = heard \cup {"eth"}
  BY DEF TypeOK, Tx, Keys
<1>4. TypeOK'
  BY <1>1, <1>3 DEF TypeOK
<1>5. HeardIsTrue'
  BY <1>3 DEF HeardIsTrue
<1>6. FileFits' /\ PoolIsSaved'
  BY <1>1, <1>2 DEF FileFits, PoolIsSaved, Address
<1> QED BY <1>4, <1>5, <1>6

LEMMA SwitchIInv ==
  ASSUME IInv, NEW s \in Stakers, NEW a \in Addresses, Switch(s, a) PROVE IInv'
<1> USE DEF IInv, Switch
<1>1. TypeOK'
  BY SpendType DEF TypeOK
<1>2. Last' = Last
  BY LastStays
<1>3. HeardIsTrue' /\ FileFits'
  BY <1>2 DEF HeardIsTrue, FileFits
<1>4. ~moved' => ~moved /\ Address' = Address
  BY DEF TypeOK, Address
<1>5. PoolIsSaved'
  BY <1>4 DEF PoolIsSaved
<1> QED BY <1>1, <1>3, <1>5

(* A step of the relay that leaves the transactions and the file alone. *)
LEMMA QuietStep ==
  ASSUME IInv, ReadDetails \/ Subscribe \/ ConfirmTon \/ ConfirmEth \/ Join
  PROVE  IInv'
<1> USE DEF IInv
<1> DEFINE Kept == UNCHANGED <<staker, registered, confirmed, tx, file, moved, budget>>
<1>1. Kept
  BY DEF ReadDetails, Subscribe, ConfirmTon, ConfirmEth, Join, chainVars
<1>2. pc' \in Pcs \ {"poll", "sign", "save", "send"}
  BY DEF ReadDetails, Subscribe, ConfirmTon, ConfirmEth, Join, Step, Pcs
<1>3. details' \subseteq Keys /\ heard' \subseteq Keys /\ tonConfirmed' \subseteq Stakers
  BY DEF ReadDetails, Subscribe, ConfirmTon, ConfirmEth, Join, Step, TypeOK, Keys, chainVars
<1>4. TypeOK'
  BY <1>1, <1>2, <1>3 DEF TypeOK
<1>5. HeardIsTrue'
  <2>1. CASE ReadDetails
    BY <2>1 DEF ReadDetails, Step, HeardIsTrue, chainVars
  <2>2. CASE Subscribe
    BY <2>2 DEF Subscribe, Step, HeardIsTrue, chainVars
  <2>3. CASE ConfirmTon
    BY <2>3 DEF ConfirmTon, Step, HeardIsTrue, TypeOK
  <2>4. CASE ConfirmEth
    BY <2>4 DEF ConfirmEth, Step, HeardIsTrue, chainVars
  <2>5. CASE Join
    BY <2>5 DEF Join, Joined, Step, HeardIsTrue, chainVars
  <2> QED BY <2>1, <2>2, <2>3, <2>4, <2>5
<1>6. FileFits' /\ PoolIsSaved'
  BY <1>1, <1>2 DEF FileFits, PoolIsSaved, Address
<1> QED BY <1>4, <1>5, <1>6

LEMMA LoadIInv == ASSUME IInv, Load PROVE IInv'
<1> USE DEF IInv, Load
<1>1. UNCHANGED <<staker, registered, confirmed, tonConfirmed, tx, details, heard, moved, budget>>
  BY DEF chainVars
<1>2. MaxTx \in Nat /\ file \in 0..MaxTx + 1
  BY VerificationAssumption DEF TypeOK, Torn
<1>3. \/ pc' = "down" /\ file' = file
      \/ pc' = "sign" /\ file' = file /\ file = NoFile
      \/ pc' = "poll" /\ file' = file /\ file \in TxId
      \/ /\ pc' = "sign" /\ file' = NoFile
         /\ file \in TxId /\ tx[file].address # Address
  BY <1>2 DEF Step, Torn, NoFile, TxId
<1>4. TypeOK'
  BY <1>1, <1>2, <1>3 DEF TypeOK, Pcs, Torn, NoFile
<1>5. HeardIsTrue'
  BY <1>1, <1>3 DEF HeardIsTrue, Step
<1>6. FileFits'
  BY <1>3 DEF FileFits
<1>7. PoolIsSaved'
  BY <1>1, <1>3 DEF PoolIsSaved, Address
<1> QED BY <1>4, <1>5, <1>6, <1>7

LEMMA PollIInv == ASSUME IInv, Poll PROVE IInv'
<1> USE DEF IInv, Poll
<1>1. UNCHANGED <<staker, registered, confirmed, tonConfirmed, tx, details, heard, moved>>
  BY DEF chainVars
<1>2. \/ /\ pc' \in {"join", "sign"} /\ file' = NoFile /\ budget' = budget
         /\ tx[file].state # "pool"
      \/ pc' = "down" /\ file' = file /\ budget' \in Budget
  BY SpendType DEF Found, TypeOK
<1>3. TypeOK'
  BY <1>1, <1>2, VerificationAssumption DEF TypeOK, Pcs, Torn, NoFile
<1>4. HeardIsTrue' /\ FileFits'
  BY <1>1, <1>2 DEF HeardIsTrue, FileFits
<1>5. PoolIsSaved'
  BY <1>1, <1>2 DEF PoolIsSaved, Address
<1> QED BY <1>3, <1>4, <1>5

LEMMA SignIInv == ASSUME IInv, Sign PROVE IInv'
<1> USE DEF IInv, Sign
<1>1. UNCHANGED <<staker, registered, confirmed, tonConfirmed, file, details, heard, moved, budget>>
  BY DEF chainVars
<1>2. pc = "sign" /\ pc' = "save" /\ file = NoFile
  BY DEF Step, FileFits
<1>3. Address \in Addresses
  BY DEF TypeOK, Address
<1>4. /\ tx' \in [TxId -> Tx]
      /\ \A j \in TxId : \/ tx'[j] = tx[j]
                         \/ tx'[j].address = Address /\ tx'[j].state = "signed"
  BY <1>3 DEF TypeOK, Tx, States
<1>5. TypeOK'
  BY <1>1, <1>2, <1>4 DEF TypeOK, Pcs
<1>6. HeardIsTrue' /\ FileFits'
  BY <1>1, <1>2 DEF HeardIsTrue, FileFits
<1>7. PoolIsSaved'
  BY <1>1, <1>4 DEF PoolIsSaved, Address
<1> QED BY <1>5, <1>6, <1>7

LEMMA SaveIInv == ASSUME IInv, Save PROVE IInv'
<1> USE DEF IInv, Save
<1>1. /\ UNCHANGED <<staker, registered, confirmed, tonConfirmed, tx, details, heard, moved, budget>>
      /\ pc = "save" /\ pc' = "send" /\ file = NoFile /\ file' = Last
  BY DEF chainVars, Step, FileFits
<1>2. Last' = Last
  BY <1>1, LastStays
<1>3. TypeOK'
  BY <1>1, LastRange, VerificationAssumption DEF TypeOK, Pcs, Torn
<1>4. HeardIsTrue' /\ FileFits'
  BY <1>1, <1>2 DEF HeardIsTrue, FileFits
<1>5. \A i \in TxId : i # NoFile
  BY VerificationAssumption DEF TxId, NoFile
<1>6. PoolIsSaved'
  BY <1>1, <1>5 DEF PoolIsSaved, Address
<1> QED BY <1>3, <1>4, <1>6

(* The transaction in the file gets to the pool. *)
LEMMA SentIInv ==
  ASSUME IInv, file = Last, tx' \in {tx, [tx EXCEPT ![Last].state = "pool"]},
         UNCHANGED <<registered, staker, file, moved>>
  PROVE  tx' \in [TxId -> Tx] /\ PoolIsSaved'
<1> USE DEF IInv
<1>1. /\ tx' \in [TxId -> Tx]
      /\ \A j \in TxId : /\ tx'[j].address = tx[j].address
                         /\ tx'[j].state = "pool" => tx[j].state = "pool" \/ j = Last
  BY DEF TypeOK, Tx, States
<1> QED BY <1>1 DEF PoolIsSaved, Address

LEMMA SendIInv == ASSUME IInv, Send PROVE IInv'
<1> USE DEF IInv, Send
<1>1. /\ UNCHANGED <<staker, registered, confirmed, tonConfirmed, file, details, heard, moved>>
      /\ pc' \in {"join", "down"} /\ budget' \in Budget
      /\ file = Last /\ tx' \in {tx, [tx EXCEPT ![Last].state = "pool"]}
      /\ pc = "send"
  BY SpendType DEF chainVars, Step, FileFits, TypeOK
<1>2. tx' \in [TxId -> Tx] /\ PoolIsSaved'
  BY <1>1, SentIInv
<1>3. TypeOK'
  BY <1>1, <1>2 DEF TypeOK, Pcs
<1>4. HeardIsTrue' /\ FileFits'
  BY <1>1 DEF HeardIsTrue, FileFits
<1> QED BY <1>2, <1>3, <1>4

LEMMA CrashIInv == ASSUME IInv, Crash PROVE IInv'
<1> USE DEF IInv, Crash
<1>1. /\ UNCHANGED <<staker, registered, confirmed, tonConfirmed, details, heard, moved>>
      /\ pc' = "down" /\ budget' \in Budget
  BY SpendType DEF chainVars, TypeOK
<1>2. file' \in 0..Torn
  BY LastRange, VerificationAssumption DEF TypeOK, Torn
<1>3. tx' \in [TxId -> Tx] /\ PoolIsSaved'
  <2>1. CASE pc = "save"
    <3>1. file = NoFile /\ tx' = tx
      BY <2>1 DEF FileFits
    <3>2. \A i \in TxId : i # NoFile
      BY VerificationAssumption DEF TxId, NoFile
    <3> QED BY <1>1, <3>1, <3>2 DEF PoolIsSaved, Address, TypeOK
  <2>2. CASE pc = "send"
    BY <1>1, <2>2, SentIInv DEF FileFits
  <2>3. CASE pc \notin {"save", "send"}
    BY <1>1, <2>3 DEF PoolIsSaved, Address, TypeOK
  <2> QED BY <2>1, <2>2, <2>3
<1>4. TypeOK'
  BY <1>1, <1>2, <1>3 DEF TypeOK, Pcs
<1>5. HeardIsTrue' /\ FileFits'
  BY <1>1 DEF HeardIsTrue, FileFits
<1> QED BY <1>3, <1>4, <1>5

LEMMA NextIInv == ASSUME IInv, [Next]_vars PROVE IInv'
<1>1. CASE \E i \in TxId : Mine(i) \/ Lose(i) \/ Count(i)
  BY <1>1, MineIInv, LoseIInv, CountIInv
<1>2. CASE \E s \in Stakers, a \in Addresses : Switch(s, a)
  BY <1>2, SwitchIInv
<1>3. CASE Run
  BY <1>3, QuietStep, LoadIInv, PollIInv, SignIInv, SaveIInv, SendIInv DEF Run
<1>4. CASE Crash
  BY <1>4, CrashIInv
<1>5. CASE UNCHANGED vars
  <2>1. Last' = Last
    BY <1>5, LastStays DEF vars
  <2> QED BY <1>5, <2>1 DEF vars, chainVars, IInv, TypeOK, HeardIsTrue, FileFits,
                            PoolIsSaved, Address
<1> QED BY <1>1, <1>2, <1>3, <1>4, <1>5 DEF Next

(* The inductive invariant: what the process heard is true, the file holds a   *)
(* transaction where one is needed, and it holds what is in the pool.          *)
THEOREM Invariance == Spec => []IInv
<1>1. IInv /\ [Next]_vars => IInv'
  BY NextIInv
<1> QED BY <1>1, InitIInv, PTL DEF Spec

(* Every variable stays in its type: the number that is given to a transaction *)
(* names one, and the file holds one of them, nothing, or is torn.             *)
THEOREM TypeCorrect == Spec => []TypeOK
<1>1. IInv => TypeOK
  BY DEF IInv
<1> QED BY <1>1, Invariance, PTL

(* A relay that is up has both keys confirmed in its staker's UserData,        *)
(* whatever was confirmed or undone in its earlier lives.                      *)
THEOREM UpCorrect == Spec => []UpIsConfirmed
<1>1. IInv => UpIsConfirmed
  BY DEF IInv, HeardIsTrue, UpIsConfirmed, Keys
<1> QED BY <1>1, Invariance, PTL

(* A relay whose address stays the same has at most one verification in the    *)
(* node's pool, for any number of crashes, lost answers and transactions.      *)
THEOREM OnePoolCorrect == Spec => []OneInPool
<1>1. IInv => OneInPool
  BY DEF IInv, PoolIsSaved, OneInPool
<1> QED BY <1>1, Invariance, PTL
================================================================================
