-------------------------- MODULE EthSubscriberProofs --------------------------
(***************************************************************************)
(* Type correctness of EthSubscriber; that verify's verdicts are true      *)
(* (Exists always, NotExists as long as no block is reorganised); that     *)
(* every waiting caller has its confirmation; that the filter is fresh.    *)
(***************************************************************************)
EXTENDS EthSubscriber, TLAPS

(* A round never asks for blocks the chain does not have. *)
WithinChain == pc # "idle" => to <= head

(* The owner of a pending confirmation waits for that log. *)
OwnersWait ==
  \A l \in Pending : /\ claim[owner[l]].log = l
                     /\ claim[owner[l]].place # Absent
                     /\ answer[owner[l]] = "waiting"

(* Who waits owns a confirmation. *)
WaitersOwn == \A c \in Callers : answer[c] = "waiting" => \E l \in Logs : owner[l] = c

(* Confirmations are only looked up under the lock, when they are due. *)
CheckedAreDue ==
  /\ checking # {} => pc = "check"
  /\ \A l \in checking : l \in Pending /\ Target(l) <= to

(* A receipt that confirms a due claim stays true. *)
ReceiptsHold ==
  \A l \in Logs : receipt[l] # {} =>
    /\ l \in checking
    /\ \E p \in Place : /\ receipt[l] = {p}
                        /\ p = claim[owner[l]].place => at[l] = p

FoundIsOne == \A l \in Logs : found[l] # {} => \E p \in Place : found[l] = {p}

(* A confirmed claim is out of the reach of reorganisations. *)
ConfirmedIsFinal ==
  \A c \in Callers : answer[c] = "Exists" =>
    Holds(c) /\ claim[c].place # Absent /\ claim[c].place.block + Confirm <= head

IInv ==
  /\ TypeOK /\ WithinChain /\ OwnersWait /\ WaitersOwn /\ CheckedAreDue
  /\ ReceiptsHold /\ FoundIsOne /\ ConfirmedIsFinal

(* The only element of a singleton. *)
LEMMA TheOne == ASSUME NEW p PROVE The({p}) = p
  BY DEF The

(* Check gives one of two statuses, and Exists only to the claimed place. *)
LEMMA CheckRange ==
  ASSUME NEW l, NEW p
  PROVE  /\ Check(l, p) \in {"Exists", "NotExists"}
         /\ Check(l, p) = "Exists" <=> p = claim[owner[l]].place
  BY DEF Check

LEMMA InitIInv == ASSUME EthAssumption, Init PROVE IInv
<1> USE DEF Init, EthAssumption
<1>1. TypeOK
  BY DEF TypeOK, Place, Absent, NoClaim, NoneOf, Match, Answers
<1>2. Pending = {}
  BY DEF Pending
<1>3. WithinChain /\ OwnersWait /\ WaitersOwn /\ CheckedAreDue
  BY <1>2 DEF WithinChain, OwnersWait, WaitersOwn, CheckedAreDue
<1>4. ReceiptsHold /\ FoundIsOne /\ ConfirmedIsFinal
  BY DEF ReceiptsHold, FoundIsOne, ConfirmedIsFinal, NoneOf
<1> QED BY <1>1, <1>3, <1>4 DEF IInv

-----------------------------------------------------------------------------
(* The network                                                               *)

(* A step that only moves logs keeps the invariant when it touches no place   *)
(* that is deep enough to be confirmed.                                       *)
LEMMA ChainStep ==
  ASSUME EthAssumption, IInv,
         head' \in Nat, head <= head', epoch' \in Nat, at' \in [Logs -> Place],
         \A l \in Logs : \A p \in Place :
           p # Absent /\ at[l] = p /\ p.block + Confirm <= head => at'[l] = p,
         UNCHANGED <<callVars, last, pendingVars, topicVars, roundVars, failures>>
  PROVE  IInv'
<1> USE DEF EthAssumption
<1>a. /\ claim' = claim /\ answer' = answer /\ last' = last /\ owner' = owner
      /\ verdict' = verdict /\ entries' = entries /\ filter' = filter /\ pc' = pc
      /\ to' = to /\ found' = found /\ checking' = checking /\ receipt' = receipt
      /\ failures' = failures
  BY DEF callVars, pendingVars, topicVars, roundVars
<1>t. TypeOK /\ head \in Nat /\ last \in Nat /\ to \in Nat
  BY DEF IInv, TypeOK
<1>p. Pending' = Pending /\ \A l \in Logs : Target(l)' = Target(l)
  BY <1>a DEF Pending, Target
<1>1. TypeOK'
  BY <1>a, <1>t DEF TypeOK
<1>2. WithinChain'
  BY <1>a, <1>t DEF IInv, WithinChain
<1>3. OwnersWait' /\ WaitersOwn' /\ CheckedAreDue' /\ FoundIsOne'
  <2>1. OwnersWait'
    BY <1>a, <1>p DEF IInv, OwnersWait
  <2>2. WaitersOwn' /\ FoundIsOne'
    BY <1>a DEF IInv, WaitersOwn, FoundIsOne
  <2>3. CheckedAreDue'
    BY <1>a DEF IInv, CheckedAreDue, Pending, Target
  <2> QED BY <2>1, <2>2, <2>3
<1>4. ReceiptsHold'
  <2> SUFFICES ASSUME NEW l \in Logs, receipt[l] # {}
               PROVE  l \in checking /\ \E p \in Place :
                         receipt[l] = {p} /\ (p = claim[owner[l]].place => at'[l] = p)
    BY <1>a DEF ReceiptsHold
  <2>1. PICK p \in Place : /\ receipt[l] = {p}
                           /\ p = claim[owner[l]].place => at[l] = p
    BY DEF IInv, ReceiptsHold
  <2>2. l \in checking
    BY DEF IInv, ReceiptsHold
  <2>3. l \in Pending /\ Target(l) <= to /\ pc = "check"
    BY <2>2 DEF IInv, CheckedAreDue
  <2>4. ASSUME p = claim[owner[l]].place PROVE at'[l] = p
    <3>1. p # Absent
      BY <2>3, <2>4 DEF IInv, OwnersWait
    <3>2. p.block + Confirm <= head
      BY <2>3, <2>4, <1>t DEF IInv, WithinChain, Target, Place
    <3> QED BY <2>1, <2>4, <3>1, <3>2
  <2> QED BY <2>1, <2>2, <2>4
<1>5. ConfirmedIsFinal'
  <2> SUFFICES ASSUME NEW c \in Callers, answer[c] = "Exists"
               PROVE  /\ Holds(c)' /\ claim[c].place # Absent
                      /\ claim[c].place.block + Confirm <= head'
    BY <1>a DEF ConfirmedIsFinal
  <2>1. /\ Holds(c) /\ claim[c].place # Absent
        /\ claim[c].place.block + Confirm <= head
    BY DEF IInv, ConfirmedIsFinal
  <2>2. claim[c].place \in Place /\ claim[c].place.block \in Nat
    BY <1>t DEF TypeOK, Place
  <2>3. Holds(c)'
    BY <1>a, <2>1, <2>2 DEF Holds
  <2> QED BY <1>t, <2>1, <2>2, <2>3
<1> QED BY <1>1, <1>2, <1>3, <1>4, <1>5 DEF IInv

LEMMA NewBlockIInv == ASSUME EthAssumption, IInv, NewBlock PROVE IInv'
<1>t. head \in Nat /\ epoch \in Nat /\ at \in [Logs -> Place] /\ head + 1 \in Nat
  BY DEF IInv, TypeOK
<1>1. PICK S \in SUBSET {l \in Logs : at[l] = Absent} :
        at' = [l \in Logs |-> IF l \in S THEN [block |-> head + 1, hash |-> epoch] ELSE at[l]]
  BY DEF NewBlock
<1>2. at' \in [Logs -> Place]
  BY <1>t, <1>1 DEF Place
<1>3. \A l \in Logs : \A p \in Place : p # Absent /\ at[l] = p => at'[l] = p
  BY <1>1
<1>4. head' \in Nat /\ head <= head' /\ epoch' \in Nat
  BY <1>t DEF NewBlock
<1> QED BY <1>2, <1>3, <1>4, ChainStep DEF NewBlock

LEMMA ReorgIInv ==
  ASSUME EthAssumption, IInv, NEW n \in 1 .. head, Reorg(n) PROVE IInv'
<1>t. head \in Nat /\ epoch \in Nat /\ at \in [Logs -> Place] /\ n \in Nat
  BY DEF IInv, TypeOK
<1> DEFINE moving == {l \in Logs : at[l] = Absent \/ at[l].block >= n}
           fresh == {Absent} \cup {[block |-> b, hash |-> epoch + 1] : b \in n .. head}
<1>1. PICK new \in [moving -> fresh] :
        at' = [l \in Logs |-> IF l \in DOMAIN new THEN new[l] ELSE at[l]]
  BY DEF Reorg
<1>2. fresh \subseteq Place
  BY <1>t DEF Place, Absent
<1>3. DOMAIN new = moving /\ \A l \in moving : new[l] \in fresh
  OBVIOUS
<1>4. at' \in [Logs -> Place]
  BY <1>t, <1>1, <1>2, <1>3
<1>5. ASSUME NEW l \in Logs, NEW p \in Place,
             p # Absent, at[l] = p, p.block + Confirm <= head
      PROVE  at'[l] = p
  <2>1. p.block \in Nat
    BY DEF Place
  <2>2. ~ (p.block >= n)
    BY <1>t, <1>5, <2>1 DEF Reorg, EthAssumption
  <2> QED BY <1>1, <1>3, <1>5, <2>2
<1>6. head' \in Nat /\ head <= head' /\ epoch' \in Nat
  BY <1>t DEF Reorg
<1> QED BY <1>4, <1>5, <1>6, ChainStep DEF Reorg

-----------------------------------------------------------------------------
(* Topics and verify                                                         *)

(* A step that changes only the topics.                                       *)
LEMMA TopicStep ==
  ASSUME EthAssumption, IInv, TypeOK',
         UNCHANGED <<chainVars, callVars, last, pendingVars, roundVars, failures>>
  PROVE  IInv'
<1>a. /\ head' = head /\ at' = at /\ claim' = claim /\ answer' = answer
      /\ last' = last /\ owner' = owner /\ pc' = pc /\ to' = to /\ found' = found
      /\ checking' = checking /\ receipt' = receipt
  BY DEF chainVars, callVars, pendingVars, roundVars
<1>1. WithinChain' /\ WaitersOwn'
  BY <1>a DEF IInv, WithinChain, WaitersOwn
<1>4. OwnersWait' /\ CheckedAreDue'
  BY <1>a DEF IInv, OwnersWait, CheckedAreDue, Pending, Target
<1>2. ReceiptsHold' /\ FoundIsOne'
  BY <1>a DEF IInv, ReceiptsHold, FoundIsOne
<1>3. ConfirmedIsFinal'
  BY <1>a DEF IInv, ConfirmedIsFinal, Holds
<1> QED BY <1>1, <1>2, <1>3, <1>4 DEF IInv

LEMMA MatchType ==
  ASSUME EthAssumption, NEW S \in SUBSET Configs
  PROVE  Match(S) \in [addresses : SUBSET Configs, topics : SUBSET Configs]
  BY DEF EthAssumption, Match

LEMMA SubscribeIInv ==
  ASSUME EthAssumption, IInv, NEW k \in Configs, Subscribe(k) PROVE IInv'
<1>1. entries' \subseteq Configs /\ filter' = Match(entries')
  BY DEF IInv, TypeOK, Subscribe, FilterAfter
<1>m. Match(entries') \in [addresses : SUBSET Configs, topics : SUBSET Configs]
  BY <1>1, MatchType
<1>2. TypeOK'
  BY <1>1, <1>m DEF IInv, TypeOK, Subscribe, chainVars, callVars, pendingVars, roundVars
<1> QED BY <1>2, TopicStep DEF Subscribe

LEMMA UnsubscribeIInv ==
  ASSUME EthAssumption, IInv, NEW S \in SUBSET Configs, Unsubscribe(S) PROVE IInv'
<1>1. entries' \subseteq Configs /\ filter' = Match(entries')
  BY DEF IInv, TypeOK, Unsubscribe, FilterAfter
<1>m. Match(entries') \in [addresses : SUBSET Configs, topics : SUBSET Configs]
  BY <1>1, MatchType
<1>2. TypeOK'
  BY <1>1, <1>m DEF IInv, TypeOK, Unsubscribe, chainVars, callVars, pendingVars, roundVars
<1> QED BY <1>2, TopicStep DEF Unsubscribe

LEMMA VerifyIInv ==
  ASSUME EthAssumption, IInv, NEW c \in Callers, NEW l \in Logs,
         NEW p \in Claimable(l), Verify(c, l, p)
  PROVE  IInv'
<1> USE DEF EthAssumption
<1>t. TypeOK
  BY DEF IInv
<1>p. p \in Place /\ p # Absent
  <2>1. head \in Nat /\ epoch \in Nat /\ at[l] \in Place
    BY <1>t DEF TypeOK
  <2> QED BY <2>1 DEF Claimable, Place, Absent, Forged
<1>a. /\ answer[c] = "none" /\ pc # "check"
      /\ claim' = [claim EXCEPT ![c] = [log |-> l, place |-> p]]
      /\ answer' = [d \in Callers |-> IF d = c THEN "waiting"
                                      ELSE IF d \in Replaced(l) THEN "Failed" ELSE answer[d]]
      /\ owner' = [owner EXCEPT ![l] = c]
      /\ verdict' = [verdict EXCEPT ![l] = "none"]
  BY DEF Verify
<1>b. /\ head' = head /\ epoch' = epoch /\ at' = at /\ last' = last
      /\ entries' = entries /\ filter' = filter /\ pc' = pc /\ to' = to /\ found' = found
      /\ checking' = checking /\ receipt' = receipt /\ failures' = failures
  BY DEF Verify, chainVars, topicVars, roundVars
<1>c. checking = {}
  BY <1>a DEF IInv, CheckedAreDue
<1>n. \A m \in Logs : owner[m] # c
  BY <1>a DEF IInv, OwnersWait, Pending
<1>1. TypeOK'
  BY <1>t, <1>p, <1>a, <1>b DEF TypeOK, Answers
<1>2. WithinChain' /\ FoundIsOne'
  BY <1>b DEF IInv, WithinChain, FoundIsOne
<1>3. OwnersWait'
  <2> SUFFICES ASSUME NEW m \in Logs, owner'[m] # Nobody
               PROVE  /\ claim'[owner'[m]].log = m
                      /\ claim'[owner'[m]].place # Absent
                      /\ answer'[owner'[m]] = "waiting"
    BY DEF OwnersWait, Pending
  <2>1. CASE m = l
    BY <2>1, <1>a, <1>p, <1>t DEF TypeOK
  <2>2. CASE m # l
    <3>1. owner'[m] = owner[m] /\ owner[m] \in Callers /\ owner[m] # c
      BY <2>2, <1>a, <1>t, <1>n DEF TypeOK
    <3>2. /\ claim[owner[m]].log = m /\ claim[owner[m]].place # Absent
          /\ answer[owner[m]] = "waiting"
      BY <3>1 DEF IInv, OwnersWait, Pending
    <3>3. owner[m] # owner[l]
      BY <3>2, <3>1, <2>2 DEF IInv, OwnersWait, Pending
    <3>4. claim'[owner[m]] = claim[owner[m]]
      BY <3>1, <1>a, <1>t DEF TypeOK
    <3>5. answer'[owner[m]] = answer[owner[m]]
      BY <3>1, <3>3, <1>a DEF Replaced
    <3> QED BY <3>1, <3>2, <3>4, <3>5
  <2> QED BY <2>1, <2>2
<1>4. WaitersOwn'
  <2> SUFFICES ASSUME NEW d \in Callers, answer'[d] = "waiting"
               PROVE  \E m \in Logs : owner'[m] = d
    BY DEF WaitersOwn
  <2>1. CASE d = c
    BY <2>1, <1>a, <1>t DEF TypeOK
  <2>2. CASE d # c
    <3>1. answer[d] = "waiting" /\ d \notin Replaced(l)
      BY <2>2, <1>a
    <3>2. PICK m \in Logs : owner[m] = d
      BY <3>1 DEF IInv, WaitersOwn
    <3>3. m # l
      BY <3>1, <3>2 DEF Replaced
    <3> QED BY <3>2, <3>3, <1>a, <1>t DEF TypeOK
  <2> QED BY <2>1, <2>2
<1>5. CheckedAreDue' /\ ReceiptsHold'
  BY <1>b, <1>c DEF IInv, CheckedAreDue, ReceiptsHold
<1>6. ConfirmedIsFinal'
  <2> SUFFICES ASSUME NEW d \in Callers, answer'[d] = "Exists"
               PROVE  /\ Holds(d)' /\ claim'[d].place # Absent
                      /\ claim'[d].place.block + Confirm <= head
    BY <1>b DEF ConfirmedIsFinal
  <2>1. d # c /\ answer[d] = "Exists"
    BY <1>a
  <2>2. claim'[d] = claim[d]
    BY <2>1, <1>a, <1>t DEF TypeOK
  <2> QED BY <2>1, <2>2, <1>b DEF IInv, ConfirmedIsFinal, Holds
<1> QED BY <1>1, <1>2, <1>3, <1>4, <1>5, <1>6 DEF IInv

LEMMA VerifyUncheckedIInv ==
  ASSUME EthAssumption, IInv, NEW c \in Callers, VerifyUnchecked(c) PROVE IInv'
<1>a. /\ answer[c] = "none" /\ answer' = [answer EXCEPT ![c] = "NotExists"]
      /\ head' = head /\ epoch' = epoch /\ at' = at /\ claim' = claim /\ last' = last
      /\ owner' = owner /\ verdict' = verdict /\ entries' = entries /\ filter' = filter
      /\ pc' = pc /\ to' = to /\ found' = found /\ checking' = checking
      /\ receipt' = receipt /\ failures' = failures
  BY DEF VerifyUnchecked, chainVars, pendingVars, topicVars, roundVars
<1>t. TypeOK
  BY DEF IInv
<1>1. TypeOK'
  BY <1>a, <1>t DEF TypeOK, Answers
<1>2. WithinChain' /\ FoundIsOne' /\ ReceiptsHold'
  BY <1>a DEF IInv, WithinChain, FoundIsOne, ReceiptsHold
<1>3. CheckedAreDue'
  BY <1>a DEF IInv, CheckedAreDue, Pending, Target
<1>4. OwnersWait' /\ WaitersOwn'
  BY <1>a, <1>t DEF IInv, OwnersWait, WaitersOwn, Pending, TypeOK
<1>5. ConfirmedIsFinal'
  BY <1>a, <1>t DEF IInv, ConfirmedIsFinal, Holds, TypeOK
<1> QED BY <1>1, <1>2, <1>3, <1>4, <1>5 DEF IInv

-----------------------------------------------------------------------------
(* update                                                                    *)

(* A step of the loop that neither answers nor records anything.              *)
LEMMA RoundStep ==
  ASSUME EthAssumption, IInv, TypeOK', WithinChain', FoundIsOne', ReceiptsHold',
         to' = to \/ checking = {}, checking' \subseteq checking,
         checking' # {} => pc' = "check",
         UNCHANGED <<chainVars, callVars, last, pendingVars, topicVars>>
  PROVE  IInv'
<1>a. /\ head' = head /\ at' = at /\ claim' = claim /\ answer' = answer
      /\ owner' = owner
  BY DEF chainVars, callVars, pendingVars
<1>1. OwnersWait' /\ WaitersOwn'
  BY <1>a DEF IInv, OwnersWait, WaitersOwn, Pending
<1>2. CheckedAreDue'
  BY <1>a DEF IInv, CheckedAreDue, Pending, Target
<1>3. ConfirmedIsFinal'
  BY <1>a DEF IInv, ConfirmedIsFinal, Holds
<1> QED BY <1>1, <1>2, <1>3 DEF IInv

LEMMA GetHeightIInv == ASSUME EthAssumption, IInv, GetHeight PROVE IInv'
<1> USE DEF EthAssumption
<1>t. TypeOK /\ head \in Nat /\ last \in Nat
  BY DEF IInv, TypeOK
<1>1. to' \in last + 1 .. last + MaxRange /\ to' <= head
  BY <1>t DEF GetHeight, RangeEnd
<1>2. checking = {} /\ checking' = {}
  BY DEF IInv, CheckedAreDue, GetHeight
<1>3. TypeOK'
  BY <1>t, <1>1 DEF TypeOK, GetHeight, chainVars, callVars, pendingVars, topicVars
<1>4. WithinChain' /\ FoundIsOne' /\ ReceiptsHold'
  BY <1>1, <1>2 DEF IInv, WithinChain, FoundIsOne, ReceiptsHold, GetHeight, chainVars
<1> QED BY <1>2, <1>3, <1>4, RoundStep DEF GetHeight

LEMMA ProcessBlocksIInv ==
  ASSUME EthAssumption, IInv, NEW removed \in SUBSET Logs, ProcessBlocks(removed)
  PROVE  IInv'
<1>t. TypeOK /\ at \in [Logs -> Place] /\ Absent \in Place
  BY DEF IInv, TypeOK, Place, Absent
<1>1. \A l \in Logs : found'[l] \in {{}, {Absent}, {at[l]}}
  BY DEF ProcessBlocks
<1>2. found' \in [Logs -> SUBSET Place]
  BY <1>t DEF ProcessBlocks
<1>3. checking = {} /\ checking' = {}
  BY DEF IInv, CheckedAreDue, ProcessBlocks
<1>4. TypeOK'
  BY <1>t, <1>2 DEF TypeOK, ProcessBlocks, chainVars, callVars, pendingVars, topicVars
<1>5. WithinChain' /\ ReceiptsHold'
  BY <1>3 DEF IInv, WithinChain, ReceiptsHold, ProcessBlocks, chainVars
<1>6. FoundIsOne'
  BY <1>t, <1>1 DEF FoundIsOne
<1> QED BY <1>3, <1>4, <1>5, <1>6, RoundStep DEF ProcessBlocks

LEMMA QueryFailsIInv == ASSUME EthAssumption, IInv, QueryFails PROVE IInv'
<1>1. checking = {} /\ checking' = {}
  BY DEF IInv, CheckedAreDue, QueryFails
<1>2. TypeOK'
  BY DEF IInv, TypeOK, QueryFails, chainVars, callVars, pendingVars, topicVars
<1>3. WithinChain' /\ ReceiptsHold' /\ FoundIsOne'
  BY <1>1 DEF IInv, WithinChain, ReceiptsHold, FoundIsOne, QueryFails
<1> QED BY <1>1, <1>2, <1>3, RoundStep DEF QueryFails

LEMMA FindEventIInv ==
  ASSUME EthAssumption, IInv, NEW l \in Logs, FindEvent(l) PROVE IInv'
<1>t. TypeOK /\ at \in [Logs -> Place] /\ receipt \in [Logs -> SUBSET Place]
  BY DEF IInv, TypeOK
<1>a. /\ receipt' = [receipt EXCEPT ![l] = {at[l]}] /\ checking' = checking
      /\ l \in checking /\ pc = "check" /\ pc' = pc /\ to' = to /\ found' = found
      /\ head' = head /\ at' = at /\ claim' = claim /\ owner' = owner
  BY DEF FindEvent, chainVars, callVars, pendingVars
<1>1. TypeOK'
  BY <1>t DEF TypeOK, FindEvent, chainVars, callVars, pendingVars, topicVars
<1>2. WithinChain' /\ FoundIsOne'
  BY <1>a DEF IInv, WithinChain, FoundIsOne
<1>3. ReceiptsHold'
  <2> SUFFICES ASSUME NEW m \in Logs, receipt'[m] # {}
               PROVE  m \in checking /\ \E p \in Place :
                         receipt'[m] = {p} /\ (p = claim[owner[m]].place => at[m] = p)
    BY <1>a DEF ReceiptsHold
  <2>1. CASE m = l
    BY <2>1, <1>a, <1>t
  <2>2. CASE m # l
    BY <2>2, <1>a, <1>t DEF IInv, ReceiptsHold
  <2> QED BY <2>1, <2>2
<1> QED BY <1>1, <1>2, <1>3, <1>a, RoundStep DEF FindEvent

LEMMA FindFailsIInv ==
  ASSUME EthAssumption, IInv, NEW l \in Logs, FindFails(l) PROVE IInv'
<1>a. /\ receipt' = receipt /\ checking' = checking \ {l} /\ receipt[l] = {}
      /\ pc = "check" /\ pc' = pc /\ to' = to /\ found' = found
      /\ head' = head /\ at' = at /\ claim' = claim /\ owner' = owner
  BY DEF FindFails, chainVars, callVars, pendingVars
<1>1. TypeOK'
  BY DEF IInv, TypeOK, FindFails, chainVars, callVars, pendingVars, topicVars
<1>2. WithinChain' /\ FoundIsOne'
  BY <1>a DEF IInv, WithinChain, FoundIsOne
<1>3. ReceiptsHold'
  BY <1>a DEF IInv, ReceiptsHold
<1> QED BY <1>1, <1>2, <1>3, <1>a, RoundStep DEF FindFails

(* Answering the owners of the confirmations in S.                            *)
LEMMA ResolveStep ==
  ASSUME EthAssumption, IInv, NEW S \in SUBSET Pending, NEW status, Resolve(S, status),
         UNCHANGED <<chainVars, claim>>,
         \A l \in S : /\ status[l] \in {"Exists", "NotExists"}
                      /\ status[l] = "Exists" =>
                           at[l] = claim[owner[l]].place /\ Target(l) <= head
  PROVE  /\ answer' \in [Callers -> Answers]
         /\ owner' \in [Logs -> Callers \cup {Nobody}]
         /\ Pending' = Pending \ S
         /\ \A l \in Pending \ S : owner'[l] = owner[l]
         /\ OwnersWait' /\ WaitersOwn' /\ ConfirmedIsFinal'
<1> USE DEF EthAssumption
<1>t. TypeOK /\ Pending \subseteq Logs
  BY DEF IInv, Pending
<1>a. /\ head' = head /\ at' = at /\ claim' = claim
      /\ owner' = [l \in Logs |-> IF l \in S THEN Nobody ELSE owner[l]]
      /\ answer' = [c \in Callers |-> IF \E l \in S : owner[l] = c
                                      THEN status[claim[c].log] ELSE answer[c]]
  BY DEF Resolve, chainVars
<1>b. \A l \in Pending : /\ owner[l] \in Callers /\ claim[owner[l]].log = l
                         /\ claim[owner[l]].place # Absent
                         /\ answer[owner[l]] = "waiting"
  BY <1>t DEF IInv, OwnersWait, Pending, TypeOK
<1>c. \A l \in S : answer'[owner[l]] = status[l]
  BY <1>a, <1>b
<1>d. \A c \in Callers : (\A l \in S : owner[l] # c) => answer'[c] = answer[c]
  BY <1>a
<1>1. answer' \in [Callers -> Answers]
  <2> SUFFICES ASSUME NEW c \in Callers PROVE answer'[c] \in Answers
    BY <1>a
  <2>1. CASE \E l \in S : owner[l] = c
    BY <2>1, <1>c DEF Answers
  <2>2. CASE \A l \in S : owner[l] # c
    BY <2>2, <1>d, <1>t DEF TypeOK
  <2> QED BY <2>1, <2>2
<1>2. owner' \in [Logs -> Callers \cup {Nobody}]
  BY <1>a, <1>t DEF TypeOK
<1>3. Pending' = Pending \ S /\ \A l \in Pending \ S : owner'[l] = owner[l]
  BY <1>a, <1>t DEF Pending
<1>4. OwnersWait'
  <2> SUFFICES ASSUME NEW l \in Pending \ S
               PROVE  /\ claim[owner[l]].log = l /\ claim[owner[l]].place # Absent
                      /\ answer'[owner[l]] = "waiting"
    <3>1. \A l \in Pending' : l \in Pending \ S /\ owner'[l] = owner[l]
      BY <1>3
    <3> QED BY <3>1, <1>a DEF OwnersWait
  <2>1. \A m \in S : owner[m] # owner[l]
    BY <1>b
  <2> QED BY <2>1, <1>b, <1>d
<1>5. WaitersOwn'
  <2> SUFFICES ASSUME NEW c \in Callers, answer'[c] = "waiting"
               PROVE  \E l \in Logs : owner'[l] = c
    BY DEF WaitersOwn
  <2>1. \A l \in S : owner[l] # c
    BY <1>c
  <2>2. PICK l \in Logs : owner[l] = c
    BY <2>1, <1>d DEF IInv, WaitersOwn
  <2> QED BY <2>1, <2>2, <1>a
<1>6. ConfirmedIsFinal'
  <2> SUFFICES ASSUME NEW c \in Callers, answer'[c] = "Exists"
               PROVE  /\ Holds(c) /\ claim[c].place # Absent
                      /\ claim[c].place.block + Confirm <= head
    BY <1>a DEF ConfirmedIsFinal, Holds
  <2>1. CASE \E l \in S : owner[l] = c
    BY <2>1, <1>b, <1>c, <1>t DEF Holds, Target
  <2>2. CASE \A l \in S : owner[l] # c
    BY <2>2, <1>d DEF IInv, ConfirmedIsFinal
  <2> QED BY <2>1, <2>2
<1> QED BY <1>1, <1>2, <1>3, <1>4, <1>5, <1>6

LEMMA RecordedType ==
  ASSUME EthAssumption, IInv, NEW l \in Pending
  PROVE  Recorded(l) \in {"none", "Exists", "NotExists"}
  BY CheckRange DEF IInv, TypeOK, Recorded, Pending

LEMMA ApplyIInv == ASSUME EthAssumption, IInv, Apply PROVE IInv'
<1> USE DEF EthAssumption
<1> DEFINE now == [l \in Logs |-> IF l \in Pending THEN Recorded(l) ELSE "none"]
           sure == Due \ ToCheck
<1>t. TypeOK /\ Pending \subseteq Logs
  BY DEF IInv, Pending
<1>a. /\ Resolve(sure, now)
      /\ verdict' = [l \in Logs |-> IF l \in sure THEN "none" ELSE now[l]]
      /\ checking' = ToCheck /\ found' = NoneOf({}) /\ pc' = "check" /\ pc = "apply"
      /\ head' = head /\ epoch' = epoch /\ at' = at /\ claim' = claim /\ last' = last
      /\ entries' = entries /\ filter' = filter /\ to' = to /\ receipt' = receipt
      /\ failures' = failures
  BY DEF Apply, chainVars, topicVars
<1>b. sure \subseteq Pending /\ ToCheck \subseteq Pending \ sure /\ ToCheck \subseteq Due
  BY DEF Due, ToCheck
<1>c. \A l \in sure : now[l] = "NotExists"
  BY <1>b, <1>t DEF ToCheck
<1>d. /\ answer' \in [Callers -> Answers]
      /\ owner' \in [Logs -> Callers \cup {Nobody}]
      /\ Pending' = Pending \ sure
      /\ \A l \in Pending \ sure : owner'[l] = owner[l]
      /\ OwnersWait' /\ WaitersOwn' /\ ConfirmedIsFinal'
  <2> HIDE DEF now, sure
  <2> QED BY <1>a, <1>b, <1>c, ResolveStep DEF chainVars
<1>e. verdict' \in [Logs -> {"none", "Exists", "NotExists"}]
  <2>1. \A l \in Logs : now[l] \in {"none", "Exists", "NotExists"}
    BY RecordedType
  <2> QED BY <1>a, <2>1
<1>1. TypeOK'
  BY <1>t, <1>a, <1>b, <1>d, <1>e DEF TypeOK, NoneOf
<1>2. WithinChain' /\ FoundIsOne'
  BY <1>a DEF IInv, WithinChain, FoundIsOne, NoneOf
<1>3. CheckedAreDue'
  <2> SUFFICES ASSUME NEW l \in ToCheck PROVE l \in Pending' /\ Target(l)' <= to
    BY <1>a DEF CheckedAreDue
  <2>1. l \in Pending' /\ owner'[l] = owner[l]
    BY <1>b, <1>d
  <2>2. Target(l) <= to
    BY <1>b DEF Due
  <2> QED BY <1>a, <2>1, <2>2 DEF Target
<1>4. ReceiptsHold'
  BY <1>a DEF IInv, ReceiptsHold, CheckedAreDue
<1> QED BY <1>1, <1>2, <1>3, <1>4, <1>d DEF IInv

LEMMA EndRoundIInv == ASSUME EthAssumption, IInv, EndRound PROVE IInv'
<1> USE DEF EthAssumption
<1> DEFINE status == [l \in Logs |-> IF receipt[l] = {} THEN "none"
                                     ELSE Check(l, The(receipt[l]))]
<1>t. TypeOK /\ Pending \subseteq Logs
  BY DEF IInv, Pending
<1>a. /\ Resolve(checking, status) /\ \A l \in checking : receipt[l] # {}
      /\ verdict' = [l \in Logs |-> IF l \in checking THEN "none" ELSE verdict[l]]
      /\ checking' = {} /\ receipt' = NoneOf({}) /\ pc' = "idle" /\ last' = to
      /\ head' = head /\ epoch' = epoch /\ at' = at /\ claim' = claim
      /\ entries' = entries /\ filter' = filter /\ to' = to /\ found' = found
      /\ failures' = failures /\ pc = "check"
  BY DEF EndRound, chainVars, topicVars
<1>b. checking \subseteq Pending
  BY DEF IInv, CheckedAreDue
<1>c. \A l \in checking :
        /\ status[l] \in {"Exists", "NotExists"}
        /\ status[l] = "Exists" => at[l] = claim[owner[l]].place /\ Target(l) <= head
  <2> SUFFICES ASSUME NEW l \in checking
               PROVE  /\ status[l] \in {"Exists", "NotExists"}
                      /\ status[l] = "Exists" =>
                           at[l] = claim[owner[l]].place /\ Target(l) <= head
    OBVIOUS
  <2>1. PICK p \in Place : /\ receipt[l] = {p}
                           /\ p = claim[owner[l]].place => at[l] = p
    BY <1>a, <1>b, <1>t DEF IInv, ReceiptsHold
  <2>2. status[l] = Check(l, p)
    BY <1>a, <1>b, <1>t, <2>1, TheOne
  <2>3. Target(l) <= head
    <3>1. Target(l) <= to /\ to <= head
      BY <1>a DEF IInv, CheckedAreDue, WithinChain
    <3>2. claim[owner[l]].place \in Place
      BY <1>b, <1>t DEF TypeOK, Pending
    <3>3. Target(l) \in Nat /\ to \in Nat /\ head \in Nat
      BY <3>2, <1>t DEF Target, Place, TypeOK
    <3> QED BY <3>1, <3>3
  <2> QED BY <2>1, <2>2, <2>3, CheckRange
<1>d. /\ answer' \in [Callers -> Answers]
      /\ owner' \in [Logs -> Callers \cup {Nobody}]
      /\ OwnersWait' /\ WaitersOwn' /\ ConfirmedIsFinal'
  <2> HIDE DEF status
  <2> QED BY <1>a, <1>b, <1>c, ResolveStep DEF chainVars
<1>1. TypeOK'
  BY <1>t, <1>a, <1>d DEF TypeOK, NoneOf
<1>2. WithinChain' /\ FoundIsOne' /\ CheckedAreDue' /\ ReceiptsHold'
  BY <1>a DEF IInv, WithinChain, FoundIsOne, CheckedAreDue, ReceiptsHold, NoneOf
<1> QED BY <1>1, <1>2, <1>d DEF IInv

LEMMA NextIInv == ASSUME EthAssumption, IInv, [Next]_vars PROVE IInv'
<1>1. CASE NewBlock
  BY <1>1, NewBlockIInv
<1>2. ASSUME NEW n \in 1 .. head, Reorg(n) PROVE IInv'
  BY <1>2, ReorgIInv
<1>3. ASSUME NEW k \in Configs, Subscribe(k) PROVE IInv'
  BY <1>3, SubscribeIInv
<1>4. ASSUME NEW S \in SUBSET Configs, Unsubscribe(S) PROVE IInv'
  BY <1>4, UnsubscribeIInv
<1>5. ASSUME NEW c \in Callers, NEW l \in Logs, NEW p \in Claimable(l), Verify(c, l, p)
      PROVE  IInv'
  BY <1>5, VerifyIInv
<1>6. ASSUME NEW c \in Callers, VerifyUnchecked(c) PROVE IInv'
  BY <1>6, VerifyUncheckedIInv
<1>7. CASE UpdateStep
  <2>1. CASE GetHeight
    BY <2>1, GetHeightIInv
  <2>2. ASSUME NEW S \in SUBSET Logs, ProcessBlocks(S) PROVE IInv'
    BY <2>2, ProcessBlocksIInv
  <2>3. CASE Apply
    BY <2>3, ApplyIInv
  <2>4. ASSUME NEW l \in Logs, FindEvent(l) PROVE IInv'
    BY <2>4, FindEventIInv
  <2>5. CASE EndRound
    BY <2>5, EndRoundIInv
  <2> QED BY <1>7, <2>1, <2>2, <2>3, <2>4, <2>5 DEF UpdateStep
<1>8. CASE QueryFails
  BY <1>8, QueryFailsIInv
<1>9. ASSUME NEW l \in Logs, FindFails(l) PROVE IInv'
  BY <1>9, FindFailsIInv
<1>10. CASE UNCHANGED vars
  <2>1. UNCHANGED <<chainVars, callVars, last, pendingVars, topicVars, roundVars, failures>>
    BY <1>10 DEF vars
  <2>2. TypeOK'
    BY <2>1 DEF IInv, TypeOK, chainVars, callVars, pendingVars, topicVars, roundVars
  <2> QED BY <2>1, <2>2, TopicStep
<1> QED BY <1>1, <1>2, <1>3, <1>4, <1>5, <1>6, <1>7, <1>8, <1>9, <1>10 DEF Next

THEOREM Invariance == Spec => []IInv
<1>1. Init => IInv
  BY EthAssumption, InitIInv
<1>2. IInv /\ [Next]_vars => IInv'
  BY EthAssumption, NextIInv
<1> QED BY <1>1, <1>2, PTL DEF Spec

(* The state always has its type, and a query stays within max_block_range.   *)
THEOREM TypeCorrect == Spec => []TypeOK
<1>1. IInv => TypeOK
  BY DEF IInv
<1> QED BY <1>1, Invariance, PTL

(* verify says Exists only of a log that is where the vote data claims, at a   *)
(* depth that no reorganisation reaches, whatever was reported before.        *)
THEOREM Soundness == Spec => []ExistsIsTrue
<1>1. IInv => ExistsIsTrue
  BY DEF IInv, ConfirmedIsFinal, ExistsIsTrue
<1> QED BY <1>1, Invariance, PTL

(* Waiting callers and pending confirmations correspond.                      *)
THEOREM NoWaiterLost == Spec => []WaiterHasConfirmation
<1>1. IInv => WaiterHasConfirmation
  BY EthAssumption DEF IInv, OwnersWait, WaitersOwn, WaiterHasConfirmation, Pending, EthAssumption
<1> QED BY <1>1, Invariance, PTL

-----------------------------------------------------------------------------
(* The filter                                                                *)

FilterInv == filter = Match(entries)

(* The query asks for exactly the subscribed addresses and topics, after any   *)
(* order of subscriptions and removals.                                       *)
THEOREM FilterCorrect == Spec => []FilterIsFresh
<1>1. Init => FilterInv
  BY DEF Init, FilterInv
<1>2. FilterInv /\ [Next]_vars => FilterInv'
  <2> SUFFICES ASSUME FilterInv, [Next]_vars PROVE FilterInv'
    OBVIOUS
  <2>1. CASE \E k \in Configs : Subscribe(k)
    BY <2>1 DEF FilterInv, Subscribe, FilterAfter
  <2>2. CASE \E S \in SUBSET Configs : Unsubscribe(S)
    BY <2>2 DEF FilterInv, Unsubscribe, FilterAfter
  <2>3. CASE UNCHANGED topicVars
    BY <2>3 DEF FilterInv, topicVars
  <2> QED
    BY <2>1, <2>2, <2>3 DEF Next, vars, NewBlock, Reorg, Verify, VerifyUnchecked,
       UpdateStep, GetHeight, ProcessBlocks, Apply, FindEvent, EndRound, QueryFails, FindFails
<1>3. FilterInv => FilterIsFresh
  BY DEF FilterInv, FilterIsFresh, Match
<1> QED BY <1>1, <1>2, <1>3, PTL DEF Spec

-----------------------------------------------------------------------------
(* Rejections, as long as no block is reorganised                            *)

(* The claim p of log l is false, and stays so.                               *)
Refuted(l, p) == at[l] # p /\ (at[l] = Absent => p.block <= head)

(* What was reported of a log is where it is.                                 *)
FoundIsThere ==
  /\ epoch = 0
  /\ \A l \in Logs : found[l] # {} => /\ pc = "apply"
                                      /\ found[l] = {at[l]} /\ at[l] # Absent

VerdictsHold ==
  \A l \in Pending : verdict[l] = "NotExists" =>
    at[l] # Absent /\ at[l] # claim[owner[l]].place

ReceiptsRefute ==
  \A l \in checking : \A p \in receipt[l] :
    p # claim[owner[l]].place => Refuted(l, claim[owner[l]].place)

RejectedIsRefuted ==
  \A c \in Callers : answer[c] = "NotExists" /\ claim[c].log \in Logs =>
    Refuted(claim[c].log, claim[c].place)

(* Who has not called has claimed nothing. *)
ClaimsAreMade == \A c \in Callers : answer[c] = "none" => claim[c] = NoClaim

NInv ==
  FoundIsThere /\ VerdictsHold /\ ReceiptsRefute /\ RejectedIsRefuted /\ ClaimsAreMade

LEMMA InitNInv == ASSUME EthAssumption, Init PROVE NInv
  BY DEF EthAssumption, Init, NInv, FoundIsThere, VerdictsHold, ReceiptsRefute,
         RejectedIsRefuted, ClaimsAreMade, Pending, NoneOf, NoClaim

LEMMA NewBlockNInv == ASSUME EthAssumption, IInv, NInv, NewBlock PROVE NInv'
<1> USE DEF EthAssumption
<1>t. TypeOK /\ head \in Nat
  BY DEF IInv, TypeOK
<1>a. /\ epoch' = epoch /\ head' = head + 1 /\ claim' = claim /\ answer' = answer
      /\ owner' = owner /\ verdict' = verdict /\ pc' = pc /\ found' = found
      /\ checking' = checking /\ receipt' = receipt
  BY DEF NewBlock, callVars, pendingVars, roundVars
<1>1. PICK S \in SUBSET {l \in Logs : at[l] = Absent} :
        at' = [l \in Logs |-> IF l \in S THEN [block |-> head + 1, hash |-> epoch] ELSE at[l]]
  BY DEF NewBlock
<1>2. \A l \in Logs : at[l] # Absent => at'[l] = at[l]
  BY <1>1
<1>3. ASSUME NEW l \in Logs, NEW p \in Place, Refuted(l, p) PROVE Refuted(l, p)'
  <2>1. p.block \in Nat
    BY DEF Place
  <2>2. CASE l \in S
    <3>1. at'[l] = [block |-> head + 1, hash |-> epoch] /\ at[l] = Absent
      BY <1>1, <2>2
    <3>2. p.block <= head
      BY <1>3, <3>1 DEF Refuted
    <3>3. at'[l].block = head + 1 /\ at'[l] # Absent
      BY <3>1, <1>t DEF Absent
    <3> QED BY <3>2, <3>3, <2>1, <1>t DEF Refuted
  <2>3. CASE l \notin S
    <3>1. at'[l] = at[l]
      BY <1>1, <2>3
    <3> QED BY <3>1, <1>3, <1>a, <1>t, <2>1 DEF Refuted
  <2> QED BY <2>2, <2>3
<1>4. \A c \in Callers : claim[c].place \in Place
  BY <1>t DEF TypeOK
<1>5. FoundIsThere' /\ VerdictsHold'
  BY <1>a, <1>2 DEF NInv, FoundIsThere, VerdictsHold, Pending
<1>6. ReceiptsRefute'
  <2>1. \A l \in checking : l \in Logs /\ owner[l] \in Callers
    BY <1>t DEF IInv, CheckedAreDue, Pending, TypeOK
  <2> QED BY <2>1, <1>a, <1>3, <1>4 DEF NInv, ReceiptsRefute
<1>7. RejectedIsRefuted' /\ ClaimsAreMade'
  BY <1>a, <1>3, <1>4 DEF NInv, RejectedIsRefuted, ClaimsAreMade
<1> QED BY <1>5, <1>6, <1>7 DEF NInv

LEMMA VerifyNInv ==
  ASSUME EthAssumption, IInv, NInv, NEW c \in Callers, NEW l \in Logs,
         NEW p \in Claimable(l), Verify(c, l, p)
  PROVE  NInv'
<1>t. TypeOK
  BY DEF IInv
<1>a. /\ answer[c] = "none" /\ pc # "check"
      /\ claim' = [claim EXCEPT ![c] = [log |-> l, place |-> p]]
      /\ answer' = [d \in Callers |-> IF d = c THEN "waiting"
                                      ELSE IF d \in Replaced(l) THEN "Failed" ELSE answer[d]]
      /\ owner' = [owner EXCEPT ![l] = c] /\ verdict' = [verdict EXCEPT ![l] = "none"]
      /\ epoch' = epoch /\ head' = head /\ at' = at /\ pc' = pc /\ found' = found
      /\ checking' = checking /\ receipt' = receipt
  BY DEF Verify, chainVars, roundVars
<1>b. checking = {}
  BY <1>a DEF IInv, CheckedAreDue
<1>c. \A m \in Pending : owner[m] # c /\ owner[m] \in Callers
  BY <1>a, <1>t DEF IInv, OwnersWait, Pending, TypeOK
<1>1. FoundIsThere' /\ ReceiptsRefute'
  BY <1>a, <1>b DEF NInv, FoundIsThere, ReceiptsRefute
<1>2. VerdictsHold'
  <2> SUFFICES ASSUME NEW m \in Pending', verdict'[m] = "NotExists"
               PROVE  at[m] # Absent /\ at[m] # claim'[owner'[m]].place
    BY <1>a DEF VerdictsHold
  <2>1. m \in Logs /\ m # l /\ owner'[m] = owner[m] /\ verdict[m] = "NotExists"
    BY <1>a, <1>t DEF Pending, TypeOK
  <2>2. m \in Pending
    BY <2>1 DEF Pending
  <2>3. claim'[owner[m]] = claim[owner[m]]
    BY <2>2, <1>a, <1>c, <1>t DEF TypeOK
  <2> QED BY <2>1, <2>2, <2>3 DEF NInv, VerdictsHold
<1>3. RejectedIsRefuted' /\ ClaimsAreMade'
  BY <1>a, <1>t DEF NInv, RejectedIsRefuted, ClaimsAreMade, TypeOK, Refuted
<1> QED BY <1>1, <1>2, <1>3 DEF NInv

LEMMA VerifyUncheckedNInv ==
  ASSUME EthAssumption, IInv, NInv, NEW c \in Callers, VerifyUnchecked(c) PROVE NInv'
<1>a. /\ answer[c] = "none" /\ answer' = [answer EXCEPT ![c] = "NotExists"]
      /\ epoch' = epoch /\ head' = head /\ at' = at /\ claim' = claim /\ owner' = owner
      /\ verdict' = verdict /\ pc' = pc /\ found' = found /\ checking' = checking
      /\ receipt' = receipt
  BY DEF VerifyUnchecked, chainVars, pendingVars, roundVars
<1>t. TypeOK
  BY DEF IInv
<1>1. FoundIsThere' /\ VerdictsHold' /\ ReceiptsRefute'
  BY <1>a DEF NInv, FoundIsThere, VerdictsHold, ReceiptsRefute, Refuted, Pending
<1>2. claim[c].log \notin Logs
  BY <1>a DEF NInv, ClaimsAreMade, NoClaim, EthAssumption
<1>3. RejectedIsRefuted' /\ ClaimsAreMade'
  BY <1>a, <1>2, <1>t DEF NInv, RejectedIsRefuted, ClaimsAreMade, Refuted, TypeOK
<1> QED BY <1>1, <1>3 DEF NInv

(* A step that reports nothing new and answers nobody.                        *)
LEMMA QuietNInv ==
  ASSUME NInv, UNCHANGED <<chainVars, callVars, pendingVars>>, checking' \subseteq checking,
         \A l \in checking' : receipt'[l] = receipt[l], FoundIsThere'
  PROVE  NInv'
  BY DEF NInv, VerdictsHold, ReceiptsRefute, RejectedIsRefuted, ClaimsAreMade, Refuted,
         Pending, chainVars, callVars, pendingVars

LEMMA FindEventNInv ==
  ASSUME EthAssumption, IInv, NInv, NEW l \in Logs, FindEvent(l) PROVE NInv'
<1>t. TypeOK
  BY DEF IInv
<1>a. /\ receipt' = [receipt EXCEPT ![l] = {at[l]}] /\ l \in checking /\ pc = "check"
      /\ epoch' = epoch /\ head' = head /\ at' = at /\ claim' = claim /\ answer' = answer
      /\ owner' = owner /\ verdict' = verdict /\ pc' = pc /\ found' = found
      /\ checking' = checking
  BY DEF FindEvent, chainVars, callVars, pendingVars
<1>1. claim[owner[l]].place.block <= head
  <2>1. l \in Pending /\ Target(l) <= to /\ to <= head
    BY <1>a DEF IInv, CheckedAreDue, WithinChain
  <2>2. claim[owner[l]].place.block \in Nat /\ to \in Nat /\ head \in Nat
    BY <2>1, <1>t DEF TypeOK, Pending, Place
  <2> QED BY <2>1, <2>2 DEF Target, EthAssumption
<1>2. FoundIsThere' /\ VerdictsHold' /\ RejectedIsRefuted' /\ ClaimsAreMade'
  BY <1>a DEF NInv, FoundIsThere, VerdictsHold, RejectedIsRefuted, ClaimsAreMade, Refuted,
              Pending
<1>3. ReceiptsRefute'
  <2> SUFFICES ASSUME NEW m \in checking, NEW p \in receipt'[m], p # claim[owner[m]].place
               PROVE  Refuted(m, claim[owner[m]].place)
    BY <1>a DEF ReceiptsRefute, Refuted
  <2>1. CASE m = l
    BY <2>1, <1>a, <1>1, <1>t DEF Refuted, TypeOK
  <2>2. CASE m # l
    BY <2>2, <1>a, <1>t DEF NInv, ReceiptsRefute, TypeOK
  <2> QED BY <2>1, <2>2
<1> QED BY <1>2, <1>3 DEF NInv

(* What Resolve does to an answer.                                            *)
LEMMA ResolveAnswers ==
  ASSUME IInv, NEW S \in SUBSET Pending, NEW status, Resolve(S, status),
         NEW c \in Callers
  PROVE  \/ answer'[c] = answer[c]
         \/ \E l \in S : /\ owner[l] = c /\ claim[c].log = l
                         /\ answer'[c] = status[l]
  BY DEF Resolve, IInv, OwnersWait

LEMMA ApplyNInv == ASSUME EthAssumption, IInv, NInv, Apply PROVE NInv'
<1> DEFINE now == [l \in Logs |-> IF l \in Pending THEN Recorded(l) ELSE "none"]
           sure == Due \ ToCheck
<1>t. TypeOK /\ Pending \subseteq Logs
  BY DEF IInv, Pending
<1>a. /\ Resolve(sure, now)
      /\ verdict' = [l \in Logs |-> IF l \in sure THEN "none" ELSE now[l]]
      /\ checking' = ToCheck /\ found' = NoneOf({}) /\ pc' = "check" /\ pc = "apply"
      /\ epoch' = epoch /\ head' = head /\ at' = at /\ claim' = claim /\ receipt' = receipt
  BY DEF Apply, chainVars
<1>b. sure \subseteq Pending /\ ToCheck \subseteq Logs
  BY <1>t DEF Due, ToCheck
<1>c. \A l \in sure : now[l] = "NotExists"
  BY <1>b, <1>t DEF ToCheck
<1>d. ASSUME NEW l \in Pending, now[l] = "NotExists"
      PROVE  at[l] # Absent /\ at[l] # claim[owner[l]].place
  <2>1. Recorded(l) = "NotExists"
    BY <1>d, <1>t
  <2>2. CASE found[l] = {}
    BY <2>1, <2>2 DEF Recorded, NInv, VerdictsHold
  <2>3. CASE found[l] # {}
    <3>1. found[l] = {at[l]} /\ at[l] # Absent
      BY <2>3, <1>t DEF NInv, FoundIsThere
    <3>2. Check(l, at[l]) = "NotExists"
      BY <2>1, <2>3, <3>1, TheOne DEF Recorded
    <3> QED BY <3>1, <3>2 DEF Check
  <2> QED BY <2>2, <2>3
<1>1. FoundIsThere'
  BY <1>a DEF NInv, FoundIsThere, NoneOf
<1>2. VerdictsHold'
  <2> SUFFICES ASSUME NEW l \in Pending', verdict'[l] = "NotExists"
               PROVE  at[l] # Absent /\ at[l] # claim[owner'[l]].place
    BY <1>a DEF VerdictsHold
  <2>1. l \in Logs /\ l \notin sure /\ owner'[l] = owner[l] /\ now[l] = "NotExists"
    BY <1>a DEF Resolve, Pending
  <2>2. l \in Pending
    BY <2>1 DEF Pending
  <2> QED BY <2>1, <2>2, <1>d
<1>3. ReceiptsRefute'
  BY <1>a, <1>b DEF IInv, ReceiptsHold, CheckedAreDue, ReceiptsRefute
<1>4. RejectedIsRefuted' /\ ClaimsAreMade'
  <2>1. \A c \in Callers : \/ answer'[c] = answer[c]
                           \/ \E l \in sure : /\ owner[l] = c /\ claim[c].log = l
                                              /\ answer'[c] = now[l]
    <3> HIDE DEF now, sure
    <3> QED BY <1>a, <1>b, ResolveAnswers
  <2>2. \A l \in sure : Refuted(l, claim[owner[l]].place)
    BY <1>b, <1>c, <1>d DEF Refuted
  <2>3. ASSUME NEW c \in Callers, answer'[c] = "NotExists", claim[c].log \in Logs
        PROVE  Refuted(claim[c].log, claim[c].place)
    <3>1. CASE answer'[c] = answer[c]
      BY <2>3, <3>1 DEF NInv, RejectedIsRefuted
    <3>2. CASE \E l \in sure : /\ owner[l] = c /\ claim[c].log = l
                             /\ answer'[c] = now[l]
      <4>1. PICK l \in sure : owner[l] = c /\ claim[c].log = l /\ answer'[c] = now[l]
        BY <3>2
      <4> HIDE DEF now, sure
      <4> QED BY <4>1, <2>3, <2>2
    <3> QED BY <2>1, <3>1, <3>2
  <2>4. ASSUME NEW c \in Callers, answer'[c] = "none" PROVE claim[c] = NoClaim
    <3> HIDE DEF now, sure
    <3>1. answer'[c] = answer[c]
      BY <2>4, <2>1, <1>c
    <3> QED BY <2>4, <3>1 DEF NInv, ClaimsAreMade
  <2> QED BY <1>a, <2>3, <2>4 DEF RejectedIsRefuted, ClaimsAreMade, Refuted
<1> QED BY <1>1, <1>2, <1>3, <1>4 DEF NInv

LEMMA EndRoundNInv == ASSUME EthAssumption, IInv, NInv, EndRound PROVE NInv'
<1> DEFINE status == [l \in Logs |-> IF receipt[l] = {} THEN "none"
                                     ELSE Check(l, The(receipt[l]))]
<1>t. TypeOK /\ Pending \subseteq Logs
  BY DEF IInv, Pending
<1>a. /\ Resolve(checking, status) /\ \A l \in checking : receipt[l] # {}
      /\ verdict' = [l \in Logs |-> IF l \in checking THEN "none" ELSE verdict[l]]
      /\ checking' = {} /\ pc = "check" /\ found' = found
      /\ epoch' = epoch /\ head' = head /\ at' = at /\ claim' = claim
  BY DEF EndRound, chainVars
<1>b. checking \subseteq Pending
  BY DEF IInv, CheckedAreDue
<1>c. \A l \in checking :
        /\ status[l] \in {"Exists", "NotExists"}
        /\ status[l] = "NotExists" => Refuted(l, claim[owner[l]].place)
  <2> SUFFICES ASSUME NEW l \in checking
               PROVE  /\ status[l] \in {"Exists", "NotExists"}
                      /\ status[l] = "NotExists" => Refuted(l, claim[owner[l]].place)
    OBVIOUS
  <2>1. PICK p \in Place : receipt[l] = {p}
    BY <1>a, <1>b, <1>t DEF IInv, ReceiptsHold
  <2>2. status[l] = Check(l, p)
    BY <1>b, <1>t, <2>1, TheOne
  <2>3. p # claim[owner[l]].place => Refuted(l, claim[owner[l]].place)
    BY <2>1 DEF NInv, ReceiptsRefute
  <2> QED BY <2>2, <2>3 DEF Check
<1>1. FoundIsThere'
  BY <1>a DEF NInv, FoundIsThere
<1>2. VerdictsHold'
  BY <1>a, <1>t DEF NInv, VerdictsHold, Resolve, Pending
<1>3. ReceiptsRefute'
  BY <1>a DEF ReceiptsRefute
<1>4. RejectedIsRefuted' /\ ClaimsAreMade'
  <2>1. \A c \in Callers : \/ answer'[c] = answer[c]
                           \/ \E l \in checking : /\ owner[l] = c /\ claim[c].log = l
                                                  /\ answer'[c] = status[l]
    <3> HIDE DEF status
    <3> QED BY <1>a, <1>b, ResolveAnswers
  <2>3. ASSUME NEW c \in Callers, answer'[c] = "NotExists", claim[c].log \in Logs
        PROVE  Refuted(claim[c].log, claim[c].place)
    <3>1. CASE answer'[c] = answer[c]
      BY <2>3, <3>1 DEF NInv, RejectedIsRefuted
    <3>2. CASE \E l \in checking : /\ owner[l] = c /\ claim[c].log = l
                             /\ answer'[c] = status[l]
      <4>1. PICK l \in checking : owner[l] = c /\ claim[c].log = l /\ answer'[c] = status[l]
        BY <3>2
      <4> HIDE DEF status
      <4> QED BY <4>1, <2>3, <1>c
    <3> QED BY <2>1, <3>1, <3>2
  <2>4. ASSUME NEW c \in Callers, answer'[c] = "none" PROVE claim[c] = NoClaim
    <3> HIDE DEF status
    <3>1. answer'[c] = answer[c]
      BY <2>4, <2>1, <1>c
    <3> QED BY <2>4, <3>1 DEF NInv, ClaimsAreMade
  <2> QED BY <1>a, <2>3, <2>4 DEF RejectedIsRefuted, ClaimsAreMade, Refuted
<1> QED BY <1>1, <1>2, <1>3, <1>4 DEF NInv

LEMMA NextNInv ==
  ASSUME EthAssumption, epoch' = 0, IInv, NInv, [Next]_vars PROVE NInv'
<1>1. CASE NewBlock
  BY <1>1, NewBlockNInv
<1>2. \A n : ~Reorg(n)
  BY DEF NInv, FoundIsThere, Reorg
<1>3. CASE \E k \in Configs : Subscribe(k)
  <2>1. FoundIsThere'
    BY <1>3 DEF NInv, FoundIsThere, Subscribe, chainVars, roundVars
  <2> QED BY <1>3, <2>1, QuietNInv DEF Subscribe, roundVars
<1>4. CASE \E S \in SUBSET Configs : Unsubscribe(S)
  <2>1. FoundIsThere'
    BY <1>4 DEF NInv, FoundIsThere, Unsubscribe, chainVars, roundVars
  <2> QED BY <1>4, <2>1, QuietNInv DEF Unsubscribe, roundVars
<1>5. ASSUME NEW c \in Callers, NEW l \in Logs, NEW p \in Claimable(l), Verify(c, l, p)
      PROVE  NInv'
  BY <1>5, VerifyNInv
<1>6. ASSUME NEW c \in Callers, VerifyUnchecked(c) PROVE NInv'
  BY <1>6, VerifyUncheckedNInv
<1>7. CASE UpdateStep
  <2>1. CASE GetHeight
    <3>1. FoundIsThere'
      BY <2>1 DEF NInv, FoundIsThere, GetHeight, chainVars
    <3> QED BY <2>1, <3>1, QuietNInv DEF GetHeight
  <2>2. ASSUME NEW S \in SUBSET Logs, ProcessBlocks(S) PROVE NInv'
    <3>1. FoundIsThere'
      BY <2>2 DEF NInv, FoundIsThere, ProcessBlocks, chainVars
    <3> QED BY <2>2, <3>1, QuietNInv DEF ProcessBlocks
  <2>3. CASE Apply
    BY <2>3, ApplyNInv
  <2>4. ASSUME NEW l \in Logs, FindEvent(l) PROVE NInv'
    BY <2>4, FindEventNInv
  <2>5. CASE EndRound
    BY <2>5, EndRoundNInv
  <2> QED BY <1>7, <2>1, <2>2, <2>3, <2>4, <2>5 DEF UpdateStep
<1>8. CASE QueryFails
  <2>1. FoundIsThere'
    BY <1>8 DEF NInv, FoundIsThere, QueryFails, chainVars
  <2> QED BY <1>8, <2>1, QuietNInv DEF QueryFails
<1>9. CASE \E l \in Logs : FindFails(l)
  <2>1. FoundIsThere'
    BY <1>9 DEF NInv, FoundIsThere, FindFails, chainVars
  <2> QED BY <1>9, <2>1, QuietNInv DEF FindFails
<1>10. CASE UNCHANGED vars
  <2>1. FoundIsThere'
    BY <1>10 DEF NInv, FoundIsThere, vars, chainVars, roundVars
  <2> QED BY <1>10, <2>1, QuietNInv DEF vars, roundVars
<1> QED BY <1>1, <1>2, <1>3, <1>4, <1>5, <1>6, <1>7, <1>8, <1>9, <1>10 DEF Next

(* Until a block is reorganised, verify says NotExists only of a log that is   *)
(* not where the vote data claims; also if the block claimed is one the node   *)
(* has yet to see.                                                            *)
THEOREM Completeness == Spec => []NotExistsIsTrue
<1> DEFINE Unreorganised == epoch = 0 => NInv
<1>1. Init => Unreorganised
  BY EthAssumption, InitNInv
<1>2. IInv /\ IInv' /\ Unreorganised /\ [Next]_vars => Unreorganised'
  <2> SUFFICES ASSUME IInv, IInv', Unreorganised, [Next]_vars, epoch' = 0 PROVE NInv'
    OBVIOUS
  <2>1. epoch = 0
    <3>1. epoch \in Nat
      BY DEF IInv, TypeOK
    <3>2. epoch' = epoch \/ epoch' = epoch + 1
      BY DEF Next, UpdateStep, NewBlock, Reorg, Subscribe, Unsubscribe, Verify,
             VerifyUnchecked, GetHeight, ProcessBlocks, Apply, FindEvent, EndRound,
             QueryFails, FindFails, vars, chainVars
    <3> QED BY <3>1, <3>2
  <2> QED BY <2>1, EthAssumption, NextNInv
<1>3. Unreorganised => NotExistsIsTrue
  BY DEF NInv, RejectedIsRefuted, NotExistsIsTrue, Holds, Refuted
<1> HIDE DEF Unreorganised
<1> QED BY <1>1, <1>2, <1>3, Invariance, PTL DEF Spec
================================================================================
