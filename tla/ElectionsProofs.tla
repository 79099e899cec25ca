---------------------------- MODULE ElectionsProofs ----------------------------
(***************************************************************************)
(* Theorems about Elections, for any amounts, bounds and blocks.           *)
(***************************************************************************)
EXTENDS Elections, TLAPS, SequenceTheorems

Notices == [event : Events, state : RoundStates]
UserNotices == [event : {"DepositProcessed", "RelayMembershipRequested"}, balance : Amounts]

-----------------------------------------------------------------------------
(* Types                                                                     *)

LEMMA RoundStateType == TypeOK => RoundState \in RoundStates
  BY DEF TypeOK, RoundState, RoundStates

LEMMA QueueAppend ==
  ASSUME NEW S, NEW q \in Seq(S), NEW e \in S
  PROVE  Append(q, e) \in Seq(S)
  OBVIOUS

LEMMA QueueHead ==
  ASSUME NEW S, NEW q \in Seq(S), q # <<>>
  PROVE  Head(q) \in S /\ Tail(q) \in Seq(S)
  OBVIOUS

\* A block's events become notices of one state.
LEMMA NoticesType ==
  ASSUME NEW q \in Seq(Notices), NEW b \in Seq(Events), NEW s \in RoundStates
  PROVE  q \o [i \in 1 .. Len(b) |-> [event |-> b[i], state |-> s]] \in Seq(Notices)
<1> DEFINE new == [i \in 1 .. Len(b) |-> [event |-> b[i], state |-> s]]
<1>1. Len(b) \in Nat /\ \A i \in 1 .. Len(b) : b[i] \in Events
  OBVIOUS
<1>2. \A i \in 1 .. Len(b) : new[i] \in Notices
  BY <1>1 DEF Notices
<1>3. new \in Seq(Notices)
  <2> HIDE DEF Notices
  <2> QED
    BY <1>1, <1>2, IsASeq
<1>4. ASSUME NEW S, NEW s1 \in Seq(S), NEW s2 \in Seq(S) PROVE s1 \o s2 \in Seq(S)
  BY ConcatProperties
<1>5. q \o new \in Seq(Notices)
  <2> HIDE DEF new, Notices
  <2> QED
    BY <1>3, <1>4
<1> QED
  BY <1>5

LEMMA TypeInit == ASSUME ElectionsAssumption PROVE Init => TypeOK
<1> SUFFICES ASSUME Init PROVE TypeOK
  OBVIOUS
<1> USE DEF ElectionsAssumption, Init
<1>1. round \in Rounds /\ seated \subseteq Rounds
  BY DEF Rounds
<1>2. state \in RoundStates
  BY <1>1 DEF RoundState, RoundStates, Ests
<1>3. 0 \in Rounds
  BY DEF Rounds
<1>4. loop \in [on : Ests \cup {"none"}, timings : Nat, woken : BOOLEAN]
  BY DEF Off
<1>5. ask \in [Tids -> Asking]
  BY DEF NoAsk, Asking
<1>6. <<>> \in Seq(Events) /\ <<>> \in Seq(Notices) /\ <<>> \in Seq(UserNotices)
  OBVIOUS
<1>7. /\ est \in Ests /\ member \in BOOLEAN /\ claimed \subseteq Rounds
      /\ {balance, need, deposit} \subseteq Amounts
      /\ {updates, deposits, restarts} \subseteq Nat
      /\ phase \in Phases /\ {elected, participates} \subseteq Tristate
      /\ checks \subseteq Rounds /\ rewards \subseteq Rounds
  <2>1. balance \in Amounts /\ need \in Amounts /\ deposit \in Amounts
    OBVIOUS
  <2>2. updates \in Nat /\ deposits \in Nat /\ restarts \in Nat
    OBVIOUS
  <2>3. elected \in Tristate /\ participates \in Tristate
    BY DEF Tristate
  <2> QED
    BY <2>1, <2>2, <2>3 DEF Ests, Phases
<1> QED
  BY <1>1, <1>2, <1>3, <1>4, <1>5, <1>6, <1>7 DEF TypeOK, Notices, UserNotices

LEMMA TypeNext == ASSUME ElectionsAssumption PROVE TypeOK /\ [Next]_vars => TypeOK'
<1> SUFFICES ASSUME TypeOK, [Next]_vars PROVE TypeOK'
  OBVIOUS
<1> USE DEF contractVars, copyVars, flagVars, startVars
<1>e. ASSUME NEW e \in Events, Emit(e),
             round' \in Rounds, est' \in Ests, member' \in BOOLEAN, seated' \subseteq Rounds,
             need' \in Amounts, updates' \in Nat
      PROVE  TypeOK'
  BY <1>e DEF TypeOK, Emit
<1>1. CASE StartElection
  <2>1. "ElectionStarted" \in Events /\ "Started" \in Ests
    BY DEF Events, Ests
  <2> QED
    BY <1>1, <1>e, <2>1 DEF StartElection, TypeOK
<1>2. CASE EndElection
  <2>1. "ElectionEnded" \in Events /\ "Finished" \in Ests
    BY DEF Events, Ests
  <2> QED
    BY <1>2, <1>e, <2>1 DEF EndElection, TypeOK
<1>3. CASE InitializeRound
  <2>1. "RelayRoundInitialized" \in Events /\ "NotStarted" \in Ests
    BY DEF Events, Ests
  <2>2. round' \in Rounds /\ seated' \subseteq Rounds
    BY <1>3 DEF InitializeRound, TypeOK, Rounds, ElectionsAssumption
  <2> QED
    BY <1>3, <1>e, <2>1, <2>2 DEF InitializeRound, TypeOK
<1>4. ASSUME NEW a \in Amounts, UpdateConfig(a) PROVE TypeOK'
  <2>1. "RelayConfigUpdated" \in Events
    BY DEF Events
  <2>2. /\ round' \in Rounds /\ est' \in Ests /\ member' \in BOOLEAN /\ seated' \subseteq Rounds
        /\ need' \in Amounts /\ updates' \in Nat /\ Emit("RelayConfigUpdated")
    BY <1>4 DEF UpdateConfig, TypeOK
  <2> QED
    BY <1>e, <2>1, <2>2
<1>5. ASSUME NEW a \in Amounts, Deposit(a) PROVE TypeOK'
  <2>1. [event |-> "DepositProcessed", balance |-> a] \in UserNotices
    BY DEF UserNotices
  <2>2. userQ' \in Seq(UserNotices)
    BY <1>5, <2>1, QueueAppend DEF Deposit, ToUser, TypeOK, UserNotices
  <2> QED
    BY <1>5, <2>2 DEF Deposit, TypeOK, UserNotices
<1>6. CASE Publish
  <2>1. stakingQ' \in Seq(Notices)
    BY <1>6, RoundStateType, NoticesType DEF Publish, TypeOK, Notices
  <2> QED
    BY <1>6, <2>1 DEF Publish, TypeOK, Notices
<1>7. CASE ReadState
  <2>1. state' \in RoundStates
    BY <1>7, RoundStateType DEF ReadState
  <2>2. {elected', participates'} \subseteq Tristate
    BY <1>7 DEF ReadState, Tristate, Flag
  <2> QED
    BY <1>7, <2>1, <2>2 DEF ReadState, TypeOK, Phases
<1>8. CASE Subscribe
  BY <1>8 DEF Subscribe, TypeOK, Phases, Asking
<1>9. CASE StartManaging
  BY <1>9 DEF StartManaging, TypeOK, Phases, Woken
<1>10. CASE CollectRewards
  <2>1. oldest' \in Rounds
    BY <1>10 DEF CollectRewards, Oldest, TypeOK, Rounds, ElectionsAssumption
  <2> QED
    BY <1>10, <2>1 DEF CollectRewards, TypeOK, Phases
<1>11. CASE Restart
  <2>1. NoAsk \in [Tids -> Asking] /\ Off \in [on : Ests \cup {"none"}, timings : Nat, woken : BOOLEAN]
    BY DEF NoAsk, Off, Asking
  <2> QED
    BY <1>11, <2>1 DEF Restart, TypeOK, Phases
<1>12. CASE HandleStaking
  <2> DEFINE n == Head(stakingQ)
  <2>1. n \in Notices /\ stakingQ' \in Seq(Notices)
    BY <1>12, QueueHead DEF HandleStaking, TypeOK, Notices
  <2>2. n.event \in Events /\ n.state \in RoundStates
    BY <2>1 DEF Notices
  <2>3. n.state.round \in Rounds /\ n.state.round \in Tids
    BY <2>2 DEF RoundStates, Tids
  <2>4. /\ state' = n.state /\ elected' = ElectedAfter(n) /\ ask' = AskAfter(n)
        /\ loop' = IF loop.on \in Wakes(n.event) THEN Woken(loop) ELSE loop
        /\ participates' \in {"none", participates}
        /\ checks' \in {checks, checks \cup {n.state.round}}
        /\ rewards' \in {rewards, rewards \cup {n.state.round}}
    BY <1>12 DEF HandleStaking
  <2> HIDE DEF n
  <2>5. elected' \in Tristate
    BY <2>4 DEF ElectedAfter, StoreIfEmpty, Flag, Tristate, TypeOK
  <2>6. ask' \in [Tids -> Asking]
    <3>1. Stop \in [Tids -> Asking] /\ Compare \in [Tids -> Asking]
      BY DEF Stop, Compare, TypeOK, Asking
    <3>2. [ask EXCEPT ![n.state.round] = "spawned"] \in [Tids -> Asking]
      BY DEF TypeOK, Asking
    <3>3. AskAfter(n) \in {[ask EXCEPT ![n.state.round] = "spawned"], Stop, Compare, ask}
      BY <2>2 DEF AskAfter, Events
    <3> QED
      BY <2>4, <3>1, <3>2, <3>3 DEF TypeOK
  <2>7. loop' \in [on : Ests \cup {"none"}, timings : Nat, woken : BOOLEAN]
    BY <2>4 DEF TypeOK, Woken
  <2>8. participates' \in Tristate /\ checks' \subseteq Rounds /\ rewards' \subseteq Rounds
    BY <2>3, <2>4 DEF TypeOK, Tristate
  <2> QED
    BY <1>12, <2>1, <2>2, <2>4, <2>5, <2>6, <2>7, <2>8 DEF HandleStaking, TypeOK, Notices
<1>13. CASE HandleUser
  <2> DEFINE n == Head(userQ)
  <2>1. n \in UserNotices /\ userQ' \in Seq(UserNotices)
    BY <1>13, QueueHead DEF HandleUser, TypeOK, UserNotices
  <2>2. n.balance \in Amounts
    BY <2>1 DEF UserNotices
  <2>3. Compare \in [Tids -> Asking]
    BY DEF Compare, TypeOK, Asking
  <2>4. \/ elected' = "true" /\ deposit' = deposit /\ ask' = ask
        \/ elected' = elected /\ deposit' = n.balance /\ ask' = Compare
    BY <1>13 DEF HandleUser
  <2> HIDE DEF n
  <2>5. deposit' \in Amounts /\ ask' \in [Tids -> Asking] /\ elected' \in Tristate
    BY <2>2, <2>3, <2>4 DEF TypeOK, Tristate
  <2> QED
    BY <1>13, <2>1, <2>5 DEF HandleUser, TypeOK, UserNotices
<1>14. CASE Manage
  <2>1. state.est \in Ests /\ state.timings \in Nat
    BY DEF TypeOK, RoundStates
  <2> QED
    BY <1>14, <2>1 DEF Manage, TypeOK
<1>15. ASSUME NEW t \in Tids, CompareDeposit(t) PROVE TypeOK'
  BY <1>15 DEF CompareDeposit, TypeOK, Asking
<1>16. ASSUME NEW t \in Tids, BecomeRelay(t) PROVE TypeOK'
  <2>1. [event |-> "RelayMembershipRequested", balance |-> balance] \in UserNotices
    BY DEF UserNotices, TypeOK
  <2>2. userQ' \in Seq(UserNotices)
    BY <1>16, <2>1, QueueAppend DEF BecomeRelay, ToUser, TypeOK, UserNotices
  <2> QED
    BY <1>16, <2>2 DEF BecomeRelay, TypeOK, Asking, UserNotices
<1>17. ASSUME NEW r \in Rounds, CheckParticipation(r) PROVE TypeOK'
  <2>1. participates' \in Tristate
    BY <1>17 DEF CheckParticipation, StoreIfEmpty, Flag, Tristate, TypeOK
  <2> QED
    BY <1>17, <2>1 DEF CheckParticipation, TypeOK
<1>18. ASSUME NEW r \in Rounds, GetReward(r) PROVE TypeOK'
  BY <1>18 DEF GetReward, TypeOK
<1>19. CASE UNCHANGED vars
  BY <1>19 DEF vars, TypeOK
<1> QED
  BY <1>1, <1>2, <1>3, <1>4, <1>5, <1>6, <1>7, <1>8, <1>9, <1>10, <1>11, <1>12, <1>13,
     <1>14, <1>15, <1>16, <1>17, <1>18, <1>19 DEF Next, Startup

\* The state always has its type; in particular what is spawned or collected for a
\* round that a notice names is for a round that there is.
THEOREM TypeCorrect == ASSUME ElectionsAssumption PROVE Spec => []TypeOK
  BY TypeInit, TypeNext, PTL DEF Spec

-----------------------------------------------------------------------------
(* The loop                                                                  *)

\* Who waits for the end of the elections state s, by timings t, will be woken, or
\* need not be: elections are in state e by timings u, or a notice of the channel q
\* from position k on, or an event of the block b, wakes him.
Told(s, t, k, q, b, e, u) ==
  \/ s = e /\ (s # "Finished" => t = u)
  \/ \E i \in k + 1 .. Len(q) : s \in Wakes(q[i].event)
  \/ \E j \in 1 .. Len(b) : s \in Wakes(b[j])

WillKnow(s, t, k) == Told(s, t, k, stakingQ, block, est, updates)

\* So it is with the state in each notice, with the relay's copy and with the loop.
NoticesTold ==
  \A i \in 1 .. Len(stakingQ) :
    WillKnow(stakingQ[i].state.est, stakingQ[i].state.timings, i)
CopyTold == phase # "snapshot" => WillKnow(state.est, state.timings, 0)
LoopTold == loop.on # "none" /\ ~loop.woken => WillKnow(loop.on, loop.timings, 0)

PhaseShape ==
  /\ ~Subscribed => stakingQ = <<>>
  /\ phase = "subscribe" => block = <<>>
  /\ phase \notin {"rewards", "running"} => loop.on = "none" /\ ~loop.woken
  /\ phase \in {"rewards", "running"} => loop.woken \/ loop.on \in Ests

LInv == TypeOK /\ NoticesTold /\ CopyTold /\ LoopTold /\ PhaseShape

\* An event of the contracts ends no elections state unnoticed.
LEMMA ToldAfterEmit ==
  ASSUME NEW q, NEW b \in Seq(Events), NEW v \in Events, NEW s, NEW t, NEW k \in Nat,
         NEW e, NEW u, NEW e2, NEW u2,
         Told(s, t, k, q, b, e, u),
         s = e => s \in Wakes(v) \/ (e2 = e /\ (s # "Finished" => u2 = u))
  PROVE  Told(s, t, k, q, Append(b, v), e2, u2)
<1>1. /\ Len(Append(b, v)) = Len(b) + 1 /\ Len(b) \in Nat
      /\ Append(b, v)[Len(b) + 1] = v
      /\ \A j \in 1 .. Len(b) : Append(b, v)[j] = b[j]
  OBVIOUS
<1>2. CASE \E j \in 1 .. Len(b) : s \in Wakes(b[j])
  <2>1. PICK j \in 1 .. Len(b) : s \in Wakes(b[j])
    BY <1>2
  <2>2. j \in 1 .. Len(Append(b, v)) /\ s \in Wakes(Append(b, v)[j])
    BY <1>1, <2>1
  <2> QED
    BY <2>2 DEF Told
<1>3. CASE s \in Wakes(v)
  <2>1. Len(b) + 1 \in 1 .. Len(Append(b, v))
    BY <1>1
  <2> QED
    BY <1>1, <1>3, <2>1 DEF Told
<1> QED
  BY <1>2, <1>3 DEF Told

\* The events of a block that is applied are in the channel.
LEMMA ToldAfterPublish ==
  ASSUME NEW q \in Seq(Notices), NEW b \in Seq(Events), NEW x \in RoundStates,
         NEW s, NEW t, NEW k \in 0 .. Len(q), NEW e, NEW u,
         Told(s, t, k, q, b, e, u)
  PROVE  Told(s, t, k, q \o [i \in 1 .. Len(b) |-> [event |-> b[i], state |-> x]],
              <<>>, e, u)
<1> DEFINE new == [i \in 1 .. Len(b) |-> [event |-> b[i], state |-> x]]
           q2 == q \o new
<1>1. Len(q) \in Nat /\ Len(b) \in Nat /\ \A i \in 1 .. Len(b) : b[i] \in Events
  OBVIOUS
<1>2. \A i \in 1 .. Len(b) : new[i] \in Notices /\ new[i].event = b[i]
  BY <1>1 DEF Notices
<1>3. new \in Seq(Notices) /\ Len(new) = Len(b)
  <2>1. Len(new) = Len(b)
    BY <1>1
  <2> HIDE DEF Notices
  <2> QED
    BY <1>1, <1>2, <2>1, IsASeq
<1> HIDE DEF new
<1>4. /\ Len(q2) = Len(q) + Len(b)
      /\ \A i \in 1 .. Len(q) + Len(b) : q2[i] = IF i <= Len(q) THEN q[i] ELSE new[i - Len(q)]
  <2>1. ASSUME NEW S, NEW s1 \in Seq(S), NEW s2 \in Seq(S)
        PROVE  /\ Len(s1 \o s2) = Len(s1) + Len(s2)
               /\ \A i \in 1 .. Len(s1) + Len(s2) :
                    (s1 \o s2)[i] = IF i <= Len(s1) THEN s1[i] ELSE s2[i - Len(s1)]
    BY <2>1, ConcatProperties
  <2> HIDE DEF Notices
  <2> QED
    BY <1>3, <2>1
<1> HIDE DEF q2
<1>5. CASE \E i \in k + 1 .. Len(q) : s \in Wakes(q[i].event)
  <2>1. PICK i \in k + 1 .. Len(q) : s \in Wakes(q[i].event)
    BY <1>5
  <2>2. i \in k + 1 .. Len(q2) /\ q2[i] = q[i]
    BY <1>1, <1>4, <2>1
  <2>3. Told(s, t, k, q2, <<>>, e, u)
    BY <2>1, <2>2 DEF Told
  <2> QED
    BY <2>3 DEF q2, new
<1>6. CASE \E j \in 1 .. Len(b) : s \in Wakes(b[j])
  <2>1. PICK j \in 1 .. Len(b) : s \in Wakes(b[j])
    BY <1>6
  <2>2. Len(q) + j \in k + 1 .. Len(q2) /\ q2[Len(q) + j] = new[j]
    BY <1>1, <1>4, <2>1
  <2>3. Told(s, t, k, q2, <<>>, e, u)
    BY <1>2, <2>1, <2>2 DEF Told
  <2> QED
    BY <2>3 DEF q2, new
<1>7. Told(s, t, k, q2, <<>>, e, u)
      <=> Told(s, t, k, q \o [i \in 1 .. Len(b) |-> [event |-> b[i], state |-> x]], <<>>, e, u)
  BY DEF q2, new
<1> QED
  BY <1>5, <1>6, <1>7 DEF Told

\* A notice that is handled wakes who it is for, and nobody else misses it.
LEMMA ToldAfterHandle ==
  ASSUME NEW q \in Seq(Notices), q # <<>>, NEW b, NEW s, NEW t, NEW k \in Nat, NEW e, NEW u
  PROVE  /\ Told(s, t, k + 1, q, b, e, u) => Told(s, t, k, Tail(q), b, e, u)
         /\ Told(s, t, 0, q, b, e, u)
              => s \in Wakes(Head(q).event) \/ Told(s, t, 0, Tail(q), b, e, u)
<1>1. /\ Len(q) \in Nat /\ Len(q) > 0 /\ Len(Tail(q)) = Len(q) - 1 /\ Head(q) = q[1]
      /\ \A i \in 1 .. Len(q) - 1 : Tail(q)[i] = q[i + 1]
  <2> HIDE DEF Notices
  <2> QED
    OBVIOUS
<1>2. ASSUME NEW i \in 2 .. Len(q)
      PROVE  i - 1 \in 1 .. Len(Tail(q)) /\ Tail(q)[i - 1] = q[i]
  <2>1. i - 1 \in 1 .. Len(q) - 1 /\ (i - 1) + 1 = i
    BY <1>1
  <2> QED
    BY <1>1, <2>1
<1>3. ASSUME NEW m \in Nat, NEW i \in m + 2 .. Len(q), s \in Wakes(q[i].event)
      PROVE  \E j \in m + 1 .. Len(Tail(q)) : s \in Wakes(Tail(q)[j].event)
  <2>1. i \in 2 .. Len(q) /\ i - 1 \in m + 1 .. Len(Tail(q))
    BY <1>1
  <2>2. Tail(q)[i - 1] = q[i]
    BY <1>2, <2>1
  <2> QED
    BY <1>3, <2>1, <2>2
<1>4. Told(s, t, k + 1, q, b, e, u) => Told(s, t, k, Tail(q), b, e, u)
  <2>1. ASSUME NEW i \in (k + 1) + 1 .. Len(q), s \in Wakes(q[i].event)
        PROVE  \E j \in k + 1 .. Len(Tail(q)) : s \in Wakes(Tail(q)[j].event)
    <3>1. i \in k + 2 .. Len(q)
      BY <1>1
    <3> QED
      BY <1>3, <2>1, <3>1
  <2> QED
    BY <2>1 DEF Told
<1>5. Told(s, t, 0, q, b, e, u)
        => s \in Wakes(Head(q).event) \/ Told(s, t, 0, Tail(q), b, e, u)
  <2>1. ASSUME NEW i \in 0 + 1 .. Len(q), s \in Wakes(q[i].event)
        PROVE  s \in Wakes(Head(q).event)
                 \/ \E j \in 0 + 1 .. Len(Tail(q)) : s \in Wakes(Tail(q)[j].event)
    <3>1. i = 1 \/ i \in 0 + 2 .. Len(q)
      BY <1>1
    <3> QED
      BY <1>1, <1>3, <2>1, <3>1
  <2> QED
    BY <2>1 DEF Told
<1> QED
  BY <1>4, <1>5

LEMMA LInit == ASSUME ElectionsAssumption PROVE Init => LInv
<1> SUFFICES ASSUME Init PROVE LInv
  OBVIOUS
<1>1. Len(stakingQ) = 0
  BY DEF Init
<1>2. NoticesTold
  BY <1>1 DEF NoticesTold
<1>3. CopyTold /\ LoopTold /\ PhaseShape
  BY DEF Init, CopyTold, LoopTold, PhaseShape, Off, Subscribed
<1> QED
  BY <1>2, <1>3, TypeInit DEF LInv

\* What is told stays so when the contracts move.
LEMMA LEmit ==
  ASSUME LInv, Quiet, NEW v \in Events, Emit(v),
         \A s \in Ests : s = est =>
           s \in Wakes(v) \/ (est' = est /\ (s # "Finished" => updates' = updates))
  PROVE  NoticesTold' /\ CopyTold' /\ LoopTold' /\ PhaseShape'
<1> USE DEF LInv
<1>1. /\ block' = Append(block, v) /\ phase' = phase /\ phase # "subscribe"
      /\ state' = state /\ stakingQ' = stakingQ /\ loop' = loop
  BY DEF Emit, Undisturbed, startVars, copyVars
<1>2. ASSUME NEW s \in Ests, NEW t, NEW k \in Nat, WillKnow(s, t, k)
      PROVE  Told(s, t, k, stakingQ, Append(block, v), est', updates')
  <2>1. block \in Seq(Events)
    BY DEF TypeOK
  <2> QED
    BY <1>2, <2>1, ToldAfterEmit DEF WillKnow
<1>3. \A i \in 1 .. Len(stakingQ) : i \in Nat /\ stakingQ[i].state.est \in Ests
  <2>1. stakingQ \in Seq(Notices)
    BY DEF TypeOK, Notices
  <2>2. \A i \in 1 .. Len(stakingQ) : i \in Nat /\ stakingQ[i] \in Notices
    BY <2>1
  <2> QED
    BY <2>2 DEF Notices, RoundStates
<1>4. NoticesTold'
  BY <1>1, <1>2, <1>3 DEF NoticesTold, WillKnow
<1>5. CopyTold'
  <2>1. state.est \in Ests
    BY DEF TypeOK, RoundStates
  <2> QED
    BY <1>1, <1>2, <2>1 DEF CopyTold, WillKnow
<1>6. LoopTold'
  <2>1. loop.on \in Ests \cup {"none"}
    BY DEF TypeOK
  <2> QED
    BY <1>1, <1>2, <2>1 DEF LoopTold, WillKnow
<1>7. PhaseShape'
  BY <1>1 DEF PhaseShape, Subscribed
<1> QED
  BY <1>4, <1>5, <1>6, <1>7

LEMMA LNext == ASSUME ElectionsAssumption, Quiet PROVE LInv /\ [Next]_vars => LInv'
<1> SUFFICES ASSUME LInv, [Next]_vars PROVE NoticesTold' /\ CopyTold' /\ LoopTold' /\ PhaseShape'
  BY TypeNext DEF LInv
<1> USE DEF LInv, contractVars, copyVars, flagVars, startVars
<1>q. stakingQ \in Seq(Notices) /\ Len(stakingQ) \in Nat /\ block \in Seq(Events)
  BY DEF TypeOK, Notices
<1>u. ASSUME UNCHANGED <<est, updates, stakingQ, block, state, phase, loop>>
      PROVE  NoticesTold' /\ CopyTold' /\ LoopTold' /\ PhaseShape'
  BY <1>u DEF NoticesTold, CopyTold, LoopTold, PhaseShape, WillKnow, Subscribed
<1>1. CASE StartElection
  BY <1>1, LEmit DEF StartElection, Wakes, Events
<1>2. CASE EndElection
  BY <1>2, LEmit DEF EndElection, Wakes, Events
<1>3. CASE InitializeRound
  BY <1>3, LEmit DEF InitializeRound, Wakes, Events
<1>4. ASSUME NEW a \in Amounts, UpdateConfig(a)
      PROVE  NoticesTold' /\ CopyTold' /\ LoopTold' /\ PhaseShape'
  <2>1. \A s \in Ests : s \in Wakes("RelayConfigUpdated") \/ s = "Finished"
    BY DEF Wakes, Ests
  <2>2. "RelayConfigUpdated" \in Events /\ Emit("RelayConfigUpdated") /\ est' = est
    BY <1>4 DEF UpdateConfig, Events
  <2> QED
    BY <2>1, <2>2, LEmit
<1>5. ASSUME NEW a \in Amounts, Deposit(a)
      PROVE  NoticesTold' /\ CopyTold' /\ LoopTold' /\ PhaseShape'
  BY <1>5, <1>u DEF Deposit
<1>6. CASE Publish
  <2>1. /\ block' = <<>> /\ UNCHANGED <<est, updates, phase, state, loop>>
        /\ Subscribed => stakingQ' = stakingQ \o [i \in 1 .. Len(block) |->
                                        [event |-> block[i], state |-> RoundState]]
        /\ ~Subscribed => stakingQ' = stakingQ
    BY <1>6 DEF Publish
  <2>2. CASE ~Subscribed
    <3>1. stakingQ = <<>> /\ stakingQ' = <<>> /\ loop.on = "none"
      BY <2>1, <2>2 DEF PhaseShape, Subscribed
    <3>2. NoticesTold' /\ PhaseShape' /\ LoopTold'
      BY <2>1, <2>2, <3>1 DEF NoticesTold, PhaseShape, LoopTold, Subscribed
    <3>3. phase # "subscribe"
      BY <1>6 DEF Publish, PhaseShape
    <3>4. phase = "snapshot"
      BY <2>2, <3>3 DEF TypeOK, Phases, Subscribed
    <3> QED
      BY <2>1, <3>2, <3>4 DEF CopyTold
  <2>3. CASE Subscribed
    <3> DEFINE q2 == stakingQ \o [i \in 1 .. Len(block) |->
                                    [event |-> block[i], state |-> RoundState]]
    <3>1. ASSUME NEW s, NEW t, NEW k \in 0 .. Len(stakingQ), WillKnow(s, t, k)
          PROVE  Told(s, t, k, q2, <<>>, est, updates)
      BY <1>q, <3>1, RoundStateType, ToldAfterPublish DEF WillKnow
    <3>2. Len(q2) \in Nat /\ \A i \in 1 .. Len(q2) :
            \/ i \in 1 .. Len(stakingQ) /\ q2[i] = stakingQ[i]
            \/ q2[i].state = RoundState
      BY <1>q
    <3>3. \A k : Told(RoundState.est, RoundState.timings, k, q2, <<>>, est, updates)
      BY DEF Told, RoundState
    <3> HIDE DEF q2
    <3>4. /\ stakingQ' = q2 /\ block' = <<>> /\ est' = est /\ updates' = updates
          /\ state' = state /\ loop' = loop /\ phase' = phase
      BY <2>1, <2>3 DEF q2
    <3>5. NoticesTold'
      <4>1. \A i \in 1 .. Len(q2) : Told(q2[i].state.est, q2[i].state.timings, i, q2, <<>>, est, updates)
        <5> TAKE i \in 1 .. Len(q2)
        <5>1. CASE i \in 1 .. Len(stakingQ) /\ q2[i] = stakingQ[i]
          <6>1. i \in 0 .. Len(stakingQ)
            BY <5>1, <1>q
          <6> QED
            BY <5>1, <6>1, <3>1 DEF NoticesTold
        <5>2. CASE q2[i].state = RoundState
          BY <5>2, <3>3
        <5> QED
          BY <3>2, <5>1, <5>2
      <4> QED
        BY <3>4, <4>1 DEF NoticesTold, WillKnow
    <3>6. 0 \in 0 .. Len(stakingQ)
      BY <1>q
    <3>7. CopyTold' /\ LoopTold'
      BY <3>1, <3>4, <3>6 DEF CopyTold, LoopTold, WillKnow
    <3> QED
      BY <2>3, <3>4, <3>5, <3>7 DEF PhaseShape, Subscribed
  <2> QED
    BY <2>2, <2>3
<1>7. CASE ReadState
  <2>1. /\ stakingQ = <<>> /\ loop.on = "none" /\ ~loop.woken /\ block = <<>>
        /\ UNCHANGED <<stakingQ, loop, block, est, updates>>
        /\ phase' = "subscribe" /\ state' = RoundState
    BY <1>7 DEF ReadState, PhaseShape, Subscribed
  <2>2. Told(RoundState.est, RoundState.timings, 0, stakingQ, block, est, updates)
    BY DEF Told, RoundState
  <2> QED
    BY <2>1, <2>2 DEF NoticesTold, CopyTold, LoopTold, PhaseShape, WillKnow, Subscribed
<1>8. CASE Subscribe
  BY <1>8 DEF Subscribe, NoticesTold, CopyTold, LoopTold, PhaseShape, WillKnow, Subscribed
<1>9. CASE StartManaging
  <2>1. loop'.woken /\ phase = "voting" /\ phase' = "rewards"
        /\ UNCHANGED <<est, updates, stakingQ, block, state>>
    BY <1>9 DEF StartManaging, Woken, TypeOK
  <2> QED
    BY <2>1 DEF NoticesTold, CopyTold, LoopTold, PhaseShape, WillKnow, Subscribed
<1>10. CASE CollectRewards
  BY <1>10 DEF CollectRewards, NoticesTold, CopyTold, LoopTold, PhaseShape, WillKnow, Subscribed
<1>11. CASE Restart
  <2>1. stakingQ' = <<>> /\ phase' = "snapshot" /\ loop' = Off
    BY <1>11 DEF Restart
  <2> QED
    BY <2>1 DEF NoticesTold, CopyTold, LoopTold, PhaseShape, Off, Subscribed
<1>12. CASE HandleStaking
  <2> DEFINE n == Head(stakingQ)
  <2>1. /\ stakingQ # <<>> /\ stakingQ' = Tail(stakingQ) /\ state' = n.state
        /\ loop' = IF loop.on \in Wakes(n.event) THEN Woken(loop) ELSE loop
        /\ UNCHANGED <<est, updates, block, phase>>
    BY <1>12 DEF HandleStaking
  <2>2. /\ Len(stakingQ) > 0 /\ Len(Tail(stakingQ)) = Len(stakingQ) - 1
        /\ n = stakingQ[1] /\ Tail(stakingQ) \in Seq(Notices)
        /\ \A i \in 1 .. Len(stakingQ) - 1 : Tail(stakingQ)[i] = stakingQ[i + 1]
    <3> HIDE DEF Notices
    <3> QED
      BY <1>q, <2>1
  <2> HIDE DEF n
  <2>3. ASSUME NEW s, NEW t, NEW k \in Nat, WillKnow(s, t, k + 1)
        PROVE  Told(s, t, k, Tail(stakingQ), block, est, updates)
    BY <1>q, <2>1, <2>3, ToldAfterHandle DEF WillKnow
  <2>4. NoticesTold'
    <3>1. ASSUME NEW i \in 1 .. Len(Tail(stakingQ))
          PROVE  Told(Tail(stakingQ)[i].state.est, Tail(stakingQ)[i].state.timings, i,
                      Tail(stakingQ), block, est, updates)
      <4>1. i \in Nat /\ i + 1 \in 1 .. Len(stakingQ) /\ Tail(stakingQ)[i] = stakingQ[i + 1]
        BY <1>q, <2>2
      <4> QED
        BY <4>1, <2>3 DEF NoticesTold
    <3> QED
      BY <2>1, <3>1 DEF NoticesTold, WillKnow
  <2>5. CopyTold'
    <3>1. 1 \in 1 .. Len(stakingQ) /\ 0 + 1 = 1 /\ 0 \in Nat
      BY <1>q, <2>2
    <3>2. WillKnow(n.state.est, n.state.timings, 1)
      BY <2>2, <3>1 DEF NoticesTold
    <3>3. Told(n.state.est, n.state.timings, 0, Tail(stakingQ), block, est, updates)
      BY <3>1, <3>2, <2>3
    <3> QED
      BY <2>1, <3>3 DEF CopyTold, WillKnow
  <2>6. LoopTold'
    <3>1. CASE loop.on \in Wakes(n.event)
      BY <2>1, <3>1 DEF LoopTold, Woken, TypeOK
    <3>2. CASE loop.on \notin Wakes(n.event)
      <4>1. WillKnow(loop.on, loop.timings, 0)
              => Told(loop.on, loop.timings, 0, Tail(stakingQ), block, est, updates)
        BY <1>q, <2>1, <3>2, ToldAfterHandle DEF WillKnow, n
      <4> QED
        BY <2>1, <3>2, <4>1 DEF LoopTold, WillKnow
    <3> QED
      BY <3>1, <3>2
  <2>7. PhaseShape'
    <3>1. Subscribed
      BY <2>1 DEF PhaseShape
    <3>2. n.event \in Events
      <4>1. n \in Notices
        BY <1>q, <2>1, QueueHead DEF n
      <4> QED
        BY <4>1 DEF Notices
    <3>3. "none" \notin Wakes(n.event)
      BY <3>2 DEF Wakes, Events
    <3>4. loop'.on = loop.on /\ (loop.on = "none" => loop' = loop) /\ (loop.woken => loop'.woken)
      BY <2>1, <3>3 DEF Woken, TypeOK
    <3> QED
      BY <2>1, <3>1, <3>4 DEF PhaseShape, Subscribed
  <2> QED
    BY <2>4, <2>5, <2>6, <2>7
<1>13. CASE HandleUser
  BY <1>13, <1>u DEF HandleUser
<1>14. CASE Manage
  <2>1. /\ loop.woken /\ loop' = [on |-> state.est, timings |-> state.timings, woken |-> FALSE]
        /\ UNCHANGED <<est, updates, stakingQ, block, state, phase>>
    BY <1>14 DEF Manage
  <2>2. phase \in {"rewards", "running"} /\ state.est \in Ests
    BY <2>1 DEF PhaseShape, TypeOK, RoundStates
  <2>3. loop'.on = state.est /\ loop'.timings = state.timings /\ ~loop'.woken
    BY <2>1
  <2>4. NoticesTold' /\ CopyTold' /\ PhaseShape'
    BY <2>1, <2>2, <2>3 DEF NoticesTold, CopyTold, PhaseShape, WillKnow, Subscribed
  <2> QED
    BY <2>1, <2>2, <2>3, <2>4 DEF CopyTold, LoopTold, WillKnow
<1>15. ASSUME NEW t \in Tids, CompareDeposit(t)
       PROVE  NoticesTold' /\ CopyTold' /\ LoopTold' /\ PhaseShape'
  BY <1>15, <1>u DEF CompareDeposit
<1>16. ASSUME NEW t \in Tids, BecomeRelay(t)
       PROVE  NoticesTold' /\ CopyTold' /\ LoopTold' /\ PhaseShape'
  BY <1>16, <1>u DEF BecomeRelay
<1>17. ASSUME NEW r \in Rounds, CheckParticipation(r)
       PROVE  NoticesTold' /\ CopyTold' /\ LoopTold' /\ PhaseShape'
  BY <1>17, <1>u DEF CheckParticipation
<1>18. ASSUME NEW r \in Rounds, GetReward(r)
       PROVE  NoticesTold' /\ CopyTold' /\ LoopTold' /\ PhaseShape'
  BY <1>18, <1>u DEF GetReward
<1>19. CASE UNCHANGED vars
  BY <1>19, <1>u DEF vars
<1> QED
  BY <1>1, <1>2, <1>3, <1>4, <1>5, <1>6, <1>7, <1>8, <1>9, <1>10, <1>11, <1>12, <1>13,
     <1>14, <1>15, <1>16, <1>17, <1>18, <1>19 DEF Next, Startup

\* While nothing happens between the startup's read and its subscription, the loop
\* of elections misses no notification, however blocks combine events and however
\* many are handled before the loop looks again.
THEOREM LoopCorrect == ASSUME ElectionsAssumption, Quiet PROVE Spec => []LoopListens
<1>1. LInv => LoopListens
  <2> SUFFICES ASSUME LInv, Drained, phase # "voting", ~loop.woken
               PROVE  loop.on = est /\ (est # "Finished" => loop.timings = updates)
    BY DEF LoopListens
  <2>1. phase \in {"rewards", "running"} /\ stakingQ = <<>> /\ block = <<>>
    BY DEF Drained, Subscribed
  <2>2. loop.on \in Ests
    BY <2>1 DEF LInv, PhaseShape
  <2>3. loop.on # "none"
    BY <2>2 DEF Ests
  <2>4. Told(loop.on, loop.timings, 0, <<>>, <<>>, est, updates)
    BY <2>1, <2>3 DEF LInv, LoopTold, WillKnow
  <2>5. 1 .. Len(<<>>) = {} /\ 0 + 1 .. Len(<<>>) = {}
    OBVIOUS
  <2> QED
    BY <2>4, <2>5 DEF Told
<1> QED
  BY <1>1, LInit, LNext, PTL DEF Spec

-----------------------------------------------------------------------------
(* The rewards                                                               *)

\* News of the start of round r are to be handled.
Announced(r) ==
  \/ \E i \in 1 .. Len(stakingQ) : /\ stakingQ[i].event = "RelayRoundInitialized"
                                   /\ stakingQ[i].state.round = r
  \/ r = round /\ In("RelayRoundInitialized")

\* A block initializes one round at most, and rounds are seated in order.
OneRound ==
  /\ In("RelayRoundInitialized") => est = "NotStarted"
  /\ seated \subseteq 0 .. round

RewardsKept ==
  phase = "running" =>
    \A r \in seated \ claimed : r >= oldest => r \in rewards \/ Announced(r)

WInv == TypeOK /\ OneRound /\ RewardsKept

LEMMA WInit == ASSUME ElectionsAssumption PROVE Init => WInv
<1> SUFFICES ASSUME Init PROVE WInv
  OBVIOUS
<1>1. ~In("RelayRoundInitialized")
  BY DEF Init, In
<1>2. seated \subseteq 0 .. round /\ phase # "running"
  BY DEF Init, ElectionsAssumption
<1> QED
  BY <1>1, <1>2, TypeInit DEF WInv, OneRound, RewardsKept

\* What is in a block stays there until the block is applied.
LEMMA InAfterEmit ==
  ASSUME block \in Seq(Events), NEW v \in Events, Emit(v)
  PROVE  \A e : In(e)' <=> In(e) \/ e = v
<1>1. /\ block' = Append(block, v)
      /\ Len(Append(block, v)) = Len(block) + 1 /\ Len(block) \in Nat
      /\ Append(block, v)[Len(block) + 1] = v
      /\ \A j \in 1 .. Len(block) : Append(block, v)[j] = block[j]
  BY DEF Emit
<1>2. 1 .. Len(block) + 1 = (1 .. Len(block)) \cup {Len(block) + 1}
  BY <1>1
<1> QED
  BY <1>1, <1>2 DEF In

LEMMA WNext == ASSUME ElectionsAssumption PROVE WInv /\ [Next]_vars => WInv'
<1> SUFFICES ASSUME WInv, [Next]_vars PROVE OneRound' /\ RewardsKept'
  BY TypeNext DEF WInv
<1> USE DEF WInv, contractVars, copyVars, flagVars, startVars
<1>q. stakingQ \in Seq(Notices) /\ Len(stakingQ) \in Nat /\ block \in Seq(Events)
  BY DEF TypeOK, Notices
<1>u. ASSUME UNCHANGED <<round, est, seated, claimed, stakingQ, block, phase, oldest, rewards>>
      PROVE  OneRound' /\ RewardsKept'
  BY <1>u DEF OneRound, RewardsKept, Announced, In
\* Events that neither begin a round nor start elections after one began.
<1>e. ASSUME NEW v \in Events \ {"RelayRoundInitialized"}, Emit(v),
             UNCHANGED <<round, seated>>,
             In("RelayRoundInitialized") => est' = est
      PROVE  OneRound' /\ RewardsKept'
  <2>1. In("RelayRoundInitialized")' <=> In("RelayRoundInitialized")
    BY <1>e, <1>q, InAfterEmit
  <2>2. UNCHANGED <<round, seated, claimed, stakingQ, phase, oldest, rewards>>
    BY <1>e DEF Emit
  <2> QED
    BY <1>e, <2>1, <2>2 DEF OneRound, RewardsKept, Announced
<1>1. CASE StartElection
  BY <1>1, <1>e DEF StartElection, Events
<1>2. CASE EndElection
  BY <1>2, <1>e DEF EndElection, Events, OneRound
<1>3. CASE InitializeRound
  <2>1. /\ round' = round + 1 /\ est' = "NotStarted" /\ est = "Finished"
        /\ seated' \subseteq seated \cup {round + 1}
        /\ UNCHANGED <<claimed, stakingQ, phase, oldest, rewards>>
        /\ Emit("RelayRoundInitialized")
    BY <1>3 DEF InitializeRound, Emit
  <2>2. In("RelayRoundInitialized")' /\ ~In("RelayRoundInitialized")
    BY <1>q, <2>1, InAfterEmit DEF Events, OneRound
  <2>3. OneRound'
    <3>1. round \in Nat
      BY DEF TypeOK, Rounds, ElectionsAssumption
    <3> QED
      BY <2>1, <3>1 DEF OneRound
  <2>4. RewardsKept'
    BY <2>1, <2>2 DEF RewardsKept, Announced
  <2> QED
    BY <2>3, <2>4
<1>4. ASSUME NEW a \in Amounts, UpdateConfig(a) PROVE OneRound' /\ RewardsKept'
  BY <1>4, <1>e DEF UpdateConfig, Events
<1>5. ASSUME NEW a \in Amounts, Deposit(a) PROVE OneRound' /\ RewardsKept'
  BY <1>5, <1>u DEF Deposit
<1>6. CASE Publish
  <2>1. /\ block' = <<>>
        /\ UNCHANGED <<round, est, seated, claimed, phase, oldest, rewards>>
    BY <1>6 DEF Publish
  <2>2. OneRound'
    BY <2>1 DEF OneRound, In
  <2>3. ASSUME phase = "running", NEW r, Announced(r) PROVE Announced(r)'
    <3> DEFINE new == [i \in 1 .. Len(block) |-> [event |-> block[i], state |-> RoundState]]
               q2 == stakingQ \o new
    <3>1. stakingQ' = q2
      BY <1>6, <2>3 DEF Publish, Subscribed
    <3>2. /\ Len(q2) = Len(stakingQ) + Len(block) /\ Len(block) \in Nat
          /\ \A i \in 1 .. Len(stakingQ) : q2[i] = stakingQ[i]
          /\ \A j \in 1 .. Len(block) : q2[Len(stakingQ) + j] = new[j]
      BY <1>q
    <3> HIDE DEF q2
    <3>3. CASE \E i \in 1 .. Len(stakingQ) : /\ stakingQ[i].event = "RelayRoundInitialized"
                                             /\ stakingQ[i].state.round = r
      <4>1. PICK i \in 1 .. Len(stakingQ) : /\ stakingQ[i].event = "RelayRoundInitialized"
                                            /\ stakingQ[i].state.round = r
        BY <3>3
      <4>2. i \in 1 .. Len(q2) /\ q2[i] = stakingQ[i]
        BY <1>q, <3>2
      <4> QED
        BY <3>1, <4>1, <4>2 DEF Announced
    <3>4. CASE r = round /\ In("RelayRoundInitialized")
      <4>1. PICK j \in 1 .. Len(block) : block[j] = "RelayRoundInitialized"
        BY <3>4 DEF In
      <4>2. Len(stakingQ) + j \in 1 .. Len(q2) /\ q2[Len(stakingQ) + j] = new[j]
        <5> HIDE DEF new
        <5>1. Len(stakingQ) + j \in 1 .. Len(q2)
          BY <1>q, <3>2, <4>1
        <5>2. q2[Len(stakingQ) + j] = new[j]
          BY <3>2, <4>1
        <5> QED
          BY <5>1, <5>2
      <4>3. new[j].event = "RelayRoundInitialized" /\ new[j].state.round = r
        BY <3>4, <4>1 DEF RoundState
      <4> HIDE DEF new
      <4> QED
        BY <3>1, <4>2, <4>3 DEF Announced
    <3> QED
      BY <2>3, <3>3, <3>4 DEF Announced
  <2> QED
    BY <2>1, <2>2, <2>3 DEF RewardsKept
<1>7. CASE ReadState
  BY <1>7 DEF ReadState, OneRound, RewardsKept, In
<1>8. CASE Subscribe
  BY <1>8 DEF Subscribe, OneRound, RewardsKept, In
<1>9. CASE StartManaging
  BY <1>9 DEF StartManaging, OneRound, RewardsKept, In
<1>10. CASE CollectRewards
  <2>1. /\ oldest' = Oldest /\ rewards' = rewards \cup (Recent \cap (seated \ claimed))
        /\ UNCHANGED <<round, est, seated, claimed, block>>
    BY <1>10 DEF CollectRewards
  <2>2. \A r \in seated : r >= Oldest => r \in Recent
    <3>1. round \in Nat /\ Oldest \in Nat /\ seated \subseteq 0 .. round
      BY DEF TypeOK, Rounds, ElectionsAssumption, Oldest, OneRound
    <3>2. \A r \in 0 .. round : r >= Oldest => r \in Oldest .. round
      BY <3>1
    <3> QED
      BY <3>1, <3>2 DEF Recent
  <2> QED
    BY <2>1, <2>2 DEF OneRound, RewardsKept, In
<1>11. CASE Restart
  BY <1>11 DEF Restart, OneRound, RewardsKept, In
<1>12. CASE HandleStaking
  <2> DEFINE n == Head(stakingQ)
  <2>1. /\ stakingQ # <<>> /\ stakingQ' = Tail(stakingQ)
        /\ rewards' = IF n.event = "RelayRoundInitialized" THEN rewards \cup {n.state.round}
                      ELSE rewards
        /\ UNCHANGED <<round, est, seated, claimed, block, phase, oldest>>
    BY <1>12 DEF HandleStaking
  <2>2. /\ Len(stakingQ) > 0 /\ Len(Tail(stakingQ)) = Len(stakingQ) - 1
        /\ n = stakingQ[1]
        /\ \A i \in 1 .. Len(stakingQ) - 1 : Tail(stakingQ)[i] = stakingQ[i + 1]
    <3> HIDE DEF Notices
    <3> QED
      BY <1>q, <2>1
  <2> HIDE DEF n
  <2>3. ASSUME NEW r, Announced(r) PROVE r \in rewards' \/ Announced(r)'
    <3>1. CASE \E i \in 1 .. Len(stakingQ) : /\ stakingQ[i].event = "RelayRoundInitialized"
                                             /\ stakingQ[i].state.round = r
      <4>1. PICK i \in 1 .. Len(stakingQ) : /\ stakingQ[i].event = "RelayRoundInitialized"
                                            /\ stakingQ[i].state.round = r
        BY <3>1
      <4>2. CASE i = 1
        BY <2>1, <2>2, <4>1, <4>2
      <4>3. CASE i # 1
        <5>1. i - 1 \in 1 .. Len(Tail(stakingQ)) /\ (i - 1) + 1 = i
              /\ i - 1 \in 1 .. Len(stakingQ) - 1
          BY <1>q, <2>2, <4>3
        <5>2. Tail(stakingQ)[i - 1] = stakingQ[i]
          BY <2>2, <5>1
        <5> QED
          BY <2>1, <4>1, <5>1, <5>2 DEF Announced
      <4> QED
        BY <4>2, <4>3
    <3>2. CASE r = round /\ In("RelayRoundInitialized")
      BY <2>1, <3>2 DEF Announced, In
    <3> QED
      BY <2>3, <3>1, <3>2 DEF Announced
  <2>4. rewards \subseteq rewards'
    BY <2>1
  <2> QED
    BY <2>1, <2>3, <2>4 DEF OneRound, RewardsKept, In
<1>13. CASE HandleUser
  BY <1>13, <1>u DEF HandleUser
<1>14. CASE Manage
  BY <1>14, <1>u DEF Manage
<1>15. ASSUME NEW t \in Tids, CompareDeposit(t) PROVE OneRound' /\ RewardsKept'
  BY <1>15, <1>u DEF CompareDeposit
<1>16. ASSUME NEW t \in Tids, BecomeRelay(t) PROVE OneRound' /\ RewardsKept'
  BY <1>16, <1>u DEF BecomeRelay
<1>17. ASSUME NEW r \in Rounds, CheckParticipation(r) PROVE OneRound' /\ RewardsKept'
  BY <1>17, <1>u DEF CheckParticipation
<1>18. ASSUME NEW r \in Rounds, GetReward(r) PROVE OneRound' /\ RewardsKept'
  BY <1>18 DEF GetReward, OneRound, RewardsKept, Announced, In
<1>19. CASE UNCHANGED vars
  BY <1>19, <1>u DEF vars
<1> QED
  BY <1>1, <1>2, <1>3, <1>4, <1>5, <1>6, <1>7, <1>8, <1>9, <1>10, <1>11, <1>12, <1>13,
     <1>14, <1>15, <1>16, <1>17, <1>18, <1>19 DEF Next, Startup

\* Whenever the relay restarts, the reward of no round from the oldest it looked at
\* on is forgotten, also if a round begins while the startup looks.
THEOREM RewardsCorrect == ASSUME ElectionsAssumption PROVE Spec => []RewardsCovered
<1>1. WInv => RewardsCovered
  BY DEF WInv, RewardsKept, RewardsCovered, Drained, Announced, In
<1> QED
  BY <1>1, WInit, WNext, PTL DEF Spec

-----------------------------------------------------------------------------
(* News of elections                                                         *)

\* An event v is in the channel after position k, or in the block.
Comes(v, k) ==
  \/ \E i \in k + 1 .. Len(stakingQ) : stakingQ[i].event = v
  \/ In(v)

\* Nothing reaches the relay before it is subscribed, and it asks for nothing.
StartShape ==
  /\ phase = "subscribe" => state = RoundState /\ block = <<>>
  /\ ~Subscribed => stakingQ = <<>> /\ userQ = <<>> /\ ask = NoAsk

\* What the contracts did together with the news of it that is to be handled.
NewsShape ==
  /\ est = "NotStarted" => ~member
  /\ In("ElectionEnded") => est = "Finished" \/ In("RelayRoundInitialized")
  /\ \A i, j \in 1 .. Len(block) :
       block[i] = "ElectionStarted" /\ block[j] = "ElectionStarted" => i = j
  /\ Comes("ElectionStarted", 0) =>
       /\ est = "Started" /\ ~member /\ ask = NoAsk
       /\ ~Comes("ElectionEnded", 0) /\ ~Comes("RelayRoundInitialized", 0)
  /\ Comes("ElectionEnded", 0) => est # "Started" /\ \A t \in Tids : ask[t] # "spawned"
  /\ Comes("RelayRoundInitialized", 0) => est = "NotStarted"

\* The state that the i-th notice n of the channel came with.
NoticeShape(n, i) ==
  /\ n.event = "ElectionStarted" => n.state.est = "Started" /\ ~Comes("ElectionStarted", i)
  /\ n.event = "RelayRoundInitialized" => n.state.est = "NotStarted"
  /\ n.state.est = "NotStarted" => est = "NotStarted" \/ Comes("ElectionStarted", i)
NoticesShape == \A i \in 1 .. Len(stakingQ) : NoticeShape(stakingQ[i], i)

\* Nobody asks once the relay knows that the elections are over.
AskShape == est # "Started" /\ ~Comes("ElectionEnded", 0) => ask = NoAsk

NShape == StartShape /\ NewsShape /\ NoticesShape /\ AskShape
NInv == TypeOK /\ NShape

LEMMA NInit == ASSUME ElectionsAssumption PROVE Init => NInv
<1> SUFFICES ASSUME Init PROVE NInv
  OBVIOUS
<1>1. /\ Len(stakingQ) = 0 /\ Len(block) = 0 /\ est = "NotStarted" /\ ~member
      /\ ask = NoAsk /\ phase = "snapshot" /\ stakingQ = <<>> /\ userQ = <<>>
  BY DEF Init
<1>2. \A v : ~Comes(v, 0)
  BY <1>1 DEF Comes, In
<1>3. StartShape /\ AskShape /\ NoticesShape
  BY <1>1 DEF StartShape, Subscribed, AskShape, NoticesShape
<1>4. NewsShape
  BY <1>1, <1>2 DEF NewsShape, In
<1> QED
  BY <1>3, <1>4, TypeInit DEF NInv, NShape

\* A transaction adds its event to what comes, and nothing else.
LEMMA ComesAfterEmit ==
  ASSUME block \in Seq(Events), NEW v \in Events, Emit(v)
  PROVE  /\ \A e, k : Comes(e, k)' <=> Comes(e, k) \/ e = v
         /\ block' = Append(block, v)
         /\ Len(block') = Len(block) + 1 /\ block'[Len(block) + 1] = v
         /\ \A j \in 1 .. Len(block) : block'[j] = block[j]
<1>1. block' = Append(block, v) /\ stakingQ' = stakingQ
  BY DEF Emit
<1>2. \A e : In(e)' <=> In(e) \/ e = v
  BY InAfterEmit
<1>3. \A e, k : Comes(e, k)' <=> Comes(e, k) \/ e = v
  BY <1>1, <1>2 DEF Comes
<1> QED
  BY <1>1, <1>3

\* What comes in a block comes in the channel that the block is put into.
LEMMA ComesAfterPublish ==
  ASSUME TypeOK, Publish, Subscribed
  PROVE  /\ \A e : \A k \in 0 .. Len(stakingQ) : Comes(e, k)' <=> Comes(e, k)
         /\ \A i \in 1 .. Len(stakingQ)' :
              \/ i \in 1 .. Len(stakingQ) /\ stakingQ'[i] = stakingQ[i]
              \/ /\ i > Len(stakingQ) /\ i - Len(stakingQ) \in 1 .. Len(block)
                 /\ stakingQ'[i].event = block[i - Len(stakingQ)]
                 /\ stakingQ'[i].state = RoundState
<1> DEFINE new == [i \in 1 .. Len(block) |-> [event |-> block[i], state |-> RoundState]]
           q2 == stakingQ \o new
<1>1. stakingQ' = q2 /\ block' = <<>>
  BY DEF Publish
<1>2. Len(stakingQ) \in Nat /\ Len(block) \in Nat
  BY DEF TypeOK
<1>3. \A i \in 1 .. Len(block) : new[i].event = block[i] /\ new[i].state = RoundState
  OBVIOUS
<1>4. /\ Len(q2) = Len(stakingQ) + Len(block)
      /\ \A i \in 1 .. Len(stakingQ) : q2[i] = stakingQ[i]
      /\ \A j \in 1 .. Len(block) : q2[Len(stakingQ) + j] = new[j]
  BY <1>2 DEF TypeOK
<1> HIDE DEF new, q2
<1>5. ASSUME NEW i \in 1 .. Len(q2)
      PROVE  \/ i \in 1 .. Len(stakingQ) /\ q2[i] = stakingQ[i]
             \/ /\ i > Len(stakingQ) /\ i - Len(stakingQ) \in 1 .. Len(block)
                /\ q2[i].event = block[i - Len(stakingQ)] /\ q2[i].state = RoundState
  <2>1. CASE i <= Len(stakingQ)
    BY <1>2, <1>4, <2>1
  <2>2. CASE i > Len(stakingQ)
    <3>1. i - Len(stakingQ) \in 1 .. Len(block) /\ Len(stakingQ) + (i - Len(stakingQ)) = i
      BY <1>2, <1>4, <2>2
    <3> QED
      BY <1>3, <1>4, <2>2, <3>1
  <2> QED
    BY <1>2, <1>4, <2>1, <2>2
<1>6. ASSUME NEW e, NEW k \in 0 .. Len(stakingQ) PROVE Comes(e, k)' <=> Comes(e, k)
  <2>1. Comes(e, k)' <=> \E i \in k + 1 .. Len(q2) : q2[i].event = e
    BY <1>1 DEF Comes, In
  <2>2. ASSUME NEW i \in k + 1 .. Len(q2), q2[i].event = e PROVE Comes(e, k)
    <3>1. i \in 1 .. Len(q2)
      BY <1>2, <1>4
    <3>2. CASE i \in 1 .. Len(stakingQ) /\ q2[i] = stakingQ[i]
      BY <1>2, <2>2, <3>2 DEF Comes
    <3>3. CASE i - Len(stakingQ) \in 1 .. Len(block) /\ q2[i].event = block[i - Len(stakingQ)]
      BY <2>2, <3>3 DEF Comes, In
    <3> QED
      BY <1>5, <3>1, <3>2, <3>3
  <2>3. ASSUME NEW i \in k + 1 .. Len(stakingQ), stakingQ[i].event = e
        PROVE  i \in k + 1 .. Len(q2) /\ q2[i].event = e
    BY <1>2, <1>4, <2>3
  <2>4. ASSUME NEW j \in 1 .. Len(block), block[j] = e
        PROVE  Len(stakingQ) + j \in k + 1 .. Len(q2) /\ q2[Len(stakingQ) + j].event = e
    <3>1. Len(stakingQ) + j \in k + 1 .. Len(q2)
      BY <1>2, <1>4
    <3>2. q2[Len(stakingQ) + j] = new[j]
      BY <1>4
    <3> QED
      BY <1>3, <2>4, <3>1, <3>2
  <2> QED
    BY <2>1, <2>2, <2>3, <2>4 DEF Comes, In
<1> QED
  BY <1>1, <1>5, <1>6

\* The channel moves up when its first notice is handled.
LEMMA ComesAfterHandle ==
  ASSUME TypeOK, HandleStaking
  PROVE  /\ \A e : \A k \in Nat : Comes(e, k)' <=> Comes(e, k + 1)
         /\ \A e : Comes(e, 0) <=> Comes(e, 1) \/ e = Head(stakingQ).event
         /\ \A i \in 1 .. Len(stakingQ)' :
              i \in Nat /\ i + 1 \in 1 .. Len(stakingQ) /\ stakingQ'[i] = stakingQ[i + 1]
         /\ 1 \in 1 .. Len(stakingQ) /\ Head(stakingQ) = stakingQ[1]
         /\ Head(stakingQ) \in Notices
<1>1. stakingQ # <<>> /\ stakingQ' = Tail(stakingQ) /\ block' = block
  BY DEF HandleStaking
<1>2. stakingQ \in Seq(Notices)
  BY DEF TypeOK, Notices
<1>3. /\ Len(stakingQ) \in Nat /\ Len(stakingQ) > 0
      /\ Len(Tail(stakingQ)) = Len(stakingQ) - 1
      /\ Head(stakingQ) = stakingQ[1] /\ Head(stakingQ) \in Notices
      /\ \A i \in 1 .. Len(stakingQ) - 1 : Tail(stakingQ)[i] = stakingQ[i + 1]
  BY <1>1, <1>2
<1>4. ASSUME NEW e, NEW k \in Nat PROVE Comes(e, k)' <=> Comes(e, k + 1)
  <2>1. ASSUME NEW i \in k + 1 .. Len(Tail(stakingQ)), Tail(stakingQ)[i].event = e
        PROVE  i + 1 \in (k + 1) + 1 .. Len(stakingQ) /\ stakingQ[i + 1].event = e
    BY <1>3, <2>1
  <2>2. ASSUME NEW i \in (k + 1) + 1 .. Len(stakingQ), stakingQ[i].event = e
        PROVE  i - 1 \in k + 1 .. Len(Tail(stakingQ)) /\ Tail(stakingQ)[i - 1].event = e
    <3>1. i - 1 \in 1 .. Len(stakingQ) - 1 /\ (i - 1) + 1 = i
      BY <1>3
    <3>2. Tail(stakingQ)[i - 1] = stakingQ[i]
      BY <1>3, <3>1
    <3>3. i - 1 \in k + 1 .. Len(Tail(stakingQ))
      BY <1>3
    <3> QED
      BY <2>2, <3>2, <3>3
  <2> QED
    BY <1>1, <2>1, <2>2 DEF Comes, In
<1>5. ASSUME NEW e PROVE Comes(e, 0) <=> Comes(e, 1) \/ e = Head(stakingQ).event
  <2>1. 0 + 1 .. Len(stakingQ) = (1 + 1 .. Len(stakingQ)) \cup {1}
    BY <1>3
  <2> QED
    BY <1>3, <2>1 DEF Comes
<1>6. \A i \in 1 .. Len(Tail(stakingQ)) :
        i \in Nat /\ i + 1 \in 1 .. Len(stakingQ) /\ Tail(stakingQ)[i] = stakingQ[i + 1]
  BY <1>3
<1> QED
  BY <1>1, <1>3, <1>4, <1>5, <1>6

\* Elections start, end and seat relays: each only when the relay has handled the
\* news before it.
LEMMA NEmit ==
  ASSUME NInv, Quiet, NEW v \in Events, Emit(v), ask' = ask,
         v = "ElectionStarted" =>
           /\ est' = "Started" /\ ~member' /\ est = "NotStarted"
           /\ ~Comes("ElectionEnded", 0) /\ ~Comes("RelayRoundInitialized", 0),
         v = "ElectionEnded" =>
           /\ est' = "Finished" /\ est = "Started" /\ ~Comes("ElectionStarted", 0)
           /\ \A t \in Tids : ask[t] # "spawned",
         v = "RelayRoundInitialized" => est' = "NotStarted" /\ ~member' /\ est = "Finished",
         v = "RelayConfigUpdated" => est' = est /\ member' = member
  PROVE  NShape'
<1> USE DEF NInv, NShape
<1>1. /\ stakingQ' = stakingQ /\ userQ' = userQ /\ phase' = phase /\ phase # "subscribe"
      /\ block \in Seq(Events) /\ Len(block) \in Nat
  BY DEF Emit, Undisturbed, startVars, TypeOK
<1>2. /\ \A e, k : Comes(e, k)' <=> Comes(e, k) \/ e = v
      /\ \A e : In(e)' <=> In(e) \/ e = v
      /\ Len(block') = Len(block) + 1 /\ block'[Len(block) + 1] = v
      /\ \A j \in 1 .. Len(block) : block'[j] = block[j]
  BY <1>1, ComesAfterEmit, InAfterEmit
<1>3. StartShape'
  BY <1>1 DEF StartShape, Subscribed
<1>4. v \in {"ElectionStarted", "ElectionEnded", "RelayRoundInitialized", "RelayConfigUpdated"}
  BY DEF Events
<1>5. ASSUME NEW i \in 1 .. Len(block'), NEW j \in 1 .. Len(block'),
             block'[i] = "ElectionStarted", block'[j] = "ElectionStarted"
      PROVE  i = j
  <2>1. CASE v = "ElectionStarted"
    <3>1. ~In("ElectionStarted")
      BY <2>1 DEF NewsShape, Comes
    <3>2. \A m \in 1 .. Len(block') : block'[m] = "ElectionStarted" => m = Len(block) + 1
      BY <1>1, <1>2, <3>1 DEF In
    <3> QED
      BY <1>5, <3>2
  <2>2. CASE v # "ElectionStarted"
    <3>1. i \in 1 .. Len(block) /\ j \in 1 .. Len(block)
      BY <1>1, <1>2, <1>5, <2>2
    <3> QED
      BY <1>2, <1>5, <3>1 DEF NewsShape
  <2> QED
    BY <2>1, <2>2
<1>6. NewsShape'
  <2>1. In("ElectionEnded")' => est' = "Finished" \/ In("RelayRoundInitialized")'
    BY <1>2, <1>4 DEF NewsShape, Comes
  <2>2. est' = "NotStarted" => ~member'
    BY <1>4 DEF NewsShape
  <2>3. Comes("ElectionStarted", 0)' =>
          /\ est' = "Started" /\ ~member' /\ ask' = NoAsk
          /\ ~Comes("ElectionEnded", 0)' /\ ~Comes("RelayRoundInitialized", 0)'
    BY <1>2, <1>4 DEF NewsShape, AskShape
  <2>4. Comes("ElectionEnded", 0)' => est' # "Started" /\ \A t \in Tids : ask'[t] # "spawned"
    BY <1>2, <1>4 DEF NewsShape
  <2>5. Comes("RelayRoundInitialized", 0)' => est' = "NotStarted"
    BY <1>2, <1>4 DEF NewsShape
  <2> QED
    BY <1>5, <2>1, <2>2, <2>3, <2>4, <2>5 DEF NewsShape
<1>7. NoticesShape'
  <2>1. ASSUME NEW i \in 1 .. Len(stakingQ)
        PROVE  NoticeShape(stakingQ[i], i)'
    <3>1. NoticeShape(stakingQ[i], i)
      BY DEF NoticesShape
    <3>2. /\ v = "ElectionStarted" => stakingQ[i].event # "ElectionStarted"
          /\ Comes("ElectionStarted", i) => Comes("ElectionStarted", 0)
      <4>1. Len(stakingQ) \in Nat
        BY DEF TypeOK
      <4>2. \A j \in i + 1 .. Len(stakingQ) : j \in 0 + 1 .. Len(stakingQ)
        BY <4>1
      <4>3. i \in 0 + 1 .. Len(stakingQ)
        BY <4>1
      <4> QED
        BY <4>2, <4>3 DEF Comes, NewsShape
    <3> QED
      BY <1>1, <1>2, <1>4, <3>1, <3>2 DEF NoticeShape
  <2> QED
    BY <1>1, <2>1 DEF NoticesShape
<1>8. AskShape'
  BY <1>1, <1>2, <1>4 DEF AskShape
<1> QED
  BY <1>3, <1>6, <1>7, <1>8

\* A block is applied: what its events come with is the state after it.
LEMMA NPublish == ASSUME NInv, Publish PROVE NShape'
<1> USE DEF NInv, NShape, contractVars, copyVars, startVars
<1>1. /\ UNCHANGED <<round, est, member, need, updates, phase, state, userQ, ask>>
      /\ block # <<>> /\ block' = <<>> /\ phase # "subscribe" /\ Len(block') = 0
      /\ RoundState' = RoundState
  BY DEF Publish, StartShape, RoundState
<1>2. CASE ~Subscribed
  <2>1. stakingQ' = <<>> /\ stakingQ = <<>> /\ ask = NoAsk /\ Len(stakingQ') = 0
    BY <1>2 DEF Publish, StartShape
  <2>2. \A e : ~Comes(e, 0)'
    BY <1>1, <2>1 DEF Comes, In
  <2> QED
    BY <1>1, <1>2, <2>1, <2>2 DEF StartShape, Subscribed, NewsShape, NoticesShape, AskShape, In
<1>3. CASE Subscribed
  <2>1. /\ \A e : \A k \in 0 .. Len(stakingQ) : Comes(e, k)' <=> Comes(e, k)
        /\ \A i \in 1 .. Len(stakingQ)' :
             \/ i \in 1 .. Len(stakingQ) /\ stakingQ'[i] = stakingQ[i]
             \/ /\ i > Len(stakingQ) /\ i - Len(stakingQ) \in 1 .. Len(block)
                /\ stakingQ'[i].event = block[i - Len(stakingQ)]
                /\ stakingQ'[i].state = RoundState
    BY <1>3, ComesAfterPublish
  <2>2. Len(stakingQ) \in Nat /\ Len(block) \in Nat
    BY DEF TypeOK
  <2>3. \A e : Comes(e, 0)' <=> Comes(e, 0)
    BY <2>1, <2>2
  <2>4. StartShape' /\ AskShape'
    BY <1>1, <1>3, <2>3 DEF StartShape, AskShape, Subscribed
  <2>5. NewsShape'
    BY <1>1, <2>3 DEF NewsShape, In
  <2>6. NoticesShape'
    <3>1. ASSUME NEW i \in 1 .. Len(stakingQ)' PROVE NoticeShape(stakingQ[i], i)'
      <4>1. CASE i \in 1 .. Len(stakingQ) /\ stakingQ'[i] = stakingQ[i]
        <5>1. i \in 0 .. Len(stakingQ) /\ NoticeShape(stakingQ[i], i)
          BY <2>2, <4>1 DEF NoticesShape
        <5> QED
          BY <1>1, <2>1, <4>1, <5>1 DEF NoticeShape
      <4>2. CASE /\ i > Len(stakingQ) /\ i - Len(stakingQ) \in 1 .. Len(block)
                 /\ stakingQ'[i].event = block[i - Len(stakingQ)]
                 /\ stakingQ'[i].state = RoundState
        <5>1. /\ Comes(stakingQ'[i].event, 0) /\ stakingQ'[i].state.est = est
          BY <4>2 DEF Comes, In, RoundState
        <5>2. ASSUME stakingQ'[i].event = "ElectionStarted", Comes("ElectionStarted", i)'
              PROVE  FALSE
          <6>1. PICK j \in i + 1 .. Len(stakingQ)' : stakingQ'[j].event = "ElectionStarted"
            BY <1>1, <5>2 DEF Comes, In
          <6>2. j \in 1 .. Len(stakingQ)' /\ j > Len(stakingQ) /\ j > i /\ j \in Int /\ i \in Int
            BY <2>2, <4>2
          <6>3. j - Len(stakingQ) \in 1 .. Len(block) /\ stakingQ'[j].event = block[j - Len(stakingQ)]
            <7>1. j \notin 1 .. Len(stakingQ)
              BY <2>2, <6>2
            <7> QED
              BY <2>1, <6>2, <7>1
          <6>4. i - Len(stakingQ) = j - Len(stakingQ)
            BY <4>2, <5>2, <6>1, <6>3 DEF NewsShape
          <6> QED
            BY <2>2, <6>2, <6>4
        <5> QED
          BY <1>1, <5>1, <5>2 DEF NoticeShape, NewsShape
      <4> QED
        BY <2>1, <4>1, <4>2
    <3> QED
      BY <3>1 DEF NoticesShape
  <2> QED
    BY <2>4, <2>5, <2>6
<1> QED
  BY <1>2, <1>3

LEMMA NNext == ASSUME ElectionsAssumption, Quiet, Prompt PROVE NInv /\ [Next]_vars => NInv'
<1> SUFFICES ASSUME NInv, [Next]_vars PROVE NShape'
  BY TypeNext DEF NInv
<1> USE DEF NInv, NShape, contractVars, copyVars, flagVars, startVars
<1>b. ~Behind => \A v \in Events \ {"RelayConfigUpdated"} : Comes(v, 0) => In(v)
  BY DEF Behind, Comes
<1>u. ASSUME UNCHANGED <<round, est, member, need, updates, block, stakingQ, phase, state, ask>>,
             userQ' = userQ \/ Subscribed
      PROVE  NShape'
  <2>1. RoundState' = RoundState
    BY <1>u DEF RoundState
  <2> QED
    BY <1>u, <2>1 DEF StartShape, NewsShape, NoticesShape, NoticeShape, AskShape, Comes, In, Subscribed
\* Steps of the relay after the subscription.
<1>a. ASSUME UNCHANGED <<est, block, stakingQ>>, Subscribed, Subscribed',
             member' = member \/ (est = "Started" /\ ~Comes("ElectionStarted", 0)),
             ask = NoAsk => ask' = NoAsk,
             \A t \in Tids : ask'[t] = "spawned" => ask[t] = "spawned"
      PROVE  NShape'
  <2>1. \A e, k : Comes(e, k)' <=> Comes(e, k)
    BY <1>a DEF Comes, In
  <2>2. StartShape'
    BY <1>a DEF StartShape, Subscribed
  <2>3. NewsShape'
    BY <1>a, <2>1 DEF NewsShape, In
  <2>4. NoticesShape'
    BY <1>a, <2>1 DEF NoticesShape, NoticeShape
  <2>5. AskShape'
    BY <1>a, <2>1 DEF AskShape
  <2> QED
    BY <2>2, <2>3, <2>4, <2>5
<1>1. CASE StartElection
  <2>1. /\ est = "NotStarted" /\ ~In("RelayRoundInitialized") /\ ~Behind
        /\ Emit("ElectionStarted") /\ est' = "Started" /\ member' = member /\ ask' = ask
    BY <1>1 DEF StartElection, Emit
  <2>2. ~Comes("ElectionEnded", 0) /\ ~Comes("RelayRoundInitialized", 0) /\ ~member
    BY <1>b, <2>1 DEF NewsShape, Events
  <2> QED
    BY <2>1, <2>2, NEmit DEF Events
<1>2. CASE EndElection
  <2>1. /\ est = "Started" /\ ~In("ElectionStarted") /\ ~Behind /\ \A t \in Tids : ask[t] # "spawned"
        /\ Emit("ElectionEnded") /\ est' = "Finished" /\ member' = member /\ ask' = ask
    BY <1>2 DEF EndElection, Emit
  <2>2. ~Comes("ElectionStarted", 0)
    BY <1>b, <2>1 DEF Events
  <2> QED
    BY <2>1, <2>2, NEmit DEF Events
<1>3. CASE InitializeRound
  BY <1>3, NEmit DEF InitializeRound, Emit, Events
<1>4. ASSUME NEW a \in Amounts, UpdateConfig(a) PROVE NShape'
  BY <1>4, NEmit DEF UpdateConfig, Emit, Events
<1>5. ASSUME NEW a \in Amounts, Deposit(a) PROVE NShape'
  BY <1>5, <1>u DEF Deposit, ToUser
<1>6. CASE Publish
  BY <1>6, NPublish
<1>7. CASE ReadState
  <2>1. /\ phase = "snapshot" /\ block = <<>> /\ phase' = "subscribe" /\ state' = RoundState
        /\ UNCHANGED <<round, est, member, need, updates, block, stakingQ, userQ, ask>>
        /\ RoundState' = RoundState
    BY <1>7 DEF ReadState, RoundState
  <2>2. stakingQ = <<>> /\ userQ = <<>> /\ ask = NoAsk
    BY <2>1 DEF StartShape, Subscribed
  <2>3. StartShape'
    BY <2>1, <2>2 DEF StartShape
  <2>4. NewsShape' /\ NoticesShape' /\ AskShape'
    BY <2>1, <2>2 DEF NewsShape, NoticesShape, NoticeShape, AskShape, Comes, In
  <2> QED
    BY <2>3, <2>4
<1>8. CASE Subscribe
  <2>1. /\ phase = "subscribe" /\ phase' = "voting" /\ UNCHANGED <<est, member, block, stakingQ, userQ>>
        /\ ask' = [ask EXCEPT ![Inline] = IF ShouldVote THEN "check" ELSE "idle"]
    BY <1>8 DEF Subscribe
  <2>2. stakingQ = <<>> /\ ask = NoAsk /\ block = <<>> /\ state.est = est
    BY <2>1 DEF StartShape, Subscribed, RoundState
  <2>3. Len(stakingQ) = 0 /\ Len(block) = 0 /\ \A e : ~Comes(e, 0)'
    BY <2>1, <2>2 DEF Comes, In
  <2>4. est # "Started" => ask' = NoAsk
    BY <2>1, <2>2 DEF ShouldVote, NoAsk
  <2>5. StartShape' /\ AskShape' /\ NoticesShape' /\ NewsShape'
    BY <2>1, <2>2, <2>3, <2>4 DEF StartShape, Subscribed, AskShape, NoticesShape, NewsShape, In
  <2> QED
    BY <2>5
<1>9. CASE StartManaging
  BY <1>9, <1>a DEF StartManaging, Subscribed
<1>10. CASE CollectRewards
  BY <1>10, <1>a DEF CollectRewards, Subscribed
<1>11. CASE Restart
  <2>1. /\ phase' = "snapshot" /\ stakingQ' = <<>> /\ userQ' = <<>> /\ ask' = NoAsk
        /\ UNCHANGED <<est, member, block>> /\ Len(stakingQ') = 0
    BY <1>11 DEF Restart
  <2>2. \A e : Comes(e, 0)' => Comes(e, 0)
    BY <2>1 DEF Comes, In
  <2>3. StartShape' /\ AskShape' /\ NoticesShape'
    BY <2>1 DEF StartShape, AskShape, NoticesShape
  <2>4. NewsShape'
    <3>1. \A t \in Tids : ask'[t] # "spawned"
      BY <2>1 DEF NoAsk
    <3> QED
      BY <2>1, <2>2, <3>1 DEF NewsShape, In
  <2> QED
    BY <2>3, <2>4
<1>12. CASE HandleStaking
  <2> DEFINE n == Head(stakingQ)
  <2>1. /\ UNCHANGED <<est, member, block, phase, userQ>> /\ ask' = AskAfter(n) /\ stakingQ # <<>>
        /\ n = stakingQ[1] /\ n \in Notices /\ 1 \in 1 .. Len(stakingQ)
    BY <1>12, ComesAfterHandle DEF HandleStaking
  <2>2. /\ \A e : Comes(e, 0) <=> Comes(e, 1) \/ e = n.event
        /\ \A e : \A k \in Nat : Comes(e, k)' <=> Comes(e, k + 1)
        /\ \A i \in 1 .. Len(stakingQ)' :
              i \in Nat /\ i + 1 \in 1 .. Len(stakingQ) /\ stakingQ'[i] = stakingQ[i + 1]
    BY <1>12, ComesAfterHandle
  <2>3. NoticeShape(n, 1) /\ n.event \in Events /\ n.state.round \in Tids
    BY <2>1 DEF NoticesShape, Notices, RoundStates, Tids
  <2> HIDE DEF n
  <2>4. \A e : Comes(e, 0)' <=> Comes(e, 1)
    <3>1. 0 \in Nat /\ 0 + 1 = 1
      OBVIOUS
    <3> QED
      BY <2>2, <3>1
  <2>5. Subscribed /\ Subscribed'
    BY <2>1 DEF StartShape, Subscribed
  <2>6. StartShape'
    BY <2>5 DEF StartShape, Subscribed
  <2>7. NoticesShape'
    <3>1. ASSUME NEW i \in 1 .. Len(stakingQ)' PROVE NoticeShape(stakingQ[i], i)'
      <4>1. NoticeShape(stakingQ[i + 1], i + 1)
        BY <2>2 DEF NoticesShape
      <4> QED
        BY <2>1, <2>2, <4>1 DEF NoticeShape
    <3> QED
      BY <3>1 DEF NoticesShape
  <2>8. /\ NoAsk = [t \in Tids |-> "idle"]
        /\ ask = NoAsk => Stop = NoAsk /\ Compare = NoAsk
        /\ (\A t \in Tids : ask[t] # "spawned") => Stop = NoAsk
        /\ \A t \in Tids : (Stop[t] = "spawned" \/ Compare[t] = "spawned") => ask[t] = "spawned"
    BY DEF NoAsk, Stop, Compare
  <2>9. NewsShape' /\ AskShape'
    <3>1. CASE n.event = "ElectionStarted"
      <4>1. est = "Started" /\ ~Comes("ElectionStarted", 1) /\ ~Comes("ElectionEnded", 0)
        BY <2>2, <2>3, <3>1 DEF NoticeShape, NewsShape
      <4> QED
        BY <2>1, <2>2, <2>4, <4>1 DEF NewsShape, AskShape, In
    <3>2. CASE n.event = "ElectionEnded"
      <4>1. est # "Started" /\ ask' = NoAsk /\ ~Comes("ElectionStarted", 1)
        BY <2>1, <2>2, <2>8, <3>2 DEF NewsShape, AskAfter
      <4>2. \A t \in Tids : ask'[t] # "spawned"
        BY <2>8, <4>1
      <4> QED
        BY <2>1, <2>2, <2>4, <4>1, <4>2 DEF NewsShape, AskShape, In
    <3>3. CASE n.event \in {"RelayRoundInitialized", "RelayConfigUpdated"}
      <4>1. ask' \in {ask, Compare}
        BY <2>1, <3>3 DEF AskAfter
      <4>2. /\ ask = NoAsk => ask' = NoAsk
            /\ \A t \in Tids : ask'[t] = "spawned" => ask[t] = "spawned"
        BY <2>8, <4>1
      <4>3. Comes("ElectionEnded", 0)' <=> Comes("ElectionEnded", 0)
        BY <2>2, <2>4, <3>3
      <4>4. AskShape'
        BY <2>1, <4>2, <4>3 DEF AskShape
      <4>5. NewsShape'
        BY <2>1, <2>2, <2>4, <4>2, <4>3 DEF NewsShape, In
      <4> QED
        BY <4>4, <4>5
    <3> QED
      BY <2>3, <3>1, <3>2, <3>3 DEF Events
  <2> QED
    BY <2>6, <2>7, <2>9
<1>13. CASE HandleUser
  <2>1. Subscribed
    BY <1>13 DEF HandleUser, StartShape
  <2>2. ask' \in {ask, Compare} /\ UNCHANGED <<est, member, block, stakingQ, phase>>
    BY <1>13 DEF HandleUser
  <2>3. (ask = NoAsk => Compare = NoAsk) /\ \A t \in Tids : Compare[t] = "spawned" => ask[t] = "spawned"
    BY DEF NoAsk, Compare
  <2>4. /\ ask = NoAsk => ask' = NoAsk
        /\ \A t \in Tids : ask'[t] = "spawned" => ask[t] = "spawned"
    BY <2>2, <2>3
  <2> QED
    BY <1>a, <2>1, <2>2, <2>4 DEF Subscribed
<1>14. CASE Manage
  BY <1>14, <1>u DEF Manage
<1>15. ASSUME NEW t \in Tids, CompareDeposit(t) PROVE NShape'
  <2>1. /\ ask[t] # "idle" /\ UNCHANGED <<est, member, block, stakingQ, phase>>
        /\ ask' = [ask EXCEPT ![t] = IF deposit >= state.need THEN "asking" ELSE "waiting"]
    BY <1>15 DEF CompareDeposit
  <2>2. ask # NoAsk
    BY <2>1 DEF NoAsk
  <2>3. \A t2 \in Tids : ask'[t2] = "spawned" => ask[t2] = "spawned"
    BY <2>1 DEF TypeOK
  <2> QED
    BY <1>a, <2>1, <2>2, <2>3 DEF StartShape, Subscribed
<1>16. ASSUME NEW t \in Tids, BecomeRelay(t) PROVE NShape'
  <2>1. /\ ask[t] = "asking" /\ est = "Started" /\ UNCHANGED <<est, block, stakingQ, phase>>
        /\ ask' = [ask EXCEPT ![t] = "idle"]
    BY <1>16 DEF BecomeRelay
  <2>2. ask # NoAsk
    BY <2>1 DEF NoAsk
  <2>3. ~Comes("ElectionStarted", 0)
    BY <2>2 DEF NewsShape
  <2>4. \A t2 \in Tids : ask'[t2] = "spawned" => ask[t2] = "spawned"
    BY <2>1 DEF TypeOK
  <2> QED
    BY <1>a, <2>1, <2>2, <2>3, <2>4 DEF StartShape, Subscribed
<1>17. ASSUME NEW r \in Rounds, CheckParticipation(r) PROVE NShape'
  BY <1>17, <1>u DEF CheckParticipation
<1>18. ASSUME NEW r \in Rounds, GetReward(r) PROVE NShape'
  BY <1>18, <1>u DEF GetReward
<1>19. CASE UNCHANGED vars
  BY <1>19, <1>u DEF vars
<1> QED
  BY <1>1, <1>2, <1>3, <1>4, <1>5, <1>6, <1>7, <1>8, <1>9, <1>10, <1>11, <1>12, <1>13,
     <1>14, <1>15, <1>16, <1>17, <1>18, <1>19 DEF Next, Startup

\* While elections go no faster than the relay handles their events, nobody asks for
\* a seat once the relay has heard that there is no election.
THEOREM StopsCorrect ==
  ASSUME ElectionsAssumption, Quiet, Prompt PROVE Spec => []StopsAtEnd
<1>1. NInv => StopsAtEnd
  BY DEF NInv, NShape, AskShape, StopsAtEnd, Drained, Comes, In
<1> QED
  BY <1>1, NInit, NNext, PTL DEF Spec

-----------------------------------------------------------------------------
(* The flag and the candidacy                                                *)

\* A notice v is in the channel of the user data contract after position k.
UserComes(v, k) == \E i \in k + 1 .. Len(userQ) : userQ[i].event = v

Asked == UserComes("RelayMembershipRequested", 0)

\* The flag follows the contract, but for news that are to be handled.
FlagShape ==
  /\ Asked => member
  /\ phase # "snapshot" =>
       /\ est = "NotStarted" /\ ~Comes("RelayRoundInitialized", 0) => elected = "none"
       /\ Comes("ElectionStarted", 0) => elected = "none"
       /\ est # "NotStarted" /\ ~Comes("ElectionStarted", 0) =>
            elected = Flag(member) \/ (member /\ Asked)

\* Who has not asked in elections that the relay knows of is about to.
CandidateShape ==
  Subscribed /\ est = "Started" /\ ~member /\ ~Ignore /\ ~Comes("ElectionStarted", 0) =>
    \E t \in Tids : ask[t] # "idle"

FInv == NInv /\ FlagShape /\ CandidateShape

LEMMA FInit == ASSUME ElectionsAssumption PROVE Init => FInv
<1> SUFFICES ASSUME Init PROVE FlagShape /\ CandidateShape
  BY NInit DEF FInv
<1>1. phase = "snapshot" /\ Len(userQ) = 0
  BY DEF Init
<1> QED
  BY <1>1 DEF FlagShape, CandidateShape, Asked, UserComes, Subscribed

LEMMA UserAfterAppend ==
  ASSUME userQ \in Seq(UserNotices), NEW e \in UserNotices, userQ' = Append(userQ, e)
  PROVE  /\ \A v : \A k \in 0 .. Len(userQ) : UserComes(v, k)' <=> UserComes(v, k) \/ v = e.event
         /\ \A i \in 1 .. Len(userQ)' :
              \/ i \in 1 .. Len(userQ) /\ userQ'[i] = userQ[i]
              \/ i = Len(userQ)' /\ userQ'[i] = e
<1>1. /\ Len(userQ) \in Nat /\ Len(userQ') = Len(userQ) + 1
      /\ userQ'[Len(userQ) + 1] = e
      /\ \A i \in 1 .. Len(userQ) : userQ'[i] = userQ[i]
  OBVIOUS
<1>2. ASSUME NEW v, NEW k \in 0 .. Len(userQ)
      PROVE  UserComes(v, k)' <=> UserComes(v, k) \/ v = e.event
  <2>1. /\ k + 1 .. Len(userQ') = (k + 1 .. Len(userQ)) \cup {Len(userQ) + 1}
        /\ k + 1 .. Len(userQ) \subseteq 1 .. Len(userQ)
    BY <1>1
  <2> QED
    BY <1>1, <2>1 DEF UserComes
<1>3. 1 .. Len(userQ') = (1 .. Len(userQ)) \cup {Len(userQ) + 1}
  BY <1>1
<1> QED
  BY <1>1, <1>2, <1>3

LEMMA UserAfterHandle ==
  ASSUME TypeOK, HandleUser
  PROVE  /\ \A v : \A k \in Nat : UserComes(v, k)' <=> UserComes(v, k + 1)
         /\ \A v : UserComes(v, 0) <=> UserComes(v, 1) \/ v = Head(userQ).event
         /\ \A i \in 1 .. Len(userQ)' :
              i \in Nat /\ i + 1 \in 1 .. Len(userQ) /\ userQ'[i] = userQ[i + 1]
         /\ 1 \in 1 .. Len(userQ) /\ Head(userQ) = userQ[1] /\ Head(userQ) \in UserNotices
<1>1. userQ # <<>> /\ userQ' = Tail(userQ)
  BY DEF HandleUser
<1>2. userQ \in Seq(UserNotices)
  BY DEF TypeOK, UserNotices
<1>3. /\ Len(userQ) \in Nat /\ Len(userQ) > 0 /\ Len(Tail(userQ)) = Len(userQ) - 1
      /\ Head(userQ) = userQ[1] /\ Head(userQ) \in UserNotices
      /\ \A i \in 1 .. Len(userQ) - 1 : Tail(userQ)[i] = userQ[i + 1]
  BY <1>1, <1>2
<1>4. ASSUME NEW v, NEW k \in Nat PROVE UserComes(v, k)' <=> UserComes(v, k + 1)
  <2>1. ASSUME NEW i \in k + 1 .. Len(Tail(userQ)), Tail(userQ)[i].event = v
        PROVE  i + 1 \in (k + 1) + 1 .. Len(userQ) /\ userQ[i + 1].event = v
    BY <1>3, <2>1
  <2>2. ASSUME NEW i \in (k + 1) + 1 .. Len(userQ), userQ[i].event = v
        PROVE  i - 1 \in k + 1 .. Len(Tail(userQ)) /\ Tail(userQ)[i - 1].event = v
    <3>1. i - 1 \in 1 .. Len(userQ) - 1 /\ (i - 1) + 1 = i
      BY <1>3
    <3>2. Tail(userQ)[i - 1] = userQ[i]
      BY <1>3, <3>1
    <3>3. i - 1 \in k + 1 .. Len(Tail(userQ))
      BY <1>3
    <3> QED
      BY <2>2, <3>2, <3>3
  <2> QED
    BY <1>1, <2>1, <2>2 DEF UserComes
<1>5. ASSUME NEW v PROVE UserComes(v, 0) <=> UserComes(v, 1) \/ v = Head(userQ).event
  <2>1. 0 + 1 .. Len(userQ) = (1 + 1 .. Len(userQ)) \cup {1}
    BY <1>3
  <2> QED
    BY <1>3, <2>1 DEF UserComes
<1>6. \A i \in 1 .. Len(Tail(userQ)) :
        i \in Nat /\ i + 1 \in 1 .. Len(userQ) /\ Tail(userQ)[i] = userQ[i + 1]
  BY <1>3
<1> QED
  BY <1>1, <1>3, <1>4, <1>5, <1>6

\* Elections that start, end and seat relays leave the flag right.
LEMMA FEmit ==
  ASSUME FInv, NEW v \in Events, Emit(v), ask' = ask,
         v = "ElectionStarted" =>
           est' = "Started" /\ member' = member /\ est = "NotStarted" /\ ~Comes("RelayRoundInitialized", 0),
         v = "ElectionEnded" =>
           est' = "Finished" /\ member' = member /\ est = "Started" /\ ~Comes("ElectionStarted", 0),
         v = "RelayRoundInitialized" => est' = "NotStarted" /\ est = "Finished" /\ userQ = <<>>,
         v = "RelayConfigUpdated" => est' = est /\ member' = member
  PROVE  FlagShape' /\ CandidateShape'
<1> USE DEF FInv, NInv, NShape
<1>1. /\ userQ' = userQ /\ phase' = phase /\ elected' = elected /\ block \in Seq(Events)
  BY DEF Emit, startVars, flagVars, TypeOK
<1>2. \A e : Comes(e, 0)' <=> Comes(e, 0) \/ e = v
  BY <1>1, ComesAfterEmit
<1>3. v \in {"ElectionStarted", "ElectionEnded", "RelayRoundInitialized", "RelayConfigUpdated"}
  BY DEF Events
<1>4. Asked' <=> Asked
  BY <1>1 DEF Asked, UserComes
<1>5. userQ = <<>> => ~Asked
  BY DEF Asked, UserComes
<1>6. FlagShape'
  <2>1. CASE v = "ElectionStarted"
    BY <1>1, <1>2, <1>4, <2>1 DEF FlagShape
  <2>2. CASE v = "ElectionEnded"
    BY <1>1, <1>2, <1>4, <2>2 DEF FlagShape
  <2>3. CASE v = "RelayRoundInitialized"
    BY <1>1, <1>2, <1>4, <1>5, <2>3 DEF FlagShape, NewsShape
  <2>4. CASE v = "RelayConfigUpdated"
    BY <1>1, <1>2, <1>4, <2>4 DEF FlagShape
  <2> QED
    BY <1>3, <2>1, <2>2, <2>3, <2>4
<1>7. CandidateShape'
  BY <1>1, <1>2, <1>3 DEF CandidateShape, Subscribed
<1> QED
  BY <1>6, <1>7

LEMMA FNext == ASSUME ElectionsAssumption, Quiet, Prompt PROVE FInv /\ [Next]_vars => FInv'
<1> SUFFICES ASSUME FInv, [Next]_vars PROVE FlagShape' /\ CandidateShape'
  BY NNext DEF FInv
<1> USE DEF FInv, NInv, NShape, contractVars, copyVars, flagVars, startVars
<1>b. ~Behind => \A v \in Events \ {"RelayConfigUpdated"} : Comes(v, 0) => In(v)
  BY DEF Behind, Comes
<1>u. ASSUME UNCHANGED <<est, member, block, stakingQ, elected>>,
             phase' = phase \/ (Subscribed /\ Subscribed'),
             Asked' <=> Asked,
             \A t \in Tids : ask[t] # "idle" => ask'[t] # "idle"
      PROVE  FlagShape' /\ CandidateShape'
  <2>1. \A e : Comes(e, 0)' <=> Comes(e, 0)
    BY <1>u DEF Comes, In
  <2>2. (phase' # "snapshot" => phase # "snapshot") /\ (Subscribed' => Subscribed)
    BY <1>u DEF Subscribed
  <2> QED
    BY <1>u, <2>1, <2>2 DEF FlagShape, CandidateShape
<1>c. \A t \in Tids : ask[t] # "idle" => Compare[t] # "idle"
  BY DEF Compare
<1>1. CASE StartElection
  <2>1. /\ est = "NotStarted" /\ ~In("RelayRoundInitialized") /\ ~Behind
        /\ Emit("ElectionStarted") /\ est' = "Started" /\ member' = member /\ ask' = ask
    BY <1>1 DEF StartElection, Emit
  <2>2. ~Comes("RelayRoundInitialized", 0)
    BY <1>b, <2>1 DEF Events
  <2> QED
    BY <2>1, <2>2, FEmit DEF Events
<1>2. CASE EndElection
  <2>1. /\ est = "Started" /\ ~In("ElectionStarted") /\ ~Behind
        /\ Emit("ElectionEnded") /\ est' = "Finished" /\ member' = member /\ ask' = ask
    BY <1>2 DEF EndElection, Emit
  <2>2. ~Comes("ElectionStarted", 0)
    BY <1>b, <2>1 DEF Events
  <2> QED
    BY <2>1, <2>2, FEmit DEF Events
<1>3. CASE InitializeRound
  BY <1>3, FEmit DEF InitializeRound, Emit, Events
<1>4. ASSUME NEW a \in Amounts, UpdateConfig(a) PROVE FlagShape' /\ CandidateShape'
  BY <1>4, FEmit DEF UpdateConfig, Emit, Events
<1>5. ASSUME NEW a \in Amounts, Deposit(a) PROVE FlagShape' /\ CandidateShape'
  <2> DEFINE e == [event |-> "DepositProcessed", balance |-> a]
  <2>1. userQ \in Seq(UserNotices) /\ e \in UserNotices
    BY DEF TypeOK, UserNotices
  <2>2. userQ' = userQ \/ userQ' = Append(userQ, e)
    BY <1>5 DEF Deposit, ToUser
  <2>3. Asked' <=> Asked
    <3>1. CASE userQ' = userQ
      BY <3>1 DEF Asked, UserComes
    <3>2. CASE userQ' = Append(userQ, e)
      <4>1. e.event # "RelayMembershipRequested" /\ 0 \in 0 .. Len(userQ)
        BY <2>1
      <4> HIDE DEF e
      <4> QED
        BY <2>1, <3>2, <4>1, UserAfterAppend DEF Asked
    <3> QED
      BY <2>2, <3>1, <3>2
  <2> QED
    BY <1>5, <1>u, <2>3 DEF Deposit
<1>6. CASE Publish
  <2>1. UNCHANGED <<est, member, phase, userQ, ask, elected>> /\ block # <<>> /\ block' = <<>>
    BY <1>6 DEF Publish
  <2>2. CASE ~Subscribed
    <3>1. phase = "snapshot"
      BY <2>1, <2>2 DEF StartShape, TypeOK, Phases, Subscribed
    <3> QED
      BY <2>1, <3>1 DEF FlagShape, CandidateShape, Asked, UserComes, Subscribed
  <2>3. CASE Subscribed
    <3>1. 0 \in 0 .. Len(stakingQ)
      BY DEF TypeOK
    <3>2. \A e : Comes(e, 0)' <=> Comes(e, 0)
      BY <1>6, <2>3, <3>1, ComesAfterPublish
    <3> QED
      BY <2>1, <3>2 DEF FlagShape, CandidateShape, Asked, UserComes, Subscribed
  <2> QED
    BY <2>2, <2>3
<1>7. CASE ReadState
  <2>1. /\ phase = "snapshot" /\ block = <<>> /\ phase' = "subscribe"
        /\ elected' = IF est = "NotStarted" THEN "none" ELSE Flag(member)
        /\ UNCHANGED <<est, member, block, stakingQ, userQ>>
    BY <1>7 DEF ReadState
  <2>2. stakingQ = <<>>
    BY <2>1 DEF StartShape, Subscribed
  <2>3. ~Comes("ElectionStarted", 0)'
    BY <2>1, <2>2 DEF Comes, In
  <2> QED
    BY <2>1, <2>3 DEF FlagShape, CandidateShape, Asked, UserComes, Subscribed
<1>8. CASE Subscribe
  <2>1. /\ phase = "subscribe" /\ phase' = "voting"
        /\ UNCHANGED <<est, member, block, stakingQ, userQ, elected>>
        /\ ask' = [ask EXCEPT ![Inline] = IF ShouldVote THEN "check" ELSE "idle"]
    BY <1>8 DEF Subscribe
  <2>2. stakingQ = <<>> /\ userQ = <<>> /\ block = <<>> /\ state.est = est
    BY <2>1 DEF StartShape, Subscribed, RoundState
  <2>3. ~Asked /\ \A e : ~Comes(e, 0) /\ ~Comes(e, 0)'
    BY <2>1, <2>2 DEF Comes, In, Asked, UserComes
  <2>4. FlagShape'
    BY <2>1, <2>3 DEF FlagShape, Asked, UserComes
  <2>5. ASSUME est = "Started", ~member, ~Ignore PROVE \E t \in Tids : ask'[t] # "idle"
    <3>1. elected = "false" /\ ShouldVote
      BY <2>1, <2>2, <2>3, <2>5 DEF FlagShape, Flag, ShouldVote
    <3>2. Inline \in Tids /\ ask'[Inline] = "check"
      BY <2>1, <3>1 DEF Tids, TypeOK
    <3> QED
      BY <3>2
  <2> QED
    BY <2>1, <2>4, <2>5 DEF CandidateShape
<1>9. CASE StartManaging
  BY <1>9, <1>u DEF StartManaging, Subscribed, Asked, UserComes
<1>10. CASE CollectRewards
  BY <1>10, <1>u DEF CollectRewards, Subscribed, Asked, UserComes
<1>11. CASE Restart
  <2>1. phase' = "snapshot" /\ Len(userQ') = 0
    BY <1>11 DEF Restart
  <2> QED
    BY <2>1 DEF FlagShape, CandidateShape, Asked, UserComes, Subscribed
<1>12. CASE HandleStaking
  <2> DEFINE n == Head(stakingQ)
  <2>1. /\ UNCHANGED <<est, member, block, phase, userQ>> /\ ask' = AskAfter(n) /\ stakingQ # <<>>
        /\ elected' = ElectedAfter(n)
        /\ n = stakingQ[1] /\ n \in Notices /\ 1 \in 1 .. Len(stakingQ)
    BY <1>12, ComesAfterHandle DEF HandleStaking
  <2>2. /\ \A e : Comes(e, 0) <=> Comes(e, 1) \/ e = n.event
        /\ \A e : \A k \in Nat : Comes(e, k)' <=> Comes(e, k + 1)
    BY <1>12, ComesAfterHandle
  <2>3. NoticeShape(n, 1) /\ n.event \in Events /\ n.state.round \in Tids
    BY <2>1 DEF NoticesShape, Notices, RoundStates, Tids
  <2> HIDE DEF n
  <2>4. \A e : Comes(e, 0)' <=> Comes(e, 1)
    <3>1. 0 \in Nat /\ 0 + 1 = 1
      OBVIOUS
    <3> QED
      BY <2>2, <3>1
  <2>5. Subscribed /\ phase # "snapshot" /\ (Asked' <=> Asked)
    BY <2>1 DEF StartShape, Subscribed, Asked, UserComes
  <2>6. FlagShape'
    <3>1. CASE n.event = "ElectionStarted"
      <4>1. /\ est = "Started" /\ ~member /\ elected = "none" /\ n.state.est = "Started"
            /\ ~Comes("ElectionStarted", 1)
        BY <2>2, <2>3, <2>5, <3>1 DEF NoticeShape, NewsShape, FlagShape
      <4>2. elected' = "false"
        BY <2>1, <3>1, <4>1 DEF ElectedAfter, StoreIfEmpty, Flag
      <4> QED
        BY <2>1, <2>4, <2>5, <4>1, <4>2 DEF FlagShape, Flag
    <3>2. CASE n.event # "ElectionStarted"
      <4>1. elected' = IF n.state.est = "NotStarted" THEN "none" ELSE elected
        BY <2>1, <3>2 DEF ElectedAfter
      <4>2. Comes("ElectionStarted", 0)' <=> Comes("ElectionStarted", 0)
        BY <2>2, <2>4, <3>2
      <4>3. ASSUME est = "NotStarted", ~Comes("RelayRoundInitialized", 0)' PROVE elected' = "none"
        <5>1. CASE n.event = "RelayRoundInitialized"
          BY <2>3, <4>1, <5>1 DEF NoticeShape
        <5>2. CASE n.event # "RelayRoundInitialized"
          BY <2>2, <2>4, <2>5, <4>1, <4>3, <5>2 DEF FlagShape
        <5> QED
          BY <5>1, <5>2
      <4>4. ASSUME est # "NotStarted", ~Comes("ElectionStarted", 0) PROVE elected' = elected
        BY <2>2, <2>3, <4>1, <4>4 DEF NoticeShape
      <4> QED
        BY <2>1, <2>5, <4>1, <4>2, <4>3, <4>4 DEF FlagShape
    <3> QED
      BY <3>1, <3>2
  <2>7. CandidateShape'
    <3>1. SUFFICES ASSUME est = "Started", ~member, ~Ignore, ~Comes("ElectionStarted", 0)'
                   PROVE  \E t \in Tids : ask'[t] # "idle"
      BY <2>1 DEF CandidateShape
    <3>2. CASE n.event = "ElectionStarted"
      <4>1. ask'[n.state.round] = "spawned"
        BY <2>1, <2>3, <3>1, <3>2 DEF AskAfter, TypeOK
      <4> QED
        BY <2>3, <4>1
    <3>3. CASE n.event # "ElectionStarted"
      <4>1. n.event # "ElectionEnded"
        BY <2>2, <3>1 DEF NewsShape
      <4>2. ask' \in {ask, Compare}
        BY <2>1, <2>3, <3>3, <4>1 DEF AskAfter, Events
      <4>3. \E t \in Tids : ask[t] # "idle"
        BY <2>2, <2>4, <2>5, <3>1, <3>3 DEF CandidateShape
      <4> QED
        BY <1>c, <4>2, <4>3
    <3> QED
      BY <3>2, <3>3
  <2> QED
    BY <2>6, <2>7
<1>13. CASE HandleUser
  <2> DEFINE n == Head(userQ)
  <2>1. /\ userQ # <<>> /\ UNCHANGED <<est, member, block, stakingQ, phase>>
        /\ \/ n.event = "RelayMembershipRequested" /\ elected' = "true" /\ ask' = ask
           \/ n.event = "DepositProcessed" /\ elected' = elected /\ ask' = Compare
    BY <1>13 DEF HandleUser
  <2>2. Subscribed /\ Subscribed' /\ phase # "snapshot"
    BY <2>1 DEF StartShape, Subscribed
  <2>3. /\ Asked <=> UserComes("RelayMembershipRequested", 1) \/ n.event = "RelayMembershipRequested"
        /\ Asked' <=> UserComes("RelayMembershipRequested", 1)
    <3>1. 0 \in Nat /\ 0 + 1 = 1
      OBVIOUS
    <3> QED
      BY <1>13, <3>1, UserAfterHandle DEF Asked
  <2> HIDE DEF n
  <2>4. \A e : Comes(e, 0)' <=> Comes(e, 0)
    BY <2>1 DEF Comes, In
  <2>5. CASE n.event = "DepositProcessed"
    <3>1. (Asked' <=> Asked) /\ elected' = elected /\ ask' = Compare
      BY <2>1, <2>3, <2>5
    <3> QED
      BY <1>c, <1>u, <2>1, <3>1
  <2>6. CASE n.event = "RelayMembershipRequested"
    <3>1. elected' = "true" /\ ask' = ask /\ member /\ Asked
      BY <2>1, <2>3, <2>6 DEF FlagShape
    <3>2. est # "NotStarted" /\ ~Comes("ElectionStarted", 0)
      BY <3>1 DEF NewsShape
    <3>3. FlagShape'
      BY <2>1, <2>3, <2>4, <3>1, <3>2 DEF FlagShape, Flag
    <3>4. CandidateShape'
      BY <2>1, <3>1 DEF CandidateShape
    <3> QED
      BY <3>3, <3>4
  <2> QED
    BY <2>1, <2>5, <2>6
<1>14. CASE Manage
  BY <1>14, <1>u DEF Manage, Asked, UserComes
<1>15. ASSUME NEW t \in Tids, CompareDeposit(t) PROVE FlagShape' /\ CandidateShape'
  <2>1. \A t2 \in Tids : ask[t2] # "idle" => ask'[t2] # "idle"
    BY <1>15 DEF CompareDeposit, TypeOK
  <2> QED
    BY <1>15, <1>u, <2>1 DEF CompareDeposit, Asked, UserComes
<1>16. ASSUME NEW t \in Tids, BecomeRelay(t) PROVE FlagShape' /\ CandidateShape'
  <2> DEFINE e == [event |-> "RelayMembershipRequested", balance |-> balance]
  <2>1. /\ ask[t] = "asking" /\ est = "Started" /\ member' = TRUE
        /\ UNCHANGED <<est, block, stakingQ, phase, elected>>
        /\ userQ' = IF Subscribed THEN Append(userQ, e) ELSE userQ
    BY <1>16 DEF BecomeRelay, ToUser
  <2>2. ask # NoAsk
    BY <2>1 DEF NoAsk
  <2>3. ~Comes("ElectionStarted", 0) /\ Subscribed
    BY <2>2 DEF NewsShape, StartShape
  <2>4. userQ \in Seq(UserNotices) /\ e \in UserNotices /\ 0 \in 0 .. Len(userQ)
    BY DEF TypeOK, UserNotices
  <2>5. userQ' = Append(userQ, e) /\ e.event = "RelayMembershipRequested"
    BY <2>1, <2>3
  <2> HIDE DEF e
  <2>6. Asked'
    BY <2>4, <2>5, UserAfterAppend DEF Asked
  <2>7. \A v : Comes(v, 0)' <=> Comes(v, 0)
    BY <2>1 DEF Comes, In
  <2> QED
    BY <2>1, <2>3, <2>6, <2>7 DEF FlagShape, CandidateShape
<1>17. ASSUME NEW r \in Rounds, CheckParticipation(r) PROVE FlagShape' /\ CandidateShape'
  BY <1>17, <1>u DEF CheckParticipation, Asked, UserComes
<1>18. ASSUME NEW r \in Rounds, GetReward(r) PROVE FlagShape' /\ CandidateShape'
  BY <1>18, <1>u DEF GetReward, Asked, UserComes
<1>19. CASE UNCHANGED vars
  BY <1>19, <1>u DEF vars, Asked, UserComes
<1> QED
  BY <1>1, <1>2, <1>3, <1>4, <1>5, <1>6, <1>7, <1>8, <1>9, <1>10, <1>11, <1>12, <1>13,
     <1>14, <1>15, <1>16, <1>17, <1>18, <1>19 DEF Next, Startup

\* While elections go no faster than the relay handles their events, its flag says
\* whether it has asked for a seat whenever it has handled all that happened, also
\* when it was started in the midst of elections.
THEOREM ElectedCorrect ==
  ASSUME ElectionsAssumption, Quiet, Prompt PROVE Spec => []ElectedIsTrue
<1>1. FInv => ElectedIsTrue
  <2> SUFFICES ASSUME FInv, Drained PROVE elected = IF est = "NotStarted" THEN "none" ELSE Flag(member)
    BY DEF ElectedIsTrue
  <2>1. phase # "snapshot" /\ ~Asked /\ \A e : ~Comes(e, 0)
    BY DEF Drained, Subscribed, Comes, In, Asked, UserComes
  <2> QED
    BY <2>1 DEF FInv, FlagShape
<1> QED
  BY <1>1, FInit, FNext, PTL DEF Spec

-----------------------------------------------------------------------------
(* The tokens that a seat needs                                              *)

\* A need x read at position k of the channel is the need, or news of it come.
NeedKnown(x, k) == x = need \/ Comes("RelayConfigUpdated", k)

\* So it is with a balance x.
BalanceKnown(x, k) == x = balance \/ UserComes("DepositProcessed", k)

NeedShape ==
  /\ phase # "snapshot" => NeedKnown(state.need, 0)
  /\ \A i \in 1 .. Len(stakingQ) : NeedKnown(stakingQ[i].state.need, i)

BalanceShape ==
  /\ phase # "snapshot" => BalanceKnown(deposit, 0)
  /\ \A i \in 1 .. Len(userQ) :
       userQ[i].event = "DepositProcessed" => BalanceKnown(userQ[i].balance, i)

\* Who waits for tokens misses some by the relay's copy, or will look again.
WaitShape ==
  \A t \in Tids : ask[t] = "waiting" => deposit < state.need \/ Comes("RelayConfigUpdated", 0)

TInv == NInv /\ NeedShape /\ BalanceShape /\ WaitShape

LEMMA TInit == ASSUME ElectionsAssumption PROVE Init => TInv
<1> SUFFICES ASSUME Init PROVE NeedShape /\ BalanceShape /\ WaitShape
  BY NInit DEF TInv
<1>1. phase = "snapshot" /\ Len(stakingQ) = 0 /\ Len(userQ) = 0 /\ ask = NoAsk
  BY DEF Init
<1> QED
  BY <1>1 DEF NeedShape, BalanceShape, WaitShape, NoAsk

LEMMA TNext == ASSUME ElectionsAssumption, Quiet, Prompt PROVE TInv /\ [Next]_vars => TInv'
<1> SUFFICES ASSUME TInv, [Next]_vars PROVE NeedShape' /\ BalanceShape' /\ WaitShape'
  BY NNext DEF TInv
<1> USE DEF TInv, NInv, NShape, contractVars, copyVars, flagVars, startVars
<1>u. ASSUME UNCHANGED <<need, block, stakingQ, state, balance, userQ, deposit>>,
             phase' = phase \/ phase # "snapshot",
             \A t \in Tids : ask'[t] = "waiting" => ask[t] = "waiting" \/ deposit < state.need
      PROVE  NeedShape' /\ BalanceShape' /\ WaitShape'
  BY <1>u DEF NeedShape, BalanceShape, WaitShape, NeedKnown, BalanceKnown, Comes, In, UserComes
<1>e. ASSUME NEW v \in Events, Emit(v), need' = need \/ v = "RelayConfigUpdated"
      PROVE  NeedShape' /\ BalanceShape' /\ WaitShape'
  <2>1. /\ UNCHANGED <<stakingQ, userQ, phase, state, balance, deposit, ask>>
        /\ block \in Seq(Events)
    BY <1>e DEF Emit, TypeOK
  <2>2. \A e, k : Comes(e, k)' <=> Comes(e, k) \/ e = v
    BY <1>e, <2>1, ComesAfterEmit
  <2>3. NeedShape'
    BY <1>e, <2>1, <2>2 DEF NeedShape, NeedKnown
  <2>4. BalanceShape'
    BY <2>1 DEF BalanceShape, BalanceKnown, UserComes
  <2>5. WaitShape'
    BY <2>1, <2>2 DEF WaitShape
  <2> QED
    BY <2>3, <2>4, <2>5
\* The channel of the user data contract takes a notice of the balance after it.
<1>d. ASSUME NEW e \in UserNotices, userQ' = Append(userQ, e),
             UNCHANGED <<phase, deposit>>,
             e.event = "DepositProcessed" => e.balance = balance',
             e.event # "DepositProcessed" => balance' = balance
      PROVE  BalanceShape'
  <2>1. userQ \in Seq(UserNotices) /\ Len(userQ) \in Nat /\ 0 \in 0 .. Len(userQ)
    BY DEF TypeOK, UserNotices
  <2>2. /\ \A v : \A k \in 0 .. Len(userQ) : UserComes(v, k)' <=> UserComes(v, k) \/ v = e.event
        /\ \A i \in 1 .. Len(userQ)' :
             \/ i \in 1 .. Len(userQ) /\ userQ'[i] = userQ[i]
             \/ i = Len(userQ)' /\ userQ'[i] = e
    BY <1>d, <2>1, UserAfterAppend
  <2>3. \A k \in 0 .. Len(userQ) : \A x : BalanceKnown(x, k) => BalanceKnown(x, k)'
    BY <1>d, <2>2 DEF BalanceKnown
  <2>4. ASSUME NEW i \in 1 .. Len(userQ)', userQ'[i].event = "DepositProcessed"
        PROVE  BalanceKnown(userQ[i].balance, i)'
    <3>1. CASE i \in 1 .. Len(userQ) /\ userQ'[i] = userQ[i]
      <4>1. i \in 0 .. Len(userQ)
        BY <2>1, <3>1
      <4> QED
        BY <2>3, <2>4, <3>1, <4>1 DEF BalanceShape
    <3>2. CASE userQ'[i] = e
      BY <1>d, <2>4, <3>2 DEF BalanceKnown
    <3> QED
      BY <2>2, <3>1, <3>2
  <2>5. phase' # "snapshot" => BalanceKnown(deposit, 0)'
    BY <1>d, <2>1, <2>3 DEF BalanceShape
  <2> QED
    BY <2>4, <2>5 DEF BalanceShape
<1>1. CASE StartElection
  BY <1>1, <1>e DEF StartElection, Events
<1>2. CASE EndElection
  BY <1>2, <1>e DEF EndElection, Events
<1>3. CASE InitializeRound
  BY <1>3, <1>e DEF InitializeRound, Events
<1>4. ASSUME NEW a \in Amounts, UpdateConfig(a) PROVE NeedShape' /\ BalanceShape' /\ WaitShape'
  BY <1>4, <1>e DEF UpdateConfig, Events
<1>5. ASSUME NEW a \in Amounts, Deposit(a) PROVE NeedShape' /\ BalanceShape' /\ WaitShape'
  <2> DEFINE e == [event |-> "DepositProcessed", balance |-> a]
  <2>1. /\ UNCHANGED <<need, block, stakingQ, state, deposit, phase, ask>> /\ balance' = a
        /\ phase # "subscribe" /\ e \in UserNotices /\ userQ' = IF Subscribed THEN Append(userQ, e) ELSE userQ
    BY <1>5 DEF Deposit, ToUser, Undisturbed, UserNotices
  <2>2. NeedShape' /\ WaitShape'
    BY <2>1 DEF NeedShape, WaitShape, NeedKnown, Comes, In
  <2>3. BalanceShape'
    <3>1. CASE Subscribed
      <4>1. userQ' = Append(userQ, e) /\ e.event = "DepositProcessed" /\ e.balance = balance'
        BY <2>1, <3>1
      <4> HIDE DEF e
      <4> QED
        BY <1>d, <2>1, <4>1
    <3>2. CASE ~Subscribed
      <4>1. userQ' = <<>> /\ phase' = "snapshot" /\ Len(userQ') = 0
        BY <2>1, <3>2 DEF StartShape, Subscribed, TypeOK, Phases
      <4> QED
        BY <4>1 DEF BalanceShape
    <3> QED
      BY <3>1, <3>2
  <2> QED
    BY <2>2, <2>3
<1>6. CASE Publish
  <2>1. UNCHANGED <<need, state, balance, userQ, deposit, phase, ask>> /\ block # <<>> /\ block' = <<>>
    BY <1>6 DEF Publish
  <2>2. BalanceShape'
    BY <2>1 DEF BalanceShape, BalanceKnown, UserComes
  <2>3. CASE ~Subscribed
    <3>1. phase = "snapshot" /\ stakingQ' = <<>> /\ Len(stakingQ') = 0 /\ ask = NoAsk
      BY <1>6, <2>1, <2>3 DEF Publish, StartShape, TypeOK, Phases, Subscribed
    <3>2. NeedShape' /\ WaitShape'
      BY <2>1, <3>1 DEF NeedShape, WaitShape, NoAsk
    <3> QED
      BY <2>2, <3>2
  <2>4. CASE Subscribed
    <3>1. /\ \A e : \A k \in 0 .. Len(stakingQ) : Comes(e, k)' <=> Comes(e, k)
          /\ \A i \in 1 .. Len(stakingQ)' :
               \/ i \in 1 .. Len(stakingQ) /\ stakingQ'[i] = stakingQ[i]
               \/ stakingQ'[i].state = RoundState
      BY <1>6, <2>4, ComesAfterPublish
    <3>2. Len(stakingQ) \in Nat /\ 0 \in 0 .. Len(stakingQ)
      BY DEF TypeOK
    <3>3. ASSUME NEW i \in 1 .. Len(stakingQ)' PROVE NeedKnown(stakingQ[i].state.need, i)'
      <4>1. CASE i \in 1 .. Len(stakingQ) /\ stakingQ'[i] = stakingQ[i]
        <5>1. i \in 0 .. Len(stakingQ)
          BY <3>2, <4>1
        <5> QED
          BY <2>1, <3>1, <4>1, <5>1 DEF NeedShape, NeedKnown
      <4>2. CASE stakingQ'[i].state = RoundState
        BY <2>1, <4>2 DEF NeedKnown, RoundState
      <4> QED
        BY <3>1, <4>1, <4>2
    <3>4. NeedShape'
      BY <2>1, <3>1, <3>2, <3>3 DEF NeedShape, NeedKnown
    <3>5. WaitShape'
      BY <2>1, <3>1, <3>2 DEF WaitShape
    <3> QED
      BY <2>2, <3>4, <3>5
  <2> QED
    BY <2>3, <2>4
<1>7. CASE ReadState
  <2>1. /\ phase = "snapshot" /\ state' = RoundState /\ deposit' = balance
        /\ UNCHANGED <<need, block, stakingQ, balance, userQ, ask>>
    BY <1>7 DEF ReadState
  <2>2. stakingQ = <<>> /\ userQ = <<>> /\ Len(stakingQ) = 0 /\ Len(userQ) = 0 /\ ask = NoAsk
    BY <2>1 DEF StartShape, Subscribed
  <2> QED
    BY <2>1, <2>2 DEF NeedShape, BalanceShape, WaitShape, NeedKnown, BalanceKnown, RoundState, NoAsk
<1>8. CASE Subscribe
  <2>1. \A t \in Tids : ask'[t] = "waiting" => ask[t] = "waiting"
    BY <1>8 DEF Subscribe, TypeOK
  <2> QED
    BY <1>8, <1>u, <2>1 DEF Subscribe
<1>9. CASE StartManaging
  BY <1>9, <1>u DEF StartManaging
<1>10. CASE CollectRewards
  BY <1>10, <1>u DEF CollectRewards
<1>11. CASE Restart
  <2>1. phase' = "snapshot" /\ Len(stakingQ') = 0 /\ Len(userQ') = 0 /\ ask' = NoAsk
    BY <1>11 DEF Restart
  <2> QED
    BY <2>1 DEF NeedShape, BalanceShape, WaitShape, NoAsk
<1>12. CASE HandleStaking
  <2> DEFINE n == Head(stakingQ)
  <2>1. /\ UNCHANGED <<need, balance, block, phase, userQ, deposit>> /\ ask' = AskAfter(n)
        /\ state' = n.state /\ stakingQ # <<>>
        /\ n = stakingQ[1] /\ n \in Notices /\ 1 \in 1 .. Len(stakingQ)
    BY <1>12, ComesAfterHandle DEF HandleStaking
  <2>2. /\ \A e : Comes(e, 0) <=> Comes(e, 1) \/ e = n.event
        /\ \A e : \A k \in Nat : Comes(e, k)' <=> Comes(e, k + 1)
        /\ \A i \in 1 .. Len(stakingQ)' :
              i \in Nat /\ i + 1 \in 1 .. Len(stakingQ) /\ stakingQ'[i] = stakingQ[i + 1]
    BY <1>12, ComesAfterHandle
  <2>3. NeedKnown(n.state.need, 1) /\ n.event \in Events /\ n.state.round \in Tids /\ phase # "snapshot"
    BY <2>1 DEF NeedShape, Notices, RoundStates, Tids, StartShape, Subscribed
  <2> HIDE DEF n
  <2>4. \A e : Comes(e, 0)' <=> Comes(e, 1)
    <3>1. 0 \in Nat /\ 0 + 1 = 1
      OBVIOUS
    <3> QED
      BY <2>2, <3>1
  <2>5. NeedShape'
    <3>1. ASSUME NEW i \in 1 .. Len(stakingQ)' PROVE NeedKnown(stakingQ[i].state.need, i)'
      <4>1. NeedKnown(stakingQ[i + 1].state.need, i + 1)
        BY <2>2 DEF NeedShape
      <4> QED
        BY <2>1, <2>2, <4>1 DEF NeedKnown
    <3>2. NeedKnown(state.need, 0)'
      BY <2>1, <2>3, <2>4 DEF NeedKnown
    <3> QED
      BY <3>1, <3>2 DEF NeedShape
  <2>6. BalanceShape'
    BY <2>1 DEF BalanceShape, BalanceKnown, UserComes
  <2>7. ASSUME NEW t \in Tids, ask'[t] = "waiting"
        PROVE  deposit' < state'.need \/ Comes("RelayConfigUpdated", 0)'
    <3>1. n.event # "RelayConfigUpdated" /\ ask[t] = "waiting"
      <4>1. Compare[t] # "waiting" /\ (Stop[t] = "waiting" => ask[t] = "waiting")
        BY DEF Compare, Stop
      <4>2. [ask EXCEPT ![n.state.round] = "spawned"][t] = "waiting" => ask[t] = "waiting"
        BY DEF TypeOK
      <4>3. AskAfter(n) \in {ask, [ask EXCEPT ![n.state.round] = "spawned"], Stop, Compare}
        BY <2>3 DEF AskAfter, Events
      <4>4. n.event = "RelayConfigUpdated" => AskAfter(n) = Compare
        BY DEF AskAfter
      <4> QED
        BY <2>1, <2>7, <4>1, <4>2, <4>3, <4>4
    <3>2. CASE Comes("RelayConfigUpdated", 1)
      BY <2>4, <3>2
    <3>3. CASE ~Comes("RelayConfigUpdated", 1)
      <4>1. ~Comes("RelayConfigUpdated", 0)
        BY <2>2, <3>1, <3>3
      <4>2. state.need = need /\ n.state.need = need /\ deposit < state.need
        BY <2>3, <3>1, <3>3, <4>1 DEF NeedShape, NeedKnown, WaitShape
      <4> QED
        BY <2>1, <4>2
    <3> QED
      BY <3>2, <3>3
  <2>8. WaitShape'
    BY <2>7 DEF WaitShape
  <2> QED
    BY <2>5, <2>6, <2>8
<1>13. CASE HandleUser
  <2> DEFINE n == Head(userQ)
  <2>1. /\ userQ # <<>> /\ UNCHANGED <<need, balance, block, stakingQ, state, phase>>
        /\ \/ n.event = "RelayMembershipRequested" /\ deposit' = deposit /\ ask' = ask
           \/ n.event = "DepositProcessed" /\ deposit' = n.balance /\ ask' = Compare
    BY <1>13 DEF HandleUser
  <2>2. /\ \A v : UserComes(v, 0) <=> UserComes(v, 1) \/ v = n.event
        /\ \A v : \A k \in Nat : UserComes(v, k)' <=> UserComes(v, k + 1)
        /\ \A i \in 1 .. Len(userQ)' :
              i \in Nat /\ i + 1 \in 1 .. Len(userQ) /\ userQ'[i] = userQ[i + 1]
        /\ n = userQ[1] /\ 1 \in 1 .. Len(userQ) /\ phase # "snapshot"
    <3>1. phase # "snapshot"
      BY <2>1 DEF StartShape, Subscribed
    <3> QED
      BY <1>13, <3>1, UserAfterHandle
  <2>3. n.event = "DepositProcessed" => BalanceKnown(n.balance, 1)
    BY <2>2 DEF BalanceShape
  <2> HIDE DEF n
  <2>4. \A v : UserComes(v, 0)' <=> UserComes(v, 1)
    <3>1. 0 \in Nat /\ 0 + 1 = 1
      OBVIOUS
    <3> QED
      BY <2>2, <3>1
  <2>5. NeedShape'
    BY <2>1 DEF NeedShape, NeedKnown, Comes, In
  <2>6. BalanceShape'
    <3>1. ASSUME NEW i \in 1 .. Len(userQ)', userQ'[i].event = "DepositProcessed"
          PROVE  BalanceKnown(userQ[i].balance, i)'
      <4>1. BalanceKnown(userQ[i + 1].balance, i + 1)
        BY <2>2, <3>1 DEF BalanceShape
      <4> QED
        BY <2>1, <2>2, <4>1 DEF BalanceKnown
    <3>2. BalanceKnown(deposit, 0)'
      BY <2>1, <2>2, <2>3, <2>4 DEF BalanceShape, BalanceKnown
    <3> QED
      BY <3>1, <3>2 DEF BalanceShape
  <2>7. WaitShape'
    <3>1. \A t \in Tids : Compare[t] # "waiting"
      BY DEF Compare
    <3>2. Comes("RelayConfigUpdated", 0)' <=> Comes("RelayConfigUpdated", 0)
      BY <2>1 DEF Comes, In
    <3> QED
      BY <2>1, <3>1, <3>2 DEF WaitShape
  <2> QED
    BY <2>5, <2>6, <2>7
<1>14. CASE Manage
  BY <1>14, <1>u DEF Manage
<1>15. ASSUME NEW t \in Tids, CompareDeposit(t) PROVE NeedShape' /\ BalanceShape' /\ WaitShape'
  <2>1. deposit \in Nat /\ state.need \in Nat
    BY DEF TypeOK, RoundStates, ElectionsAssumption
  <2>2. \A t2 \in Tids : ask'[t2] = "waiting" => ask[t2] = "waiting" \/ deposit < state.need
    BY <1>15, <2>1 DEF CompareDeposit, TypeOK
  <2> QED
    BY <1>15, <1>u, <2>2 DEF CompareDeposit
<1>16. ASSUME NEW t \in Tids, BecomeRelay(t) PROVE NeedShape' /\ BalanceShape' /\ WaitShape'
  <2> DEFINE e == [event |-> "RelayMembershipRequested", balance |-> balance]
  <2>1. /\ ask[t] = "asking" /\ ask' = [ask EXCEPT ![t] = "idle"]
        /\ UNCHANGED <<need, balance, block, stakingQ, state, deposit, phase>>
        /\ userQ' = IF Subscribed THEN Append(userQ, e) ELSE userQ
        /\ e \in UserNotices
    BY <1>16 DEF BecomeRelay, ToUser, UserNotices, TypeOK
  <2>2. Subscribed
    BY <2>1 DEF StartShape, NoAsk
  <2>3. userQ' = Append(userQ, e) /\ e.event # "DepositProcessed"
    BY <2>1, <2>2
  <2> HIDE DEF e
  <2>4. BalanceShape'
    BY <1>d, <2>1, <2>3
  <2>5. \A t2 \in Tids : ask'[t2] = "waiting" => ask[t2] = "waiting"
    BY <2>1 DEF TypeOK
  <2>6. NeedShape' /\ WaitShape'
    BY <2>1, <2>5 DEF NeedShape, WaitShape, NeedKnown, Comes, In
  <2> QED
    BY <2>4, <2>6
<1>17. ASSUME NEW r \in Rounds, CheckParticipation(r) PROVE NeedShape' /\ BalanceShape' /\ WaitShape'
  BY <1>17, <1>u DEF CheckParticipation
<1>18. ASSUME NEW r \in Rounds, GetReward(r) PROVE NeedShape' /\ BalanceShape' /\ WaitShape'
  BY <1>18, <1>u DEF GetReward
<1>19. CASE UNCHANGED vars
  BY <1>19, <1>u DEF vars
<1> QED
  BY <1>1, <1>2, <1>3, <1>4, <1>5, <1>6, <1>7, <1>8, <1>9, <1>10, <1>11, <1>12, <1>13,
     <1>14, <1>15, <1>16, <1>17, <1>18, <1>19 DEF Next, Startup

\* While elections go no faster than the relay handles their events, a relay that has
\* no seat in elections asks for one, or lacks the tokens: a change of its balance or
\* of the need is lost neither when it is applied with others nor while the task is
\* between its comparison and its wait.
THEOREM CandidacyCorrect ==
  ASSUME ElectionsAssumption, Quiet, Prompt PROVE Spec => []Candidacy
<1>1. FInv /\ TInv => Candidacy
  <2> SUFFICES ASSUME FInv, TInv, Drained, est = "Started", ~member, ~Ignore
               PROVE  \E t \in Tids : \/ ask[t] \in {"spawned", "check", "asking"}
                                      \/ ask[t] = "waiting" /\ balance < need
    BY DEF Candidacy
  <2>1. Subscribed /\ phase # "snapshot" /\ \A e : ~Comes(e, 0) /\ ~UserComes(e, 0)
    BY DEF Drained, Subscribed, Comes, In, UserComes
  <2>2. PICK t \in Tids : ask[t] # "idle"
    BY <2>1 DEF FInv, CandidateShape
  <2>3. deposit = balance /\ state.need = need
    BY <2>1 DEF TInv, NeedShape, NeedKnown, BalanceShape, BalanceKnown
  <2>4. ask[t] = "waiting" => balance < need
    BY <2>1, <2>3 DEF TInv, WaitShape
  <2>5. ask[t] \in Asking
    BY DEF FInv, NInv, TypeOK
  <2> QED
    BY <2>2, <2>4, <2>5 DEF Asking
<1> QED
  BY <1>1, FInit, FNext, TInit, TNext, PTL DEF Spec
================================================================================
