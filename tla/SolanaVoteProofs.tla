--------------------------- MODULE SolanaVoteProofs ---------------------------
(***************************************************************************)
(* Type correctness of SolanaVote; that a verdict is true of the proposal  *)
(* for as long as it is held; that the votes on the two chains agree; that *)
(* a proposal is looked up in time.                                        *)
(***************************************************************************)
EXTENDS SolanaVote, FiniteSetTheorems, TLAPS

SolanaAssumption == SolSubscriberAssumption /\ SolanaVoteAssumption

-----------------------------------------------------------------------------
(* The invariant of one event                                                *)

(* A task waits in verify exactly while its channel is there; what is pending *)
(* is the question of such a task; and nothing expires while it is looked up. *)
QuestionFits(p) ==
  /\ pc[p] = "verify" <=> answer[p] # "none"
  /\ p \in pending => answer[p] = "waiting" /\ entry[p].created = created[p]
  /\ p \in toCheck => p \in pending /\ checking /\ ~Overdue(p)

(* There is nothing of an event before it is created. *)
NothingBefore(p) ==
  created[p] = 0 =>
    pc[p] = "idle" /\ tonVote[p] = "none" /\ vote[p] = "none" /\ flight[p] = {}

(* Expired, or there with other data. *)
Refused(p) == Overdue(p) \/ (account[p] = "ready" /\ Data(p) = "other")
Found(p) == account[p] = "ready" /\ Data(p) = "same"

AnswerIsTrue(p) ==
  /\ answer[p] = "Exists" => Found(p)
  /\ answer[p] = "NotExists" => Refused(p)

(* A task past verify has a verdict, which is true. *)
VerdictFits(p) ==
  /\ pc[p] \in {"idle", "verify"} => verdict[p] = "none"
  /\ pc[p] \in {"check", "send", "status", "execute", "deliver"} => verdict[p] # "none"
  /\ verdict[p] = "confirm" => Found(p)
  /\ verdict[p] = "reject" => Refused(p)

(* Of a proposal with the event's data, a rejection says that the event is       *)
(* expired, and who rejected it once does not come to confirm it.                *)
VotesAreTrue(p) ==
  \A v \in flight[p] \cup {vote[p]} :
    /\ v = "confirm" => Data(p) = "same"
    /\ v = "reject" /\ Data(p) = "same" =>
         Overdue(p) /\ verdict[p] # "confirm" /\ answer[p] # "Exists"

(* A relay that has not died yet has one verdict, and its votes are that. *)
FirstLife(p) ==
  crashes = 0 => flight[p] \subseteq {verdict[p]} /\ vote[p] \in {"none", verdict[p]}

(* There was no proposal when the event expired, and our vote can not land. *)
NoProposal(p) ==
  /\ flight[p] = {} /\ Overdue(p)
  /\ account[p] = "ready" => readyAt[p] > created[p] + Expired

(* How far a task is says what became of its vote. *)
StepFits(p) ==
  /\ flight[p] # {} \/ pc[p] = "send" => account[p] # "none"
  /\ pc[p] \in {"status", "execute"} => vote[p] # "none"
  /\ pc[p] = "execute" => verdict[p] = "confirm"
  /\ pc[p] = "deliver" /\ vote[p] = "none" => verdict[p] = "reject" /\ NoProposal(p)

TonFits(p) ==
  tonVote[p] # "none" =>
    /\ pc[p] \in {"idle", "ended"}
    /\ IF vote[p] = "none" THEN tonVote[p] = "reject" /\ NoProposal(p) ELSE SameVote(p)

ExecutedFits(p) == p \in executed => vote[p] = "confirm"

Fits(p) ==
  /\ QuestionFits(p) /\ NothingBefore(p) /\ AnswerIsTrue(p) /\ VerdictFits(p)
  /\ VotesAreTrue(p) /\ FirstLife(p) /\ StepFits(p) /\ TonFits(p) /\ ExecutedFits(p)

IInv == TypeOK /\ \A p \in Proposals : Fits(p)

-----------------------------------------------------------------------------
(* Types                                                                     *)

LEMMA InitType == ASSUME SolanaAssumption, Init PROVE TypeOK
<1> USE DEF Init, SolInit, SolanaAssumption, SolSubscriberAssumption
<1>1. SolTypeOK
  BY DEF SolTypeOK, NoEntry, Entry, Answers
<1>2. /\ created \in [Proposals -> Nat] /\ decided \in [Proposals -> BOOLEAN]
      /\ tonVote \in [Proposals -> Votes] /\ vote \in [Proposals -> Votes]
      /\ verdict \in [Proposals -> Votes] /\ pc \in [Proposals -> Pcs]
  BY DEF Votes, Pcs
<1>3. /\ flight \in [Proposals -> SUBSET (Votes \ {"none"})]
      /\ executed \subseteq Proposals /\ known \subseteq Proposals /\ crashes \in Nat
  OBVIOUS
<1> QED BY <1>1, <1>2, <1>3 DEF TypeOK

LEMMA FailsType == ASSUME SolTypeOK, Fails PROVE failures' \in Nat
  BY DEF SolTypeOK, Fails

LEMMA AskType ==
  ASSUME SolanaAssumption, TypeOK, NEW p \in Proposals, Ask(p, created[p]) PROVE SolTypeOK'
BY DEF Ask, TypeOK, SolTypeOK, SolanaAssumption, SolSubscriberAssumption, Entry, Answers, chainVars

LEMMA RescheduledType ==
  ASSUME SolanaAssumption, SolTypeOK, NEW n \in Entry PROVE Rescheduled(n) \in Entry
<1>1. clock \in Nat /\ Interval \in Nat
  BY DEF SolTypeOK, SolanaAssumption, SolSubscriberAssumption
<1> DEFINE Young == [n EXCEPT !.time = clock]
           Older == [n EXCEPT !.time = clock + n.delay, !.delay = 2 * @]
           Old == [n EXCEPT !.time = clock + Interval]
<1>2. Young \in Entry /\ Old \in Entry
  BY <1>1 DEF Entry
<1>3. Older \in Entry
  <2>1. n.delay \in Nat
    BY DEF Entry
  <2>2. clock + n.delay \in Nat /\ 2 * n.delay \in Nat
    BY <1>1, <2>1
  <2> QED BY <2>2 DEF Entry
<1>4. Rescheduled(n) \in {Young, Older, Old}
  BY DEF Rescheduled
<1> QED BY <1>2, <1>3, <1>4

LEMMA LoopType ==
  ASSUME SolanaAssumption, SolTypeOK, LoopStep PROVE SolTypeOK'
<1>1. NoEntry \in Entry
  BY DEF NoEntry, Entry
<1>2. CASE BeginRound
  <2>1. entry' \in [Proposals -> Entry]
    BY <1>1, <1>2, RescheduledType DEF BeginRound, SolTypeOK
  <2>2. answer' \in [Proposals -> Answers]
    BY <1>2 DEF BeginRound, Told, SolTypeOK, Answers
  <2>3. ran' \in Nat /\ checking' \in BOOLEAN /\ pending' \subseteq Proposals /\ toCheck' \subseteq Proposals
    BY <1>2 DEF BeginRound, SolTypeOK
  <2> QED BY <1>2, <2>1, <2>2, <2>3 DEF BeginRound, SolTypeOK, chainVars
<1>3. CASE EndRound
  BY <1>3 DEF EndRound, SolTypeOK, chainVars
<1>4. ASSUME NEW p \in Proposals, CheckAccount(p) PROVE SolTypeOK'
  <2>1. /\ \/ Keep
           \/ \E status \in {"Exists", "NotExists", "Dropped"} : Close(p, status)
        /\ toCheck' \subseteq Proposals /\ checking' \in BOOLEAN
    BY <1>4 DEF CheckAccount, Unusable, Passed, Status, SolTypeOK
  <2>2. /\ entry' \in [Proposals -> Entry] /\ answer' \in [Proposals -> Answers]
        /\ pending' \subseteq Proposals
    BY <1>1, <2>1 DEF Close, Keep, SolTypeOK, Answers
  <2>3. failures' \in Nat
    BY <1>4, FailsType DEF CheckAccount, SolTypeOK
  <2> QED BY <1>4, <2>1, <2>2, <2>3 DEF CheckAccount, SolTypeOK, chainVars
<1> QED BY <1>2, <1>3, <1>4 DEF LoopStep

LEMMA TaskType ==
  ASSUME SolanaAssumption, IInv, NEW p \in Proposals, TaskStep(p) PROVE TypeOK'
<1> USE DEF IInv, TypeOK
<1>1. CASE Verified(p)
  <2>1. answer' \in [Proposals -> Answers]
    BY <1>1 DEF Verified, SolTypeOK, Answers
  <2>2. /\ verdict' \in [Proposals -> Votes] /\ pc' \in [Proposals -> Pcs]
        /\ known' \subseteq Proposals
    BY <1>1 DEF Verified, VoteOf, GoTo, Votes, Pcs
  <2> QED BY <1>1, <2>1, <2>2 DEF Verified, SolTypeOK, chainVars, eventVars
<1>2. CASE CheckVoted(p) \/ ReadStatus(p)
  <2>1. failures' \in Nat
    BY <1>2, FailsType DEF CheckVoted, ReadStatus, SolTypeOK
  <2>2. pc' \in [Proposals -> Pcs]
    BY <1>2 DEF CheckVoted, ReadStatus, GoTo, Pcs, AfterCheck, AfterFailure
  <2> QED BY <1>2, <2>1, <2>2 DEF CheckVoted, ReadStatus, SolTypeOK, chainVars, eventVars
<1>3. CASE SendVote(p)
  <2>1. failures' \in Nat
    BY <1>3, FailsType DEF SendVote, SolTypeOK
  <2>2. pc' \in [Proposals -> Pcs]
    BY <1>3 DEF SendVote, GoTo, Pcs
  <2>3. vote' \in [Proposals -> Votes]
    BY <1>3 DEF SendVote, Recorded
  <2>4. flight' \in [Proposals -> SUBSET (Votes \ {"none"})]
    BY <1>3 DEF SendVote, Fits, VerdictFits
  <2> QED BY <1>3, <2>1, <2>2, <2>3, <2>4 DEF SendVote, SolTypeOK, chainVars
<1>4. CASE Execute(p)
  BY <1>4 DEF Execute, GoTo, Pcs, SolTypeOK, solVars, chainVars, subscriberVars
<1>5. CASE Deliver(p)
  BY <1>5 DEF Deliver, TonMessage, GoTo, Pcs, SolTypeOK, solVars, chainVars, subscriberVars
<1> QED BY <1>1, <1>2, <1>3, <1>4, <1>5 DEF TaskStep

LEMMA CrashType == ASSUME SolanaAssumption, IInv, Crash PROVE TypeOK'
<1> USE DEF IInv, TypeOK, Crash, SolCrash
<1>1. SolTypeOK'
  BY DEF SolTypeOK, NoEntry, Entry, Answers, chainVars
<1>2. flight' \in [Proposals -> SUBSET (Votes \ {"none"})]
  BY DEF Fits, VerdictFits
<1>3. verdict' \in [Proposals -> Votes] /\ pc' \in [Proposals -> Pcs] /\ crashes' \in Nat
  BY DEF Votes, Pcs
<1> QED BY <1>1, <1>2, <1>3

LEMMA OutsideType ==
  ASSUME SolanaAssumption, TypeOK, NEW p \in Proposals,
         \/ \E time \in {clock, clock + 1} : Create(p, time)
         \/ Decide(p) \/ (\E v \in Votes : Land(p, v))
         \/ (Make(p) /\ Aside)
         \/ Start(p)
  PROVE  TypeOK'
<1> USE DEF TypeOK
<1>1. CASE \E time \in {clock, clock + 1} : Create(p, time)
  BY <1>1 DEF Create, SolTypeOK, solVars, chainVars, subscriberVars, taskVars
<1>2. CASE Decide(p)
  BY <1>2 DEF Decide, SolTypeOK, solVars, chainVars, subscriberVars
<1>3. CASE \E v \in Votes : Land(p, v)
  BY <1>3 DEF Land, Recorded, SolTypeOK, solVars, chainVars, subscriberVars, taskVars
<1>4. CASE Make(p) /\ Aside
  BY <1>4 DEF Make, Aside, SolTypeOK, subscriberVars, eventVars, taskVars
<1>5. CASE Start(p)
  BY <1>5, AskType DEF Start, GoTo, Pcs, eventVars
<1> QED BY <1>1, <1>2, <1>3, <1>4, <1>5

LEMMA NextType == ASSUME SolanaAssumption, IInv, [Next]_vars PROVE TypeOK'
<1> USE DEF IInv
<1>1. CASE LoopStep /\ Aside
  BY <1>1, LoopType DEF Aside, TypeOK, eventVars, taskVars
<1>2. CASE NextTick
  BY <1>2 DEF NextTick, Tick, Aside, TypeOK, SolTypeOK, subscriberVars, eventVars, taskVars
<1>3. CASE UNCHANGED vars
  BY <1>3 DEF vars, TypeOK, SolTypeOK, solVars, chainVars, subscriberVars, eventVars, taskVars
<1> QED BY <1>1, <1>2, <1>3, TaskType, CrashType, OutsideType DEF Next

-----------------------------------------------------------------------------
(* Steps that leave an event alone, or the greater part of it                *)

SameEvent(q) ==
  /\ created'[q] = created[q] /\ tonVote'[q] = tonVote[q]
  /\ vote'[q] = vote[q] /\ flight'[q] = flight[q]
  /\ q \in executed' <=> q \in executed

SameTask(q) == pc'[q] = pc[q] /\ verdict'[q] = verdict[q]

SameAccount(q) == account'[q] = account[q] /\ readyAt'[q] = readyAt[q]

SameQuestion(q) ==
  /\ answer'[q] = answer[q]
  /\ q \in pending' => q \in pending /\ entry'[q].created = entry[q].created
  /\ q \in toCheck' => q \in toCheck /\ q \in pending' /\ checking' /\ clock' = clock

(* Time goes on, and the world stays as it is. *)
Onward ==
  /\ clock \in Nat /\ clock' \in Nat /\ clock <= clock'
  /\ world' = world
  /\ crashes \in Nat /\ crashes' = crashes

LEMMA OnwardAlways ==
  ASSUME SolanaAssumption, IInv, Next \/ UNCHANGED vars, ~Crash PROVE Onward
<1> USE DEF Onward, IInv, TypeOK, SolTypeOK
<1>1. CASE NextTick
  BY <1>1 DEF NextTick, Tick, Aside
<1>2. CASE LoopStep /\ Aside
  BY <1>2 DEF LoopStep, BeginRound, EndRound, CheckAccount, Aside, chainVars
<1>3. ASSUME NEW p \in Proposals, TaskStep(p) PROVE Onward
  BY <1>3 DEF TaskStep, Verified, CheckVoted, SendVote, ReadStatus, Execute, Deliver,
              solVars, chainVars
<1>4. ASSUME NEW p \in Proposals, Start(p) \/ (Make(p) /\ Aside) PROVE Onward
  BY <1>4 DEF Start, Ask, Make, Aside, chainVars
<1>5. ASSUME NEW p \in Proposals, Decide(p) \/ \E v \in Votes : Land(p, v) PROVE Onward
  BY <1>5 DEF Decide, Land, solVars, chainVars
<1>6. ASSUME NEW p \in Proposals, \E time \in {clock, clock + 1} : Create(p, time) PROVE Onward
  BY <1>6 DEF Create, solVars, chainVars
<1>7. CASE UNCHANGED vars
  BY <1>7 DEF vars, solVars, chainVars
<1> QED BY <1>1, <1>2, <1>3, <1>4, <1>5, <1>6, <1>7 DEF Next

(* What is overdue stays so; what has a ready account, too. *)
LEMMA StaysOverdue ==
  ASSUME SolanaAssumption, IInv, Onward, NEW q \in Proposals, created'[q] = created[q]
  PROVE  /\ Overdue(q) => Overdue(q)'
         /\ clock' = clock => (Overdue(q)' => Overdue(q))
         /\ Data(q)' = Data(q)
<1>1. created[q] \in Nat /\ Expired \in Nat
  BY DEF IInv, TypeOK, SolanaAssumption, SolSubscriberAssumption
<1> QED BY <1>1 DEF Onward, Overdue, Data

LEMMA Frame ==
  ASSUME SolanaAssumption, IInv, Onward, NEW q \in Proposals,
         SameEvent(q), SameTask(q), SameAccount(q), SameQuestion(q)
  PROVE  Fits(q)'
<1>1. Fits(q) /\ /\ Overdue(q) => Overdue(q)'
                 /\ clock' = clock => (Overdue(q)' => Overdue(q))
                 /\ Data(q)' = Data(q)
  BY StaysOverdue DEF IInv, SameEvent
<1>2. Expired' = Expired /\ crashes' = crashes
  BY DEF Onward
<1> USE <1>1, <1>2 DEF Fits, SameEvent, SameTask, SameAccount, SameQuestion
<1>3. QuestionFits(q)'
  BY DEF QuestionFits
<1>4. NothingBefore(q)' /\ StepFits(q)'
  BY DEF NothingBefore, StepFits, NoProposal
<1>5. AnswerIsTrue(q)' /\ VerdictFits(q)'
  BY DEF AnswerIsTrue, VerdictFits, Found, Refused
<1>6. VotesAreTrue(q)' /\ FirstLife(q)' /\ ExecutedFits(q)'
  BY DEF VotesAreTrue, FirstLife, ExecutedFits
<1>7. TonFits(q)'
  BY DEF TonFits, NoProposal, SameVote
<1> QED BY <1>3, <1>4, <1>5, <1>6, <1>7

-----------------------------------------------------------------------------
(* TON and Solana                                                            *)

LEMMA CreateFits ==
  ASSUME SolanaAssumption, IInv, Onward, NEW p \in Proposals, NEW time \in Nat,
         Create(p, time)
  PROVE  \A q \in Proposals : Fits(q)'
<1> SUFFICES ASSUME NEW q \in Proposals PROVE Fits(q)'
  OBVIOUS
<1>1. CASE q # p
  BY <1>1, Frame DEF Create, SameEvent, SameTask, SameAccount, SameQuestion, QuestionFits,
                     IInv, TypeOK, Fits, solVars, chainVars, subscriberVars, taskVars
<1>2. CASE q = p
  <2>1. /\ pc[p] = "idle" /\ tonVote[p] = "none" /\ vote[p] = "none" /\ flight[p] = {}
        /\ answer[p] = "none" /\ verdict[p] = "none" /\ p \notin pending /\ p \notin toCheck
        /\ p \notin executed /\ Fits(p)
    BY DEF Create, IInv, Fits, NothingBefore, QuestionFits, VerdictFits, ExecutedFits
  <2>2. UNCHANGED <<pc, tonVote, vote, flight, answer, verdict, pending, toCheck, executed, account>>
    BY DEF Create, solVars, chainVars, subscriberVars, taskVars
  <2> QED BY <1>2, <2>1, <2>2
          DEF Fits, QuestionFits, NothingBefore, AnswerIsTrue, VerdictFits, VotesAreTrue,
              FirstLife, StepFits, TonFits, ExecutedFits
<1> QED BY <1>1, <1>2

LEMMA MakeFits ==
  ASSUME SolanaAssumption, IInv, Onward, NEW p \in Proposals, Make(p), Aside
  PROVE  \A q \in Proposals : Fits(q)'
<1> SUFFICES ASSUME NEW q \in Proposals PROVE Fits(q)'
  OBVIOUS
<1>1. SameEvent(q) /\ SameTask(q) /\ SameQuestion(q)
  BY DEF Make, Aside, SameEvent, SameTask, SameQuestion, IInv, Fits, QuestionFits,
         subscriberVars, eventVars, taskVars
<1>2. CASE q # p
  BY <1>1, <1>2, Frame DEF Make, SameAccount, IInv, TypeOK, SolTypeOK
<1>3. CASE q = p
  <2>1. /\ Overdue(p) <=> Overdue(p)'
        /\ Data(p)' = Data(p) /\ Fits(p) /\ crashes' = crashes
        /\ pending' = pending /\ toCheck' = toCheck /\ checking' = checking /\ entry' = entry
    BY StaysOverdue, <1>1, <1>3 DEF IInv, SameEvent, Make, Aside, subscriberVars
  <2>2. /\ account[p] # "ready" /\ account'[p] # "none"
        /\ account'[p] = "ready" => readyAt'[p] = clock
    BY DEF Make, IInv, TypeOK, SolTypeOK
  <2>3. NoProposal(p) => NoProposal(p)'
    BY <1>1, <1>3, <2>1, <2>2 DEF NoProposal, Overdue, SameEvent
  <2> USE <1>1, <1>3, <2>1, <2>2 DEF Fits, SameEvent, SameTask, SameQuestion
  <2>4. QuestionFits(p)' /\ NothingBefore(p)'
    BY DEF QuestionFits, NothingBefore
  <2>5. AnswerIsTrue(p)' /\ VerdictFits(p)'
    BY DEF AnswerIsTrue, VerdictFits, Found, Refused
  <2>6. VotesAreTrue(p)' /\ FirstLife(p)' /\ ExecutedFits(p)'
    BY DEF VotesAreTrue, FirstLife, ExecutedFits
  <2>7. StepFits(p)'
    BY <2>3 DEF StepFits
  <2>8. TonFits(p)'
    BY <2>3 DEF TonFits, SameVote
  <2> QED BY <2>4, <2>5, <2>6, <2>7, <2>8
<1> QED BY <1>2, <1>3

LEMMA DecideFits ==
  ASSUME SolanaAssumption, IInv, Onward, NEW p \in Proposals, Decide(p)
  PROVE  \A q \in Proposals : Fits(q)'
BY Frame DEF Decide, SameEvent, SameTask, SameAccount, SameQuestion, QuestionFits, IInv, Fits,
             solVars, chainVars, subscriberVars

LEMMA LandFits ==
  ASSUME SolanaAssumption, IInv, Onward, NEW p \in Proposals, NEW v \in Votes, Land(p, v)
  PROVE  \A q \in Proposals : Fits(q)'
<1> SUFFICES ASSUME NEW q \in Proposals PROVE Fits(q)'
  OBVIOUS
<1>1. /\ SameTask(q) /\ SameQuestion(q) /\ SameAccount(q)
      /\ UNCHANGED <<pending, toCheck, checking, entry, created, tonVote, executed>>
  BY DEF Land, SameTask, SameAccount, SameQuestion, IInv, Fits, QuestionFits,
         solVars, chainVars, subscriberVars, taskVars
<1>2. CASE q # p
  BY <1>1, <1>2, Frame DEF Land, Recorded, SameEvent, IInv, TypeOK
<1>3. CASE q = p
  <2>1. /\ Overdue(p) <=> Overdue(p)'
        /\ Data(p)' = Data(p) /\ Fits(p) /\ crashes' = crashes
    BY StaysOverdue, <1>1, <1>3 DEF IInv, Land, solVars, chainVars
  <2>2. /\ flight'[p] = flight[p] \ {v} /\ v \in flight[p]
        /\ vote'[p] = vote[p] \/ (vote[p] = "none" /\ vote'[p] = v)
    BY DEF Land, Recorded, IInv, TypeOK
  <2> USE <1>1, <1>3, <2>1, <2>2 DEF Fits, SameTask, SameAccount, SameQuestion
  <2>3. QuestionFits(p)' /\ NothingBefore(p)'
    BY DEF QuestionFits, NothingBefore
  <2>4. AnswerIsTrue(p)' /\ VerdictFits(p)'
    BY DEF AnswerIsTrue, VerdictFits, Found, Refused
  <2>5. VotesAreTrue(p)' /\ FirstLife(p)' /\ ExecutedFits(p)'
    BY DEF VotesAreTrue, FirstLife, ExecutedFits
  <2>6. StepFits(p)'
    BY DEF StepFits, NoProposal
  <2>7. TonFits(p)'
    BY DEF TonFits, NoProposal, SameVote
  <2> QED BY <2>3, <2>4, <2>5, <2>6, <2>7
<1> QED BY <1>2, <1>3

-----------------------------------------------------------------------------
(* The event's task                                                          *)

(* A step of p's task leaves the other events alone. *)
LEMMA OthersFit ==
  ASSUME SolanaAssumption, IInv, Onward, NEW p \in Proposals, Start(p) \/ TaskStep(p),
         NEW q \in Proposals, q # p
  PROVE  Fits(q)'
<1>1. SameAccount(q) /\ UNCHANGED <<toCheck, checking, clock>>
  BY DEF SameAccount, Start, Ask, TaskStep, Verified, CheckVoted, SendVote, ReadStatus,
         Execute, Deliver, solVars, chainVars, subscriberVars
<1>2. SameEvent(q) /\ SameTask(q)
  BY DEF SameEvent, SameTask, Start, TaskStep, Verified, CheckVoted, SendVote, ReadStatus,
         Execute, Deliver, Recorded, GoTo, eventVars, IInv, TypeOK
<1>3. answer'[q] = answer[q] /\ (q \in pending' <=> q \in pending) /\ entry'[q] = entry[q]
  BY DEF Start, Ask, TaskStep, Verified, CheckVoted, SendVote, ReadStatus,
         Execute, Deliver, solVars, subscriberVars, IInv, TypeOK, SolTypeOK
<1>4. SameQuestion(q)
  BY <1>1, <1>3 DEF SameQuestion, IInv, Fits, QuestionFits
<1> QED BY <1>1, <1>2, <1>4, Frame

LEMMA StartFits ==
  ASSUME SolanaAssumption, IInv, Onward, NEW p \in Proposals, Start(p)
  PROVE  Fits(p)'
<1>1. /\ Overdue(p) <=> Overdue(p)'
      /\ Data(p)' = Data(p) /\ Fits(p) /\ crashes' = crashes
  BY StaysOverdue DEF IInv, Start, Ask, chainVars, eventVars
<1>2. /\ pc[p] = "idle" /\ pc'[p] = "verify" /\ verdict' = verdict
      /\ answer'[p] = "waiting" /\ p \in pending' /\ entry'[p].created = created[p]
      /\ toCheck' = toCheck /\ tonVote[p] = "none" /\ created[p] > 0
      /\ UNCHANGED <<created, tonVote, vote, flight, executed, account, readyAt, checking>>
  BY DEF Start, Ask, GoTo, chainVars, eventVars, IInv, TypeOK, SolTypeOK
<1>3. p \notin toCheck
  BY <1>1, <1>2 DEF Fits, QuestionFits
<1> USE <1>1, <1>2, <1>3 DEF Fits
<1>4. QuestionFits(p)' /\ NothingBefore(p)'
  BY DEF QuestionFits, NothingBefore
<1>5. AnswerIsTrue(p)' /\ VerdictFits(p)'
  BY DEF AnswerIsTrue, VerdictFits, Found, Refused
<1>6. VotesAreTrue(p)' /\ FirstLife(p)' /\ ExecutedFits(p)'
  BY DEF VotesAreTrue, FirstLife, ExecutedFits
<1>7. StepFits(p)' /\ TonFits(p)'
  BY DEF StepFits, TonFits
<1> QED BY <1>4, <1>5, <1>6, <1>7

(* A task that has asked finds that its question is closed. *)
LEMMA VerifiedFits ==
  ASSUME SolanaAssumption, IInv, Onward, NEW p \in Proposals, Verified(p)
  PROVE  Fits(p)'
<1>1. /\ Overdue(p) <=> Overdue(p)'
      /\ Data(p)' = Data(p) /\ Fits(p) /\ crashes' = crashes
  BY StaysOverdue DEF IInv, Verified, chainVars, eventVars
<1>2. /\ pc[p] = "verify" /\ answer[p] \notin {"none", "waiting"} /\ verdict[p] = "none"
      /\ p \notin pending /\ p \notin toCheck
      /\ tonVote[p] = "none"
  BY <1>1 DEF Verified, Fits, QuestionFits, VerdictFits, TonFits
<1>3. /\ answer'[p] = "none"
      /\ UNCHANGED <<pending, toCheck, checking, created, tonVote, vote, flight, executed,
                     account, readyAt>>
  BY DEF Verified, chainVars, eventVars, IInv, TypeOK, SolTypeOK
<1>4. \/ answer[p] = "Dropped" /\ pc'[p] = "ended" /\ verdict'[p] = "none"
      \/ answer[p] = "Exists" /\ pc'[p] = "check" /\ verdict'[p] = "confirm"
      \/ answer[p] = "NotExists" /\ pc'[p] = "check" /\ verdict'[p] = "reject"
  BY <1>2 DEF Verified, VoteOf, GoTo, IInv, TypeOK, SolTypeOK, Answers
<1> USE <1>1, <1>2, <1>3, <1>4 DEF Fits
<1>5. QuestionFits(p)' /\ NothingBefore(p)'
  BY DEF QuestionFits, NothingBefore
<1>6. AnswerIsTrue(p)' /\ VerdictFits(p)'
  BY DEF AnswerIsTrue, VerdictFits, Found, Refused
<1>7. FirstLife(p)'
  <2>1. flight[p] \subseteq Votes \ {"none"}
    BY DEF IInv, TypeOK
  <2> QED BY <2>1 DEF FirstLife
<1>8. VotesAreTrue(p)' /\ ExecutedFits(p)'
  BY DEF VotesAreTrue, ExecutedFits
<1>9. StepFits(p)' /\ TonFits(p)'
  BY DEF StepFits, TonFits
<1> QED BY <1>5, <1>6, <1>7, <1>8, <1>9

(* A step of a task with a verdict that leaves what is said about the event's *)
(* data, its time and its question alone.                                     *)
LEMMA HolderStep ==
  ASSUME SolanaAssumption, IInv, Onward, NEW p \in Proposals,
         pc[p] \in {"check", "send", "status", "execute", "deliver"},
         pc'[p] \in {"send", "status", "execute", "deliver", "ended"},
         verdict'[p] = verdict[p], SameQuestion(p), SameAccount(p),
         created'[p] = created[p],
         flight'[p] \in {flight[p], flight[p] \cup {verdict[p]}},
         vote'[p] \in {vote[p], verdict[p]}, vote[p] # "none" => vote'[p] = vote[p]
  PROVE  /\ QuestionFits(p)' /\ NothingBefore(p)' /\ AnswerIsTrue(p)' /\ VerdictFits(p)'
         /\ VotesAreTrue(p)' /\ FirstLife(p)'
<1>1. /\ Overdue(p) => Overdue(p)'
      /\ clock' = clock => (Overdue(p)' => Overdue(p))
      /\ Data(p)' = Data(p) /\ Fits(p) /\ crashes' = crashes
      /\ tonVote[p] = "none"
  BY StaysOverdue DEF IInv, Onward, Fits, TonFits
<1> USE <1>1 DEF Fits, SameQuestion, SameAccount
<1>2. QuestionFits(p)' /\ NothingBefore(p)'
  BY DEF QuestionFits, NothingBefore
<1>3. AnswerIsTrue(p)' /\ VerdictFits(p)'
  BY DEF AnswerIsTrue, VerdictFits, Found, Refused
<1>4. answer[p] = "none"
  BY DEF QuestionFits
<1>5. VotesAreTrue(p)'
  BY <1>4 DEF VotesAreTrue, VerdictFits, Found, Refused
<1>6. FirstLife(p)'
  BY DEF FirstLife
<1> QED BY <1>2, <1>3, <1>5, <1>6

LEMMA CheckVotedFits ==
  ASSUME SolanaAssumption, IInv, Onward, NEW p \in Proposals, CheckVoted(p)
  PROVE  Fits(p)'
<1>1. /\ pc[p] = "check" /\ SameQuestion(p) /\ SameAccount(p)
      /\ Fits(p) /\ tonVote[p] = "none"
      /\ UNCHANGED <<clock, created, tonVote, vote, flight, executed, verdict>>
  BY DEF CheckVoted, SameQuestion, SameAccount, IInv, Fits, QuestionFits, TonFits, chainVars, eventVars
<1>2. \/ pc'[p] = "ended"
      \/ pc'[p] = "deliver" /\ account[p] = "none"
      \/ pc'[p] = "deliver" /\ vote[p] # "none"
      \/ pc'[p] = "send" /\ account[p] # "none"
  BY DEF CheckVoted, AfterCheck, AfterFailure, GoTo, IInv, TypeOK
<1>3. /\ QuestionFits(p)' /\ NothingBefore(p)' /\ AnswerIsTrue(p)' /\ VerdictFits(p)'
      /\ VotesAreTrue(p)' /\ FirstLife(p)'
  BY <1>1, <1>2, HolderStep
<1>4. Overdue(p) => Overdue(p)'
  BY <1>1, StaysOverdue
<1>5. StepFits(p)'
  <2>1. verdict[p] \in {"confirm", "reject"}
    BY <1>1 DEF Fits, VerdictFits, IInv, TypeOK, Votes
  <2> QED BY <1>1, <1>2, <1>4, <2>1
          DEF Fits, StepFits, NoProposal, VerdictFits, Found, Refused, SameAccount
<1>6. TonFits(p)' /\ ExecutedFits(p)'
  BY <1>1, <1>2 DEF Fits, TonFits, ExecutedFits
<1> QED BY <1>3, <1>5, <1>6 DEF Fits

LEMMA SendVoteFits ==
  ASSUME SolanaAssumption, IInv, Onward, NEW p \in Proposals, SendVote(p)
  PROVE  Fits(p)'
<1>1. /\ pc[p] = "send" /\ SameQuestion(p) /\ SameAccount(p)
      /\ Fits(p) /\ tonVote[p] = "none" /\ account[p] # "none" /\ verdict[p] # "none"
      /\ UNCHANGED <<created, tonVote, executed, verdict>>
  BY DEF SendVote, SameQuestion, SameAccount, IInv, Fits, QuestionFits, TonFits, StepFits,
         VerdictFits, chainVars
<1>2. /\ pc'[p] \in {"status", "send", "ended"}
      /\ flight'[p] \in {flight[p], flight[p] \cup {verdict[p]}}
      /\ vote'[p] \in {vote[p], verdict[p]}
      /\ vote[p] # "none" => vote'[p] = vote[p]
      /\ pc'[p] = "status" => vote'[p] # "none"
  BY <1>1 DEF SendVote, Recorded, GoTo, IInv, TypeOK
<1>3. /\ QuestionFits(p)' /\ NothingBefore(p)' /\ AnswerIsTrue(p)' /\ VerdictFits(p)'
      /\ VotesAreTrue(p)' /\ FirstLife(p)'
  BY <1>1, <1>2, HolderStep
<1>4. StepFits(p)'
  BY <1>1, <1>2 DEF StepFits, SameAccount
<1>5. TonFits(p)' /\ ExecutedFits(p)'
  BY <1>1, <1>2 DEF Fits, TonFits, ExecutedFits
<1> QED BY <1>3, <1>4, <1>5 DEF Fits

LEMMA ReadStatusFits ==
  ASSUME SolanaAssumption, IInv, Onward, NEW p \in Proposals, ReadStatus(p)
  PROVE  Fits(p)'
<1>1. /\ pc[p] = "status" /\ SameQuestion(p) /\ SameAccount(p)
      /\ Fits(p) /\ tonVote[p] = "none" /\ vote[p] # "none"
      /\ UNCHANGED <<created, tonVote, vote, flight, executed, verdict>>
  BY DEF ReadStatus, SameQuestion, SameAccount, IInv, Fits, QuestionFits, TonFits, StepFits,
         chainVars, eventVars
<1>2. /\ pc'[p] \in {"execute", "deliver", "ended"}
      /\ pc'[p] = "execute" => verdict[p] = "confirm"
  BY DEF ReadStatus, AfterFailure, Executes, GoTo, IInv, TypeOK
<1>3. /\ QuestionFits(p)' /\ NothingBefore(p)' /\ AnswerIsTrue(p)' /\ VerdictFits(p)'
      /\ VotesAreTrue(p)' /\ FirstLife(p)'
  BY <1>1, <1>2, HolderStep
<1>4. StepFits(p)'
  BY <1>1, <1>2 DEF Fits, StepFits, SameAccount
<1>5. TonFits(p)' /\ ExecutedFits(p)'
  BY <1>1, <1>2 DEF Fits, TonFits, ExecutedFits
<1> QED BY <1>3, <1>4, <1>5 DEF Fits

(* What is executed has our confirmation: a rejection that landed earlier would *)
(* have kept the task from confirming.                                          *)
LEMMA ExecuteFits ==
  ASSUME SolanaAssumption, IInv, Onward, NEW p \in Proposals, Execute(p)
  PROVE  Fits(p)'
<1>1. /\ pc[p] = "execute" /\ pc'[p] = "deliver" /\ SameQuestion(p) /\ SameAccount(p)
      /\ Fits(p) /\ tonVote[p] = "none" /\ vote[p] # "none" /\ verdict[p] = "confirm"
      /\ UNCHANGED <<created, tonVote, vote, flight, verdict>>
  BY DEF Execute, GoTo, SameQuestion, SameAccount, IInv, Fits, QuestionFits, TonFits, StepFits,
         TypeOK, solVars, chainVars, subscriberVars
<1>2. vote[p] = "confirm"
  <2>1. Data(p) = "same"
    BY <1>1 DEF Fits, VerdictFits, Found
  <2>2. vote[p] # "reject"
    BY <1>1, <2>1 DEF Fits, VotesAreTrue
  <2> QED BY <1>1, <2>2 DEF IInv, TypeOK, Votes
<1>3. /\ QuestionFits(p)' /\ NothingBefore(p)' /\ AnswerIsTrue(p)' /\ VerdictFits(p)'
      /\ VotesAreTrue(p)' /\ FirstLife(p)'
  BY <1>1, HolderStep
<1>4. StepFits(p)' /\ TonFits(p)' /\ ExecutedFits(p)'
  BY <1>1, <1>2 DEF Fits, StepFits, TonFits, ExecutedFits, SameAccount
<1> QED BY <1>3, <1>4 DEF Fits

LEMMA DeliverFits ==
  ASSUME SolanaAssumption, IInv, Onward, NEW p \in Proposals, Deliver(p)
  PROVE  Fits(p)'
<1>1. /\ pc[p] = "deliver" /\ pc'[p] = "ended" /\ SameQuestion(p) /\ SameAccount(p)
      /\ Fits(p) /\ tonVote[p] = "none" /\ verdict[p] # "none"
      /\ tonVote'[p] \in {"none", verdict[p]}
      /\ UNCHANGED <<clock, created, vote, flight, executed, verdict>>
  BY DEF Deliver, TonMessage, GoTo, SameQuestion, SameAccount, IInv, Fits, QuestionFits, TonFits,
         VerdictFits, TypeOK, solVars, chainVars, subscriberVars
<1>2. NothingBefore(p)' /\ QuestionFits(p)' /\ AnswerIsTrue(p)' /\ VerdictFits(p)'
      /\ VotesAreTrue(p)' /\ FirstLife(p)'
  <2>1. created[p] # 0
    BY <1>1 DEF Fits, NothingBefore
  <2>2. NothingBefore(p)'
    BY <1>1, <2>1 DEF NothingBefore
  <2> QED BY <1>1, <2>2, HolderStep
<1>3. StepFits(p)' /\ ExecutedFits(p)'
  BY <1>1 DEF Fits, StepFits, ExecutedFits, SameAccount
<1>4. Overdue(p) => Overdue(p)'
  BY <1>1, StaysOverdue
<1>5. TonFits(p)'
  <2>1. CASE vote[p] = "none"
    BY <1>1, <1>4, <2>1 DEF Fits, StepFits, TonFits, NoProposal, SameAccount
  <2>2. CASE vote[p] = verdict[p]
    BY <1>1, <2>2 DEF TonFits, SameVote
  <2>3. CASE vote[p] \notin {"none", verdict[p]}
    <3>1. crashes > 0 /\ crashes' = crashes
      BY <1>1, <2>3 DEF Fits, FirstLife, IInv, TypeOK, Onward
    <3>2. \/ vote[p] = "confirm" /\ verdict[p] = "reject"
          \/ vote[p] = "reject" /\ verdict[p] = "confirm"
      BY <1>1, <2>3 DEF IInv, TypeOK, Votes
    <3>3. verdict[p] = "reject" /\ vote[p] = "confirm" /\ Overdue(p)
      BY <1>1, <3>2 DEF Fits, VotesAreTrue, VerdictFits, Found, Refused
    <3> QED BY <1>1, <1>4, <3>1, <3>3 DEF TonFits, SameVote
  <2> QED BY <2>1, <2>2, <2>3
<1> QED BY <1>2, <1>3, <1>5 DEF Fits

-----------------------------------------------------------------------------
(* The subscriber's loop                                                     *)

(* The loop closes a question that was open, with an answer that is true. *)
LEMMA CloseFits ==
  ASSUME SolanaAssumption, IInv, Onward, clock' = clock, NEW p \in Proposals,
         SameEvent(p), SameTask(p), SameAccount(p),
         p \in pending, p \notin pending', p \notin toCheck',
         answer'[p] \in {"Exists", "NotExists", "Dropped"},
         answer'[p] = "Exists" => Found(p) /\ ~Overdue(p),
         answer'[p] = "NotExists" => Refused(p)
  PROVE  Fits(p)'
<1>1. /\ Overdue(p) <=> Overdue(p)'
      /\ Data(p)' = Data(p) /\ Fits(p) /\ crashes' = crashes
  BY StaysOverdue DEF IInv, Onward, SameEvent
<1>2. pc[p] = "verify" /\ tonVote[p] = "none"
  BY <1>1 DEF Fits, QuestionFits, TonFits
<1> USE <1>1, <1>2 DEF Fits, SameEvent, SameTask, SameAccount
<1>3. QuestionFits(p)' /\ NothingBefore(p)'
  BY DEF QuestionFits, NothingBefore
<1>4. AnswerIsTrue(p)' /\ VerdictFits(p)'
  BY DEF AnswerIsTrue, VerdictFits, Found, Refused
<1>5. VotesAreTrue(p)' /\ FirstLife(p)' /\ ExecutedFits(p)'
  BY DEF VotesAreTrue, FirstLife, ExecutedFits
<1>6. StepFits(p)' /\ TonFits(p)'
  BY DEF StepFits, TonFits, NoProposal
<1> QED BY <1>3, <1>4, <1>5, <1>6

LEMMA BeginRoundFits ==
  ASSUME SolanaAssumption, IInv, Onward, BeginRound, Aside
  PROVE  \A q \in Proposals : Fits(q)'
<1> SUFFICES ASSUME NEW q \in Proposals PROVE Fits(q)'
  OBVIOUS
<1> DEFINE gone == {p \in pending : IsExpired(p)}
<1>1. /\ SameEvent(q) /\ SameTask(q) /\ SameAccount(q) /\ clock' = clock /\ checking'
      /\ pending' = pending \ gone
      /\ toCheck' \subseteq pending \ gone
      /\ answer' = [p \in Proposals |-> IF p \in gone THEN "NotExists" ELSE answer[p]]
      /\ Fits(q)
  BY DEF BeginRound, Told, Aside, SameEvent, SameTask, SameAccount, chainVars, eventVars, taskVars, IInv
<1>2. q \in pending => (q \in gone <=> Overdue(q))
  BY <1>1 DEF Fits, QuestionFits, IsExpired, Overdue
<1>3. CASE q \in gone
  BY <1>1, <1>2, <1>3, CloseFits DEF Refused
<1>4. CASE q \notin gone
  <2>1. entry[q] \in Entry => Rescheduled(entry[q]).created = entry[q].created
    BY DEF Rescheduled, Entry
  <2>2. q \in pending => entry'[q].created = entry[q].created
    BY <1>4, <2>1 DEF BeginRound, IInv, TypeOK, SolTypeOK
  <2>3. Overdue(q)' <=> Overdue(q)
    BY <1>1, StaysOverdue DEF SameEvent
  <2> USE <1>1, <1>2, <1>4, <2>2, <2>3, StaysOverdue
      DEF Fits, SameEvent, SameTask, SameAccount
  <2>4. QuestionFits(q)' /\ NothingBefore(q)'
    BY DEF QuestionFits, NothingBefore
  <2>5. AnswerIsTrue(q)' /\ VerdictFits(q)'
    BY DEF AnswerIsTrue, VerdictFits, Found, Refused
  <2>6. VotesAreTrue(q)' /\ FirstLife(q)' /\ ExecutedFits(q)'
    BY DEF VotesAreTrue, FirstLife, ExecutedFits, Onward
  <2>7. StepFits(q)' /\ TonFits(q)'
    BY DEF StepFits, TonFits, NoProposal, SameVote, Onward
  <2> QED BY <2>4, <2>5, <2>6, <2>7
<1> QED BY <1>3, <1>4

LEMMA EndRoundFits ==
  ASSUME SolanaAssumption, IInv, Onward, EndRound, Aside
  PROVE  \A q \in Proposals : Fits(q)'
BY Frame DEF EndRound, Aside, SameEvent, SameTask, SameAccount, SameQuestion,
             chainVars, eventVars, taskVars

LEMMA CheckAccountFits ==
  ASSUME SolanaAssumption, IInv, Onward, NEW p \in Proposals, CheckAccount(p), Aside
  PROVE  \A q \in Proposals : Fits(q)'
<1> SUFFICES ASSUME NEW q \in Proposals PROVE Fits(q)'
  OBVIOUS
<1>1. /\ SameEvent(q) /\ SameTask(q) /\ SameAccount(q) /\ clock' = clock
      /\ p \in toCheck /\ p \in pending /\ checking /\ ~Overdue(p) /\ Fits(q)
  BY DEF CheckAccount, Aside, SameEvent, SameTask, SameAccount, chainVars, eventVars, taskVars,
         IInv, Fits, QuestionFits
<1>2. /\ toCheck' \subseteq toCheck \ {p}
      /\ toCheck' # {} => checking'
  BY <1>1 DEF CheckAccount, Passed, Unusable, IInv, TypeOK, SolTypeOK
<1>3. CASE Keep
  <2>1. SameQuestion(q)
    BY <1>1, <1>2, <1>3 DEF Keep, SameQuestion, IInv, Fits, QuestionFits
  <2> QED BY <1>1, <2>1, Frame
<1>4. CASE Unusable(p)
  <2>1. CASE q = p
    BY <1>1, <1>2, <1>4, <2>1, CloseFits DEF Unusable, Close, IInv, TypeOK, SolTypeOK
  <2>2. CASE q # p
    BY <1>1, <1>2, <1>4, <2>2, Frame DEF Unusable, Close, SameQuestion, IInv, TypeOK, SolTypeOK
  <2> QED BY <2>1, <2>2
<1>5. CASE account[p] = "ready" /\ Usable(p) /\ Close(p, Status(p)) /\ Passed(p)
  <2>1. CASE q = p
    <3>1. \/ answer'[p] = "Exists" /\ Found(p)
          \/ answer'[p] = "NotExists" /\ Refused(p)
      BY <1>5 DEF Close, Status, Usable, Found, Refused, IInv, TypeOK, SolTypeOK
    <3>2. p \notin pending' /\ p \notin toCheck'
      BY <1>2, <1>5 DEF Close
    <3> QED BY <1>1, <2>1, <3>1, <3>2, CloseFits
  <2>2. CASE q # p
    <3>1. SameQuestion(q)
      BY <1>1, <1>2, <1>5, <2>2 DEF Close, SameQuestion, IInv, TypeOK, SolTypeOK, Fits, QuestionFits
    <3> QED BY <1>1, <3>1, Frame
  <2> QED BY <2>1, <2>2
<1> QED BY <1>3, <1>4, <1>5 DEF CheckAccount

LEMMA TickFits ==
  ASSUME SolanaAssumption, IInv, Onward, NextTick
  PROVE  \A q \in Proposals : Fits(q)'
BY Frame DEF NextTick, Tick, Aside, SameEvent, SameTask, SameAccount, SameQuestion,
             IInv, Fits, QuestionFits, subscriberVars, eventVars, taskVars

-----------------------------------------------------------------------------
(* A crash                                                                   *)

LEMMA CrashFits ==
  ASSUME SolanaAssumption, IInv, Crash
  PROVE  \A q \in Proposals : Fits(q)'
<1> SUFFICES ASSUME NEW q \in Proposals PROVE Fits(q)'
  OBVIOUS
<1>1. /\ Fits(q) /\ (Overdue(q)' <=> Overdue(q)) /\ Data(q)' = Data(q)
      /\ UNCHANGED <<created, tonVote, vote, executed, account, readyAt>>
      /\ pc'[q] = "idle" /\ verdict'[q] = "none" /\ answer'[q] = "none"
      /\ q \notin pending' /\ q \notin toCheck' /\ crashes' > 0
  BY DEF Crash, SolCrash, IInv, TypeOK, Overdue, Data, chainVars
<1>2. \/ flight'[q] = flight[q]
      \/ flight'[q] = flight[q] \cup {verdict[q]} /\ pc[q] = "send"
  BY DEF Crash
<1>3. QuestionFits(q)' /\ NothingBefore(q)'
  BY <1>1, <1>2 DEF Fits, QuestionFits, NothingBefore
<1>4. AnswerIsTrue(q)' /\ VerdictFits(q)'
  BY <1>1 DEF AnswerIsTrue, VerdictFits
<1>5. VotesAreTrue(q)'
  BY <1>1, <1>2 DEF Fits, VotesAreTrue, VerdictFits, Found, Refused
<1>6. FirstLife(q)' /\ ExecutedFits(q)'
  BY <1>1 DEF Fits, FirstLife, ExecutedFits
<1>7. StepFits(q)' /\ TonFits(q)'
  BY <1>1, <1>2 DEF Fits, StepFits, TonFits, NoProposal, SameVote
<1> QED BY <1>3, <1>4, <1>5, <1>6, <1>7 DEF Fits

-----------------------------------------------------------------------------
(* The theorems                                                              *)

LEMMA InitFits == ASSUME SolanaAssumption, Init PROVE \A q \in Proposals : Fits(q)
BY DEF Init, SolInit, Fits, QuestionFits, NothingBefore, AnswerIsTrue, VerdictFits,
       VotesAreTrue, FirstLife, StepFits, TonFits, ExecutedFits

LEMMA NextFits ==
  ASSUME SolanaAssumption, IInv, [Next]_vars PROVE \A q \in Proposals : Fits(q)'
<1>1. CASE Crash
  BY <1>1, CrashFits
<1>2. CASE ~Crash
  <2>1. Onward
    BY <1>2, OnwardAlways
  <2>2. ASSUME NEW p \in Proposals, Start(p) \/ TaskStep(p) PROVE \A q \in Proposals : Fits(q)'
    <3>1. Fits(p)'
      BY <2>1, <2>2, StartFits, VerifiedFits, CheckVotedFits, SendVoteFits, ReadStatusFits,
         ExecuteFits, DeliverFits DEF TaskStep
    <3>2. \A q \in Proposals : q # p => Fits(q)'
      BY <2>1, <2>2, OthersFit
    <3> QED BY <3>1, <3>2
  <2>3. ASSUME NEW p \in Proposals, \E time \in {clock, clock + 1} : Create(p, time)
        PROVE  \A q \in Proposals : Fits(q)'
    <3>1. clock \in Nat
      BY DEF IInv, TypeOK, SolTypeOK
    <3> QED BY <2>1, <2>3, <3>1, CreateFits
  <2>4. CASE LoopStep /\ Aside
    BY <2>1, <2>4, BeginRoundFits, EndRoundFits, CheckAccountFits DEF LoopStep
  <2>5. CASE UNCHANGED vars
    BY <2>1, <2>5, Frame DEF SameEvent, SameTask, SameAccount, SameQuestion, IInv, Fits,
       QuestionFits, vars, solVars, chainVars, subscriberVars, eventVars, taskVars
  <2> QED BY <1>2, <2>1, <2>2, <2>3, <2>4, <2>5, MakeFits, DecideFits, LandFits, TickFits DEF Next
<1> QED BY <1>1, <1>2

(* The inductive invariant: every event's answer, verdict, votes and votes in    *)
(* flight fit together.                                                          *)
THEOREM Invariance == Spec => []IInv
<1>1. Init => IInv
  BY InitType, InitFits, SolSubscriberAssumption, SolanaVoteAssumption DEF IInv, SolanaAssumption
<1>2. IInv /\ [Next]_vars => IInv'
  BY NextType, NextFits, SolSubscriberAssumption, SolanaVoteAssumption DEF IInv, SolanaAssumption
<1> QED BY <1>1, <1>2, PTL DEF Spec

(* Every variable stays in its type: what is sent to Solana is a vote. *)
THEOREM TypeCorrect == Spec => []TypeOK
<1>1. IInv => TypeOK
  BY DEF IInv
<1> QED BY <1>1, Invariance, PTL

(* The verdict that a task holds is true of the proposal, however long the task  *)
(* holds it: what verify_ton_sol_event answered does not become false.           *)
THEOREM VerdictsCorrect == Spec => []VerdictIsTrue
<1>1. IInv => VerdictIsTrue
  BY DEF IInv, Fits, VerdictFits, Found, Refused, VerdictIsTrue
<1> QED BY <1>1, Invariance, PTL

(* The two votes of a relay agree, but for one that died between them and found   *)
(* the event expired, and only what it has confirmed is executed: for any number  *)
(* of events, crashes and failures.                                               *)
THEOREM VotesCorrect == Spec => []VotesAgree
<1>1. IInv => VotesAgree
  BY DEF IInv, Fits, TonFits, NoProposal, ExecutedFits, NoneInTime, VotesAgree
<1> QED BY <1>1, Invariance, PTL

-----------------------------------------------------------------------------
(* How long a proposal waits                                                 *)

(* The longest delay between two checks. *)
Longest == IF Interval > 2 * Later THEN Interval ELSE 2 * Later

(* Proposals that can end a round of checks, and those that have, in this life. *)
Wasteful == {q \in Proposals : ~Usable(q) /\ Data(q) # "absent"}
Ended == {q \in Wasteful : pc[q] # "idle" /\ q \notin pending}

(* The losses there were. *)
Lost == failures + crashes * Cardinality(Wasteful) + Cardinality(Ended)

(* Our clock has not passed the bound, and an event's is ahead by one at most. *)
ClockFits(p) ==
  /\ readyAt[p] <= clock
  /\ created[p] # 0 => /\ created[p] <= clock + 1 /\ clock <= MaxClock
                       /\ Data(p) # "absent"

(* The delay of an entry's next check was first reached by doubling, so it is    *)
(* no longer than the event is old; and no check that was due has been left out. *)
EntryFits(p) ==
  p \in pending =>
    /\ entry[p].asked <= clock /\ created[p] <= entry[p].asked + 1
    /\ \/ entry[p].delay = FirstDelay
       \/ /\ entry[p].asked <= entry[p].time
          /\ entry[p].delay + entry[p].asked <= entry[p].time + FirstDelay
    /\ entry[p].time <= clock + Longest
    /\ clock <= entry[p].time + 1 \/ clock <= entry[p].asked + 1
    /\ ran = clock => clock <= entry[p].time \/ entry[p].asked = clock

(* From when on a proposal could be looked up. *)
Since(p) == IF readyAt[p] > entry[p].asked THEN readyAt[p] ELSE entry[p].asked

(* Who is about to be looked up has its next wait ahead. *)
Waits(p) == (IF p \in toCheck THEN 2 ELSE 1) + Lost
WaitFits(p) ==
  p \in pending /\ account[p] = "ready" => entry[p].time <= Since(p) + Waits(p) * Patience

WInv == \A p \in Proposals : ClockFits(p) /\ EntryFits(p) /\ WaitFits(p)
SoonInv == IInv /\ WInv

LEMMA NatModulo ==
  ASSUME NEW d \in Nat \ {0}, NEW r \in 0 .. d - 1, NEW n, n = d + r
  PROVE  n % d = r
OBVIOUS

LEMMA Products ==
  ASSUME NEW a \in Nat, NEW b \in Nat, NEW k \in Nat, a <= b
  PROVE  /\ a * k \in Nat /\ b * k \in Nat /\ a * k <= b * k
         /\ (1 + a) * k = a * k + k
<1>1. PICK c \in Nat : b = a + c
  <2>1. b - a \in Nat /\ b = a + (b - a)
    OBVIOUS
  <2> QED BY <2>1
<1>2. b * k = a * k + c * k /\ c * k \in Nat /\ a * k \in Nat
  BY <1>1
<1> QED BY <1>2

LEMMA Sums ==
  ASSUME NEW a \in Nat, NEW b \in Nat
  PROVE  /\ 1 + a \in Nat /\ 2 + a \in Nat /\ 1 + (1 + a) = 2 + a
         /\ a <= b => 1 + a <= 1 + b /\ 2 + a <= 2 + b
         /\ a + 1 <= b => 2 + a <= 1 + b
OBVIOUS

LEMMA Numbers ==
  ASSUME SolanaAssumption, IInv
  PROVE  /\ clock \in Nat /\ ran \in Nat /\ failures \in Nat /\ crashes \in Nat
         /\ Longest \in Nat /\ Interval <= Longest /\ 2 * Later <= Longest
         /\ Patience \in Nat /\ Patience = 1 + Longest
         /\ \A p \in Proposals :
              /\ created[p] \in Nat /\ readyAt[p] \in Nat /\ entry[p] \in Entry
              /\ entry[p].created \in Nat /\ entry[p].delay \in Nat
              /\ entry[p].time \in Nat /\ entry[p].asked \in Nat
              /\ Since(p) \in Nat /\ readyAt[p] <= Since(p) /\ entry[p].asked <= Since(p)
              /\ Since(p) \in {readyAt[p], entry[p].asked}
<1>1. Interval \in Nat /\ Later \in Nat
  BY DEF SolanaAssumption, SolSubscriberAssumption
<1>2. /\ Longest \in Nat /\ Interval <= Longest /\ 2 * Later <= Longest
      /\ Patience \in Nat /\ Patience = 1 + Longest
  BY <1>1 DEF Longest, Patience
<1>3. ASSUME NEW p \in Proposals
      PROVE  /\ created[p] \in Nat /\ readyAt[p] \in Nat /\ entry[p] \in Entry
             /\ entry[p].created \in Nat /\ entry[p].delay \in Nat
             /\ entry[p].time \in Nat /\ entry[p].asked \in Nat
  BY DEF IInv, TypeOK, SolTypeOK, Entry
<1> QED BY <1>2, <1>3 DEF IInv, TypeOK, SolTypeOK, Since

LEMMA LostIs ==
  ASSUME SolanaAssumption, IInv
  PROVE  /\ IsFiniteSet(Wasteful) /\ IsFiniteSet(Ended)
         /\ Cardinality(Wasteful) \in Nat /\ Cardinality(Ended) \in Nat
         /\ Cardinality(Ended) <= Cardinality(Wasteful)
         /\ crashes * Cardinality(Wasteful) \in Nat
         /\ Lost \in Nat
<1>1. IsFiniteSet(Proposals)
  BY DEF SolanaAssumption, SolSubscriberAssumption
<1>2. IsFiniteSet(Wasteful)
  BY <1>1, FS_Subset DEF Wasteful
<1>3. Ended \subseteq Wasteful
  BY DEF Ended
<1>4. IsFiniteSet(Ended) /\ Cardinality(Ended) <= Cardinality(Wasteful)
  BY <1>2, <1>3, FS_Subset
<1>5. Cardinality(Wasteful) \in Nat /\ Cardinality(Ended) \in Nat
  BY <1>2, <1>4, FS_CardinalityType
<1>6. crashes \in Nat /\ failures \in Nat
  BY Numbers
<1>7. crashes * Cardinality(Wasteful) \in Nat
  BY <1>5, <1>6
<1> QED BY <1>2, <1>4, <1>5, <1>6, <1>7 DEF Lost

(* What was lost stays lost, and to what is lost more there is one more. *)
LEMMA LostGrows ==
  ASSUME SolanaAssumption, IInv, IInv', Onward,
         failures <= failures',
         \A q \in Proposals : pc[q] # "idle" => pc'[q] # "idle",
         \A q \in pending' : q \in pending \/ pc[q] = "idle"
  PROVE  /\ Lost <= Lost'
         /\ failures' = failures + 1 => Lost + 1 <= Lost'
         /\ \A q \in Wasteful : q \in pending /\ pc'[q] # "idle" /\ q \notin pending' => Lost + 1 <= Lost'
<1>1. Wasteful' = Wasteful
  BY DEF Wasteful, Usable, Data, Onward
<1>2. Ended \subseteq Ended'
  BY <1>1 DEF Ended, Wasteful
<1>3. /\ IsFiniteSet(Ended) /\ IsFiniteSet(Ended')
      /\ Cardinality(Ended) \in Nat /\ Cardinality(Ended') \in Nat
      /\ crashes * Cardinality(Wasteful) \in Nat
      /\ crashes' * Cardinality(Wasteful') = crashes * Cardinality(Wasteful)
      /\ failures \in Nat /\ failures' \in Nat
  <2>1. IsFiniteSet(Ended') /\ Cardinality(Ended') \in Nat
    <3>1. Ended' \subseteq Wasteful
      BY <1>1 DEF Ended
    <3> QED BY <3>1, LostIs, FS_Subset, FS_CardinalityType
  <2> QED BY <1>1, <2>1, LostIs DEF Onward, IInv, TypeOK, SolTypeOK
<1>4. Cardinality(Ended) <= Cardinality(Ended')
  BY <1>2, <1>3, FS_Subset
<1>5. ASSUME NEW q \in Wasteful, q \in pending, pc'[q] # "idle", q \notin pending'
      PROVE  Cardinality(Ended) + 1 <= Cardinality(Ended')
  <2>1. q \in Ended' /\ q \notin Ended
    BY <1>1, <1>5 DEF Ended
  <2>2. Ended \cup {q} \subseteq Ended'
    BY <1>2, <2>1
  <2>3. Cardinality(Ended \cup {q}) = Cardinality(Ended) + 1
    BY <1>3, <2>1, FS_AddElement
  <2>4. Cardinality(Ended \cup {q}) <= Cardinality(Ended')
    BY <1>3, <2>2, FS_Subset
  <2> QED BY <2>3, <2>4
<1>6. Lost' = failures' + crashes * Cardinality(Wasteful) + Cardinality(Ended')
  BY <1>3 DEF Lost
<1>7. Lost = failures + crashes * Cardinality(Wasteful) + Cardinality(Ended)
  BY DEF Lost
<1>8. Lost <= Lost' /\ (failures' = failures + 1 => Lost + 1 <= Lost')
  BY <1>3, <1>4, <1>6, <1>7
<1>9. ASSUME NEW q \in Wasteful, q \in pending, pc'[q] # "idle", q \notin pending'
       PROVE  Lost + 1 <= Lost'
  BY <1>3, <1>5, <1>6, <1>7, <1>9
<1> QED BY <1>8, <1>9

LEMMA LostType ==
  ASSUME SolanaAssumption, IInv, IInv', Onward PROVE Lost' \in Nat
<1>1. Wasteful' = Wasteful /\ Ended' \subseteq Wasteful
  BY DEF Ended, Wasteful, Usable, Data, Onward
<1>2. Cardinality(Ended') \in Nat /\ crashes * Cardinality(Wasteful) \in Nat
  BY <1>1, LostIs, FS_Subset, FS_CardinalityType
<1>3. failures' \in Nat
  BY DEF IInv, TypeOK, SolTypeOK
<1>4. Lost' = failures' + crashes * Cardinality(Wasteful) + Cardinality(Ended')
  BY <1>1 DEF Lost, Onward
<1> QED BY <1>2, <1>3, <1>4

LEMMA MoreWaits ==
  ASSUME SolanaAssumption, IInv, NEW a \in Nat, NEW b \in Nat, a <= b
  PROVE  /\ a * Patience \in Nat /\ b * Patience \in Nat
         /\ a * Patience <= b * Patience
         /\ (1 + a) * Patience = a * Patience + Patience
<1>1. Patience \in Nat
  BY Numbers
<1> QED BY <1>1, Products

LEMMA WaitsAre ==
  ASSUME SolanaAssumption, IInv, NEW q \in Proposals
  PROVE  Waits(q) \in Nat /\ Lost + 1 <= Waits(q) /\ Patience <= Waits(q) * Patience
<1>1. Lost \in Nat /\ Patience \in Nat
  BY LostIs, Numbers
<1>2. Waits(q) \in Nat /\ Lost + 1 <= Waits(q) /\ 1 <= Waits(q)
  BY <1>1 DEF Waits
<1>3. 1 * Patience <= Waits(q) * Patience
  BY <1>2, MoreWaits
<1> QED BY <1>1, <1>2, <1>3

(* The difference to an event that is not ahead of our clock does not wrap. *)
LEMMA AgeIs ==
  ASSUME SolanaAssumption, IInv, NEW q \in Proposals, ClockFits(q), created[q] # 0, created[q] <= clock
  PROVE  Minus(clock, created[q]) = clock - created[q]
<1>1. /\ clock \in Nat /\ created[q] \in Nat /\ clock <= MaxClock
      /\ MaxClock \in Nat /\ Wrap \in Nat /\ Wrap > MaxClock
  BY Numbers DEF ClockFits, SolanaAssumption, SolSubscriberAssumption
<1>2. clock - created[q] \in 0 .. Wrap - 1 /\ Wrap \in Nat \ {0}
  BY <1>1
<1>3. clock + Wrap - created[q] = Wrap + (clock - created[q])
  BY <1>1
<1>4. (clock + Wrap - created[q]) % Wrap = clock - created[q]
  BY <1>2, <1>3, NatModulo
<1> QED BY <1>4 DEF Minus

(* What a round of checks makes of an entry that is due. *)
LEMMA RescheduledFits ==
  ASSUME SolanaAssumption, IInv, NEW q \in Proposals, q \in pending,
         ClockFits(q), EntryFits(q), clock > entry[q].time,
         NEW m, m = Rescheduled(entry[q])
  PROVE  /\ m.asked = entry[q].asked /\ m.time \in Nat /\ m.delay \in Nat
         /\ clock <= m.time /\ m.time <= clock + Longest
         /\ \/ m.delay = FirstDelay
            \/ m.asked <= m.time /\ m.delay + m.asked <= m.time + FirstDelay
<1> DEFINE n == entry[q]
           Young == [n EXCEPT !.time = clock]
           Older == [n EXCEPT !.time = clock + n.delay, !.delay = 2 * @]
           Old == [n EXCEPT !.time = clock + Interval]
           age == Minus(clock, n.created)
<1>1. /\ clock \in Nat /\ Longest \in Nat /\ Interval <= Longest /\ 2 * Later <= Longest
      /\ n \in Entry /\ n.asked \in Nat /\ n.time \in Nat /\ n.delay \in Nat
      /\ created[q] \in Nat
  BY Numbers
<1>2. Interval \in Nat /\ Soon \in Nat /\ Later \in Nat /\ FirstDelay \in Nat /\ FirstDelay <= Later
  BY DEF SolanaAssumption, SolSubscriberAssumption
<1>3. /\ n.asked <= clock /\ created[q] <= n.asked + 1
      /\ n.delay = FirstDelay \/ (n.asked <= n.time /\ n.delay + n.asked <= n.time + FirstDelay)
  BY DEF EntryFits
<1>4. n.created = created[q] /\ created[q] # 0
  BY DEF IInv, Fits, QuestionFits, NothingBefore
<1>5. n.delay + n.asked <= clock + FirstDelay
  BY <1>1, <1>2, <1>3
<1>6. CASE m = Young
  <2>1. m.asked = n.asked /\ m.time = clock /\ m.delay = n.delay
    BY <1>1, <1>6 DEF Entry
  <2> QED BY <1>1, <1>2, <1>3, <2>1
<1>7. CASE m = Old
  <2>1. m.asked = n.asked /\ m.time = clock + Interval /\ m.delay = n.delay
    BY <1>1, <1>7 DEF Entry
  <2> QED BY <1>1, <1>2, <1>3, <2>1
<1>8. CASE m = Older /\ age \in Soon + 1 .. Later
  <2>1. m.asked = n.asked /\ m.time = clock + n.delay /\ m.delay = 2 * n.delay
    BY <1>1, <1>8 DEF Entry
  <2>2. n.delay <= 2 * Later
    <3>1. CASE n.delay = FirstDelay
      BY <1>2, <3>1
    <3>2. CASE n.delay # FirstDelay
      <4>1. n.asked <= n.time /\ n.delay + n.asked <= n.time + FirstDelay
        BY <1>3, <3>2
      <4>2. created[q] <= clock
        BY <1>1, <1>3, <4>1
      <4>3. clock - created[q] <= Later
        BY <1>1, <1>2, <1>4, <1>8, <4>2, AgeIs
      <4> QED BY <1>1, <1>2, <1>3, <4>1, <4>3
    <3> QED BY <3>1, <3>2
  <2> QED BY <1>1, <1>2, <1>3, <1>5, <2>1, <2>2
<1>9. m = Young \/ m = Old \/ (m = Older /\ age \in Soon + 1 .. Later)
  BY DEF Rescheduled
<1> QED BY <1>6, <1>7, <1>8, <1>9

(* An entry that nobody touches, while no time passes and nothing is forgotten   *)
(* of what was lost.                                                             *)
LEMMA WaitFrame ==
  ASSUME SolanaAssumption, SoonInv, IInv', Onward, NEW q \in Proposals, clock' = clock,
         created'[q] = created[q], SameAccount(q), ran' = ran, Lost <= Lost',
         q \in pending' => /\ q \in pending /\ entry'[q] = entry[q]
                           /\ q \in toCheck' <=> q \in toCheck
  PROVE  ClockFits(q)' /\ EntryFits(q)' /\ WaitFits(q)'
<1>1. ClockFits(q) /\ EntryFits(q) /\ WaitFits(q) /\ Data(q)' = Data(q)
  BY DEF SoonInv, WInv, Onward, Data
<1>2. ClockFits(q)'
  BY <1>1 DEF ClockFits, SameAccount
<1>3. EntryFits(q)'
  BY <1>1 DEF EntryFits, Longest
<1>4. WaitFits(q)'
  <2> SUFFICES ASSUME q \in pending', account'[q] = "ready"
               PROVE  entry'[q].time <= Since(q)' + Waits(q)' * Patience
    BY DEF WaitFits, Patience
  <2>1. entry[q].time <= Since(q) + Waits(q) * Patience
    BY <1>1 DEF WaitFits, SameAccount
  <2>2. Since(q)' = Since(q)
    BY DEF Since, SameAccount
  <2>3. Waits(q) \in Nat /\ Waits(q)' \in Nat /\ Waits(q) <= Waits(q)'
    <3>1. Lost \in Nat /\ Lost' \in Nat
      BY LostIs, LostType DEF SoonInv
    <3> QED BY <3>1 DEF Waits
  <2>4. /\ Waits(q) * Patience \in Nat /\ Waits(q)' * Patience \in Nat
        /\ Waits(q) * Patience <= Waits(q)' * Patience
    BY <2>3, MoreWaits DEF SoonInv
  <2>5. Since(q) \in Nat /\ entry[q].time \in Nat
    BY Numbers DEF SoonInv
  <2> QED BY <2>1, <2>2, <2>4, <2>5
<1> QED BY <1>2, <1>3, <1>4

-----------------------------------------------------------------------------
(* The steps                                                                 *)

LEMMA WaitInit ==
  ASSUME SolanaAssumption, Init PROVE WInv
<1> SUFFICES ASSUME NEW p \in Proposals PROVE ClockFits(p) /\ EntryFits(p) /\ WaitFits(p)
  BY DEF WInv
<1>1. clock = 1 /\ readyAt[p] = 0 /\ created[p] = 0 /\ p \notin pending
  BY DEF Init, SolInit
<1> QED BY <1>1 DEF ClockFits, EntryFits, WaitFits

(* Nobody gets out of pending but to end its wait, and no task starts anew. *)
LEMMA LostNext ==
  ASSUME SolanaAssumption, SoonInv, IInv', Onward, Next \/ UNCHANGED vars, ~Crash
  PROVE  /\ failures \in Nat /\ failures' \in Nat /\ failures <= failures'
         /\ \A q \in Proposals : pc[q] # "idle" => pc'[q] # "idle"
         /\ \A q \in pending' : q \in pending \/ pc[q] = "idle"
<1> USE DEF SoonInv, IInv, TypeOK, SolTypeOK
<1>1. CASE NextTick
  BY <1>1 DEF NextTick, Tick, Aside, subscriberVars, taskVars
<1>2. CASE LoopStep /\ Aside
  BY <1>2 DEF LoopStep, BeginRound, EndRound, CheckAccount, Fails, Keep, Close, Unusable, Aside, taskVars
<1>3. ASSUME NEW p \in Proposals, TaskStep(p)
      PROVE  /\ failures <= failures' /\ pending' = pending
             /\ \A q \in Proposals : pc[q] # "idle" => pc'[q] # "idle"
  BY <1>3 DEF TaskStep, Verified, CheckVoted, SendVote, ReadStatus, Execute, Deliver, Fails,
              GoTo, AfterCheck, AfterFailure, solVars, subscriberVars
<1>4. ASSUME NEW p \in Proposals, Start(p)
      PROVE  /\ failures' = failures /\ pending' = pending \cup {p} /\ pc[p] = "idle"
             /\ \A q \in Proposals : pc[q] # "idle" => pc'[q] # "idle"
  BY <1>4 DEF Start, Ask, GoTo
<1>5. ASSUME NEW p \in Proposals,
             (Make(p) /\ Aside) \/ Decide(p) \/ (\E v \in Votes : Land(p, v))
             \/ \E time \in {clock, clock + 1} : Create(p, time)
      PROVE  UNCHANGED <<failures, pc, pending>>
  BY <1>5 DEF Make, Decide, Land, Create, Aside, solVars, subscriberVars, taskVars
<1>6. CASE UNCHANGED vars
  BY <1>6 DEF vars, solVars, subscriberVars, taskVars
<1>7. ASSUME NEW p \in Proposals, TaskStep(p) \/ Start(p) \/ (Make(p) /\ Aside) \/ Decide(p)
             \/ (\E v \in Votes : Land(p, v)) \/ \E time \in {clock, clock + 1} : Create(p, time)
      PROVE  /\ failures \in Nat /\ failures' \in Nat /\ failures <= failures'
             /\ \A q \in Proposals : pc[q] # "idle" => pc'[q] # "idle"
             /\ \A q \in pending' : q \in pending \/ pc[q] = "idle"
  BY <1>3, <1>4, <1>5, <1>7
<1> QED BY <1>1, <1>2, <1>6, <1>7 DEF Next

(* The chains and the event's task leave every entry alone. *)
LEMMA OutsideWaits ==
  ASSUME SolanaAssumption, SoonInv, IInv', Onward, Lost <= Lost',
         NEW p \in Proposals, TaskStep(p) \/ Decide(p) \/ \E v \in Votes : Land(p, v)
  PROVE  WInv'
<1>1. UNCHANGED <<clock, account, readyAt, pending, entry, toCheck, ran, created>>
  BY DEF TaskStep, Verified, CheckVoted, SendVote, ReadStatus, Execute, Deliver, Decide, Land,
         solVars, chainVars, subscriberVars, eventVars
<1> QED BY <1>1, WaitFrame DEF WInv, SameAccount

LEMMA CreateWaits ==
  ASSUME SolanaAssumption, SoonInv, IInv', Onward, Lost <= Lost', NEW p \in Proposals,
         NEW time \in {clock, clock + 1}, Create(p, time)
  PROVE  WInv'
<1>1. /\ UNCHANGED <<clock, account, readyAt, pending, entry, toCheck, ran, world>>
      /\ created' = [created EXCEPT ![p] = time] /\ created[p] = 0
      /\ Data(p) # "absent" /\ time + Expired < MaxClock
  BY DEF Create, solVars, chainVars, subscriberVars
<1>2. /\ created \in [Proposals -> Nat] /\ clock \in Nat /\ readyAt[p] <= clock
      /\ Expired \in Nat /\ MaxClock \in Nat
  BY DEF SoonInv, WInv, ClockFits, IInv, TypeOK, SolTypeOK, SolanaAssumption, SolSubscriberAssumption
<1>3. ASSUME NEW q \in Proposals, q # p PROVE ClockFits(q)' /\ EntryFits(q)' /\ WaitFits(q)'
  BY <1>1, <1>2, <1>3, WaitFrame DEF SameAccount
<1>4. p \notin pending'
  BY <1>1 DEF SoonInv, IInv, Fits, QuestionFits, NothingBefore
<1>5. ClockFits(p)'
  BY <1>1, <1>2 DEF ClockFits, Data
<1> QED BY <1>3, <1>4, <1>5 DEF WInv, EntryFits, WaitFits

(* A proposal that gets ready now is looked up within one delay. *)
LEMMA MakeWaits ==
  ASSUME SolanaAssumption, SoonInv, IInv', Onward, Lost <= Lost', NEW p \in Proposals,
         Make(p), Aside
  PROVE  WInv'
<1>1. UNCHANGED <<clock, pending, entry, toCheck, ran, world, created>>
  BY DEF Make, Aside, subscriberVars, eventVars
<1>2. /\ account \in [Proposals -> {"none", "made", "ready"}] /\ readyAt \in [Proposals -> Nat]
      /\ clock \in Nat
  BY DEF SoonInv, IInv, TypeOK, SolTypeOK
<1>3. ASSUME NEW q \in Proposals, q # p PROVE ClockFits(q)' /\ EntryFits(q)' /\ WaitFits(q)'
  BY <1>1, <1>2, <1>3, WaitFrame DEF SameAccount, Make
<1>4. \/ account'[p] # "ready" /\ readyAt'[p] = readyAt[p]
      \/ account'[p] = "ready" /\ readyAt'[p] = clock
  BY <1>2 DEF Make
<1>5. ClockFits(p) /\ EntryFits(p)
  BY DEF SoonInv, WInv
<1>6. ClockFits(p)'
  BY <1>1, <1>2, <1>4, <1>5 DEF ClockFits, Data
<1>7. EntryFits(p)'
  BY <1>1, <1>5 DEF EntryFits, Longest
<1>8. WaitFits(p)'
  <2> SUFFICES ASSUME p \in pending', account'[p] = "ready"
               PROVE  entry'[p].time <= Since(p)' + Waits(p)' * Patience
    BY DEF WaitFits, Patience
  <2>1. entry'[p].time = entry[p].time /\ entry[p].time <= clock + Longest
    BY <1>1, <1>5 DEF EntryFits
  <2>2. Since(p)' \in Nat /\ clock <= Since(p)'
    BY <1>1, <1>2, <1>4, Numbers DEF Since, SoonInv
  <2>3. Waits(p)' \in Nat /\ 1 <= Waits(p)'
    BY LostType DEF Waits, SoonInv
  <2>4. 1 * Patience <= Waits(p)' * Patience /\ Waits(p)' * Patience \in Nat
    BY <2>3, MoreWaits DEF SoonInv
  <2> QED BY <1>2, <2>1, <2>2, <2>4, Numbers DEF SoonInv
<1> QED BY <1>3, <1>6, <1>7, <1>8 DEF WInv

LEMMA StartWaits ==
  ASSUME SolanaAssumption, SoonInv, IInv', Onward, Lost <= Lost', NEW p \in Proposals, Start(p)
  PROVE  WInv'
<1>1. /\ UNCHANGED <<clock, account, readyAt, toCheck, ran, created, world>>
      /\ pending' = pending \cup {p} /\ created[p] > 0
      /\ entry' = [entry EXCEPT ![p] = [created |-> created[p], delay |-> FirstDelay,
                                        time |-> 0, asked |-> clock]]
  BY DEF Start, Ask, chainVars, eventVars
<1>2. entry \in [Proposals -> Entry] /\ clock \in Nat /\ created[p] \in Nat
  BY DEF SoonInv, IInv, TypeOK, SolTypeOK
<1>3. ASSUME NEW q \in Proposals, q # p PROVE ClockFits(q)' /\ EntryFits(q)' /\ WaitFits(q)'
  BY <1>1, <1>2, <1>3, WaitFrame DEF SameAccount
<1>4. ClockFits(p)
  BY DEF SoonInv, WInv
<1>5. ClockFits(p)'
  BY <1>1, <1>4 DEF ClockFits, Data
<1>6. /\ entry'[p].delay = FirstDelay /\ entry'[p].time = 0 /\ entry'[p].asked = clock
  BY <1>1, <1>2
<1>7. Longest \in Nat /\ FirstDelay \in Nat
  BY Numbers DEF SoonInv, SolanaAssumption, SolSubscriberAssumption
<1>8. EntryFits(p)'
  BY <1>1, <1>2, <1>4, <1>6, <1>7 DEF EntryFits, ClockFits, Longest
<1>9. WaitFits(p)'
  <2>1. Waits(p)' \in Nat /\ Since(p)' \in Nat
    BY <1>1, <1>2, <1>6, LostType, Numbers DEF Waits, Since, SoonInv
  <2>2. Waits(p)' * Patience \in Nat
    BY <2>1, MoreWaits DEF SoonInv
  <2> QED BY <1>6, <2>1, <2>2 DEF WaitFits, Patience
<1> QED BY <1>3, <1>5, <1>8, <1>9 DEF WInv

(* Who is due has waited no longer than it was to wait, since the loop runs at    *)
(* every time.                                                                   *)
LEMMA BeginRoundWaits ==
  ASSUME SolanaAssumption, SoonInv, IInv', Onward, Lost <= Lost', BeginRound, Aside
  PROVE  WInv'
<1> SUFFICES ASSUME NEW q \in Proposals PROVE ClockFits(q)' /\ EntryFits(q)' /\ WaitFits(q)'
  BY DEF WInv
<1> DEFINE gone == {p \in pending : IsExpired(p)}
           due == {p \in pending \ gone : clock > entry[p].time}
<1>1. /\ UNCHANGED <<clock, account, readyAt, created, world>> /\ ~checking
      /\ pending' = pending \ gone /\ toCheck' = due /\ ran' = clock
      /\ entry'[q] = IF q \in gone THEN NoEntry
                     ELSE IF q \in due THEN Rescheduled(entry[q]) ELSE entry[q]
  BY DEF BeginRound, Aside, chainVars, eventVars
<1>2. ClockFits(q) /\ EntryFits(q) /\ WaitFits(q)
  BY DEF SoonInv, WInv
<1>3. ClockFits(q)'
  BY <1>1, <1>2 DEF ClockFits, Data
<1>4. q \notin toCheck
  BY <1>1 DEF SoonInv, IInv, Fits, QuestionFits
<1>5. CASE q \notin pending'
  BY <1>3, <1>5 DEF EntryFits, WaitFits
<1>6. CASE q \in pending' /\ q \notin due
  <2>1. /\ entry'[q] = entry[q] /\ clock <= entry[q].time /\ q \in pending
        /\ clock' = clock /\ created' = created
    BY <1>1, <1>6, Numbers DEF SoonInv
  <2>2. EntryFits(q)'
    BY <1>2, <2>1 DEF EntryFits, Longest
  <2>3. WaitFits(q)'
    <3> SUFFICES ASSUME account[q] = "ready"
                 PROVE  entry[q].time <= Since(q) + Waits(q)' * Patience
      BY <1>1, <2>1 DEF WaitFits, Patience, Since
    <3>1. entry[q].time <= Since(q) + Waits(q) * Patience
      BY <1>2, <2>1 DEF WaitFits
    <3>2. Waits(q) \in Nat /\ Waits(q)' \in Nat /\ Waits(q) <= Waits(q)'
      BY <1>1, <1>4, <1>6, LostIs, LostType DEF Waits, SoonInv
    <3>3. /\ Waits(q) * Patience \in Nat /\ Waits(q)' * Patience \in Nat
          /\ Waits(q) * Patience <= Waits(q)' * Patience
      BY <3>2, MoreWaits DEF SoonInv
    <3> QED BY <3>1, <3>3, Numbers DEF SoonInv
  <2> QED BY <1>3, <2>2, <2>3
<1>7. CASE q \in pending' /\ q \in due
  <2>1. /\ entry'[q] = Rescheduled(entry[q]) /\ clock > entry[q].time /\ q \in pending
        /\ clock' = clock /\ created' = created /\ clock \in Nat
    BY <1>1, <1>7, Numbers DEF SoonInv
  <2>2. /\ entry'[q].asked = entry[q].asked /\ entry'[q].time \in Nat
        /\ entry'[q].delay \in Nat
        /\ clock <= entry'[q].time /\ entry'[q].time <= clock + Longest
        /\ \/ entry'[q].delay = FirstDelay
           \/ /\ entry'[q].asked <= entry'[q].time
              /\ entry'[q].delay + entry'[q].asked <= entry'[q].time + FirstDelay
    BY <1>2, <2>1, RescheduledFits DEF SoonInv
  <2>3. EntryFits(q)'
    <3>1. entry[q].asked <= clock /\ created[q] <= entry[q].asked + 1
      BY <1>2, <2>1 DEF EntryFits
    <3>2. clock <= entry'[q].time + 1
      BY <2>1, <2>2
    <3> QED BY <1>1, <2>1, <2>2, <3>1, <3>2 DEF EntryFits, Longest
  <2>4. WaitFits(q)'
    <3> SUFFICES ASSUME account[q] = "ready"
                 PROVE  entry'[q].time <= Since(q) + Waits(q)' * Patience
      BY <1>1, <2>2 DEF WaitFits, Patience, Since
    <3> DEFINE L == (1 + Lost) * Patience
    <3>1. Lost \in Nat /\ Lost' \in Nat /\ Lost <= Lost'
      BY LostIs, LostType DEF SoonInv
    <3>2. entry[q].time <= Since(q) + L
      <4>1. Waits(q) = 1 + Lost
        BY <1>4 DEF Waits
      <4> QED BY <1>2, <2>1, <4>1 DEF WaitFits
    <3>3. Waits(q)' = 2 + Lost'
      BY <1>1, <1>7 DEF Waits
    <3>4. /\ 1 + Lost \in Nat /\ 2 + Lost \in Nat /\ 2 + Lost' \in Nat
          /\ 1 + (1 + Lost) = 2 + Lost /\ 2 + Lost <= 2 + Lost'
      BY <3>1, Sums
    <3>5. /\ L \in Nat /\ (2 + Lost) * Patience = L + Patience
      BY <3>4, MoreWaits DEF SoonInv
    <3>6. /\ (2 + Lost) * Patience <= (2 + Lost') * Patience
          /\ (2 + Lost') * Patience \in Nat
      BY <3>4, MoreWaits DEF SoonInv
    <3>7. /\ Since(q) \in Nat /\ entry[q].asked <= Since(q) /\ entry[q].asked \in Nat
          /\ Patience = 1 + Longest /\ Longest \in Nat /\ entry[q].time \in Nat
      BY Numbers DEF SoonInv
    <3>8. clock <= entry[q].time + 1 \/ clock <= entry[q].asked + 1
      BY <1>2, <2>1 DEF EntryFits
    <3>9. entry'[q].time <= Since(q) + L + Patience
      BY <2>1, <2>2, <3>2, <3>5, <3>7, <3>8
    <3>10. L + Patience <= (2 + Lost') * Patience
      BY <3>5, <3>6
    <3>11. entry'[q].time <= Since(q) + (2 + Lost') * Patience
      <4> HIDE DEF L
      <4> QED BY <2>2, <3>5, <3>6, <3>7, <3>9, <3>10
    <3> QED BY <3>3, <3>11
  <2> QED BY <1>3, <2>3, <2>4
<1> QED BY <1>5, <1>6, <1>7

(* A proposal that was not looked up is not ready, or there was a loss. *)
LEMMA CheckAccountWaits ==
  ASSUME SolanaAssumption, SoonInv, IInv', Onward, NEW p \in Proposals, CheckAccount(p), Aside,
         Lost <= Lost',
         failures' = failures + 1 => Lost + 1 <= Lost',
         \A q \in Wasteful : q \in pending /\ pc'[q] # "idle" /\ q \notin pending' => Lost + 1 <= Lost'
  PROVE  WInv'
<1> SUFFICES ASSUME NEW q \in Proposals PROVE ClockFits(q)' /\ EntryFits(q)' /\ WaitFits(q)'
  BY DEF WInv
<1>1. /\ UNCHANGED <<clock, account, readyAt, created, world, ran, pc>>
      /\ p \in toCheck /\ p \in pending
  BY DEF CheckAccount, Aside, chainVars, eventVars, taskVars, SoonInv, IInv, Fits, QuestionFits
<1>2. q \in pending' => q \in pending /\ entry'[q] = entry[q]
  BY DEF CheckAccount, Keep, Close, Unusable, SoonInv, IInv, TypeOK, SolTypeOK
<1>3. toCheck' \subseteq toCheck
  BY DEF CheckAccount, Unusable, Passed
<1>4. CASE q \notin pending' \/ (q \in toCheck' <=> q \in toCheck)
  BY <1>1, <1>2, <1>4, WaitFrame DEF SameAccount
<1>5. CASE q \in pending' /\ q \in toCheck /\ q \notin toCheck'
  <2>1. ClockFits(q) /\ EntryFits(q) /\ WaitFits(q)
    BY DEF SoonInv, WInv
  <2>2. ClockFits(q)' /\ EntryFits(q)'
    BY <1>1, <1>2, <1>5, <2>1 DEF ClockFits, EntryFits, Data, Longest
  <2>3. Unusable(p) => Lost + 1 <= Lost'
    <3>1. pc[p] # "idle" /\ created[p] # 0
      BY <1>1 DEF SoonInv, IInv, Fits, QuestionFits, NothingBefore
    <3>2. Unusable(p) => p \in Wasteful /\ p \notin pending'
      BY <3>1 DEF Unusable, Close, Wasteful, SoonInv, WInv, ClockFits
    <3> QED BY <1>1, <3>1, <3>2
  <2>4. account[q] # "ready" \/ Lost + 1 <= Lost'
    BY <1>5, <2>3 DEF CheckAccount, Fails, Passed, Close
  <2>5. CASE account[q] # "ready"
    BY <1>1, <2>2, <2>5 DEF WaitFits
  <2>6. CASE Lost + 1 <= Lost' /\ account[q] = "ready"
    <3>1. Lost \in Nat /\ Lost' \in Nat
      BY LostIs, LostType DEF SoonInv
    <3>2. Waits(q) = 2 + Lost /\ Waits(q)' = 1 + Lost'
      BY <1>5 DEF Waits
    <3>3. Waits(q) \in Nat /\ Waits(q)' \in Nat /\ Waits(q) <= Waits(q)'
      <4>1. 2 + Lost \in Nat /\ 1 + Lost' \in Nat /\ 2 + Lost <= 1 + Lost'
        BY <2>6, <3>1, Sums
      <4> QED BY <3>2, <4>1
    <3>4. /\ Waits(q) * Patience \in Nat /\ Waits(q)' * Patience \in Nat
          /\ Waits(q) * Patience <= Waits(q)' * Patience
      BY <3>3, MoreWaits DEF SoonInv
    <3>5. entry[q].time <= Since(q) + Waits(q) * Patience
      BY <1>2, <1>5, <2>1, <2>6 DEF WaitFits
    <3>6. Since(q)' = Since(q) /\ entry'[q] = entry[q]
      BY <1>1, <1>2, <1>5 DEF Since
    <3>7. Since(q) \in Nat /\ entry[q].time \in Nat
      BY Numbers DEF SoonInv
    <3> QED BY <2>2, <3>4, <3>5, <3>6, <3>7 DEF WaitFits, Patience
  <2> QED BY <2>4, <2>5, <2>6
<1> QED BY <1>3, <1>4, <1>5

(* The loop has run at a time that ends. *)
LEMMA TickWaits ==
  ASSUME SolanaAssumption, SoonInv, IInv', Onward, Lost <= Lost', NextTick
  PROVE  WInv'
<1> SUFFICES ASSUME NEW q \in Proposals PROVE ClockFits(q)' /\ EntryFits(q)' /\ WaitFits(q)'
  BY DEF WInv
<1>1. /\ UNCHANGED <<account, readyAt, created, world, ran, pending, entry, toCheck>>
      /\ clock' = clock + 1 /\ clock < MaxClock /\ ran = clock
  BY DEF NextTick, Tick, Aside, eventVars, subscriberVars
<1>2. ClockFits(q) /\ EntryFits(q) /\ WaitFits(q)
  BY DEF SoonInv, WInv
<1>3. /\ clock \in Nat /\ created[q] \in Nat /\ readyAt[q] \in Nat /\ Longest \in Nat
      /\ entry[q].time \in Nat /\ entry[q].asked \in Nat /\ MaxClock \in Nat
  BY Numbers DEF SoonInv, SolanaAssumption, SolSubscriberAssumption
<1>4. ClockFits(q)'
  BY <1>1, <1>2, <1>3 DEF ClockFits, Data
<1>5. EntryFits(q)'
  BY <1>1, <1>2, <1>3 DEF EntryFits, Longest
<1>6. WaitFits(q)'
  <2>1. Waits(q) \in Nat /\ Waits(q)' \in Nat /\ Waits(q) <= Waits(q)'
    BY <1>1, LostIs, LostType DEF Waits, SoonInv
  <2>2. /\ Waits(q) * Patience \in Nat /\ Waits(q)' * Patience \in Nat
        /\ Waits(q) * Patience <= Waits(q)' * Patience
    BY <2>1, MoreWaits DEF SoonInv
  <2>3. Since(q)' = Since(q) /\ Since(q) \in Nat
    BY <1>1, Numbers DEF Since, SoonInv
  <2> QED BY <1>1, <1>2, <1>3, <2>2, <2>3 DEF WaitFits, Patience
<1> QED BY <1>4, <1>5, <1>6

LEMMA CrashWaits ==
  ASSUME SolanaAssumption, SoonInv, Crash PROVE WInv'
<1>1. UNCHANGED <<clock, readyAt, created, world>> /\ pending' = {}
  BY DEF Crash, SolCrash, chainVars
<1> QED BY <1>1 DEF SoonInv, WInv, ClockFits, EntryFits, WaitFits, Data

LEMMA WaitNext ==
  ASSUME SolanaAssumption, SoonInv, IInv', [Next]_vars PROVE WInv'
<1>1. CASE Crash
  BY <1>1, CrashWaits
<1>2. CASE ~Crash
  <2>1. Onward
    BY <1>2, OnwardAlways DEF SoonInv
  <2>2. /\ Lost <= Lost'
        /\ failures' = failures + 1 => Lost + 1 <= Lost'
        /\ \A q \in Wasteful : q \in pending /\ pc'[q] # "idle" /\ q \notin pending' => Lost + 1 <= Lost'
    BY <1>2, <2>1, LostNext, LostGrows DEF SoonInv
  <2>3. CASE EndRound /\ Aside
    BY <2>1, <2>2, <2>3, WaitFrame
       DEF EndRound, Aside, SameAccount, WInv, chainVars, eventVars
  <2>4. CASE UNCHANGED vars
    BY <2>1, <2>2, <2>4, WaitFrame
       DEF vars, SameAccount, WInv, solVars, chainVars, subscriberVars, eventVars
  <2>5. CASE LoopStep /\ Aside
    BY <2>1, <2>2, <2>3, <2>5, BeginRoundWaits, CheckAccountWaits DEF LoopStep
  <2> QED BY <1>2, <2>1, <2>2, <2>4, <2>5, OutsideWaits, CreateWaits, MakeWaits, StartWaits,
             TickWaits DEF Next
<1> QED BY <1>1, <1>2

(* The invariant of the waits: every entry's next check, and what it has lost. *)
THEOREM WaitInvariance == Spec => []SoonInv
<1>1. Init => SoonInv
  BY InitType, InitFits, WaitInit, SolSubscriberAssumption, SolanaVoteAssumption
     DEF IInv, SoonInv, SolanaAssumption
<1>2. SoonInv /\ [Next]_vars => SoonInv'
  BY NextType, NextFits, WaitNext, SolSubscriberAssumption, SolanaVoteAssumption
     DEF IInv, SoonInv, SolanaAssumption
<1> QED BY <1>1, <1>2, PTL DEF Spec

(* A proposal that is ready is looked up within one longest delay, and one more   *)
(* for each request that failed and each proposal that ended a round of checks,   *)
(* for any number of events, crashes and failures.                               *)
THEOREM ChecksCorrect == Spec => []SoonChecked
<1>1. SoonInv => SoonChecked
  <2> SUFFICES ASSUME SoonInv, NEW p \in pending \ toCheck, account[p] = "ready"
               PROVE  /\ entry[p].time <= Since(p) + (1 + Losses) * Patience
                      /\ ~checking /\ ran = clock => clock <= entry[p].time \/ entry[p].asked = clock
    BY DEF SoonChecked, Since
  <2>0. SolanaAssumption
    BY SolSubscriberAssumption, SolanaVoteAssumption DEF SolanaAssumption
  <2>1. p \in Proposals /\ EntryFits(p) /\ WaitFits(p)
    BY DEF SoonInv, WInv, IInv, TypeOK, SolTypeOK
  <2>2. Lost \in Nat /\ Losses \in Nat /\ Lost <= Losses
    <3>1. /\ crashes \in Nat /\ failures \in Nat
          /\ Cardinality(Wasteful) \in Nat /\ Cardinality(Ended) <= Cardinality(Wasteful)
          /\ Cardinality(Ended) \in Nat
          /\ crashes * Cardinality(Wasteful) \in Nat
      BY <2>0, Numbers, LostIs DEF SoonInv
    <3>2. (1 + crashes) * Cardinality(Wasteful) = crashes * Cardinality(Wasteful) + Cardinality(Wasteful)
      BY <3>1, Products
    <3>3. Losses = failures + (1 + crashes) * Cardinality(Wasteful)
      BY DEF Losses, Wasteful
    <3> QED BY <3>1, <3>2, <3>3 DEF Lost
  <2>3. Waits(p) = 1 + Lost
    BY DEF Waits
  <2>4. /\ (1 + Lost) * Patience \in Nat /\ (1 + Losses) * Patience \in Nat
        /\ (1 + Lost) * Patience <= (1 + Losses) * Patience
    <3>1. 1 + Lost \in Nat /\ 1 + Losses \in Nat /\ 1 + Lost <= 1 + Losses
      BY <2>2, Sums
    <3> QED BY <2>0, <3>1, MoreWaits DEF SoonInv
  <2>5. entry[p].time <= Since(p) + (1 + Lost) * Patience
    BY <2>1, <2>3 DEF WaitFits
  <2>6. Since(p) \in Nat /\ entry[p].time \in Nat
    BY <2>0, <2>1, Numbers DEF SoonInv
  <2> QED BY <2>1, <2>4, <2>5, <2>6 DEF EntryFits
<1> QED BY <1>1, WaitInvariance, PTL
================================================================================
