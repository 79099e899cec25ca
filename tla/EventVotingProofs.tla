--------------------------- MODULE EventVotingProofs ---------------------------
(***************************************************************************)
(* Theorems about EventVoting, for any events, bounds and family.          *)
(***************************************************************************)
EXTENDS EventVoting, TLAPS, FiniteSetTheorems, SequenceTheorems

-----------------------------------------------------------------------------
(* What the transactions of a contract do to its account.                    *)

\* A contract does not take back a vote, a decision or a payment.
Later(a, b) ==
  /\ a.voted => b.voted
  /\ a.status \in {"Confirmed", "Rejected"} => b.status = a.status
  /\ ~a.funded => ~b.funded
  /\ b.family = a.family /\ b.relay = a.relay /\ b.supported = a.supported

\* What is certain of an account once a transaction of this kind was executed.
Attests(kind, b) ==
  /\ kind = "ours" => b.voted
  /\ kind = "rejected" => b.status = "Rejected"
  /\ kind = "closed" => b.status = "Confirmed" /\ ~b.funded

\* A contract records a vote only once it is active.
Timely(a) == a.voted => a.status \in {"Pending", "Confirmed", "Rejected"}

\* What it is told by, and that a contract exists once it is deployed.
Records(e, a, kind, b) ==
  /\ Timely(a) => Timely(b)
  /\ b.voted /\ ~a.voted => kind # "created" /\ (kind = "ours" \/ b.status = "Rejected")
  /\ ~(deploys[e] > 0) => a.status # "none"

Transaction == [kind : Kinds \cup {"created"}, vote : BOOLEAN, to : Account]

LEMMA LaterTransitive ==
  ASSUME NEW a, NEW b, NEW c, Later(a, b), Later(b, c)
  PROVE  Later(a, c)
BY DEF Later

LEMMA TxProperty ==
  ASSUME NEW kind \in Kinds \cup {"created"}, NEW vote \in BOOLEAN, NEW b \in Account
  PROVE  /\ Tx(kind, vote, b) \in Transaction
         /\ Tx(kind, vote, b).kind = kind
         /\ Tx(kind, vote, b).to = b
BY DEF Tx, Transaction

LEMMA ConfirmedOrProperty ==
  ASSUME NEW a \in Account, TakesVotes(a), NEW b \in ConfirmedOr(a)
  PROVE  /\ b \in Account /\ b.status \in {a.status, "Confirmed"}
         /\ b.voted = a.voted /\ b.funded = a.funded
         /\ Later(a, b)
<1>1. CASE b = a
  BY <1>1 DEF Later
<1>2. CASE b = [a EXCEPT !.status = "Confirmed"]
  BY <1>2 DEF Account, Statuses, Later, TakesVotes
<1> QED
  BY <1>1, <1>2 DEF ConfirmedOr

\* Whatever transaction a contract executes: it leaves a proper account, takes
\* nothing back, and leaves what its kind says.
LEMMA TransactionsProperty ==
  ASSUME NEW e \in Events, NEW a \in Account, NEW ours \in BOOLEAN,
         NEW x \in Transactions(e, a, ours)
  PROVE  /\ x \in Transaction /\ Later(a, x.to) /\ Attests(x.kind, x.to)
         /\ x.to.status # "none" /\ (a.status # "none" => x.kind # "created")
         /\ Records(e, a, x.kind, x.to)
<1> DEFINE Goal(kind, vote, b) ==
             /\ kind \in Kinds \cup {"created"} /\ vote \in BOOLEAN /\ b \in Account
             /\ Later(a, b) /\ Attests(kind, b)
             /\ b.status # "none" /\ (a.status # "none" => kind # "created")
             /\ Records(e, a, kind, b)
<1>0. ASSUME NEW kind, NEW vote, NEW b, Goal(kind, vote, b), x = Tx(kind, vote, b)
      PROVE  /\ x \in Transaction /\ Later(a, x.to) /\ Attests(x.kind, x.to)
             /\ x.to.status # "none" /\ (a.status # "none" => x.kind # "created")
             /\ Records(e, a, x.kind, x.to)
  BY <1>0, TxProperty
<1>1. CASE x \in When(a.status = "none" /\ deploys[e] > 0,
                      {Tx("created", FALSE, [a EXCEPT !.status = "Initializing"])})
  <2>1. /\ x = Tx("created", FALSE, [a EXCEPT !.status = "Initializing"])
        /\ a.status = "none" /\ deploys[e] > 0
    BY <1>1 DEF When
  <2>2. Goal("created", FALSE, [a EXCEPT !.status = "Initializing"])
    BY <2>1 DEF Account, Statuses, Kinds, Later, Attests, Records, Timely
  <2> QED
    BY <1>0, <2>1, <2>2
<1>2. CASE x \in When(a.status = "Initializing",
                      {Tx("activate", FALSE, [a EXCEPT !.status = "Pending"])})
  <2>1. x = Tx("activate", FALSE, [a EXCEPT !.status = "Pending"]) /\ a.status = "Initializing"
    BY <1>2 DEF When
  <2>2. Goal("activate", FALSE, [a EXCEPT !.status = "Pending"])
    BY <2>1 DEF Account, Statuses, Kinds, Later, Attests, Records, Timely
  <2> QED
    BY <1>0, <2>1, <2>2
<1>3. CASE x \in When(TakesVotes(a), {Tx("foreign", FALSE, b) : b \in ConfirmedOr(a)})
  <2>1. PICK b \in ConfirmedOr(a) : TakesVotes(a) /\ x = Tx("foreign", FALSE, b)
    BY <1>3 DEF When
  <2> QED
    BY <1>0, <2>1, ConfirmedOrProperty DEF Kinds, Attests, TakesVotes, Records, Timely
<1>4. CASE x \in When(a.status = "Pending",
                      {Tx("rejected", FALSE, [a EXCEPT !.status = "Rejected"])})
  <2>1. x = Tx("rejected", FALSE, [a EXCEPT !.status = "Rejected"]) /\ a.status = "Pending"
    BY <1>4 DEF When
  <2>2. Goal("rejected", FALSE, [a EXCEPT !.status = "Rejected"])
    BY <2>1 DEF Account, Statuses, Kinds, Later, Attests, Records, Timely
  <2> QED
    BY <1>0, <2>1, <2>2
<1>5. CASE x \in When(TakesVotes(a) /\ ours /\ ~a.voted /\ a.relay,
                 {Tx("ours", TRUE, [b EXCEPT !.voted = TRUE]) : b \in ConfirmedOr(a)}
                 \cup When(a.status = "Pending",
                           {Tx("rejected", TRUE,
                               [a EXCEPT !.status = "Rejected", !.voted = TRUE])}))
  <2>1. CASE \E b \in ConfirmedOr(a) : TakesVotes(a) /\ x = Tx("ours", TRUE, [b EXCEPT !.voted = TRUE])
    <3>1. PICK b \in ConfirmedOr(a) : TakesVotes(a) /\ x = Tx("ours", TRUE, [b EXCEPT !.voted = TRUE])
      BY <2>1
    <3>2. b \in Account /\ b.funded = a.funded /\ b.status \in {"Pending", "Confirmed"} /\ Later(a, b)
      BY <3>1, ConfirmedOrProperty DEF TakesVotes
    <3>3. Goal("ours", TRUE, [b EXCEPT !.voted = TRUE])
      BY <2>1, <3>2 DEF Account, Kinds, Later, Attests, Records, Timely, TakesVotes
    <3> QED
      BY <1>0, <3>1, <3>3
  <2>2. CASE /\ a.status = "Pending"
             /\ x = Tx("rejected", TRUE, [a EXCEPT !.status = "Rejected", !.voted = TRUE])
    <3>1. Goal("rejected", TRUE, [a EXCEPT !.status = "Rejected", !.voted = TRUE])
      BY <2>2 DEF Account, Statuses, Kinds, Later, Attests, Records, Timely
    <3> QED
      BY <1>0, <2>2, <3>1
  <2> QED
    BY <1>5, <2>1, <2>2 DEF When
<1>6. CASE x \in When(CollectsAll(a) /\ a.status = "Confirmed" /\ a.funded,
                      {Tx("closed", FALSE, [a EXCEPT !.funded = FALSE])})
  <2>1. x = Tx("closed", FALSE, [a EXCEPT !.funded = FALSE]) /\ a.status = "Confirmed"
    BY <1>6 DEF When
  <2>2. Goal("closed", FALSE, [a EXCEPT !.funded = FALSE])
    BY <2>1 DEF Account, Statuses, Kinds, Later, Attests, Records, Timely
  <2> QED
    BY <1>0, <2>1, <2>2
<1> QED
  BY <1>1, <1>2, <1>3, <1>4, <1>5, <1>6 DEF Transactions

\* The account at the end of a block.
After(e, run) == IF run = <<>> THEN acc[e] ELSE run[Len(run)].to

LEMMA RunsProperty ==
  ASSUME TypeOK, NEW e \in Events, NEW ours \in BOOLEAN, NEW run \in Runs(e, ours)
  PROVE  /\ run \in Seq(Transaction)
         /\ After(e, run) \in Account
         /\ Later(acc[e], After(e, run))
         /\ \A i \in 1 .. Len(run) : Attests(run[i].kind, After(e, run))
         /\ \A i \in 2 .. Len(run) : run[i].kind # "created"
<1>0. acc[e] \in Account
  BY DEF TypeOK
<1>1. CASE run = <<>>
  BY <1>0, <1>1 DEF After, Later
<1>2. ASSUME NEW x \in Transactions(e, acc[e], ours), run = <<x>>
      PROVE  /\ run \in Seq(Transaction)
             /\ After(e, run) \in Account
             /\ Later(acc[e], After(e, run))
             /\ \A i \in 1 .. Len(run) : Attests(run[i].kind, After(e, run))
             /\ \A i \in 2 .. Len(run) : run[i].kind # "created"
  <2>1. x \in Transaction /\ Later(acc[e], x.to) /\ Attests(x.kind, x.to)
    BY <1>0, TransactionsProperty
  <2>2. run # <<>> /\ Len(run) = 1 /\ run[1] = x /\ run \in Seq(Transaction)
    BY <1>2, <2>1
  <2> QED
    BY <2>1, <2>2 DEF After, Transaction
<1>3. ASSUME NEW x \in Transactions(e, acc[e], ours),
             NEW y \in Transactions(e, x.to, ours), run = <<x, y>>
      PROVE  /\ run \in Seq(Transaction)
             /\ After(e, run) \in Account
             /\ Later(acc[e], After(e, run))
             /\ \A i \in 1 .. Len(run) : Attests(run[i].kind, After(e, run))
             /\ \A i \in 2 .. Len(run) : run[i].kind # "created"
  <2>1. /\ x \in Transaction /\ Later(acc[e], x.to) /\ Attests(x.kind, x.to)
        /\ x.to.status # "none"
    BY <1>0, TransactionsProperty
  <2>2. x.to \in Account
    BY <2>1 DEF Transaction
  <2>3. /\ y \in Transaction /\ Later(x.to, y.to) /\ Attests(y.kind, y.to)
        /\ y.kind # "created"
    BY <2>1, <2>2, TransactionsProperty
  <2>4. run # <<>> /\ Len(run) = 2 /\ run[1] = x /\ run[2] = y /\ run \in Seq(Transaction)
    BY <1>3, <2>1, <2>3
  <2>5. Later(acc[e], y.to) /\ Attests(x.kind, y.to)
    BY <2>1, <2>3 DEF Later, Attests
  <2> QED
    BY <2>3, <2>4, <2>5 DEF After, Transaction
<1> QED
  BY <1>1, <1>2, <1>3 DEF Runs

\* A block that records our vote holds the transaction that did, and there is no
\* block for an event that was never deployed.
LEMMA RunsRecord ==
  ASSUME TypeOK, NEW e \in Events, NEW ours \in BOOLEAN, NEW run \in Runs(e, ours)
  PROVE  /\ Timely(acc[e]) => Timely(After(e, run))
         /\ After(e, run).voted /\ ~acc[e].voted =>
              \E i \in 1 .. Len(run) :
                /\ run[i].kind # "created"
                /\ run[i].kind = "ours" \/ After(e, run).status = "Rejected"
         /\ deploys[e] = 0 /\ acc[e].status = "none" => run = <<>>
<1>0. acc[e] \in Account
  BY DEF TypeOK
<1>1. CASE run = <<>>
  BY <1>1 DEF After
<1>2. ASSUME NEW x \in Transactions(e, acc[e], ours), run = <<x>>
      PROVE  /\ Timely(acc[e]) => Timely(After(e, run))
             /\ After(e, run).voted /\ ~acc[e].voted =>
                  \E i \in 1 .. Len(run) :
                    /\ run[i].kind # "created"
                    /\ run[i].kind = "ours" \/ After(e, run).status = "Rejected"
             /\ deploys[e] = 0 => acc[e].status # "none"
  <2>1. Records(e, acc[e], x.kind, x.to)
    BY <1>0, TransactionsProperty
  <2>2. run # <<>> /\ Len(run) = 1 /\ run[1] = x
    BY <1>2
  <2> QED
    BY <2>1, <2>2 DEF After, Records
<1>3. ASSUME NEW x \in Transactions(e, acc[e], ours),
             NEW y \in Transactions(e, x.to, ours), run = <<x, y>>
      PROVE  /\ Timely(acc[e]) => Timely(After(e, run))
             /\ After(e, run).voted /\ ~acc[e].voted =>
                  \E i \in 1 .. Len(run) :
                    /\ run[i].kind # "created"
                    /\ run[i].kind = "ours" \/ After(e, run).status = "Rejected"
             /\ deploys[e] = 0 => acc[e].status # "none"
  <2>1. x \in Transaction /\ Records(e, acc[e], x.kind, x.to)
    BY <1>0, TransactionsProperty
  <2>2. x.to \in Account
    BY <2>1 DEF Transaction
  <2>3. Later(x.to, y.to) /\ Records(e, x.to, y.kind, y.to)
    BY <2>2, TransactionsProperty
  <2>4. run # <<>> /\ Len(run) = 2 /\ run[1] = x /\ run[2] = y
    BY <1>3
  <2>5. x.to.status = "Rejected" => y.to.status = "Rejected"
    BY <2>3 DEF Later
  <2> QED
    BY <2>1, <2>3, <2>4, <2>5 DEF After, Records
<1> QED
  BY <1>1, <1>2, <1>3 DEF Runs

-----------------------------------------------------------------------------
(* What a block tells the observers.                                         *)

LEMMA QuotientProperty ==
  ASSUME NEW n \in Nat \ {0}, NEW len \in Nat, NEW j \in Nat, j < n * len
  PROVE  (j \div n) \in 0 .. len - 1
<1> DEFINE q == j \div n
<1>1. q \in Nat /\ n * q <= j
  OBVIOUS
<1> HIDE DEF q
<1>2. q < len
  <2> SUFFICES ASSUME ~(q < len) PROVE FALSE
    OBVIOUS
  <2>1. PICK k \in Nat : q = len + k
    <3>1. q - len \in Nat /\ q = len + (q - len)
      BY <1>1
    <3> QED
      BY <3>1
  <2>2. n * q = n * len + n * k
    BY <2>1
  <2>3. n * k \in Nat /\ n * len \in Nat
    BY <2>1
  <2> QED
    BY <1>1, <2>2, <2>3
<1> QED
  BY <1>1, <1>2 DEF q

\* The slots of the tasks are finitely many, so are the observers.
LEMMA LiveObserversFinite ==
  ASSUME NEW e
  PROVE  IsFiniteSet(LiveObservers(e)) /\ Cardinality(LiveObservers(e)) \in Nat
<1> DEFINE E == {e} \cap pending
           T == {u \in TasksOf(e) : task[u].pc \in Delivering}
           f == [x \in E |-> gen[x]]
           g == [t \in T |-> task[t].gen]
<1>1. IsFiniteSet(E) /\ IsFiniteSet(T)
  <2>1. IsFiniteSet({e}) /\ E \in SUBSET {e}
    BY FS_Singleton
  <2>2. IsFiniteSet(1 .. NumTasks) /\ T \in SUBSET (1 .. NumTasks)
    BY EventVotingAssumption, FS_Interval DEF TasksOf, Tid
  <2> QED
    BY <2>1, <2>2, FS_Subset
<1>2. IsFiniteSet({gen[x] : x \in E})
  <2>1. f \in Surjection(E, {gen[x] : x \in E})
    BY DEF Surjection
  <2> QED
    BY <1>1, <2>1, FS_Surjection
<1>3. IsFiniteSet({task[t].gen : t \in T})
  <2>1. g \in Surjection(T, {task[t].gen : t \in T})
    BY DEF Surjection
  <2> QED
    BY <1>1, <2>1, FS_Surjection
<1>4. IsFiniteSet(LiveObservers(e))
  BY <1>2, <1>3, FS_Union DEF LiveObservers
<1> QED
  BY <1>4, FS_CardinalityType

\* Every notice of a block stands for one of its transactions, and carries the
\* status at the end of the block.
LEMMA NoticesProperty ==
  ASSUME TypeOK, NEW e \in Events, NEW ours \in BOOLEAN, NEW run \in Runs(e, ours)
  PROVE  /\ Notices(e, run) \in Seq(Notice)
         /\ \A i \in 1 .. Len(Notices(e, run)) :
              /\ Notices(e, run)[i].ev = e
              /\ Attests(Notices(e, run)[i].kind, After(e, run))
              /\ Notices(e, run)[i].status = After(e, run).status
<1> DEFINE read == IF Head(run).kind = "created" THEN Tail(run) ELSE run
           n == Cardinality(LiveObservers(e))
           status == After(e, run).status
           item(i) == [ev |-> e, kind |-> read[((i - 1) \div n) + 1].kind, status |-> status]
<1>1. CASE run = <<>>
  BY <1>1 DEF Notices
<1>2. CASE run # <<>>
  <2>1. /\ run \in Seq(Transaction) /\ status \in Statuses
        /\ \A i \in 1 .. Len(run) : Attests(run[i].kind, After(e, run))
        /\ \A i \in 2 .. Len(run) : run[i].kind # "created"
    BY RunsProperty DEF Account
  <2>2. /\ read \in Seq(Transaction)
        /\ \A k \in 1 .. Len(read) : /\ read[k].kind \in Kinds
                                     /\ Attests(read[k].kind, After(e, run))
    <3>1. ASSUME NEW i \in 1 .. Len(run) PROVE run[i].kind \in Kinds \cup {"created"}
      <4>1. run[i] \in Transaction
        BY <2>1, ElementOfSeq
      <4> QED
        BY <4>1 DEF Transaction
    <3>2. CASE Head(run).kind = "created"
      <4>1. /\ Tail(run) \in Seq(Transaction) /\ Len(Tail(run)) = Len(run) - 1
            /\ \A k \in 1 .. Len(Tail(run)) : Tail(run)[k] = run[k + 1]
        BY <1>2, <2>1
      <4>2. \A k \in 1 .. Len(Tail(run)) : k + 1 \in 2 .. Len(run)
        BY <2>1, <4>1
      <4> QED
        BY <2>1, <3>1, <3>2, <4>1, <4>2
    <3>3. CASE Head(run).kind # "created"
      <4>1. Len(run) \in Nat /\ 1 \in 1 .. Len(run) /\ Head(run) = run[1]
        BY <1>2, <2>1
      <4> QED
        BY <2>1, <3>1, <3>3, <4>1
    <3> QED
      BY <3>2, <3>3
  <2>3. Notices(e, run) = [i \in 1 .. n * Len(read) |-> item(i)]
    BY <1>2 DEF Notices, Observed, After
  <2>4. n \in Nat /\ Len(read) \in Nat /\ n * Len(read) \in Nat
    BY <2>2, LiveObserversFinite
  <2>5. ASSUME NEW i \in 1 .. n * Len(read)
        PROVE  /\ item(i) \in Notice /\ Attests(item(i).kind, After(e, run))
               /\ item(i).ev = e /\ item(i).status = status
    <3>1. n \in Nat \ {0} /\ i - 1 \in Nat /\ i - 1 < n * Len(read)
      <4> HIDE DEF n, read
      <4>1. n = 0 => n * Len(read) = 0
        BY <2>4
      <4> QED
        BY <2>4, <4>1
    <3>2. (i - 1) \div n \in 0 .. Len(read) - 1
      BY <2>4, <3>1, QuotientProperty
    <3>3. ((i - 1) \div n) + 1 \in 1 .. Len(read)
      BY <2>4, <3>2
    <3>4. /\ item(i).kind = read[((i - 1) \div n) + 1].kind
          /\ item(i).kind \in Kinds /\ Attests(item(i).kind, After(e, run))
      BY <2>2, <3>3
    <3> QED
      BY <2>1, <3>4 DEF Notice
  <2> HIDE DEF read, n, item
  <2>6. ASSUME NEW k \in Nat, NEW h \in [1 .. k -> Notice]
        PROVE  h \in Seq(Notice) /\ Len(h) = k
    OBVIOUS
  <2>7. Notices(e, run) \in [1 .. n * Len(read) -> Notice]
    BY <2>3, <2>5
  <2>8. Notices(e, run) \in Seq(Notice) /\ Len(Notices(e, run)) = n * Len(read)
    BY <2>4, <2>6, <2>7
  <2>9. \A i \in 1 .. n * Len(read) : Notices(e, run)[i] = item(i)
    BY <2>3
  <2> QED
    BY <2>5, <2>8, <2>9
<1> QED
  BY <1>1, <1>2

LEMMA MultipleProperty ==
  ASSUME NEW n \in Nat \ {0}, NEW q \in Nat
  PROVE  (n * q) \div n = q
<1> DEFINE m == n * q
           d == m \div n
<1>1. m \in Nat
  OBVIOUS
<1> HIDE DEF m
<1>2. d \in Nat /\ n * d <= m /\ m < n * d + n
  BY <1>1
<1> HIDE DEF d
<1>3. ASSUME NEW a \in Nat, NEW b \in Nat, a < b PROVE n * a + n <= n * b
  <2>1. PICK k \in Nat : b = a + 1 + k
    <3>1. b - a - 1 \in Nat /\ b = a + 1 + (b - a - 1)
      BY <1>3
    <3> QED BY <3>1
  <2>2. n * b = n * a + n + n * k
    BY <2>1
  <2>3. n * k \in Nat /\ n * a \in Nat
    BY <2>1
  <2> QED BY <2>2, <2>3
<1>4. n * d \in Nat /\ n * q \in Nat /\ m = n * q
  BY <1>2 DEF m
<1>5. ~(d < q)
  BY <1>2, <1>3, <1>4
<1>6. ~(q < d)
  BY <1>2, <1>3, <1>4
<1> QED BY <1>2, <1>5, <1>6 DEF d, m

\* Somebody who observes is told of every transaction but the deployment.
LEMMA NoticesTell ==
  ASSUME TypeOK, NEW e \in Events, NEW ours \in BOOLEAN, NEW run \in Runs(e, ours),
         LiveObservers(e) # {}, NEW i \in 1 .. Len(run), run[i].kind # "created"
  PROVE  \E j \in 1 .. Len(Notices(e, run)) : Notices(e, run)[j].kind = run[i].kind
<1> DEFINE read == IF Head(run).kind = "created" THEN Tail(run) ELSE run
           n == Cardinality(LiveObservers(e))
           item(j) == [ev |-> e, kind |-> read[((j - 1) \div n) + 1].kind,
                       status |-> After(e, run).status]
<1>1. run \in Seq(Transaction) /\ run # <<>> /\ Head(run) = run[1]
  BY RunsProperty
<1>2. PICK k \in 1 .. Len(read) : read[k].kind = run[i].kind
  <2>1. CASE Head(run).kind = "created"
    <3>1. /\ Len(Tail(run)) = Len(run) - 1
          /\ \A k \in 1 .. Len(Tail(run)) : Tail(run)[k] = run[k + 1]
      BY <1>1
    <3>2. i - 1 \in 1 .. Len(Tail(run)) /\ (i - 1) + 1 = i
      BY <1>1, <2>1, <3>1
    <3> QED BY <2>1, <3>1, <3>2
  <2>2. CASE Head(run).kind # "created"
    BY <2>2
  <2> QED BY <2>1, <2>2
<1>3. Len(read) \in Nat
  BY <1>1
<1>4. n \in Nat \ {0}
  BY LiveObserversFinite, FS_EmptySet
<1>5. Notices(e, run) = [j \in 1 .. n * Len(read) |-> item(j)]
  BY <1>1 DEF Notices, Observed, After
<1> HIDE DEF read, n
<1>6. n * Len(read) \in Nat
  BY <1>3, <1>4
<1>7. Len(Notices(e, run)) = n * Len(read)
  BY <1>5, <1>6
<1> DEFINE j == n * (k - 1) + 1
<1>8. k - 1 \in Nat /\ n * (k - 1) \in Nat /\ (n * (k - 1)) \div n = k - 1
  BY <1>3, <1>4, MultipleProperty
<1>9. j \in 1 .. n * Len(read)
  <2>1. PICK l \in Nat : Len(read) = (k - 1) + 1 + l
    <3>1. Len(read) - k \in Nat /\ Len(read) = (k - 1) + 1 + (Len(read) - k)
      BY <1>3
    <3> QED BY <3>1
  <2>2. n * Len(read) = n * (k - 1) + n + n * l /\ n * l \in Nat
    BY <1>4, <1>8, <2>1
  <2> QED BY <1>4, <1>8, <2>2
<1>10. item(j).kind = run[i].kind
  <2>1. j - 1 = n * (k - 1)
    BY <1>8
  <2>2. ((j - 1) \div n) + 1 = k
    BY <1>8, <2>1
  <2> QED BY <1>2, <2>2
<1> QED BY <1>5, <1>7, <1>9, <1>10

-----------------------------------------------------------------------------
(* The inductive invariant.  OneVoter alone is not inductive: that a second  *)
(* update does not reach the vote follows, while the event still takes a     *)
(* vote of ours, from the flag of its entry, which is there as long as some  *)
(* task has passed start_processing; and, once it takes none, from what      *)
(* `process` says of it.  The entry is removed early only if a notice may be *)
(* wrong about the contract, so the notices in the channel are part of it.   *)

Voting == {"verify", "observe"} \cup Delivering
Holding == {"wait", "ready"} \cup Voting

\* A vote of such a task is still to be sent, or may be sent again.
Sending == Voting \ {"delivered"}

\* The contract will never again take a vote of ours.
TooLate(e) ==
  \/ acc[e].voted \/ ~acc[e].relay \/ ~acc[e].supported
  \/ acc[e].status = "Rejected"
  \/ acc[e].status = "Confirmed" /\ ~(CollectsAll(acc[e]) /\ acc[e].funded)

\* What a notice says still holds when it is read.
Holds(n, a) ==
  /\ Attests(n.kind, a[n.ev])
  /\ n.status \in {"Confirmed", "Rejected"} => a[n.ev].status = n.status
NoticesHold == \A i \in 1 .. Len(evQ) : Holds(evQ[i], acc)

Holder(t, e) == task[t].ev = e /\ task[t].pc \in Holding
OneHolder ==
  \A e \in Events : ~TooLate(e) =>
    \A t \in Tid : Holder(t, e) =>
      e \in pending /\ started[e] /\ \A u \in Tid : Holder(u, e) => u = t

Voter(t, e) == task[t].ev = e /\ task[t].pc \in Voting
VotersAreOne ==
  \A e \in Events : \A t, u \in Tid : Voter(t, e) /\ Voter(u, e) => t = u

IInv == TypeOK /\ NoticesHold /\ OneHolder /\ VotersAreOne

TasksOK ==
  /\ task \in [Tid -> Task]
  /\ \A t \in Tid : /\ task[t].pc = "idle" <=> task[t].ev = NoEvent
                    /\ task[t].live => task[t].pc = "sent"

\* The next step adds no task to those that hold or vote for an event.
NoNewHolder ==
  \A e \in Events, t \in Tid : /\ Holder(t, e)' => Holder(t, e)
                               /\ Voter(t, e)' => Voter(t, e)

\* Steps that add no holder keep the invariant, if the events that still have
\* one keep their flag.
LEMMA NoNewHolderInv ==
  ASSUME IInv, NoNewHolder,
         \A e \in Events : TooLate(e) => TooLate(e)',
         \A e \in Events : ~TooLate(e)' /\ (\E t \in Tid : Holder(t, e)')
                             => e \in pending' /\ started'[e]
  PROVE  OneHolder' /\ VotersAreOne'
<1>1. OneHolder'
  BY DEF NoNewHolder, IInv, OneHolder
<1>2. VotersAreOne'
  BY DEF NoNewHolder, IInv, VotersAreOne
<1> QED
  BY <1>1, <1>2

\* The same for steps that leave the contracts and the entries alone.
LEMMA QuietStepInv ==
  ASSUME IInv, NoNewHolder, UNCHANGED <<acc, pending, started>>
  PROVE  OneHolder' /\ VotersAreOne'
<1>1. \A e \in Events : TooLate(e)' <=> TooLate(e)
  BY DEF TooLate
<1>2. \A e \in Events : ~TooLate(e)' /\ (\E t \in Tid : Holder(t, e)')
                          => e \in pending' /\ started'[e]
  BY <1>1 DEF NoNewHolder, IInv, OneHolder
<1> QED
  BY <1>1, <1>2, NoNewHolderInv

LEMMA QuietNotices ==
  ASSUME NoticesHold, UNCHANGED <<acc, evQ>>
  PROVE  NoticesHold'
BY DEF NoticesHold, Holds, Attests

LEMMA GotoProperty ==
  ASSUME TypeOK, NEW t \in Tid, NEW pc \in Pcs \ {"idle"},
         task[t].pc # "idle", task[t].pc # "sent", Goto(t, pc)
  PROVE  /\ TasksOK'
         /\ task'[t].pc = pc /\ task'[t].ev = task[t].ev /\ task[t].ev \in Events
         /\ \A u \in Tid \ {t} : task'[u] = task[u]
BY DEF Goto, TypeOK, TasksOK, Task

LEMMA FinishProperty ==
  ASSUME TypeOK, NEW t \in Tid, Finish(t)
  PROVE  /\ TasksOK'
         /\ task'[t].pc = "idle" /\ task'[t].ev = NoEvent
         /\ \A u \in Tid \ {t} : task'[u] = task[u]
         /\ NoNewHolder
<1>1. Idle \in Task /\ Idle.pc = "idle" /\ Idle.ev = NoEvent /\ ~Idle.live
  BY DEF Idle, Task, Pcs
<1>2. /\ TasksOK' /\ task'[t] = Idle
      /\ \A u \in Tid \ {t} : task'[u] = task[u]
  BY <1>1 DEF Finish, TypeOK, TasksOK
<1>3. NoNewHolder
  BY <1>1, <1>2, EventVotingAssumption DEF NoNewHolder, Holder, Voter
<1> QED
  BY <1>1, <1>2, <1>3

\* A task that moves on without starting to hold or to vote.
LEMMA GotoQuiet ==
  ASSUME TypeOK, NEW t \in Tid, NEW pc \in Pcs \ {"idle"},
         task[t].pc # "idle", task[t].pc # "sent", Goto(t, pc),
         pc \in Holding => task[t].pc \in Holding,
         pc \in Voting => task[t].pc \in Voting
  PROVE  NoNewHolder
BY GotoProperty DEF NoNewHolder, Holder, Voter

LEMMA SpawnProperty ==
  ASSUME TypeOK, HasFreeTask, NEW e \in Events,
         NEW pc \in {"start", "preWait", "preReady"}, task' = Spawn(pc, e)
  PROVE  TasksOK' /\ NoNewHolder
<1> DEFINE s == CHOOSE t \in Tid : task[t].pc = "idle"
           new == [Idle EXCEPT !.pc = pc, !.ev = e]
<1>1. s \in Tid /\ task[s].pc = "idle"
  BY DEF HasFreeTask
<1>2. new \in Task /\ new.pc = pc /\ new.ev = e /\ ~new.live
  BY DEF Idle, Task, Pcs, Waiting
<1> HIDE DEF s, new
<1>3. task' = [task EXCEPT ![s] = new]
  BY DEF Spawn, s, new
<1>4. task'[s] = new /\ \A u \in Tid \ {s} : task'[u] = task[u]
  BY <1>1, <1>3 DEF TypeOK
<1>5. TasksOK'
  BY <1>1, <1>2, <1>3, <1>4, EventVotingAssumption DEF TypeOK, TasksOK
<1>6. NoNewHolder
  BY <1>2, <1>4 DEF NoNewHolder, Holder, Voter, Holding, Voting, Delivering
<1> QED
  BY <1>5, <1>6

LEMMA InitIInv == Init => IInv
<1> SUFFICES ASSUME Init PROVE IInv
  OBVIOUS
<1>1. Idle \in Task /\ Idle.pc = "idle" /\ Idle.ev = NoEvent /\ ~Idle.live
  BY DEF Idle, Task, Pcs
<1>2. TypeOK
  BY <1>1 DEF Init, TypeOK, Account, Statuses
<1>3. NoticesHold /\ OneHolder /\ VotersAreOne
  BY <1>1, EventVotingAssumption DEF Init, NoticesHold, OneHolder, VotersAreOne, Holder, Voter
<1> QED
  BY <1>2, <1>3 DEF IInv

\* Steps that touch no task, no contract and no entry.
LEMMA NoTaskIInv ==
  ASSUME IInv, TypeOK', UNCHANGED <<acc, pending, started, evQ, task>>
  PROVE  IInv'
<1>1. NoNewHolder
  BY DEF NoNewHolder, Holder, Voter
<1>2. NoticesHold'
  BY QuietNotices DEF IInv
<1>3. OneHolder' /\ VotersAreOne'
  BY <1>1, QuietStepInv
<1> QED
  BY <1>2, <1>3 DEF IInv

LEMMA OrderIInv ==
  ASSUME IInv, NEW e \in Events, Order(e)
  PROVE  IInv'
<1>1. TypeOK'
  BY DEF Order, IInv, TypeOK
<1> QED
  BY <1>1, NoTaskIInv DEF Order

LEMMA OrphanExpiresIInv ==
  ASSUME IInv, NEW e \in Events, OrphanExpires(e)
  PROVE  IInv'
<1>1. TypeOK'
  BY DEF OrphanExpires, relayVars, IInv, TypeOK
<1> QED
  BY <1>1, NoTaskIInv DEF OrphanExpires, relayVars

LEMMA SubscribeIInv ==
  ASSUME IInv, Subscribe
  PROVE  IInv'
<1>1. TypeOK'
  BY DEF Subscribe, chainVars, IInv, TypeOK
<1> QED
  BY <1>1, NoTaskIInv DEF Subscribe, chainVars

LEMMA LoadSnapshotIInv ==
  ASSUME IInv, LoadSnapshot
  PROVE  IInv'
<1>1. TypeOK'
  BY DEF LoadSnapshot, chainVars, IInv, TypeOK
<1> QED
  BY <1>1, NoTaskIInv DEF LoadSnapshot, chainVars

\* A new entry, and the task spawned for it.
LEMMA NewEntryInv ==
  ASSUME IInv, NEW e \in Events, e \notin pending, AddPending(e), HasFreeTask,
         NEW pc \in {"start", "preWait", "preReady"}, task' = Spawn(pc, e),
         UNCHANGED <<acc, evQ>>
  PROVE  /\ TasksOK' /\ NoticesHold' /\ OneHolder' /\ VotersAreOne'
         /\ pending' \subseteq Events /\ started' \in [Events -> BOOLEAN]
         /\ gen' \in [Events -> Nat]
<1>0. /\ pending' \subseteq Events /\ started' \in [Events -> BOOLEAN]
      /\ gen' \in [Events -> Nat]
  BY DEF AddPending, IInv, TypeOK
<1>1. TasksOK' /\ NoNewHolder
  BY SpawnProperty DEF IInv
<1>2. \A d \in Events : TooLate(d)' <=> TooLate(d)
  BY DEF TooLate
<1>3. ASSUME NEW d \in Events, ~TooLate(d)', \E t \in Tid : Holder(t, d)'
      PROVE  d \in pending' /\ started'[d]
  <2>1. d \in pending /\ started[d]
    BY <1>1, <1>2, <1>3 DEF NoNewHolder, IInv, OneHolder
  <2> QED
    BY <2>1 DEF AddPending, IInv, TypeOK
<1>4. OneHolder' /\ VotersAreOne'
  BY <1>1, <1>2, <1>3, NoNewHolderInv
<1> QED
  BY <1>0, <1>1, <1>4, QuietNotices DEF IInv

LEMMA ScanEventIInv ==
  ASSUME IInv, NEW e \in Events, ScanEvent(e)
  PROVE  IInv'
<1>1. CASE ScanAction(e) # "Remove" /\ e \notin pending
  <2>1. /\ TasksOK' /\ NoticesHold' /\ OneHolder' /\ VotersAreOne'
        /\ pending' \subseteq Events /\ started' \in [Events -> BOOLEAN]
        /\ gen' \in [Events -> Nat]
    BY <1>1, NewEntryInv DEF ScanEvent, chainVars
  <2>2. TypeOK'
    BY <2>1 DEF ScanEvent, chainVars, IInv, TypeOK, TasksOK
  <2> QED
    BY <2>1, <2>2 DEF IInv
<1>2. CASE ~(ScanAction(e) # "Remove" /\ e \notin pending)
  <2>1. TypeOK'
    BY <1>2 DEF ScanEvent, chainVars, IInv, TypeOK
  <2> QED
    BY <1>2, <2>1, NoTaskIInv DEF ScanEvent, chainVars
<1> QED
  BY <1>1, <1>2

LEMMA HandleDeployIInv ==
  ASSUME IInv, HandleDeploy
  PROVE  IInv'
<1> DEFINE e == Head(cfgQ)
<1>0. e \in Events /\ Tail(cfgQ) \in Seq(Events)
  BY HeadTailProperties DEF HandleDeploy, IInv, TypeOK
<1>1. CASE e \notin pending
  <2>1. AskState(e, "preWait", "preReady") \in {"start", "preWait", "preReady"}
    BY DEF AskState
  <2>2. /\ TasksOK' /\ NoticesHold' /\ OneHolder' /\ VotersAreOne'
        /\ pending' \subseteq Events /\ started' \in [Events -> BOOLEAN]
        /\ gen' \in [Events -> Nat]
    BY <1>0, <1>1, <2>1, NewEntryInv DEF HandleDeploy, chainVars
  <2>3. TypeOK'
    BY <1>0, <2>2 DEF HandleDeploy, chainVars, IInv, TypeOK, TasksOK
  <2> QED
    BY <2>2, <2>3 DEF IInv
<1>2. CASE e \in pending
  <2>1. TypeOK'
    BY <1>0, <1>2 DEF HandleDeploy, chainVars, IInv, TypeOK
  <2> QED
    BY <1>2, <2>1, NoTaskIInv DEF HandleDeploy, chainVars
<1> QED
  BY <1>1, <1>2

\* What `process` says of an event.
LEMMA ProcessProperty ==
  ASSUME TypeOK, NEW e \in Events
  PROVE  /\ Action(e) \in {"Nop", "Vote", "Remove"}
         /\ Action(e) = "Vote" => ~TooLate(e)
         /\ acc[e].status # "none" /\ Action(e) = "Remove" => TooLate(e)
<1>1. acc[e] \in Account
  BY DEF TypeOK
<1> QED
  BY <1>1 DEF Action, Process, CollectsAll, TooLate, Account, Statuses

\* A notice that ends an event is right to.
LEMMA EndsProperty ==
  ASSUME NEW n \in Notice, Holds(n, acc), Ends(n)
  PROVE  TooLate(n.ev)
BY DEF Ends, Holds, Attests, TooLate, Notice

\* A notice leaves the channel.
LEMMA TailNotices ==
  ASSUME TypeOK, NoticesHold, evQ # <<>>, evQ' = Tail(evQ), acc' = acc
  PROVE  /\ Head(evQ) \in Notice /\ Holds(Head(evQ), acc)
         /\ evQ' \in Seq(Notice) /\ NoticesHold'
<1>1. /\ evQ \in Seq(Notice) /\ Head(evQ) = evQ[1] /\ 1 \in 1 .. Len(evQ)
      /\ Head(evQ) \in Notice /\ Tail(evQ) \in Seq(Notice)
      /\ Len(Tail(evQ)) = Len(evQ) - 1 /\ Len(evQ) \in Nat
      /\ \A i \in 1 .. Len(Tail(evQ)) : Tail(evQ)[i] = evQ[i + 1] /\ i + 1 \in 1 .. Len(evQ)
  BY DEF TypeOK
<1>2. NoticesHold'
  BY <1>1 DEF NoticesHold
<1> QED
  BY <1>1, <1>2 DEF NoticesHold

\* Dropping an event that takes no vote of ours.
LEMMA RemoveInv ==
  ASSUME IInv, NoNewHolder, NEW e \in Events, TooLate(e), Remove(e),
         UNCHANGED <<acc, started>>
  PROVE  OneHolder' /\ VotersAreOne'
<1>1. \A d \in Events : TooLate(d)' <=> TooLate(d)
  BY DEF TooLate
<1>2. ASSUME NEW d \in Events, ~TooLate(d)', \E t \in Tid : Holder(t, d)'
      PROVE  d \in pending' /\ started'[d]
  <2>1. d \in pending /\ started[d] /\ d # e
    BY <1>1, <1>2 DEF NoNewHolder, IInv, OneHolder
  <2> QED
    BY <2>1 DEF Remove
<1> QED
  BY <1>1, <1>2, NoNewHolderInv

LEMMA HandleEventIInv ==
  ASSUME IInv, HandleEvent
  PROVE  IInv'
<1> DEFINE n == Head(evQ)
<1>0. /\ n \in Notice /\ Holds(n, acc) /\ n.ev \in Events
      /\ evQ' \in Seq(Notice) /\ NoticesHold'
  <2>1. n \in Notice /\ Holds(n, acc) /\ evQ' \in Seq(Notice) /\ NoticesHold'
    BY TailNotices DEF HandleEvent, chainVars, IInv
  <2> QED
    BY <2>1 DEF Notice
<1>1. CASE n.ev \in pending /\ Ends(n) /\ Remove(n.ev) /\ UNCHANGED task
  <2>1. TypeOK'
    BY <1>0, <1>1 DEF HandleEvent, Remove, chainVars, IInv, TypeOK
  <2>2. NoNewHolder
    BY <1>1 DEF NoNewHolder, Holder, Voter
  <2>3. OneHolder' /\ VotersAreOne'
    BY <1>0, <1>1, <2>2, EndsProperty, RemoveInv DEF HandleEvent, chainVars
  <2> QED
    BY <1>0, <2>1, <2>3 DEF IInv
<1>2. CASE /\ n.ev \in pending /\ ~Ends(n) /\ n.kind = "activate"
           /\ HasFreeTask
           /\ task' = Spawn("start", n.ev)
           /\ UNCHANGED pending
  <2>1. TasksOK' /\ NoNewHolder
    BY <1>0, <1>2, SpawnProperty DEF IInv
  <2>2. TypeOK'
    BY <1>0, <1>2, <2>1 DEF HandleEvent, chainVars, IInv, TypeOK, TasksOK
  <2>3. OneHolder' /\ VotersAreOne'
    BY <1>2, <2>1, QuietStepInv DEF HandleEvent, chainVars
  <2> QED
    BY <1>0, <2>2, <2>3 DEF IInv
<1>3. CASE UNCHANGED <<pending, task>>
  <2>1. TypeOK'
    BY <1>0, <1>3 DEF HandleEvent, chainVars, IInv, TypeOK
  <2>2. NoNewHolder
    BY <1>3 DEF NoNewHolder, Holder, Voter
  <2>3. OneHolder' /\ VotersAreOne'
    BY <1>3, <2>2, QuietStepInv DEF HandleEvent, chainVars
  <2> QED
    BY <1>0, <2>1, <2>3 DEF IInv
<1> QED
  BY <1>1, <1>2, <1>3 DEF HandleEvent

-----------------------------------------------------------------------------
(* The steps of the tasks.                                                   *)

taskFrame == <<chainVars, phase, toScan, gen, unseen, cfgQ, evQ, crashes>>

\* Steps of a task that takes up nothing.
LEMMA QuietTaskIInv ==
  ASSUME IInv, TasksOK', NoNewHolder, UNCHANGED <<taskFrame, started, pending>>,
         failures' \in Nat
  PROVE  IInv'
<1>1. TypeOK'
  BY DEF taskFrame, chainVars, IInv, TypeOK, TasksOK
<1>2. NoticesHold'
  BY QuietNotices DEF taskFrame, chainVars, IInv
<1>3. OneHolder' /\ VotersAreOne'
  BY QuietStepInv DEF taskFrame, chainVars
<1> QED
  BY <1>1, <1>2, <1>3 DEF IInv

\* The end of a task that drops an event which takes no vote of ours.
LEMMA RemoveTaskIInv ==
  ASSUME IInv, TasksOK', NoNewHolder, UNCHANGED <<taskFrame, started, failures>>,
         NEW e \in Events, TooLate(e), Remove(e)
  PROVE  IInv'
<1>1. TypeOK'
  BY DEF taskFrame, chainVars, Remove, IInv, TypeOK, TasksOK
<1>2. NoticesHold'
  BY QuietNotices DEF taskFrame, chainVars, IInv
<1>3. OneHolder' /\ VotersAreOne'
  BY RemoveInv DEF taskFrame, chainVars
<1> QED
  BY <1>1, <1>2, <1>3 DEF IInv

LEMMA EventOfTask ==
  ASSUME TypeOK, NEW t \in Tid, task[t].pc # "idle"
  PROVE  task[t].ev \in Events
BY DEF TypeOK, Task

LEMMA PreprocessIInv ==
  ASSUME IInv, NEW t \in Tid, Preprocess(t)
  PROVE  IInv'
<1> DEFINE e == task[t].ev
<1>0. /\ TypeOK /\ task[t].pc = "preReady" /\ e \in Events
      /\ UNCHANGED <<taskFrame, started, failures>> /\ failures' \in Nat
  BY EventOfTask DEF Preprocess, taskFrame, IInv, TypeOK
<1>1. ASSUME NEW pc \in {"preWait", "start"}, Goto(t, pc), UNCHANGED pending
      PROVE  IInv'
  <2>1. pc \in Pcs \ {"idle"} /\ pc \notin Holding
    BY DEF Pcs, Waiting, Holding, Voting, Delivering
  <2>2. TasksOK' /\ NoNewHolder
    BY <1>0, <1>1, <2>1, GotoProperty, GotoQuiet DEF Holding
  <2> QED
    BY <1>0, <1>1, <2>2, QuietTaskIInv
<1>2. CASE Finish(t) /\ UNCHANGED pending
  BY <1>0, <1>2, FinishProperty, QuietTaskIInv
<1>3. CASE /\ acc[e].status # "none" /\ PreprocessAction(e) = "Remove"
           /\ Finish(t) /\ Remove(e)
  <2>1. TooLate(e)
    BY <1>0, <1>3, ProcessProperty DEF PreprocessAction
  <2> QED
    BY <1>0, <1>3, <2>1, FinishProperty, RemoveTaskIInv
<1> QED
  BY <1>1, <1>2, <1>3 DEF Preprocess, ActOn

LEMMA StartProcessingIInv ==
  ASSUME IInv, NEW t \in Tid, StartProcessing(t)
  PROVE  IInv'
<1> DEFINE e == task[t].ev
<1>0. /\ TypeOK /\ task[t].pc = "start" /\ e \in Events
      /\ UNCHANGED <<taskFrame, pending, failures>> /\ failures' \in Nat
  BY EventOfTask DEF StartProcessing, taskFrame, IInv, TypeOK
<1>1. CASE ~MayStart(e) /\ Finish(t) /\ UNCHANGED started
  BY <1>0, <1>1, FinishProperty, QuietTaskIInv
<1>2. CASE /\ MayStart(e) /\ started' = [started EXCEPT ![e] = TRUE]
           /\ Goto(t, AskState(e, "wait", "ready"))
  <2> DEFINE pc == AskState(e, "wait", "ready")
  <2>1. pc \in Pcs \ {"idle"} /\ pc \notin Voting
    BY DEF AskState, Pcs, Waiting, Voting, Delivering
  <2> HIDE DEF pc
  <2>2. /\ TasksOK' /\ task'[t].pc = pc /\ task'[t].ev = e
        /\ \A u \in Tid \ {t} : task'[u] = task[u]
    BY <1>0, <1>2, <2>1, GotoProperty DEF pc
  <2>3. TypeOK'
    BY <1>0, <1>2, <2>2 DEF taskFrame, chainVars, TypeOK, TasksOK
  <2>4. NoticesHold'
    BY <1>0, QuietNotices DEF taskFrame, chainVars, IInv
  <2>5. VotersAreOne'
    BY <2>1, <2>2 DEF IInv, VotersAreOne, Voter
  <2>6. OneHolder'
    <3>1. \A d \in Events : TooLate(d)' <=> TooLate(d)
      BY <1>0 DEF taskFrame, chainVars, TooLate
    <3>2. ~TooLate(e) => \A u \in Tid : ~Holder(u, e)
      BY <1>0, <1>2 DEF MayStart, IInv, OneHolder
    <3>3. \A d \in Events, u \in Tid : u # t \/ d # e => (Holder(u, d)' => Holder(u, d))
      BY <2>2 DEF Holder
    <3>4. /\ \A d \in Events : started[d] => started'[d]
          /\ started'[e] /\ e \in pending /\ pending' = pending
      BY <1>0, <1>2 DEF MayStart, TypeOK
    <3> QED
      BY <3>1, <3>2, <3>3, <3>4 DEF IInv, OneHolder
  <2> QED
    BY <2>3, <2>4, <2>5, <2>6 DEF IInv
<1> QED
  BY <1>1, <1>2 DEF StartProcessing

LEMMA DecideIInv ==
  ASSUME IInv, NEW t \in Tid, Decide(t)
  PROVE  IInv'
<1> DEFINE e == task[t].ev
<1>0. /\ TypeOK /\ task[t].pc = "ready" /\ e \in Events /\ Holder(t, e)
      /\ UNCHANGED <<taskFrame, started, failures>> /\ failures' \in Nat
  BY EventOfTask DEF Decide, taskFrame, IInv, TypeOK, Holder, Holding
<1>1. CASE Goto(t, "wait") /\ UNCHANGED pending
  <2>1. "wait" \in Pcs \ {"idle"} /\ "wait" \notin Voting
    BY DEF Pcs, Waiting, Voting, Delivering
  <2>2. TasksOK' /\ NoNewHolder
    BY <1>0, <1>1, <2>1, GotoProperty, GotoQuiet DEF Holding
  <2> QED
    BY <1>0, <1>1, <2>2, QuietTaskIInv
<1>2. CASE Finish(t) /\ UNCHANGED pending
  BY <1>0, <1>2, FinishProperty, QuietTaskIInv
<1>3. CASE /\ acc[e].status # "none" /\ Action(e) = "Remove"
           /\ Finish(t) /\ Remove(e)
  <2>1. TooLate(e)
    BY <1>0, <1>3, ProcessProperty
  <2> QED
    BY <1>0, <1>3, <2>1, FinishProperty, RemoveTaskIInv
<1>4. CASE /\ Action(e) = "Vote"
           /\ Goto(t, "verify") /\ UNCHANGED pending
  <2>1. /\ TasksOK' /\ task'[t].pc = "verify" /\ task'[t].ev = e
        /\ \A u \in Tid \ {t} : task'[u] = task[u]
    <3>1. "verify" \in Pcs \ {"idle"}
      BY DEF Pcs
    <3> QED
      BY <1>0, <1>4, <3>1, GotoProperty
  <2>2. TypeOK'
    BY <1>0, <1>4, <2>1 DEF taskFrame, chainVars, TypeOK, TasksOK
  <2>3. NoticesHold'
    BY <1>0, QuietNotices DEF taskFrame, chainVars, IInv
  <2>4. \A d \in Events : TooLate(d)' <=> TooLate(d)
    BY <1>0 DEF taskFrame, chainVars, TooLate
  <2>5. \A d \in Events, u \in Tid : Holder(u, d)' <=> Holder(u, d)
    BY <1>0, <2>1 DEF Holder, Holding, Voting
  <2>6. OneHolder'
    BY <1>0, <1>4, <2>4, <2>5 DEF IInv, OneHolder
  <2>7. VotersAreOne'
    <3>1. ~TooLate(e)
      BY <1>0, <1>4, ProcessProperty
    <3>2. \A u \in Tid : Voter(u, e) => u = t
      BY <1>0, <3>1 DEF IInv, OneHolder, Holder, Voter, Holding
    <3>3. \A d \in Events, u \in Tid : u # t => (Voter(u, d)' => Voter(u, d))
      BY <2>1 DEF Voter
    <3>4. \A d \in Events : Voter(t, d)' => d = e
      BY <2>1 DEF Voter
    <3> QED
      BY <3>2, <3>3, <3>4 DEF IInv, VotersAreOne
  <2> QED
    BY <2>2, <2>3, <2>6, <2>7 DEF IInv
<1> QED
  BY <1>1, <1>2, <1>3, <1>4 DEF Decide, ActOn

LEMMA VerifyIInv ==
  ASSUME IInv, NEW t \in Tid, Verify(t)
  PROVE  IInv'
<1> DEFINE e == task[t].ev
<1>0. /\ TypeOK /\ task[t].pc = "verify" /\ e \in Events /\ Holder(t, e)
      /\ UNCHANGED <<taskFrame, started, failures>> /\ failures' \in Nat
  BY EventOfTask DEF Verify, taskFrame, IInv, TypeOK, Holder, Holding, Voting
<1>1. CASE Goto(t, "observe") /\ UNCHANGED pending
  <2>1. "observe" \in Pcs \ {"idle"} /\ "verify" \in Voting /\ "verify" \in Holding
    BY DEF Pcs, Voting, Holding
  <2>2. TasksOK' /\ NoNewHolder
    BY <1>0, <1>1, <2>1, GotoProperty, GotoQuiet
  <2> QED
    BY <1>0, <1>1, <2>2, QuietTaskIInv
<1>2. CASE Finish(t) /\ Remove(e)
  <2>1. /\ TasksOK' /\ NoNewHolder /\ task'[t].pc = "idle"
    BY <1>0, <1>2, FinishProperty
  <2>2. TypeOK'
    BY <1>0, <1>2, <2>1 DEF taskFrame, chainVars, Remove, TypeOK, TasksOK
  <2>3. NoticesHold'
    BY <1>0, QuietNotices DEF taskFrame, chainVars, IInv
  <2>4. \A d \in Events : TooLate(d)' <=> TooLate(d)
    BY <1>0 DEF taskFrame, chainVars, TooLate
  <2>5. ASSUME NEW d \in Events, ~TooLate(d)', NEW u \in Tid, Holder(u, d)'
        PROVE  d \in pending' /\ started'[d]
    <3>1. Holder(u, d) /\ d \in pending /\ started[d]
      BY <2>1, <2>4, <2>5 DEF NoNewHolder, IInv, OneHolder
    <3>2. u # t
      BY <2>1, <2>5 DEF Holder, Holding, Voting, Delivering
    <3>3. d # e
      BY <1>0, <2>4, <2>5, <3>1, <3>2 DEF IInv, OneHolder
    <3> QED
      BY <1>0, <1>2, <3>1, <3>3 DEF Remove
  <2>6. OneHolder' /\ VotersAreOne'
    BY <2>1, <2>4, <2>5, NoNewHolderInv
  <2> QED
    BY <2>2, <2>3, <2>6 DEF IInv
<1> QED
  BY <1>1, <1>2 DEF Verify

LEMMA TakeObserverIInv ==
  ASSUME IInv, NEW t \in Tid, TakeObserver(t)
  PROVE  IInv'
<1> DEFINE e == task[t].ev
<1>0. /\ TypeOK /\ task[t].pc = "observe" /\ e \in Events
      /\ UNCHANGED <<taskFrame, started, pending, failures>> /\ failures' \in Nat
  BY EventOfTask DEF TakeObserver, taskFrame, chainVars, IInv, TypeOK
<1>1. CASE Finish(t)
  BY <1>0, <1>1, FinishProperty, QuietTaskIInv
<1>2. CASE task' = [task EXCEPT ![t].pc = "loop", ![t].gen = gen[e]]
  <2>0. /\ task'[t].pc = "loop" /\ task'[t].ev = e /\ \A u \in Tid \ {t} : task'[u] = task[u]
        /\ task'[t].live = task[t].live /\ task' \in [Tid -> Task]
    <3>1. task \in [Tid -> Task] /\ gen[e] \in Nat /\ "loop" \in Pcs
      BY <1>0 DEF TypeOK, Pcs, Delivering
    <3>2. [task[t] EXCEPT !.pc = "loop", !.gen = gen[e]] \in Task
      BY <3>1 DEF Task
    <3> QED
      BY <1>2, <3>1, <3>2 DEF Task
  <2>a. /\ e # NoEvent /\ task[t].live = FALSE
        /\ \A u \in Tid : /\ task[u].pc = "idle" <=> task[u].ev = NoEvent
                          /\ task[u].live => task[u].pc = "sent"
    BY <1>0, EventVotingAssumption DEF TypeOK, Task
  <2>1. /\ task'[t].pc = "loop" /\ task'[t].ev = e /\ \A u \in Tid \ {t} : task'[u] = task[u]
        /\ TasksOK'
    BY <2>0, <2>a DEF TasksOK
  <2>2. NoNewHolder
    BY <1>0, <2>1 DEF NoNewHolder, Holder, Voter, Holding, Voting
  <2> QED
    BY <1>0, <2>1, <2>2, QuietTaskIInv
<1> QED
  BY <1>1, <1>2 DEF TakeObserver

LEMMA SendIInv ==
  ASSUME IInv, NEW t \in Tid, NEW broadcast \in BOOLEAN, Send(t, broadcast)
  PROVE  IInv'
<1> DEFINE e == task[t].ev
<1>0. /\ TypeOK /\ task[t].pc = "loop" /\ e \in Events
      /\ task' = [task EXCEPT ![t].pc = "sent", ![t].live = broadcast]
      /\ UNCHANGED <<taskFrame, started, pending, failures>> /\ failures' \in Nat
  BY EventOfTask DEF Send, taskFrame, chainVars, IInv, TypeOK
<1>a. /\ task'[t].pc = "sent" /\ task'[t].ev = e /\ \A u \in Tid \ {t} : task'[u] = task[u]
      /\ task' \in [Tid -> Task]
  <2>1. task \in [Tid -> Task] /\ "sent" \in Pcs
    BY <1>0 DEF TypeOK, Pcs, Delivering
  <2>2. [task[t] EXCEPT !.pc = "sent", !.live = broadcast] \in Task
    BY <2>1 DEF Task
  <2> QED
    BY <1>0, <2>1, <2>2 DEF Task
<1>1. /\ task'[t].pc = "sent" /\ task'[t].ev = e /\ \A u \in Tid \ {t} : task'[u] = task[u]
      /\ TasksOK'
  BY <1>0, <1>a, EventVotingAssumption DEF TypeOK, TasksOK
<1>2. NoNewHolder
  BY <1>0, <1>1 DEF NoNewHolder, Holder, Voter, Holding, Voting, Delivering
<1> QED
  BY <1>0, <1>1, <1>2, QuietTaskIInv

LEMMA StopDeliveringIInv ==
  ASSUME IInv, NEW t \in Tid, StopDelivering(t)
  PROVE  IInv'
<1>1. /\ TypeOK /\ Finish(t)
      /\ UNCHANGED <<taskFrame, started, pending, failures>> /\ failures' \in Nat
  BY DEF StopDelivering, taskFrame, chainVars, IInv, TypeOK
<1> QED
  BY <1>1, FinishProperty, QuietTaskIInv

LEMMA FailIInv ==
  ASSUME IInv, NEW t \in Tid, Fail(t)
  PROVE  IInv'
<1>1. /\ TypeOK /\ Finish(t)
      /\ UNCHANGED <<taskFrame, started, pending>> /\ failures' \in Nat
  BY DEF Fail, taskFrame, chainVars, IInv, TypeOK
<1> QED
  BY <1>1, FinishProperty, QuietTaskIInv

LEMMA CrashIInv ==
  ASSUME IInv, Crash
  PROVE  IInv'
<1>1. Idle \in Task /\ Idle.pc = "idle" /\ Idle.ev = NoEvent /\ ~Idle.live
  BY DEF Idle, Task, Pcs
<1>2. TypeOK'
  BY <1>1 DEF Crash, IInv, TypeOK
<1>3. NoticesHold' /\ OneHolder' /\ VotersAreOne'
  BY <1>1, EventVotingAssumption DEF Crash, NoticesHold, OneHolder, VotersAreOne, Holder, Voter
<1> QED
  BY <1>2, <1>3 DEF IInv

-----------------------------------------------------------------------------
(* A block.                                                                  *)

\* A block moves tasks that wait for a state, or for the status of a message.
LEMMA BlockTasks ==
  ASSUME TypeOK, NEW e \in Events, NEW run, NEW by, NEW lapsed, Block(e, run, by, lapsed)
  PROVE  /\ TasksOK' /\ NoNewHolder
         /\ \A t \in Tid : /\ task'[t].ev = task[t].ev
                           /\ task'[t].pc \in Sending => task[t].pc \in Sending
                           /\ task'[t].pc = "sent" => task[t].pc = "sent"
<1> DEFINE receivers == {t \in TasksOf(e) : task[t].pc \in Waiting}
           voted == run # <<>> /\ run[Len(run)].to.voted # acc[e].voted
           carried(t) == voted /\ t = by /\ LiveObservers(e) # {}
           received(t) == [task[t] EXCEPT !.pc = IF @ \in {"preWait", "preReady"}
                                                 THEN "preReady" ELSE "ready"]
           answered(t, pc) == [task[t] EXCEPT !.pc = pc, !.live = FALSE]
           moved(t) ==
             CASE t \in receivers -> received(t)
               [] carried(t) -> answered(t, "delivered")
               [] t \in lapsed -> answered(t, AfterExpiry)
               [] OTHER -> task[t]
<1>1. AwaitingStatus(e) = {t \in Tid : task[t].ev = e /\ task[t].pc = "sent"}
  BY DEF AwaitingStatus, TasksOf
<1>2. /\ IF voted THEN by \in Carriers(e) ELSE by = 0
      /\ lapsed \subseteq AwaitingStatus(e) \ {by}
  BY Zenon DEF Block
<1>3. task' = [t \in Tid |-> moved(t)]
  BY Zenon DEF Block
<1> HIDE DEF voted, received, answered, moved, receivers
<1>4. ASSUME NEW t \in Tid
      PROVE  \/ t \in receivers /\ task'[t] = received(t)
             \/ /\ t \in AwaitingStatus(e)
                /\ \E pc \in {"delivered", "loop"} : task'[t] = answered(t, pc)
             \/ task'[t] = task[t]
  <2>0. task'[t] = moved(t)
    BY <1>3
  <2>1. voted /\ t = by => t \in AwaitingStatus(e)
    <3>1. 0 \notin Tid
      BY DEF Tid
    <3> QED
      BY <1>2, <3>1 DEF Carriers, When
  <2>2. CASE t \in receivers
    <3>1. t \notin AwaitingStatus(e)
      BY <1>1, <2>2 DEF receivers, Waiting
    <3>2. ~carried(t) /\ t \notin lapsed
      BY <1>2, <2>1, <3>1
    <3> QED
      BY <2>0, <2>2, <3>2 DEF moved
  <2>3. CASE t \notin receivers /\ carried(t)
    <3>1. t \notin lapsed
      BY <1>2, <2>3
    <3> QED
      BY <2>0, <2>1, <2>3, <3>1 DEF moved
  <2>4. CASE t \notin receivers /\ ~carried(t) /\ t \in lapsed
    BY <1>2, <2>0, <2>4 DEF moved, AfterExpiry
  <2>5. CASE t \notin receivers /\ ~carried(t) /\ t \notin lapsed
    BY <2>0, <2>5 DEF moved
  <2> QED
    BY <2>2, <2>3, <2>4, <2>5
<1>5. ASSUME NEW t \in Tid
      PROVE  /\ task'[t] \in Task /\ task'[t].ev = task[t].ev
             /\ task'[t].pc = "idle" <=> task[t].pc = "idle"
             /\ task'[t].live => task'[t].pc = "sent"
             /\ task'[t].pc \in Holding => task[t].pc \in Holding
             /\ task'[t].pc \in Voting => task[t].pc \in Voting
             /\ task'[t].pc \in Sending => task[t].pc \in Sending
             /\ task'[t].pc = "sent" => task[t].pc = "sent"
  <2>0. task[t] \in Task /\ (task[t].live => task[t].pc = "sent")
    BY DEF TypeOK
  <2>1. CASE t \in receivers /\ task'[t] = received(t)
    <3>1. task[t].pc \in Waiting
      BY <2>1 DEF receivers
    <3>2. CASE task[t].pc \in {"preWait", "preReady"}
      BY <2>0, <2>1, <3>2 DEF received, Task, Pcs, Waiting, Holding, Voting, Sending, Delivering
    <3>3. CASE task[t].pc \in {"wait", "ready"}
      BY <2>0, <2>1, <3>3 DEF received, Task, Pcs, Waiting, Holding, Voting, Sending, Delivering
    <3> QED
      BY <3>1, <3>2, <3>3 DEF Waiting
  <2>3. ASSUME t \in AwaitingStatus(e), NEW pc \in {"delivered", "loop"},
               task'[t] = answered(t, pc)
        PROVE  /\ task'[t] \in Task /\ task'[t].ev = task[t].ev
               /\ task'[t].pc = "idle" <=> task[t].pc = "idle"
               /\ task'[t].live => task'[t].pc = "sent"
               /\ task'[t].pc \in Holding => task[t].pc \in Holding
               /\ task'[t].pc \in Voting => task[t].pc \in Voting
               /\ task'[t].pc \in Sending => task[t].pc \in Sending
               /\ task'[t].pc = "sent" => task[t].pc = "sent"
    BY <1>1, <2>0, <2>3 DEF answered, Task, Pcs, Holding, Voting, Sending, Delivering
  <2>4. CASE task'[t] = task[t]
    BY <2>0, <2>4
  <2> QED
    BY <1>4, <2>1, <2>3, <2>4
<1>6. NoNewHolder
  BY <1>5 DEF NoNewHolder, Holder, Voter
<1>7. task' \in [Tid -> Task]
  <2>1. DOMAIN task' = Tid /\ task' = [t \in Tid |-> task'[t]]
    BY <1>3
  <2> QED
    BY <1>5, <2>1
<1>8. TasksOK'
  BY <1>5, <1>7 DEF TypeOK, TasksOK
<1> QED
  BY <1>5, <1>6, <1>8

LEMMA BlockIInv ==
  ASSUME IInv, NEW e \in Events, NEW ours \in BOOLEAN, NEW run \in Runs(e, ours),
         NEW by, NEW lapsed, Block(e, run, by, lapsed)
  PROVE  IInv'
<1>0. TypeOK /\ TasksOK' /\ NoNewHolder
  BY BlockTasks DEF IInv
<1>1. /\ acc' \in [Events -> Account] /\ acc'[e] = After(e, run)
      /\ \A d \in Events : Later(acc[d], acc'[d])
  <2>1. After(e, run) \in Account /\ Later(acc[e], After(e, run))
    BY <1>0, RunsProperty
  <2>2. acc' = IF run = <<>> THEN acc ELSE [acc EXCEPT ![e] = After(e, run)]
    BY DEF Block, After
  <2>3. acc' \in [Events -> Account] /\ acc'[e] = After(e, run)
        /\ \A d \in Events \ {e} : acc'[d] = acc[d]
    BY <1>0, <2>1, <2>2 DEF TypeOK, After
  <2> QED
    BY <2>1, <2>3 DEF Later
<1>2. evQ' \in Seq(Notice) /\ NoticesHold'
  <2> DEFINE new == Notices(e, run)
  <2>1. evQ' = evQ \o new
    BY DEF Block
  <2>2. /\ new \in Seq(Notice)
        /\ \A i \in 1 .. Len(new) : /\ new[i].ev = e
                                    /\ Attests(new[i].kind, After(e, run))
                                    /\ new[i].status = After(e, run).status
    BY <1>0, NoticesProperty
  <2>3. \A i \in 1 .. Len(new) : Holds(new[i], acc')
    BY <1>1, <2>2 DEF Holds, Attests
  <2>4. ASSUME NEW i \in 1 .. Len(evQ) PROVE Holds(evQ[i], acc')
    <3>1. evQ[i] \in Notice /\ Holds(evQ[i], acc)
      BY <1>0 DEF TypeOK, IInv, NoticesHold
    <3>2. evQ[i].ev \in Events
      BY <3>1 DEF Notice
    <3> QED
      BY <1>1, <3>1, <3>2 DEF Holds, Attests, Later
  <2> HIDE DEF new
  <2>5. /\ evQ \o new \in Seq(Notice) /\ Len(evQ \o new) = Len(evQ) + Len(new)
        /\ Len(evQ) \in Nat /\ Len(new) \in Nat
        /\ \A i \in 1 .. Len(evQ) + Len(new) :
             (evQ \o new)[i] = IF i <= Len(evQ) THEN evQ[i] ELSE new[i - Len(evQ)]
    BY <1>0, <2>2, ConcatProperties, LenProperties DEF TypeOK
  <2>6. ASSUME NEW i \in 1 .. Len(evQ) + Len(new) PROVE Holds((evQ \o new)[i], acc')
    <3>1. CASE i <= Len(evQ)
      <4>1. i \in 1 .. Len(evQ) /\ (evQ \o new)[i] = evQ[i]
        BY <2>5, <3>1
      <4> QED
        BY <2>4, <4>1
    <3>2. CASE ~(i <= Len(evQ))
      <4>1. i - Len(evQ) \in 1 .. Len(new) /\ (evQ \o new)[i] = new[i - Len(evQ)]
        BY <2>5, <3>2
      <4> QED
        BY <2>3, <4>1
    <3> QED
      BY <3>1, <3>2
  <2> QED
    BY <2>1, <2>5, <2>6 DEF NoticesHold
<1>3. TypeOK'
  <2>1. orphan' \in [Events -> BOOLEAN] /\ unseen' \in [Events -> BOOLEAN]
    BY <1>0 DEF Block, TypeOK
  <2> QED
    BY <1>0, <1>1, <1>2, <2>1 DEF Block, TypeOK, TasksOK
<1>4. \A d \in Events : TooLate(d) => TooLate(d)'
  BY <1>1 DEF TooLate, Later, CollectsAll
<1>5. \A d \in Events : ~TooLate(d)' /\ (\E t \in Tid : Holder(t, d)')
                          => d \in pending' /\ started'[d]
  BY <1>0, <1>4 DEF NoNewHolder, Block, IInv, OneHolder
<1>6. OneHolder' /\ VotersAreOne'
  BY <1>0, <1>4, <1>5, NoNewHolderInv
<1> QED
  BY <1>2, <1>3, <1>6 DEF IInv

-----------------------------------------------------------------------------
(* The theorems.                                                             *)

LEMMA TaskStepIInv ==
  ASSUME IInv, NEW t \in Tid, TaskStep(t)
  PROVE  IInv'
BY PreprocessIInv, StartProcessingIInv, DecideIInv, VerifyIInv, TakeObserverIInv,
   SendIInv, StopDeliveringIInv DEF TaskStep

LEMMA AnyBlockIInv ==
  ASSUME IInv, NEW e \in Events, AnyBlock(e)
  PROVE  IInv'
<1> DEFINE ours == Carriers(e) # {}
<1>1. PICK run \in Runs(e, ours), by \in Tid \cup {0}, lapsed \in SUBSET AwaitingStatus(e) :
        Block(e, run, by, lapsed)
  BY DEF AnyBlock
<1>2. ours \in BOOLEAN
  OBVIOUS
<1> QED
  BY <1>1, <1>2, BlockIInv

LEMMA StepIInv == IInv /\ [Next]_vars => IInv'
<1> SUFFICES ASSUME IInv, [Next]_vars PROVE IInv'
  OBVIOUS
<1>1. ASSUME NEW e \in Events, Order(e) \/ AnyBlock(e) \/ OrphanExpires(e) \/ ScanEvent(e)
      PROVE  IInv'
  BY <1>1, OrderIInv, AnyBlockIInv, OrphanExpiresIInv, ScanEventIInv
<1>2. CASE Subscribe \/ LoadSnapshot \/ HandleDeploy \/ HandleEvent
  BY <1>2, SubscribeIInv, LoadSnapshotIInv, HandleDeployIInv, HandleEventIInv
<1>3. ASSUME NEW t \in Tid, TaskStep(t) \/ Fail(t)
      PROVE  IInv'
  BY <1>3, TaskStepIInv, FailIInv
<1>4. CASE Crash
  BY <1>4, CrashIInv
<1>5. CASE UNCHANGED vars
  <2>1. UNCHANGED <<acc, pending, started, evQ, task>>
    BY <1>5 DEF vars, chainVars, relayVars
  <2>2. TypeOK'
    BY <1>5 DEF vars, chainVars, relayVars, IInv, TypeOK
  <2> QED
    BY <2>1, <2>2, NoTaskIInv
<1> QED
  BY <1>1, <1>2, <1>3, <1>4, <1>5 DEF Next

LEMMA Invariance == Spec => []IInv
BY InitIInv, StepIInv, PTL DEF Spec

\* Every variable keeps its type: a slot holds an event exactly as long as its
\* task runs, and only a task that awaits the status of a message has a message
\* in the network.
THEOREM TypeCorrect == Spec => []TypeOK
<1>1. IInv => TypeOK
  BY DEF IInv
<1> QED
  BY <1>1, Invariance, PTL

\* No two tasks ever vote for one event, whatever is deployed again, crashes,
\* fails or is decided by others in the meantime.
THEOREM AtMostOneVoter == Spec => []OneVoter
<1>1. IInv => OneVoter
  <2> SUFFICES ASSUME IInv, NEW e \in Events
               PROVE  Cardinality({t \in TasksOf(e) :
                         task[t].pc \in {"verify", "observe"} \cup Delivering}) <= 1
    BY DEF OneVoter
  <2> DEFINE V == {t \in TasksOf(e) : task[t].pc \in {"verify", "observe"} \cup Delivering}
  <2>1. \A t, u \in V : t = u
    BY DEF TasksOf, Voter, Voting, IInv, VotersAreOne
  <2>2. V = {} \/ \E t \in V : V = {t}
    BY <2>1
  <2> HIDE DEF V
  <2>3. Cardinality(V) <= 1
    BY <2>2, FS_EmptySet, FS_Singleton
  <2> QED
    BY <2>3 DEF V
<1> QED
  BY <1>1, Invariance, PTL

\* A step that drops an event: it takes no vote of ours, or its verification
\* ends without a verdict, or the process dies.
DropIsDue ==
  \A e \in Events :
    e \in pending /\ e \notin pending' /\ phase' # "down" =>
      \/ ~Votable(e)
      \/ \E t \in TasksOf(e) : task[t].pc = "verify" /\ task'[t].pc = "idle"

LEMMA TooLateIsNotVotable ==
  ASSUME TypeOK, NEW e \in Events, TooLate(e)
  PROVE  ~Votable(e)
BY ProcessProperty DEF Votable

LEMMA TaskStepDrops ==
  ASSUME IInv, NEW t \in Tid, TaskStep(t)
  PROVE  DropIsDue
<1> DEFINE e == task[t].ev
<1>0. TypeOK
  BY DEF IInv
<1>1. CASE pending' = pending
  BY <1>1 DEF DropIsDue
<1>2. CASE /\ task[t].pc # "idle" /\ acc[e].status # "none"
           /\ Action(e) = "Remove" /\ Remove(e)
  <2>1. e \in Events /\ ~Votable(e)
    BY <1>0, <1>2, EventOfTask, ProcessProperty, TooLateIsNotVotable
  <2> QED
    BY <1>2, <2>1 DEF Remove, DropIsDue
<1>3. CASE task[t].pc = "verify" /\ Finish(t) /\ Remove(e)
  BY <1>0, <1>3, FinishProperty DEF Remove, DropIsDue, TasksOf
<1> QED
  BY <1>1, <1>2, <1>3 DEF TaskStep, Preprocess, StartProcessing, Decide, Verify,
     TakeObserver, Send, StopDelivering, ActOn, PreprocessAction

LEMMA StepDrops ==
  ASSUME IInv, [Next]_vars
  PROVE  DropIsDue
<1>1. ASSUME NEW e \in Events, Order(e) \/ AnyBlock(e) \/ OrphanExpires(e) \/ ScanEvent(e)
      PROVE  DropIsDue
  <2>1. pending \subseteq pending'
    BY <1>1 DEF Order, AnyBlock, Block, OrphanExpires, relayVars, ScanEvent, AddPending
  <2> QED
    BY <2>1 DEF DropIsDue
<1>2. CASE Subscribe \/ LoadSnapshot \/ HandleDeploy
  <2>1. pending \subseteq pending'
    BY <1>2 DEF Subscribe, LoadSnapshot, HandleDeploy, AddPending
  <2> QED
    BY <2>1 DEF DropIsDue
<1>3. CASE HandleEvent
  <2> DEFINE n == Head(evQ)
  <2>1. n \in Notice /\ Holds(n, acc) /\ n.ev \in Events
    <3>1. n \in Notice /\ Holds(n, acc)
      BY <1>3, TailNotices DEF HandleEvent, chainVars, IInv
    <3> QED
      BY <3>1 DEF Notice
  <2>2. pending' = pending \/ (Ends(n) /\ Remove(n.ev))
    BY <1>3 DEF HandleEvent
  <2>3. Ends(n) => ~Votable(n.ev)
    BY <2>1, EndsProperty, TooLateIsNotVotable DEF IInv
  <2> QED
    BY <2>2, <2>3 DEF Remove, DropIsDue
<1>4. ASSUME NEW t \in Tid, TaskStep(t) PROVE DropIsDue
  BY <1>4, TaskStepDrops
<1>5. ASSUME NEW t \in Tid, Fail(t) PROVE DropIsDue
  BY <1>5 DEF Fail, DropIsDue
<1>6. CASE Crash
  BY <1>6 DEF Crash, DropIsDue
<1>7. CASE UNCHANGED vars
  BY <1>7 DEF vars, relayVars, DropIsDue
<1> QED
  BY <1>1, <1>2, <1>3, <1>4, <1>5, <1>6, <1>7 DEF Next

\* The relay drops a pending event only when its contract no longer takes our
\* vote, or when the verification could not be carried out.
THEOREM DropsAreDue == Spec => NoEarlyDrop
<1>1. IInv /\ [Next]_vars => [DropIsDue]_vars
  BY StepDrops
<1> QED
  BY <1>1, Invariance, PTL DEF Spec, NoEarlyDrop, DropIsDue
-----------------------------------------------------------------------------
(* The scan.                                                                 *)

\* Only a relay that runs scans.
ScanInv == phase # "running" => toScan = {}

ScanStep ==
  \A e \in Events :
    e \in toScan /\ e \notin toScan' /\ phase' # "down" /\ Votable(e) => e \in pending'

LEMMA ScanAsProcess ==
  ASSUME TypeOK, "TonSol" \notin Families, NEW e \in Events
  PROVE  ScanAction(e) = Action(e)
<1>1. acc[e].family \in Families
  BY DEF TypeOK, Account
<1>2. CollectsAll(acc[e]) = (acc[e].family = "TonEth")
  BY <1>1 DEF CollectsAll
<1> QED BY <1>2 DEF ScanAction, Action

LEMMA NextScan ==
  ASSUME IInv, ScanInv, "TonSol" \notin Families, [Next]_vars
  PROVE  ScanInv' /\ ScanStep
<1>1. ASSUME NEW e \in Events, ScanEvent(e) PROVE ScanInv' /\ ScanStep
  <2>1. ScanAction(e) = Action(e)
    BY ScanAsProcess DEF IInv
  <2> QED BY <1>1, <2>1 DEF ScanEvent, AddPending, ScanInv, ScanStep, Votable
<1>2. CASE Crash
  BY <1>2 DEF Crash, ScanInv, ScanStep
<1>3. CASE LoadSnapshot
  BY <1>3 DEF LoadSnapshot, ScanInv, ScanStep
<1>4. CASE toScan' = toScan /\ (phase' = phase \/ phase = "down")
  BY <1>4 DEF ScanInv, ScanStep
<1>5. ASSUME NEW e \in Events, Order(e) \/ AnyBlock(e) \/ OrphanExpires(e)
      PROVE  toScan' = toScan /\ phase' = phase
  BY <1>5 DEF Order, AnyBlock, Block, OrphanExpires, relayVars
<1>6. CASE Subscribe \/ HandleDeploy \/ HandleEvent
  BY <1>4, <1>6 DEF Subscribe, HandleDeploy, HandleEvent
<1>7. ASSUME NEW t \in Tid, TaskStep(t) \/ Fail(t)
      PROVE  toScan' = toScan /\ phase' = phase
  BY <1>7 DEF TaskStep, Preprocess, StartProcessing, Decide, Verify, TakeObserver, Send,
     StopDelivering, Fail
<1>8. CASE UNCHANGED vars
  BY <1>4, <1>8 DEF vars, relayVars
<1> QED
  BY <1>1, <1>2, <1>3, <1>4, <1>5, <1>6, <1>7, <1>8 DEF Next

\* The startup scan takes up every event whose vote is due, if the family is
\* not TON->SOL: for that one it does not (iterate_events does not know that
\* its events collect all signatures).
THEOREM ScanCorrect == "TonSol" \notin Families => (Spec => ScanKeepsVotable)
<1> SUFFICES ASSUME "TonSol" \notin Families PROVE Spec => ScanKeepsVotable
  OBVIOUS
<1>1. Init => ScanInv
  BY DEF Init, ScanInv
<1>2. IInv /\ ScanInv /\ [Next]_vars => ScanInv' /\ [ScanStep]_vars
  BY NextScan
<1> QED
  BY <1>1, <1>2, Invariance, PTL DEF Spec, ScanKeepsVotable, ScanStep

-----------------------------------------------------------------------------
(* The vote that is recorded is the last one sent.  In the first life of a   *)
(* relay the message that lands is that of the only task that votes, so that *)
(* nobody is left to send another.  In a later one it may be a message of    *)
(* the process that crashed: then the task that votes goes on, and hears of  *)
(* it by the notice in the channel, which removes the entry.  Nothing brings *)
(* the entry back, unless the event is deployed again.                       *)

Ordered(e) == \E i \in 1 .. Len(cfgQ) : cfgQ[i] = e
Tells(n, e) == n.ev = e /\ (n.kind = "ours" \/ n.status = "Rejected")
Told(e) == \E i \in 1 .. Len(evQ) : Tells(evQ[i], e)

Once(e) == crashes = 0 \/ deploys[e] <= 1

\* Nobody has heard of an event that is not deployed.
Unheard(e) ==
  /\ acc[e].status = "none" /\ ~acc[e].voted /\ ~orphan[e]
  /\ e \notin pending /\ e \notin toScan /\ ~Ordered(e)
  /\ \A t \in Tid : task[t].ev # e

NoneSends(e) == \A t \in Tid : task[t].ev = e => task[t].pc \notin Sending

\* The entry is gone for good, or will be with the next notices.
Closing(e) == ~Ordered(e) /\ (e \notin pending \/ Told(e))

SentOnce(e) ==
  /\ Timely(acc[e])
  /\ deploys[e] = 0 => Unheard(e)
  /\ crashes = 0 => ~orphan[e]
  /\ Once(e) /\ orphan[e] => ~Ordered(e)
  /\ Once(e) /\ acc[e].voted => NoneSends(e) \/ (crashes > 0 /\ Closing(e))

EachSentOnce == \A e \in Events : SentOnce(e)

RevoteStep ==
  \A t \in Tid :
    LET e == task[t].ev
    IN  task[t].pc # "sent" /\ task'[t].pc = "sent" =>
          \/ ~acc[e].voted
          \/ \E i \in DOMAIN evQ : /\ evQ[i].ev = e
                                   /\ evQ[i].kind = "ours" \/ evQ[i].status = "Rejected"
          \/ crashes > 0 /\ deploys[e] > 1

\* What all steps do to an event but those of its contract, its deployment and
\* a crash.
Quiet(e) ==
  /\ acc'[e] = acc[e] /\ deploys'[e] = deploys[e] /\ orphan'[e] = orphan[e]
  /\ crashes' = crashes
  /\ Ordered(e)' => Ordered(e)
  /\ e \in pending' => e \in pending \/ Ordered(e) \/ (e \in toScan /\ ~acc[e].voted)
  /\ e \in toScan' => e \in toScan \/ acc[e].status # "none"
  /\ Told(e) => Told(e)' \/ e \notin pending'
  /\ \A t \in Tid :
       /\ task'[t].ev = e => task[t].ev = e \/ e \in pending'
       /\ task'[t].ev = e /\ task'[t].pc \in Sending =>
            ~acc[e].voted \/ (task[t].ev = e /\ task[t].pc \in Sending)

LEMMA QuietSent ==
  ASSUME NEW e \in Events, SentOnce(e), Quiet(e)
  PROVE  SentOnce(e)'
<1>1. Timely(acc[e])' /\ (crashes = 0 => ~orphan[e])' /\ (Once(e)' <=> Once(e))
  BY DEF SentOnce, Quiet, Timely, Once
<1>2. (deploys[e] = 0 => Unheard(e))'
  BY DEF SentOnce, Quiet, Unheard
<1>3. (Once(e) /\ orphan[e] => ~Ordered(e))'
  BY <1>1 DEF SentOnce, Quiet
<1>4. NoneSends(e) /\ acc[e].voted => NoneSends(e)'
  BY DEF NoneSends, Quiet
<1>5. Closing(e) /\ acc[e].voted => Closing(e)'
  BY DEF Closing, Quiet
<1> QED
  BY <1>1, <1>2, <1>3, <1>4, <1>5 DEF SentOnce, Quiet

\* The channels, as they are read and written.
LEMMA OrderedKept ==
  ASSUME NEW e
  PROVE  /\ cfgQ' = cfgQ => (Ordered(e)' <=> Ordered(e))
         /\ evQ' = evQ => (Told(e)' <=> Told(e))
BY DEF Ordered, Told

LEMMA OrderedTail ==
  ASSUME cfgQ \in Seq(Events), cfgQ # <<>>, cfgQ' = Tail(cfgQ), NEW e
  PROVE  /\ Ordered(e)' => Ordered(e)
         /\ Ordered(Head(cfgQ))
<1>1. /\ Head(cfgQ) = cfgQ[1] /\ 1 \in 1 .. Len(cfgQ) /\ Len(Tail(cfgQ)) = Len(cfgQ) - 1
      /\ \A i \in 1 .. Len(Tail(cfgQ)) : Tail(cfgQ)[i] = cfgQ[i + 1] /\ i + 1 \in 1 .. Len(cfgQ)
  OBVIOUS
<1> QED BY <1>1 DEF Ordered

LEMMA OrderedAppend ==
  ASSUME cfgQ \in Seq(Events), NEW d \in Events, cfgQ' = Append(cfgQ, d), NEW e, e # d
  PROVE  Ordered(e)' => Ordered(e)
<1>1. /\ Len(Append(cfgQ, d)) = Len(cfgQ) + 1 /\ Len(cfgQ) \in Nat
      /\ \A i \in 1 .. Len(cfgQ) + 1 : Append(cfgQ, d)[i] = IF i = Len(cfgQ) + 1 THEN d ELSE cfgQ[i]
  OBVIOUS
<1> QED BY <1>1 DEF Ordered

LEMMA ToldTail ==
  ASSUME evQ \in Seq(Notice), evQ # <<>>, evQ' = Tail(evQ), NEW e, Told(e)
  PROVE  Told(e)' \/ Tells(Head(evQ), e)
<1>1. /\ Head(evQ) = evQ[1] /\ Len(Tail(evQ)) = Len(evQ) - 1 /\ Len(evQ) \in Nat
      /\ \A i \in 1 .. Len(Tail(evQ)) : Tail(evQ)[i] = evQ[i + 1]
  OBVIOUS
<1>2. PICK i \in 1 .. Len(evQ) : Tells(evQ[i], e)
  BY DEF Told
<1>3. CASE i = 1
  BY <1>1, <1>2, <1>3
<1>4. CASE i # 1
  <2>1. i - 1 \in 1 .. Len(Tail(evQ)) /\ (i - 1) + 1 = i
    BY <1>1, <1>4
  <2>2. Tail(evQ)[i - 1] = evQ[i]
    BY <1>1, <2>1
  <2> QED BY <1>2, <2>1, <2>2 DEF Told
<1> QED BY <1>3, <1>4

LEMMA ToldConcat ==
  ASSUME evQ \in Seq(Notice), NEW more \in Seq(Notice), evQ' = evQ \o more, NEW e
  PROVE  /\ Told(e) => Told(e)'
         /\ \A i \in 1 .. Len(more) : Tells(more[i], e) => Told(e)'
<1>1. /\ Len(evQ \o more) = Len(evQ) + Len(more) /\ Len(evQ) \in Nat /\ Len(more) \in Nat
      /\ \A i \in 1 .. Len(evQ) : (evQ \o more)[i] = evQ[i]
      /\ \A i \in 1 .. Len(more) : (evQ \o more)[Len(evQ) + i] = more[i]
  OBVIOUS
<1>2. Told(e) => Told(e)'
  <2>1. \A i \in 1 .. Len(evQ) : i \in 1 .. Len(evQ \o more)
    BY <1>1
  <2> QED BY <1>1, <2>1 DEF Told
<1>3. ASSUME NEW i \in 1 .. Len(more), Tells(more[i], e) PROVE Told(e)'
  <2>1. Len(evQ) + i \in 1 .. Len(evQ \o more)
    BY <1>1
  <2> QED BY <1>1, <1>3, <2>1 DEF Told
<1> QED BY <1>2, <1>3

\* A step of a task, which leaves the channels alone and may drop its event.
LEMMA TaskSent ==
  ASSUME EachSentOnce, UNCHANGED <<acc, deploys, orphan, crashes, cfgQ, evQ, toScan>>,
         pending' \subseteq pending,
         \A t \in Tid :
           /\ task'[t].ev \in {task[t].ev, NoEvent}
           /\ task'[t].pc \in Sending =>
                /\ task'[t].ev = task[t].ev
                /\ task[t].pc \in Sending \/ ~acc[task[t].ev].voted
  PROVE  EachSentOnce'
<1> SUFFICES ASSUME NEW e \in Events PROVE SentOnce(e)'
  BY DEF EachSentOnce
<1>1. (Ordered(e)' <=> Ordered(e)) /\ (Told(e)' <=> Told(e))
  BY OrderedKept
<1>2. e # NoEvent
  BY EventVotingAssumption
<1>3. Quiet(e)
  BY <1>1, <1>2 DEF Quiet
<1> QED BY <1>3, QuietSent DEF EachSentOnce

LEMMA TaskStepSent ==
  ASSUME IInv, EachSentOnce, NEW t \in Tid, TaskStep(t) \/ Fail(t)
  PROVE  EachSentOnce'
<1>0. /\ TypeOK /\ UNCHANGED <<acc, deploys, orphan, crashes, cfgQ, evQ, toScan>>
      /\ pending' \subseteq pending
  BY DEF IInv, TaskStep, Preprocess, StartProcessing, Decide, Verify, TakeObserver, Send,
     StopDelivering, Fail, ActOn, Remove, chainVars
<1>1. CASE Finish(t)
  BY <1>0, <1>1, FinishProperty, TaskSent DEF Sending, Voting, Delivering
<1>2. ASSUME NEW pc \in Pcs \ {"idle"}, Goto(t, pc), task[t].pc \notin {"idle", "sent"},
             pc \in Sending => task[t].pc \in Sending \/ ~acc[task[t].ev].voted
      PROVE  EachSentOnce'
  <2>1. /\ task'[t].pc = pc /\ task'[t].ev = task[t].ev
        /\ \A u \in Tid \ {t} : task'[u] = task[u]
    BY <1>0, <1>2, GotoProperty
  <2>2. \A u \in Tid : /\ task'[u].ev \in {task[u].ev, NoEvent}
                       /\ task'[u].pc \in Sending =>
                            /\ task'[u].ev = task[u].ev
                            /\ task[u].pc \in Sending \/ ~acc[task[u].ev].voted
    BY <1>2, <2>1
  <2> QED BY <1>0, <2>2, TaskSent
<1>3. ASSUME NEW pc \in {"preWait", "start", "wait", "ready"}, Goto(t, pc),
             task[t].pc \notin {"idle", "sent"}
      PROVE  EachSentOnce'
  <2>1. pc \in Pcs \ {"idle"} /\ pc \notin Sending
    BY DEF Pcs, Waiting, Sending, Voting, Delivering
  <2> QED BY <1>2, <1>3, <2>1
<1>4. CASE task[t].pc = "verify" /\ Goto(t, "observe")
  <2>1. "observe" \in Pcs \ {"idle"} /\ task[t].pc \in Sending
    BY <1>4 DEF Pcs, Sending, Voting, Delivering
  <2> QED BY <1>2, <1>4, <2>1
<1>5. CASE task[t].pc = "ready" /\ Action(task[t].ev) = "Vote" /\ Goto(t, "verify")
  <2>1. "verify" \in Pcs \ {"idle"}
    BY DEF Pcs
  <2>2. ~acc[task[t].ev].voted
    BY <1>0, <1>5, EventOfTask, ProcessProperty DEF TooLate
  <2> QED BY <1>2, <1>5, <2>1, <2>2
<1>6. CASE TakeObserver(t) /\ ~Finish(t)
  <2>1. /\ task[t].pc = "observe"
        /\ task' = [task EXCEPT ![t].pc = "loop", ![t].gen = gen[task[t].ev]]
    BY <1>6 DEF TakeObserver
  <2>2. /\ task'[t].ev = task[t].ev /\ \A u \in Tid \ {t} : task'[u] = task[u]
    BY <1>0, <2>1 DEF TypeOK, Task
  <2> QED BY <1>0, <2>1, <2>2, TaskSent DEF Sending, Voting, Delivering
<1>7. ASSUME NEW b \in BOOLEAN, Send(t, b) PROVE EachSentOnce'
  <2>1. /\ task[t].pc = "loop" /\ task' = [task EXCEPT ![t].pc = "sent", ![t].live = b]
    BY <1>7 DEF Send
  <2>2. /\ task'[t].ev = task[t].ev /\ \A u \in Tid \ {t} : task'[u] = task[u]
    BY <1>0, <2>1 DEF TypeOK, Task
  <2> QED BY <1>0, <2>1, <2>2, TaskSent DEF Sending, Voting, Delivering
<1> QED
  BY <1>1, <1>3, <1>4, <1>5, <1>6, <1>7 DEF TaskStep, Preprocess, StartProcessing, Decide,
     Verify, StopDelivering, Fail, ActOn, AskState

\* A task that is spawned for an event of the map.
LEMMA SpawnSent ==
  ASSUME TypeOK, HasFreeTask, NEW e \in Events,
         NEW pc \in {"start", "preWait", "preReady"}, task' = Spawn(pc, e), e \in pending',
         NEW d \in Events, NEW t \in Tid
  PROVE  /\ task'[t].ev = d => task[t].ev = d \/ d \in pending'
         /\ task'[t].ev = d /\ task'[t].pc \in Sending =>
              task[t].ev = d /\ task[t].pc \in Sending
<1> DEFINE s == CHOOSE u \in Tid : task[u].pc = "idle"
           new == [Idle EXCEPT !.pc = pc, !.ev = e]
<1>1. s \in Tid
  BY DEF HasFreeTask
<1>2. new.pc = pc /\ new.ev = e
  BY DEF Idle
<1> HIDE DEF s, new
<1>3. task' = [task EXCEPT ![s] = new]
  BY DEF Spawn, s, new
<1>4. task'[s] = new /\ \A u \in Tid \ {s} : task'[u] = task[u]
  BY <1>1, <1>3 DEF TypeOK
<1> QED BY <1>2, <1>4 DEF Sending, Voting, Delivering

\* The scan passes over an event whose vote is recorded.
LEMMA ScanEventSent ==
  ASSUME IInv, EachSentOnce, NEW e \in Events, ScanEvent(e)
  PROVE  EachSentOnce'
<1> SUFFICES ASSUME NEW d \in Events PROVE Quiet(d)
  BY QuietSent DEF EachSentOnce
<1>1. TypeOK /\ UNCHANGED <<acc, deploys, orphan, crashes, cfgQ, evQ>> /\ toScan' \subseteq toScan
  BY DEF IInv, ScanEvent, chainVars
<1>2. (Ordered(d)' <=> Ordered(d)) /\ (Told(d)' <=> Told(d))
  BY <1>1, OrderedKept
<1>3. CASE UNCHANGED <<pending, task>>
  BY <1>1, <1>2, <1>3 DEF Quiet
<1>4. CASE /\ ScanAction(e) # "Remove" /\ HasFreeTask /\ task' = Spawn("start", e)
           /\ pending' = pending \cup {e} /\ e \in toScan
  <2>1. ~acc[e].voted
    <3>1. Timely(acc[e])
      BY DEF EachSentOnce, SentOnce
    <3> QED BY <1>4, <3>1 DEF ScanAction, Process, Timely
  <2>2. \A t \in Tid :
          /\ task'[t].ev = d => task[t].ev = d \/ d \in pending'
          /\ task'[t].ev = d /\ task'[t].pc \in Sending =>
               task[t].ev = d /\ task[t].pc \in Sending
    BY <1>1, <1>4, SpawnSent
  <2> QED BY <1>1, <1>2, <1>4, <2>1, <2>2 DEF Quiet
<1> QED BY <1>3, <1>4 DEF ScanEvent, AddPending

LEMMA HandleDeploySent ==
  ASSUME IInv, EachSentOnce, HandleDeploy
  PROVE  EachSentOnce'
<1> SUFFICES ASSUME NEW d \in Events PROVE Quiet(d)
  BY QuietSent DEF EachSentOnce
<1> DEFINE e == Head(cfgQ)
<1>1. /\ TypeOK /\ UNCHANGED <<acc, deploys, orphan, crashes, evQ, toScan>>
      /\ cfgQ # <<>> /\ cfgQ' = Tail(cfgQ)
  BY DEF IInv, HandleDeploy, chainVars
<1>2. (Ordered(d)' => Ordered(d)) /\ Ordered(e) /\ (Told(d)' <=> Told(d)) /\ e \in Events
  BY <1>1, OrderedKept, OrderedTail, HeadTailProperties DEF TypeOK
<1>3. CASE UNCHANGED <<pending, task>>
  BY <1>1, <1>2, <1>3 DEF Quiet
<1>4. CASE /\ HasFreeTask /\ task' = Spawn(AskState(e, "preWait", "preReady"), e)
           /\ pending' = pending \cup {e}
  <2>1. AskState(e, "preWait", "preReady") \in {"preWait", "preReady"}
    BY DEF AskState
  <2>2. \A t \in Tid :
          /\ task'[t].ev = d => task[t].ev = d \/ d \in pending'
          /\ task'[t].ev = d /\ task'[t].pc \in Sending =>
               task[t].ev = d /\ task[t].pc \in Sending
    BY <1>1, <1>2, <1>4, <2>1, SpawnSent
  <2> QED BY <1>1, <1>2, <1>4, <2>2 DEF Quiet
<1> QED BY <1>3, <1>4 DEF HandleDeploy, AddPending

\* A notice that tells of our vote removes the entry as it leaves the channel.
LEMMA HandleEventSent ==
  ASSUME IInv, EachSentOnce, HandleEvent
  PROVE  EachSentOnce'
<1> SUFFICES ASSUME NEW d \in Events PROVE Quiet(d)
  BY QuietSent DEF EachSentOnce
<1> DEFINE n == Head(evQ)
<1>1. /\ TypeOK /\ UNCHANGED <<acc, deploys, orphan, crashes, cfgQ, toScan>>
      /\ evQ # <<>> /\ evQ' = Tail(evQ) /\ pending' \subseteq pending
  BY DEF IInv, HandleEvent, chainVars, Remove
<1>2. (Ordered(d)' <=> Ordered(d)) /\ (Told(d) => Told(d)' \/ Tells(n, d)) /\ n.ev \in Events
  <2>1. evQ \in Seq(Notice) /\ n \in Notice
    BY <1>1, HeadTailProperties DEF TypeOK
  <2> QED BY <1>1, <2>1, OrderedKept, ToldTail DEF Notice
<1>3. Told(d) => Told(d)' \/ d \notin pending'
  <2>1. Tells(n, d) => Ends(n) /\ n.ev = d
    BY DEF Tells, Ends
  <2>2. CASE n.ev \in pending /\ Ends(n) /\ Remove(n.ev)
    BY <1>2, <2>1, <2>2 DEF Remove
  <2>3. CASE (n.ev \notin pending \/ ~Ends(n)) /\ pending' = pending
    BY <1>2, <2>1, <2>3
  <2> QED BY <2>2, <2>3 DEF HandleEvent
<1>4. CASE UNCHANGED task
  BY <1>1, <1>2, <1>3, <1>4 DEF Quiet
<1>5. CASE HasFreeTask /\ task' = Spawn("start", n.ev) /\ n.ev \in pending /\ pending' = pending
  <2>1. \A t \in Tid :
          /\ task'[t].ev = d => task[t].ev = d \/ d \in pending'
          /\ task'[t].ev = d /\ task'[t].pc \in Sending =>
               task[t].ev = d /\ task[t].pc \in Sending
    BY <1>1, <1>2, <1>5, SpawnSent
  <2> QED BY <1>1, <1>2, <1>3, <1>5, <2>1 DEF Quiet
<1> QED BY <1>4, <1>5 DEF HandleEvent

\* A deployment message: the first one finds nothing of its event, and a further
\* one is only of account in the first life, when no message is left over.
LEMMA OrderSent ==
  ASSUME IInv, EachSentOnce, NEW e \in Events, Order(e)
  PROVE  EachSentOnce'
<1> SUFFICES ASSUME NEW d \in Events PROVE SentOnce(d)'
  BY DEF EachSentOnce
<1>1. /\ TypeOK /\ UNCHANGED <<acc, orphan, crashes, evQ, toScan, pending, task>>
      /\ deploys' = [deploys EXCEPT ![e] = @ + 1] /\ cfgQ' \in {cfgQ, Append(cfgQ, e)}
  BY DEF IInv, Order
<1>2. deploys \in [Events -> Nat] /\ crashes \in Nat /\ cfgQ \in Seq(Events)
  BY <1>1 DEF TypeOK
<1>3. CASE d # e
  <2>1. (Told(d)' <=> Told(d)) /\ (Ordered(d)' => Ordered(d))
    BY <1>1, <1>2, <1>3, OrderedKept, OrderedAppend
  <2>2. Quiet(d)
    BY <1>1, <1>2, <1>3, <2>1 DEF Quiet
  <2> QED BY <2>2, QuietSent DEF EachSentOnce
<1>4. CASE d = e
  <2>1. deploys'[d] = deploys[d] + 1 /\ deploys'[d] # 0
    BY <1>1, <1>2, <1>4
  <2>2. Timely(acc[d])' /\ (crashes = 0 => ~orphan[d])' /\ (NoneSends(d)' <=> NoneSends(d))
    BY <1>1 DEF EachSentOnce, SentOnce, Timely, NoneSends
  <2>3. Once(d)' => ~orphan[d] /\ (acc[d].voted => NoneSends(d))
    <3>1. CASE crashes = 0
      BY <3>1 DEF EachSentOnce, SentOnce, Once
    <3>2. CASE deploys[d] = 0
      BY <3>2 DEF EachSentOnce, SentOnce, Unheard
    <3> QED BY <1>1, <1>2, <2>1, <3>1, <3>2 DEF Once
  <2> QED BY <1>1, <2>1, <2>2, <2>3 DEF SentOnce
<1> QED BY <1>3, <1>4

\* A block: either our vote is that of the task that waits for it, or that of the
\* process that crashed, which the observer of the entry hears of.
LEMMA BlockSent ==
  ASSUME IInv, EachSentOnce, NEW e \in Events, NEW ours \in BOOLEAN, NEW run \in Runs(e, ours),
         NEW by, NEW lapsed, Block(e, run, by, lapsed)
  PROVE  EachSentOnce'
<1> SUFFICES ASSUME NEW d \in Events PROVE SentOnce(d)'
  BY DEF EachSentOnce
<1> DEFINE voted == run # <<>> /\ run[Len(run)].to.voted # acc[e].voted
<1>0. /\ TypeOK
      /\ \A t \in Tid : /\ task'[t].ev = task[t].ev
                        /\ task'[t].pc \in Sending => task[t].pc \in Sending
  BY BlockTasks DEF IInv
<1>1. /\ UNCHANGED <<deploys, toScan, pending, cfgQ, crashes>>
      /\ acc' = IF run = <<>> THEN acc ELSE [acc EXCEPT ![e] = run[Len(run)].to]
      /\ orphan' = [orphan EXCEPT ![e] = @ /\ ~(voted /\ by = 0)]
      /\ evQ' = evQ \o Notices(e, run)
  BY DEF Block
<1>2. /\ Ordered(d)' <=> Ordered(d)
      /\ Told(d) => Told(d)'
      /\ \A i \in 1 .. Len(Notices(e, run)) : Tells(Notices(e, run)[i], d) => Told(d)'
  <2>1. evQ \in Seq(Notice) /\ Notices(e, run) \in Seq(Notice)
    BY <1>0, NoticesProperty DEF TypeOK
  <2> QED BY <1>1, <2>1, OrderedKept, ToldConcat
<1>3. /\ NoneSends(d) => NoneSends(d)'
      /\ Closing(d) => Closing(d)'
      /\ Once(d)' <=> Once(d)
  BY <1>0, <1>1, <1>2 DEF NoneSends, Closing, Once
<1>4. CASE d # e
  <2>1. acc'[d] = acc[d] /\ orphan'[d] = orphan[d]
    BY <1>0, <1>1, <1>4 DEF TypeOK
  <2>2. Quiet(d)
    BY <1>0, <1>1, <1>2, <2>1 DEF Quiet
  <2> QED BY <2>2, QuietSent DEF EachSentOnce
<1>5. CASE d = e
  <2>1. /\ SentOnce(e) /\ acc'[e] = After(e, run)
        /\ orphan'[e] => orphan[e]
    BY <1>0, <1>1 DEF EachSentOnce, TypeOK, After
  <2>2. Timely(acc[e])' /\ (crashes = 0 => ~orphan[e])' /\ (Once(e) /\ orphan[e] => ~Ordered(e))'
    <3>1. Timely(After(e, run))
      BY <1>0, <2>1, RunsRecord DEF SentOnce
    <3> QED BY <1>1, <1>2, <1>3, <1>5, <2>1, <3>1 DEF SentOnce, Timely
  <2>3. (deploys[e] = 0 => Unheard(e))'
    <3> SUFFICES ASSUME deploys[e] = 0 PROVE Unheard(e)'
      BY <1>1
    <3>1. Unheard(e) /\ run = <<>>
      BY <1>0, <2>1, RunsRecord DEF SentOnce, Unheard
    <3> QED BY <1>0, <1>1, <1>2, <1>5, <2>1, <3>1 DEF Unheard
  <2>4. CASE ~voted
    <3>1. acc'[e].voted = acc[e].voted
      BY <2>1, <2>4 DEF After
    <3> QED BY <1>1, <1>3, <1>5, <2>1, <2>2, <2>3, <3>1 DEF SentOnce
  <2>5. CASE acc[e].voted
    BY <1>1, <1>3, <1>5, <2>1, <2>2, <2>3, <2>5 DEF SentOnce
  <2>6. CASE voted /\ ~acc[e].voted
    <3>1. by \in Carriers(e)
      BY <2>6 DEF Block
    <3>2. CASE by \in AwaitingStatus(e)
      <4>1. by \in Tid /\ task[by].ev = e /\ task[by].pc = "sent"
        BY <3>2 DEF AwaitingStatus, TasksOf
      <4>2. task[by].gen \in LiveObservers(e)
        BY <4>1 DEF LiveObservers, TasksOf, Delivering
      <4>3. task'[by].pc = "delivered"
        <5>1. by \notin {t \in TasksOf(e) : task[t].pc \in Waiting}
          BY <4>1 DEF Waiting
        <5>2. task'[by] = [task[by] EXCEPT !.pc = "delivered", !.live = FALSE]
          BY <2>6, <4>1, <4>2, <5>1 DEF Block
        <5> QED BY <1>0, <4>1, <5>2 DEF TypeOK, Task
      <4>4. \A t \in Tid : task[t].ev = e /\ task[t].pc \in Sending => t = by
        BY <4>1 DEF IInv, VotersAreOne, Voter, Voting, Sending, Delivering
      <4>5. NoneSends(e)'
        BY <1>0, <4>3, <4>4 DEF NoneSends, Sending
      <4> QED BY <1>5, <2>2, <2>3, <4>5 DEF SentOnce
    <3>3. CASE orphan[e]
      <4>1. crashes > 0 /\ (Once(e) => ~Ordered(e))
        BY <1>0, <2>1, <3>3 DEF SentOnce, TypeOK
      <4>2. e \in pending => Told(e)'
        <5> SUFFICES ASSUME e \in pending PROVE Told(e)'
          OBVIOUS
        <5>1. gen[e] \in LiveObservers(e)
          BY DEF LiveObservers
        <5>2. After(e, run).voted
          <6>1. After(e, run) \in Account /\ acc[e] \in Account
            BY <1>0, RunsProperty DEF TypeOK
          <6> QED BY <2>6, <6>1 DEF After, Account
        <5>3. PICK i \in 1 .. Len(run) :
                /\ run[i].kind # "created"
                /\ run[i].kind = "ours" \/ After(e, run).status = "Rejected"
          BY <1>0, <2>6, <5>2, RunsRecord
        <5>4. PICK j \in 1 .. Len(Notices(e, run)) : Notices(e, run)[j].kind = run[i].kind
          BY <1>0, <5>1, <5>3, NoticesTell
        <5>5. Tells(Notices(e, run)[j], e)
          BY <1>0, <5>3, <5>4, NoticesProperty DEF Tells
        <5> QED BY <1>2, <1>5, <5>5
      <4>3. Once(e)' => Closing(e)'
        BY <1>1, <1>2, <1>3, <1>5, <4>1, <4>2 DEF Closing
      <4> QED BY <1>1, <1>5, <2>2, <2>3, <4>1, <4>3 DEF SentOnce
    <3> QED BY <3>1, <3>2, <3>3 DEF Carriers, When
  <2> QED BY <2>4, <2>5, <2>6
<1> QED BY <1>4, <1>5

\* A crash: only events that were deployed have messages left over, and the
\* channels of the next life are empty.
LEMMA CrashSent ==
  ASSUME IInv, EachSentOnce, Crash
  PROVE  EachSentOnce'
<1> SUFFICES ASSUME NEW e \in Events PROVE SentOnce(e)'
  BY DEF EachSentOnce
<1>1. /\ TypeOK /\ SentOnce(e) /\ UNCHANGED <<acc, deploys>> /\ crashes' = crashes + 1
      /\ orphan'[e] = (orphan[e] \/ \E t \in AwaitingStatus(e) : task[t].live)
      /\ toScan' = {} /\ pending' = {} /\ cfgQ' = <<>> /\ task' = [t \in Tid |-> Idle]
  BY DEF IInv, Crash, EachSentOnce
<1>2. ~Ordered(e)' /\ crashes' # 0 /\ Timely(acc[e])'
  BY <1>1 DEF Ordered, TypeOK, SentOnce, Timely
<1>3. \A t \in Tid : task'[t].ev # e /\ task'[t].pc \notin Sending
  BY <1>1, EventVotingAssumption DEF Idle, Sending, Voting, Delivering
<1>4. (deploys[e] = 0 => Unheard(e))'
  BY <1>1, <1>2, <1>3 DEF SentOnce, Unheard, AwaitingStatus, TasksOf
<1> QED BY <1>2, <1>3, <1>4 DEF SentOnce, NoneSends

LEMMA InitSent == Init => EachSentOnce
<1> SUFFICES ASSUME Init, NEW e \in Events PROVE SentOnce(e)
  BY DEF EachSentOnce
<1>1. ~acc[e].voted /\ acc[e].status = "none" /\ ~orphan[e] /\ ~Ordered(e)
  BY DEF Init, Ordered
<1>2. \A t \in Tid : task[t].ev # e
  BY EventVotingAssumption DEF Init, Idle
<1> QED BY <1>1, <1>2 DEF Init, SentOnce, Unheard, Timely

LEMMA NextSent ==
  ASSUME IInv, EachSentOnce, [Next]_vars
  PROVE  EachSentOnce'
<1>1. ASSUME NEW e \in Events, AnyBlock(e) PROVE EachSentOnce'
  <2>1. PICK run \in Runs(e, Carriers(e) # {}), by \in Tid \cup {0}, lapsed \in SUBSET AwaitingStatus(e) :
          Block(e, run, by, lapsed)
    BY <1>1 DEF AnyBlock
  <2> DEFINE ours == Carriers(e) # {}
  <2>2. ours \in BOOLEAN
    OBVIOUS
  <2> QED BY <2>1, <2>2, BlockSent
<1>2. ASSUME UNCHANGED <<acc, deploys, orphan, crashes, cfgQ, evQ, pending, task>>,
             \A e \in Events : e \in toScan' => e \in toScan \/ acc[e].status # "none"
      PROVE  EachSentOnce'
  BY <1>2, OrderedKept, QuietSent DEF EachSentOnce, Quiet
<1>3. ASSUME NEW e \in Events, OrphanExpires(e) PROVE EachSentOnce'
  <2> SUFFICES ASSUME NEW d \in Events PROVE SentOnce(d)'
    BY DEF EachSentOnce
  <2>1. /\ TypeOK /\ UNCHANGED <<acc, deploys, crashes, cfgQ, evQ, toScan, pending, task>>
        /\ orphan' = [orphan EXCEPT ![e] = FALSE]
    BY <1>3 DEF IInv, OrphanExpires, relayVars
  <2>2. orphan'[d] => orphan[d]
    BY <2>1 DEF TypeOK
  <2>3. (Ordered(d)' <=> Ordered(d)) /\ (Told(d)' <=> Told(d))
    BY <2>1, OrderedKept
  <2> QED
    BY <2>1, <2>2, <2>3 DEF EachSentOnce, SentOnce, Timely, Unheard, Once, NoneSends, Closing
<1>4. CASE Subscribe \/ UNCHANGED vars
  BY <1>2, <1>4 DEF Subscribe, vars, chainVars, relayVars
<1>5. CASE LoadSnapshot
  BY <1>2, <1>5 DEF LoadSnapshot, chainVars
<1> QED
  BY <1>1, <1>3, <1>4, <1>5, OrderSent, ScanEventSent, HandleDeploySent, HandleEventSent,
     TaskStepSent, CrashSent DEF Next

\* Only a task at the head of the loop, whose event is pending, sends.
LEMMA SendsOnce ==
  ASSUME IInv, EachSentOnce, [Next]_vars
  PROVE  RevoteStep
<1>0. TypeOK
  BY DEF IInv
<1>1. ASSUME NEW t \in Tid, \E b \in BOOLEAN : Send(t, b)
      PROVE  \/ ~acc[task[t].ev].voted
             \/ Told(task[t].ev)
             \/ crashes > 0 /\ deploys[task[t].ev] > 1
  <2>1. task[t].pc = "loop" /\ task[t].ev \in pending /\ task[t].ev \in Events
    BY <1>0, <1>1, EventOfTask DEF Send, StillDue
  <2>2. ~NoneSends(task[t].ev)
    BY <2>1 DEF NoneSends, Sending, Voting, Delivering
  <2>3. ~Once(task[t].ev) => crashes > 0 /\ deploys[task[t].ev] > 1
    BY <1>0, <2>1 DEF Once, TypeOK
  <2> QED BY <2>1, <2>2, <2>3 DEF EachSentOnce, SentOnce, Closing
<1> SUFFICES ASSUME NEW t \in Tid, task[t].pc # "sent", task'[t].pc = "sent"
             PROVE  \E b \in BOOLEAN : Send(t, b)
  <2>1. DOMAIN evQ = 1 .. Len(evQ)
    BY <1>0 DEF TypeOK
  <2> QED BY <1>1, <2>1 DEF RevoteStep, Told, Tells
<1>2. ASSUME NEW u \in Tid, TaskStep(u) \/ Fail(u) PROVE \E b \in BOOLEAN : Send(t, b)
  <2>1. CASE Finish(u)
    BY <1>0, <2>1, FinishProperty
  <2>2. ASSUME NEW pc \in {"preWait", "start", "wait", "ready", "verify", "observe"},
               Goto(u, pc)
        PROVE  FALSE
    BY <1>0, <2>2 DEF Goto, TypeOK, Task
  <2>3. CASE task' = [task EXCEPT ![u].pc = "loop", ![u].gen = gen[task[u].ev]]
    BY <1>0, <2>3 DEF TypeOK, Task
  <2>4. ASSUME NEW b \in BOOLEAN, Send(u, b) PROVE t = u
    BY <1>0, <2>4 DEF Send, TypeOK, Task
  <2> QED
    BY <1>2, <2>1, <2>2, <2>3, <2>4 DEF TaskStep, Preprocess, StartProcessing, Decide, Verify,
       TakeObserver, StopDelivering, Fail, ActOn, AskState
<1>3. ASSUME NEW e \in Events, AnyBlock(e) PROVE FALSE
  <2>1. PICK run, by, lapsed : Block(e, run, by, lapsed)
    BY <1>3 DEF AnyBlock
  <2> QED BY <1>0, <2>1, BlockTasks
<1>4. ASSUME HasFreeTask, NEW e \in Events, NEW pc \in {"start", "preWait", "preReady"},
             task' = Spawn(pc, e)
      PROVE  FALSE
  <2> DEFINE s == CHOOSE u \in Tid : task[u].pc = "idle"
             new == [Idle EXCEPT !.pc = pc, !.ev = e]
  <2>1. s \in Tid /\ new.pc = pc
    BY <1>4 DEF HasFreeTask, Idle
  <2> HIDE DEF s, new
  <2>2. task' = [task EXCEPT ![s] = new]
    BY <1>4 DEF Spawn, s, new
  <2> QED BY <1>0, <2>1, <2>2 DEF TypeOK
<1>5. CASE HandleDeploy
  <2>1. Head(cfgQ) \in Events
    BY <1>0, <1>5, HeadTailProperties DEF HandleDeploy, TypeOK
  <2>2. AskState(Head(cfgQ), "preWait", "preReady") \in {"preWait", "preReady"}
    BY DEF AskState
  <2> QED BY <1>4, <1>5, <2>1, <2>2 DEF HandleDeploy
<1>6. CASE HandleEvent
  <2>1. Head(evQ) \in Notice
    BY <1>0, <1>6, HeadTailProperties DEF HandleEvent, TypeOK
  <2>2. Head(evQ).ev \in Events
    BY <2>1 DEF Notice
  <2> QED BY <1>4, <1>6, <2>2 DEF HandleEvent
<1>7. ASSUME NEW e \in Events, ScanEvent(e) PROVE FALSE
  BY <1>4, <1>7 DEF ScanEvent
<1>8. ~UNCHANGED task
  OBVIOUS
<1>9. ASSUME NEW e \in Events, Order(e) \/ OrphanExpires(e) PROVE FALSE
  BY <1>8, <1>9 DEF Order, OrphanExpires, relayVars
<1>10. CASE Subscribe \/ LoadSnapshot \/ UNCHANGED vars
  BY <1>8, <1>10 DEF Subscribe, LoadSnapshot, vars, relayVars
<1>11. CASE Crash
  BY <1>11 DEF Crash, Idle
<1> QED
  BY <1>2, <1>3, <1>5, <1>6, <1>7, <1>9, <1>10, <1>11 DEF Next

\* A relay never sends a vote for an event again once the contract has recorded
\* one and the relay has handled that transaction, however often the event is
\* deployed, decided, or its vote expires, and across crashes, if the event is
\* deployed once.
THEOREM VotesOnce == Spec => NoRevote
<1>1. IInv /\ EachSentOnce /\ [Next]_vars => EachSentOnce' /\ [RevoteStep]_vars
  BY NextSent, SendsOnce
<1> QED
  BY <1>1, InitSent, Invariance, PTL DEF Spec, NoRevote, RevoteStep
================================================================================
