---------------------------- MODULE MessageStatus ----------------------------
(***************************************************************************)
(* What the pending messages queue promises to the callers of              *)
(* EngineContext::send_ton_message: a caller that waits is told exactly    *)
(* once what became of its message; Delivered only while the chain still   *)
(* accepts the message, Expired only after a block of the message's own    *)
(* shard was generated past its expire_at.                                 *)
(***************************************************************************)
EXTENDS Naturals

CONSTANTS Messages, Callers, Shards, ShardOf, Time

VARIABLES
  clock,   \* clock[s]: generation time of the last block of s
  sent,    \* sent[c]: the message c waits for, with its deadline, if any
  answer   \* answer[c]: what c was told last

absVars == <<clock, sent, answer>>

Answers == {"none", "Delivered", "Expired", "AlreadyExists"}

AbsInit ==
  /\ clock = [s \in Shards |-> 0]
  /\ sent = [c \in Callers |-> {}]
  /\ answer = [c \in Callers |-> "none"]

NewBlock(s) ==
  /\ \E u \in Time : u > clock[s] /\ clock' = [clock EXCEPT ![s] = u]
  /\ UNCHANGED <<sent, answer>>

Submit(c) ==
  /\ sent[c] = {}
  /\ \E m \in Messages, x \in Time :
       /\ clock[ShardOf[m]] <= x
       /\ sent' = [sent EXCEPT ![c] = {[msg |-> m, expire |-> x]}]
  /\ answer' = [answer EXCEPT ![c] = "none"]
  /\ UNCHANGED clock

Refuse(c) ==
  /\ sent[c] = {}
  /\ answer' = [answer EXCEPT ![c] = "AlreadyExists"]
  /\ UNCHANGED <<clock, sent>>

Due(c) == \E p \in sent[c] : clock[ShardOf[p.msg]] > p.expire

Deliver(c) ==
  /\ sent[c] # {} /\ ~Due(c)
  /\ sent' = [sent EXCEPT ![c] = {}]
  /\ answer' = [answer EXCEPT ![c] = "Delivered"]
  /\ UNCHANGED clock

\* One block may be past the deadlines of several messages.
Expire(C) ==
  /\ \A c \in C : Due(c)
  /\ sent' = [c \in Callers |-> IF c \in C THEN {} ELSE sent[c]]
  /\ answer' = [c \in Callers |-> IF c \in C THEN "Expired" ELSE answer[c]]
  /\ UNCHANGED clock

Cancel(c) ==
  /\ sent[c] # {}
  /\ sent' = [sent EXCEPT ![c] = {}]
  /\ UNCHANGED <<clock, answer>>

AbsNext ==
  \/ \E s \in Shards : NewBlock(s)
  \/ \E c \in Callers : Submit(c) \/ Refuse(c) \/ Deliver(c) \/ Cancel(c)
  \/ \E C \in SUBSET Callers : Expire(C)

AbsSpec == AbsInit /\ [][AbsNext]_absVars
==============================================================================
